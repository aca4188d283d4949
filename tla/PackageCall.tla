------------------------------ MODULE PackageCall ------------------------------
(***************************************************************************)
(* What the install manager relies on when it calls install_command for a  *)
(* package: the call ends with Ok only when the package is as asked and    *)
(* nothing that could change it is still under way; an error says nothing, *)
(* and what was asked for may even come true after it.  The package never  *)
(* becomes anything else than what a call asked for.                       *)
(***************************************************************************)
CONSTANTS
  States,   \* what a package can be: one of its versions, or not installed
  NoCall    \* no call is under way

VARIABLES
  package,  \* what it is
  asked,    \* what the call under way wants it to be, or NoCall
  ordered,  \* what a request already made may still make of it: {} or one state
  answer    \* how the last call ended

Init ==
  /\ package \in States
  /\ asked = NoCall /\ ordered = {} /\ answer = "none"

Call ==
  /\ asked = NoCall
  /\ asked' \in States /\ answer' = "none"
  /\ UNCHANGED <<package, ordered>>

Order ==
  /\ asked # NoCall /\ ordered = {}
  /\ ordered' = {asked}
  /\ UNCHANGED <<package, asked, answer>>

\* The answer to the request may be lost: the call can end in the same step.
OrderAndFail ==
  /\ asked # NoCall /\ ordered = {}
  /\ ordered' = {asked}
  /\ asked' = NoCall /\ answer' = "error"
  /\ UNCHANGED package

Land ==
  /\ package' \in ordered
  /\ ordered' = {}
  /\ UNCHANGED <<asked, answer>>

Drop ==
  /\ ordered # {} /\ ordered' = {}
  /\ UNCHANGED <<package, asked, answer>>

ReturnOk ==
  /\ asked # NoCall
  /\ package = asked /\ ordered = {}
  /\ asked' = NoCall /\ answer' = "ok"
  /\ UNCHANGED <<package, ordered>>

\* An error, or a killed process.
ReturnError ==
  /\ asked # NoCall
  /\ asked' = NoCall /\ answer' \in {"error", "none"}
  /\ UNCHANGED <<package, ordered>>

Next == Call \/ Order \/ OrderAndFail \/ Land \/ Drop \/ ReturnOk \/ ReturnError

Spec == Init /\ [][Next]_<<package, asked, ordered, answer>>
=============================================================================
