----------------------------- MODULE MarkedUpdate -----------------------------
(***************************************************************************)
(* What one process of the agent promises to the next one.  Packages       *)
(* change only under a mark on the disk.  What an install did is recorded  *)
(* at once, when the machine is as the new record says, and nothing is     *)
(* changed after that.  The mark goes when the machine is as the record    *)
(* says: whoever finds no mark can rely on the record.                     *)
(***************************************************************************)
CONSTANTS
  Packages,  \* what is installed and recorded
  Sum,       \* checksums, or NoSum
  NoSum      \* not installed, not recorded

VARIABLES
  installed, \* the machine
  recorded,  \* the record on the disk
  phase      \* "clean" without a mark, "open", or "recorded" before the mark goes

vars == <<installed, recorded, phase>>

\* Everything that is recorded is installed; more may be.
Agrees(record, machine) ==
  \A p \in Packages : record[p] # NoSum => machine[p] = record[p]

Init ==
  /\ installed = [p \in Packages |-> NoSum]
  /\ recorded = [p \in Packages |-> NoSum]
  /\ phase = "clean"

Mark ==
  /\ phase = "clean" /\ phase' = "open"
  /\ UNCHANGED <<installed, recorded>>

\* An installation, an uninstallation, a rollback, whole or cut off.
Change ==
  /\ phase = "open"
  /\ \E p \in Packages, sum \in Sum : installed' = [installed EXCEPT ![p] = sum]
  /\ UNCHANGED <<recorded, phase>>

Record ==
  /\ phase = "open" /\ phase' = "recorded"
  /\ recorded' \in [Packages -> Sum] /\ Agrees(recorded', installed)
  /\ UNCHANGED installed

\* A reset, a purge, a file that was cut off.
Forget ==
  /\ recorded' \in [Packages -> Sum]
  /\ \A p \in Packages : recorded'[p] \in {NoSum, recorded[p]}
  /\ UNCHANGED <<installed, phase>>

\* After the record, or after a rollback that leaves the old one true.
Unmark ==
  /\ phase # "clean" /\ phase' = "clean"
  /\ Agrees(recorded, installed)
  /\ UNCHANGED <<installed, recorded>>

\* The process is killed before it took the mark away.
Kill ==
  /\ phase = "recorded" /\ phase' = "open"
  /\ UNCHANGED <<installed, recorded>>

Next == Mark \/ Change \/ Record \/ Forget \/ Unmark \/ Kill

Spec == Init /\ [][Next]_vars
=============================================================================
