---------------------------- MODULE LogSubmission -----------------------------
(***************************************************************************)
(* src/src/rest_comm/jira_log_submitter.rs and utils/zip_utils.rs: threads  *)
(* of one agent that send its log to a ticket.  A request to the listener  *)
(* and a failed rollback force a report, a fatal error and the panic hook  *)
(* send one every few days at most.  All of them use the same archive of   *)
(* the day.  The put of Failed that ends an unforced call is RestListener's *)
(* and RestClient's: nothing here depends on it.                           *)
(***************************************************************************)
EXTENDS Integers, Sequences

CONSTANTS
  Reporters,      \* the threads
  Interval,       \* the days between two unforced reports, 3 in the code
  MaxDay,         \* the last day of the model
  SubmitFaults    \* what may go wrong

\* "flag"     the flag file cannot be opened, written or asked for its time
\* "licence"  there is no licence
\* "create"   the archive cannot be created
\* "read"     the log or the licence cannot be read
\* "net"      the request fails, with the file received or not
\* "remove"   the archive cannot be removed
\* "panic"    a thread panics in code of its own
\* "kill"     the agent is killed, and started again
ASSUME SubmitAssumption ==
  /\ "nobody" \notin Reporters
  /\ Interval \in Nat /\ MaxDay \in Nat
  /\ SubmitFaults \subseteq
       {"flag", "licence", "create", "read", "net", "remove", "panic", "kill"}

VARIABLES
  day,       \* the clock
  flag,      \* the day jira_report_flag was written, or NoFlag
  archives,  \* on disk, for each day: the archive of its name
  reported,  \* the unforced reports the server received
  pc,        \* for each thread: the step that is next, or "idle"
  call       \* for each thread: its call

vars == <<day, flag, archives, reported, pc, call>>

Days == 0..MaxDay
NoFlag == -1
NoArchive == [by |-> "nobody", whole |-> FALSE, spoilt |-> FALSE]
Segments == {<<>>, <<"digit">>, <<"DEV-", "digit">>, <<"DEV-">>, <<"letter">>}
Kinds == {"forced", "unforced", "hook"}

\* kind becomes "hook" when the thread panics; date names the archive, of an unforced
\* call only once check_flag gave it.  seen is the flag that let the call pass; fresh
\* says that it read that flag, and that nobody wrote it meanwhile.  course is how the
\* call went so far: "own" or "another" is the archive the server received, "disturbed"
\* a call that met another one, or a fault that may fail it.
Courses == {"throttled", "passed", "own", "another", "error", "disturbed"}
NewCall(kind) ==
  [kind |-> kind, date |-> IF kind = "forced" THEN day ELSE 0, seen |-> NoFlag, fresh |-> FALSE,
   course |-> IF kind = "forced" THEN "passed" ELSE "throttled"]
NoCall == NewCall("hook")

Init ==
  /\ day = 0 /\ flag = NoFlag /\ reported = {}
  /\ archives = [d \in Days |-> NoArchive]
  /\ pc = [t \in Reporters |-> "idle"]
  /\ call = [t \in Reporters |-> NoCall]

Active == {t \in Reporters : pc[t] # "idle"}

-----------------------------------------------------------------------------
(* Steps of a call *)

Goes(t, next) == pc' = [pc EXCEPT ![t] = next]
Archive(t) == archives[call[t].date]
ArchiveBecomes(t, a) == archives' = [archives EXCEPT ![call[t].date] = a]

\* The call goes wrong by itself, or by a fault.
WentWrong(course, alone) == IF alone /\ course # "disturbed" THEN "error" ELSE "disturbed"

Fails(t, alone) ==
  /\ call' = [call EXCEPT ![t].fresh = FALSE, ![t].course = WentWrong(@, alone)]
  /\ Goes(t, "end")

\* fetch_coupling_rest_comm and others fail and leave everything as it was.
FailsBy(t, fault) ==
  /\ fault \in SubmitFaults
  /\ Fails(t, FALSE)
  /\ UNCHANGED <<day, flag, archives, reported>>

\* send_custom_log takes no ticket, for its own one, or a number with or without
\* "DEV-".  Of another path nothing is called.
IsTicket(segment) ==
  LET bare == IF segment # <<>> /\ Head(segment) = "DEV-" THEN Tail(segment) ELSE segment
  IN  segment = <<>> \/ (bare # <<>> /\ \A i \in DOMAIN bare : bare[i] = "digit")

\* A call begins: for a request or a rollback, after a fatal error, in a panic.
Call(t, kind) ==
  /\ pc[t] = "idle"
  /\ kind = "hook" => "panic" \in SubmitFaults
  /\ call' = [u \in Reporters |->
       IF u = t THEN [NewCall(kind) EXCEPT !.course = IF Active = {} THEN @ ELSE "disturbed"]
       ELSE [call[u] EXCEPT !.course = IF u \in Active THEN "disturbed" ELSE @]]
  /\ Goes(t, IF kind = "forced" THEN "look" ELSE "flag")
  /\ UNCHANGED <<day, flag, archives, reported>>

Request(t, segment) == IsTicket(segment) /\ Call(t, "forced")

(* check_flag: the flag is written before anything is sent, and the day it was
   written names the archive. *)
\* The flag lets the call pass.
Passes(t) ==
  /\ call' = [call EXCEPT ![t].seen = flag, ![t].fresh = TRUE]
  /\ Goes(t, "write_flag")

\* As a bug: a report a little early.
ReadFlagEarly(t) ==
  /\ pc[t] = "flag"
  /\ IF flag = NoFlag \/ day - flag >= Interval THEN Passes(t) ELSE Goes(t, "end") /\ UNCHANGED call
  /\ UNCHANGED <<day, flag, archives, reported>>

ReadFlag(t) ==
  /\ pc[t] = "flag"
  /\ IF flag = NoFlag \/ day - flag > Interval THEN Passes(t) ELSE Goes(t, "end") /\ UNCHANGED call
  /\ UNCHANGED <<day, flag, archives, reported>>

\* A flag that is there and cannot be opened is taken for none.
FlagUnopened(t) ==
  /\ pc[t] = "flag" /\ "flag" \in SubmitFaults /\ flag # NoFlag
  /\ call' = [call EXCEPT ![t].fresh = FALSE]
  /\ Goes(t, "write_flag")
  /\ UNCHANGED <<day, flag, archives, reported>>

WriteFlag(t) ==
  /\ pc[t] = "write_flag"
  /\ flag' = day
  /\ call' = [call EXCEPT ![t].date = day, ![t].seen = NoFlag,
                         ![t].fresh = @ /\ call[t].seen = flag,
                         ![t].course = IF @ = "throttled" THEN "passed" ELSE @]
  /\ Goes(t, "look")
  /\ UNCHANGED <<day, archives, reported>>

\* The file is created anew, and writing to it or asking for its time fails.
WriteFlagFails(t) ==
  /\ pc[t] = "write_flag" /\ "flag" \in SubmitFaults
  /\ flag' = day
  /\ Fails(t, FALSE)
  /\ UNCHANGED <<day, archives, reported>>

(* create_snapshot *)
\* As a bug: what is there is not removed.
LookKeeps(t) ==
  /\ pc[t] = "look"
  /\ Goes(t, "create")
  /\ UNCHANGED <<day, flag, archives, reported, call>>

Look(t) ==
  /\ pc[t] = "look"
  /\ Goes(t, IF Archive(t) = NoArchive THEN "create" ELSE "remove_old")
  /\ UNCHANGED <<day, flag, archives, reported, call>>

RemoveOld(t) ==
  /\ pc[t] = "remove_old"
  /\ IF Archive(t) = NoArchive THEN Fails(t, TRUE) /\ UNCHANGED archives
     ELSE ArchiveBecomes(t, NoArchive) /\ Goes(t, "create") /\ UNCHANGED call
  /\ UNCHANGED <<day, flag, reported>>

\* A panic starts the hook on its thread, and with it a report; a second panic on
\* that thread ends the process.
Restart ==
  /\ pc' = [t \in Reporters |-> "idle"]
  /\ call' = [t \in Reporters |-> NoCall]

Hook(t, alone) ==
  /\ call' = [call EXCEPT ![t].kind = "hook", ![t].date = 0, ![t].fresh = FALSE,
                         ![t].course = WentWrong(@, alone)]
  /\ Goes(t, "flag")

Panics(t, alone) ==
  IF call[t].kind = "hook" THEN Restart
  ELSE Hook(t, alone)

\* Zip::new panics when there is an archive, or it cannot be created.
Create(t) ==
  /\ pc[t] = "create"
  /\ IF Archive(t) # NoArchive THEN Panics(t, TRUE)
     ELSE Goes(t, "open") /\ UNCHANGED call
  /\ UNCHANGED <<day, flag, archives, reported>>

CreateFails(t) ==
  /\ pc[t] = "open" /\ "create" \in SubmitFaults
  /\ Panics(t, FALSE)
  /\ UNCHANGED <<day, flag, archives, reported>>

\* Two that found no archive write to one file.
Open(t) ==
  /\ pc[t] = "open"
  /\ LET writer == Archive(t).by
         shared == /\ writer \in Reporters /\ pc[writer] = "write"
                   /\ call[writer].date = call[t].date
     IN  ArchiveBecomes(t, [by |-> t, whole |-> FALSE, spoilt |-> shared])
  /\ Goes(t, "write")
  /\ UNCHANGED <<day, flag, reported, call>>

\* The licence, the last bytes of the log and what ends an archive, into the file
\* opened, which another may have removed meanwhile.
Write(t) ==
  /\ pc[t] = "write"
  /\ IF Archive(t).by = t THEN ArchiveBecomes(t, [Archive(t) EXCEPT !.whole = ~Archive(t).spoilt])
     ELSE UNCHANGED archives
  /\ Goes(t, "send")
  /\ UNCHANGED <<day, flag, reported, call>>

\* What the throttle is about: the report of an unforced call.
Report(c) == [date |-> c.date, fresh |-> c.fresh]
ReportArrives(t) ==
  reported' = IF call[t].kind = "forced" THEN reported ELSE reported \cup {Report(call[t])}

\* The file of the path is sent, whoever wrote it.  A missing one is a panic, on the
\* thread of the request: the hook reports it and the call fails.
Received(t) ==
  /\ call' = [call EXCEPT ![t].fresh = FALSE, ![t].course =
       IF @ # "passed" THEN @ ELSE IF Archive(t).by = t /\ Archive(t).whole THEN "own" ELSE "another"]
  /\ ReportArrives(t)

Send(t) ==
  /\ pc[t] = "send" /\ Archive(t) # NoArchive
  /\ Received(t)
  /\ Goes(t, "remove_sent")
  /\ UNCHANGED <<day, flag, archives>>

SendPanics(t) ==
  /\ pc[t] = "send" /\ Archive(t) = NoArchive
  /\ Hook(t, TRUE)
  /\ UNCHANGED <<day, flag, archives, reported>>

\* The file arrived and the answer did not.
AnswerLost(t) ==
  /\ pc[t] = "send" /\ Archive(t) # NoArchive /\ "net" \in SubmitFaults
  /\ ReportArrives(t)
  /\ Fails(t, FALSE)
  /\ UNCHANGED <<day, flag, archives>>

RemoveSent(t) ==
  /\ pc[t] = "remove_sent"
  /\ IF Archive(t) = NoArchive THEN Fails(t, TRUE) /\ UNCHANGED archives
     ELSE /\ ArchiveBecomes(t, NoArchive)
          /\ Goes(t, "end")
          /\ UNCHANGED call
  /\ UNCHANGED <<day, flag, reported>>

Return(t) ==
  /\ pc[t] = "end"
  /\ Goes(t, "idle")
  /\ call' = [call EXCEPT ![t] = NoCall]
  /\ UNCHANGED <<day, flag, archives, reported>>

StepFails(t) ==
  \/ pc[t] \in {"flag", "write_flag"} /\ FailsBy(t, "flag")
  \/ pc[t] = "look" /\ FailsBy(t, "licence")
  \/ pc[t] \in {"remove_old", "remove_sent"} /\ FailsBy(t, "remove")
  \/ pc[t] = "write" /\ FailsBy(t, "read")
  \/ pc[t] = "send" /\ Archive(t) # NoArchive /\ FailsBy(t, "net")

Step(t) ==
  \/ ReadFlag(t) \/ WriteFlag(t)
  \/ Look(t) \/ RemoveOld(t) \/ Create(t) \/ Open(t) \/ Write(t)
  \/ Send(t) \/ SendPanics(t) \/ RemoveSent(t) \/ Return(t)

-----------------------------------------------------------------------------
(* Around the agent *)

Tomorrow ==
  /\ day < MaxDay
  /\ day' = day + 1
  /\ UNCHANGED <<flag, archives, reported, pc, call>>

Kill ==
  /\ "kill" \in SubmitFaults
  /\ Restart
  /\ UNCHANGED <<day, flag, archives, reported>>

Next ==
  \/ \E t \in Reporters :
       \/ \E segment \in Segments : Request(t, segment)
       \/ \E kind \in Kinds \ {"forced"} : Call(t, kind)
       \/ Step(t) \/ StepFails(t)
       \/ FlagUnopened(t) \/ WriteFlagFails(t) \/ CreateFails(t) \/ AnswerLost(t)
  \/ Tomorrow \/ Kill

Spec == Init /\ [][Next]_vars

-----------------------------------------------------------------------------
(* Properties *)

SubmitTypeOK ==
  /\ day \in Days /\ flag \in Days \cup {NoFlag}
  /\ reported \subseteq [date : Days, fresh : BOOLEAN]
  /\ archives \in [Days -> [by : Reporters \cup {"nobody"}, whole : BOOLEAN, spoilt : BOOLEAN]]
  /\ \A d \in Days : archives[d].whole => archives[d].by \in Reporters /\ ~archives[d].spoilt
  /\ pc \in [Reporters -> {"idle", "flag", "write_flag", "look", "remove_old", "create",
                           "open", "write", "send", "remove_sent", "end"}]
  /\ \A t \in Reporters :
       call[t].kind \in Kinds /\ call[t].date \in Days /\ call[t].course \in Courses

\* A call that passed the throttle, met no failure and no other call delivers the
\* archive it made, whole, and leaves no archive: whatever killed agents and failed
\* requests left on disk, nothing of that is sent or in the way
\* (create_snapshot, jira_log_submitter.rs:136-138).
LoneReportArrives ==
  \A t \in Reporters :
    pc[t] = "end" /\ call[t].course \notin {"throttled", "disturbed"} =>
      call[t].course = "own" /\ Archive(t) = NoArchive

\* Two reports are apart, or the later one passed without the other's flag.
Apart(a, b) ==
  \/ a.date - b.date > Interval \/ b.date - a.date > Interval
  \/ a.date <= b.date /\ ~b.fresh
  \/ b.date <= a.date /\ ~a.fresh

\* An unforced report that is about to be sent has more than the interval between its
\* date and that of every one that arrived before, through failed and late requests,
\* panics and kills (check_flag, jira_log_submitter.rs:83-132).  The later one of two
\* is only exempt if it did not pass by the flag as it was: a flag that cannot be opened
\* is taken for none and written anew (120-131), and another call may have written it
\* between this one's reading and writing it, which no lock prevents (85-97).
OneReportPerInterval ==
  \A t \in Reporters :
    pc[t] = "send" /\ call[t].kind # "forced" => \A r \in reported : Apart(Report(call[t]), r)
=============================================================================
