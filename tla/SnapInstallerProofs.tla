-------------------------- MODULE SnapInstallerProofs --------------------------
(***************************************************************************)
(* What holds of SnapInstaller for every set of versions and of faults: a  *)
(* call that returned Ok is final, and leaves the snap enabled or disabled *)
(* as it was.  The invariant says which change wait_until_done watches and *)
(* what that change, once done, has made of the snap.                      *)
(***************************************************************************)
EXTENDS SnapInstaller, TLAPS

-----------------------------------------------------------------------------
(* The inductive invariant *)

\* The change that is waited for is the one this call asked for.
WatchesItsOwn ==
  request = "accepted" => change.action = pc /\ change.version = call.version

\* What it has done, once it is done, and nothing after it.
DoneIsDone ==
  request = "accepted" /\ change.status = "Done" =>
    /\ pc \in {"install", "remove"} => snap.version = call.version
    /\ pc = "install" => snap.status = "active"
    /\ pc = "disable" => snap.status = "installed"

\* When the snap is to be disabled again it is in the version asked for, and no
\* change is left that could replace it.
DisablesInstalled ==
  pc = "disable" =>
    /\ snap.version = call.version
    /\ seen = "installed"
    /\ request = "post" => ~InProgress

\* Every part belongs to its operation.
PartsBelong ==
  /\ pc \in {"status", "enable", "install", "disable"} => call.op = "install"
  /\ pc = "remove" => call.op # "install"
  /\ pc \in {"name", "status"} => seen = "unknown"

\* Nothing is under way after Ok.
OkIsFinal ==
  pc = "idle" /\ verdict = "ok" =>
    /\ ~InProgress
    /\ snap.version = call.version
    /\ call.op = "install" => seen \in {"unknown", snap.status}

\* snapd only does what somebody asked for.
ChangesAreAsked == InProgress => change.action \in Requests

SnapInv ==
  /\ SnapTypeOK /\ ChangesAreAsked
  /\ WatchesItsOwn /\ DoneIsDone /\ DisablesInstalled /\ PartsBelong /\ OkIsFinal

-----------------------------------------------------------------------------
(* Each group of actions keeps it *)

\* A new call starts from nothing but what is left of the earlier ones.
LEMMA CallerKeeps == SnapInv /\ Caller => SnapInv'
<1> SUFFICES ASSUME SnapInv, Caller PROVE SnapInv'
  OBVIOUS
<1> USE DEF SnapInv, SnapTypeOK, WatchesItsOwn, DoneIsDone, DisablesInstalled,
            PartsBelong, OkIsFinal, ChangesAreAsked, Called, InProgress,
            Versions, Requests, Statuses
<1>1. ASSUME NEW v \in SnapVersions, Install(v) PROVE SnapInv'
  BY <1>1 DEF Install
<1>2. CASE Uninstall
  BY <1>2 DEF Uninstall
<1>3. CASE Cleanup
  BY <1>3 DEF Cleanup
<1>4. QED
  BY <1>1, <1>2, <1>3 DEF Caller

\* A call goes on as its request went, or returns.
LEMMA WorksKeeps == SnapInv /\ Works => SnapInv'
<1> SUFFICES ASSUME SnapInv, Works PROVE SnapInv'
  OBVIOUS
<1> USE DEF SnapInv, SnapTypeOK, WatchesItsOwn, DoneIsDone, DisablesInstalled,
            PartsBelong, OkIsFinal, ChangesAreAsked, Goes, Returns, InProgress,
            DisableAfterInstall, Versions, Requests, Statuses
<1>1. CASE ExtractSnapName
  BY <1>1 DEF ExtractSnapName
<1>2. CASE ExtractSnapEnabled
  BY <1>2 DEF ExtractSnapEnabled
<1>3. CASE NoSuchSnap
  BY <1>3 DEF NoSuchSnap, TakenForEnabled
<1>4. CASE Post
  BY <1>4 DEF Post, Accepted, Accepts
<1>5. CASE PostRefused
  BY <1>5 DEF PostRefused, PartOver
<1>6. CASE Poll
  BY <1>6 DEF Poll, PartOver
<1>7. QED
  BY <1>1, <1>2, <1>3, <1>4, <1>5, <1>6 DEF Works

\* A failed command ends the call, or is passed over.
LEMMA CommandFailsKeeps == SnapInv /\ CommandFails => SnapInv'
<1> SUFFICES ASSUME SnapInv, CommandFails PROVE SnapInv'
  OBVIOUS
<1> USE DEF SnapInv, SnapTypeOK, WatchesItsOwn, DoneIsDone, DisablesInstalled,
            PartsBelong, OkIsFinal, ChangesAreAsked, Goes, Returns, InProgress,
            DisableAfterInstall, Versions, Requests, Statuses
<1>1. CASE FileMissing
  BY <1>1 DEF FileMissing
<1>2. CASE ExtractSnapNameFails
  BY <1>2 DEF ExtractSnapNameFails
<1>3. CASE ExtractSnapEnabledFails
  BY <1>3 DEF ExtractSnapEnabledFails, TakenForEnabled
<1>4. CASE PostFails
  BY <1>4 DEF PostFails, PartOver
<1>5. CASE AnswerLost
  BY <1>5 DEF AnswerLost, Accepted, Accepts, PartOver
<1>6. CASE PollFails
  BY <1>6 DEF PollFails, PartOver
<1>7. QED
  BY <1>1, <1>2, <1>3, <1>4, <1>5, <1>6 DEF CommandFails

\* Whatever snapd does is done by the change that is waited for, or before
\* anybody waits.
LEMMA SnapdKeeps == SnapInv /\ (Snapd \/ Fail) => SnapInv'
<1> SUFFICES ASSUME SnapInv, Snapd \/ Fail PROVE SnapInv'
  OBVIOUS
<1> USE DEF SnapInv, SnapTypeOK, WatchesItsOwn, DoneIsDone, DisablesInstalled,
            PartsBelong, OkIsFinal, ChangesAreAsked, InProgress, Versions,
            Requests, Statuses
<1>1. CASE Start
  BY <1>1 DEF Start
<1>2. CASE Finish
  BY <1>2 DEF Finish, Effect
<1>3. CASE Undone
  BY <1>3 DEF Undone
<1>4. CASE Fail
  BY <1>4 DEF Fail
<1>5. QED
  BY <1>1, <1>2, <1>3, <1>4 DEF Snapd

\* A killed call promises nothing; between calls the snap may be enabled and
\* disabled by hand.
LEMMA OthersKeep ==
  SnapInv /\ (Kill \/ \E status \in Statuses : SetStatus(status)) => SnapInv'
<1> SUFFICES ASSUME SnapInv,
            Kill \/ \E status \in Statuses : SetStatus(status) PROVE SnapInv'
  OBVIOUS
<1> USE DEF SnapInv, SnapTypeOK, WatchesItsOwn, DoneIsDone, DisablesInstalled,
            PartsBelong, OkIsFinal, ChangesAreAsked, Returns, InProgress,
            DisableAfterInstall, Versions, Requests, Statuses
<1>1. CASE Kill
  BY <1>1 DEF Kill
<1>2. ASSUME NEW status \in Statuses, SetStatus(status) PROVE SnapInv'
  BY <1>2 DEF SetStatus
<1>3. QED
  BY <1>1, <1>2

LEMMA InitInv == Init => SnapInv
BY DEF Init, NoChange, SnapInv, SnapTypeOK, WatchesItsOwn, DoneIsDone,
  DisablesInstalled, PartsBelong, OkIsFinal, ChangesAreAsked, InProgress,
            Versions, Requests, Statuses

LEMMA NextInv == SnapInv /\ [Next]_vars => SnapInv'
<1>1. SnapInv /\ UNCHANGED vars => SnapInv'
  BY DEF vars, SnapInv, SnapTypeOK, WatchesItsOwn, DoneIsDone,
    DisablesInstalled, PartsBelong, OkIsFinal, ChangesAreAsked, InProgress
<1>2. QED
  BY <1>1, CallerKeeps, WorksKeeps, CommandFailsKeeps, SnapdKeeps,
            OthersKeep DEF Next

LEMMA Invariant == Spec => []SnapInv
BY InitInv, NextInv, PTL DEF Spec

-----------------------------------------------------------------------------
(* The theorems *)

\* Type correctness: every state of the calls and of snapd's change is of its
\* type, for any files and any faults.
THEOREM SnapTypeCorrect == Spec => []SnapTypeOK
<1>1. SnapInv => SnapTypeOK
  BY DEF SnapInv
<1>2. QED
  BY <1>1, Invariant, PTL

\* An installation that returned Ok left the status of the snap as it found it.
THEOREM DisabledStaysDisabledHolds == Spec => []DisabledStaysDisabled
<1>1. SnapInv => DisabledStaysDisabled
  BY DEF SnapInv, OkIsFinal, DisabledStaysDisabled
<1>2. QED
  BY <1>1, Invariant, PTL

\* The initial states are those of the promise.
LEMMA InitPromise == Init => Promise!Init
BY DEF Init, NoChange, Promise!Init, Asked, Ordered, InProgress

\* The state of the promise.
promised == <<snap.version, Asked, Ordered, verdict>>

\* Calling is calling.
LEMMA CallerPromises == SnapInv /\ Caller => Promise!Call
<1> SUFFICES ASSUME SnapInv, Caller PROVE Promise!Call
  OBVIOUS
<1> USE DEF Called, Promise!Call, Asked, Ordered, InProgress, Versions
<1>1. ASSUME NEW v \in SnapVersions, Install(v) PROVE Promise!Call
  BY <1>1 DEF Install
<1>2. CASE Uninstall
  BY <1>2 DEF Uninstall
<1>3. CASE Cleanup
  BY <1>3 DEF Cleanup
<1>4. QED
  BY <1>1, <1>2, <1>3 DEF Caller

\* A failed call returns an error; it has ordered something if only the answer
\* was lost.
LEMMA CommandFailsPromises ==
  SnapInv /\ CommandFails => [Promise!Next]_promised
<1> SUFFICES ASSUME SnapInv, CommandFails PROVE [Promise!Next]_promised
  OBVIOUS
<1> USE SnapAssumption DEF SnapInv, SnapTypeOK, Goes, Returns, PartOver,
            DisableAfterInstall,
      Asked, Ordered, InProgress, Versions, Requests, promised,
      Promise!Next, Promise!ReturnError, Promise!OrderAndFail, Promise!Order
<1>1. CASE FileMissing
  BY <1>1 DEF FileMissing
<1>2. CASE ExtractSnapNameFails
  BY <1>2 DEF ExtractSnapNameFails
<1>3. CASE ExtractSnapEnabledFails
  BY <1>3 DEF ExtractSnapEnabledFails, TakenForEnabled
<1>4. CASE PostFails
  BY <1>4 DEF PostFails
<1>5. CASE AnswerLost
  BY <1>5 DEF AnswerLost, Accepted, Accepts
<1>6. CASE PollFails
  BY <1>6 DEF PollFails
<1>7. QED
  BY <1>1, <1>2, <1>3, <1>4, <1>5, <1>6 DEF CommandFails

\* A call that goes on orders at most what it wants, and returns Ok only when it
\* has it.
LEMMA WorksPromises == SnapInv /\ Works => [Promise!Next]_promised
<1> SUFFICES ASSUME SnapInv, Works PROVE [Promise!Next]_promised
  OBVIOUS
<1> USE SnapAssumption DEF SnapInv, SnapTypeOK, Goes, Returns, PartOver,
            DisableAfterInstall,
      Asked, Ordered, InProgress, Versions, Requests, Statuses, promised,
            Promise!Next
<1>1. CASE ExtractSnapName
  BY <1>1 DEF ExtractSnapName
<1>2. CASE ExtractSnapEnabled
  BY <1>2 DEF ExtractSnapEnabled
<1>3. CASE NoSuchSnap
  BY <1>3 DEF NoSuchSnap, TakenForEnabled
<1>4. CASE Post
  BY <1>4 DEF Post, Accepted, Accepts, Promise!Order
<1>5. CASE PostRefused
  BY <1>5 DEF PostRefused, Promise!ReturnError
<1>6. CASE Poll
  <2>1. CASE change.status = "Done"
    BY <1>6, <2>1 DEF Poll, DoneIsDone, DisablesInstalled, PartsBelong,
            WatchesItsOwn,
      Promise!ReturnOk
  <2>2. CASE change.status # "Done"
    BY <1>6, <2>2 DEF Poll, Promise!ReturnError
  <2>3. QED
    BY <2>1, <2>2
<1>7. QED
  BY <1>1, <1>2, <1>3, <1>4, <1>5, <1>6 DEF Works

\* A change lands when snapd has finished it, and is dropped when it is undone.
LEMMA SnapdPromises == SnapInv /\ (Snapd \/ Fail) => [Promise!Next]_promised
<1> SUFFICES ASSUME SnapInv, Snapd \/ Fail PROVE [Promise!Next]_promised
  OBVIOUS
<1> USE DEF SnapInv, SnapTypeOK, Asked, Ordered, InProgress, Versions, Requests,
      promised, Promise!Next
<1>1. CASE Start
  BY <1>1 DEF Start
<1>2. CASE Finish
  <2>1. CASE change.action \in {"enable", "disable"}
    BY <1>2, <2>1 DEF Finish, Effect
  <2>2. CASE change.action \in {"install", "remove"}

               <3>1. snap.version' = change.version /\ Ordered = {change.version} /\ Ordered' = {}
      BY <1>2, <2>2 DEF Finish, Effect
    <3>2. UNCHANGED <<Asked, verdict>>
      BY <1>2 DEF Finish
    <3>3. QED
      BY <3>1, <3>2 DEF Promise!Land
  <2>3. QED
    BY <1>2, <2>1, <2>2 DEF Finish, ChangesAreAsked
<1>3. CASE Undone
  BY <1>3 DEF Undone, Promise!Drop
<1>4. CASE Fail
  BY <1>4 DEF Fail
<1>5. QED
  BY <1>1, <1>2, <1>3, <1>4 DEF Snapd

\* A kill ends the call without an answer; the status of the snap is none of the
\* promise's concern.
LEMMA OthersPromise ==
  SnapInv /\ (Kill \/ \E status \in Statuses : SetStatus(status))
    => [Promise!Next]_promised
<1> SUFFICES ASSUME SnapInv, Kill \/ \E status \in Statuses : SetStatus(status)
             PROVE  [Promise!Next]_promised
  OBVIOUS
<1> USE DEF SnapInv, SnapTypeOK, Asked, Ordered, InProgress, promised, Promise!Next
<1>1. CASE Kill
  BY <1>1, SnapAssumption DEF Kill, Returns, Versions, Promise!ReturnError
<1>2. ASSUME NEW status \in Statuses,
            SetStatus(status) PROVE [Promise!Next]_promised
  BY <1>2 DEF SetStatus
<1>3. QED
  BY <1>1, <1>2

\* The calls implement what the install manager relies on: Ok only when the
\* package is as asked with nothing under way, whatever the calls before left.
THEOREM PackagePromiseKept == Spec => KeepsPackagePromise
<1>1. SnapInv /\ UNCHANGED vars => UNCHANGED promised
  BY DEF vars, promised, Asked, Ordered, InProgress
<1>2. SnapInv /\ [Next]_vars => [Promise!Next]_promised
  BY <1>1, CallerPromises, CommandFailsPromises, WorksPromises, SnapdPromises,
    OthersPromise DEF Next, Promise!Next
<1>3. QED
  BY <1>2, InitPromise, Invariant, PTL
    DEF Spec, KeepsPackagePromise, Promise!Spec, promised
=============================================================================
