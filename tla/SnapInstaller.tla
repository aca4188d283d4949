----------------------------- MODULE SnapInstaller -----------------------------
(***************************************************************************)
(* src/src/ota/snap_installer.rs (Linux) and the part of snapd it talks    *)
(* to.  A call of install enables the snap if it finds it disabled, posts  *)
(* the file, waits for the change to be done and disables the snap again;  *)
(* a call of uninstall posts a removal and waits.  Every request starts a  *)
(* change that snapd carries out on its own, whether or not anyone waits   *)
(* for it: a call that gave up, or a process that was killed, leaves a     *)
(* change running behind the back of the next call.                        *)
(*                                                                         *)
(* The calls for one snap follow one another in any order, as those of     *)
(* install_manifest, its rollback and the resets do.                       *)
(***************************************************************************)
CONSTANTS
  SnapVersions, \* the versions there are files of
  Absent,       \* the snap is not installed
  SnapFaults    \* what may go wrong

\* "file"   the file of a call is missing
\* "exec"   a command fails, or its answer cannot be understood
\* "lost"   a request reaches snapd, its answer does not come back
\* "undo"   a change fails, and is undone
\* "kill"   the agent is killed
ASSUME SnapAssumption ==
  /\ Absent \notin SnapVersions
  /\ "no call" \notin SnapVersions \cup {Absent}
  /\ SnapFaults \subseteq {"file", "exec", "lost", "undo", "kill"}

VARIABLES
  snap,     \* snapd: the version installed and its status
  change,   \* snapd: the last change it accepted for the snap
  pc,       \* the part of install or uninstall that is next
  request,  \* that of the part: to be posted, or accepted and waited for
  call,     \* the last call: its operation and the version wanted
  seen,     \* the status extract_snap_enabled found for the last install, until
            \* somebody changes it afterwards
  verdict   \* what the last call returned

vars == <<snap, change, pc, request, call, seen, verdict>>

Requests == {"enable", "install", "disable", "remove"}
Versions == SnapVersions \cup {Absent}

\* "active" is enabled, "installed" is disabled.
Statuses == {"active", "installed"}

NoChange == [action |-> "none", version |-> Absent, status |-> "Done"]

Init ==
  /\ snap \in [version: Versions, status: Statuses]
  /\ change = NoChange
  /\ pc = "idle" /\ request = "post"
  /\ call = [op |-> "none", version |-> Absent]
  /\ seen = "unknown" /\ verdict = "none"

-----------------------------------------------------------------------------
(* snapd *)

InProgress == change.status \in {"Do", "Doing", "Undoing"}

\* snapd has one change of a snap at a time, and refuses one that makes no
\* sense; it does not install over a disabled snap, which is why the code
\* enables it first.
Accepts(action) ==
  /\ ~InProgress
  /\ action = "install" => snap.version = Absent \/ snap.status = "active"
  /\ action = "enable" => snap.version # Absent /\ snap.status = "installed"
  /\ action = "disable" => snap.version # Absent /\ snap.status = "active"
  /\ action = "remove" => snap.version # Absent

Start ==
  /\ change.status = "Do"
  /\ change' = [change EXCEPT !.status = "Doing"]
  /\ UNCHANGED <<snap, pc, request, call, seen, verdict>>

\* What the change makes of the snap.
Effect ==
  CASE change.action = "enable" -> [snap EXCEPT !.status = "active"]
    [] change.action = "disable" -> [snap EXCEPT !.status = "installed"]
    [] OTHER -> [version |-> change.version, status |-> "active"]

Finish ==
  /\ change.status = "Doing"
  /\ change' = [change EXCEPT !.status = "Done"]
  /\ snap' = Effect
  /\ UNCHANGED <<pc, request, call, seen, verdict>>

\* The status is none that wait_until_done knows while the change is undone, and
\* after that.
Fail ==
  /\ "undo" \in SnapFaults
  /\ change.status = "Doing"
  /\ change' = [change EXCEPT !.status = "Undoing"]
  /\ UNCHANGED <<snap, pc, request, call, seen, verdict>>

Undone ==
  /\ change.status = "Undoing"
  /\ change' = [change EXCEPT !.status = "Error"]
  /\ UNCHANGED <<snap, pc, request, call, seen, verdict>>

\* Somebody at the machine enables or disables the snap between two calls.
SetStatus(status) ==
  /\ pc = "idle" /\ ~InProgress
  /\ snap.version # Absent /\ snap.status # status
  /\ snap' = [snap EXCEPT !.status = status]
  /\ seen' = "unknown"
  /\ UNCHANGED <<change, pc, request, call, verdict>>

-----------------------------------------------------------------------------
(* The calls, up to the first request *)

Called(op, version) ==
  /\ pc = "idle"
  /\ call' = [op |-> op, version |-> version]
  /\ seen' = "unknown" /\ verdict' = "none"
  /\ UNCHANGED <<snap, change, request>>

Install(v) == Called("install", v) /\ pc' = "name"
Uninstall == Called("remove", Absent) /\ pc' = "name"

\* cleanup_deprecated_if_needed: a deprecated snap is removed if it is there.
Cleanup == snap.version # Absent /\ Called("cleanup", Absent) /\ pc' = "remove"

Goes(next) == pc' = next /\ UNCHANGED verdict
Returns(result) == pc' = "idle" /\ verdict' = result

FileMissing ==
  /\ "file" \in SnapFaults
  /\ pc = "name"
  /\ Returns("error")
  /\ UNCHANGED <<snap, change, request, call, seen>>

ExtractSnapName ==
  /\ pc = "name"
  /\ Goes(IF call.op = "install" THEN "status" ELSE "remove")
  /\ UNCHANGED <<snap, change, request, call, seen>>

\* An installation goes on without the name, a removal cannot.
ExtractSnapNameFails ==
  /\ "exec" \in SnapFaults
  /\ pc = "name"
  /\ IF call.op = "install" THEN Goes("install") ELSE Returns("error")
  /\ UNCHANGED <<snap, change, request, call, seen>>

\* disable_after_install
DisableAfterInstall == seen = "installed"

\* As a bug: the file is posted over the disabled snap.
ExtractSnapEnabledOnly ==
  /\ pc = "status" /\ snap.version # Absent
  /\ seen' = snap.status
  /\ pc' = "install"
  /\ UNCHANGED <<snap, change, request, call, verdict>>

ExtractSnapEnabled ==
  /\ pc = "status" /\ snap.version # Absent
  /\ seen' = snap.status
  /\ pc' = IF DisableAfterInstall' THEN "enable" ELSE "install"
  /\ UNCHANGED <<snap, change, request, call, verdict>>

\* No such snap, or no answer: taken for enabled.
TakenForEnabled ==
  /\ pc = "status"
  /\ Goes("install")
  /\ UNCHANGED <<snap, change, request, call, seen>>

NoSuchSnap == snap.version = Absent /\ TakenForEnabled
ExtractSnapEnabledFails == "exec" \in SnapFaults /\ TakenForEnabled

-----------------------------------------------------------------------------
(* A request and wait_until_done: what follows each of them.  That enabling  *)
(* failed is only logged; every other failure ends the call.                 *)

\* As a bug: a disabled snap is left as the installation left it.
PartOverLeavesEnabled(ok) ==
  /\ request' = "post"
  /\ IF pc = "enable" THEN Goes("install")
     ELSE Returns(IF ok THEN "ok" ELSE "error")

PartOver(ok) ==
  /\ request' = "post"
  /\ IF pc = "enable" THEN Goes("install")
     ELSE IF pc = "install" /\ ok /\ DisableAfterInstall THEN Goes("disable")
     ELSE Returns(IF ok THEN "ok" ELSE "error")

Accepted ==
  /\ pc \in Requests /\ request = "post"
  /\ Accepts(pc)
  /\ change' = [action |-> pc, version |-> call.version, status |-> "Do"]

Post ==
  /\ Accepted
  /\ request' = "accepted"
  /\ UNCHANGED <<snap, pc, call, seen, verdict>>

\* As a bug: the code of the answer is not looked at, and the change that is
\* under way is taken for the one asked for.
PostRefusedUnseen ==
  /\ pc \in Requests /\ request = "post"
  /\ ~Accepts(pc)
  /\ request' = "accepted"
  /\ UNCHANGED <<snap, change, pc, call, seen, verdict>>

PostRefused ==
  /\ pc \in Requests /\ request = "post"
  /\ ~Accepts(pc)
  /\ PartOver(FALSE)
  /\ UNCHANGED <<snap, change, call, seen>>

PostFails ==
  /\ "exec" \in SnapFaults
  /\ pc \in Requests /\ request = "post"
  /\ PartOver(FALSE)
  /\ UNCHANGED <<snap, change, call, seen>>

AnswerLost ==
  /\ "lost" \in SnapFaults
  /\ Accepted
  /\ PartOver(FALSE)
  /\ UNCHANGED <<snap, call, seen>>

\* As a bug: only Done ends the loop.
PollUntilDone ==
  /\ request = "accepted" /\ change.status = "Done"
  /\ PartOver(TRUE)
  /\ UNCHANGED <<snap, change, call, seen>>

\* "Do" and "Doing" are asked for again a second later.
Poll ==
  /\ request = "accepted" /\ change.status \notin {"Do", "Doing"}
  /\ PartOver(change.status = "Done")
  /\ UNCHANGED <<snap, change, call, seen>>

PollFails ==
  /\ "exec" \in SnapFaults
  /\ request = "accepted"
  /\ PartOver(FALSE)
  /\ UNCHANGED <<snap, change, call, seen>>

\* The next process calls when it has found out what was interrupted.
Kill ==
  /\ "kill" \in SnapFaults
  /\ pc # "idle"
  /\ request' = "post"
  /\ Returns("none")
  /\ UNCHANGED <<snap, change, call, seen>>

-----------------------------------------------------------------------------
\* A call as it goes when every command works; a change may still fail.
Works ==
  \/ ExtractSnapName \/ ExtractSnapEnabled \/ NoSuchSnap
  \/ Post \/ PostRefused \/ Poll

CommandFails ==
  \/ FileMissing
  \/ ExtractSnapNameFails \/ ExtractSnapEnabledFails
  \/ PostFails \/ AnswerLost \/ PollFails

Snapd == Start \/ Finish \/ Undone

Caller == Uninstall \/ Cleanup \/ \E v \in SnapVersions : Install(v)

Next ==
  \/ Caller
  \/ Works \/ CommandFails
  \/ Snapd \/ Fail
  \/ Kill
  \/ \E status \in Statuses : SetStatus(status)

Spec == Init /\ [][Next]_vars

\* Commands return, and snapd works on the changes it accepted.  Nothing has to
\* go wrong.
FairSpec == Spec /\ WF_vars(Works) /\ WF_vars(Snapd)

-----------------------------------------------------------------------------
(* Properties *)

\* Every variable has its type, and wait_until_done follows a request.
SnapTypeOK ==
  /\ snap \in [version: Versions, status: Statuses]
  /\ change \in [action: Requests \cup {"none"}, version: Versions,
                 status: {"Do", "Doing", "Done", "Undoing", "Error"}]
  /\ pc \in {"idle", "name", "status"} \cup Requests
  /\ request \in {"post", "accepted"} /\ (request = "accepted" => pc \in Requests)
  /\ call \in [op: {"none", "install", "remove", "cleanup"}, version: Versions]
  /\ seen \in Statuses \cup {"unknown"}
  /\ verdict \in {"none", "ok", "error"}

\* What the call under way wants, and what a change under way will make of it.
Asked == IF pc = "idle" THEN "no call" ELSE call.version
Ordered ==
  IF InProgress /\ change.action \in {"install", "remove"}
  THEN {change.version} ELSE {}

\* install_command keeps what the install manager relies on: after Ok the snap is
\* in the version asked for and no change is left that could replace it, though
\* calls before may have given up on theirs (wait_until_done and the check of
\* the code 202, snap_installer.rs:56, 121).
Promise == INSTANCE PackageCall WITH
  States <- Versions, NoCall <- "no call",
  package <- snap.version, asked <- Asked, ordered <- Ordered, answer <- verdict
KeepsPackagePromise == Promise!Spec

\* An installation that returned Ok left the snap enabled or disabled as it had
\* found it, whatever enabling it first and changes of earlier calls did in
\* between (disable_after_install, snap_installer.rs:99-128).
DisabledStaysDisabled ==
  pc = "idle" /\ verdict = "ok" /\ call.op = "install" =>
    seen \in {"unknown", snap.status}

\* wait_until_done has no limit, and needs none as long as snapd goes on: every
\* call returns, one whose change failed included.
CallsReturn == pc # "idle" ~> pc = "idle"

\* What happens when nothing goes wrong and the caller wants v.
Calm(v) == Install(v) \/ Works \/ Snapd \/ \E status \in Statuses : SetStatus(status)

\* Repeating an installation is enough after any failures, abandoned changes
\* included: the snap gets to the version, and stays there.
RepeatedInstallSucceeds ==
  \A v \in SnapVersions :
    <>[][Calm(v)]_vars /\ []<><<Install(v)>>_vars => <>[](snap.version = v)
=============================================================================
