----------------------------- MODULE MsiInstaller -----------------------------
(***************************************************************************)
(* src/src/ota/msi_installer.rs (Windows) and what it uses of the Windows  *)
(* installer, for one product: the commands msiexec /x, /jm and /i, of     *)
(* which the machine runs one at a time, the list of installed programs    *)
(* and the keys under Classes\Installer\Products.                          *)
(*                                                                         *)
(* A call of install removes the version it has a saved installer of,      *)
(* installs the new one, looks it up in the list and puts the saved one    *)
(* back when it is not there.  A killed agent leaves its msiexec running.  *)
(***************************************************************************)
EXTENDS Naturals

CONSTANTS
  MsiVersions,  \* the versions of the product there are files of
  Absent,       \* no version
  MaxWaits,     \* the times install waits for the mutex, 60 in the code
  MsiFaults     \* what may go wrong

\* "file"      the file of a call is missing, or cannot be read as an msi
\* "exec"      a command fails and changes nothing
\* "late"      a command does what it is for and reports an error all the same: the
\*             exit code that asks for a reboot, or no log to verify
\* "unlisted"  an installation is missing in the list of programs
\* "other"     another program installs something
\* "kill"      the agent is killed
ASSUME MsiAssumption ==
  /\ Absent \notin MsiVersions
  /\ MaxWaits \in Nat
  /\ MsiFaults \subseteq {"file", "exec", "late", "unlisted", "other", "kill"}

VARIABLES
  files,       \* the machine: the version whose files are there
  listed,      \* the machine: the versions in the list of installed programs
  products,    \* the machine: the versions msiexec has a key for
  running,     \* the machine: the command msiexec executes
  other,       \* the machine: "free", or another installer is "busy"
  saved,       \* the installer saved by the install manager
  pc,          \* the part of install or uninstall that is next
  command,     \* that of the part: "due" to be started, or "started" and waited for
  waits,       \* how often it has waited for the mutex
  call,        \* the call: its operation, its version and the saved one
  before,      \* the version whose files install found when it had the mutex, or "unseen"
  rollback,    \* how its own rollback ended
  verdict      \* what it returned

machine == <<files, listed, products, running, other>>
vars == <<machine, saved, pc, command, waits, call, before, rollback, verdict>>

Versions == MsiVersions \cup {Absent}
NoCommand == [does |-> "nothing", version |-> Absent]

Init ==
  /\ files \in Versions
  /\ listed = MsiVersions \cap {files} /\ products = listed
  /\ running = NoCommand /\ other = "free"
  /\ saved \in {files, Absent}
  /\ pc = "idle" /\ command = "due" /\ waits = 0
  /\ call = [op |-> "none", version |-> Absent, prev |-> Absent]
  /\ before = "unseen" /\ rollback = "none" /\ verdict = "none"

-----------------------------------------------------------------------------
(* The Windows installer *)

Busy == running # NoCommand \/ other = "busy"

\* Another program begins or ends an installation, and touches no version of ours.
OtherInstaller ==
  /\ "other" \in MsiFaults
  /\ IF other = "busy" THEN other' = "free" ELSE ~Busy /\ other' = "busy"
  /\ UNCHANGED <<files, listed, products, running, saved, pc, command, waits, call, before, rollback, verdict>>

\* What a command that works makes of the machine: /x knows only products that
\* have a key, /jm makes one.
Removed(v) ==
  /\ files' = IF files = v THEN Absent ELSE files
  /\ listed' = listed \ {v}
Advertised == UNCHANGED <<files, listed>>
Installed(v) ==
  /\ files' = v
  /\ listed' = listed \cup {v}

Works(does, v) ==
  CASE does = "/x" -> v \in products /\ Removed(v)
    [] does = "/jm" -> Advertised
    [] does = "/i" -> Installed(v)

Keyed(does, v) == IF does = "/x" THEN products \ {v} ELSE products \cup {v}

\* The ends of a command: what it did, the keys it left and what it reported.
Ends(keys, exit) ==
  LET does == running.does
      v == running.version
  IN  /\ running # NoCommand
      /\ running' = NoCommand /\ UNCHANGED other
      /\ \/ Works(does, v) /\ keys = Keyed(does, v)
            /\ exit \in {"ok"} \cup {e \in {"error"} : "late" \in MsiFaults}
         \/ /\ "exec" \in MsiFaults \/ (does = "/x" /\ v \notin products)
            /\ UNCHANGED <<files, listed>> /\ keys = products
            /\ exit = "error"
         \/ /\ "unlisted" \in MsiFaults /\ does = "/i"
            /\ files' = v /\ UNCHANGED listed /\ keys = Keyed(does, v)
            /\ exit = "ok"

-----------------------------------------------------------------------------
(* The calls *)

Called(op, version) ==
  /\ pc = "idle"
  /\ call' = [op |-> op, version |-> version, prev |-> saved]
  /\ waits' = 0 /\ before' = "unseen" /\ rollback' = "none" /\ verdict' = "none"
  /\ UNCHANGED <<machine, saved, command>>

Install(v) == Called("install", v) /\ pc' = "mutex"
Uninstall(v) == Called("uninstall", v) /\ pc' = "uninstall"

\* save_prev_components keeps the installer of what was installed, and none of
\* what was not.
SavePrev ==
  /\ pc = "idle" /\ verdict = "ok"
  /\ saved' = IF call.op = "install" THEN call.version ELSE Absent
  /\ verdict' = "none"
  /\ UNCHANGED <<machine, pc, command, waits, call, before, rollback>>

Returns(result) == pc' = "idle" /\ verdict' = result

\* analyze_msi has no name and no code of such a file.
Unread == "file" \in MsiFaults

FileMissing ==
  /\ Unread
  /\ \/ pc = "mutex" /\ waits = 0
     \/ pc = "uninstall" /\ call.op = "uninstall" /\ command = "due"
  /\ Returns("error")
  /\ UNCHANGED <<machine, saved, command, waits, call, before, rollback>>

\* clean_up_registry_from_code takes the key of the new version away, in case it was
\* left behind; a code that cannot be read has none.
Cleaned(keys, v) ==
  \/ products' = keys \ {v}
  \/ Unread /\ products' = keys

\* The mutex is taken and given back: only who installs holds it for long.
EnsureMutex ==
  /\ pc = "mutex" /\ ~Busy
  /\ before' = files
  /\ IF call.prev # Absent THEN pc' = "uninstall" /\ UNCHANGED products
     ELSE pc' = "advertise" /\ Cleaned(products, call.version)
  /\ UNCHANGED <<files, listed, running, other, saved, command, waits, call, rollback, verdict>>

\* As a bug: the time waited is not added up.
WaitForMutexUncounted ==
  /\ pc = "mutex" /\ Busy
  /\ UNCHANGED vars

WaitForMutex ==
  /\ pc = "mutex" /\ Busy
  /\ IF waits < MaxWaits THEN waits' = waits + 1 /\ UNCHANGED <<pc, verdict>>
     ELSE Returns("error") /\ UNCHANGED waits
  /\ UNCHANGED <<machine, saved, command, call, before, rollback>>

\* The command of every part, and the version it is about.
Command ==
  CASE pc = "uninstall" ->
         [does |-> "/x", version |-> IF call.op = "install" THEN call.prev ELSE call.version]
    [] pc = "advertise" -> [does |-> "/jm", version |-> call.version]
    [] pc = "install" -> [does |-> "/i", version |-> call.version]
    [] pc = "readvertise" -> [does |-> "/jm", version |-> call.prev]
    [] pc = "reinstall" -> [does |-> "/i", version |-> call.prev]

Parts == {"uninstall", "advertise", "install", "readvertise", "reinstall"}

Exec ==
  /\ pc \in Parts /\ command = "due" /\ ~Busy
  /\ running' = Command /\ command' = "started"
  /\ UNCHANGED <<files, listed, products, other, saved, pc, waits, call, before, rollback, verdict>>

-----------------------------------------------------------------------------
(* What follows a command, with the keys it left and what it reported *)

AfterUninstall(keys, exit) ==
  IF call.op = "uninstall"
  THEN Returns(IF exit = "ok" THEN "ok" ELSE "error") /\ products' = keys
  ELSE pc' = "advertise" /\ Cleaned(keys, call.version) /\ UNCHANGED verdict

\* A failure to advertise is only logged.
AfterAdvertise(keys) ==
  /\ pc' = IF pc = "advertise" THEN "install" ELSE "reinstall"
  /\ products' = keys /\ UNCHANGED verdict

\* get_registry_ids after the command.
Listed(v) == v \in listed'

\* As a bug: an exit code that is good is enough.
AfterInstallTrusts(keys, exit) ==
  IF exit = "ok" THEN Returns("ok") /\ products' = keys
  ELSE /\ IF call.prev # Absent THEN pc' = "reinstall" /\ UNCHANGED verdict
          ELSE Returns("error")
       /\ products' = keys

\* As a bug: nothing is put back in the place of a version that is not listed.
AfterInstallGivesUp(keys, exit) ==
  /\ IF exit = "ok" /\ Listed(call.version) THEN Returns("ok")
     ELSE IF call.prev = Absent \/ exit = "ok" THEN Returns("error")
     ELSE pc' = "reinstall" /\ UNCHANGED verdict
  /\ products' = keys

\* Installed is what the list of programs has.  The saved version is put back after
\* an error as it is, otherwise with a new key.
AfterInstall(keys, exit) ==
  IF exit = "ok" /\ Listed(call.version) THEN Returns("ok") /\ products' = keys
  ELSE IF call.prev = Absent THEN Returns("error") /\ products' = keys
  ELSE IF exit = "ok"
  THEN pc' = "readvertise" /\ Cleaned(keys, call.prev) /\ UNCHANGED verdict
  ELSE pc' = "reinstall" /\ products' = keys /\ UNCHANGED verdict

After(keys, exit) ==
  /\ CASE pc = "uninstall" -> AfterUninstall(keys, exit)
       [] pc \in {"advertise", "readvertise"} -> AfterAdvertise(keys)
       [] pc = "install" -> AfterInstall(keys, exit)
       [] OTHER -> Returns("error") /\ products' = keys
  /\ rollback' = IF pc = "reinstall" THEN exit ELSE rollback
  /\ command' = "due"
  /\ UNCHANGED <<saved, waits, call, before>>

CommandEnds ==
  /\ command = "started"
  /\ \E keys \in SUBSET MsiVersions, exit \in {"ok", "error"} :
       Ends(keys, exit) /\ After(keys, exit)

\* Somebody else began after the mutex was looked at.
CommandRefused ==
  /\ pc \in Parts /\ command = "due" /\ Busy
  /\ UNCHANGED <<files, listed, running, other>>
  /\ After(products, "error")

Kill ==
  /\ "kill" \in MsiFaults
  /\ pc # "idle"
  /\ Returns("none") /\ command' = "due"
  /\ UNCHANGED <<machine, saved, waits, call, before, rollback>>

\* The command of a killed agent.
AbandonedEnds ==
  /\ command = "due"
  /\ \E exit \in {"ok", "error"} : Ends(products', exit)
  /\ UNCHANGED <<saved, pc, command, waits, call, before, rollback, verdict>>

-----------------------------------------------------------------------------
Code == EnsureMutex \/ WaitForMutex \/ Exec \/ CommandRefused

Next ==
  \/ \E v \in MsiVersions : Install(v) \/ Uninstall(v)
  \/ SavePrev \/ FileMissing
  \/ Code \/ CommandEnds \/ AbandonedEnds
  \/ OtherInstaller
  \/ Kill

Spec == Init /\ [][Next]_vars

\* The code goes on, and commands end.  The other installer need not.
FairSpec == Spec /\ WF_vars(Code) /\ WF_vars(CommandEnds)

-----------------------------------------------------------------------------
(* Properties *)

\* Every variable has its type, and a command runs while the code waits for it.
MsiTypeOK ==
  /\ files \in Versions /\ saved \in Versions /\ before \in Versions \cup {"unseen"}
  /\ listed \subseteq MsiVersions /\ products \subseteq MsiVersions
  /\ running \in [does: {"nothing", "/x", "/jm", "/i"}, version: Versions]
  /\ other \in {"free", "busy"}
  /\ pc \in {"idle", "mutex"} \cup Parts /\ command \in {"due", "started"}
  /\ command = "started" => pc \in Parts /\ running = Command
  /\ waits \in 0..MaxWaits
  /\ call \in [op: {"none", "install", "uninstall"}, version: Versions, prev: Versions]
  /\ rollback \in {"none", "ok", "error"} /\ verdict \in {"none", "ok", "error"}

\* Ok means that the version is there and in the list of programs, that it can be
\* removed, and that nothing is under way that could change it, whatever calls
\* before left behind: a stale entry in the list, the command of a killed agent
\* (msiexec's exit code and the list, msi_installer.rs:124-153).
OkIsInstalled ==
  pc = "idle" /\ verdict = "ok" /\ call.op = "install" =>
    /\ files = call.version /\ files \in listed /\ files \in products
    /\ running = NoCommand

\* An install that failed after it had the mutex, and after it had removed the saved
\* version, tried to put that back: with the last command working, the version is
\* there and can be removed.  Without a saved version the machine has what was found
\* or what was to be installed, never nothing in the place of something
\* (msi_installer.rs:124-182).
FailedInstallRestores ==
  pc = "idle" /\ verdict = "error" /\ call.op = "install" /\ before # "unseen" =>
    IF call.prev = Absent THEN files \in {before, call.version}
    ELSE /\ rollback # "none"
         /\ rollback = "ok" => files = call.prev /\ files \in products

\* install gives up on the mutex after 300 seconds, though another installer may
\* hold it for ever, and msiexec refuses to run twice (msi_installer.rs:86-100).
MsiCallsReturn == pc # "idle" ~> pc = "idle"
=============================================================================
