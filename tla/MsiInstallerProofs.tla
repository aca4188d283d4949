--------------------------- MODULE MsiInstallerProofs ---------------------------
(***************************************************************************)
(* What holds of MsiInstaller for every set of versions and of faults and  *)
(* any number of waits: Ok means installed, and an install that failed has *)
(* tried to put the saved version back.  The invariant says that from the  *)
(* mutex to the return nothing but the call's own command changes the      *)
(* machine, whatever an earlier agent left running.                        *)
(***************************************************************************)
EXTENDS MsiInstaller, TLAPS

-----------------------------------------------------------------------------
(* The inductive invariant *)

Installing == pc \in Parts /\ call.op = "install"

\* The parts belong to their operations, and the saved version is there to be put
\* back where it is.
PartsBelong ==
  /\ pc # "idle" => call.op # "none" /\ call.version \in MsiVersions /\ rollback = "none"
  /\ pc = "mutex" => call.op = "install" /\ before = "unseen" /\ command = "due"
  /\ pc \in Parts \ {"uninstall"} => call.op = "install"
  /\ pc = "uninstall" /\ call.op = "install" => call.prev # Absent
  /\ pc \in {"readvertise", "reinstall"} => call.prev # Absent
  /\ call.op = "uninstall" => before = "unseen"

\* Only versions there are files of are installed or advertised.
CommandsHaveFiles ==
  /\ running.does \in {"/jm", "/i"} => running.version \in MsiVersions
  /\ running.does = "nothing" => running = NoCommand

\* While a call installs, the only command is its own.
Undisturbed == Installing /\ command = "due" => running = NoCommand

\* Without a saved version nothing was removed.
NothingRemoved == Installing /\ call.prev = Absent => files \in {before, call.version}

\* A failed install leaves no command behind.
FailedIsOver ==
  pc = "idle" /\ verdict = "error" /\ call.op = "install" /\ before # "unseen"
    => running = NoCommand

MsiInv ==
  /\ MsiTypeOK /\ PartsBelong /\ CommandsHaveFiles
  /\ Undisturbed /\ NothingRemoved /\ FailedIsOver
  /\ OkIsInstalled /\ FailedInstallRestores

-----------------------------------------------------------------------------
(* Commands *)

\* A version is one there are files of, or none.
LEMMA VersionCases ==
  /\ Absent \in Versions
  /\ \A v \in MsiVersions : v \in Versions /\ v # Absent
  /\ \A v \in Versions : v # Absent => v \in MsiVersions
  BY MsiAssumption DEF Versions

CommandSet == [does: {"nothing", "/x", "/jm", "/i"}, version: Versions]

LEMMA NoCommandTypes == NoCommand \in CommandSet /\ NoCommand.does = "nothing"
  BY VersionCases DEF NoCommand, CommandSet

\* Every part has a command of its own.
LEMMA SameCommand == ASSUME UNCHANGED <<pc, call>> PROVE Command' = Command
  BY DEF Command

\* The command of a part that installs or advertises has a version with files.
LEMMA CommandTypes ==
  ASSUME MsiInv, pc \in Parts
  PROVE  /\ Command \in [does: {"/x", "/jm", "/i"}, version: Versions]
         /\ Command.does \in {"/jm", "/i"} => Command.version \in MsiVersions
         /\ pc = "install" => Command = [does |-> "/i", version |-> call.version]
         /\ pc = "reinstall" => Command = [does |-> "/i", version |-> call.prev]
         /\ pc \in {"advertise", "readvertise"} => Command.does = "/jm"
         /\ Command # NoCommand
<1> USE VersionCases DEF MsiInv, MsiTypeOK, PartsBelong, NoCommand
<1>1. CASE pc = "uninstall"
  BY <1>1 DEF Command
<1>2. CASE pc = "advertise"
  BY <1>2 DEF Command, Parts
<1>3. CASE pc = "install"
  BY <1>3 DEF Command, Parts
<1>4. CASE pc = "readvertise"
  BY <1>4 DEF Command, Parts
<1>5. CASE pc = "reinstall"
  BY <1>5 DEF Command, Parts
<1>6. QED
  BY <1>1, <1>2, <1>3, <1>4, <1>5 DEF Parts

\* What a command that ended has done: the machine keeps its types, an advertisement
\* changes no files, and an installation that reported success is there.
LEMMA EndsTypes ==
  ASSUME MsiInv, NEW keys, NEW exit, Ends(keys, exit)
  PROVE  /\ files' \in Versions /\ listed' \subseteq MsiVersions /\ keys \subseteq MsiVersions
         /\ running' = NoCommand /\ other' = other
         /\ exit \in {"ok", "error"}
         /\ running.does = "/jm" => files' = files
         /\ running.does = "/i" => files' \in {files, running.version}
         /\ running.does = "/i" /\ exit = "ok" =>
              files' = running.version /\ running.version \in keys
<1> DEFINE does == running.does
           v == running.version
<1> USE VersionCases DEF MsiInv, MsiTypeOK, CommandsHaveFiles, Keyed
<1>1. running' = NoCommand /\ other' = other /\ running # NoCommand
  BY DEF Ends
<1>2. CASE Works(does, v) /\ keys = Keyed(does, v)
            /\ exit \in {"ok"} \cup {e \in {"error"} : "late" \in MsiFaults}
  <2>1. CASE does = "/x"
    BY <1>1, <1>2, <2>1 DEF Works, Removed
  <2>2. CASE does = "/jm"
    BY <1>1, <1>2, <2>2 DEF Works, Advertised
  <2>3. CASE does = "/i"
    BY <1>1, <1>2, <2>3 DEF Works, Installed
  <2>4. CASE does = "nothing"
    BY <1>1, <2>4
  <2>5. QED
    BY <2>1, <2>2, <2>3, <2>4
<1>3. CASE /\ "exec" \in MsiFaults \/ (does = "/x" /\ v \notin products)
           /\ UNCHANGED <<files, listed>> /\ keys = products
           /\ exit = "error"
  BY <1>1, <1>3
<1>4. CASE /\ "unlisted" \in MsiFaults /\ does = "/i"
           /\ files' = v /\ UNCHANGED listed /\ keys = Keyed(does, v)
           /\ exit = "ok"
  BY <1>1, <1>4
<1>5. QED
  BY <1>2, <1>3, <1>4 DEF Ends

-----------------------------------------------------------------------------
(* Each group of actions keeps it *)

\* A call begins, and what it left is saved.
LEMMA CallsKeep ==
  ASSUME MsiInv,
         (\E v \in MsiVersions : Install(v) \/ Uninstall(v)) \/ SavePrev \/ FileMissing
  PROVE  MsiInv'
<1> USE VersionCases DEF MsiInv, MsiTypeOK, PartsBelong, CommandsHaveFiles, Undisturbed, NothingRemoved,
            FailedIsOver, OkIsInstalled, FailedInstallRestores, Installing, Parts, machine
<1>1. ASSUME NEW v \in MsiVersions, NEW op \in {"install", "uninstall"}, Called(op, v),
             pc' = IF op = "install" THEN "mutex" ELSE "uninstall"
      PROVE  MsiInv'
  <2>1. /\ pc = "idle" /\ command = "due"
        /\ call' = [op |-> op, version |-> v, prev |-> saved]
        /\ waits' = 0 /\ before' = "unseen" /\ rollback' = "none" /\ verdict' = "none"
        /\ UNCHANGED <<files, listed, products, running, other, saved, command>>
    BY <1>1 DEF Called
  <2>2. call' \in [op: {"none", "install", "uninstall"}, version: Versions, prev: Versions]
    BY <2>1
  <2>3. MsiTypeOK'
    BY <1>1, <2>1, <2>2, MsiAssumption
  <2>4. CommandsHaveFiles' /\ PartsBelong'
    BY <1>1, <2>1
  <2>5. QED
    BY <1>1, <2>1, <2>3, <2>4
<1>2. ASSUME NEW v \in MsiVersions, Install(v) \/ Uninstall(v) PROVE MsiInv'
  BY <1>1, <1>2 DEF Install, Uninstall
<1>3. CASE SavePrev
  <2>1. /\ pc = "idle" /\ verdict = "ok" /\ verdict' = "none" /\ saved' \in Versions
        /\ UNCHANGED <<files, listed, products, running, other, pc, command, waits, call, before, rollback>>
    BY <1>3 DEF SavePrev
  <2>2. QED
    BY <2>1
<1>4. CASE FileMissing
  BY <1>4 DEF FileMissing, Returns
<1>5. QED
  BY <1>2, <1>3, <1>4

\* The mutex is had when no command runs, and a part's command is started.
LEMMA StartsKeep ==
  ASSUME MsiInv, EnsureMutex \/ WaitForMutex \/ Exec
  PROVE  MsiInv'
<1> USE VersionCases DEF MsiInv, MsiTypeOK, PartsBelong, CommandsHaveFiles, Undisturbed, NothingRemoved,
            FailedIsOver, OkIsInstalled, FailedInstallRestores, Installing, Busy
<1>1. CASE EnsureMutex
  <2>1. products' \subseteq MsiVersions
    BY <1>1 DEF EnsureMutex, Cleaned
  <2>2. pc' \in {"uninstall", "advertise"} /\ (pc' = "uninstall" <=> call.prev # Absent)
    BY <1>1 DEF EnsureMutex
  <2>3. running = NoCommand /\ pc = "mutex" /\ before' = files
        /\ UNCHANGED <<files, listed, running, other, saved, command, waits, call, rollback, verdict>>
    BY <1>1 DEF EnsureMutex
  <2>4. QED
    BY <2>1, <2>2, <2>3 DEF Parts
<1>2. CASE WaitForMutex
  <2>1. /\ pc = "mutex" /\ waits' \in 0..MaxWaits
        /\ (pc' = pc /\ verdict' = verdict) \/ (pc' = "idle" /\ verdict' = "error")
        /\ UNCHANGED <<files, listed, products, running, other, saved, command, call, before, rollback>>
    BY <1>2, MsiAssumption DEF WaitForMutex, Returns, machine
  <2>2. QED
    BY <2>1 DEF Parts
<1>3. CASE Exec
  <2>1. pc \in Parts /\ command = "due" /\ running' = Command /\ command' = "started"
        /\ UNCHANGED <<files, listed, products, other, saved, pc, waits, call, before, rollback, verdict>>
    BY <1>3 DEF Exec
  <2>2. Command' = Command
    BY <2>1 DEF Command
  <2>3. pc # "idle" /\ pc # "mutex"
    BY <2>1 DEF Parts
  <2>4. running' \in CommandSet /\ CommandsHaveFiles'
    BY <2>1, CommandTypes DEF CommandSet
  <2>6. MsiTypeOK'
    BY <2>1, <2>2, <2>4 DEF CommandSet
  <2>5. QED
    BY <2>1, <2>3, <2>4, <2>6
<1>4. QED
  BY <1>1, <1>2, <1>3

\* What follows a command, its own or one that msiexec refused, with no command left.
LEMMA AfterKeeps ==
  ASSUME MsiInv, NEW keys \in SUBSET MsiVersions, NEW exit \in {"ok", "error"},
         pc \in Parts, After(keys, exit),
         files' \in Versions, listed' \subseteq MsiVersions, other' \in {"free", "busy"},
         running' \in {NoCommand, running},
         call.op = "install" => running' = NoCommand,
         pc \in {"advertise", "readvertise"} => files' = files,
         pc = "install" => files' \in {files, call.version},
         pc = "install" /\ exit = "ok" => files' = call.version /\ call.version \in keys,
         pc = "reinstall" /\ exit = "ok" => files' = call.prev /\ call.prev \in keys
  PROVE  MsiInv'
<1>2. CommandsHaveFiles'
  BY NoCommandTypes DEF MsiInv, CommandsHaveFiles
<1>3. running' \in CommandSet
  BY NoCommandTypes DEF MsiInv, MsiTypeOK, CommandSet
<1> USE VersionCases DEF MsiInv, MsiTypeOK, PartsBelong, CommandsHaveFiles, Undisturbed, NothingRemoved,
            FailedIsOver, OkIsInstalled, FailedInstallRestores, Installing, CommandSet
<1>1. /\ rollback' = IF pc = "reinstall" THEN exit ELSE rollback
      /\ command' = "due"
      /\ UNCHANGED <<saved, waits, call, before>>
  BY DEF After
<1>4. CASE pc = "uninstall"
  <2>1. AfterUninstall(keys, exit)
    BY <1>4 DEF After
  <2>2. CASE call.op = "uninstall"
    BY <1>1, <1>2, <1>3, <1>4, <2>1, <2>2 DEF AfterUninstall, Returns, Parts
  <2>3. CASE call.op # "uninstall"
    <3>1. call.op = "install" /\ pc' = "advertise" /\ products' \subseteq MsiVersions /\ verdict' = verdict
      BY <1>4, <2>1, <2>3 DEF AfterUninstall, Cleaned
    <3>2. QED
      BY <1>1, <1>2, <1>3, <1>4, <3>1 DEF Parts
  <2>4. QED
    BY <2>2, <2>3
<1>5. CASE pc \in {"advertise", "readvertise"}
  <2>1. pc' = (IF pc = "advertise" THEN "install" ELSE "reinstall")
        /\ products' = keys /\ verdict' = verdict
    BY <1>5 DEF After, AfterAdvertise
  <2>2. QED
    BY <1>1, <1>2, <1>3, <1>5, <2>1 DEF Parts
<1>6. CASE pc = "install"
  <2>1. AfterInstall(keys, exit)
    BY <1>6 DEF After
  <2>2. CASE exit = "ok" /\ Listed(call.version)
    <3>1. pc' = "idle" /\ verdict' = "ok" /\ products' = keys /\ call.version \in listed'
      BY <2>1, <2>2 DEF AfterInstall, Listed, Returns
    <3>2. files' = call.version /\ call.version \in keys /\ call.op = "install" /\ running' = NoCommand
      BY <1>6, <2>2 DEF Parts
    <3>3. QED
      BY <1>1, <1>2, <1>3, <1>6, <3>1, <3>2 DEF Parts
  <2>3. CASE ~(exit = "ok" /\ Listed(call.version)) /\ call.prev = Absent
    <3>1. pc' = "idle" /\ verdict' = "error" /\ products' = keys
      BY <2>1, <2>3 DEF AfterInstall, Returns
    <3>2. QED
      BY <1>1, <1>2, <1>3, <1>6, <2>3, <3>1 DEF Parts
  <2>4. CASE ~(exit = "ok" /\ Listed(call.version)) /\ call.prev # Absent
    <3>1. pc' \in {"readvertise", "reinstall"} /\ verdict' = verdict
      BY <2>1, <2>4 DEF AfterInstall
    <3>2. products' \subseteq MsiVersions
      BY <2>1, <2>4 DEF AfterInstall, Cleaned
    <3>3. QED
      BY <1>1, <1>2, <1>3, <1>6, <2>4, <3>1, <3>2 DEF Parts
  <2>5. QED
    BY <2>2, <2>3, <2>4
<1>7. CASE pc = "reinstall"
  <2>1. pc' = "idle" /\ verdict' = "error" /\ products' = keys /\ rollback' = exit
    BY <1>1, <1>7 DEF After, Returns
  <2>2. QED
    BY <1>1, <1>2, <1>3, <1>7, <2>1 DEF Parts
<1>8. QED
  BY <1>4, <1>5, <1>6, <1>7 DEF Parts

LEMMA CommandsKeep ==
  ASSUME MsiInv, CommandEnds \/ CommandRefused
  PROVE  MsiInv'
<1>1. CASE CommandEnds
  <2>1. PICK keys \in SUBSET MsiVersions, exit \in {"ok", "error"} :
          Ends(keys, exit) /\ After(keys, exit)
    BY <1>1 DEF CommandEnds
  <2>2. pc \in Parts /\ running = Command
    BY <1>1 DEF CommandEnds, MsiInv, MsiTypeOK
  <2>3. /\ files' \in Versions /\ listed' \subseteq MsiVersions
        /\ running' = NoCommand /\ other' = other
        /\ running.does = "/jm" => files' = files
        /\ running.does = "/i" => files' \in {files, running.version}
        /\ running.does = "/i" /\ exit = "ok" =>
             files' = running.version /\ running.version \in keys
    BY <2>1, EndsTypes
  <2>4. other' \in {"free", "busy"}
    BY <2>3 DEF MsiInv, MsiTypeOK
  <2>5. /\ pc = "install" => running = [does |-> "/i", version |-> call.version]
        /\ pc = "reinstall" => running = [does |-> "/i", version |-> call.prev]
        /\ pc \in {"advertise", "readvertise"} => running.does = "/jm"
    BY <2>2, CommandTypes
  <2>6. /\ pc \in {"advertise", "readvertise"} => files' = files
        /\ pc = "install" => files' \in {files, call.version}
        /\ pc = "install" /\ exit = "ok" => files' = call.version /\ call.version \in keys
        /\ pc = "reinstall" /\ exit = "ok" => files' = call.prev /\ call.prev \in keys
    BY <2>3, <2>5
  <2>7. QED
    BY <2>1, <2>2, <2>3, <2>4, <2>6, AfterKeeps
<1>2. CASE CommandRefused
  <2>1. /\ pc \in Parts /\ command = "due"
        /\ UNCHANGED <<files, listed, running, other>>
        /\ After(products, "error")
    BY <1>2 DEF CommandRefused
  <2>2. call.op = "install" => running = NoCommand
    BY <2>1 DEF MsiInv, Undisturbed, Installing
  <2>3. /\ files \in Versions /\ listed \subseteq MsiVersions /\ products \subseteq MsiVersions
        /\ other \in {"free", "busy"}
    BY DEF MsiInv, MsiTypeOK
  <2>4. QED
    BY <2>1, <2>2, <2>3, AfterKeeps
<1>3. QED
  BY <1>1, <1>2

\* Another installer, a kill, and the end of the command that a kill left running.
LEMMA OthersKeep ==
  ASSUME MsiInv, OtherInstaller \/ Kill \/ AbandonedEnds
  PROVE  MsiInv'
<1> USE VersionCases DEF MsiInv, MsiTypeOK, PartsBelong, CommandsHaveFiles, Undisturbed, NothingRemoved,
            FailedIsOver, OkIsInstalled, FailedInstallRestores, Installing
<1>1. CASE OtherInstaller
  <2>1. /\ other' \in {"free", "busy"}
        /\ UNCHANGED <<files, listed, products, running, saved, pc, command, waits, call, before,
                       rollback, verdict>>
    BY <1>1 DEF OtherInstaller
  <2>2. Command' = Command
    BY <2>1, SameCommand
  <2>3. QED
    BY <2>1, <2>2
<1>2. CASE Kill
  BY <1>2 DEF Kill, Returns, machine, Parts
<1>3. CASE AbandonedEnds
  <2>1. PICK exit \in {"ok", "error"} : Ends(products', exit)
    BY <1>3 DEF AbandonedEnds
  <2>2. /\ files' \in Versions /\ listed' \subseteq MsiVersions /\ products' \subseteq MsiVersions
        /\ running' = NoCommand /\ other' = other
    BY <2>1, EndsTypes
  <2>3. running # NoCommand
    BY <2>1 DEF Ends
  <2>4. /\ command = "due"
        /\ UNCHANGED <<saved, pc, command, waits, call, before, rollback, verdict>>
    BY <1>3 DEF AbandonedEnds
  <2>5. running' \in CommandSet /\ CommandsHaveFiles'
    BY <2>2, NoCommandTypes
  <2>6. ~Installing
    BY <2>3, <2>4
  <2>7. MsiTypeOK' /\ PartsBelong' /\ FailedIsOver' /\ OkIsInstalled'
    BY <2>2, <2>3, <2>4, <2>5 DEF CommandSet
  <2>8. Undisturbed' /\ NothingRemoved'
    BY <2>4, <2>6
  <2>9. FailedInstallRestores'
    BY <2>3, <2>4
  <2>10. QED
    BY <2>5, <2>7, <2>8, <2>9
<1>4. QED
  BY <1>1, <1>2, <1>3

-----------------------------------------------------------------------------
(* Theorems *)

LEMMA Invariant == Spec => []MsiInv
<1>1. Init => MsiInv
  <2> SUFFICES ASSUME Init PROVE MsiInv
    OBVIOUS
  <2>1. running \in CommandSet /\ CommandsHaveFiles
    BY NoCommandTypes DEF Init, CommandsHaveFiles
  <2>2. call \in [op: {"none", "install", "uninstall"}, version: Versions, prev: Versions]
    BY VersionCases DEF Init
  <2>3. MsiTypeOK
    BY <2>1, <2>2, VersionCases, MsiAssumption DEF Init, MsiTypeOK, CommandSet
  <2>4. QED
    BY <2>1, <2>3 DEF Init, MsiInv, PartsBelong, Undisturbed, NothingRemoved, FailedIsOver,
       OkIsInstalled, FailedInstallRestores, Installing, Parts
<1>2. MsiInv /\ [Next]_vars => MsiInv'
  <2>1. MsiInv /\ UNCHANGED vars => MsiInv'
    <3> SUFFICES ASSUME MsiInv, UNCHANGED vars PROVE MsiInv'
      OBVIOUS
    <3>1. UNCHANGED <<files, listed, products, running, other, saved, pc, command, waits, call,
                      before, rollback, verdict>>
      BY DEF vars, machine
    <3>2. Command' = Command
      BY <3>1, SameCommand
    <3>3. QED
      BY <3>1, <3>2 DEF MsiInv, MsiTypeOK, PartsBelong, CommandsHaveFiles, Undisturbed,
         NothingRemoved, FailedIsOver, OkIsInstalled, FailedInstallRestores, Installing
  <2>2. QED
    BY <2>1, CallsKeep, StartsKeep, CommandsKeep, OthersKeep DEF Next, Code
<1>3. QED
  BY <1>1, <1>2, PTL DEF Spec

\* Every variable has its type, and the code waits for its own command, for any
\* versions and faults.
THEOREM MsiTypeCorrect == Spec => []MsiTypeOK
  BY Invariant, PTL DEF MsiInv

\* A call that returned Ok has installed what it was asked for, whatever commands and
\* entries killed agents left behind (msi_installer.rs:124-153).
THEOREM OkIsInstalledHolds == Spec => []OkIsInstalled
  BY Invariant, PTL DEF MsiInv

\* A call that failed has tried to put the saved version back, and removed nothing
\* where there was none (msi_installer.rs:124-182).
THEOREM FailedInstallRestoresHolds == Spec => []FailedInstallRestores
  BY Invariant, PTL DEF MsiInv
=============================================================================
