---------------------------- MODULE InstallManager ----------------------------
(***************************************************************************)
(* src/src/ota/install_manager.rs over the Linux package installers        *)
(* (snap_installer.rs, deb_installer.rs, tar_installer.rs): the loop that  *)
(* installs and uninstalls the components of a manifest, the backup of the *)
(* installers that worked, the rollback of the ones that worked when       *)
(* another failed, and the archives unpacked again at the end.  One step   *)
(* per component, so that a crash can fall between any two.                *)
(*                                                                         *)
(* The module has no Init and no Next of its own: OTAManager owns them and *)
(* runs these actions between its own.                                     *)
(***************************************************************************)
EXTENDS Manifest

CONSTANTS
  Tars,        \* components delivered as archives, handled after all others
  Snaps,       \* components delivered as snaps; the rest are debs
  Faults,      \* the optional faults of the environment this instance allows
  NoManifest   \* run_once is not in the part that has a manifest

\* "crash"     the process may be killed between any two steps
\* "torn"      ... and also inside a write, leaving the file empty
\* "dirty"     an installer that fails may have removed or replaced the component
\* "uninstall" an uninstall may fail
\* "rollback"  the reinstallation of a saved installer may fail
\* "backup"    saving an installer may fail
\* "auth"      the server's token cannot be had for a reset
\* "remove"    the hash file cannot be removed
\* "panic"     the deb or tar installer may panic
\* "put"       a status put to the server may be lost
\* "license"   the licence just read cannot be read again for the manifest
\* "file"      the mark or the stage file may fail to be written or removed
\* "silent"    a connection may go silent during a download
FaultKinds == {"crash", "torn", "dirty", "uninstall", "rollback", "backup",
               "auth", "remove", "panic", "put", "license", "file", "silent"}

ASSUME InstallAssumption ==
  /\ Tars \subseteq Comps
  /\ Snaps \subseteq Comps
  /\ Tars \cap Snaps = {}
  /\ Faults \subseteq FaultKinds
  /\ NoManifest \notin ManifestType

VARIABLES
  pc,          \* where run_once is
  m,           \* the manifest run_once is working on
  machine,     \* what is really installed: [Comps -> Sum]
  prev,        \* the saved installers, previous_install_path: [Keys -> [Comps -> Sum]]
  todo,        \* components the current loop has still to visit
  updatedList, \* updated_list: handled with success in this install
  stuck,       \* components whose rollback failed
  status,      \* OTA status, as the REST "status" request shows it
  nodeStatus   \* the node's OTA progress as last put to the server

installVars == <<pc, m, machine, prev, todo, updatedList, stuck, status, nodeStatus>>

\* put_ota_status only logs an error.
Put(progress) == {progress} \cup (IF "put" \in Faults THEN {nodeStatus} ELSE {})

-----------------------------------------------------------------------------
(* The installers.  An outcome says what install_command returned and what  *)
(* it left on the machine.                                                  *)

Outcome(ok, now) == [ok |-> ok, now |-> now]

LeftByFailure(c, new) ==
  IF "dirty" \in Faults THEN {machine[c], NoSum, new} ELSE {machine[c]}

InstallOutcomes(c, new) ==
  {Outcome(TRUE, new)} \cup {Outcome(FALSE, x) : x \in LeftByFailure(c, new)}

\* A saved installer worked once; it fails again only under "rollback".
ReinstallOutcomes(c, old) ==
  IF "rollback" \in Faults THEN InstallOutcomes(c, old) ELSE {Outcome(TRUE, old)}

\* The saved installer of c for this manifest's server and side
\* (uninstall_information: the only file of its previous_install_path).
Saved(c) == prev[WhichServer(c, m.server, m.operator)][c]
PrevExists(c) == Saved(c) # NoSum

\* The tar uninstaller only logs the files it could not remove.
RemoveFails(c) == IF c \in Tars THEN Outcome(TRUE, machine[c]) ELSE Outcome(FALSE, machine[c])
RemoveOutcomes(c) ==
  {Outcome(TRUE, NoSum)} \cup (IF "uninstall" \in Faults THEN {RemoveFails(c)} ELSE {})

\* A snap is removed by the name its file gives it; snapd refuses one that is not
\* installed.  The names known without a file are those of deprecated packages
\* (the ones cleanup_deprecated_if_needed removes), which no machine here has.
SnapUninstall(c, hasFile) ==
  IF hasFile /\ machine[c] # NoSum
  THEN RemoveOutcomes(c) ELSE {Outcome(FALSE, machine[c])}

\* The deb and tar uninstallers work from the saved installer, and report
\* success without removing anything when there is none.
PackageUninstall(c) ==
  IF PrevExists(c) THEN RemoveOutcomes(c) ELSE {Outcome(TRUE, machine[c])}

UninstallOutcomes(c, hasFile) ==
  IF c \in Snaps THEN SnapUninstall(c, hasFile) ELSE PackageUninstall(c)

-----------------------------------------------------------------------------
(* install_manifest: everything but the agent *)

\* sort_by_package: archives come last.
NextInOrder(c) == c \in todo /\ (c \in Tars => todo \subseteq Tars)

\* The checksum a component is left with: its own or none after success, the
\* saved installer's after a failure.
HandledSum(c, ok) ==
  CASE ~ok -> Saved(c)
    [] ok /\ m.comp[c].path -> m.comp[c].sum
    [] OTHER -> NoSum

InstallOrUninstall(c) ==
  IF ShouldInstall(m.comp[c]) THEN InstallOutcomes(c, m.comp[c].sum)
  ELSE UninstallOutcomes(c, PrevExists(c))

InstallComponent(c) ==
  /\ pc = "install"
  /\ NextInOrder(c)
  /\ \E r \in InstallOrUninstall(c) :
       /\ machine' = [machine EXCEPT ![c] = r.now]
       /\ m' = [m EXCEPT !.comp[c] =
                  [@ EXCEPT !.updated = r.ok, !.sum = HandledSum(c, r.ok)]]
       /\ updatedList' = IF r.ok THEN updatedList \cup {c} ELSE updatedList
  /\ todo' = todo \ {c}
  /\ status' = "INSTALLING"
  /\ nodeStatus' \in IF updatedList = {} THEN Put("Installing") ELSE {nodeStatus}
  /\ UNCHANGED <<pc, prev, stuck>>

\* As a bug: one component that worked is enough.
UpdatedAny == updatedList # {} \/ ToHandle(m) = {}
UpdatedAll == ToHandle(m) = {}

InstallSucceeded ==
  /\ pc = "install" /\ todo = {} /\ UpdatedAll
  /\ pc' = "savePrev"
  /\ todo' = updatedList
  /\ nodeStatus' \in IF updatedList # {} THEN Put("Updated") ELSE {nodeStatus}
  /\ UNCHANGED <<m, machine, prev, updatedList, stuck, status>>

InstallFailed ==
  /\ pc = "install" /\ todo = {} /\ ~UpdatedAll
  /\ pc' = "rollback"
  /\ todo' = updatedList
  /\ nodeStatus' \in Put("Failed")
  /\ UNCHANGED <<m, machine, prev, updatedList, stuck, status>>

-----------------------------------------------------------------------------
(* save_prev_components: the file just installed replaces the saved one; a  *)
(* component just uninstalled loses its saved one.                          *)

SaveAs(c, sum) == prev' = [prev EXCEPT ![WhichServer(c, m.server, m.operator)][c] = sum]

\* As a bug: an installer already saved is kept.
SavePrevOnce(c) ==
  /\ pc = "savePrev" /\ c \in todo
  /\ SaveAs(c, IF ~m.comp[c].path THEN NoSum
               ELSE IF PrevExists(c) THEN Saved(c) ELSE m.comp[c].sum)
  /\ todo' = todo \ {c}
  /\ UNCHANGED <<pc, m, machine, updatedList, stuck, status, nodeStatus>>

SavePrevComponent(c) ==
  /\ pc = "savePrev" /\ c \in todo
  /\ SaveAs(c, IF m.comp[c].path THEN m.comp[c].sum ELSE NoSum)
  /\ todo' = todo \ {c}
  /\ UNCHANGED <<pc, m, machine, updatedList, stuck, status, nodeStatus>>

\* The directory is still as it was, or emptied already.
SavePrevFails(c) ==
  /\ pc = "savePrev" /\ c \in todo
  /\ "backup" \in Faults
  /\ \E left \in {Saved(c), NoSum} : SaveAs(c, left)
  /\ pc' = "error"
  /\ UNCHANGED <<m, machine, todo, updatedList, stuck, status, nodeStatus>>

\* restore_archives visits every archive the manifest holds.
Archives ==
  {c \in Tars \cap Hardcoded[m.operator] :
     CurrentlyInstalled(m.comp[c]) /\ PrevExists(c)}

SavePrevDone ==
  /\ pc = "savePrev" /\ todo = {}
  /\ pc' = "restore"
  /\ todo' = Archives
  /\ UNCHANGED <<m, machine, prev, updatedList, stuck, status, nodeStatus>>

-----------------------------------------------------------------------------
(* roll_back_components: the components of updated_list only; the one that  *)
(* failed is not among them.                                                *)

\* What the uninstall before a rollback left, its error ignored.
Cleared(c) ==
  IF m.comp[c].path /\ ~PrevExists(c)
  THEN {r.now : r \in UninstallOutcomes(c, TRUE)} ELSE {machine[c]}

RollBackToNothing(c) ==
  /\ ~PrevExists(c)
  /\ \E left \in Cleared(c) : machine' = [machine EXCEPT ![c] = left]
  /\ m' = [m EXCEPT !.comp[c] = [@ EXCEPT !.updated = TRUE, !.sum = NoSum]]
  /\ UNCHANGED stuck

RollBackToSaved(c) ==
  /\ PrevExists(c)
  /\ \E r \in ReinstallOutcomes(c, Saved(c)) :
       /\ machine' = [machine EXCEPT ![c] = r.now]
       /\ IF r.ok
          THEN /\ m' = [m EXCEPT !.comp[c] = [@ EXCEPT !.updated = TRUE,
                                              !.path = TRUE, !.sum = Saved(c)]]
               /\ UNCHANGED stuck
          ELSE stuck' = stuck \cup {c} /\ UNCHANGED m

RollBackComponent(c) ==
  /\ pc = "rollback"
  /\ NextInOrder(c)
  /\ RollBackToNothing(c) \/ RollBackToSaved(c)
  /\ todo' = todo \ {c}
  /\ UNCHANGED <<pc, prev, updatedList, status, nodeStatus>>

\* As a bug: the rollbacks that failed are not counted.
RollBackDoneAnyway ==
  /\ pc = "rollback" /\ todo = {}
  /\ pc' = "restoreBack" /\ todo' = Archives
  /\ UNCHANGED <<m, machine, prev, updatedList, stuck, status, nodeStatus>>

RollBackDone ==
  /\ pc = "rollback" /\ todo = {}
  /\ IF stuck = {}
     THEN pc' = "restoreBack" /\ todo' = Archives
     ELSE pc' = "error" /\ UNCHANGED todo
  /\ UNCHANGED <<m, machine, prev, updatedList, stuck, status, nodeStatus>>

-----------------------------------------------------------------------------
(* restore_archives: every archive the manifest holds is unpacked again     *)
(* from its saved installer; a failure is only logged.                      *)

RestoreArchive(c) ==
  /\ pc \in {"restore", "restoreBack"}
  /\ c \in todo
  /\ \E r \in ReinstallOutcomes(c, Saved(c)) :
       machine' = [machine EXCEPT ![c] = r.now]
  /\ todo' = todo \ {c}
  /\ UNCHANGED <<pc, m, prev, updatedList, stuck, status, nodeStatus>>

RestoreDone ==
  /\ pc \in {"restore", "restoreBack"} /\ todo = {}
  /\ pc' = IF pc = "restore" THEN "finish" ELSE "error"
  /\ UNCHANGED <<m, machine, prev, todo, updatedList, stuck, status, nodeStatus>>

-----------------------------------------------------------------------------
(* purge_component: an uninstall whose failure is only logged *)

PurgeComponent(c) ==
  /\ pc \in {"purge", "forcePurge"}
  /\ c \in todo
  /\ \E r \in UninstallOutcomes(c, PrevExists(c)) :
       machine' = [machine EXCEPT ![c] = r.now]
  /\ todo' = todo \ {c}
  /\ UNCHANGED <<pc, m, prev, updatedList, stuck, status, nodeStatus>>

-----------------------------------------------------------------------------
(* A deb whose package cannot be read, an archive that does not unpack: the *)
(* installer panics instead of returning an error, in any of the loops; a   *)
(* deb's uninstaller does so before it has removed anything.                *)

Purging == pc \in {"purge", "forcePurge"}
Removing(c) == Purging \/ (pc = "install" /\ ~ShouldInstall(m.comp[c]))

\* The file the installer works from.
Installer(c) == IF pc = "install" /\ ~Removing(c) THEN m.comp[c].sum ELSE Saved(c)

InstallerPanics(c) ==
  /\ "panic" \in Faults
  /\ Purging \/ pc \in {"install", "rollback", "restore", "restoreBack"}
  /\ c \in todo \ Snaps /\ (Purging \/ NextInOrder(c))
  /\ Installer(c) # NoSum
  /\ \E left \in IF Removing(c) THEN {machine[c]} ELSE LeftByFailure(c, Installer(c)) :
       machine' = [machine EXCEPT ![c] = left]
  /\ pc' = "dead"
  /\ status' = IF pc = "install" THEN "INSTALLING" ELSE status
  /\ UNCHANGED <<m, prev, todo, updatedList, stuck, nodeStatus>>

-----------------------------------------------------------------------------
InstallStep ==
  \/ \E c \in Comps : InstallComponent(c)
  \/ \E c \in Comps : InstallerPanics(c)
  \/ InstallSucceeded
  \/ InstallFailed
  \/ \E c \in Comps : SavePrevComponent(c) \/ SavePrevFails(c)
  \/ SavePrevDone
  \/ \E c \in Comps : RollBackComponent(c)
  \/ RollBackDone
  \/ \E c \in Comps : RestoreArchive(c)
  \/ RestoreDone
  \/ \E c \in Comps : PurgeComponent(c)
=============================================================================
