-------------------------- MODULE OTAManagerProofs --------------------------
(***************************************************************************)
(* What holds of OTAManager for every set of components, servers, lists    *)
(* and requests.  The lemmas about the operators of Manifest and           *)
(* InstallManager come first, then type correctness, then IInv (the mark,  *)
(* the side, what is forgotten) and the theorems that follow from it.      *)
(* RunInv relates the manifest, the loops and the hash file within one     *)
(* run; StatusInv, HandledIsReal, SavedInv, RolledBack and InstalledInv    *)
(* each rest on it, and each gives one theorem under the hypotheses on     *)
(* Faults and Requests named with it.                                      *)
(***************************************************************************)
EXTENDS OTAManager, TLAPS

-----------------------------------------------------------------------------
(* The operators of Manifest keep the types *)

\* A component is recorded under a key of the hash file.
LEMMA WhichServerKey ==
  ASSUME NEW c, NEW s \in Names, NEW op \in BOOLEAN
  PROVE  WhichServer(c, s, op) \in Keys
BY DEF WhichServer, Keys, FullServerName

\* A settled component is a component.
LEMMA SettledType ==
  ASSUME NEW sum \in Sum
  PROVE  Settled(sum) \in Component
BY DEF Settled, Component

\* The empty hash is a hash.
LEMMA EmptyHashType == EmptyHash \in HashManifest
BY DEF EmptyHash, HashManifest, Sum

\* Manifest::new makes a manifest of the server and side it is given.
LEMMA NewManifestType ==
  ASSUME NEW h \in HashManifest, NEW s \in Names, NEW op \in BOOLEAN
  PROVE  NewManifest(h, s, op) \in ManifestType
<1> DEFINE sum(c) == IF c \in Hardcoded[op] THEN h[WhichServer(c, s, op)][c] ELSE NoSum
<1>1. ASSUME NEW c \in Comps PROVE sum(c) \in Sum
  BY WhichServerKey DEF HashManifest, Sum
<1>2. ASSUME NEW c \in Comps PROVE Settled(sum(c)) \in Component
  BY <1>1, SettledType
<1>3. QED
  BY <1>2 DEF NewManifest, ManifestType

\* prepare_for_server_purge, update_with_json and update_components_paths keep
\* the type of a manifest.
LEMMA PurgeType ==
  ASSUME NEW mf \in ManifestType
  PROVE  PrepareForServerPurge(mf) \in ManifestType
<1>1. ASSUME NEW c \in Comps
      PROVE  /\ [Settled(NoSum) EXCEPT !.updated = FALSE] \in Component
             /\ [mf.comp[c] EXCEPT !.updated = TRUE] \in Component
  BY DEF Settled, Component, ManifestType, Sum
<1>2. QED
  BY <1>1 DEF PrepareForServerPurge, ManifestType

\* The server's answer leaves a component a component.
LEMMA UpdateComponentType ==
  ASSUME NEW c \in Comps, NEW d \in Component, NEW new \in Sum
  PROVE  UpdateComponent(c, d, new) \in Component
BY DEF UpdateComponent, Component, ShouldUpdate, CurrentlyInstalled

\* The server's answer leaves the manifest a manifest.
LEMMA UpdateWithJsonType ==
  ASSUME NEW mf \in ManifestType, NEW list \in ServerList, NEW v \in Nat
  PROVE  UpdateWithJson(mf, list, v) \in ManifestType
<1>1. CASE list.list = KeepAsIs
  BY <1>1 DEF UpdateWithJson
<1>2. CASE list.list # KeepAsIs /\ list.agent > v
  BY <1>2 DEF UpdateWithJson, ManifestType, ServerList
<1>3. CASE list.list # KeepAsIs /\ ~(list.agent > v)
  <2>1. list.list \in [Comps -> Sum]
    BY <1>3 DEF ServerList
  <2>2. ASSUME NEW c \in Comps
        PROVE  UpdateComponent(c, mf.comp[c], list.list[c]) \in Component
    BY <2>1, UpdateComponentType DEF ManifestType
  <2>3. QED
    BY <1>3, <2>2 DEF UpdateWithJson, ManifestType
<1>4. QED
  BY <1>1, <1>2, <1>3

\* So do the paths of what was downloaded.
LEMMA UpdatePathsType ==
  ASSUME NEW mf \in ManifestType
  PROVE  UpdateComponentsPaths(mf) \in ManifestType
<1>1. ASSUME NEW c \in Comps PROVE [mf.comp[c] EXCEPT !.path = TRUE] \in Component
  BY DEF Component, ManifestType
<1>2. QED
  BY <1>1 DEF UpdateComponentsPaths, ManifestType

\* Saving a manifest leaves a hash file of the right type.
LEMMA WriteToFileType ==
  ASSUME NEW h \in HashManifest, NEW mf \in ManifestType
  PROVE  WriteToFile(h, mf) \in HashManifest
<1>1. ASSUME NEW c \in Comps PROVE mf.comp[c].sum \in Sum
  BY DEF ManifestType, Component
<1>2. QED
  BY <1>1 DEF WriteToFile, HashManifest, Sum

-----------------------------------------------------------------------------
(* The operators of InstallManager keep the types *)

\* What an installer returns and leaves.
OutcomeType == [ok: BOOLEAN, now: Sum]

\* An outcome made of typed parts is one.
LEMMA OutcomeIsTyped ==
  ASSUME NEW ok \in BOOLEAN, NEW now \in Sum
  PROVE  Outcome(ok, now) \in OutcomeType
BY DEF Outcome, OutcomeType

\* Whatever an installer or an uninstaller does, it leaves a version known to
\* the model, or none.
LEMMA OutcomeTypes ==
  ASSUME TypeOK, m \in ManifestType, NEW c \in Comps
  PROVE  /\ Saved(c) \in Sum
         /\ \A new \in Sum : LeftByFailure(c, new) \subseteq Sum
         /\ \A new \in Sum : ReinstallOutcomes(c, new) \subseteq OutcomeType
         /\ \A file \in BOOLEAN : UninstallOutcomes(c, file) \subseteq OutcomeType
         /\ InstallOrUninstall(c) \subseteq OutcomeType
<1>1. machine[c] \in Sum /\ NoSum \in Sum /\ m.comp[c].sum \in Sum
  BY DEF TypeOK, Sum, ManifestType, Component
<1>2. Saved(c) \in Sum
  <2>1. WhichServer(c, m.server, m.operator) \in Keys
    BY WhichServerKey DEF ManifestType
  <2>2. QED
    BY <2>1 DEF Saved, TypeOK, HashManifest
<1>3. ASSUME NEW new \in Sum
      PROVE  /\ LeftByFailure(c, new) \subseteq Sum
             /\ InstallOutcomes(c, new) \subseteq OutcomeType
             /\ ReinstallOutcomes(c, new) \subseteq OutcomeType
  <2>1. LeftByFailure(c, new) \subseteq Sum
    BY <1>1 DEF LeftByFailure
  <2>2. Outcome(TRUE, new) \in OutcomeType
    BY OutcomeIsTyped
  <2>3. ASSUME NEW x \in LeftByFailure(c, new) PROVE Outcome(FALSE, x) \in OutcomeType
    BY <2>1, OutcomeIsTyped
  <2>4. InstallOutcomes(c, new) \subseteq OutcomeType
    BY <2>2, <2>3 DEF InstallOutcomes
  <2>5. ReinstallOutcomes(c, new) \subseteq OutcomeType
    BY <2>2, <2>4 DEF ReinstallOutcomes
  <2>6. QED
    BY <2>1, <2>4, <2>5
<1>4. /\ Outcome(TRUE, NoSum) \in OutcomeType
      /\ Outcome(TRUE, machine[c]) \in OutcomeType
      /\ Outcome(FALSE, machine[c]) \in OutcomeType
  BY <1>1, OutcomeIsTyped
<1>5. RemoveOutcomes(c) \subseteq OutcomeType
  BY <1>4 DEF RemoveOutcomes, RemoveFails
<1>6. ASSUME NEW file PROVE UninstallOutcomes(c, file) \subseteq OutcomeType
  BY <1>4, <1>5 DEF UninstallOutcomes, SnapUninstall, PackageUninstall
<1>7. InstallOrUninstall(c) \subseteq OutcomeType
  BY <1>1, <1>3, <1>6 DEF InstallOrUninstall
<1>8. QED
  BY <1>2, <1>3, <1>6, <1>7

\* Changing what a step of the install changes in a component of the manifest
\* leaves a manifest of the same server and side.
LEMMA ManifestExcept ==
  ASSUME NEW mf \in ManifestType, NEW c \in Comps, NEW d \in Component
  PROVE  /\ [mf EXCEPT !.comp[c] = d] \in ManifestType
         /\ [mf EXCEPT !.comp[c] = d].server = mf.server
         /\ [mf EXCEPT !.comp[c] = d].operator = mf.operator
<1>1. [mf.comp EXCEPT ![c] = d] \in [Comps -> Component]
  BY DEF ManifestType
<1>2. QED
  BY <1>1 DEF ManifestType

\* An installed or rolled back component is a component.
LEMMA ComponentExcept ==
  ASSUME NEW d \in Component, NEW sum \in Sum, NEW up \in BOOLEAN
  PROVE  /\ [d EXCEPT !.updated = up, !.sum = sum] \in Component
         /\ [d EXCEPT !.updated = up, !.path = TRUE, !.sum = sum] \in Component
BY DEF Component

-----------------------------------------------------------------------------
(* Type correctness *)

\* A put leaves one of the progress values on the server.
LEMMA PutType ==
  ASSUME TypeOK, NEW p \in Progress
  PROVE  Put(p) \subseteq Progress
BY DEF Put, TypeOK

\* A manifest is made for a server or for the unnamed one, the status is one
\* the REST interface knows.
LEMMA ServerNamesType ==
  ASSUME TypeOK, NEW name \in ServerNames
  PROVE  name \in Names /\ LicenseStatus(name) \in Status
BY DEF ServerNames, Names, LicenseStatus, TypeOK, Status

\* The side is one of the two.
LEMMA OperatorType ==
  ASSUME NEW ov \in Override
  PROVE  GetOperator(ov) \in BOOLEAN
BY OTAAssumption DEF GetOperator, Override

\* A component left to do is one of the components.
LEMMA ToHandleType ==
  ASSUME NEW mf
  PROVE  ToHandle(mf) \subseteq Comps
BY DEF ToHandle

\* The initial states are typed.
LEMMA InitType == Init => TypeOK
<1>1. 0 \in Nat /\ FirstVersion \in Nat /\ MaxRequests \in Nat /\ IsOperator \in BOOLEAN
  BY OTAAssumption
<1>2. <<>> \in Seq(Requests)
  OBVIOUS
<1>3. NoSum \in Sum
  BY DEF Sum
<1>4. QED
  BY <1>1, <1>2, <1>3, EmptyHashType DEF Init, TypeOK, Status, Progress, Override, Working

\* run: the timer and the requests.
LEMMA RunLoopType == TypeOK /\ RunLoop => TypeOK'
<1> SUFFICES ASSUME TypeOK PROVE RunLoop => TypeOK'
  OBVIOUS
<1> USE DEF TypeOK, packages, loop, reported, otaVars, diskVars, outsideVars
<1>1. TimerExpires => TypeOK'
  BY DEF TimerExpires, Working
<1>2. ASSUME NEW message, Receive(message) PROVE chan' \in Seq(Requests)
  BY <1>2 DEF Receive
<1>3. ReceiveUpdateVersion => TypeOK'
  BY <1>2 DEF ReceiveUpdateVersion, Receive, Working
<1>4. ReceiveUpdateBothSides => TypeOK'
  BY <1>2 DEF ReceiveUpdateBothSides, Unset, Receive, Working, Override
<1>5. ASSUME ReceiveUpdateVersionForce PROVE TypeOK'
  <2>1. PICK name \in ServerNames :
          /\ status' = LicenseStatus(name)
          /\ \/ /\ m' = PrepareForServerPurge(NewManifest(hash, name, GetOperator(override)))
                /\ todo' = ToHandle(m')
                /\ pc' = "forcePurge"
             \/ UNCHANGED <<pc, m, todo>>
    BY <1>5 DEF ReceiveUpdateVersionForce
  <2>2. status' \in Status /\ name \in Names
    BY <2>1, ServerNamesType
  <2>3. PrepareForServerPurge(NewManifest(hash, name, GetOperator(override)))
          \in ManifestType
    BY <2>2, OperatorType, NewManifestType, PurgeType
  <2>4. QED
    BY <1>2, <1>5, <2>1, <2>2, <2>3, ToHandleType
       DEF ReceiveUpdateVersionForce, Receive, Working
<1>6. QED
  BY <1>1, <1>3, <1>4, <1>5 DEF RunLoop

\* run_once: licence, manifest, agent version, Core session.
LEMMA CheckType == TypeOK /\ Check => TypeOK'
<1> SUFFICES ASSUME TypeOK PROVE Check => TypeOK'
  OBVIOUS
<1> USE DEF TypeOK, packages, loop, reported, otaVars, diskVars, outsideVars
<1>1. FetchLicense => TypeOK'
  BY DEF FetchLicense, Working, Status
<1>2. FetchLicenseFails => TypeOK'
  BY DEF FetchLicenseFails, Working, Status
<1>3. ASSUME ReadManifest PROVE TypeOK'
  <2>1. override' \in Override
    BY <1>3 DEF ReadManifest, OverrideBy
  <2>2. PICK name \in ServerNames :
          /\ status' = LicenseStatus(name)
          /\ m' = NewManifest(hash, name, GetOperator(override'))
    BY <1>3 DEF ReadManifest
  <2>3. status' \in Status /\ m' \in ManifestType
    BY <2>1, <2>2, ServerNamesType, OperatorType, NewManifestType
  <2>4. QED
    BY <1>3, <2>1, <2>3 DEF ReadManifest, Working
<1>4. CoreHasConnectedSession => TypeOK'
  BY DEF CoreHasConnectedSession, Retry, Leave, Working
<1>5. QED
  BY <1>1, <1>2, <1>3, <1>4 DEF Check

\* run_once: the reset after an interrupted install.
LEMMA RecoverType == TypeOK /\ Recover => TypeOK'
<1> SUFFICES ASSUME TypeOK PROVE Recover => TypeOK'
  OBVIOUS
<1> USE DEF TypeOK, packages, loop, reported, otaVars, diskVars, outsideVars
<1>1. NoIncompleteInstall => TypeOK'
  BY DEF NoIncompleteInstall, Working
<1>2. ASSUME FullReset PROVE TypeOK'
  <2>1. PICK name \in ServerNames :
          /\ status' = LicenseStatus(name)
          /\ m' = NewManifest(EmptyHash, name, m.operator)
    BY <1>2 DEF FullReset
  <2>2. m.operator \in BOOLEAN
    BY <1>2 DEF FullReset, Working, ManifestType
  <2>3. status' \in Status /\ m' \in ManifestType
    BY <2>1, <2>2, ServerNamesType, EmptyHashType, NewManifestType
  <2>4. QED
    BY <1>2, <2>3, EmptyHashType DEF FullReset, Working
<1>3. FullResetFails => TypeOK'
  BY DEF FullResetFails, Retry, Leave, Working
<1>4. ASSUME PartialReset PROVE TypeOK'
  <2>1. m' \in ManifestType
    BY <1>4, PurgeType DEF PartialReset, Working
  <2>2. QED
    BY <1>4, <2>1, ToHandleType DEF PartialReset, Working
<1>5. ASSUME SavePurgedHash PROVE TypeOK'
  <2>1. hash' \in HashManifest
    BY <1>5, WriteToFileType DEF SavePurgedHash, Working
  <2>2. QED
    BY <1>5, <2>1 DEF SavePurgedHash, Retry, Leave, Working
<1>6. QED
  BY <1>1, <1>2, <1>3, <1>4, <1>5 DEF Recover

\* run_once: the download.
LEMMA DownloadType == TypeOK /\ Download => TypeOK'
<1> SUFFICES ASSUME TypeOK PROVE Download => TypeOK'
  OBVIOUS
<1>1. /\ "Downloading" \in Progress /\ "Failed" \in Progress
      /\ "DOWNLOADING" \in Status /\ "ERROR" \in Status
  BY DEF Progress, Status
<1>2. Put("Downloading") \subseteq Progress /\ Put("Failed") \subseteq Progress
  BY <1>1, PutType
<1> USE DEF TypeOK, packages, loop, reported, otaVars, diskVars, outsideVars
<1>3. ASSUME PostChecksums PROVE TypeOK'
  <2>1. answer[src] \in ServerList
    BY OTAAssumption
  <2>2. m' \in ManifestType
    BY <1>3, <2>1, UpdateWithJsonType DEF PostChecksums, Working
  <2>3. status' \in Status /\ nodeStatus' \in Progress
    BY <1>1, <1>2, <1>3 DEF PostChecksums
  <2>4. QED
    BY <1>3, <2>2, <2>3 DEF PostChecksums, Working
<1>4. ASSUME DownloadComponents PROVE TypeOK'
  <2>1. m' \in ManifestType
    BY <1>4, UpdatePathsType DEF DownloadComponents, Working
  <2>2. QED
    BY <1>4, <2>1 DEF DownloadComponents, Working
<1>5. DownloadHangs \/ DownloadManagerFails => TypeOK'
  BY <1>1, <1>2 DEF DownloadHangs, DownloadManagerFails, Continue, Leave, Working
<1>6. QED
  BY <1>3, <1>4, <1>5 DEF Download

\* install_agent.
LEMMA AgentType == TypeOK /\ Agent => TypeOK'
<1> SUFFICES ASSUME TypeOK PROVE Agent => TypeOK'
  OBVIOUS
<1>1. "Failed" \in Progress /\ "INSTALLING" \in Status /\ "UPDATED" \in Status
  BY DEF Progress, Status
<1>2. Put("Failed") \subseteq Progress
  BY <1>1, PutType
<1>3. ASSUME pc \in Working
      PROVE  m.agent \in Nat /\ WriteToFile(hash, m) \in HashManifest
  BY <1>3, WriteToFileType DEF TypeOK, ManifestType
<1> USE DEF TypeOK, packages, loop, reported, otaVars, diskVars, outsideVars
<1>4. ReportAgentPending => TypeOK'
  BY <1>1, <1>2 DEF ReportAgentPending, Working
<1>5. SetFutureVersion => TypeOK'
  BY <1>3 DEF SetFutureVersion, Working
<1>6. SaveAgentHash => TypeOK'
  BY <1>3 DEF SaveAgentHash, Working
<1>7. ASSUME AgentInstalled PROVE TypeOK'
  <2>1. marked' \in [operator: BOOLEAN, ended: BOOLEAN, done: BOOLEAN]
    BY <1>7 DEF AgentInstalled
  <2>2. chan' \in Seq(Requests)
    BY <1>7 DEF AgentInstalled, Restart
  <2>3. QED
    BY <1>1, <1>3, <1>7, <2>1, <2>2
       DEF AgentInstalled, Restart, Leave, Working, Override
<1>8. AgentInstallFails => TypeOK'
  BY <1>3 DEF AgentInstallFails, RevertedAgentHash, Working
<1>9. QED
  BY <1>4, <1>5, <1>6, <1>7, <1>8 DEF Agent

\* Saving an installer, or losing one, leaves a directory of installers.
LEMMA SaveAsType ==
  ASSUME TypeOK, pc \in Working, NEW c \in Comps, NEW sum \in Sum, SaveAs(c, sum)
  PROVE  prev' \in HashManifest
<1>1. prev \in HashManifest
  BY DEF TypeOK
<1>2. WhichServer(c, m.server, m.operator) \in Keys
  BY WhichServerKey DEF TypeOK, ManifestType
<1>3. [prev[WhichServer(c, m.server, m.operator)] EXCEPT ![c] = sum] \in [Comps -> Sum]
  BY <1>1, <1>2 DEF HashManifest
<1>4. QED
  BY <1>1, <1>2, <1>3 DEF SaveAs, HashManifest

\* install_manifest, its rollback, and the purge.
LEMMA InstallType == TypeOK /\ Install => TypeOK'
<1> SUFFICES ASSUME TypeOK PROVE Install => TypeOK'
  OBVIOUS
<1>1. /\ {"Installing", "Updated", "Failed"} \subseteq Progress
      /\ "INSTALLING" \in Status
      /\ NoSum \in Sum
  BY DEF Progress, Status, Sum
<1>2. /\ Put("Installing") \subseteq Progress
      /\ Put("Updated") \subseteq Progress
      /\ Put("Failed") \subseteq Progress
  BY <1>1, PutType
<1>3. ASSUME pc \in Working
      PROVE  /\ m \in ManifestType
             /\ \A c \in Comps : m.comp[c] \in Component /\ m.comp[c].sum \in Sum
  BY <1>3 DEF TypeOK, ManifestType, Component
<1>4. ASSUME pc \in Working, NEW c \in Comps, NEW sum \in Sum, SaveAs(c, sum)
      PROVE  prev' \in HashManifest
  BY <1>4, SaveAsType
<1>5. ASSUME NEW c \in Comps, NEW now \in Sum, machine' = [machine EXCEPT ![c] = now]
      PROVE  machine' \in [Comps -> Sum]
  BY <1>5 DEF TypeOK
<1>6. Archives \subseteq Comps
  BY ManifestAssumption, InstallAssumption DEF Archives
<1>7. ASSUME UNCHANGED otaVars
      PROVE  UNCHANGED <<hash, agentHash, marker, both, futureVersion, agentVersion,
                         auth, override, src, chan, answer, sent, marked>>
  BY <1>7 DEF otaVars, diskVars, outsideVars
<1> USE DEF TypeOK
<1>8. ASSUME NEW c \in Comps, InstallComponent(c), UNCHANGED otaVars PROVE TypeOK'
  <2>1. pc \in Working
    BY <1>8 DEF InstallComponent, Working
  <2>2. PICK r \in InstallOrUninstall(c) :
          /\ machine' = [machine EXCEPT ![c] = r.now]
          /\ m' = [m EXCEPT !.comp[c] =
                     [@ EXCEPT !.updated = r.ok, !.sum = HandledSum(c, r.ok)]]
          /\ updatedList' = IF r.ok THEN updatedList \cup {c} ELSE updatedList
    BY <1>8 DEF InstallComponent
  <2>3. r.now \in Sum /\ r.ok \in BOOLEAN
    BY <1>3, <2>1, OutcomeTypes DEF OutcomeType
  <2>4. HandledSum(c, r.ok) \in Sum
    BY <1>1, <1>3, <2>1, <2>3, OutcomeTypes DEF HandledSum
  <2>5. m' \in ManifestType
    BY <1>3, <2>1, <2>2, <2>3, <2>4, ComponentExcept, ManifestExcept
  <2>6. machine' \in [Comps -> Sum]
    BY <1>5, <2>2, <2>3
  <2>7. status' \in Status /\ nodeStatus' \in Progress
    BY <1>1, <1>2, <1>8 DEF InstallComponent
  <2>8. updatedList' \subseteq Comps
    BY <2>2
  <2>9. QED
    BY <1>7, <1>8, <2>5, <2>6, <2>7, <2>8 DEF InstallComponent, Working
<1>9. ASSUME NEW c \in Comps, InstallerPanics(c), UNCHANGED otaVars PROVE TypeOK'
  <2>1. pc \in Working
    BY <1>9 DEF InstallerPanics, Purging, Working
  <2>2. Installer(c) \in Sum /\ machine[c] \in Sum
    BY <1>1, <1>3, <2>1, OutcomeTypes DEF Installer
  <2>3. PICK left \in IF Removing(c) THEN {machine[c]} ELSE LeftByFailure(c, Installer(c)) :
          machine' = [machine EXCEPT ![c] = left]
    BY <1>9 DEF InstallerPanics
  <2>4. left \in Sum
    BY <1>3, <2>1, <2>2, OutcomeTypes
  <2>5. machine' \in [Comps -> Sum]
    BY <1>5, <2>3, <2>4
  <2>6. QED
    BY <1>1, <1>7, <1>9, <2>5 DEF InstallerPanics, Working
<1>10. InstallSucceeded /\ UNCHANGED otaVars => TypeOK'
  BY <1>2, <1>7 DEF InstallSucceeded, Working
<1>11. InstallFailed /\ UNCHANGED otaVars => TypeOK'
  BY <1>2, <1>7 DEF InstallFailed, Working
<1>12. ASSUME NEW c \in Comps, SavePrevComponent(c), UNCHANGED otaVars PROVE TypeOK'
  <2>1. pc \in Working
    BY <1>12 DEF SavePrevComponent, Working
  <2>2. prev' \in HashManifest
    BY <1>1, <1>3, <1>4, <1>12, <2>1 DEF SavePrevComponent
  <2>3. QED
    BY <1>7, <1>12, <2>2 DEF SavePrevComponent
<1>13. ASSUME NEW c \in Comps, SavePrevFails(c), UNCHANGED otaVars PROVE TypeOK'
  <2>1. pc \in Working
    BY <1>13 DEF SavePrevFails, Working
  <2>2. Saved(c) \in Sum
    BY <1>3, <2>1, OutcomeTypes
  <2>3. prev' \in HashManifest
    BY <1>1, <1>4, <1>13, <2>1, <2>2 DEF SavePrevFails
  <2>4. QED
    BY <1>3, <1>7, <1>13, <2>1, <2>3 DEF SavePrevFails, Working
<1>14. SavePrevDone /\ UNCHANGED otaVars => TypeOK'
  BY <1>6, <1>7 DEF SavePrevDone, Working
<1>15. ASSUME NEW c \in Comps, RollBackComponent(c), UNCHANGED otaVars PROVE TypeOK'
  <2>1. pc \in Working
    BY <1>15 DEF RollBackComponent, Working
  <2>2. Saved(c) \in Sum
    BY <1>3, <2>1, OutcomeTypes
  <2>3. CASE RollBackToNothing(c)
    <3>1. PICK left \in Cleared(c) : machine' = [machine EXCEPT ![c] = left]
      BY <2>3 DEF RollBackToNothing
    <3>2. \A r \in UninstallOutcomes(c, TRUE) : r.now \in Sum
      BY <1>3, <2>1, OutcomeTypes DEF OutcomeType
    <3>3. left \in Sum
      BY <3>2 DEF Cleared
    <3>4. m' \in ManifestType
      BY <1>1, <1>3, <2>1, <2>3, ComponentExcept, ManifestExcept DEF RollBackToNothing
    <3>5. QED
      BY <1>5, <1>7, <1>15, <2>3, <3>1, <3>3, <3>4
         DEF RollBackComponent, RollBackToNothing
  <2>4. CASE RollBackToSaved(c)
    <3>1. PICK r \in ReinstallOutcomes(c, Saved(c)) :
            /\ machine' = [machine EXCEPT ![c] = r.now]
            /\ IF r.ok
               THEN /\ m' = [m EXCEPT !.comp[c] = [@ EXCEPT !.updated = TRUE,
                                                   !.path = TRUE, !.sum = Saved(c)]]
                    /\ UNCHANGED stuck
               ELSE stuck' = stuck \cup {c} /\ UNCHANGED m
      BY <2>4 DEF RollBackToSaved
    <3>2. r.now \in Sum
      BY <1>3, <2>1, <2>2, OutcomeTypes DEF OutcomeType
    <3>3. [m EXCEPT !.comp[c] = [@ EXCEPT !.updated = TRUE,
                                          !.path = TRUE, !.sum = Saved(c)]] \in ManifestType
      BY <1>3, <2>1, <2>2, ComponentExcept, ManifestExcept
    <3>4. machine' \in [Comps -> Sum]
      BY <1>5, <3>1, <3>2
    <3>5. QED
      BY <1>3, <1>7, <1>15, <2>1, <3>1, <3>3, <3>4 DEF RollBackComponent
  <2>5. QED
    BY <1>15, <2>3, <2>4 DEF RollBackComponent
<1>16. RollBackDone /\ UNCHANGED otaVars => TypeOK'
  BY <1>6, <1>7 DEF RollBackDone, Working
<1>17. ASSUME NEW c \in Comps, RestoreArchive(c), UNCHANGED otaVars PROVE TypeOK'
  <2>1. pc \in Working
    BY <1>17 DEF RestoreArchive, Working
  <2>2. PICK r \in ReinstallOutcomes(c, Saved(c)) : machine' = [machine EXCEPT ![c] = r.now]
    BY <1>17 DEF RestoreArchive
  <2>3. r.now \in Sum
    BY <1>3, <2>1, OutcomeTypes DEF OutcomeType
  <2>4. machine' \in [Comps -> Sum]
    BY <1>5, <2>2, <2>3
  <2>5. QED
    BY <1>7, <1>17, <2>4 DEF RestoreArchive
<1>18. RestoreDone /\ UNCHANGED otaVars => TypeOK'
  BY <1>7 DEF RestoreDone, Working
<1>19. ASSUME NEW c \in Comps, PurgeComponent(c), UNCHANGED otaVars PROVE TypeOK'
  <2>1. pc \in Working
    BY <1>19 DEF PurgeComponent, Working
  <2>2. PICK r \in UninstallOutcomes(c, PrevExists(c)) : machine' = [machine EXCEPT ![c] = r.now]
    BY <1>19 DEF PurgeComponent
  <2>3. r.now \in Sum
    BY <1>3, <2>1, OutcomeTypes DEF OutcomeType, PrevExists
  <2>4. machine' \in [Comps -> Sum]
    BY <1>5, <2>2, <2>3
  <2>5. QED
    BY <1>7, <1>19, <2>4 DEF PurgeComponent
<1>20. QED
  BY <1>8, <1>9, <1>10, <1>11, <1>12, <1>13, <1>14, <1>15, <1>16, <1>17, <1>18, <1>19
     DEF Install, InstallStep

\* run_once: from the decision to install to the stage file.
LEMMA FinishType == TypeOK /\ Finish => TypeOK'
<1> SUFFICES ASSUME TypeOK PROVE Finish => TypeOK'
  OBVIOUS
<1>1. {"Updated", "Failed"} \subseteq Progress /\ {"ERROR", "UPDATED"} \subseteq Status
  BY DEF Progress, Status
<1>2. Put("Updated") \subseteq Progress /\ Put("Failed") \subseteq Progress
  BY <1>1, PutType
<1>3. ASSUME pc \in Working
      PROVE  /\ m.server \in Names /\ m.operator \in BOOLEAN
             /\ WriteToFile(hash, m) \in HashManifest
  BY <1>3, WriteToFileType DEF TypeOK, ManifestType
<1> USE DEF TypeOK, packages, loop, reported, otaVars, diskVars, outsideVars
<1>4. SkipInstall => TypeOK'
  BY <1>2 DEF SkipInstall, Working
<1>5. ASSUME MarkIncomplete PROVE TypeOK'
  <2>1. PICK works \in Settings :
          /\ marker' \in IF works THEN {MarkedServer} ELSE {marker, Unnamed}
          /\ marked' = [operator |-> m.operator, ended |-> FALSE, done |-> works]
    BY <1>5 DEF MarkIncomplete
  <2>0. /\ marker' \in Names \cup {NoServer}
        /\ marked' \in [operator: BOOLEAN, ended: BOOLEAN, done: BOOLEAN]
    BY <1>3, <1>5, <2>1 DEF MarkIncomplete, MarkedServer, Working, Settings, Names
  <2>2. QED
    BY <1>5, <2>0, ToHandleType DEF MarkIncomplete, Working
<1>11. EndMark => /\ marker' \in Names \cup {NoServer}
                  /\ marked' \in [operator: BOOLEAN, ended: BOOLEAN, done: BOOLEAN]
  BY DEF EndMark, Settings
<1>6. ReportError => TypeOK'
  BY <1>1, <1>2, <1>11 DEF ReportError, Continue, Leave, Working
<1>7. SaveHash => TypeOK'
  BY <1>3 DEF SaveHash, Working
<1>8. ClearMarker => TypeOK'
  BY <1>1, <1>11 DEF ClearMarker, Working
<1>9. AdvanceStage => TypeOK'
  BY DEF AdvanceStage, NextStage, Unset, Override, Retry, Continue, Leave, Working
<1>10. QED
  BY <1>4, <1>5, <1>6, <1>7, <1>8, <1>9 DEF Finish

\* Kills, restarts, requests, and what the server and the credentials become.
LEMMA OutsideType == TypeOK /\ (Crash \/ RestartAfterPanic \/ Outside) => TypeOK'
<1> SUFFICES ASSUME TypeOK PROVE Crash \/ RestartAfterPanic \/ Outside => TypeOK'
  OBVIOUS
<1>1. ASSUME Restart
      PROVE  /\ pc' = "start" /\ m' = NoManifest
             /\ todo' = {} /\ updatedList' = {} /\ stuck' = {}
             /\ override' \in Override /\ chan' \in Seq(Requests)
             /\ status' \in Status /\ nodeStatus' \in Progress /\ src' \in Servers
  BY <1>1 DEF Restart, Leave, Override, Status, TypeOK
<1> USE DEF TypeOK, packages, otaVars, diskVars, outsideVars, installVars
<1>2. ASSUME Crash PROVE TypeOK'
  <2>1. ASSUME TornMarker PROVE m.operator \in BOOLEAN
    BY <2>1 DEF TornMarker, Working, ManifestType
  <2>2. ASSUME TornWrite
        PROVE  /\ hash' \in HashManifest /\ agentHash' \in Nat
               /\ marker' \in Names \cup {NoServer} /\ prev' \in HashManifest
               /\ both' \in Override /\ futureVersion' \in Nat
               /\ marked' \in [operator: BOOLEAN, ended: BOOLEAN, done: BOOLEAN]
    <3>0. CASE /\ \E c \in Comps : TornSave(c)
               /\ UNCHANGED <<hash, agentHash, marker, both, futureVersion, marked>>
      <4>1. prev' \in HashManifest
        BY <3>0, SaveAsType DEF TornSave, Working, Sum
      <4>2. QED
        BY <3>0, <4>1
    <3>1. CASE TornHash /\ UNCHANGED <<prev, marker, both, futureVersion, marked>>
               /\ hash' = EmptyHash /\ agentHash' = 0
      BY <3>1, EmptyHashType
    <3>2. CASE /\ TornMarker /\ UNCHANGED <<prev, hash, agentHash, both, futureVersion>>
               /\ marker' = Unnamed
               /\ marked' = [operator |-> m.operator, ended |-> FALSE, done |-> FALSE]
      BY <2>1, <3>2 DEF Names
    <3>3. CASE TornVersion /\ futureVersion' = 0
               /\ UNCHANGED <<prev, hash, agentHash, marker, both, marked>>
      BY <3>3
    <3>4. CASE TornStage /\ both' = "None"
               /\ UNCHANGED <<prev, hash, agentHash, marker, futureVersion, marked>>
      BY <3>4 DEF Override
    <3>5. QED
      BY <2>2, <3>0, <3>1, <3>2, <3>3, <3>4 DEF TornWrite
  <2>3. QED
    BY <1>1, <1>2, <2>2 DEF Crash, Working
<1>3. RestartAfterPanic => TypeOK'
  BY <1>1 DEF RestartAfterPanic, Working
<1>4. ASSUME NEW r \in Requests, SendRequest(r) PROVE TypeOK'
  <2>1. chan' \in Seq(Requests)
    BY <1>4 DEF SendRequest
  <2>2. sent' \in 0..MaxRequests
    BY <1>4, OTAAssumption DEF SendRequest
  <2>3. QED
    BY <1>4, <2>1, <2>2 DEF SendRequest
<1>5. ASSUME NEW s \in Servers, ChangeServer(s) PROVE TypeOK'
  BY <1>5 DEF ChangeServer
<1>6. ASSUME NEW s \in Servers, NEW list \in ServerLists, Publish(s, list) PROVE TypeOK'
  <2>1. answer' \in [Servers -> ServerLists]
    BY <1>6 DEF Publish
  <2>2. QED
    BY <1>6, <2>1 DEF Publish
<1>7. QED
  BY <1>2, <1>3, <1>4, <1>5, <1>6 DEF Outside

\* Doing nothing changes no type.
LEMMA StutterType == TypeOK /\ UNCHANGED vars => TypeOK'
BY DEF TypeOK, vars, installVars, otaVars, diskVars, outsideVars

\* Type correctness: every variable keeps its type, and run_once has a manifest
\* wherever it uses one (no path of the code reaches a use of the manifest
\* without get_manifest).
THEOREM TypeCorrect == Spec => []TypeOK
<1>1. Init => TypeOK
  BY InitType
<1>2. TypeOK /\ [Next]_vars => TypeOK'
  BY RunLoopType, CheckType, RecoverType, DownloadType, AgentType, InstallType,
     FinishType, OutsideType, StutterType DEF Next
<1>3. QED
  BY <1>1, <1>2, PTL DEF Spec

-----------------------------------------------------------------------------
(* The inductive invariant *)

\* run_once past get_manifest; forcePurge is run's own loop, with a manifest of
\* its own.
WithManifest == Working \ {"forcePurge"}

\* The mark of the install under way could not be written.
Unmarked == "file" \in Faults /\ ~marked.done

\* The marker is this manifest's also while its interrupted install is undone.
MarkedWhileWorking ==
  /\ MarkedWhileInstalling
  /\ pc \in Installing => marker = m.server \/ Unmarked
  /\ pc = "purge" => marker = m.server

\* The side follows the stage wherever run_once has its manifest.
SideFollowsStage ==
  pc \in WithManifest =>
    /\ both = "Operator" => m.operator
    /\ both = "Vehicle" => ~m.operator

\* The manifest being purged has no recorded component left to save.
PurgeForgets ==
  pc = "purge" => \A c \in Comps \ Meta : m.comp[c].updated => m.comp[c].sum = NoSum

IInv ==
  /\ TypeOK
  /\ MarkedWhileWorking
  /\ SideFollowsStage
  /\ PurgeForgets
  /\ InterruptedIsForgotten

\* A step of the install touches nothing of run_once's, keeps the manifest's
\* server and side, and leads to another step of the install, to its end or to
\* a panic; the purge keeps the manifest as it is.
LEMMA InstallFrame ==
  ASSUME TypeOK, Install
  PROVE  /\ UNCHANGED otaVars
         /\ pc \in Installing => pc' \in Installing \cup {"finish", "dead"}
         /\ pc \in Installing => m'.server = m.server /\ m'.operator = m.operator
         /\ pc \notin Installing =>
              pc \in {"purge", "forcePurge"} /\ pc' \in {pc, "dead"} /\ UNCHANGED m
<1>1. m \in ManifestType
  BY DEF Install, InstallStep, TypeOK, InstallComponent, InstallerPanics, Purging,
         InstallSucceeded, InstallFailed, SavePrevComponent, SavePrevFails, SavePrevDone,
         RollBackComponent, RollBackDone, RestoreArchive, RestoreDone, PurgeComponent, Working
<1>2. ASSUME NEW c \in Comps, NEW d, m' = [m EXCEPT !.comp[c] = d]
      PROVE  m'.server = m.server /\ m'.operator = m.operator
  BY <1>1, <1>2 DEF ManifestType
<1> USE DEF Installing
<1>3. UNCHANGED otaVars
  BY DEF Install
<1>4. ASSUME NEW c \in Comps, InstallComponent(c)
      PROVE  pc = "install" /\ pc' = pc /\ m'.server = m.server /\ m'.operator = m.operator
  BY <1>2, <1>4 DEF InstallComponent
<1>5. ASSUME NEW c \in Comps, InstallerPanics(c)
      PROVE  pc \in Installing \cup {"purge", "forcePurge"} /\ pc' = "dead" /\ UNCHANGED m
  BY <1>5 DEF InstallerPanics, Purging
<1>6. ASSUME NEW c \in Comps, RollBackComponent(c)
      PROVE  pc = "rollback" /\ pc' = pc /\ m'.server = m.server /\ m'.operator = m.operator
  BY <1>2, <1>6 DEF RollBackComponent, RollBackToNothing, RollBackToSaved
<1>7. ASSUME \/ InstallSucceeded \/ InstallFailed \/ SavePrevDone \/ RollBackDone \/ RestoreDone
             \/ \E c \in Comps : SavePrevComponent(c) \/ SavePrevFails(c) \/ RestoreArchive(c)
      PROVE  pc \in Installing /\ pc' \in Installing \cup {"finish"} /\ UNCHANGED m
  BY <1>7 DEF InstallSucceeded, InstallFailed, SavePrevDone, RollBackDone, RestoreDone,
              SavePrevComponent, SavePrevFails, RestoreArchive
<1>8. ASSUME NEW c \in Comps, PurgeComponent(c)
      PROVE  pc \in {"purge", "forcePurge"} /\ pc' = pc /\ UNCHANGED m
  BY <1>8 DEF PurgeComponent
<1>9. QED
  BY <1>3, <1>4, <1>5, <1>6, <1>7, <1>8 DEF Install, InstallStep

\* Packages are replaced only under the mark of the manifest being installed.
LEMMA MarkedStep == TypeOK /\ MarkedWhileWorking /\ Next => MarkedWhileWorking'
<1> SUFFICES ASSUME TypeOK, MarkedWhileWorking PROVE Next => MarkedWhileWorking'
  OBVIOUS
<1> USE DEF MarkedWhileWorking, MarkedWhileInstalling, Unmarked, Installing, packages,
            loop, reported, otaVars, diskVars, outsideVars
<1>1. RunLoop => MarkedWhileWorking'
  BY DEF RunLoop, TimerExpires, Receive, ReceiveUpdateVersion, ReceiveUpdateBothSides,
         ReceiveUpdateVersionForce
<1>2. Check => MarkedWhileWorking'
  BY DEF Check, FetchLicense, FetchLicenseFails, ReadManifest, CoreHasConnectedSession,
         Retry, Leave
<1>3. NoIncompleteInstall \/ FullReset \/ FullResetFails => MarkedWhileWorking'
  BY DEF NoIncompleteInstall, FullReset, FullResetFails, Retry, Leave
<1>4. PartialReset => MarkedWhileWorking'
  BY DEF PartialReset, PrepareForServerPurge, TypeOK, Working, ManifestType
<1>5. SavePurgedHash => MarkedWhileWorking'
  BY DEF SavePurgedHash, Retry, Leave
<1>6. Download => MarkedWhileWorking'
  BY DEF Download, PostChecksums, DownloadComponents, DownloadHangs, DownloadManagerFails, Continue, Leave
<1>7. ReportAgentPending \/ SetFutureVersion \/ SaveAgentHash => MarkedWhileWorking'
  BY DEF ReportAgentPending, SetFutureVersion, SaveAgentHash
<1>8. AgentInstalled \/ AgentInstallFails => MarkedWhileWorking'
  BY DEF AgentInstalled, AgentInstallFails, Restart, Leave
<1>9. Install => MarkedWhileWorking'
  BY InstallFrame
<1>10. ASSUME MarkIncomplete PROVE MarkedWhileWorking'
  <2>1. PICK works \in Settings :
          /\ marker' \in IF works THEN {MarkedServer} ELSE {marker, Unnamed}
          /\ marked' = [operator |-> m.operator, ended |-> FALSE, done |-> works]
    BY <1>10 DEF MarkIncomplete
  <2>2. ~marked'.ended /\ marked'.done = works /\ m' = m /\ pc' \in {"agent", "install"}
    BY <1>10, <2>1 DEF MarkIncomplete
  <2>3. CASE works
    BY <2>1, <2>2, <2>3 DEF MarkedServer
  <2>4. CASE ~works
    <3>1. "file" \in Faults
      BY <2>1, <2>4 DEF Settings
    <3>2. QED
      BY <2>2, <2>4, <3>1
  <2>5. QED
    BY <2>3, <2>4
<1>11. SkipInstall \/ ReportError \/ SaveHash \/ ClearMarker \/ AdvanceStage
         => MarkedWhileWorking'
  BY DEF SkipInstall, ReportError, SaveHash, ClearMarker, AdvanceStage, Continue, Retry, Leave
<1>12. Crash \/ RestartAfterPanic => MarkedWhileWorking'
  BY DEF Crash, RestartAfterPanic, Restart, Leave
<1>13. Outside => MarkedWhileWorking'
  BY DEF Outside, SendRequest, ChangeServer, Publish, installVars
<1>14. QED
  BY <1>1, <1>2, <1>3, <1>4, <1>5, <1>6, <1>7, <1>8, <1>9, <1>10, <1>11, <1>12, <1>13
     DEF Next, Recover, Agent, Finish

\* The side is chosen when the manifest is read, and the stage file is written
\* when the manifest is gone.
LEMMA SideStep == TypeOK /\ SideFollowsStage /\ Next => SideFollowsStage'
<1> SUFFICES ASSUME TypeOK, SideFollowsStage PROVE Next => SideFollowsStage'
  OBVIOUS
<1> USE DEF SideFollowsStage, WithManifest, Working, packages, loop, reported, otaVars,
            diskVars, outsideVars
<1>1. RunLoop => SideFollowsStage'
  BY DEF RunLoop, TimerExpires, Receive, ReceiveUpdateVersion, ReceiveUpdateBothSides,
         ReceiveUpdateVersionForce
<1>2. FetchLicense \/ FetchLicenseFails \/ CoreHasConnectedSession => SideFollowsStage'
  BY DEF FetchLicense, FetchLicenseFails, CoreHasConnectedSession, Retry, Leave
<1>3. ASSUME ReadManifest PROVE SideFollowsStage'
  <2>1. m'.operator = GetOperator(override')
    BY <1>3 DEF ReadManifest, NewManifest
  <2>2. override' = (IF both = "None" THEN override ELSE both) /\ both' = both
    BY <1>3 DEF ReadManifest, OverrideBy
  <2>3. CASE both = "Operator"
    BY <2>1, <2>2, <2>3 DEF GetOperator
  <2>4. CASE both = "Vehicle"
    BY <2>1, <2>2, <2>4 DEF GetOperator
  <2>5. QED
    BY <2>2, <2>3, <2>4
<1>4. NoIncompleteInstall \/ FullReset \/ FullResetFails => SideFollowsStage'
  BY DEF NoIncompleteInstall, FullReset, FullResetFails, NewManifest, Retry, Leave
<1>5. PartialReset => SideFollowsStage'
  BY DEF PartialReset, PrepareForServerPurge, TypeOK, ManifestType
<1>6. SavePurgedHash => SideFollowsStage'
  BY DEF SavePurgedHash, Retry, Leave
<1>7. PostChecksums => SideFollowsStage'
  BY DEF PostChecksums, UpdateWithJson, TypeOK, ManifestType
<1>8. DownloadComponents \/ DownloadHangs \/ DownloadManagerFails => SideFollowsStage'
  BY DEF DownloadComponents, DownloadHangs, DownloadManagerFails, UpdateComponentsPaths, Continue, Leave,
         TypeOK, ManifestType
<1>9. Agent => SideFollowsStage'
  BY DEF Agent, ReportAgentPending, SetFutureVersion, SaveAgentHash, AgentInstalled,
         AgentInstallFails, Restart, Leave
<1>10. Install => SideFollowsStage'
  BY InstallFrame DEF Installing
<1>11. SkipInstall \/ MarkIncomplete \/ ReportError \/ SaveHash \/ ClearMarker
         => SideFollowsStage'
  BY DEF SkipInstall, MarkIncomplete, ReportError, SaveHash, ClearMarker, Continue, Leave
<1>12. AdvanceStage => SideFollowsStage'
  BY DEF AdvanceStage, Retry, Continue, Leave
<1>13. Crash \/ RestartAfterPanic => SideFollowsStage'
  BY DEF Crash, RestartAfterPanic, Restart, Leave
<1>14. Outside => SideFollowsStage'
  BY DEF Outside, SendRequest, ChangeServer, Publish, installVars
<1>15. QED
  BY <1>1, <1>2, <1>3, <1>4, <1>5, <1>6, <1>7, <1>8, <1>9, <1>10, <1>11, <1>12, <1>13, <1>14
     DEF Next, Check, Recover, Download, Finish

\* prepare_for_server_purge leaves nothing recorded to be saved again.
LEMMA PurgeLeavesNothing ==
  ASSUME NEW mf \in ManifestType, NEW c \in Comps \ Meta,
         PrepareForServerPurge(mf).comp[c].updated
  PROVE  PrepareForServerPurge(mf).comp[c].sum = NoSum
<1>1. CASE CurrentlyInstalled(mf.comp[c])
  BY <1>1 DEF PrepareForServerPurge, ManifestType, Settled
<1>2. CASE ~CurrentlyInstalled(mf.comp[c])
  <2>1. PrepareForServerPurge(mf).comp[c] = [mf.comp[c] EXCEPT !.updated = TRUE]
    BY <1>2 DEF PrepareForServerPurge, ManifestType
  <2>2. QED
    BY <1>2, <2>1 DEF CurrentlyInstalled, ManifestType, Component
<1>3. QED
  BY <1>1, <1>2

\* Saving such a manifest empties the entry of its server and side.
LEMMA WritePurged ==
  ASSUME NEW h \in HashManifest, NEW mf \in ManifestType,
         NEW c \in Comps \ Meta, mf.comp[c].updated => mf.comp[c].sum = NoSum
  PROVE  WriteToFile(h, mf)[FullServerName(mf.server, mf.operator)][c] = NoSum
<1>1. FullServerName(mf.server, mf.operator) \in Keys
  BY DEF FullServerName, Keys, ManifestType
<1>2. QED
  BY <1>1 DEF WriteToFile, Recorded

\* What an interrupted install had recorded is forgotten before the server is
\* asked, and nothing is recorded until the next install is marked.
LEMMA ForgottenStep ==
  TypeOK /\ MarkedWhileWorking /\ PurgeForgets /\ InterruptedIsForgotten /\ Next
    => PurgeForgets' /\ InterruptedIsForgotten'
<1> DEFINE Forgets == PurgeForgets /\ InterruptedIsForgotten
<1> SUFFICES ASSUME TypeOK, MarkedWhileWorking, Forgets PROVE Next => Forgets'
  OBVIOUS
<1> USE DEF PurgeForgets, InterruptedIsForgotten, packages, loop, reported, otaVars,
            diskVars, outsideVars
<1>1. RunLoop => Forgets'
  BY DEF RunLoop, TimerExpires, Receive, ReceiveUpdateVersion, ReceiveUpdateBothSides,
         ReceiveUpdateVersionForce
<1>2. Check => Forgets'
  BY DEF Check, FetchLicense, FetchLicenseFails, ReadManifest, CoreHasConnectedSession,
         Retry, Leave
<1>3. NoIncompleteInstall \/ FullResetFails => Forgets'
  BY DEF NoIncompleteInstall, FullResetFails, Retry, Leave
<1>4. ASSUME FullReset PROVE Forgets'
  <2>1. m'.operator \in BOOLEAN /\ hash' = EmptyHash /\ pc' = "checksums"
    BY <1>4 DEF FullReset, NewManifest, TypeOK, Working, ManifestType
  <2>2. ASSUME NEW s \in Names
        PROVE  \A c \in Comps : EmptyHash[FullServerName(s, m'.operator)][c] = NoSum
    BY <2>1 DEF EmptyHash, FullServerName, Keys
  <2>3. QED
    BY <2>1, <2>2
<1>5. ASSUME PartialReset PROVE Forgets'
  <2>1. m \in ManifestType /\ m' = PrepareForServerPurge(m) /\ pc' = "purge"
    BY <1>5 DEF PartialReset, TypeOK, Working
  <2>2. QED
    BY <2>1, PurgeLeavesNothing
<1>6. ASSUME SavePurgedHash PROVE Forgets'
  <2>1. CASE pc = "purge"
    <3>1. /\ m \in ManifestType /\ hash \in HashManifest
          /\ marker' = m.server /\ m' = m /\ hash' = WriteToFile(hash, m) /\ pc' = "checksums"
      BY <1>6, <2>1 DEF SavePurgedHash, TypeOK, Working, MarkedWhileWorking
    <3>2. ASSUME NEW c \in Comps \ Meta
          PROVE  hash'[FullServerName(m.server, m.operator)][c] = NoSum
      BY <2>1, <3>1, WritePurged
    <3>3. QED
      BY <3>1, <3>2
  <2>2. CASE pc # "purge"
    BY <1>6, <2>2 DEF SavePurgedHash, Retry, Leave
  <2>3. QED
    BY <2>1, <2>2
<1>7. ASSUME PostChecksums PROVE Forgets'
  <2>1. m'.operator = m.operator
    BY <1>7 DEF PostChecksums, UpdateWithJson, TypeOK, Working, ManifestType
  <2>2. QED
    BY <1>7, <2>1 DEF PostChecksums
<1>8. ASSUME DownloadComponents PROVE Forgets'
  <2>1. m'.operator = m.operator
    BY <1>8 DEF DownloadComponents, UpdateComponentsPaths, TypeOK, Working, ManifestType
  <2>2. QED
    BY <1>8, <2>1 DEF DownloadComponents
<1>9. DownloadHangs \/ DownloadManagerFails => Forgets'
  BY DEF DownloadHangs, DownloadManagerFails, Continue, Leave
<1>10. Agent => Forgets'
  BY DEF Agent, ReportAgentPending, SetFutureVersion, SaveAgentHash, AgentInstalled,
         AgentInstallFails, Restart, Leave
<1>11. Install => Forgets'
  BY InstallFrame DEF Installing
<1>12. Finish => Forgets'
  BY DEF Finish, SkipInstall, MarkIncomplete, ReportError, SaveHash, ClearMarker,
         AdvanceStage, Continue, Retry, Leave
<1>13. Crash \/ RestartAfterPanic => Forgets'
  BY DEF Crash, RestartAfterPanic, Restart, Leave
<1>14. Outside => Forgets'
  BY DEF Outside, SendRequest, ChangeServer, Publish, installVars
<1>15. QED
  BY <1>1, <1>2, <1>3, <1>4, <1>5, <1>6, <1>7, <1>8, <1>9, <1>10, <1>11, <1>12, <1>13, <1>14
     DEF Next, Recover, Download

\* IInv is inductive.
LEMMA IInvInductive == Spec => []IInv
<1>1. Init => IInv
  BY InitType DEF Init, IInv, MarkedWhileWorking, MarkedWhileInstalling, Installing,
                  SideFollowsStage, WithManifest, Working, PurgeForgets, InterruptedIsForgotten
<1>2. IInv /\ Next => IInv'
  BY RunLoopType, CheckType, RecoverType, DownloadType, AgentType, InstallType, FinishType,
     OutsideType, MarkedStep, SideStep, ForgottenStep DEF IInv, Next
<1>3. IInv /\ UNCHANGED vars => IInv'
  <2>1. TypeOK /\ UNCHANGED vars => TypeOK'
    BY StutterType
  <2>2. QED
    BY <2>1 DEF IInv, MarkedWhileWorking, MarkedWhileInstalling, SideFollowsStage,
                Unmarked, PurgeForgets, InterruptedIsForgotten, vars, installVars, otaVars, diskVars,
                outsideVars
<1>4. QED
  BY <1>1, <1>2, <1>3, PTL DEF Spec

-----------------------------------------------------------------------------
(* The safety theorems *)

\* Whatever kills the process while packages or the agent are being replaced,
\* the mark of this server is on the disk (set_incomplete_install_status before
\* install_manifest, taken away only after it returned), unless it could not be
\* written in the first place, which is only logged (ota_manager.rs:431).
THEOREM MarkedWhileInstallingHolds == Spec => []MarkedWhileInstalling
<1>1. IInv => MarkedWhileInstalling
  BY DEF IInv, MarkedWhileWorking
<1>2. QED
  BY <1>1, IInvInductive, PTL

\* Only the steps of the install and of the purge touch packages.
LEMMA OnlyInstallTouchesPackages ==
  ASSUME Next, machine' # machine
  PROVE  Install
<1> USE DEF packages, loop, reported, otaVars, installVars
<1>1. ~RunLoop
  BY DEF RunLoop, TimerExpires, ReceiveUpdateVersion, ReceiveUpdateBothSides,
         ReceiveUpdateVersionForce
<1>2. ~Check
  BY DEF Check, FetchLicense, FetchLicenseFails, ReadManifest, CoreHasConnectedSession
<1>3. ~Recover
  BY DEF Recover, NoIncompleteInstall, FullReset, FullResetFails, PartialReset, SavePurgedHash
<1>4. ~Download
  BY DEF Download, PostChecksums, DownloadComponents, DownloadHangs, DownloadManagerFails
<1>5. ~Agent
  BY DEF Agent, ReportAgentPending, SetFutureVersion, SaveAgentHash, AgentInstalled,
         AgentInstallFails
<1>6. ~Finish
  BY DEF Finish, SkipInstall, MarkIncomplete, ReportError, SaveHash, ClearMarker, AdvanceStage
<1>7. ~Crash /\ ~RestartAfterPanic /\ ~Outside
  BY DEF Crash, RestartAfterPanic, Outside, SendRequest, ChangeServer, Publish
<1>8. QED
  BY <1>1, <1>2, <1>3, <1>4, <1>5, <1>6, <1>7 DEF Next

\* No package changes without a mark, but in a forced update's purge and in an
\* install whose own mark could not be written: no step of any run, before or
\* after the install, touches the machine.
THEOREM ChangesAreMarkedHolds == Spec => ChangesAreMarked
<1> DEFINE Marked == machine' # machine => \/ marker # NoServer
                                           \/ pc = "forcePurge"
                                           \/ pc \in Installing /\ ~marked.done
<1>1. ASSUME IInv, Next PROVE Marked
  <2>1. SUFFICES ASSUME machine' # machine, pc # "forcePurge",
                        pc \in Installing => marked.done
                 PROVE  marker # NoServer
    OBVIOUS
  <2>2. Install
    BY <1>1, <2>1, OnlyInstallTouchesPackages
  <2>3. pc \in Installing \/ pc = "purge"
    BY <1>1, <2>1, <2>2, InstallFrame DEF IInv
  <2>4. marker = m.server /\ m \in ManifestType
    BY <1>1, <2>1, <2>3 DEF IInv, TypeOK, MarkedWhileWorking, MarkedWhileInstalling,
                            Installing, Working
  <2>5. QED
    BY <2>4, OTAAssumption DEF ManifestType
<1>2. IInv /\ [Next]_vars => [Marked]_vars
  BY <1>1
<1>3. QED
  BY <1>2, IInvInductive, PTL DEF Spec, ChangesAreMarked

\* The manifest run_once works on is that of the stage in the status file.
THEOREM StageDecidesSideHolds == Spec => []StageDecidesSide
<1>1. IInv => StageDecidesSide
  BY DEF IInv, SideFollowsStage, StageDecidesSide, WithManifest, Working, Installing
<1>2. QED
  BY <1>1, IInvInductive, PTL

\* Past the recovery nothing is recorded for the interrupted install's server.
THEOREM InterruptedIsForgottenHolds == Spec => []InterruptedIsForgotten
<1>1. IInv => InterruptedIsForgotten
  BY DEF IInv
<1>2. QED
  BY <1>1, IInvInductive, PTL

-----------------------------------------------------------------------------
(* A node that cannot start is shown as failed, when no put is lost *)

\* The steps at which the version file is known to name the running version or
\* an older one: from verify_version to the moment install_agent sets it.
Verified == WithManifest \ {"agentHash", "agentInstall", "finish", "saved", "stage"}

VersionInv ==
  /\ StuckAgentIsReported
  /\ pc \in Verified => VersionVerified
  /\ pc \in {"agentVersion", "agentHash", "agentInstall"} => nodeStatus = "Failed"

\* A step of the install leaves the version files alone.
LEMMA InstallVersion == TypeOK /\ VersionInv /\ Install => VersionInv'
<1> SUFFICES ASSUME TypeOK, VersionInv, Install PROVE VersionInv'
  OBVIOUS
<1>1. UNCHANGED <<futureVersion, agentVersion>>
  BY InstallFrame DEF otaVars, diskVars
<1>2. CASE pc \in {"purge", "forcePurge"}
  <2>1. pc' \in {pc, "dead"} /\ UNCHANGED nodeStatus
    BY <1>2, InstallFrame DEF Install, InstallStep, InstallComponent, InstallerPanics,
       InstallSucceeded, InstallFailed, SavePrevComponent, SavePrevFails,
       SavePrevDone, RollBackComponent, RollBackDone, RestoreArchive, RestoreDone,
       PurgeComponent, Installing
  <2>2. QED
    BY <1>1, <2>1 DEF VersionInv, StuckAgentIsReported, VersionVerified, Verified,
                      WithManifest, Working
<1>3. CASE pc \notin {"purge", "forcePurge"}
  <2>1. /\ pc \in {"install", "savePrev", "rollback", "restore", "restoreBack"}
        /\ pc' \notin {"agentVersion", "agentHash", "agentInstall"}
    BY <1>3 DEF Install, InstallStep, InstallComponent, InstallerPanics,
       Purging, InstallSucceeded, InstallFailed, SavePrevComponent, SavePrevFails,
       SavePrevDone, RollBackComponent, RollBackDone, RestoreArchive, RestoreDone,
       PurgeComponent
  <2>2. QED
    BY <1>1, <2>1 DEF VersionInv, StuckAgentIsReported, VersionVerified, Verified,
                      WithManifest, Working
<1>4. QED
  BY <1>2, <1>3

\* Every other step.
LEMMA VersionStep ==
  ASSUME "put" \notin Faults
  PROVE  TypeOK /\ VersionInv /\ Next => VersionInv'
<1> SUFFICES ASSUME TypeOK, VersionInv PROVE Next => VersionInv'
  OBVIOUS
<1>1. \A p : Put(p) = {p}
  BY DEF Put
<1>2. futureVersion \in Nat /\ agentVersion \in Nat
  BY DEF TypeOK
<1> USE DEF VersionInv, StuckAgentIsReported, VersionVerified, Verified, WithManifest,
            Working, packages, loop, reported, otaVars, diskVars, outsideVars
<1>3. RunLoop => VersionInv'
  BY DEF RunLoop, TimerExpires, Receive, ReceiveUpdateVersion, ReceiveUpdateBothSides,
         ReceiveUpdateVersionForce
<1>4. FetchLicense \/ FetchLicenseFails \/ CoreHasConnectedSession => VersionInv'
  BY DEF FetchLicense, FetchLicenseFails, CoreHasConnectedSession, Retry, Leave
<1>5. ReadManifest => VersionInv'
  BY <1>2 DEF ReadManifest
<1>6. Recover => VersionInv'
  BY DEF Recover, NoIncompleteInstall, FullReset, FullResetFails, PartialReset,
         SavePurgedHash, Retry, Leave
<1>7. Download => VersionInv'
  BY <1>1 DEF Download, PostChecksums, DownloadComponents, DownloadHangs, DownloadManagerFails, Continue, Leave
<1>8. ReportAgentPending => VersionInv'
  BY <1>1 DEF ReportAgentPending
<1>9. SetFutureVersion \/ SaveAgentHash \/ AgentInstallFails => VersionInv'
  BY DEF SetFutureVersion, SaveAgentHash, AgentInstallFails
<1>10. AgentInstalled => VersionInv'
  BY DEF AgentInstalled, Restart, Leave
<1>11. Install => VersionInv'
  BY InstallVersion
<1>12. SkipInstall \/ ReportError => VersionInv'
  BY <1>1 DEF SkipInstall, ReportError, Continue, Leave
<1>13. MarkIncomplete \/ SaveHash \/ ClearMarker => VersionInv'
  BY DEF MarkIncomplete, SaveHash, ClearMarker
<1>14. AdvanceStage => VersionInv'
  BY DEF AdvanceStage, Retry, Continue, Leave
<1>15. ASSUME Crash PROVE VersionInv'
  <2>1. pc' = "start" /\ UNCHANGED <<nodeStatus, agentVersion>>
    BY <1>15 DEF Crash, Restart, Leave
  <2>2. futureVersion' = futureVersion \/ futureVersion' = 0
    BY <1>15 DEF Crash, TornWrite
  <2>3. QED
    BY <1>2, <2>1, <2>2
<1>16. RestartAfterPanic => VersionInv'
  BY DEF RestartAfterPanic, Restart, Leave
<1>17. Outside => VersionInv'
  BY DEF Outside, SendRequest, ChangeServer, Publish, installVars
<1>18. QED
  BY <1>3, <1>4, <1>5, <1>6, <1>7, <1>8, <1>9, <1>10, <1>11, <1>12, <1>13, <1>14, <1>15,
     <1>16, <1>17 DEF Next, Check, Agent, Finish

\* While the version file makes the agent panic at every start, the server was
\* told that the node failed, provided no put is lost.
THEOREM StuckAgentIsReportedHolds ==
  ASSUME "put" \notin Faults
  PROVE  Spec => []StuckAgentIsReported
<1>1. Init => VersionInv
  BY OTAAssumption DEF Init, VersionInv, StuckAgentIsReported, VersionVerified, Verified,
                       WithManifest, Working
<1>2. TypeOK /\ VersionInv /\ [Next]_vars => VersionInv'
  <2>1. VersionInv /\ UNCHANGED vars => VersionInv'
    BY DEF VersionInv, StuckAgentIsReported, VersionVerified, vars, installVars, otaVars,
           diskVars
  <2>2. QED
    BY <2>1, VersionStep
<1>3. VersionInv => StuckAgentIsReported
  BY DEF VersionInv
<1>4. QED
  BY <1>1, <1>2, <1>3, TypeCorrect, PTL DEF Spec

-----------------------------------------------------------------------------
(* The steps of the install, seen from the component they handle *)

\* The key of the hash file a component of the manifest is recorded under.
Key(c) == WhichServer(c, m.server, m.operator)

\* What a step that handles c may do to the manifest and to the machine.
Handles(c, d, now) ==
  /\ m' \in ManifestType
  /\ m'.server = m.server /\ m'.operator = m.operator /\ m'.agent = m.agent
  /\ m'.comp[c] = d
  /\ \A e \in Comps : e # c => m'.comp[e] = m.comp[e]
  /\ machine'[c] = now
  /\ \A e \in Comps : e # c => machine'[e] = machine[e]

\* One component of the manifest is replaced.
LEMMA ManifestExceptComp ==
  ASSUME NEW mf \in ManifestType, NEW c \in Comps, NEW d \in Component
  PROVE  /\ [mf EXCEPT !.comp[c] = d].agent = mf.agent
         /\ [mf EXCEPT !.comp[c] = d].comp[c] = d
         /\ \A e \in Comps : e # c => [mf EXCEPT !.comp[c] = d].comp[e] = mf.comp[e]
BY DEF ManifestType

\* install_component touches one component: it is done, with its own checksum or
\* none, or it is still to be handled.
LEMMA InstallComponentEffect ==
  ASSUME TypeOK, NEW c \in Comps, InstallComponent(c)
  PROVE  \E r \in InstallOrUninstall(c) :
           /\ r \in OutcomeType
           /\ Handles(c, [m.comp[c] EXCEPT !.updated = r.ok, !.sum = HandledSum(c, r.ok)], r.now)
           /\ updatedList' = IF r.ok THEN updatedList \cup {c} ELSE updatedList
<1>1. m \in ManifestType /\ m.comp[c] \in Component /\ machine \in [Comps -> Sum]
  BY DEF InstallComponent, TypeOK, Working, ManifestType
<1>2. PICK r \in InstallOrUninstall(c) :
        /\ machine' = [machine EXCEPT ![c] = r.now]
        /\ m' = [m EXCEPT !.comp[c] =
                   [@ EXCEPT !.updated = r.ok, !.sum = HandledSum(c, r.ok)]]
        /\ updatedList' = IF r.ok THEN updatedList \cup {c} ELSE updatedList
  BY DEF InstallComponent
<1>3. r \in OutcomeType /\ r.now \in Sum /\ r.ok \in BOOLEAN /\ Saved(c) \in Sum
  BY <1>1, OutcomeTypes DEF OutcomeType
<1>4. HandledSum(c, r.ok) \in Sum
  BY <1>1, <1>3 DEF HandledSum, Component, Sum
<1> DEFINE d == [m.comp[c] EXCEPT !.updated = r.ok, !.sum = HandledSum(c, r.ok)]
<1>5. d \in Component /\ m' = [m EXCEPT !.comp[c] = d]
  BY <1>1, <1>2, <1>3, <1>4, ComponentExcept
<1> HIDE DEF d
<1>6. /\ m' \in ManifestType /\ m'.server = m.server /\ m'.operator = m.operator
      /\ m'.agent = m.agent /\ m'.comp[c] = d
      /\ \A e \in Comps : e # c => m'.comp[e] = m.comp[e]
  BY <1>1, <1>5, ManifestExcept, ManifestExceptComp
<1>7. machine'[c] = r.now /\ \A e \in Comps : e # c => machine'[e] = machine[e]
  BY <1>1, <1>2
<1>8. Handles(c, d, r.now)
  BY <1>6, <1>7 DEF Handles
<1>9. QED
  BY <1>2, <1>3, <1>8 DEF d

\* roll_back_components touches one component: it is gone, or as its saved
\* installer left it, or it is stuck.
LEMMA RollBackEffect ==
  ASSUME TypeOK, NEW c \in Comps, RollBackComponent(c)
  PROVE  \/ /\ ~PrevExists(c) /\ UNCHANGED stuck
            /\ \E left \in Cleared(c) :
                 Handles(c, [m.comp[c] EXCEPT !.updated = TRUE, !.sum = NoSum], left)
         \/ /\ PrevExists(c) /\ UNCHANGED stuck
            /\ \E r \in ReinstallOutcomes(c, Saved(c)) :
                 /\ r.ok
                 /\ Handles(c, [m.comp[c] EXCEPT !.updated = TRUE, !.path = TRUE,
                                                 !.sum = Saved(c)], r.now)
         \/ /\ PrevExists(c) /\ stuck' = stuck \cup {c}
            /\ \E r \in ReinstallOutcomes(c, Saved(c)) :
                 ~r.ok /\ Handles(c, m.comp[c], r.now)
<1>1. m \in ManifestType /\ m.comp[c] \in Component /\ machine \in [Comps -> Sum]
  BY DEF RollBackComponent, TypeOK, Working, ManifestType
<1>2. Saved(c) \in Sum /\ NoSum \in Sum
  BY <1>1, OutcomeTypes DEF Sum
<1>3. ASSUME NEW d \in Component, NEW now,
             m' = [m EXCEPT !.comp[c] = d], machine' = [machine EXCEPT ![c] = now]
      PROVE  Handles(c, d, now)
  <2>1. /\ m' \in ManifestType /\ m'.server = m.server /\ m'.operator = m.operator
        /\ m'.agent = m.agent /\ m'.comp[c] = d
        /\ \A e \in Comps : e # c => m'.comp[e] = m.comp[e]
    BY <1>1, <1>3, ManifestExcept, ManifestExceptComp
  <2>2. machine'[c] = now /\ \A e \in Comps : e # c => machine'[e] = machine[e]
    BY <1>1, <1>3
  <2>3. QED
    BY <2>1, <2>2 DEF Handles
<1>4. CASE RollBackToNothing(c)
  <2>1. PICK left \in Cleared(c) : machine' = [machine EXCEPT ![c] = left]
    BY <1>4 DEF RollBackToNothing
  <2>2. [m.comp[c] EXCEPT !.updated = TRUE, !.sum = NoSum] \in Component
    BY <1>1, <1>2, ComponentExcept
  <2>3. m' = [m EXCEPT !.comp[c] = [m.comp[c] EXCEPT !.updated = TRUE, !.sum = NoSum]]
    BY <1>1, <1>4 DEF RollBackToNothing
  <2>4. QED
    BY <1>3, <1>4, <2>1, <2>2, <2>3 DEF RollBackToNothing
<1>5. CASE RollBackToSaved(c)
  <2>1. PICK r \in ReinstallOutcomes(c, Saved(c)) :
          /\ machine' = [machine EXCEPT ![c] = r.now]
          /\ IF r.ok
             THEN /\ m' = [m EXCEPT !.comp[c] = [@ EXCEPT !.updated = TRUE,
                                                 !.path = TRUE, !.sum = Saved(c)]]
                  /\ UNCHANGED stuck
             ELSE stuck' = stuck \cup {c} /\ UNCHANGED m
    BY <1>5 DEF RollBackToSaved
  <2>2. CASE r.ok
    <3>1. [m.comp[c] EXCEPT !.updated = TRUE, !.path = TRUE, !.sum = Saved(c)] \in Component
      BY <1>1, <1>2, ComponentExcept
    <3>2. m' = [m EXCEPT !.comp[c] = [m.comp[c] EXCEPT !.updated = TRUE, !.path = TRUE,
                                                       !.sum = Saved(c)]]
      BY <1>1, <2>1, <2>2
    <3>3. QED
      BY <1>3, <1>5, <2>1, <2>2, <3>1, <3>2 DEF RollBackToSaved
  <2>3. CASE ~r.ok
    <3>1. m' = m /\ stuck' = stuck \cup {c} /\ machine' = [machine EXCEPT ![c] = r.now]
      BY <2>1, <2>3
    <3>2. Handles(c, m.comp[c], r.now)
      BY <1>1, <3>1 DEF Handles
    <3>3. QED
      BY <1>5, <2>3, <3>1, <3>2 DEF RollBackToSaved
  <2>4. QED
    BY <2>2, <2>3
<1>6. QED
  BY <1>4, <1>5 DEF RollBackComponent

-----------------------------------------------------------------------------
(* What one run of run_once relates: its manifest, its loops, the hash file *)

\* Outside the install, and what follows it, updated_list is empty.
Listing == {"install", "savePrev", "rollback", "restore", "restoreBack", "error", "finish",
            "saved", "stage", "dead"}
ListIsLocal == pc \notin Listing => updatedList = {}

\* The agent's component names a later version, or none.
AgentIsNewer ==
  /\ pc \in {"session", "purge", "checksums", "install", "savePrev", "restore"} => m.agent = 0
  /\ pc \in {"download", "decide"} /\ m.agent # 0 => m.agent > agentVersion
  /\ pc \in {"agent", "agentVersion", "agentHash", "agentInstall"} => m.agent > agentVersion
  /\ pc \in {"agentHash", "agentInstall"} => futureVersion = m.agent
  /\ pc \in {"finish", "saved", "stage"} /\ m.agent # 0 => ~VersionVerified

\* A step around the agent changes nothing of the run, a restart ends it.
LEMMA OutsideFrame ==
  ASSUME Outside
  PROVE  UNCHANGED <<installVars, hash, agentHash, marker, both, futureVersion, agentVersion,
                     override, src, marked>>
BY DEF Outside, SendRequest, ChangeServer, Publish, diskVars, installVars

\* A new process starts with nothing in memory; packages and saved installers stay,
\* but for an installer that was being saved.
LEMMA RestartFrame ==
  ASSUME Crash \/ RestartAfterPanic
  PROVE  /\ pc' = "start" /\ m' = NoManifest /\ override' = "None"
         /\ todo' = {} /\ updatedList' = {} /\ stuck' = {}
         /\ UNCHANGED machine
         /\ UNCHANGED prev \/ (Crash /\ UNCHANGED <<hash, marker>> /\ \E c \in Comps : TornSave(c))
BY DEF Crash, RestartAfterPanic, Restart, Leave, packages, TornWrite

\* updated_list is a local of the install and of what follows it.
LEMMA ListStep == TypeOK /\ ListIsLocal /\ Next => ListIsLocal'
<1> SUFFICES ASSUME TypeOK, ListIsLocal PROVE Next => ListIsLocal'
  OBVIOUS
<1> USE DEF ListIsLocal, Listing, packages, loop, reported, otaVars
<1>1. RunLoop \/ Check => ListIsLocal'
  BY DEF RunLoop, TimerExpires, Receive, ReceiveUpdateVersion, ReceiveUpdateBothSides,
         ReceiveUpdateVersionForce, Check, FetchLicense, FetchLicenseFails, ReadManifest,
         CoreHasConnectedSession, Retry, Leave
<1>2. Recover \/ Download => ListIsLocal'
  BY DEF Recover, NoIncompleteInstall, FullReset, FullResetFails, PartialReset, SavePurgedHash,
         Download, PostChecksums, DownloadComponents, DownloadHangs, DownloadManagerFails, Retry, Continue, Leave
<1>3. Agent => ListIsLocal'
  BY DEF Agent, ReportAgentPending, SetFutureVersion, SaveAgentHash, AgentInstalled,
         AgentInstallFails, Restart, Leave
<1>4. Install => ListIsLocal'
  BY DEF Install, InstallStep, InstallComponent, InstallerPanics, InstallSucceeded, InstallFailed,
         SavePrevComponent, SavePrevFails, SavePrevDone, RollBackComponent, RollBackDone,
         RestoreArchive, RestoreDone, PurgeComponent
<1>5. Finish => ListIsLocal'
  BY DEF Finish, SkipInstall, MarkIncomplete, ReportError, SaveHash, ClearMarker, AdvanceStage,
         Continue, Retry, Leave
<1>6. Crash \/ RestartAfterPanic \/ Outside => ListIsLocal'
  BY RestartFrame, OutsideFrame DEF installVars
<1>7. QED
  BY <1>1, <1>2, <1>3, <1>4, <1>5, <1>6 DEF Next

\* The agent's component is filled only by an answer that names a later agent.
LEMMA AgentStep == TypeOK /\ AgentIsNewer /\ Next => AgentIsNewer'
<1> SUFFICES ASSUME TypeOK, AgentIsNewer PROVE Next => AgentIsNewer'
  OBVIOUS
<1>0. /\ pc \in Working => m \in ManifestType /\ m.agent \in Nat
      /\ futureVersion \in Nat /\ agentVersion \in Nat
  BY DEF TypeOK, ManifestType
<1> USE DEF AgentIsNewer, packages, loop, reported, otaVars, diskVars, outsideVars
<1>1. RunLoop => AgentIsNewer'
  BY DEF RunLoop, TimerExpires, Receive, ReceiveUpdateVersion, ReceiveUpdateBothSides,
         ReceiveUpdateVersionForce
<1>2. Check => AgentIsNewer'
  BY DEF Check, FetchLicense, FetchLicenseFails, ReadManifest, CoreHasConnectedSession,
         NewManifest, Retry, Leave
<1>3. Recover => AgentIsNewer'
  <2>1. PartialReset => AgentIsNewer'
    BY <1>0 DEF PartialReset, PrepareForServerPurge, Working, ManifestType
  <2>2. QED
    BY <2>1 DEF Recover, NoIncompleteInstall, FullReset, FullResetFails, SavePurgedHash,
                NewManifest, Retry, Leave
<1>4. Download => AgentIsNewer'
  <2>1. ASSUME PostChecksums PROVE AgentIsNewer'
    <3>1. answer[src] \in ServerList
      BY OTAAssumption DEF TypeOK
    <3>2. m \in ManifestType /\ m.agent = 0 /\ m' = UpdateWithJson(m, answer[src], agentVersion)
      BY <1>0, <2>1 DEF PostChecksums, Working
    <3>3. m'.agent = 0 \/ m'.agent > agentVersion
      BY <3>1, <3>2 DEF UpdateWithJson, ManifestType
    <3>4. QED
      BY <2>1, <3>3 DEF PostChecksums
  <2>2. DownloadComponents => AgentIsNewer'
    BY <1>0 DEF DownloadComponents, UpdateComponentsPaths, Working, ManifestType
  <2>3. DownloadHangs \/ DownloadManagerFails => AgentIsNewer'
    BY DEF DownloadHangs, DownloadManagerFails, Continue, Leave
  <2>4. QED
    BY <2>1, <2>2, <2>3 DEF Download
<1>5. Agent => AgentIsNewer'
  BY <1>0 DEF Agent, ReportAgentPending, SetFutureVersion, SaveAgentHash, AgentInstalled,
         AgentInstallFails, VersionVerified, Working, Restart, Leave
<1>6. ASSUME Install PROVE AgentIsNewer'
  <2>1. UNCHANGED <<futureVersion, agentVersion>>
    BY <1>6, InstallFrame
  <2>2. ASSUME NEW c \in Comps, InstallComponent(c) PROVE AgentIsNewer'
    BY <2>1, <2>2, InstallComponentEffect DEF InstallComponent, Handles
  <2>3. ASSUME NEW c \in Comps, RollBackComponent(c) PROVE AgentIsNewer'
    BY <2>1, <2>3, RollBackEffect DEF RollBackComponent
  <2>4. QED
    BY <1>6, <2>1, <2>2, <2>3 DEF Install, InstallStep, InstallerPanics, InstallSucceeded,
       InstallFailed, SavePrevComponent, SavePrevFails, SavePrevDone, RollBackDone,
       RestoreArchive, RestoreDone, PurgeComponent, VersionVerified
<1>7. Finish => AgentIsNewer'
  <2>1. MarkIncomplete => AgentIsNewer'
    BY <1>0 DEF MarkIncomplete, IsFullyInstalled, Working
  <2>2. QED
    BY <1>0, <2>1 DEF Finish, SkipInstall, ReportError, SaveHash, ClearMarker, AdvanceStage,
       IsFullyInstalled, VersionVerified, Continue, Retry, Leave
<1>8. Crash \/ RestartAfterPanic \/ Outside => AgentIsNewer'
  BY RestartFrame, OutsideFrame DEF installVars, VersionVerified
<1>9. QED
  BY <1>1, <1>2, <1>3, <1>4, <1>5, <1>6, <1>7, <1>8 DEF Next

\* A component that is up to date, and was not handled, is as the hash file has it.
PlanIsRecorded ==
  pc \in Working =>
    \A c \in Hardcoded[m.operator] :
      m.comp[c].updated /\ (c \in updatedList => pc \in {"saved", "stage"}) =>
        m.comp[c].sum = hash[Key(c)][c]

\* Only what has to be handled was downloaded.
PathsAreNew ==
  /\ pc = "session" => ToHandle(m) = {}
  /\ pc \in {"session", "purge", "checksums"} => \A c \in Comps : ~m.comp[c].path
  /\ pc \in WithManifest =>
       \A c \in Comps : m.comp[c].path => ~m.comp[c].updated \/ c \in updatedList

\* What the loops over the components still have to do, and have done.
LoopsAreComplete ==
  /\ pc = "install" =>
       /\ todo \subseteq ToHandle(m) /\ updatedList \cap todo = {}
       /\ updatedList # {} \/ ToHandle(m) # {}
  /\ pc \in {"install", "savePrev", "restore", "finish"} =>
       \A c \in updatedList : m.comp[c].updated /\ (~m.comp[c].path => m.comp[c].sum = NoSum)
  /\ pc \in {"savePrev", "rollback"} => todo \subseteq updatedList
  /\ pc \in {"restore", "restoreBack"} => todo \subseteq Archives
  /\ pc \in {"savePrev", "restore"} => ToHandle(m) = {}
  /\ pc \in {"finish", "saved", "stage"} /\ m.agent = 0 => ToHandle(m) = {}
  /\ pc \in {"restore", "finish"} => \A c \in updatedList : Saved(c) = m.comp[c].sum
  /\ pc = "savePrev" => \A c \in updatedList \ todo : Saved(c) = m.comp[c].sum
  /\ pc = "stage" /\ marked.done => marker = NoServer
  /\ pc = "finish" /\ updatedList # {} => marker = m.server \/ Unmarked

\* Components of the other side only are never handled.
OthersAreSettled ==
  pc \in Working =>
    \A c \in Comps \ Hardcoded[m.operator] :
      m.comp[c].updated /\ m.comp[c].sum = NoSum /\ c \notin updatedList

\* All of it.
RunInv ==
  /\ ListIsLocal
  /\ AgentIsNewer
  /\ PlanIsRecorded
  /\ PathsAreNew
  /\ LoopsAreComplete
  /\ OthersAreSettled

\* Manifest::new finds nothing to do and what is recorded.
LEMMA NewManifestPlan ==
  ASSUME NEW h \in HashManifest, NEW s \in Names, NEW op \in BOOLEAN, NEW c \in Comps
  PROVE  /\ NewManifest(h, s, op).server = s /\ NewManifest(h, s, op).operator = op
         /\ NewManifest(h, s, op).comp[c].updated /\ ~NewManifest(h, s, op).comp[c].path
         /\ c \in Hardcoded[op] =>
              NewManifest(h, s, op).comp[c].sum = h[WhichServer(c, s, op)][c]
         /\ c \notin Hardcoded[op] => NewManifest(h, s, op).comp[c].sum = NoSum
BY DEF NewManifest, Settled

\* What the purge, the answer and the download leave up to date they leave as it was.
LEMMA PurgePlan ==
  ASSUME NEW mf \in ManifestType, NEW c \in Comps
  PROVE  /\ PrepareForServerPurge(mf).server = mf.server
         /\ PrepareForServerPurge(mf).operator = mf.operator
         /\ PrepareForServerPurge(mf).comp[c].path => mf.comp[c].path
         /\ PrepareForServerPurge(mf).comp[c].updated =>
              PrepareForServerPurge(mf).comp[c].sum = mf.comp[c].sum
         /\ mf.comp[c].sum = NoSum => PrepareForServerPurge(mf).comp[c].updated
<1>1. /\ PrepareForServerPurge(mf).server = mf.server
      /\ PrepareForServerPurge(mf).operator = mf.operator
      /\ \/ /\ mf.comp[c].sum # NoSum
            /\ PrepareForServerPurge(mf).comp[c] = [Settled(NoSum) EXCEPT !.updated = FALSE]
         \/ PrepareForServerPurge(mf).comp[c] = [mf.comp[c] EXCEPT !.updated = TRUE]
  BY DEF PrepareForServerPurge, ManifestType, CurrentlyInstalled
<1>2. mf.comp[c] \in Component
  BY DEF ManifestType
<1>3. QED
  BY <1>1, <1>2 DEF Settled, Component

\* What the server's answer does not plan anything for it leaves as it was.
LEMMA UpdateWithJsonPlan ==
  ASSUME NEW mf \in ManifestType, NEW list \in ServerList, NEW v \in Nat, NEW c \in Comps
  PROVE  /\ UpdateWithJson(mf, list, v).server = mf.server
         /\ UpdateWithJson(mf, list, v).operator = mf.operator
         /\ UpdateWithJson(mf, list, v).comp[c].path => mf.comp[c].path
         /\ UpdateWithJson(mf, list, v).comp[c].updated =>
              UpdateWithJson(mf, list, v).comp[c] = mf.comp[c]
         /\ c \notin Hardcoded[mf.operator] =>
              UpdateWithJson(mf, list, v).comp[c] = mf.comp[c]
<1>1. mf.comp[c] \in Component
  BY DEF ManifestType
<1>2. ASSUME NEW new
      PROVE  LET d == UpdateComponent(c, mf.comp[c], new)
             IN  (d.path => mf.comp[c].path) /\ (d.updated => d = mf.comp[c])
  BY <1>1 DEF UpdateComponent, Component
<1>3. \/ UpdateWithJson(mf, list, v) = mf
      \/ UpdateWithJson(mf, list, v) = [mf EXCEPT !.agent = list.agent]
      \/ UpdateWithJson(mf, list, v) = [mf EXCEPT !.comp = [e \in Comps |->
           IF e \in Hardcoded[mf.operator]
           THEN UpdateComponent(e, mf.comp[e], list.list[e])
           ELSE mf.comp[e]]]
  BY DEF UpdateWithJson
<1>4. CASE UpdateWithJson(mf, list, v) \in {mf, [mf EXCEPT !.agent = list.agent]}
  BY <1>4 DEF ManifestType
<1>5. CASE UpdateWithJson(mf, list, v) = [mf EXCEPT !.comp = [e \in Comps |->
             IF e \in Hardcoded[mf.operator]
             THEN UpdateComponent(e, mf.comp[e], list.list[e])
             ELSE mf.comp[e]]]
  <2>1. /\ UpdateWithJson(mf, list, v).server = mf.server
        /\ UpdateWithJson(mf, list, v).operator = mf.operator
        /\ UpdateWithJson(mf, list, v).comp[c] =
             IF c \in Hardcoded[mf.operator]
             THEN UpdateComponent(c, mf.comp[c], list.list[c]) ELSE mf.comp[c]
    BY <1>5 DEF ManifestType
  <2>2. QED
    BY <1>2, <2>1
<1>6. QED
  BY <1>3, <1>4, <1>5

\* A path is given only to what is to be handled.
LEMMA UpdatePathsPlan ==
  ASSUME NEW mf \in ManifestType, NEW c \in Comps
  PROVE  /\ UpdateComponentsPaths(mf).server = mf.server
         /\ UpdateComponentsPaths(mf).operator = mf.operator
         /\ UpdateComponentsPaths(mf).comp[c].updated = mf.comp[c].updated
         /\ mf.comp[c].updated => UpdateComponentsPaths(mf).comp[c] = mf.comp[c]
<1>1. /\ UpdateComponentsPaths(mf).server = mf.server
      /\ UpdateComponentsPaths(mf).operator = mf.operator
      /\ UpdateComponentsPaths(mf).comp[c] =
           IF c \in ToDownload(mf) THEN [mf.comp[c] EXCEPT !.path = TRUE] ELSE mf.comp[c]
  BY DEF UpdateComponentsPaths, ManifestType
<1>2. c \in ToDownload(mf) => ~mf.comp[c].updated
  BY DEF ToDownload
<1>3. mf.comp[c] \in Component
  BY DEF ManifestType
<1>4. QED
  BY <1>1, <1>2, <1>3 DEF Component

\* Saving a manifest records what is up to date in it.
LEMMA WriteRecords ==
  ASSUME NEW h \in HashManifest, NEW mf \in ManifestType, NEW c \in Hardcoded[mf.operator],
         mf.comp[c].updated
  PROVE  WriteToFile(h, mf)[WhichServer(c, mf.server, mf.operator)][c] = mf.comp[c].sum
<1>1. WhichServer(c, mf.server, mf.operator) \in Keys
  BY WhichServerKey DEF ManifestType
<1>2. c \in Recorded(mf) /\ c \in Comps
  BY ManifestAssumption DEF Recorded, ManifestType
<1>3. QED
  BY <1>1, <1>2 DEF WriteToFile

\* The manifest is made of the hash file, and what is up to date in it stays so
\* until it is saved again.
LEMMA PlanStep ==
  TypeOK /\ RunInv /\ Next => PlanIsRecorded'
<1> SUFFICES ASSUME TypeOK, ListIsLocal, PathsAreNew, LoopsAreComplete, PlanIsRecorded
             PROVE  Next => PlanIsRecorded'
  BY DEF RunInv
<1>0. /\ hash \in HashManifest
      /\ pc \in Working => m \in ManifestType
      /\ \A op \in BOOLEAN : Hardcoded[op] \subseteq Comps
      /\ \A mf \in ManifestType : Hardcoded[mf.operator] \subseteq Comps
  BY ManifestAssumption DEF TypeOK, ManifestType
<1>1. ASSUME NEW h \in HashManifest, NEW s \in Names, NEW op \in BOOLEAN,
             \/ m' = NewManifest(h, s, op)
             \/ m' = PrepareForServerPurge(NewManifest(h, s, op)),
             hash' = h
      PROVE  PlanIsRecorded'
  <2>1. NewManifest(h, s, op) \in ManifestType
    BY NewManifestType
  <2>2. m'.server = s /\ m'.operator = op
    BY <1>1, <2>1, NewManifestPlan, PurgePlan DEF NewManifest, PrepareForServerPurge
  <2>3. ASSUME NEW c \in Hardcoded[op], m'.comp[c].updated
        PROVE  m'.comp[c].sum = h[WhichServer(c, s, op)][c]
    BY <1>0, <1>1, <2>1, <2>3, NewManifestPlan, PurgePlan
  <2>4. QED
    BY <1>1, <2>2, <2>3 DEF PlanIsRecorded, Key
<1>2. ASSUME pc \in Working, UNCHANGED m, hash' = WriteToFile(hash, m)
      PROVE  PlanIsRecorded'
  BY <1>0, <1>2, WriteRecords DEF PlanIsRecorded, Key
<1>3. ASSUME pc' \notin Working PROVE PlanIsRecorded'
  BY <1>3 DEF PlanIsRecorded
<1>4. ASSUME pc \in Working, UNCHANGED <<m, hash, updatedList>>,
             pc' \in {"saved", "stage"} => pc = "saved"
      PROVE  PlanIsRecorded'
  BY <1>4 DEF PlanIsRecorded, Key
<1> USE DEF packages, loop, reported, otaVars, diskVars, outsideVars
<1>5. RunLoop => PlanIsRecorded'
  <2>1. ASSUME ReceiveUpdateVersionForce PROVE PlanIsRecorded'
    <3>1. PICK name \in ServerNames :
            \/ m' = PrepareForServerPurge(NewManifest(hash, name, GetOperator(override)))
            \/ pc' = pc
      BY <2>1 DEF ReceiveUpdateVersionForce
    <3>2. name \in Names /\ GetOperator(override) \in BOOLEAN /\ hash' = hash /\ pc = "idle"
      BY <2>1, ServerNamesType, OperatorType DEF ReceiveUpdateVersionForce, Receive, TypeOK
    <3>3. QED
      BY <1>0, <1>1, <1>3, <3>1, <3>2 DEF Working
  <2>2. QED
    BY <1>3, <2>1 DEF RunLoop, TimerExpires, Receive, ReceiveUpdateVersion,
                      ReceiveUpdateBothSides, Working
<1>6. Check => PlanIsRecorded'
  <2>1. ASSUME ReadManifest PROVE PlanIsRecorded'
    <3>1. PICK name \in ServerNames : m' = NewManifest(hash, name, GetOperator(override'))
      BY <2>1 DEF ReadManifest
    <3>2. name \in Names /\ GetOperator(override') \in BOOLEAN /\ hash' = hash
      BY <2>1, ServerNamesType, OperatorType, CheckType DEF ReadManifest, TypeOK, Check
    <3>3. QED
      BY <1>0, <1>1, <3>1, <3>2
  <2>2. QED
    BY <1>3, <2>1 DEF Check, FetchLicense, FetchLicenseFails, CoreHasConnectedSession, Retry,
                      Leave, Working
<1>7. Recover => PlanIsRecorded'
  <2>1. NoIncompleteInstall => PlanIsRecorded'
    BY <1>4 DEF NoIncompleteInstall, Working
  <2>2. ASSUME FullReset PROVE PlanIsRecorded'
    <3>1. PICK name \in ServerNames : m' = NewManifest(EmptyHash, name, m.operator)
      BY <2>2 DEF FullReset
    <3>2. name \in Names /\ m.operator \in BOOLEAN /\ hash' = EmptyHash
      BY <1>0, <2>2, ServerNamesType DEF FullReset, Working, ManifestType
    <3>3. QED
      BY <1>1, <3>1, <3>2, EmptyHashType
  <2>3. FullResetFails => PlanIsRecorded'
    BY <1>3 DEF FullResetFails, Retry, Leave, Working
  <2>4. ASSUME PartialReset PROVE PlanIsRecorded'
    <3>1. m \in ManifestType /\ m' = PrepareForServerPurge(m) /\ UNCHANGED hash
          /\ updatedList = {} /\ pc \in Working
      BY <1>0, <2>4 DEF PartialReset, Working, ListIsLocal, Listing
    <3>2. m'.server = m.server /\ m'.operator = m.operator
      BY <3>1 DEF PrepareForServerPurge, ManifestType
    <3>3. ASSUME NEW c \in Hardcoded[m.operator], m'.comp[c].updated
          PROVE  m'.comp[c].sum = hash[Key(c)][c]
      <4>1. CASE CurrentlyInstalled(m.comp[c]) /\ c \notin Meta
        BY <1>0, <3>1, <3>3, <4>1 DEF PrepareForServerPurge, Settled, ManifestType
      <4>2. CASE ~(CurrentlyInstalled(m.comp[c]) /\ c \notin Meta)
        <5>1. m.comp[c].updated
          BY <1>0, <2>4, <3>1 DEF PartialReset, PathsAreNew, ToHandle
        <5>2. QED
          BY <1>0, <3>1, <3>3, <5>1, PurgePlan DEF PlanIsRecorded
      <4>3. QED
        BY <4>1, <4>2
    <3>4. QED
      BY <3>1, <3>2, <3>3 DEF PlanIsRecorded, Key
  <2>5. SavePurgedHash => PlanIsRecorded'
    BY <1>2, <1>3 DEF SavePurgedHash, Retry, Leave, Working
  <2>6. QED
    BY <2>1, <2>2, <2>3, <2>4, <2>5 DEF Recover
<1>8. Download => PlanIsRecorded'
  <2>1. ASSUME PostChecksums PROVE PlanIsRecorded'
    <3>1. answer[src] \in ServerList /\ agentVersion \in Nat
      BY OTAAssumption DEF TypeOK
    <3>2. /\ pc \in Working /\ m \in ManifestType
          /\ m' = UpdateWithJson(m, answer[src], agentVersion)
          /\ UNCHANGED <<hash, updatedList>> /\ pc = "checksums" /\ updatedList = {}
      BY <1>0, <2>1 DEF PostChecksums, Working, ListIsLocal, Listing
    <3>3. ASSUME NEW c \in Comps
          PROVE  /\ m'.server = m.server /\ m'.operator = m.operator
                 /\ m'.comp[c].updated => m'.comp[c] = m.comp[c]
      BY <3>1, <3>2, UpdateWithJsonPlan
    <3>4. m'.server = m.server /\ m'.operator = m.operator
      BY <3>2 DEF UpdateWithJson, ManifestType
    <3>5. QED
      BY <1>0, <3>2, <3>3, <3>4 DEF PlanIsRecorded, Key
  <2>2. ASSUME DownloadComponents PROVE PlanIsRecorded'
    <3>1. /\ pc \in Working /\ m \in ManifestType /\ m' = UpdateComponentsPaths(m)
          /\ UNCHANGED <<hash, updatedList>> /\ pc = "download" /\ updatedList = {}
      BY <1>0, <2>2 DEF DownloadComponents, Working, ListIsLocal, Listing
    <3>2. ASSUME NEW c \in Comps
          PROVE  m'.comp[c].updated => m'.comp[c] = m.comp[c]
      BY <3>1, UpdatePathsPlan
    <3>3. m'.server = m.server /\ m'.operator = m.operator
      BY <3>1 DEF UpdateComponentsPaths, ManifestType
    <3>4. QED
      BY <1>0, <3>1, <3>2, <3>3 DEF PlanIsRecorded, Key
  <2>3. DownloadHangs \/ DownloadManagerFails => PlanIsRecorded'
    BY <1>3 DEF DownloadHangs, DownloadManagerFails, Continue, Leave, Working
  <2>4. QED
    BY <2>1, <2>2, <2>3 DEF Download
<1>9. Agent => PlanIsRecorded'
  BY <1>2, <1>3, <1>4 DEF Agent, ReportAgentPending, SetFutureVersion, SaveAgentHash,
     AgentInstalled, AgentInstallFails, Restart, Leave, Working
<1>10. ASSUME Install PROVE PlanIsRecorded'
  <2>1. UNCHANGED hash
    BY <1>10, InstallFrame
  <2>2. ASSUME NEW c \in Comps, InstallComponent(c) PROVE PlanIsRecorded'
    <3>1. PICK r \in InstallOrUninstall(c) :
            /\ r \in OutcomeType
            /\ Handles(c, [m.comp[c] EXCEPT !.updated = r.ok, !.sum = HandledSum(c, r.ok)], r.now)
            /\ updatedList' = IF r.ok THEN updatedList \cup {c} ELSE updatedList
      BY <2>2, InstallComponentEffect
    <3>2. /\ pc = "install" /\ pc' = pc /\ pc \in Working /\ m \in ManifestType
          /\ m.comp[c] \in Component
      BY <1>0, <2>2 DEF InstallComponent, Working, ManifestType
    <3>3. /\ m'.server = m.server /\ m'.operator = m.operator
          /\ \A e \in Comps : e # c => m'.comp[e] = m.comp[e]
          /\ m'.comp[c].updated => c \in updatedList'
          /\ \A e \in Comps : e \in updatedList => e \in updatedList'
      BY <3>1, <3>2 DEF Handles, Component
    <3>4. QED
      BY <1>0, <2>1, <3>2, <3>3 DEF PlanIsRecorded, Key
  <2>3. ASSUME NEW c \in Comps, RollBackComponent(c) PROVE PlanIsRecorded'
    <3>1. /\ pc = "rollback" /\ pc' = pc /\ pc \in Working /\ m \in ManifestType
          /\ UNCHANGED updatedList /\ c \in updatedList
      BY <1>0, <2>3 DEF RollBackComponent, NextInOrder, Working, LoopsAreComplete
    <3>2. /\ m'.server = m.server /\ m'.operator = m.operator
          /\ \A e \in Comps : e # c => m'.comp[e] = m.comp[e]
      BY <2>3, RollBackEffect DEF Handles
    <3>3. QED
      BY <1>0, <2>1, <3>1, <3>2 DEF PlanIsRecorded, Key
  <2>4. CASE \/ InstallSucceeded \/ InstallFailed \/ SavePrevDone \/ RollBackDone \/ RestoreDone
             \/ \E c \in Comps : SavePrevComponent(c) \/ SavePrevFails(c) \/ RestoreArchive(c)
             \/ \E c \in Comps : PurgeComponent(c)
    BY <1>4, <2>1, <2>4 DEF InstallSucceeded, InstallFailed, SavePrevDone, RollBackDone,
       RestoreDone, SavePrevComponent, SavePrevFails, RestoreArchive, PurgeComponent, Working
  <2>5. ASSUME NEW c \in Comps, InstallerPanics(c) PROVE PlanIsRecorded'
    BY <1>3, <2>5 DEF InstallerPanics, Working
  <2>6. QED
    BY <1>10, <2>2, <2>3, <2>4, <2>5 DEF Install, InstallStep
<1>11. Finish => PlanIsRecorded'
  <2>1. ASSUME MarkIncomplete PROVE PlanIsRecorded'
    <3>1. /\ updatedList = {} /\ updatedList' = {} /\ UNCHANGED <<m, hash>>
          /\ pc \in Working
      BY <2>1 DEF MarkIncomplete, ListIsLocal, Listing, Working
    <3>2. QED
      BY <3>1 DEF PlanIsRecorded, Key
  <2>2. SaveHash => PlanIsRecorded'
    BY <1>2 DEF SaveHash, Working
  <2>3. SkipInstall \/ ClearMarker => PlanIsRecorded'
    BY <1>4 DEF SkipInstall, ClearMarker, Working
  <2>4. ReportError \/ AdvanceStage => PlanIsRecorded'
    BY <1>3 DEF ReportError, AdvanceStage, Continue, Retry, Leave, Working
  <2>5. QED
    BY <2>1, <2>2, <2>3, <2>4 DEF Finish
<1>12. Crash \/ RestartAfterPanic => PlanIsRecorded'
  BY <1>3, RestartFrame DEF Working
<1>13. Outside => PlanIsRecorded'
  BY OutsideFrame DEF PlanIsRecorded, Key, installVars
<1>14. QED
  BY <1>5, <1>6, <1>7, <1>8, <1>9, <1>10, <1>11, <1>12, <1>13 DEF Next

\* Only a component that is to be handled gets a path.
LEMMA PathsStep == TypeOK /\ RunInv /\ Next => PathsAreNew'
<1> SUFFICES ASSUME TypeOK, ListIsLocal, PathsAreNew, LoopsAreComplete
             PROVE  Next => PathsAreNew'
  BY DEF RunInv
<1>0. /\ hash \in HashManifest
      /\ pc \in Working => m \in ManifestType /\ \A c \in Comps : m.comp[c] \in Component
  BY DEF TypeOK, ManifestType
<1>1. ASSUME pc' \notin WithManifest PROVE PathsAreNew'
  BY <1>1 DEF PathsAreNew, WithManifest, Working
<1>2. ASSUME NEW h \in HashManifest, NEW s \in Names, NEW op \in BOOLEAN,
             m' = NewManifest(h, s, op)
      PROVE  PathsAreNew'
  BY <1>2, NewManifestPlan DEF PathsAreNew, ToHandle
<1>3. ASSUME pc \in WithManifest, UNCHANGED <<m, updatedList>>,
             pc' = "session" => pc = "session",
             pc' \in {"purge", "checksums"} => pc \in {"session", "purge", "checksums"}
      PROVE  PathsAreNew'
  BY <1>3 DEF PathsAreNew
<1> USE DEF packages, loop, reported, otaVars, diskVars, outsideVars
<1>4. RunLoop => PathsAreNew'
  BY <1>1 DEF RunLoop, TimerExpires, Receive, ReceiveUpdateVersion, ReceiveUpdateBothSides,
              ReceiveUpdateVersionForce, WithManifest, Working
<1>5. Check => PathsAreNew'
  <2>1. ASSUME ReadManifest PROVE PathsAreNew'
    <3>1. PICK name \in ServerNames : m' = NewManifest(hash, name, GetOperator(override'))
      BY <2>1 DEF ReadManifest
    <3>2. name \in Names /\ GetOperator(override') \in BOOLEAN
      BY <2>1, ServerNamesType, OperatorType, CheckType DEF TypeOK, Check
    <3>3. QED
      BY <1>0, <1>2, <3>1, <3>2
  <2>2. QED
    BY <1>1, <2>1 DEF Check, FetchLicense, FetchLicenseFails, CoreHasConnectedSession, Retry,
                      Leave, WithManifest, Working
<1>6. Recover => PathsAreNew'
  <2>1. NoIncompleteInstall => PathsAreNew'
    BY <1>3 DEF NoIncompleteInstall, WithManifest, Working
  <2>2. ASSUME FullReset PROVE PathsAreNew'
    <3>1. PICK name \in ServerNames : m' = NewManifest(EmptyHash, name, m.operator)
      BY <2>2 DEF FullReset
    <3>2. name \in Names /\ m.operator \in BOOLEAN
      BY <1>0, <2>2, ServerNamesType DEF FullReset, Working, ManifestType
    <3>3. QED
      BY <1>2, <3>1, <3>2, EmptyHashType
  <2>3. FullResetFails => PathsAreNew'
    BY <1>1 DEF FullResetFails, Retry, Leave, WithManifest, Working
  <2>4. ASSUME PartialReset PROVE PathsAreNew'
    <3>1. /\ m \in ManifestType /\ m' = PrepareForServerPurge(m) /\ pc' = "purge"
          /\ \A c \in Comps : ~m.comp[c].path
      BY <1>0, <2>4 DEF PartialReset, Working, PathsAreNew
    <3>2. QED
      BY <3>1, PurgePlan DEF PathsAreNew
  <2>5. SavePurgedHash => PathsAreNew'
    BY <1>1, <1>3 DEF SavePurgedHash, Retry, Leave, WithManifest, Working
  <2>6. QED
    BY <2>1, <2>2, <2>3, <2>4, <2>5 DEF Recover
<1>7. Download => PathsAreNew'
  <2>1. ASSUME PostChecksums PROVE PathsAreNew'
    <3>1. answer[src] \in ServerList /\ agentVersion \in Nat
      BY OTAAssumption DEF TypeOK
    <3>2. /\ m \in ManifestType /\ m' = UpdateWithJson(m, answer[src], agentVersion)
          /\ \A c \in Comps : ~m.comp[c].path
          /\ pc' \in {"decide", "download"}
      BY <1>0, <2>1 DEF PostChecksums, Working, PathsAreNew
    <3>3. QED
      BY <3>1, <3>2, UpdateWithJsonPlan DEF PathsAreNew
  <2>2. ASSUME DownloadComponents PROVE PathsAreNew'
    <3>1. /\ m \in ManifestType /\ m' = UpdateComponentsPaths(m) /\ UNCHANGED updatedList
          /\ pc = "download" /\ pc' = "decide"
      BY <1>0, <2>2 DEF DownloadComponents, Working
    <3>2. QED
      BY <3>1, UpdatePathsPlan DEF PathsAreNew, WithManifest, Working
  <2>3. DownloadHangs \/ DownloadManagerFails => PathsAreNew'
    BY <1>1 DEF DownloadHangs, DownloadManagerFails, Continue, Leave, WithManifest, Working
  <2>4. QED
    BY <2>1, <2>2, <2>3 DEF Download
<1>8. Agent => PathsAreNew'
  BY <1>1, <1>3 DEF Agent, ReportAgentPending, SetFutureVersion, SaveAgentHash,
     AgentInstalled, AgentInstallFails, Restart, Leave, WithManifest, Working
<1>9. ASSUME Install PROVE PathsAreNew'
  <2>1. ASSUME NEW c \in Comps, InstallComponent(c) PROVE PathsAreNew'
    <3>1. PICK r \in InstallOrUninstall(c) :
            /\ r \in OutcomeType
            /\ Handles(c, [m.comp[c] EXCEPT !.updated = r.ok, !.sum = HandledSum(c, r.ok)], r.now)
            /\ updatedList' = IF r.ok THEN updatedList \cup {c} ELSE updatedList
      BY <2>1, InstallComponentEffect
    <3>2. pc = "install" /\ pc' = pc /\ m.comp[c] \in Component
      BY <1>0, <2>1 DEF InstallComponent, Working
    <3>3. /\ \A e \in Comps : e # c => m'.comp[e] = m.comp[e]
          /\ m'.comp[c].updated => c \in updatedList'
          /\ \A e \in Comps : e \in updatedList => e \in updatedList'
      BY <3>1, <3>2 DEF Handles, Component
    <3>4. QED
      BY <3>2, <3>3 DEF PathsAreNew, WithManifest, Working
  <2>2. ASSUME NEW c \in Comps, RollBackComponent(c) PROVE PathsAreNew'
    <3>1. pc = "rollback" /\ pc' = pc /\ UNCHANGED updatedList /\ c \in updatedList
      BY <2>2 DEF RollBackComponent, NextInOrder, LoopsAreComplete
    <3>2. \A e \in Comps : e # c => m'.comp[e] = m.comp[e]
      BY <2>2, RollBackEffect DEF Handles
    <3>3. QED
      BY <3>1, <3>2 DEF PathsAreNew, WithManifest, Working
  <2>3. CASE \/ InstallSucceeded \/ InstallFailed \/ SavePrevDone \/ RollBackDone \/ RestoreDone
             \/ \E c \in Comps : SavePrevComponent(c) \/ SavePrevFails(c) \/ RestoreArchive(c)
    BY <1>3, <2>3 DEF InstallSucceeded, InstallFailed, SavePrevDone, RollBackDone,
       RestoreDone, SavePrevComponent, SavePrevFails, RestoreArchive, WithManifest, Working
  <2>4. ASSUME NEW c \in Comps, PurgeComponent(c) \/ InstallerPanics(c) PROVE PathsAreNew'
    BY <1>1, <1>3, <2>4 DEF PurgeComponent, InstallerPanics, WithManifest, Working
  <2>5. QED
    BY <1>9, <2>1, <2>2, <2>3, <2>4 DEF Install, InstallStep
<1>10. Finish => PathsAreNew'
  <2>1. ASSUME MarkIncomplete PROVE PathsAreNew'
    <3>1. updatedList = {} /\ updatedList' = {}
      BY <2>1 DEF MarkIncomplete, ListIsLocal, Listing
    <3>2. QED
      BY <1>3, <2>1, <3>1 DEF MarkIncomplete, WithManifest, Working
  <2>2. SaveHash \/ SkipInstall \/ ClearMarker => PathsAreNew'
    BY <1>3 DEF SaveHash, SkipInstall, ClearMarker, WithManifest, Working
  <2>3. ReportError \/ AdvanceStage => PathsAreNew'
    BY <1>1 DEF ReportError, AdvanceStage, Continue, Retry, Leave, WithManifest, Working
  <2>4. QED
    BY <2>1, <2>2, <2>3 DEF Finish
<1>11. Crash \/ RestartAfterPanic => PathsAreNew'
  BY <1>1, RestartFrame DEF WithManifest, Working
<1>12. Outside => PathsAreNew'
  BY OutsideFrame DEF PathsAreNew, installVars
<1>13. QED
  BY <1>4, <1>5, <1>6, <1>7, <1>8, <1>9, <1>10, <1>11, <1>12 DEF Next

\* No step gives a component of the other side only anything to do.
LEMMA OthersStep == TypeOK /\ RunInv /\ Next => OthersAreSettled'
<1> SUFFICES ASSUME TypeOK, ListIsLocal, LoopsAreComplete, OthersAreSettled
             PROVE  Next => OthersAreSettled'
  BY DEF RunInv
<1>0. /\ hash \in HashManifest
      /\ pc \in Working => m \in ManifestType
  BY DEF TypeOK
<1>1. ASSUME pc' \notin Working PROVE OthersAreSettled'
  BY <1>1 DEF OthersAreSettled
<1>2. ASSUME NEW h \in HashManifest, NEW s \in Names, NEW op \in BOOLEAN, updatedList' = {},
             \/ m' = NewManifest(h, s, op)
             \/ m' = PrepareForServerPurge(NewManifest(h, s, op))
      PROVE  OthersAreSettled'
  <2>1. NewManifest(h, s, op) \in ManifestType
    BY NewManifestType
  <2>2. m'.operator = op
    BY <1>2, <2>1 DEF NewManifest, PrepareForServerPurge
  <2>3. QED
    BY <1>2, <2>1, <2>2, NewManifestPlan, PurgePlan DEF OthersAreSettled
<1>3. ASSUME pc \in Working, UNCHANGED <<m, updatedList>> PROVE OthersAreSettled'
  BY <1>3 DEF OthersAreSettled
<1> USE DEF packages, loop, reported, otaVars, diskVars, outsideVars
<1>4. RunLoop => OthersAreSettled'
  <2>1. ASSUME ReceiveUpdateVersionForce PROVE OthersAreSettled'
    <3>1. PICK name \in ServerNames :
            \/ m' = PrepareForServerPurge(NewManifest(hash, name, GetOperator(override)))
            \/ pc' = pc
      BY <2>1 DEF ReceiveUpdateVersionForce
    <3>2. name \in Names /\ GetOperator(override) \in BOOLEAN /\ pc = "idle" /\ updatedList' = {}
      BY <2>1, ServerNamesType, OperatorType
         DEF ReceiveUpdateVersionForce, Receive, TypeOK, ListIsLocal, Listing
    <3>3. QED
      BY <1>0, <1>1, <1>2, <3>1, <3>2 DEF Working
  <2>2. QED
    BY <1>1, <2>1 DEF RunLoop, TimerExpires, Receive, ReceiveUpdateVersion,
                      ReceiveUpdateBothSides, Working
<1>5. Check => OthersAreSettled'
  <2>1. ASSUME ReadManifest PROVE OthersAreSettled'
    <3>1. PICK name \in ServerNames : m' = NewManifest(hash, name, GetOperator(override'))
      BY <2>1 DEF ReadManifest
    <3>2. name \in Names /\ GetOperator(override') \in BOOLEAN /\ updatedList' = {}
      BY <2>1, ServerNamesType, OperatorType, CheckType
         DEF ReadManifest, TypeOK, Check, ListIsLocal, Listing
    <3>3. QED
      BY <1>0, <1>2, <3>1, <3>2
  <2>2. QED
    BY <1>1, <2>1 DEF Check, FetchLicense, FetchLicenseFails, CoreHasConnectedSession, Retry,
                      Leave, Working
<1>6. Recover => OthersAreSettled'
  <2>1. NoIncompleteInstall => OthersAreSettled'
    BY <1>3 DEF NoIncompleteInstall, Working
  <2>2. ASSUME FullReset PROVE OthersAreSettled'
    <3>1. PICK name \in ServerNames : m' = NewManifest(EmptyHash, name, m.operator)
      BY <2>2 DEF FullReset
    <3>2. name \in Names /\ m.operator \in BOOLEAN /\ updatedList' = {}
      BY <1>0, <2>2, ServerNamesType DEF FullReset, Working, ManifestType, ListIsLocal, Listing
    <3>3. QED
      BY <1>2, <3>1, <3>2, EmptyHashType
  <2>3. FullResetFails => OthersAreSettled'
    BY <1>1 DEF FullResetFails, Retry, Leave, Working
  <2>4. ASSUME PartialReset PROVE OthersAreSettled'
    <3>1. /\ pc \in Working /\ m \in ManifestType /\ m' = PrepareForServerPurge(m)
          /\ UNCHANGED updatedList
      BY <1>0, <2>4 DEF PartialReset, Working
    <3>2. m'.operator = m.operator
      BY <3>1 DEF PrepareForServerPurge, ManifestType
    <3>3. QED
      BY <3>1, <3>2, PurgePlan DEF OthersAreSettled
  <2>5. SavePurgedHash => OthersAreSettled'
    BY <1>1, <1>3 DEF SavePurgedHash, Retry, Leave, Working
  <2>6. QED
    BY <2>1, <2>2, <2>3, <2>4, <2>5 DEF Recover
<1>7. Download => OthersAreSettled'
  <2>1. ASSUME PostChecksums PROVE OthersAreSettled'
    <3>1. answer[src] \in ServerList /\ agentVersion \in Nat
      BY OTAAssumption DEF TypeOK
    <3>2. /\ pc \in Working /\ m \in ManifestType /\ UNCHANGED updatedList
          /\ m' = UpdateWithJson(m, answer[src], agentVersion)
      BY <1>0, <2>1 DEF PostChecksums, Working
    <3>3. m'.operator = m.operator
      BY <3>2 DEF UpdateWithJson, ManifestType
    <3>4. QED
      BY <3>1, <3>2, <3>3, UpdateWithJsonPlan DEF OthersAreSettled
  <2>2. ASSUME DownloadComponents PROVE OthersAreSettled'
    <3>1. /\ pc \in Working /\ m \in ManifestType /\ m' = UpdateComponentsPaths(m)
          /\ UNCHANGED updatedList
      BY <1>0, <2>2 DEF DownloadComponents, Working
    <3>2. m'.operator = m.operator
      BY <3>1 DEF UpdateComponentsPaths, ManifestType
    <3>3. QED
      BY <3>1, <3>2, UpdatePathsPlan DEF OthersAreSettled
  <2>3. DownloadHangs \/ DownloadManagerFails => OthersAreSettled'
    BY <1>1 DEF DownloadHangs, DownloadManagerFails, Continue, Leave, Working
  <2>4. QED
    BY <2>1, <2>2, <2>3 DEF Download
<1>8. Agent => OthersAreSettled'
  BY <1>1, <1>3 DEF Agent, ReportAgentPending, SetFutureVersion, SaveAgentHash,
     AgentInstalled, AgentInstallFails, Restart, Leave, Working
<1>9. ASSUME Install PROVE OthersAreSettled'
  <2>1. ASSUME NEW c \in Comps, InstallComponent(c) PROVE OthersAreSettled'
    <3>1. /\ pc \in Working /\ m'.operator = m.operator
          /\ \A e \in Comps : e # c => m'.comp[e] = m.comp[e]
          /\ updatedList' \subseteq updatedList \cup {c}
      BY <2>1, InstallComponentEffect DEF InstallComponent, Handles, Working
    <3>2. ~m.comp[c].updated
      BY <2>1 DEF InstallComponent, NextInOrder, LoopsAreComplete, ToHandle
    <3>3. QED
      BY <3>1, <3>2 DEF OthersAreSettled
  <2>2. ASSUME NEW c \in Comps, RollBackComponent(c) PROVE OthersAreSettled'
    <3>1. pc \in Working /\ UNCHANGED updatedList /\ c \in updatedList
      BY <2>2 DEF RollBackComponent, NextInOrder, LoopsAreComplete, Working
    <3>2. m'.operator = m.operator /\ \A e \in Comps : e # c => m'.comp[e] = m.comp[e]
      BY <2>2, RollBackEffect DEF Handles
    <3>3. QED
      BY <3>1, <3>2 DEF OthersAreSettled
  <2>3. CASE \/ InstallSucceeded \/ InstallFailed \/ SavePrevDone \/ RollBackDone \/ RestoreDone
             \/ \E c \in Comps : SavePrevComponent(c) \/ SavePrevFails(c) \/ RestoreArchive(c)
    BY <1>3, <2>3 DEF InstallSucceeded, InstallFailed, SavePrevDone, RollBackDone,
       RestoreDone, SavePrevComponent, SavePrevFails, RestoreArchive, Working
  <2>4. ASSUME NEW c \in Comps, PurgeComponent(c) \/ InstallerPanics(c)
        PROVE  OthersAreSettled'
    BY <1>1, <1>3, <2>4 DEF PurgeComponent, InstallerPanics, Working
  <2>5. QED
    BY <1>9, <2>1, <2>2, <2>3, <2>4 DEF Install, InstallStep
<1>10. Finish => OthersAreSettled'
  <2>1. ASSUME MarkIncomplete PROVE OthersAreSettled'
    <3>1. pc \in Working /\ updatedList' = {} /\ UNCHANGED m
      BY <2>1 DEF MarkIncomplete, Working
    <3>2. QED
      BY <3>1 DEF OthersAreSettled
  <2>2. SaveHash \/ SkipInstall \/ ClearMarker => OthersAreSettled'
    BY <1>3 DEF SaveHash, SkipInstall, ClearMarker, Working
  <2>3. ReportError \/ AdvanceStage => OthersAreSettled'
    BY <1>1 DEF ReportError, AdvanceStage, Continue, Retry, Leave, Working
  <2>4. QED
    BY <2>1, <2>2, <2>3 DEF Finish
<1>11. Crash \/ RestartAfterPanic => OthersAreSettled'
  BY <1>1, RestartFrame DEF Working
<1>12. Outside => OthersAreSettled'
  BY OutsideFrame DEF OthersAreSettled, installVars
<1>13. QED
  BY <1>4, <1>5, <1>6, <1>7, <1>8, <1>9, <1>10, <1>11, <1>12 DEF Next

\* The saved installer of another component is another file.
LEMMA SaveAsOthers ==
  ASSUME TypeOK, m \in ManifestType, NEW c \in Comps, NEW sum, SaveAs(c, sum), UNCHANGED m
  PROVE  /\ Saved(c)' = sum
         /\ \A e \in Comps : e # c => Saved(e)' = Saved(e)
<1>1. /\ prev \in HashManifest
      /\ \A e \in Comps : WhichServer(e, m.server, m.operator) \in Keys
  BY WhichServerKey DEF TypeOK, ManifestType
<1>2. QED
  BY <1>1 DEF SaveAs, Saved, HashManifest

\* The loops visit all they set out to, and end as the next one assumes.
LEMMA LoopsStep ==
  TypeOK /\ MarkedWhileWorking /\ RunInv /\ Next => LoopsAreComplete'
<1> SUFFICES ASSUME TypeOK, MarkedWhileWorking, ListIsLocal, AgentIsNewer, PathsAreNew,
                    LoopsAreComplete
             PROVE  Next => LoopsAreComplete'
  BY DEF RunInv
<1>0. pc \in Working => m \in ManifestType /\ \A c \in Comps : m.comp[c] \in Component
  BY DEF TypeOK, ManifestType
<1> DEFINE Loops == {"install", "savePrev", "rollback", "restore", "restoreBack", "finish",
                     "saved", "stage"}
<1>1. ASSUME pc' \notin Loops PROVE LoopsAreComplete'
  BY <1>1 DEF LoopsAreComplete
<1> USE DEF packages, loop, reported, otaVars, diskVars, outsideVars
<1>2. RunLoop \/ Check \/ Recover \/ Download => LoopsAreComplete'
  BY <1>1 DEF RunLoop, TimerExpires, Receive, ReceiveUpdateVersion, ReceiveUpdateBothSides,
     ReceiveUpdateVersionForce, Check, FetchLicense, FetchLicenseFails, ReadManifest,
     CoreHasConnectedSession, Recover, NoIncompleteInstall, FullReset, FullResetFails,
     PartialReset, SavePurgedHash, Download, PostChecksums, DownloadComponents,
     DownloadHangs, DownloadManagerFails, Continue, Retry, Leave
<1>3. Agent => LoopsAreComplete'
  <2>1. ASSUME AgentInstallFails PROVE LoopsAreComplete'
    <3>1. m \in ManifestType /\ agentVersion \in Nat /\ m.agent \in Nat
      BY <1>0, <2>1 DEF AgentInstallFails, Working, TypeOK, ManifestType
    <3>2. m'.agent # 0 /\ updatedList' = {} /\ pc' = "finish"
      BY <2>1, <3>1 DEF AgentInstallFails, AgentIsNewer, ListIsLocal, Listing
    <3>3. QED
      BY <3>2 DEF LoopsAreComplete
  <2>2. QED
    BY <1>1, <2>1 DEF Agent, ReportAgentPending, SetFutureVersion, SaveAgentHash,
                      AgentInstalled, Restart, Leave
<1>4. ASSUME Install PROVE LoopsAreComplete'
  <2>1. ASSUME NEW c \in Comps, InstallComponent(c) PROVE LoopsAreComplete'
    <3>1. PICK r \in InstallOrUninstall(c) :
            /\ r \in OutcomeType
            /\ Handles(c, [m.comp[c] EXCEPT !.updated = r.ok, !.sum = HandledSum(c, r.ok)], r.now)
            /\ updatedList' = IF r.ok THEN updatedList \cup {c} ELSE updatedList
      BY <2>1, InstallComponentEffect
    <3>2. /\ pc = "install" /\ pc' = pc /\ m.comp[c] \in Component
          /\ c \in todo /\ todo' = todo \ {c} /\ todo \subseteq Comps /\ updatedList \subseteq Comps
      BY <1>0, <2>1 DEF InstallComponent, NextInOrder, Working, TypeOK
    <3>3. /\ \A e \in Comps : e # c => m'.comp[e] = m.comp[e]
          /\ m'.comp[c].updated = r.ok /\ m'.comp[c].path = m.comp[c].path
          /\ m'.comp[c].sum = HandledSum(c, r.ok)
      BY <3>1, <3>2 DEF Handles, Component
    <3>4. todo' \subseteq ToHandle(m)' /\ updatedList' \cap todo' = {}
      BY <3>1, <3>2, <3>3 DEF LoopsAreComplete, ToHandle
    <3>5. updatedList' # {} \/ ToHandle(m)' # {}
      BY <3>1, <3>3 DEF ToHandle
    <3>6. \A e \in updatedList' : m'.comp[e].updated /\ (~m'.comp[e].path => m'.comp[e].sum = NoSum)
      <4>1. ASSUME NEW e \in updatedList', e # c
            PROVE  e \in updatedList /\ m'.comp[e] = m.comp[e]
        BY <3>1, <3>2, <3>3, <4>1
      <4>2. ASSUME c \in updatedList' PROVE r.ok
        BY <3>1, <3>2, <4>2 DEF LoopsAreComplete
      <4>3. r.ok /\ ~m.comp[c].path => HandledSum(c, r.ok) = NoSum
        BY DEF HandledSum
      <4>4. QED
        BY <3>2, <3>3, <4>1, <4>2, <4>3 DEF LoopsAreComplete
    <3>7. QED
      BY <3>2, <3>4, <3>5, <3>6 DEF LoopsAreComplete
  <2>2. InstallSucceeded => LoopsAreComplete'
    BY DEF InstallSucceeded, UpdatedAll, LoopsAreComplete
  <2>3. InstallFailed => LoopsAreComplete'
    BY DEF InstallFailed, LoopsAreComplete
  <2>4. ASSUME NEW c \in Comps, SavePrevComponent(c) PROVE LoopsAreComplete'
    <3>1. /\ pc = "savePrev" /\ pc' = pc /\ m \in ManifestType /\ c \in todo
          /\ todo' = todo \ {c} /\ UNCHANGED <<m, updatedList>> /\ updatedList \subseteq Comps
          /\ SaveAs(c, IF m.comp[c].path THEN m.comp[c].sum ELSE NoSum)
      BY <1>0, <2>4 DEF SavePrevComponent, Working, TypeOK
    <3>2. c \in updatedList /\ (~m.comp[c].path => m.comp[c].sum = NoSum)
      BY <3>1 DEF LoopsAreComplete
    <3>3. SaveAs(c, m.comp[c].sum)
      BY <3>1, <3>2
    <3>4. \A e \in updatedList' \ todo' : Saved(e)' = m'.comp[e].sum
      <4>1. Saved(c)' = m'.comp[c].sum
        BY <3>1, <3>3, SaveAsOthers
      <4>2. ASSUME NEW e \in updatedList \ todo', e # c PROVE Saved(e)' = m'.comp[e].sum
        BY <3>1, <3>3, <4>2, SaveAsOthers DEF LoopsAreComplete
      <4>3. QED
        BY <3>1, <4>1, <4>2
    <3>5. QED
      BY <3>1, <3>4 DEF LoopsAreComplete
  <2>5. SavePrevDone => LoopsAreComplete'
    BY DEF SavePrevDone, LoopsAreComplete, Archives, PrevExists, Saved
  <2>6. ASSUME NEW c \in Comps, RollBackComponent(c) PROVE LoopsAreComplete'
    BY <2>6 DEF RollBackComponent, LoopsAreComplete
  <2>7. RollBackDone => LoopsAreComplete'
    BY DEF RollBackDone, LoopsAreComplete, Archives, PrevExists, Saved
  <2>8. ASSUME NEW c \in Comps, RestoreArchive(c) PROVE LoopsAreComplete'
    BY <2>8 DEF RestoreArchive, LoopsAreComplete, Archives, PrevExists, Saved
  <2>9. ASSUME RestoreDone PROVE LoopsAreComplete'
    <3>1. pc \in {"restore", "restoreBack"} /\ pc' \in {"finish", "error"}
          /\ (pc' = "finish" => pc = "restore") /\ UNCHANGED <<m, prev, updatedList>>
      BY <2>9 DEF RestoreDone
    <3>2. marker' = m.server \/ Unmarked'
      BY <1>4, <3>1, InstallFrame DEF MarkedWhileWorking, Unmarked, Installing, otaVars, diskVars
    <3>3. QED
      BY <3>1, <3>2 DEF LoopsAreComplete, Saved
  <2>10. ASSUME NEW c \in Comps, PurgeComponent(c) \/ InstallerPanics(c) \/ SavePrevFails(c)
         PROVE  LoopsAreComplete'
    BY <1>1, <2>10 DEF PurgeComponent, InstallerPanics, SavePrevFails
  <2>11. QED
    BY <1>4, <2>1, <2>2, <2>3, <2>4, <2>5, <2>6, <2>7, <2>8, <2>9, <2>10
       DEF Install, InstallStep
<1>5. Finish => LoopsAreComplete'
  <2>1. ASSUME MarkIncomplete PROVE LoopsAreComplete'
    <3>1. /\ pc' \in {"agent", "install"} /\ (pc' = "install" => m.agent = 0)
          /\ todo' = ToHandle(m) /\ updatedList' = {} /\ m' = m /\ ~IsFullyInstalled(m)
      BY <2>1 DEF MarkIncomplete
    <3>2. QED
      BY <3>1 DEF LoopsAreComplete, IsFullyInstalled
  <2>2. ASSUME SkipInstall PROVE LoopsAreComplete'
    <3>1. pc' = "finish" /\ updatedList' = {} /\ m' = m /\ ToHandle(m) = {}
      BY <2>2 DEF SkipInstall, IsFullyInstalled, ListIsLocal, Listing
    <3>2. QED
      BY <3>1 DEF LoopsAreComplete
  <2>6. SaveHash => LoopsAreComplete'
    BY DEF SaveHash, LoopsAreComplete
  <2>7. EndMark => (marked'.done => marker' = NoServer)
    BY <1>0 DEF EndMark, TypeOK
  <2>3. ClearMarker => LoopsAreComplete'
    BY <2>7 DEF ClearMarker, LoopsAreComplete
  <2>4. ReportError \/ AdvanceStage => LoopsAreComplete'
    BY <1>1 DEF ReportError, AdvanceStage, Continue, Retry, Leave
  <2>5. QED
    BY <2>1, <2>2, <2>3, <2>4, <2>6 DEF Finish
<1>6. Crash \/ RestartAfterPanic => LoopsAreComplete'
  BY <1>1, RestartFrame
<1>7. Outside => LoopsAreComplete'
  BY OutsideFrame DEF LoopsAreComplete, Unmarked, installVars, Archives, PrevExists, Saved
<1>8. QED
  BY <1>2, <1>3, <1>4, <1>5, <1>6, <1>7 DEF Next

\* RunInv is inductive with the invariant before it.
LEMMA RunInvInductive == Spec => [](IInv /\ RunInv)
<1>1. Init => RunInv
  BY DEF Init, RunInv, ListIsLocal, Listing, AgentIsNewer, PlanIsRecorded, PathsAreNew,
         WithManifest, Working, LoopsAreComplete, OthersAreSettled
<1>2. IInv /\ RunInv /\ Next => RunInv'
  BY ListStep, AgentStep, PlanStep, PathsStep, LoopsStep, OthersStep DEF IInv, RunInv
<1>3. RunInv /\ UNCHANGED vars => RunInv'
  BY DEF RunInv, ListIsLocal, AgentIsNewer, VersionVerified, PlanIsRecorded, Key, PathsAreNew,
         LoopsAreComplete, Unmarked, OthersAreSettled, Archives, PrevExists, Saved, vars, installVars, otaVars, diskVars
<1>4. IInv /\ RunInv /\ [Next]_vars => RunInv'
  BY <1>2, <1>3
<1>5. QED
  BY <1>1, <1>4, IInvInductive, PTL DEF Spec

\* The vehicle stage begins when the operator stage is done and saved, the mark is
\* taken away, if it could be removed, and the manifest of the stage still tells what it did
\* (ota_manager.rs:338-361).
THEOREM OperatorStageFirstHolds == Spec => OperatorStageFirst
<1> DEFINE Done == both = "Operator" /\ both' = "Vehicle" =>
                     /\ marked.done => marker = NoServer
                     /\ m.agent = 0 =>
                          /\ ToHandle(m) = {}
                          /\ \A c \in Hardcoded[TRUE] \ Meta :
                               hash[FullServerName(m.server, TRUE)][c] = m.comp[c].sum
<1>1. ASSUME IInv, RunInv, Next PROVE Done
  <2>1. SUFFICES ASSUME both = "Operator", both' = "Vehicle" PROVE Done
    OBVIOUS
  <2>2. AdvanceStage
    <3> USE DEF diskVars, otaVars, outsideVars
    <3>1. ~RunLoop /\ ~Check
      BY <2>1 DEF RunLoop, TimerExpires, ReceiveUpdateVersion, ReceiveUpdateBothSides, Unset,
         ReceiveUpdateVersionForce, Check, FetchLicense, FetchLicenseFails, ReadManifest,
         CoreHasConnectedSession
    <3>2. ~Recover /\ ~Download
      BY <2>1 DEF Recover, NoIncompleteInstall, FullReset, FullResetFails, PartialReset,
         SavePurgedHash, Download, PostChecksums, DownloadComponents, DownloadHangs, DownloadManagerFails
    <3>3. ~Agent /\ ~Install
      BY <2>1 DEF Agent, ReportAgentPending, SetFutureVersion, SaveAgentHash, AgentInstalled,
         AgentInstallFails, Install
    <3>4. ~Crash /\ ~RestartAfterPanic /\ ~Outside
      BY <2>1 DEF Crash, TornWrite, RestartAfterPanic, Outside, SendRequest, ChangeServer, Publish
    <3>5. QED
      BY <1>1, <2>1, <3>1, <3>2, <3>3, <3>4 DEF Next, Finish, SkipInstall, MarkIncomplete,
         ReportError, SaveHash, ClearMarker
  <2>3. pc = "stage" /\ m \in ManifestType /\ m.operator = TRUE
    BY <1>1, <2>1, <2>2 DEF AdvanceStage, IInv, TypeOK, Working, SideFollowsStage, WithManifest,
                            ManifestType
  <2>4. marked.done => marker = NoServer
    BY <1>1, <2>3 DEF RunInv, LoopsAreComplete
  <2>5. ASSUME m.agent = 0
        PROVE  /\ ToHandle(m) = {}
               /\ \A c \in Hardcoded[TRUE] \ Meta :
                    hash[FullServerName(m.server, TRUE)][c] = m.comp[c].sum
    <3>1. ToHandle(m) = {}
      BY <1>1, <2>3, <2>5 DEF RunInv, LoopsAreComplete
    <3>2. ASSUME NEW c \in Hardcoded[TRUE] \ Meta
          PROVE  hash[FullServerName(m.server, TRUE)][c] = m.comp[c].sum
      <4>1. m.comp[c].updated
        BY <2>3, <3>1, ManifestAssumption DEF ToHandle
      <4>2. Key(c) = FullServerName(m.server, TRUE)
        BY <2>3 DEF Key, WhichServer
      <4>3. QED
        BY <1>1, <2>3, <4>1, <4>2 DEF RunInv, PlanIsRecorded, Working
    <3>3. QED
      BY <3>1, <3>2
  <2>6. QED
    BY <2>4, <2>5
<1>2. IInv /\ RunInv /\ [Next]_vars => [Done]_vars
  BY <1>1
<1>3. QED
  BY <1>2, RunInvInductive, PTL DEF Spec, OperatorStageFirst

-----------------------------------------------------------------------------
(* Both statuses agree, when no put is lost *)

\* On the way to the end of a run the server was told what the REST status will say.
StatusInv ==
  /\ StatusesAgree
  /\ pc \in {"savePrev", "restore"} => nodeStatus = "Updated"
  /\ pc \in {"finish", "saved", "stage"} /\ VersionVerified => nodeStatus = "Updated"
  /\ pc = "stage" => status = "UPDATED"

\* A forced update that has no token returns to the loop with the status of a licence
\* it could not read either; the server is not told of that.
TokenOrLicense == "auth" \notin Faults \/ "license" \notin Faults

\* Every step that changes one of the statuses leaves both telling the same at the end.
LEMMA StatusStep ==
  ASSUME "put" \notin Faults, TokenOrLicense
  PROVE  TypeOK /\ RunInv /\ StatusInv /\ Next => StatusInv'
<1> SUFFICES ASSUME TypeOK, RunInv, StatusInv PROVE Next => StatusInv'
  OBVIOUS
<1>0. \A p : Put(p) = {p}
  BY DEF Put
<1> DEFINE Telling == {"idle", "savePrev", "restore", "finish", "saved", "stage"}
<1>1. ASSUME pc' \notin Telling PROVE StatusInv'
  BY <1>1 DEF StatusInv, StatusesAgree
<1> USE DEF packages, loop, reported, otaVars, diskVars, outsideVars
<1>2. RunLoop => StatusInv'
  <2>1. ASSUME ReceiveUpdateVersionForce PROVE StatusInv'
    <3>1. CASE pc' = "forcePurge"
      BY <1>1, <3>1
    <3>2. CASE pc' # "forcePurge"
      <4>1. ServerNames = {auth} /\ auth # Unnamed
        BY <2>1, <3>2, ManifestAssumption
           DEF ReceiveUpdateVersionForce, TokenOrLicense, ServerNames, TypeOK
      <4>2. UNCHANGED <<pc, status, nodeStatus, futureVersion, agentVersion>> /\ pc = "idle"
        BY <2>1, <3>2, <4>1 DEF ReceiveUpdateVersionForce, Receive, LicenseStatus
      <4>3. QED
        BY <4>2 DEF StatusInv, StatusesAgree, VersionVerified
    <3>3. QED
      BY <3>1, <3>2
  <2>2. QED
    BY <1>1, <2>1 DEF RunLoop, TimerExpires, ReceiveUpdateVersion, ReceiveUpdateBothSides
<1>3. Check => StatusInv'
  <2>1. FetchLicenseFails => StatusInv'
    BY DEF FetchLicenseFails, StatusInv, StatusesAgree
  <2>2. QED
    BY <1>1, <2>1 DEF Check, FetchLicense, ReadManifest, CoreHasConnectedSession, Retry, Leave
<1>4. Recover => StatusInv'
  BY <1>1 DEF Recover, NoIncompleteInstall, FullReset, FullResetFails, PartialReset,
     SavePurgedHash, Retry, Leave
<1>5. Download => StatusInv'
  <2>1. DownloadHangs \/ DownloadManagerFails => StatusInv'
    BY <1>0 DEF DownloadHangs, DownloadManagerFails, Continue, Leave, StatusInv, StatusesAgree
  <2>2. QED
    BY <1>1, <2>1 DEF Download, PostChecksums, DownloadComponents
<1>6. Agent => StatusInv'
  <2>1. ASSUME AgentInstallFails PROVE StatusInv'
    <3>1. futureVersion = m.agent /\ m.agent > agentVersion
      BY <2>1 DEF AgentInstallFails, RunInv, AgentIsNewer
    <3>2. m \in ManifestType /\ m.agent \in Nat /\ agentVersion \in Nat
      BY <2>1 DEF AgentInstallFails, TypeOK, Working, ManifestType
    <3>3. ~VersionVerified' /\ pc' = "finish"
      BY <2>1, <3>1, <3>2 DEF AgentInstallFails, VersionVerified
    <3>4. QED
      BY <3>3 DEF StatusInv, StatusesAgree
  <2>2. QED
    BY <1>1, <2>1 DEF Agent, ReportAgentPending, SetFutureVersion, SaveAgentHash,
                      AgentInstalled, Restart, Leave
<1>7. ASSUME Install PROVE StatusInv'
  <2>1. UNCHANGED <<futureVersion, agentVersion>>
    BY <1>7, InstallFrame
  <2>2. ASSUME InstallSucceeded PROVE StatusInv'
    <3>1. updatedList # {} /\ pc' = "savePrev"
      BY <2>2 DEF InstallSucceeded, UpdatedAll, RunInv, LoopsAreComplete
    <3>2. QED
      BY <1>0, <2>2, <3>1 DEF InstallSucceeded, StatusInv, StatusesAgree
  <2>3. CASE \/ SavePrevDone \/ RestoreDone
             \/ \E c \in Comps : SavePrevComponent(c) \/ RestoreArchive(c)
    BY <2>1, <2>3 DEF SavePrevDone, RestoreDone, SavePrevComponent, RestoreArchive,
                      StatusInv, StatusesAgree, VersionVerified
  <2>4. CASE \/ InstallFailed \/ RollBackDone
             \/ \E c \in Comps : \/ InstallComponent(c) \/ InstallerPanics(c) \/ SavePrevFails(c)
                                 \/ RollBackComponent(c) \/ PurgeComponent(c)
    BY <1>1, <2>4 DEF InstallFailed, RollBackDone, InstallComponent, InstallerPanics,
                      SavePrevFails, RollBackComponent, PurgeComponent
  <2>5. QED
    BY <1>7, <2>2, <2>3, <2>4 DEF Install, InstallStep
<1>8. Finish => StatusInv'
  <2>1. SkipInstall \/ ReportError => StatusInv'
    BY <1>0 DEF SkipInstall, ReportError, Continue, Leave, StatusInv, StatusesAgree
  <2>2. SaveHash \/ ClearMarker => StatusInv'
    BY DEF SaveHash, ClearMarker, StatusInv, StatusesAgree, VersionVerified
  <2>3. AdvanceStage => StatusInv'
    BY DEF AdvanceStage, Retry, Continue, Leave, StatusInv, StatusesAgree, VersionVerified
  <2>4. MarkIncomplete => StatusInv'
    BY <1>1 DEF MarkIncomplete
  <2>5. QED
    BY <2>1, <2>2, <2>3, <2>4 DEF Finish
<1>9. Crash \/ RestartAfterPanic => StatusInv'
  BY <1>1, RestartFrame
<1>10. Outside => StatusInv'
  BY OutsideFrame DEF StatusInv, StatusesAgree, VersionVerified, installVars
<1>11. QED
  BY <1>2, <1>3, <1>4, <1>5, <1>6, <1>7, <1>8, <1>9, <1>10 DEF Next

\* When no put is lost, and a forced update does not lose the token and the licence
\* at once, the status the REST interface shows and the one the server was given agree
\* whenever run waits.
THEOREM StatusesAgreeHolds ==
  ASSUME "put" \notin Faults, TokenOrLicense
  PROVE  Spec => []StatusesAgree
<1>1. Init => StatusInv
  BY DEF Init, StatusInv, StatusesAgree
<1>2. StatusInv /\ UNCHANGED vars => StatusInv'
  BY DEF StatusInv, StatusesAgree, VersionVerified, vars, installVars, otaVars, diskVars
<1>3. IInv /\ RunInv /\ StatusInv /\ [Next]_vars => StatusInv'
  BY <1>2, StatusStep DEF IInv
<1>4. StatusInv => StatusesAgree
  BY DEF StatusInv
<1>5. QED
  BY <1>1, <1>3, <1>4, RunInvInductive, PTL DEF Spec

-----------------------------------------------------------------------------
(* What the installers leave *)

\* What an outcome is made of.
LEMMA OutcomeFields ==
  ASSUME NEW ok, NEW now
  PROVE  Outcome(ok, now).ok = ok /\ Outcome(ok, now).now = now
BY DEF Outcome

\* An installer that says Ok left what it was asked for; one that fails changed
\* nothing, unless failures are dirty.
LEMMA InstallEnds ==
  ASSUME NEW c, NEW new, NEW r \in InstallOutcomes(c, new)
  PROVE  /\ r.ok \in BOOLEAN
         /\ r.ok => r.now = new
         /\ ~r.ok /\ "dirty" \notin Faults => r.now = machine[c]
<1>1. r = Outcome(TRUE, new) \/ \E x \in LeftByFailure(c, new) : r = Outcome(FALSE, x)
  BY DEF InstallOutcomes
<1>2. "dirty" \notin Faults => LeftByFailure(c, new) = {machine[c]}
  BY DEF LeftByFailure
<1>3. CASE r = Outcome(TRUE, new)
  BY <1>3, OutcomeFields
<1>4. ASSUME NEW x \in LeftByFailure(c, new), r = Outcome(FALSE, x)
      PROVE  ~r.ok /\ r.ok \in BOOLEAN /\ r.now = x
  BY <1>4, OutcomeFields
<1>5. QED
  BY <1>1, <1>2, <1>3, <1>4

\* A saved installer fails only under "rollback".
LEMMA ReinstallEnds ==
  ASSUME NEW c, NEW old, NEW r \in ReinstallOutcomes(c, old)
  PROVE  /\ r.ok \in BOOLEAN
         /\ r.ok => r.now = old
         /\ ~r.ok => "rollback" \in Faults
         /\ ~r.ok /\ "dirty" \notin Faults => r.now = machine[c]
<1>1. CASE "rollback" \in Faults
  BY <1>1, InstallEnds DEF ReinstallOutcomes
<1>2. CASE "rollback" \notin Faults
  <2>1. r = Outcome(TRUE, old)
    BY <1>2 DEF ReinstallOutcomes
  <2>2. QED
    BY <2>1, OutcomeFields
<1>3. QED
  BY <1>1, <1>2

\* An uninstall removes the component or leaves it; a snap's says Ok only when
\* it is gone.
LEMMA UninstallEnds ==
  ASSUME NEW c, NEW file, NEW r \in UninstallOutcomes(c, file)
  PROVE  /\ r.ok \in BOOLEAN
         /\ r.now \in {machine[c], NoSum}
         /\ r.ok /\ c \in Snaps => r.now = NoSum
         /\ ~r.ok => r.now = machine[c]
<1>1. \/ r = Outcome(TRUE, NoSum)
      \/ r = Outcome(FALSE, machine[c])
      \/ c \notin Snaps /\ r = Outcome(TRUE, machine[c])
  BY InstallAssumption DEF UninstallOutcomes, SnapUninstall, PackageUninstall, RemoveOutcomes,
                           RemoveFails
<1>2. CASE r = Outcome(TRUE, NoSum)
  BY <1>2, OutcomeFields
<1>3. CASE r = Outcome(FALSE, machine[c])
  BY <1>3, OutcomeFields
<1>4. CASE c \notin Snaps /\ r = Outcome(TRUE, machine[c])
  BY <1>4, OutcomeFields
<1>5. QED
  BY <1>1, <1>2, <1>3, <1>4

\* What handling a component that was to be handled did to it.
LEMMA HandledEnds ==
  ASSUME TypeOK, m \in ManifestType, NEW c \in ToHandle(m), NEW r \in InstallOrUninstall(c)
  PROVE  /\ r.ok /\ m.comp[c].path => r.now = m.comp[c].sum
         /\ r.ok /\ ~m.comp[c].path /\ c \in Snaps => r.now = NoSum
         /\ ~r.ok /\ "dirty" \notin Faults => r.now = machine[c]
<1>1. ShouldInstall(m.comp[c]) <=> m.comp[c].path
  BY DEF ToHandle, ShouldInstall, ManifestType, Component
<1>2. CASE m.comp[c].path
  BY <1>1, <1>2, InstallEnds DEF InstallOrUninstall
<1>3. CASE ~m.comp[c].path
  BY <1>1, <1>3, UninstallEnds DEF InstallOrUninstall
<1>4. QED
  BY <1>2, <1>3

-----------------------------------------------------------------------------
(* Success is real *)

\* Unpacking an archive again is the only step that can undo what was installed:
\* either there are no archives, or it works, or its failure leaves what was there.
RestoresAreSafe == Tars = {} \/ "rollback" \notin Faults \/ "dirty" \notin Faults

\* From the first component installed to the end of a run that worked.
Handling == {"install", "savePrev", "restore", "finish", "saved", "stage"}

\* What was handled with success is on the machine, or off it.
HandledIsReal ==
  pc \in Handling =>
    \A c \in updatedList :
      /\ m.comp[c].path => machine[c] = m.comp[c].sum
      /\ c \in Snaps /\ ~m.comp[c].path => machine[c] = NoSum

\* An archive is unpacked again from the installer just saved.
LEMMA HandledStep ==
  ASSUME RestoresAreSafe
  PROVE  TypeOK /\ RunInv /\ HandledIsReal /\ Next => HandledIsReal'
<1> SUFFICES ASSUME TypeOK, RunInv, HandledIsReal PROVE Next => HandledIsReal'
  OBVIOUS
<1> USE DEF packages, loop, reported, otaVars, diskVars, outsideVars
<1>1. ASSUME pc' \notin Handling PROVE HandledIsReal'
  BY <1>1 DEF HandledIsReal
<1>2. ASSUME updatedList' = {} PROVE HandledIsReal'
  BY <1>2 DEF HandledIsReal
<1>3. ASSUME pc \in Handling, UNCHANGED <<m, machine, updatedList>> PROVE HandledIsReal'
  BY <1>3 DEF HandledIsReal
<1>4. RunLoop \/ Check \/ Recover \/ Download => HandledIsReal'
  BY <1>1 DEF Handling, RunLoop, TimerExpires, Receive, ReceiveUpdateVersion,
     ReceiveUpdateBothSides, ReceiveUpdateVersionForce, Check, FetchLicense, FetchLicenseFails,
     ReadManifest, CoreHasConnectedSession, Recover, NoIncompleteInstall, FullReset,
     FullResetFails, PartialReset, SavePurgedHash, Download, PostChecksums, DownloadComponents,
     DownloadHangs, DownloadManagerFails, Continue, Retry, Leave
<1>5. Agent => HandledIsReal'
  <2>1. AgentInstallFails => HandledIsReal'
    BY <1>2 DEF AgentInstallFails, RunInv, ListIsLocal, Listing
  <2>2. QED
    BY <1>1, <2>1 DEF Handling, Agent, ReportAgentPending, SetFutureVersion, SaveAgentHash,
                      AgentInstalled, Restart, Leave
<1>6. ASSUME Install PROVE HandledIsReal'
  <2>1. ASSUME NEW c \in Comps, InstallComponent(c) PROVE HandledIsReal'
    <3>1. PICK r \in InstallOrUninstall(c) :
            /\ r \in OutcomeType
            /\ Handles(c, [m.comp[c] EXCEPT !.updated = r.ok, !.sum = HandledSum(c, r.ok)], r.now)
            /\ updatedList' = IF r.ok THEN updatedList \cup {c} ELSE updatedList
      BY <2>1, InstallComponentEffect
    <3>2. /\ pc = "install" /\ m \in ManifestType /\ m.comp[c] \in Component
          /\ c \in ToHandle(m) /\ c \notin updatedList /\ updatedList \subseteq Comps
      BY <2>1 DEF InstallComponent, NextInOrder, TypeOK, Working, ManifestType, RunInv,
                  LoopsAreComplete
    <3>3. /\ m'.comp[c].path = m.comp[c].path /\ m'.comp[c].sum = HandledSum(c, r.ok)
          /\ \A e \in Comps : e # c => m'.comp[e] = m.comp[e] /\ machine'[e] = machine[e]
          /\ machine'[c] = r.now
      BY <3>1, <3>2 DEF Handles, Component
    <3>4. ASSUME NEW e \in updatedList', e # c
          PROVE  /\ m'.comp[e].path => machine'[e] = m'.comp[e].sum
                 /\ e \in Snaps /\ ~m'.comp[e].path => machine'[e] = NoSum
      <4>1. e \in updatedList
        BY <3>1, <3>4
      <4>2. QED
        BY <3>2, <3>3, <3>4, <4>1 DEF HandledIsReal, Handling
    <3>5. ASSUME c \in updatedList'
          PROVE  /\ m'.comp[c].path => machine'[c] = m'.comp[c].sum
                 /\ c \in Snaps /\ ~m'.comp[c].path => machine'[c] = NoSum
      <4>1. r.ok
        BY <3>1, <3>2, <3>5
      <4>2. m.comp[c].path => HandledSum(c, r.ok) = m.comp[c].sum
        BY <4>1 DEF HandledSum
      <4>3. QED
        BY <3>2, <3>3, <4>1, <4>2, HandledEnds
    <3>6. QED
      BY <3>4, <3>5 DEF HandledIsReal
  <2>2. ASSUME NEW c \in Comps, RestoreArchive(c) PROVE HandledIsReal'
    <3>1. PICK r \in ReinstallOutcomes(c, Saved(c)) : machine' = [machine EXCEPT ![c] = r.now]
      BY <2>2 DEF RestoreArchive
    <3>2. /\ pc \in {"restore", "restoreBack"} /\ pc' = pc /\ UNCHANGED <<m, updatedList>>
          /\ c \in Archives /\ machine \in [Comps -> Sum] /\ updatedList \subseteq Comps
      BY <2>2 DEF RestoreArchive, RunInv, LoopsAreComplete, TypeOK
    <3>3. CASE pc = "restoreBack"
      BY <1>1, <3>2, <3>3 DEF Handling
    <3>4. CASE pc = "restore"
      <4>1. c \in Tars /\ c \notin Snaps
        BY <3>2, InstallAssumption DEF Archives
      <4>2. c \in updatedList => Saved(c) = m.comp[c].sum
        BY <3>4 DEF RunInv, LoopsAreComplete
      <4>3. r.now \in {Saved(c), machine[c]}
        BY <3>1, <4>1, ReinstallEnds DEF RestoresAreSafe
      <4>4. QED
        BY <3>1, <3>2, <3>4, <4>1, <4>2, <4>3 DEF HandledIsReal, Handling
    <3>5. QED
      BY <3>2, <3>3, <3>4
  <2>3. CASE \/ InstallSucceeded \/ SavePrevDone \/ \E c \in Comps : SavePrevComponent(c)
    BY <1>3, <2>3 DEF InstallSucceeded, SavePrevDone, SavePrevComponent, Handling
  <2>4. RestoreDone => HandledIsReal'
    BY <1>1, <1>3 DEF RestoreDone, Handling
  <2>5. CASE \/ InstallFailed \/ RollBackDone
             \/ \E c \in Comps : \/ InstallerPanics(c) \/ SavePrevFails(c)
                                 \/ RollBackComponent(c) \/ PurgeComponent(c)
    BY <1>1, <2>5 DEF InstallFailed, RollBackDone, InstallerPanics, SavePrevFails,
                      RollBackComponent, PurgeComponent, Handling
  <2>6. QED
    BY <1>6, <2>1, <2>2, <2>3, <2>4, <2>5 DEF Install, InstallStep
<1>7. Finish => HandledIsReal'
  BY <1>1, <1>2, <1>3 DEF Finish, SkipInstall, MarkIncomplete, ReportError, SaveHash,
     ClearMarker, AdvanceStage, Continue, Retry, Leave, Handling, RunInv, ListIsLocal, Listing
<1>8. Crash \/ RestartAfterPanic => HandledIsReal'
  BY <1>2, RestartFrame
<1>9. Outside => HandledIsReal'
  BY OutsideFrame DEF HandledIsReal, installVars
<1>10. QED
  BY <1>4, <1>5, <1>6, <1>7, <1>8, <1>9 DEF Next

\* HandledIsReal is inductive with the invariants before it.
LEMMA HandledInductive ==
  ASSUME RestoresAreSafe
  PROVE  Spec => [](IInv /\ RunInv /\ HandledIsReal)
<1>1. Init => HandledIsReal
  BY DEF Init, HandledIsReal
<1>2. HandledIsReal /\ UNCHANGED vars => HandledIsReal'
  BY DEF HandledIsReal, vars, installVars
<1>3. IInv /\ RunInv /\ HandledIsReal /\ [Next]_vars => HandledIsReal'
  BY <1>2, HandledStep DEF IInv
<1>4. QED
  BY <1>1, <1>3, RunInvInductive, PTL DEF Spec

\* A run that saves its manifest and reports UPDATED did what the manifest says, as
\* long as an archive that cannot be unpacked again, a failure the code only logs, is
\* left as it was.
THEOREM SuccessIsRealHolds ==
  ASSUME RestoresAreSafe
  PROVE  Spec => []SuccessIsReal
<1>1. ASSUME IInv, RunInv, HandledIsReal PROVE SuccessIsReal
  <2>1. SUFFICES ASSUME pc \in {"finish", "saved", "stage"}, m.agent = 0, NEW c \in Comps
                 PROVE  /\ m.comp[c].path => machine[c] = m.comp[c].sum
                        /\ c \in Snaps \cap (updatedList \cup ToHandle(m)) /\ ~m.comp[c].path
                             => machine[c] = NoSum
    BY DEF SuccessIsReal
  <2>2. ToHandle(m) = {}
    BY <1>1, <2>1 DEF RunInv, LoopsAreComplete
  <2>3. m.comp[c].path => c \in updatedList
    BY <1>1, <2>1, <2>2 DEF RunInv, PathsAreNew, WithManifest, Working, ToHandle
  <2>4. QED
    BY <1>1, <2>1, <2>2, <2>3 DEF HandledIsReal, Handling
<1>2. QED
  BY <1>1, HandledInductive, PTL

-----------------------------------------------------------------------------
(* What is recorded is saved *)

\* Nobody asks for an update of both sides: the agent only ever works on its own.
NeverBothSides == "UpdateBothSides" \notin Requests

\* The other side has no manifest and no record.
OneSideOnly ==
  /\ both = "None" /\ override = "None"
  /\ pc \in Working => m.operator = IsOperator
  /\ \A s \in Names, c \in Comps : hash[FullServerName(s, ~IsOperator)][c] = NoSum

\* Saving the manifest of one side records nothing for the other.
LEMMA WriteOneSide ==
  ASSUME NEW h \in HashManifest, NEW mf \in ManifestType, NEW s \in Names, NEW c \in Comps,
         h[FullServerName(s, ~mf.operator)][c] = NoSum
  PROVE  WriteToFile(h, mf)[FullServerName(s, ~mf.operator)][c] = NoSum
<1> DEFINE k == FullServerName(s, ~mf.operator)
<1>1. mf.operator \in BOOLEAN /\ k \in Names \X BOOLEAN /\ k \in Keys
  BY DEF ManifestType, FullServerName, Keys
<1>2. k # MetaKey /\ k # FullServerName(mf.server, mf.operator)
  BY <1>1, KeysAssumption DEF FullServerName
<1>3. WriteToFile(h, mf)[k][c] \in {NoSum, h[k][c]}
  BY <1>1, <1>2 DEF WriteToFile, WhichServer
<1>4. QED
  BY <1>3

\* Without a request for both sides nothing ever names the other side.
LEMMA OneSideStep ==
  ASSUME NeverBothSides
  PROVE  TypeOK /\ OneSideOnly /\ Next => OneSideOnly'
<1> SUFFICES ASSUME TypeOK, OneSideOnly PROVE Next => OneSideOnly'
  OBVIOUS
<1>0. /\ hash \in HashManifest /\ IsOperator \in BOOLEAN
      /\ pc \in Working => m \in ManifestType
      /\ GetOperator("None") = IsOperator
  BY OTAAssumption DEF TypeOK, GetOperator
<1> DEFINE OneSideHash == \A s \in Names, c \in Comps :
                            hash'[FullServerName(s, ~IsOperator)][c] = NoSum
<1>1. hash' = hash \/ hash' = EmptyHash => OneSideHash
  <2>1. ASSUME NEW s \in Names, NEW c \in Comps
        PROVE  EmptyHash[FullServerName(s, ~IsOperator)][c] = NoSum
    BY <1>0 DEF EmptyHash, FullServerName, Keys
  <2>2. QED
    BY <2>1 DEF OneSideOnly
<1>2. ASSUME pc \in Working, hash' = WriteToFile(hash, m) PROVE OneSideHash
  BY <1>0, <1>2, WriteOneSide DEF OneSideOnly
<1>3. ASSUME UNCHANGED <<both, override>>, OneSideHash, pc' \notin Working PROVE OneSideOnly'
  BY <1>3 DEF OneSideOnly
<1>4. ASSUME UNCHANGED <<both, override>>, OneSideHash, pc \in Working, m'.operator = m.operator
      PROVE  OneSideOnly'
  BY <1>4 DEF OneSideOnly
<1> HIDE DEF OneSideHash
<1> USE DEF packages, loop, reported, otaVars, diskVars, outsideVars
<1>5. RunLoop => OneSideOnly'
  <2>1. ~ReceiveUpdateBothSides
    BY DEF NeverBothSides, ReceiveUpdateBothSides, Receive, TypeOK
  <2>2. ASSUME ReceiveUpdateVersionForce PROVE OneSideOnly'
    <3>1. PICK name \in ServerNames :
            \/ m' = PrepareForServerPurge(NewManifest(hash, name, IsOperator))
            \/ pc' = pc /\ pc = "idle"
      BY <1>0, <2>2 DEF ReceiveUpdateVersionForce, Receive, OneSideOnly
    <3>2. UNCHANGED <<both, override, hash>> /\ name \in Names
      BY <2>2, ServerNamesType DEF ReceiveUpdateVersionForce
    <3>3. CASE m' = PrepareForServerPurge(NewManifest(hash, name, IsOperator))
      <4>1. m'.operator = IsOperator
        BY <1>0, <3>2, <3>3, NewManifestType, NewManifestPlan
           DEF PrepareForServerPurge, NewManifest
      <4>2. QED
        BY <1>1, <3>2, <4>1 DEF OneSideOnly, OneSideHash
    <3>4. QED
      BY <1>1, <1>3, <3>1, <3>2, <3>3 DEF Working
  <2>3. QED
    BY <1>1, <1>3, <2>1, <2>2 DEF RunLoop, TimerExpires, ReceiveUpdateVersion, Receive, Working
<1>6. Check => OneSideOnly'
  <2>1. ASSUME ReadManifest PROVE OneSideOnly'
    <3>1. UNCHANGED <<both, override, hash>>
      BY <2>1 DEF ReadManifest, OverrideBy, OneSideOnly
    <3>2. m'.operator = IsOperator
      BY <1>0, <2>1, <3>1 DEF ReadManifest, NewManifest, OneSideOnly
    <3>3. QED
      BY <1>1, <3>1, <3>2 DEF OneSideOnly, OneSideHash
  <2>2. QED
    BY <1>1, <1>3, <2>1 DEF Check, FetchLicense, FetchLicenseFails, CoreHasConnectedSession,
                            Retry, Leave, Working
<1>7. Recover => OneSideOnly'
  <2>1. FullReset => OneSideOnly'
    BY <1>1, <1>4 DEF FullReset, NewManifest, Working
  <2>2. PartialReset => OneSideOnly'
    BY <1>0, <1>1, <1>4 DEF PartialReset, PrepareForServerPurge, ManifestType, Working
  <2>3. SavePurgedHash => OneSideOnly'
    BY <1>2, <1>3, <1>4 DEF SavePurgedHash, Retry, Leave, Working
  <2>4. QED
    BY <1>1, <1>3, <1>4, <2>1, <2>2, <2>3
       DEF Recover, NoIncompleteInstall, FullResetFails, Retry, Leave, Working
<1>8. Download => OneSideOnly'
  <2>1. ASSUME PostChecksums PROVE OneSideOnly'
    <3>1. m'.operator = m.operator /\ pc \in Working
      BY <1>0, <2>1 DEF PostChecksums, UpdateWithJson, ManifestType, Working
    <3>2. QED
      BY <1>1, <1>4, <2>1, <3>1 DEF PostChecksums
  <2>2. DownloadComponents => OneSideOnly'
    BY <1>0, <1>1, <1>4 DEF DownloadComponents, UpdateComponentsPaths, ManifestType, Working
  <2>3. QED
    BY <1>1, <1>3, <2>1, <2>2 DEF Download, DownloadHangs, DownloadManagerFails, Continue, Leave, Working
<1>9. Agent => OneSideOnly'
  <2>1. AgentInstalled => OneSideOnly'
    BY <1>1 DEF AgentInstalled, Restart, Leave, OneSideOnly, OneSideHash, Working
  <2>2. QED
    BY <1>1, <1>2, <1>4, <2>1 DEF Agent, ReportAgentPending, SetFutureVersion, SaveAgentHash,
                                  AgentInstallFails, Working
<1>10. Install => OneSideOnly'
  <2>1. ASSUME Install PROVE UNCHANGED <<both, override, hash>> /\ pc \in Working
                             /\ m'.operator = m.operator
    BY <2>1, InstallFrame DEF Installing, Working
  <2>2. QED
    BY <1>1, <1>4, <2>1
<1>11. Finish => OneSideOnly'
  <2>1. SaveHash => OneSideOnly'
    BY <1>2, <1>4 DEF SaveHash, Working
  <2>2. AdvanceStage => OneSideOnly'
    BY <1>1, <1>3 DEF AdvanceStage, NextStage, Unset, OneSideOnly, Continue, Retry, Leave, Working
  <2>3. QED
    BY <1>1, <1>3, <1>4, <2>1, <2>2
       DEF Finish, SkipInstall, MarkIncomplete, ReportError, ClearMarker, Continue, Leave, Working
<1>12. Crash \/ RestartAfterPanic => OneSideOnly'
  <2>1. ASSUME Crash \/ RestartAfterPanic
        PROVE  both' \in {both, "None"} /\ (hash' = hash \/ hash' = EmptyHash)
    BY <2>1 DEF Crash, TornWrite, RestartAfterPanic
  <2>2. QED
    BY <1>1, <2>1, RestartFrame DEF OneSideOnly, OneSideHash, Working
<1>13. Outside => OneSideOnly'
  BY OutsideFrame DEF OneSideOnly, installVars
<1>14. QED
  BY <1>5, <1>6, <1>7, <1>8, <1>9, <1>10, <1>11, <1>12, <1>13 DEF Next

\* No step is interrupted: the process is not killed, and no installer that is run
\* while the hash file is behind the saved installers panics.
Unkilled == Faults \cap {"crash", "torn"} = {} /\ ("panic" \in Faults => Tars = {})

\* Or else what a kill interrupts is under its mark, and of one side.
KillsAreMarked == Unkilled \/ (NeverBothSides /\ "file" \notin Faults)

\* From the recovery on, the entries of the server being installed are right again.
PastRecovery == {"checksums", "download", "decide", "finish", "saved", "stage"} \cup Installing

\* The entries no kill has left behind the saved installers: all of them when nothing
\* is killed; else not the one of meta_server, and the one of the server whose install
\* was interrupted only past the recovery.
Trusted(k) ==
  \/ Unkilled
  \/ /\ k # MetaKey
     /\ marker = NoServer \/ pc \in PastRecovery \/ k[1] # marker

\* From the first installer saved to the hash file written.
Saving == {"savePrev", "restore", "finish"}

\* The installer was saved, or is about to be, and the hash file is not yet written.
BeingSaved(k, c) == pc \in Saving /\ c \in updatedList /\ k = Key(c)

\* What is recorded under an entry is what is saved for it.
SavedInv ==
  \A k \in Keys, c \in Comps :
    Trusted(k) /\ ~BeingSaved(k, c) /\ hash[k][c] # NoSum => prev[k][c] = hash[k][c]

\* A manifest none of whose components was handled is saved as it was, or emptied.
LEMMA WriteKeeps ==
  ASSUME TypeOK, PlanIsRecorded, pc \in Working, NEW k \in Keys, NEW c \in Comps,
         c \in updatedList => k # Key(c)
  PROVE  WriteToFile(hash, m)[k][c] \in {NoSum, hash[k][c]}
<1>1. WriteToFile(hash, m)[k][c] =
        IF k = Key(c) /\ c \in Recorded(m) THEN m.comp[c].sum
        ELSE IF k = FullServerName(m.server, m.operator) THEN NoSum ELSE hash[k][c]
  BY DEF WriteToFile, Key
<1>2. k = Key(c) /\ c \in Recorded(m) => m.comp[c].sum = hash[k][c]
  BY DEF Recorded, PlanIsRecorded
<1>3. QED
  BY <1>1, <1>2

\* The save at the end of a purge leaves nothing under the interrupted server.
LEMMA PurgedIsEmpty ==
  ASSUME IInv, RunInv, OneSideOnly, pc = "purge", NEW k \in Keys, NEW c \in Comps,
         k # MetaKey, k[1] = marker
  PROVE  WriteToFile(hash, m)[k][c] = NoSum
<1>1. /\ m \in ManifestType /\ hash \in HashManifest /\ marker = m.server
      /\ m.operator = IsOperator /\ updatedList = {} /\ pc \in Working
  BY DEF IInv, TypeOK, MarkedWhileWorking, OneSideOnly, Working, RunInv, ListIsLocal, Listing
<1>2. PICK op \in BOOLEAN : k = FullServerName(m.server, op)
  BY <1>1 DEF Keys, FullServerName
<1>3. CASE op = m.operator
  <2>1. CASE c \in Meta
    BY <1>2, <1>3, <2>1 DEF WriteToFile, WhichServer
  <2>2. CASE c \notin Meta
    BY <1>1, <1>2, <1>3, <2>2, WritePurged DEF IInv, PurgeForgets
  <2>3. QED
    BY <2>1, <2>2
<1>4. CASE op # m.operator
  <2>1. op = ~IsOperator /\ m.server \in Names
    BY <1>1, <1>2, <1>4 DEF ManifestType
  <2>2. hash[k][c] = NoSum
    BY <1>2, <2>1 DEF OneSideOnly
  <2>3. QED
    BY <1>1, <2>2, WriteKeeps DEF IInv, RunInv
<1>5. QED
  BY <1>3, <1>4

\* The installers are saved before the hash file is written, a rollback does not write
\* it, and what a kill leaves in between is under the mark.
LEMMA SavedStep ==
  ASSUME "backup" \notin Faults, KillsAreMarked
  PROVE  IInv /\ RunInv /\ (NeverBothSides => OneSideOnly) /\ SavedInv /\ Next => SavedInv'
<1> SUFFICES ASSUME IInv, RunInv, NeverBothSides => OneSideOnly, SavedInv
             PROVE  Next => SavedInv'
  OBVIOUS
<1>0. /\ TypeOK /\ hash \in HashManifest /\ prev \in HashManifest
      /\ pc \in Working => m \in ManifestType
  BY DEF IInv, TypeOK
<1> DEFINE StillTrusted == \A k \in Keys : Trusted(k)' => Trusted(k)
           OnlyForgets == \A k \in Keys, c \in Comps : hash'[k][c] \in {NoSum, hash[k][c]}
<1>1. ASSUME pc \in PastRecovery
             \/ (UNCHANGED marker /\ (pc' \in PastRecovery => marker = NoServer))
      PROVE  StillTrusted
  BY <1>1 DEF Trusted
<1>2. ASSUME pc \in Working, updatedList = {}, hash' = WriteToFile(hash, m) PROVE OnlyForgets
  BY <1>0, <1>2, WriteKeeps DEF RunInv
<1>3. UNCHANGED hash => OnlyForgets
  OBVIOUS
<1>4. ASSUME StillTrusted, OnlyForgets, UNCHANGED prev, pc \notin Saving PROVE SavedInv'
  BY <1>4 DEF SavedInv, BeingSaved
<1>5. ASSUME pc \in Saving, pc' \in Saving, UNCHANGED <<m, updatedList, hash, prev, marker>>
      PROVE  SavedInv'
  BY <1>5 DEF SavedInv, BeingSaved, Key, Trusted, PastRecovery, Installing, Saving
<1>6. ASSUME hash' = EmptyHash PROVE SavedInv'
  BY <1>6 DEF SavedInv, EmptyHash
\* a kill while the installers are being saved
<1>7. ASSUME pc \in Saving, ~Unkilled, UNCHANGED <<hash, marker>>, pc' \in {"start", "dead"},
             \A k \in Keys, c \in Comps : ~BeingSaved(k, c) => prev'[k][c] = prev[k][c]
      PROVE  SavedInv'
  <2>1. SUFFICES ASSUME NEW k \in Keys, NEW c \in Comps, Trusted(k)', hash[k][c] # NoSum
                 PROVE  prev'[k][c] = hash[k][c]
    BY <1>7 DEF SavedInv
  <2>2. k # MetaKey /\ (marker = NoServer \/ k[1] # marker)
    BY <1>7, <2>1 DEF Trusted, PastRecovery, Installing
  <2>3. Trusted(k)
    BY <2>2 DEF Trusted
  <2>4. ~BeingSaved(k, c)
    <3>1. SUFFICES ASSUME BeingSaved(k, c) PROVE FALSE
      OBVIOUS
    <3>2. marker = m.server /\ m \in ManifestType
      BY <1>0, <1>7, <3>1 DEF BeingSaved, IInv, MarkedWhileWorking, KillsAreMarked, Unmarked,
         Installing, Saving, RunInv, LoopsAreComplete, Working
    <3>3. marker # NoServer
      BY <3>2, OTAAssumption DEF ManifestType
    <3>4. k = <<m.server, m.operator>>
      BY <2>2, <3>1 DEF BeingSaved, Key, WhichServer, FullServerName
    <3>5. QED
      BY <2>2, <3>2, <3>3, <3>4
  <2>5. QED
    BY <1>7, <2>1, <2>3, <2>4 DEF SavedInv
<1> HIDE DEF StillTrusted, OnlyForgets
<1> USE DEF packages, loop, reported, otaVars, diskVars, outsideVars
<1>8. RunLoop => SavedInv'
  BY <1>1, <1>3, <1>4 DEF RunLoop, TimerExpires, Receive, ReceiveUpdateVersion,
     ReceiveUpdateBothSides, ReceiveUpdateVersionForce, PastRecovery, Installing, Saving
<1>9. Check => SavedInv'
  BY <1>1, <1>3, <1>4 DEF Check, FetchLicense, FetchLicenseFails, ReadManifest,
     CoreHasConnectedSession, Retry, Leave, PastRecovery, Installing, Saving
<1>10. Recover => SavedInv'
  <2>1. NoIncompleteInstall \/ PartialReset \/ FullResetFails => SavedInv'
    BY <1>1, <1>3, <1>4 DEF NoIncompleteInstall, PartialReset, FullResetFails, Retry, Leave,
       PastRecovery, Installing, Saving
  <2>2. FullReset => SavedInv'
    BY <1>6 DEF FullReset
  <2>3. ASSUME SavePurgedHash PROVE SavedInv'
    <3>1. /\ pc \in Working /\ pc \notin Saving /\ UNCHANGED <<prev, marker>>
          /\ hash' = WriteToFile(hash, m) /\ updatedList = {}
      BY <2>3 DEF SavePurgedHash, Working, Saving, RunInv, ListIsLocal, Listing
    <3>2. OnlyForgets
      BY <1>2, <3>1
    <3>3. CASE Unkilled \/ pc = "forcePurge"
      <4>1. pc = "forcePurge" => pc' = "start"
        BY <2>3 DEF SavePurgedHash, Retry, Leave
      <4>2. StillTrusted
        BY <1>1, <3>1, <3>3, <4>1 DEF StillTrusted, Trusted, PastRecovery, Installing
      <4>3. QED
        BY <1>4, <3>1, <3>2, <4>2
    <3>4. CASE ~Unkilled /\ pc = "purge"
      <4>1. ASSUME NEW k \in Keys, NEW c \in Comps, Trusted(k)', hash'[k][c] # NoSum
            PROVE  prev'[k][c] = hash'[k][c]
        <5>1. k # MetaKey
          BY <3>4, <4>1 DEF Trusted
        <5>2. k[1] # marker
          BY <3>1, <3>4, <4>1, <5>1, PurgedIsEmpty DEF KillsAreMarked
        <5>3. Trusted(k) /\ ~BeingSaved(k, c)
          BY <3>1, <5>1, <5>2 DEF Trusted, BeingSaved
        <5>4. hash'[k][c] = hash[k][c]
          BY <3>2, <4>1 DEF OnlyForgets
        <5>5. QED
          BY <3>1, <4>1, <5>3, <5>4 DEF SavedInv
      <4>2. QED
        BY <4>1 DEF SavedInv
    <3>5. QED
      BY <2>3, <3>3, <3>4 DEF SavePurgedHash
  <2>4. QED
    BY <2>1, <2>2, <2>3 DEF Recover
<1>11. Download => SavedInv'
  BY <1>1, <1>3, <1>4 DEF Download, PostChecksums, DownloadComponents, DownloadHangs, DownloadManagerFails,
     Continue, Leave, PastRecovery, Saving
<1>12. Agent => SavedInv'
  <2>1. SaveAgentHash \/ AgentInstallFails => SavedInv'
    BY <1>1, <1>2, <1>4 DEF SaveAgentHash, AgentInstallFails, PastRecovery, Installing, Saving,
       Working, RunInv, ListIsLocal, Listing
  <2>2. ReportAgentPending \/ SetFutureVersion \/ AgentInstalled => SavedInv'
    BY <1>1, <1>3, <1>4 DEF ReportAgentPending, SetFutureVersion, AgentInstalled, Restart, Leave,
       PastRecovery, Installing, Saving
  <2>3. QED
    BY <2>1, <2>2 DEF Agent
<1>13. ASSUME Install PROVE SavedInv'
  <2>1. UNCHANGED <<hash, marker>>
    BY <1>0, <1>13, InstallFrame
  <2>2. ASSUME NEW c \in Comps, SavePrevComponent(c) PROVE SavedInv'
    <3>1. /\ pc = "savePrev" /\ pc' = pc /\ UNCHANGED <<m, updatedList>> /\ c \in updatedList
          /\ SaveAs(c, IF m.comp[c].path THEN m.comp[c].sum ELSE NoSum)
      BY <2>2 DEF SavePrevComponent, RunInv, LoopsAreComplete
    <3>2. ASSUME NEW k \in Keys, NEW e \in Comps, ~(k = Key(c) /\ e = c)
          PROVE  prev'[k][e] = prev[k][e]
      BY <1>0, <3>1, <3>2 DEF SaveAs, Key, HashManifest
    <3>3. ASSUME NEW k \in Keys, NEW e \in Comps, Trusted(k)', ~BeingSaved(k, e)',
                 hash'[k][e] # NoSum
          PROVE  prev'[k][e] = hash'[k][e]
      <4>1. ~(k = Key(c) /\ e = c)
        BY <3>1, <3>3 DEF BeingSaved, Key, Saving
      <4>2. Trusted(k) /\ ~BeingSaved(k, e)
        BY <2>1, <3>1, <3>3 DEF Trusted, BeingSaved, Key
      <4>3. QED
        BY <2>1, <3>2, <3>3, <4>1, <4>2 DEF SavedInv
    <3>4. QED
      BY <3>3 DEF SavedInv
  <2>3. SavePrevDone \/ RestoreDone => SavedInv'
    BY <1>1, <1>3, <1>4, <1>5, <2>1 DEF SavePrevDone, RestoreDone, Saving, PastRecovery, Installing
  <2>4. ASSUME NEW c \in Comps, RestoreArchive(c) PROVE SavedInv'
    BY <1>1, <1>3, <1>4, <1>5, <2>1, <2>4 DEF RestoreArchive, Saving, PastRecovery, Installing
  <2>5. ASSUME NEW c \in Comps, InstallerPanics(c) PROVE SavedInv'
    <3>1. /\ pc' = "dead" /\ UNCHANGED prev /\ "panic" \in Faults /\ c \in todo
          /\ pc \notin {"savePrev", "finish"}
      BY <2>5 DEF InstallerPanics, Purging
    <3>2. CASE pc \in Saving
      <4>1. c \in Tars
        BY <3>1, <3>2 DEF Saving, RunInv, LoopsAreComplete, Archives
      <4>2. ~Unkilled
        BY <3>1, <4>1 DEF Unkilled
      <4>3. \A k \in Keys, d \in Comps : ~BeingSaved(k, d) => prev'[k][d] = prev[k][d]
        BY <3>1
      <4>4. QED
        BY <1>7, <2>1, <3>1, <3>2, <4>2, <4>3
    <3>3. CASE pc \notin Saving
      BY <1>1, <1>3, <1>4, <2>1, <3>1, <3>3 DEF PastRecovery, Installing
    <3>4. QED
      BY <3>2, <3>3
  <2>6. CASE \/ InstallSucceeded \/ InstallFailed \/ RollBackDone
             \/ \E c \in Comps : InstallComponent(c) \/ RollBackComponent(c)
    <3>1. UNCHANGED prev /\ pc \in {"install", "rollback"}
      BY <2>6 DEF InstallSucceeded, InstallFailed, RollBackDone, InstallComponent,
                  RollBackComponent
    <3>2. QED
      BY <1>1, <1>3, <1>4, <2>1, <3>1 DEF PastRecovery, Installing, Saving
  <2>7. ASSUME NEW c \in Comps, PurgeComponent(c) PROVE SavedInv'
    BY <1>1, <1>3, <1>4, <2>1, <2>7 DEF PurgeComponent, PastRecovery, Installing, Saving
  <2>8. ASSUME NEW c \in Comps PROVE ~SavePrevFails(c)
    BY DEF SavePrevFails
  <2>9. QED
    BY <1>13, <2>2, <2>3, <2>4, <2>5, <2>6, <2>7, <2>8 DEF Install, InstallStep
<1>14. ASSUME Finish PROVE SavedInv'
  <2>1. ASSUME SaveHash PROVE SavedInv'
    <3>1. /\ pc = "finish" /\ pc' = "saved" /\ hash' = WriteToFile(hash, m)
          /\ UNCHANGED <<m, prev, updatedList, marker>> /\ m \in ManifestType /\ pc \in Working
      BY <1>0, <2>1 DEF SaveHash, Working
    <3>2. ASSUME NEW k \in Keys, NEW c \in Comps, Trusted(k)', hash'[k][c] # NoSum
          PROVE  prev[k][c] = hash'[k][c]
      <4>1. Trusted(k)
        BY <3>1, <3>2 DEF Trusted, PastRecovery
      <4>2. CASE c \in updatedList /\ k = Key(c)
        <5>1. c \in Recorded(m) /\ Saved(c) = m.comp[c].sum
          BY <3>1, <4>2 DEF Recorded, RunInv, OthersAreSettled, LoopsAreComplete
        <5>2. hash'[k][c] = m.comp[c].sum
          BY <3>1, <4>2, <5>1 DEF WriteToFile, Key
        <5>3. QED
          BY <4>2, <5>1, <5>2 DEF Saved, Key
      <4>3. CASE ~(c \in updatedList /\ k = Key(c))
        <5>1. hash'[k][c] = hash[k][c]
          BY <1>0, <3>1, <3>2, <4>3, WriteKeeps DEF RunInv
        <5>2. QED
          BY <3>2, <4>1, <4>3, <5>1 DEF SavedInv, BeingSaved
      <4>4. QED
        BY <4>2, <4>3
    <3>3. QED
      BY <3>1, <3>2 DEF SavedInv
  <2>2. SkipInstall \/ MarkIncomplete \/ ReportError \/ ClearMarker => SavedInv'
    BY <1>1, <1>3, <1>4 DEF SkipInstall, MarkIncomplete, ReportError, ClearMarker, Continue,
       Leave, PastRecovery, Installing, Saving
  <2>3. AdvanceStage => SavedInv'
    BY <1>1, <1>3, <1>4 DEF AdvanceStage, Retry, Continue, Leave, PastRecovery, Saving
  <2>4. QED
    BY <1>14, <2>1, <2>2, <2>3 DEF Finish
<1>15. ASSUME Crash PROVE SavedInv'
  <2>1. pc' = "start" /\ ~Unkilled
    BY <1>15, RestartFrame DEF Crash, Unkilled
  <2>2. CASE hash' = EmptyHash
    BY <1>6, <2>2
  <2>3. CASE hash' # EmptyHash
    <3>0. UNCHANGED prev \/ (pc = "savePrev" /\ \E c \in todo \cap Comps : SaveAs(c, NoSum))
      BY <1>15, RestartFrame DEF TornSave
    <3>1. UNCHANGED hash /\ (UNCHANGED marker \/ pc = "decide")
      BY <1>15, <2>3 DEF Crash, TornWrite, TornMarker
    <3>2. CASE pc \in Saving
      <4>1. ASSUME pc = "savePrev", NEW d \in todo \cap Comps, SaveAs(d, NoSum),
                   NEW k \in Keys, NEW c \in Comps, ~BeingSaved(k, c)
            PROVE  prev'[k][c] = prev[k][c]
        <5>1. ~(k = Key(d) /\ c = d)
          BY <4>1 DEF BeingSaved, Saving, RunInv, LoopsAreComplete
        <5>2. QED
          BY <1>0, <4>1, <5>1 DEF SaveAs, Key, HashManifest
      <4>2. \A k \in Keys, c \in Comps : ~BeingSaved(k, c) => prev'[k][c] = prev[k][c]
        BY <3>0, <4>1
      <4>3. QED
        BY <1>7, <2>1, <3>1, <3>2, <4>2 DEF Saving
    <3>3. CASE pc \notin Saving
      BY <1>1, <1>3, <1>4, <2>1, <3>0, <3>1, <3>3 DEF PastRecovery, Installing, Saving
    <3>4. QED
      BY <3>2, <3>3
  <2>4. QED
    BY <2>2, <2>3
<1>16. RestartAfterPanic => SavedInv'
  BY <1>1, <1>3, <1>4 DEF RestartAfterPanic, Restart, Leave, PastRecovery, Installing, Saving
<1>17. Outside => SavedInv'
  BY OutsideFrame DEF SavedInv, Trusted, BeingSaved, Key, installVars
<1>18. QED
  BY <1>8, <1>9, <1>10, <1>11, <1>12, <1>13, <1>14, <1>15, <1>16, <1>17 DEF Next

\* Without a failing backup SavedInv is inductive with the invariants before it.
LEMMA SavedInvInductive ==
  ASSUME "backup" \notin Faults, KillsAreMarked
  PROVE  Spec => [](IInv /\ RunInv /\ (NeverBothSides => OneSideOnly) /\ SavedInv)
<1> DEFINE Side == NeverBothSides => OneSideOnly
<1>1. Init => Side /\ SavedInv
  <2>1. \A k \in Keys, c \in Comps : EmptyHash[k][c] = NoSum
    BY DEF EmptyHash
  <2>2. \A s \in Names : FullServerName(s, ~IsOperator) \in Keys
    BY OTAAssumption DEF FullServerName, Keys
  <2>3. QED
    BY <2>1, <2>2 DEF Init, OneSideOnly, Working, SavedInv
<1>2. Side /\ UNCHANGED vars => Side'
  BY DEF OneSideOnly, vars, installVars, otaVars, diskVars
<1>3. SavedInv /\ UNCHANGED vars => SavedInv'
  BY DEF SavedInv, Trusted, BeingSaved, Key, vars, installVars, otaVars, diskVars
<1>4. IInv /\ Side /\ [Next]_vars => Side'
  BY <1>2, OneSideStep DEF IInv
<1>5. IInv /\ RunInv /\ Side /\ SavedInv /\ [Next]_vars => SavedInv'
  BY <1>3, SavedStep
<1>6. QED
  BY <1>1, <1>4, <1>5, RunInvInductive, PTL DEF Spec

\* Once no install is marked incomplete, every recorded component has the installer of
\* the recorded version saved: as long as installers can be saved and the mark can be
\* written, and an install is not killed or the agent never works for the other side.
THEOREM SavedIsRecordedHolds ==
  ASSUME {"backup", "file"} \cap Faults = {}, Unkilled \/ NeverBothSides
  PROVE  Spec => []SavedIsRecorded
<1>1. ASSUME IInv, RunInv, SavedInv PROVE SavedIsRecorded
  <2>1. SUFFICES ASSUME marker = NoServer, NEW s \in Names, NEW op \in BOOLEAN,
                        NEW c \in Hardcoded[op] \ Meta, hash[FullServerName(s, op)][c] # NoSum
                 PROVE  prev[FullServerName(s, op)][c] = hash[FullServerName(s, op)][c]
    BY DEF SavedIsRecorded
  <2>2. FullServerName(s, op) \in Keys /\ FullServerName(s, op) # MetaKey /\ c \in Comps
    BY KeysAssumption, ManifestAssumption DEF FullServerName, Keys
  <2>3. Trusted(FullServerName(s, op))
    BY <2>1, <2>2 DEF Trusted
  <2>4. ~BeingSaved(FullServerName(s, op), c)
    <3>1. SUFFICES ASSUME pc \in Saving, c \in updatedList PROVE FALSE
      BY DEF BeingSaved
    <3>2. marker = m.server /\ m \in ManifestType
      BY <1>1, <3>1 DEF IInv, TypeOK, Working, MarkedWhileWorking, Unmarked,
                        Installing, Saving, RunInv, LoopsAreComplete
    <3>3. QED
      BY <2>1, <3>2, OTAAssumption DEF ManifestType
  <2>5. QED
    BY <1>1, <2>1, <2>2, <2>3, <2>4 DEF SavedInv
<1>2. IInv /\ RunInv /\ SavedInv => SavedIsRecorded
  BY <1>1
<1>3. Spec => [](IInv /\ RunInv /\ (NeverBothSides => OneSideOnly) /\ SavedInv)
  BY SavedInvInductive DEF KillsAreMarked
<1>4. QED
  BY <1>2, <1>3, PTL

-----------------------------------------------------------------------------
(* A rollback leads back to what is recorded *)

\* The machine has what the hash file has for c.
IsAsRecorded(c) == hash[Key(c)][c] # NoSum => machine[c] = hash[Key(c)][c]

\* What was rolled back with success is as the hash file has it.
RolledBack ==
  /\ pc = "rollback" =>
       \A c \in updatedList \ (todo \cup stuck) : Trusted(Key(c)) => IsAsRecorded(c)
  /\ pc = "restoreBack" =>
       \A c \in updatedList \ Tars : Trusted(Key(c)) => IsAsRecorded(c)

\* A rollback installs what was saved, and what was saved is what is recorded.
LEMMA RolledBackStep == IInv /\ RunInv /\ SavedInv /\ RolledBack /\ Next => RolledBack'
<1> SUFFICES ASSUME IInv, RunInv, SavedInv, RolledBack PROVE Next => RolledBack'
  OBVIOUS
<1>0. TypeOK
  BY DEF IInv
<1>1. ASSUME pc' \notin {"rollback", "restoreBack"} PROVE RolledBack'
  BY <1>1 DEF RolledBack
<1> USE DEF packages, loop, reported, otaVars, diskVars, outsideVars
<1>2. RunLoop \/ Check \/ Recover \/ Download \/ Agent \/ Finish => RolledBack'
  BY <1>1 DEF RunLoop, TimerExpires, Receive, ReceiveUpdateVersion, ReceiveUpdateBothSides,
     ReceiveUpdateVersionForce, Check, FetchLicense, FetchLicenseFails, ReadManifest,
     CoreHasConnectedSession, Recover, NoIncompleteInstall, FullReset, FullResetFails,
     PartialReset, SavePurgedHash, Download, PostChecksums, DownloadComponents,
     DownloadHangs, DownloadManagerFails, Agent, ReportAgentPending, SetFutureVersion, SaveAgentHash,
     AgentInstalled, AgentInstallFails, Restart, Finish, SkipInstall, MarkIncomplete,
     ReportError, SaveHash, ClearMarker, AdvanceStage, Continue, Retry, Leave
<1>3. ASSUME Install PROVE RolledBack'
  <2>1. UNCHANGED <<hash, marker>>
    BY <1>0, <1>3, InstallFrame
  <2>2. ASSUME InstallFailed PROVE RolledBack'
    BY <2>2 DEF InstallFailed, RolledBack
  <2>3. ASSUME NEW c \in Comps, RollBackComponent(c) PROVE RolledBack'
    <3>1. /\ pc = "rollback" /\ pc' = pc /\ UNCHANGED <<prev, updatedList>> /\ c \in updatedList
          /\ todo' = todo \ {c} /\ m \in ManifestType /\ updatedList \subseteq Comps
      BY <1>0, <2>3 DEF RollBackComponent, NextInOrder, RunInv, LoopsAreComplete, TypeOK, Working
    <3>2. /\ m'.server = m.server /\ m'.operator = m.operator
          /\ \A e \in Comps : e # c => machine'[e] = machine[e]
          /\ stuck \subseteq stuck'
      BY <1>0, <2>3, RollBackEffect DEF Handles
    <3>3. ASSUME NEW e \in Comps
          PROVE  /\ Key(e)' = Key(e)
                 /\ Trusted(Key(e))' => Trusted(Key(e))
                 /\ e # c => (IsAsRecorded(e)' <=> IsAsRecorded(e))
      <4>1. Key(e)' = Key(e)
        BY <3>2 DEF Key
      <4>2. Trusted(Key(e))' => Trusted(Key(e))
        BY <2>1, <3>1, <4>1 DEF Trusted
      <4>3. e # c => (IsAsRecorded(e)' <=> IsAsRecorded(e))
        BY <2>1, <3>2, <4>1 DEF IsAsRecorded
      <4>4. QED
        BY <4>1, <4>2, <4>3
    <3>4. ASSUME c \notin stuck', Trusted(Key(c)) PROVE IsAsRecorded(c)'
      <4>1. Key(c) \in Keys
        BY <3>1, WhichServerKey DEF Key, ManifestType
      <4>2. hash[Key(c)][c] # NoSum => Saved(c) = hash[Key(c)][c]
        BY <3>1, <3>4, <4>1 DEF SavedInv, BeingSaved, Saving, Saved, Key
      <4>3. PrevExists(c) => machine'[c] = Saved(c)
        BY <1>0, <2>3, <3>4, RollBackEffect, ReinstallEnds DEF Handles
      <4>4. QED
        BY <2>1, <3>3, <4>2, <4>3 DEF IsAsRecorded, PrevExists
    <3>5. QED
      BY <3>1, <3>2, <3>3, <3>4 DEF RolledBack
  <2>4. ASSUME RollBackDone PROVE RolledBack'
    <3>1. CASE stuck # {}
      BY <1>1, <2>4, <3>1 DEF RollBackDone
    <3>2. CASE stuck = {}
      BY <2>1, <2>4, <3>2 DEF RollBackDone, RolledBack, IsAsRecorded, Trusted, Key, PastRecovery,
                              Installing
    <3>3. QED
      BY <3>1, <3>2
  <2>5. ASSUME NEW c \in Comps, RestoreArchive(c) PROVE RolledBack'
    <3>1. CASE pc = "restore"
      BY <1>1, <2>5, <3>1 DEF RestoreArchive
    <3>2. CASE pc = "restoreBack"
      <4>1. c \in Tars /\ pc' = pc /\ UNCHANGED <<m, updatedList>> /\ updatedList \subseteq Comps
        BY <1>0, <2>5, <3>2 DEF RestoreArchive, RunInv, LoopsAreComplete, Archives, TypeOK
      <4>2. \A e \in Comps : e # c => machine'[e] = machine[e]
        BY <1>0, <2>5 DEF RestoreArchive, TypeOK
      <4>3. QED
        BY <2>1, <3>2, <4>1, <4>2 DEF RolledBack, IsAsRecorded, Trusted, Key
    <3>3. QED
      BY <2>5, <3>1, <3>2 DEF RestoreArchive
  <2>6. CASE \/ InstallSucceeded \/ SavePrevDone \/ RestoreDone
             \/ \E c \in Comps : \/ InstallComponent(c) \/ PurgeComponent(c)
                                 \/ SavePrevComponent(c) \/ SavePrevFails(c)
    <3>1. pc' \notin {"rollback", "restoreBack"}
      BY <2>6 DEF InstallSucceeded, SavePrevDone, RestoreDone, InstallComponent,
         PurgeComponent, SavePrevComponent, SavePrevFails
    <3>2. QED
      BY <1>1, <3>1
  <2>8. ASSUME NEW c \in Comps, InstallerPanics(c) PROVE RolledBack'
    BY <1>1, <2>8 DEF InstallerPanics
  <2>7. QED
    BY <1>3, <2>2, <2>3, <2>4, <2>5, <2>6, <2>8 DEF Install, InstallStep
<1>4. Crash \/ RestartAfterPanic => RolledBack'
  BY <1>1, RestartFrame
<1>5. Outside => RolledBack'
  BY OutsideFrame DEF RolledBack, IsAsRecorded, Trusted, Key, installVars
<1>6. QED
  BY <1>2, <1>3, <1>4, <1>5 DEF Next

\* RolledBack is inductive with the invariants before it.
LEMMA RolledBackInductive ==
  ASSUME "backup" \notin Faults, KillsAreMarked
  PROVE  Spec => [](IInv /\ RolledBack)
<1>1. Init => RolledBack
  BY DEF Init, RolledBack
<1>2. RolledBack /\ UNCHANGED vars => RolledBack'
  BY DEF RolledBack, IsAsRecorded, Trusted, Key, vars, installVars, otaVars, diskVars
<1>3. IInv /\ RunInv /\ SavedInv /\ RolledBack /\ [Next]_vars => RolledBack'
  BY <1>2, RolledBackStep
<1>4. QED
  BY <1>1, <1>3, SavedInvInductive, PTL DEF Spec

\* Whatever was killed before, a rollback that worked leaves every component of the
\* server's own entry as that entry has it, if the agent works for one side only and
\* the mark could be written.
THEOREM RolledBackToEntry ==
  ASSUME "backup" \notin Faults, KillsAreMarked
  PROVE  Spec => [](pc = "restoreBack" =>
                      \A c \in updatedList \ (Tars \cup Meta) : IsAsRecorded(c))
<1>1. ASSUME IInv, RolledBack, pc = "restoreBack", NEW c \in updatedList \ (Tars \cup Meta)
      PROVE  IsAsRecorded(c)
  <2>1. m \in ManifestType
    BY <1>1 DEF IInv, TypeOK, Working
  <2>2. Key(c) # MetaKey
    BY <1>1, <2>1, KeysAssumption DEF Key, WhichServer, FullServerName, ManifestType
  <2>3. QED
    BY <1>1, <2>2 DEF RolledBack, Trusted, PastRecovery, Installing
<1>2. IInv /\ RolledBack =>
        (pc = "restoreBack" => \A c \in updatedList \ (Tars \cup Meta) : IsAsRecorded(c))
  BY <1>1
<1>3. QED
  BY <1>2, RolledBackInductive, PTL

\* The whole of it: the entry of meta_server, which no reset forgets, counts only when
\* no install is ever killed.
THEOREM RolledBackIsRecordedHolds ==
  ASSUME "backup" \notin Faults, KillsAreMarked, Unkilled \/ Meta = {}
  PROVE  Spec => []RolledBackIsRecorded
<1>1. ASSUME IInv, RolledBack PROVE RolledBackIsRecorded
  <2>1. SUFFICES ASSUME pc = "restoreBack", NEW c \in updatedList \ Tars
                 PROVE  IsAsRecorded(c)
    BY DEF RolledBackIsRecorded, IsAsRecorded, Key
  <2>2. m \in ManifestType
    BY <1>1, <2>1 DEF IInv, TypeOK, Working
  <2>3. Unkilled \/ Key(c) # MetaKey
    BY <2>2, KeysAssumption DEF Key, WhichServer, FullServerName, ManifestType
  <2>4. QED
    BY <1>1, <2>1, <2>3 DEF RolledBack, Trusted, PastRecovery, Installing
<1>2. QED
  BY <1>1, RolledBackInductive, PTL

-----------------------------------------------------------------------------
(* What is recorded is installed *)

\* There is one server.
OneServer == \A s, t \in Servers : s = t

\* The timer or ordinary requests, for the one server; an installer that fails leaves
\* what it found, a saved installer works again, saving one works, the licence can be
\* read twice, the mark can be written and removed.  The process may be killed at any
\* step, inside a write too.
PlainRuns ==
  /\ OneServer /\ Requests \subseteq {"UpdateVersion"}
  /\ Faults \cap {"dirty", "rollback", "backup", "license", "file"} = {}

\* The mark is as run_once means it.
LEMMA MarkIsWritten ==
  ASSUME "file" \notin Faults
  PROVE  /\ ~Unmarked
         /\ EndMark => marker' = NoServer
         /\ MarkIncomplete => marker' = m.server
<1>1. Settings = {TRUE}
  BY DEF Settings
<1>2. EndMark => marker' = NoServer
  BY <1>1 DEF EndMark
<1>3. MarkIncomplete => marker' = m.server
  BY <1>1 DEF MarkIncomplete, MarkedServer
<1>4. QED
  BY <1>2, <1>3 DEF Unmarked

\* c is as the run found it, or was put back.
Untouched(c) ==
  c \in updatedList =>
    /\ pc \notin {"install", "savePrev", "restore", "finish"}
    /\ pc = "rollback" => c \notin todo

\* The entry of the server can be relied on.
EntryHolds == marker = NoServer \/ pc \in PastRecovery

\* What the entry has, and the run under way has not handled, is on the machine.
InstalledInv ==
  EntryHolds =>
    \A s \in Servers, c \in Comps \ Meta :
      LET k == FullServerName(s, IsOperator)
      IN  Untouched(c) /\ hash[k][c] # NoSum => machine[c] = hash[k][c]

\* The runs there are: never for another server, nor forced.
PlainInv ==
  /\ pc \in Working => m.server \in Servers
  /\ pc # "forcePurge"
  /\ \A op \in BOOLEAN, c \in Comps : hash[FullServerName(Unnamed, op)][c] = NoSum

\* Saving the manifest of one server records nothing for another.
LEMMA WriteOneServer ==
  ASSUME NEW h \in HashManifest, NEW mf \in ManifestType, NEW op \in BOOLEAN, NEW c \in Comps,
         mf.server # Unnamed, h[FullServerName(Unnamed, op)][c] = NoSum
  PROVE  WriteToFile(h, mf)[FullServerName(Unnamed, op)][c] = NoSum
<1> DEFINE k == FullServerName(Unnamed, op)
<1>1. k \in Names \X BOOLEAN /\ k \in Keys
  BY DEF FullServerName, Keys, Names
<1>2. k # MetaKey /\ k # FullServerName(mf.server, mf.operator)
  BY <1>1, KeysAssumption DEF FullServerName
<1>3. WriteToFile(h, mf)[k][c] \in {NoSum, h[k][c]}
  BY <1>1, <1>2 DEF WriteToFile, WhichServer
<1>4. QED
  BY <1>3

\* A plain run stays one.
LEMMA PlainStep ==
  ASSUME PlainRuns
  PROVE  TypeOK /\ PlainInv /\ Next => PlainInv'
<1> SUFFICES ASSUME TypeOK, PlainInv PROVE Next => PlainInv'
  OBVIOUS
<1>0. /\ hash \in HashManifest
      /\ pc \in Working => m \in ManifestType
      /\ Unnamed \notin Servers /\ ServerNames = {auth} /\ auth \in Servers
  BY ManifestAssumption DEF TypeOK, PlainRuns, ServerNames
<1> DEFINE NoUnnamed == \A op \in BOOLEAN, c \in Comps :
                          hash'[FullServerName(Unnamed, op)][c] = NoSum
<1>1. hash' = hash \/ hash' = EmptyHash => NoUnnamed
  <2>1. ASSUME NEW op \in BOOLEAN, NEW c \in Comps
        PROVE  EmptyHash[FullServerName(Unnamed, op)][c] = NoSum
    BY DEF EmptyHash, FullServerName, Keys, Names
  <2>2. QED
    BY <2>1 DEF PlainInv
<1>2. ASSUME pc \in Working, hash' = WriteToFile(hash, m) PROVE NoUnnamed
  BY <1>0, <1>2, WriteOneServer DEF PlainInv
<1>3. ASSUME NoUnnamed, pc' \notin Working PROVE PlainInv'
  BY <1>3 DEF PlainInv, Working
<1>4. ASSUME NoUnnamed, pc \in Working, m'.server = m.server, pc' # "forcePurge" PROVE PlainInv'
  BY <1>4 DEF PlainInv
<1> HIDE DEF NoUnnamed
<1> USE DEF packages, loop, reported, otaVars, diskVars, outsideVars
<1>5. RunLoop => PlainInv'
  <2>1. ~ReceiveUpdateVersionForce
    BY DEF PlainRuns, ReceiveUpdateVersionForce, Receive, TypeOK
  <2>2. QED
    BY <1>1, <1>3, <2>1 DEF RunLoop, TimerExpires, ReceiveUpdateVersion, ReceiveUpdateBothSides,
                            Receive, Working
<1>6. Check => PlainInv'
  <2>1. ASSUME ReadManifest PROVE PlainInv'
    <3>1. m'.server = auth
      BY <1>0, <2>1 DEF ReadManifest, NewManifest
    <3>2. QED
      BY <1>0, <1>1, <2>1, <3>1 DEF ReadManifest, PlainInv, NoUnnamed
  <2>2. QED
    BY <1>1, <1>3, <2>1 DEF Check, FetchLicense, FetchLicenseFails, CoreHasConnectedSession,
                            Retry, Leave, Working
<1>7. Recover => PlainInv'
  <2>1. ASSUME FullReset PROVE PlainInv'
    <3>1. m'.server = auth
      BY <1>0, <2>1 DEF FullReset, NewManifest
    <3>2. QED
      BY <1>0, <1>1, <2>1, <3>1 DEF FullReset, PlainInv, NoUnnamed
  <2>2. PartialReset => PlainInv'
    BY <1>0, <1>1, <1>4 DEF PartialReset, PrepareForServerPurge, ManifestType, Working
  <2>3. SavePurgedHash => PlainInv'
    BY <1>2, <1>3, <1>4 DEF SavePurgedHash, Retry, Leave, Working
  <2>4. QED
    BY <1>1, <1>3, <1>4, <2>1, <2>2, <2>3
       DEF Recover, NoIncompleteInstall, FullResetFails, Retry, Leave, Working
<1>8. Download => PlainInv'
  <2>1. ASSUME PostChecksums PROVE PlainInv'
    <3>1. m'.server = m.server /\ pc \in Working
      BY <1>0, <2>1 DEF PostChecksums, UpdateWithJson, ManifestType, Working
    <3>2. QED
      BY <1>1, <1>4, <2>1, <3>1 DEF PostChecksums
  <2>2. DownloadComponents => PlainInv'
    BY <1>0, <1>1, <1>4 DEF DownloadComponents, UpdateComponentsPaths, ManifestType, Working
  <2>3. QED
    BY <1>1, <1>3, <2>1, <2>2 DEF Download, DownloadHangs, DownloadManagerFails, Continue, Leave, Working
<1>9. Agent => PlainInv'
  <2>1. AgentInstalled => PlainInv'
    BY <1>1, <1>3 DEF AgentInstalled, Restart, Leave, Working
  <2>2. QED
    BY <1>1, <1>2, <1>4, <2>1 DEF Agent, ReportAgentPending, SetFutureVersion, SaveAgentHash,
                                  AgentInstallFails, Working
<1>10. Install => PlainInv'
  <2>1. ASSUME Install PROVE UNCHANGED hash /\ pc \in Working /\ m'.server = m.server
                             /\ pc' # "forcePurge"
    BY <2>1, InstallFrame DEF Installing, Working, PlainInv
  <2>2. QED
    BY <1>1, <1>4, <2>1
<1>11. Finish => PlainInv'
  <2>1. SaveHash => PlainInv'
    BY <1>2, <1>4 DEF SaveHash, Working
  <2>2. QED
    BY <1>1, <1>3, <1>4, <2>1 DEF Finish, SkipInstall, MarkIncomplete, ReportError, ClearMarker,
       AdvanceStage, Continue, Retry, Leave, Working
<1>12. Crash \/ RestartAfterPanic => PlainInv'
  <2>1. ASSUME Crash \/ RestartAfterPanic PROVE hash' = hash \/ hash' = EmptyHash
    BY <2>1 DEF Crash, TornWrite, RestartAfterPanic
  <2>2. QED
    BY <1>1, <1>3, <2>1, RestartFrame DEF Working
<1>13. Outside => PlainInv'
  BY OutsideFrame DEF PlainInv, installVars
<1>14. QED
  BY <1>5, <1>6, <1>7, <1>8, <1>9, <1>10, <1>11, <1>12, <1>13 DEF Next

\* The entry of the server follows the machine through every step of a plain run.
LEMMA InstalledStep ==
  ASSUME PlainRuns
  PROVE  IInv /\ RunInv /\ OneSideOnly /\ SavedInv /\ HandledIsReal /\ PlainInv
           /\ InstalledInv /\ Next
             => InstalledInv'
<1> SUFFICES ASSUME IInv, RunInv, OneSideOnly, SavedInv, HandledIsReal, PlainInv, InstalledInv
             PROVE  Next => InstalledInv'
  OBVIOUS
<1> DEFINE Entry(s) == FullServerName(s, IsOperator)
           OnlyForgets == \A s \in Servers, c \in Comps :
                            hash'[Entry(s)][c] \in {NoSum, hash[Entry(s)][c]}
<1>0. /\ TypeOK /\ machine \in [Comps -> Sum] /\ updatedList \subseteq Comps
      /\ hash \in HashManifest
      /\ pc \in Working => m \in ManifestType /\ m.server \in Servers /\ m.operator = IsOperator
  BY DEF IInv, TypeOK, PlainInv, OneSideOnly
<1>1. ASSUME NEW s \in Servers PROVE Entry(s) \in Keys /\ Entry(s) # MetaKey
  BY <1>1, OTAAssumption, KeysAssumption DEF FullServerName, Keys, Names
<1>2. ASSUME pc \in Working, NEW s \in Servers, NEW c \in Comps \ Meta PROVE Key(c) = Entry(s)
  BY <1>0, <1>2 DEF Key, WhichServer, PlainRuns, OneServer
<1>3. ASSUME OnlyForgets, UNCHANGED machine, EntryHolds' => EntryHolds,
             \A c \in Comps : Untouched(c)' => Untouched(c)
      PROVE  InstalledInv'
  BY <1>3 DEF InstalledInv
<1>4. UNCHANGED hash \/ hash' = EmptyHash => OnlyForgets
  BY <1>1 DEF EmptyHash
<1>5. ASSUME pc \in Working, updatedList = {}, hash' = WriteToFile(hash, m) PROVE OnlyForgets
  BY <1>0, <1>1, <1>5, WriteKeeps DEF RunInv
<1>7. ASSUME EntryHolds, pc \in Working, NEW s \in Servers, NEW c \in Comps \ Meta,
             pc \in Saving => c \notin updatedList, hash[Entry(s)][c] # NoSum
      PROVE  Saved(c) = hash[Entry(s)][c]
  BY <1>1, <1>2, <1>7 DEF SavedInv, Trusted, EntryHolds, BeingSaved, Saved, Key
<1>6. ~Unmarked
  BY MarkIsWritten DEF PlainRuns
<1>8. pc \in Installing => marker # NoServer
  BY <1>0, <1>6, OTAAssumption DEF IInv, MarkedWhileWorking, Installing, Working, Names
<1> HIDE DEF Entry, OnlyForgets
<1> USE DEF packages, loop, reported, otaVars, diskVars, outsideVars
<1>9. RunLoop \/ Check => InstalledInv'
  <2>1. ASSUME RunLoop \/ Check
        PROVE  /\ UNCHANGED <<machine, hash, marker>> /\ pc' \notin PastRecovery
               /\ pc \notin Listing
    BY <2>1 DEF RunLoop, TimerExpires, Receive, ReceiveUpdateVersion, ReceiveUpdateBothSides,
       ReceiveUpdateVersionForce, Check, FetchLicense, FetchLicenseFails, ReadManifest,
       CoreHasConnectedSession, Retry, Leave, PastRecovery, Installing, Listing
  <2>2. ASSUME RunLoop \/ Check PROVE \A c \in Comps : Untouched(c)
    BY <2>1, <2>2 DEF RunInv, ListIsLocal, Untouched
  <2>3. QED
    BY <1>3, <1>4, <2>1, <2>2 DEF EntryHolds
<1>10. Recover => InstalledInv'
  <2>1. ASSUME Recover PROVE UNCHANGED <<machine, marker>> /\ \A c \in Comps : Untouched(c)
    BY <2>1 DEF Recover, NoIncompleteInstall, FullReset, FullResetFails, PartialReset,
       SavePurgedHash, RunInv, ListIsLocal, Listing, Untouched
  <2>2. NoIncompleteInstall \/ FullResetFails \/ PartialReset => InstalledInv'
    BY <1>3, <1>4, <2>1 DEF Recover, NoIncompleteInstall, FullResetFails, PartialReset, Retry,
       Leave, EntryHolds, PastRecovery, Installing
  <2>3. ASSUME FullReset PROVE InstalledInv'
    <3>1. hash' = EmptyHash
      BY <2>3 DEF FullReset
    <3>2. QED
      BY <1>1, <3>1 DEF InstalledInv, EmptyHash, Entry
  <2>4. ASSUME SavePurgedHash PROVE InstalledInv'
    <3>1. /\ pc = "purge" /\ pc \in Working /\ hash' = WriteToFile(hash, m) /\ marker = m.server
      BY <2>4 DEF SavePurgedHash, PlainInv, Working, IInv, MarkedWhileWorking
    <3>2. ASSUME NEW s \in Servers, NEW c \in Comps \ Meta PROVE hash'[Entry(s)][c] = NoSum
      BY <1>0, <1>2, <3>1, WritePurged DEF IInv, PurgeForgets, Key, WhichServer
    <3>3. QED
      BY <3>2 DEF InstalledInv, Entry
  <2>5. QED
    BY <2>2, <2>3, <2>4 DEF Recover
<1>11. Download => InstalledInv'
  <2>1. ASSUME Download
        PROVE  /\ UNCHANGED <<machine, hash, marker>> /\ pc \in PastRecovery
               /\ \A c \in Comps : Untouched(c)
    BY <2>1 DEF Download, PostChecksums, DownloadComponents, DownloadHangs, DownloadManagerFails, RunInv,
       ListIsLocal, Listing, Untouched, PastRecovery
  <2>2. QED
    BY <1>3, <1>4, <2>1 DEF EntryHolds
<1>12. Agent => InstalledInv'
  <2>1. ASSUME Agent
        PROVE  /\ UNCHANGED machine /\ pc \in PastRecovery /\ pc \in Working /\ updatedList = {}
               /\ \A c \in Comps : Untouched(c)
               /\ UNCHANGED hash \/ hash' = WriteToFile(hash, m)
    BY <2>1 DEF Agent, ReportAgentPending, SetFutureVersion, SaveAgentHash, AgentInstalled,
       AgentInstallFails, RunInv, ListIsLocal, Listing, Untouched, PastRecovery, Installing,
       Working
  <2>2. QED
    BY <1>3, <1>4, <1>5, <2>1 DEF EntryHolds
<1>13. ASSUME Install PROVE InstalledInv'
  <2>1. UNCHANGED <<hash, marker>>
    BY <1>0, <1>13, InstallFrame
  <2>2. ASSUME NEW c \in Comps, InstallComponent(c) PROVE InstalledInv'
    <3>1. PICK r \in InstallOrUninstall(c) :
            /\ r \in OutcomeType
            /\ Handles(c, [m.comp[c] EXCEPT !.updated = r.ok, !.sum = HandledSum(c, r.ok)], r.now)
            /\ updatedList' = IF r.ok THEN updatedList \cup {c} ELSE updatedList
      BY <1>0, <2>2, InstallComponentEffect
    <3>2. /\ pc = "install" /\ pc' = pc /\ m \in ManifestType
          /\ c \in ToHandle(m) /\ c \notin updatedList
      BY <1>0, <2>2 DEF InstallComponent, NextInOrder, Working, RunInv, LoopsAreComplete
    <3>3. ASSUME NEW e \in Comps, Untouched(e)'
          PROVE  Untouched(e) /\ machine'[e] = machine[e]
      <4>1. e \notin updatedList'
        BY <3>2, <3>3 DEF Untouched
      <4>2. e \notin updatedList /\ (e = c => ~r.ok)
        BY <3>1, <4>1
      <4>3. machine'[e] = machine[e]
        BY <1>0, <3>1, <3>2, <4>2, HandledEnds DEF Handles, PlainRuns
      <4>4. QED
        BY <4>2, <4>3 DEF Untouched
    <3>4. EntryHolds
      BY <3>2 DEF EntryHolds, PastRecovery, Installing
    <3>5. QED
      BY <2>1, <3>3, <3>4 DEF InstalledInv
  <2>3. ASSUME NEW c \in Comps, RollBackComponent(c) PROVE InstalledInv'
    <3>1. /\ pc = "rollback" /\ pc' = pc /\ UNCHANGED <<prev, updatedList>>
          /\ c \in todo /\ todo' = todo \ {c} /\ pc \in Working
      BY <2>3 DEF RollBackComponent, NextInOrder, Working
    <3>2. \A e \in Comps : e # c => machine'[e] = machine[e]
      BY <1>0, <2>3, RollBackEffect DEF Handles
    <3>3. PrevExists(c) => machine'[c] = Saved(c)
      BY <1>0, <2>3, RollBackEffect, ReinstallEnds DEF Handles, PlainRuns
    <3>4. EntryHolds
      BY <3>1 DEF EntryHolds, PastRecovery, Installing
    <3>5. ASSUME NEW s \in Servers, NEW e \in Comps \ Meta, Untouched(e)', hash[Entry(s)][e] # NoSum
          PROVE  machine'[e] = hash[Entry(s)][e]
      <4>1. CASE e = c
        <5>1. Saved(c) = hash[Entry(s)][c]
          BY <1>7, <3>1, <3>4, <3>5, <4>1 DEF Saving
        <5>2. QED
          BY <3>3, <3>5, <4>1, <5>1 DEF PrevExists
      <4>2. CASE e # c
        <5>1. Untouched(e)
          BY <3>1, <3>5, <4>2 DEF Untouched
        <5>2. QED
          BY <3>2, <3>4, <3>5, <4>2, <5>1 DEF InstalledInv, Entry
      <4>3. QED
        BY <4>1, <4>2
    <3>6. QED
      BY <2>1, <3>5 DEF InstalledInv, Entry
  <2>4. ASSUME NEW c \in Comps, RestoreArchive(c) PROVE InstalledInv'
    <3>1. /\ pc \in {"restore", "restoreBack"} /\ pc' = pc /\ UNCHANGED <<updatedList, prev, m>>
          /\ pc \in Working
      BY <2>4 DEF RestoreArchive, Working
    <3>2. machine' = [machine EXCEPT ![c] = Saved(c)]
      BY <2>4, ReinstallEnds DEF RestoreArchive, PlainRuns
    <3>3. EntryHolds
      BY <3>1 DEF EntryHolds, PastRecovery, Installing
    <3>4. ASSUME NEW s \in Servers, NEW e \in Comps \ Meta, Untouched(e)', hash[Entry(s)][e] # NoSum
          PROVE  machine'[e] = hash[Entry(s)][e]
      <4>1. Untouched(e) /\ (pc \in Saving => e \notin updatedList)
        BY <3>1, <3>4 DEF Untouched, Saving
      <4>2. CASE e = c
        BY <1>0, <1>7, <3>1, <3>2, <3>3, <3>4, <4>1, <4>2
      <4>3. CASE e # c
        BY <1>0, <3>2, <3>3, <3>4, <4>1, <4>3 DEF InstalledInv, Entry
      <4>4. QED
        BY <4>2, <4>3
    <3>5. QED
      BY <2>1, <3>4 DEF InstalledInv, Entry
  <2>5. CASE \/ InstallSucceeded \/ InstallFailed \/ SavePrevDone \/ RollBackDone \/ RestoreDone
             \/ \E c \in Comps : SavePrevComponent(c)
    <3>1. UNCHANGED <<machine, updatedList>> /\ pc \in PastRecovery
      BY <2>5 DEF InstallSucceeded, InstallFailed, SavePrevDone, RollBackDone, RestoreDone,
                  SavePrevComponent, PastRecovery, Installing
    <3>2. ASSUME NEW c \in Comps, Untouched(c)' PROVE Untouched(c)
      BY <2>5, <3>2 DEF InstallSucceeded, InstallFailed, SavePrevDone, RollBackDone, RestoreDone,
                  SavePrevComponent, Untouched
    <3>3. QED
      BY <1>3, <1>4, <2>1, <3>1, <3>2 DEF EntryHolds
  <2>6. ASSUME NEW c \in Comps, InstallerPanics(c) PROVE InstalledInv'
    <3>1. pc' = "dead"
      BY <2>6 DEF InstallerPanics
    <3>2. pc \in Installing \/ pc = "purge"
      BY <1>0, <1>13, InstallFrame DEF PlainInv
    <3>3. pc = "purge" => marker # NoServer
      BY <1>0, OTAAssumption DEF IInv, MarkedWhileWorking, Working, Names
    <3>4. QED
      BY <1>8, <2>1, <3>1, <3>2, <3>3 DEF InstalledInv, EntryHolds, PastRecovery, Installing
  <2>7. ASSUME NEW c \in Comps, PurgeComponent(c) PROVE InstalledInv'
    <3>1. pc = "purge" /\ pc' = pc /\ marker = m.server /\ m.server \in Servers
      BY <1>0, <2>7 DEF PurgeComponent, PlainInv, IInv, MarkedWhileWorking, Working
    <3>2. QED
      BY <2>1, <3>1, OTAAssumption DEF InstalledInv, EntryHolds, PastRecovery, Installing, Names
  <2>8. ASSUME NEW c \in Comps PROVE ~SavePrevFails(c)
    BY DEF SavePrevFails, PlainRuns
  <2>9. QED
    BY <1>13, <2>2, <2>3, <2>4, <2>5, <2>6, <2>7, <2>8 DEF Install, InstallStep
<1>14. ASSUME Finish PROVE InstalledInv'
  <2>1. ASSUME SaveHash PROVE InstalledInv'
    <3>1. /\ pc = "finish" /\ pc' = "saved" /\ hash' = WriteToFile(hash, m) /\ pc \in Working
          /\ UNCHANGED <<m, machine, updatedList>> /\ m \in ManifestType /\ EntryHolds
      BY <1>0, <2>1 DEF SaveHash, Working, EntryHolds, PastRecovery
    <3>2. ASSUME NEW s \in Servers, NEW c \in Comps \ Meta, hash'[Entry(s)][c] # NoSum
          PROVE  machine[c] = hash'[Entry(s)][c]
      <4>1. Key(c) = Entry(s) /\ Key(c) = FullServerName(m.server, m.operator) /\ Key(c) \in Keys
        BY <1>1, <1>2, <3>1 DEF Key, WhichServer
      <4>2. c \in Recorded(m) /\ hash'[Entry(s)][c] = m.comp[c].sum
        BY <3>1, <3>2, <4>1 DEF WriteToFile, Key
      <4>3. CASE c \in updatedList
        <5>1. m.comp[c].path
          BY <3>1, <3>2, <4>2, <4>3 DEF RunInv, LoopsAreComplete
        <5>2. QED
          BY <3>1, <4>2, <4>3, <5>1 DEF HandledIsReal, Handling
      <4>4. CASE c \notin updatedList
        <5>1. m.comp[c].sum = hash[Entry(s)][c]
          BY <3>1, <4>1, <4>2, <4>4 DEF RunInv, PlanIsRecorded, Recorded
        <5>2. QED
          BY <3>1, <3>2, <4>2, <4>4, <5>1 DEF InstalledInv, Untouched, Entry
      <4>5. QED
        BY <4>3, <4>4
    <3>3. QED
      BY <3>1, <3>2 DEF InstalledInv, Entry
  <2>2. ASSUME SkipInstall \/ MarkIncomplete \/ ReportError \/ ClearMarker \/ AdvanceStage
        PROVE  InstalledInv'
    <3>1. UNCHANGED <<machine, hash>> /\ pc \in PastRecovery
      BY <2>2 DEF SkipInstall, MarkIncomplete, ReportError, ClearMarker, AdvanceStage,
                  PastRecovery, Installing
    <3>2. \A c \in Comps : Untouched(c)
      BY <2>2 DEF SkipInstall, MarkIncomplete, ReportError, ClearMarker, AdvanceStage,
                  Untouched, RunInv, ListIsLocal, Listing
    <3>3. QED
      BY <1>3, <1>4, <3>1, <3>2 DEF EntryHolds
  <2>3. QED
    BY <1>14, <2>1, <2>2 DEF Finish
<1>15. ASSUME Crash \/ RestartAfterPanic PROVE InstalledInv'
  <2>1. /\ UNCHANGED machine /\ pc' = "start" /\ (UNCHANGED hash \/ hash' = EmptyHash)
        /\ UNCHANGED marker \/ marker' = Unnamed
    BY <1>15, RestartFrame DEF Crash, TornWrite, RestartAfterPanic
  <2>2. SUFFICES ASSUME EntryHolds' PROVE InstalledInv'
    BY DEF InstalledInv
  <2>3. marker = NoServer
    BY <2>1, <2>2, OTAAssumption DEF EntryHolds, PastRecovery, Installing, Names
  <2>4. ASSUME NEW c \in Comps PROVE Untouched(c)
    <3>1. pc \notin Installing
      BY <1>8, <2>3
    <3>2. pc = "finish" => updatedList = {}
      BY <1>0, <1>6, <2>3, OTAAssumption DEF RunInv, LoopsAreComplete, Working, Names
    <3>3. QED
      BY <3>1, <3>2 DEF Untouched, Installing
  <2>5. QED
    BY <1>3, <1>4, <2>1, <2>3, <2>4 DEF EntryHolds
<1>16. Outside => InstalledInv'
  BY OutsideFrame DEF InstalledInv, EntryHolds, Untouched, installVars
<1>17. QED
  BY <1>9, <1>10, <1>11, <1>12, <1>13, <1>14, <1>15, <1>16 DEF Next

\* The entry, and what a plain run knows of it, in every state.
LEMMA InstalledInductive ==
  ASSUME PlainRuns
  PROVE  Spec => [](IInv /\ RunInv /\ OneSideOnly /\ PlainInv /\ InstalledInv)
<1>0. /\ NeverBothSides /\ "backup" \notin Faults /\ RestoresAreSafe /\ KillsAreMarked
  BY DEF PlainRuns, NeverBothSides, RestoresAreSafe, KillsAreMarked
<1>1. Init => PlainInv /\ InstalledInv
  <2>1. ASSUME NEW s \in Names, NEW op \in BOOLEAN, NEW c \in Comps
        PROVE  EmptyHash[FullServerName(s, op)][c] = NoSum
    BY DEF EmptyHash, FullServerName, Keys
  <2>2. Servers \subseteq Names /\ Unnamed \in Names /\ IsOperator \in BOOLEAN
    BY OTAAssumption DEF Names
  <2>3. QED
    BY <2>1, <2>2 DEF Init, PlainInv, Working, InstalledInv
<1>2. PlainInv /\ UNCHANGED vars => PlainInv'
  BY DEF PlainInv, vars, installVars, otaVars, diskVars
<1>3. InstalledInv /\ UNCHANGED vars => InstalledInv'
  BY DEF InstalledInv, EntryHolds, Untouched, vars, installVars, otaVars, diskVars
<1>4. IInv /\ PlainInv /\ [Next]_vars => PlainInv'
  BY <1>2, PlainStep DEF IInv
<1>5. IInv /\ RunInv /\ (NeverBothSides => OneSideOnly) /\ SavedInv /\ HandledIsReal
        /\ PlainInv /\ InstalledInv /\ [Next]_vars
        => InstalledInv'
  BY <1>0, <1>3, InstalledStep
<1>6. (NeverBothSides => OneSideOnly) => OneSideOnly
  BY <1>0
<1>7. Spec => [](IInv /\ RunInv /\ (NeverBothSides => OneSideOnly) /\ SavedInv)
  BY <1>0, SavedInvInductive
<1>8. Spec => [](IInv /\ RunInv /\ HandledIsReal)
  BY <1>0, HandledInductive
<1>9. QED
  BY <1>1, <1>4, <1>5, <1>6, <1>7, <1>8, PTL DEF Spec

\* The agent never takes a component for up to date that is not there: with one server,
\* no forced update and none of both sides, whatever is killed and whatever fails to be
\* installed, downloaded or uninstalled, as long as a failed installer leaves what it
\* found, a saved one works again and the mark can be written.
THEOREM RecordedIsInstalledHolds ==
  ASSUME PlainRuns
  PROVE  Spec => []RecordedIsInstalled
<1>1. ASSUME IInv, RunInv, OneSideOnly, PlainInv, InstalledInv PROVE RecordedIsInstalled
  <2>1. SUFFICES ASSUME marker = NoServer, NEW s \in Names, NEW op \in BOOLEAN,
                        NEW c \in Hardcoded[op] \ Meta, hash[FullServerName(s, op)][c] # NoSum
                 PROVE  machine[c] = hash[FullServerName(s, op)][c]
    BY DEF RecordedIsInstalled
  <2>2. c \in Comps \ Meta
    BY ManifestAssumption
  <2>3. s \in Servers
    BY <1>1, <2>1, <2>2 DEF PlainInv, Names
  <2>4. op = IsOperator
    BY <1>1, <2>1, <2>2, OTAAssumption DEF OneSideOnly
  <2>5. Untouched(c)
    <3>1. pc \in Working => m.server \in Servers
      BY <1>1 DEF PlainInv
    <3>0. ~Unmarked
      BY MarkIsWritten DEF PlainRuns
    <3>2. pc \notin Installing
      BY <1>1, <2>1, <3>0, <3>1, OTAAssumption DEF IInv, MarkedWhileWorking, Installing,
                                                   Working, Names
    <3>3. pc = "finish" => updatedList = {}
      BY <1>1, <2>1, <3>0, <3>1, OTAAssumption DEF RunInv, LoopsAreComplete, Working, Names
    <3>4. QED
      BY <3>2, <3>3 DEF Untouched, Installing
  <2>6. QED
    BY <1>1, <2>1, <2>2, <2>3, <2>4, <2>5 DEF InstalledInv, EntryHolds
<1>2. QED
  BY <1>1, InstalledInductive, PTL

-----------------------------------------------------------------------------
(* The promise to the next process *)

promised == <<InstalledPackages, RecordedPackages, UpdatePhase>>
OwnKey == FullServerName(auth, IsOperator)

\* The agent's own entry, for the server of the credentials.
LEMMA OwnEntryType ==
  ASSUME TypeOK
  PROVE  /\ OwnKey \in Keys /\ OwnKey # MetaKey
         /\ RecordedPackages \in [Comps \ Meta -> Sum]
         /\ InstalledPackages \in [Comps \ Meta -> Sum]
<1>1. OwnKey \in Keys /\ OwnKey # MetaKey
  BY OTAAssumption, KeysAssumption DEF TypeOK, OwnKey, FullServerName, Keys, Names
<1>2. QED
  BY <1>1 DEF TypeOK, HashManifest, RecordedPackages, InstalledPackages, OwnKey

\* The initial states are those of the promise.
LEMMA InitUpdatePromise == Init => Promise!Init
<1> SUFFICES ASSUME Init PROVE Promise!Init
  OBVIOUS
<1>1. OwnKey \in Keys
  BY InitType, OwnEntryType
<1>2. QED
  BY <1>1 DEF Init, Promise!Init, InstalledPackages, RecordedPackages, UpdatePhase, EmptyHash,
              OwnKey

\* A step that changes no package and no phase, and records nothing.
LEMMA ForgetsPromised ==
  ASSUME TypeOK, TypeOK', UNCHANGED <<machine, auth>>, UpdatePhase' = UpdatePhase,
         \A c \in Comps \ Meta : hash'[OwnKey][c] \in {NoSum, hash[OwnKey][c]}
  PROVE  Promise!Next
<1>1. RecordedPackages' \in [Comps \ Meta -> Sum]
  <2>1. hash' \in HashManifest /\ OwnKey \in Keys /\ OwnKey' = OwnKey
    BY OwnEntryType DEF TypeOK, OwnKey
  <2>2. QED
    BY <2>1 DEF HashManifest, RecordedPackages, OwnKey
<1>2. UNCHANGED <<InstalledPackages, UpdatePhase>>
  BY DEF InstalledPackages
<1>3. \A c \in Comps \ Meta : RecordedPackages'[c] \in {NoSum, RecordedPackages[c]}
  BY DEF RecordedPackages, OwnKey
<1>4. QED
  BY <1>1, <1>2, <1>3 DEF Promise!Next, Promise!Forget

\* A step that changes one package under the mark.
LEMMA ChangePromised ==
  ASSUME TypeOK, TypeOK', UNCHANGED <<hash, auth>>, UpdatePhase = "open", UpdatePhase' = "open",
         NEW c \in Comps, \A e \in Comps : e # c => machine'[e] = machine[e]
  PROVE  [Promise!Next]_promised
<1>1. UNCHANGED <<RecordedPackages, UpdatePhase>>
  BY DEF RecordedPackages
<1>2. machine' \in [Comps -> Sum]
  BY DEF TypeOK
<1>3. CASE c \in Meta
  <2>1. UNCHANGED InstalledPackages
    BY <1>3 DEF InstalledPackages
  <2>2. QED
    BY <1>1, <2>1 DEF promised
<1>4. CASE c \notin Meta
  <2>1. InstalledPackages' = [InstalledPackages EXCEPT ![c] = machine'[c]]
    BY <1>4 DEF InstalledPackages
  <2>2. QED
    BY <1>1, <1>2, <1>4, <2>1 DEF Promise!Next, Promise!Change
<1>5. QED
  BY <1>3, <1>4

\* Where the entry can be relied on and the run has handled nothing, it agrees.
LEMMA EntryAgrees ==
  ASSUME TypeOK, InstalledInv, EntryHolds, \A c \in Comps : Untouched(c)
  PROVE  Promise!Agrees(RecordedPackages, InstalledPackages)
<1>1. auth \in Servers
  BY DEF TypeOK
<1>2. ASSUME NEW c \in Comps \ Meta, hash[OwnKey][c] # NoSum PROVE machine[c] = hash[OwnKey][c]
  BY <1>1, <1>2 DEF InstalledInv, OwnKey
<1>3. QED
  BY <1>2 DEF Promise!Agrees, RecordedPackages, InstalledPackages, OwnKey

\* Every step of a plain run is a step of the promise, or none.
LEMMA UpdatePromiseStep ==
  ASSUME PlainRuns
  PROVE  IInv /\ RunInv /\ OneSideOnly /\ PlainInv /\ InstalledInv
           /\ TypeOK' /\ InstalledInv' /\ [Next]_vars
             => [Promise!Next]_promised
<1> SUFFICES ASSUME IInv, RunInv, OneSideOnly, PlainInv, InstalledInv, TypeOK', InstalledInv',
                    [Next]_vars
             PROVE  [Promise!Next]_promised
  OBVIOUS
<1>0. /\ TypeOK /\ auth \in Servers
      /\ pc \in Working => m \in ManifestType /\ m.server \in Servers /\ m.operator = IsOperator
  BY DEF IInv, TypeOK, PlainInv, OneSideOnly
<1>1. \A s \in Names : s # NoServer
  BY OTAAssumption
<1>2. pc \in Working => FullServerName(m.server, m.operator) = OwnKey
  BY <1>0 DEF PlainRuns, OneServer, OwnKey
<1>19. /\ ~Unmarked
       /\ EndMark => marker' = NoServer
       /\ MarkIncomplete => marker' = m.server
  BY MarkIsWritten DEF PlainRuns
<1>3. pc \in Installing => marker # NoServer
  BY <1>0, <1>1, <1>19 DEF IInv, MarkedWhileWorking, Installing, Working, Names
<1>4. ASSUME UNCHANGED <<machine, hash, auth>>, UpdatePhase' = UpdatePhase
      PROVE  [Promise!Next]_promised
  BY <1>4 DEF promised, InstalledPackages, RecordedPackages
<1>5. ASSUME UNCHANGED <<machine, auth>>, UpdatePhase' = UpdatePhase,
             \/ UNCHANGED hash
             \/ hash' = EmptyHash
             \/ hash' = WriteToFile(hash, m) /\ pc \in Working /\ updatedList = {}
      PROVE  [Promise!Next]_promised
  <2>1. OwnKey \in Keys
    BY <1>0, OwnEntryType
  <2>2. ASSUME NEW c \in Comps \ Meta PROVE hash'[OwnKey][c] \in {NoSum, hash[OwnKey][c]}
    BY <1>0, <1>5, <2>1, WriteKeeps DEF RunInv, EmptyHash
  <2>3. QED
    BY <1>0, <1>5, <2>2, ForgetsPromised
<1>6. ASSUME UNCHANGED <<marker, auth>>, pc # "saved", pc' # "saved" PROVE UpdatePhase' = UpdatePhase
  BY <1>6 DEF UpdatePhase
<1> HIDE DEF promised
<1> USE DEF packages, loop, reported, otaVars, diskVars, outsideVars
<1>7. ASSUME RunLoop \/ Check \/ Download PROVE [Promise!Next]_promised
  <2>1. UNCHANGED <<machine, hash, marker, auth>> /\ pc # "saved" /\ pc' # "saved"
    BY <1>7 DEF RunLoop, TimerExpires, Receive, ReceiveUpdateVersion, ReceiveUpdateBothSides,
       ReceiveUpdateVersionForce, Check, FetchLicense, FetchLicenseFails, ReadManifest,
       CoreHasConnectedSession, Retry, Leave, Download, PostChecksums, DownloadComponents,
       DownloadHangs, DownloadManagerFails, Continue
  <2>2. QED
    BY <1>4, <1>6, <2>1
<1>8. ASSUME Recover PROVE [Promise!Next]_promised
  <2>1. /\ UNCHANGED <<machine, marker, auth>> /\ pc # "saved" /\ pc' # "saved"
        /\ \/ UNCHANGED hash
           \/ hash' = EmptyHash
           \/ hash' = WriteToFile(hash, m) /\ pc \in {"purge", "forcePurge"}
    BY <1>8 DEF Recover, NoIncompleteInstall, FullReset, FullResetFails, PartialReset,
       SavePurgedHash, Retry, Leave
  <2>2. pc \in {"purge", "forcePurge"} => pc \in Working /\ updatedList = {}
    BY DEF Working, RunInv, ListIsLocal, Listing
  <2>3. QED
    BY <1>5, <1>6, <2>1, <2>2
<1>9. ASSUME Agent PROVE [Promise!Next]_promised
  <2>1. /\ UNCHANGED <<machine, marker, auth>> /\ pc # "saved" /\ pc' # "saved"
        /\ UNCHANGED hash \/ hash' = WriteToFile(hash, m)
        /\ pc \in Working /\ pc \notin Listing
    BY <1>9 DEF Agent, ReportAgentPending, SetFutureVersion, SaveAgentHash, AgentInstalled,
       AgentInstallFails, Restart, Leave, Working, Listing
  <2>2. updatedList = {}
    BY <2>1 DEF RunInv, ListIsLocal
  <2>3. QED
    BY <1>5, <1>6, <2>1, <2>2
<1>10. ASSUME Install PROVE [Promise!Next]_promised
  <2>1. UNCHANGED <<hash, marker, auth>> /\ marker # NoServer /\ pc # "saved" /\ pc' # "saved"
    <3>1. pc \in Installing \/ pc = "purge"
      BY <1>0, <1>10, InstallFrame DEF PlainInv
    <3>2. pc = "purge" => marker # NoServer
      BY <1>0, <1>1 DEF IInv, MarkedWhileWorking, Working, Names
    <3>3. QED
      BY <1>0, <1>3, <1>10, <3>1, <3>2, InstallFrame DEF Installing
  <2>2. UpdatePhase = "open" /\ UpdatePhase' = "open"
    BY <2>1 DEF UpdatePhase
  <2>3. ASSUME NEW c \in Comps, \A e \in Comps : e # c => machine'[e] = machine[e]
        PROVE  [Promise!Next]_promised
    BY <1>0, <2>1, <2>2, <2>3, ChangePromised
  <2>4. ASSUME NEW c \in Comps, InstallComponent(c) \/ InstallerPanics(c) \/ RollBackComponent(c)
                                  \/ RestoreArchive(c) \/ PurgeComponent(c)
        PROVE  \A e \in Comps : e # c => machine'[e] = machine[e]
    <3>1. machine \in [Comps -> Sum]
      BY <1>0 DEF TypeOK
    <3>2. UNCHANGED machine \/ \E x : machine' = [machine EXCEPT ![c] = x]
      BY <2>4 DEF InstallComponent, InstallerPanics, RollBackComponent, RollBackToNothing,
                  RollBackToSaved, RestoreArchive, PurgeComponent
    <3>3. QED
      BY <3>1, <3>2
  <2>5. ASSUME \/ InstallSucceeded \/ InstallFailed \/ SavePrevDone \/ RollBackDone \/ RestoreDone
               \/ \E c \in Comps : SavePrevComponent(c) \/ SavePrevFails(c)
        PROVE  UNCHANGED machine
    BY <2>5 DEF InstallSucceeded, InstallFailed, SavePrevDone, RollBackDone, RestoreDone,
                SavePrevComponent, SavePrevFails
  <2>6. QED
    BY <1>4, <1>10, <2>1, <2>2, <2>3, <2>4, <2>5 DEF Install, InstallStep
<1>11. ASSUME SaveHash PROVE [Promise!Next]_promised
  <2>1. /\ pc = "finish" /\ pc' = "saved" /\ hash' = WriteToFile(hash, m) /\ pc \in Working
        /\ UNCHANGED <<machine, marker, auth>>
    BY <1>11 DEF SaveHash, Working
  <2>2. CASE marker = NoServer
    <3>1. updatedList = {}
      BY <1>0, <1>1, <1>19, <2>1, <2>2 DEF RunInv, LoopsAreComplete, Working, Names
    <3>2. UpdatePhase' = UpdatePhase
      BY <2>1, <2>2 DEF UpdatePhase
    <3>3. QED
      BY <1>5, <2>1, <3>1, <3>2
  <2>3. CASE marker # NoServer
    <3>1. UpdatePhase = "open" /\ UpdatePhase' = "recorded" /\ UNCHANGED InstalledPackages
      BY <2>1, <2>3 DEF UpdatePhase, InstalledPackages
    <3>2. RecordedPackages' \in [Comps \ Meta -> Sum]
      <4>1. OwnKey \in Keys /\ OwnKey' = OwnKey /\ hash' \in HashManifest
        BY <1>0, <2>1, OwnEntryType DEF OwnKey, TypeOK
      <4>2. QED
        BY <4>1 DEF HashManifest, RecordedPackages, OwnKey
    <3>3. Promise!Agrees(RecordedPackages', InstalledPackages')
      <4>1. EntryHolds' /\ \A c \in Comps : Untouched(c)'
        BY <2>1 DEF EntryHolds, PastRecovery, Untouched
      <4>2. ASSUME NEW c \in Comps \ Meta, hash'[OwnKey'][c] # NoSum
            PROVE  machine'[c] = hash'[OwnKey'][c]
        BY <1>0, <2>1, <4>1, <4>2 DEF InstalledInv, OwnKey
      <4>3. QED
        BY <4>2 DEF Promise!Agrees, RecordedPackages, InstalledPackages, OwnKey
    <3>4. QED
      BY <3>1, <3>2, <3>3 DEF Promise!Next, Promise!Record
  <2>4. QED
    BY <2>2, <2>3
<1>12. ASSUME ReportError \/ ClearMarker PROVE [Promise!Next]_promised
  <2>1. /\ pc \in {"error", "saved"} /\ marker' = NoServer
        /\ UNCHANGED <<machine, hash, auth>>
    BY <1>12, <1>19 DEF ReportError, ClearMarker
  <2>2. CASE marker = NoServer
    BY <1>4, <2>1, <2>2 DEF UpdatePhase
  <2>3. CASE marker # NoServer
    <3>1. UpdatePhase # "clean" /\ UpdatePhase' = "clean"
      BY <2>1, <2>3 DEF UpdatePhase
    <3>2. UNCHANGED <<InstalledPackages, RecordedPackages>>
      BY <2>1 DEF InstalledPackages, RecordedPackages
    <3>3. EntryHolds /\ \A c \in Comps : Untouched(c)
      BY <2>1 DEF EntryHolds, PastRecovery, Installing, Untouched
    <3>4. QED
      BY <1>0, <3>1, <3>2, <3>3, EntryAgrees DEF Promise!Next, Promise!Unmark
  <2>4. QED
    BY <2>2, <2>3
<1>13. ASSUME MarkIncomplete PROVE [Promise!Next]_promised
  <2>1. /\ pc = "decide" /\ pc' # "saved" /\ marker' = m.server /\ UNCHANGED <<machine, hash, auth>>
    BY <1>13, <1>19 DEF MarkIncomplete
  <2>2. m.server # NoServer
    BY <1>0, <1>1, <2>1 DEF Working, Names
  <2>3. UpdatePhase \in {"clean", "open"} /\ UpdatePhase' = "open"
    BY <2>1, <2>2 DEF UpdatePhase
  <2>4. UNCHANGED <<InstalledPackages, RecordedPackages>>
    BY <2>1 DEF InstalledPackages, RecordedPackages
  <2>5. CASE UpdatePhase = "clean"
    BY <2>3, <2>4, <2>5 DEF Promise!Next, Promise!Mark
  <2>6. QED
    BY <1>4, <2>1, <2>3, <2>5
<1>14. ASSUME SkipInstall \/ AdvanceStage PROVE [Promise!Next]_promised
  BY <1>4, <1>6, <1>14 DEF SkipInstall, AdvanceStage, Retry, Continue, Leave
<1>15. ASSUME Crash \/ RestartAfterPanic PROVE [Promise!Next]_promised
  <2>1. /\ pc' = "start" /\ UNCHANGED <<machine, auth>>
        /\ \/ UNCHANGED <<hash, marker>>
           \/ hash' = EmptyHash /\ UNCHANGED marker /\ pc # "saved"
           \/ marker' = Unnamed /\ UNCHANGED hash /\ pc = "decide"
    BY <1>15, RestartFrame DEF Crash, TornWrite, RestartAfterPanic, TornHash, TornMarker
  <2>2. CASE UNCHANGED <<hash, marker>> /\ UpdatePhase # "recorded"
    <3>1. UpdatePhase' = UpdatePhase
      BY <2>1, <2>2 DEF UpdatePhase
    <3>2. QED
      BY <1>4, <2>1, <2>2, <3>1
  <2>3. CASE UNCHANGED <<hash, marker>> /\ UpdatePhase = "recorded"
    <3>1. UpdatePhase' = "open"
      BY <2>1, <2>3 DEF UpdatePhase
    <3>2. UNCHANGED <<InstalledPackages, RecordedPackages>>
      BY <2>1, <2>3 DEF InstalledPackages, RecordedPackages
    <3>3. QED
      BY <2>3, <3>1, <3>2 DEF Promise!Next, Promise!Kill
  <2>4. CASE hash' = EmptyHash /\ UNCHANGED marker /\ pc # "saved"
    BY <1>5, <1>6, <2>1, <2>4
  <2>5. CASE marker' = Unnamed /\ UNCHANGED hash /\ pc = "decide"
    <3>1. UpdatePhase \in {"clean", "open"} /\ UpdatePhase' = "open"
      BY <1>1, <2>1, <2>5 DEF UpdatePhase, Names
    <3>2. UNCHANGED <<InstalledPackages, RecordedPackages>>
      BY <2>1, <2>5 DEF InstalledPackages, RecordedPackages
    <3>3. CASE UpdatePhase = "clean"
      BY <3>1, <3>2, <3>3 DEF Promise!Next, Promise!Mark
    <3>4. QED
      BY <1>4, <2>1, <2>5, <3>1, <3>3
  <2>6. QED
    BY <2>1, <2>2, <2>3, <2>4, <2>5
<1>16. ASSUME Outside PROVE [Promise!Next]_promised
  <2>1. UNCHANGED <<machine, hash, marker, pc>>
    BY <1>16, OutsideFrame DEF installVars
  <2>2. UNCHANGED auth
    BY <1>0, <1>16 DEF Outside, SendRequest, ChangeServer, Publish, PlainRuns, OneServer
  <2>3. QED
    BY <1>4, <2>1, <2>2 DEF UpdatePhase
<1>17. CASE UNCHANGED vars
  BY <1>4, <1>17 DEF vars, installVars, UpdatePhase
<1>18. QED
  BY <1>7, <1>8, <1>9, <1>10, <1>11, <1>12, <1>13, <1>14, <1>15, <1>16, <1>17 DEF Next, Finish

\* The OTA thread implements MarkedUpdate under PlainRuns: whoever finds no mark on the
\* disk can rely on the record, over failures, rollbacks, panics and kills inside a write;
\* and the record is written in one step, from a machine that is as it says, after which
\* nothing is changed until the mark is gone.
THEOREM UpdatePromiseKept ==
  ASSUME PlainRuns
  PROVE  Spec => KeepsUpdatePromise
<1>1. IInv => TypeOK
  BY DEF IInv
<1>2. IInv /\ RunInv /\ OneSideOnly /\ PlainInv /\ InstalledInv /\ TypeOK' /\ InstalledInv'
        /\ [Next]_vars => [Promise!Next]_promised
  BY UpdatePromiseStep
<1>3. QED
  BY <1>1, <1>2, InitUpdatePromise, InstalledInductive, PTL
    DEF Spec, KeepsUpdatePromise, Promise!Spec, promised, Promise!vars
=============================================================================
