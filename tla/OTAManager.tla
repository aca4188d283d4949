------------------------------ MODULE OTAManager ------------------------------
(***************************************************************************)
(* src/src/ota/ota_manager.rs: the OTA thread.  run waits for its hourly   *)
(* timer or a REST request and calls run_until_complete, which repeats     *)
(* run_once until it returns CONTINUE.  run_once checks the licence, reads *)
(* the manifest, undoes an interrupted install, asks the server what to    *)
(* install, downloads, installs and saves the hash file.                   *)
(*                                                                         *)
(* One action per step that leaves something behind (a file written, a     *)
(* package installed, a message consumed): the process can be killed       *)
(* between any two of them and finds its files, its packages and nothing   *)
(* else when it starts again.                                              *)
(***************************************************************************)
EXTENDS InstallManager, Sequences

CONSTANTS
  NoServer,       \* there is no incomplete_install file
  IsOperator,     \* get_arch() \in {WIN, AMD64}
  Requests,       \* the REST requests this instance's clients send
  MaxRequests,    \* how many they send in all
  ServerLists,    \* the answers a server may publish
  FirstVersion    \* the agent's version when it is first installed

ASSUME OTAAssumption ==
  /\ NoServer \notin Names
  /\ IsOperator \in BOOLEAN
  /\ Requests \subseteq {"UpdateVersion", "UpdateVersionForce", "UpdateBothSides"}
  /\ MaxRequests \in Nat
  /\ ServerLists \subseteq ServerList
  /\ FirstVersion \in Nat \ {0}

VARIABLES
  \* on disk
  hash,           \* the hash file
  agentHash,      \* its meta_server entry for phantom_agent, as a version; 0: none
  marker,         \* the incomplete_install file
  both,           \* the update_both_status file
  futureVersion,  \* the future version file; 0: missing or empty
  agentVersion,   \* the agent executable
  auth,           \* the server named by the auth file
  \* in memory
  override,       \* override_operator
  src,            \* the server of the licence run_once fetched first
  chan,           \* the channel from the REST thread
  \* outside
  answer,         \* answer[s]: what server s publishes now
  sent,           \* requests sent so far
  \* history
  marked          \* of the last install begun: its side, whether it ended, and
                  \* whether the mark could be written, or removed, the last time

diskVars == <<hash, agentHash, marker, both, futureVersion, agentVersion, auth>>
outsideVars == <<answer, sent>>
otaVars == <<diskVars, override, src, chan, outsideVars, marked>>
vars == <<installVars, otaVars>>

\* InstallManager's variables other than pc, and those of one run of run_once.
packages == <<machine, prev>>
loop == <<todo, updatedList, stuck>>
reported == <<status, nodeStatus>>

Override == {"None", "Operator", "Vehicle"}

-----------------------------------------------------------------------------
(* Initial state: a machine with nothing installed but the agent *)

Init ==
  /\ pc = "start" /\ m = NoManifest
  /\ machine = [c \in Comps |-> NoSum]
  /\ prev = EmptyHash
  /\ todo = {} /\ updatedList = {} /\ stuck = {}
  /\ status = "UPDATED" /\ nodeStatus = "Triggered"
  /\ hash = EmptyHash /\ agentHash = 0
  /\ marker = NoServer /\ both = "None"
  /\ futureVersion = 0 /\ agentVersion = FirstVersion
  /\ auth \in Servers /\ src = auth
  /\ override = "None"
  /\ chan = <<>>
  /\ answer \in [Servers -> ServerLists] /\ sent = 0
  /\ marked = [operator |-> IsOperator, ended |-> TRUE, done |-> TRUE]

\* Leaving run_once drops its locals.
Leave(next) ==
  /\ pc' = next
  /\ m' = NoManifest /\ todo' = {} /\ updatedList' = {} /\ stuck' = {}

Continue == Leave("idle")

\* As a bug: the retry resumes where it was, its manifest gone.
RetryInPlace == Leave("session")
Retry == Leave("start")

\* set_incomplete_install_status and set_update_both_status only log that their
\* file could not be written or removed.
Settings == IF "file" \in Faults THEN BOOLEAN ELSE {TRUE}

-----------------------------------------------------------------------------
(* run: the timer and the channel *)

\* As a bug: the timer is looked at before the channel.
TimerFirst ==
  /\ pc = "idle"
  /\ pc' = "start"
  /\ UNCHANGED <<m, packages, loop, reported, otaVars>>

\* The timer runs out when as many polls in a row found the channel empty.
TimerExpires ==
  /\ pc = "idle" /\ chan = <<>>
  /\ pc' = "start"
  /\ UNCHANGED <<m, packages, loop, reported, otaVars>>

Receive(message) ==
  /\ pc = "idle" /\ chan # <<>>
  /\ Head(chan) = message
  /\ chan' = Tail(chan)

ReceiveUpdateVersion ==
  /\ Receive("UpdateVersion")
  /\ pc' = "start"
  /\ UNCHANGED <<m, packages, loop, reported, diskVars, override, src,
                 outsideVars, marked>>

\* A write that failed may have emptied the stage file already.
Unset == IF "file" \in Faults THEN {both, "None"} ELSE {}

ReceiveUpdateBothSides ==
  /\ Receive("UpdateBothSides")
  /\ both' \in {"Operator"} \cup Unset
  /\ pc' = "start"
  /\ UNCHANGED <<m, packages, loop, reported, hash, agentHash, marker,
                 futureVersion, agentVersion, auth, override, src, outsideVars,
                 marked>>

\* get_manifest reads the licence a second time; without one the manifest is
\* that of the unnamed server.
ServerNames == {auth} \cup (IF "license" \in Faults THEN {Unnamed} ELSE {})
LicenseStatus(name) == IF name = Unnamed THEN "ERROR" ELSE status

GetOperator(ov) == IF ov = "None" THEN IsOperator ELSE ov = "Operator"

\* The forced update first uninstalls everything recorded for this server.
ReceiveUpdateVersionForce ==
  /\ Receive("UpdateVersionForce")
  /\ \E name \in ServerNames :
       /\ status' = LicenseStatus(name)
       /\ \/ /\ m' = PrepareForServerPurge(NewManifest(hash, name, GetOperator(override)))
             /\ todo' = ToHandle(m')
             /\ pc' = "forcePurge"
          \/ /\ "auth" \in Faults
             /\ UNCHANGED <<pc, m, todo>>
  /\ UNCHANGED <<packages, updatedList, stuck, nodeStatus, diskVars, override,
                 src, outsideVars, marked>>

-----------------------------------------------------------------------------
(* run_once: licence, side, manifest, agent version, Core session *)

FetchLicense ==
  /\ pc = "start"
  /\ src' = auth
  /\ pc' = "manifest"
  /\ status' = "CHECKING"
  /\ UNCHANGED <<m, packages, loop, nodeStatus, diskVars, override, chan,
                 outsideVars, marked>>

\* A network error is retried, any other one ends the run.
FetchLicenseFails ==
  /\ pc = "start"
  /\ pc' \in {"start", "idle"}
  /\ status' = "CHECKING"
  /\ UNCHANGED <<m, packages, loop, nodeStatus, otaVars>>

\* As a bug: an override already there is not replaced.
OverrideOnce(stage) ==
  IF stage = "None" \/ override # "None" THEN override ELSE stage
OverrideBy(stage) == IF stage = "None" THEN override ELSE stage

\* verify_version: the future version file is brought up to the running
\* version unless it names a later one, which is a panic.
VersionVerified == futureVersion <= agentVersion

ReadManifest ==
  /\ pc = "manifest"
  /\ override' = OverrideBy(both)
  /\ \E name \in ServerNames :
       /\ status' = LicenseStatus(name)
       /\ m' = NewManifest(hash, name, GetOperator(override'))
  /\ IF VersionVerified
     THEN pc' = "session" /\ futureVersion' = agentVersion
     ELSE pc' = "dead" /\ UNCHANGED futureVersion
  /\ UNCHANGED <<packages, loop, nodeStatus, hash, agentHash, marker, both,
                 agentVersion, auth, src, chan, outsideVars, marked>>

CoreHasConnectedSession ==
  /\ pc = "session"
  /\ Retry
  /\ UNCHANGED <<packages, reported, otaVars>>

-----------------------------------------------------------------------------
(* run_once: an install that did not finish *)

NoIncompleteInstall ==
  /\ pc = "session" /\ marker = NoServer
  /\ pc' = "checksums"
  /\ UNCHANGED <<m, packages, loop, reported, otaVars>>

\* As a bug: only this server's records are forgotten.
ResetOwnServer ==
  /\ pc = "session" /\ marker # NoServer
  /\ (marker # m.server \/ "auth" \in Faults)
  /\ hash' = [hash EXCEPT ![FullServerName(m.server, m.operator)] =
                [c \in Comps |-> NoSum]]
  /\ agentHash' = 0
  /\ \E name \in ServerNames :
       /\ status' = LicenseStatus(name)
       /\ m' = NewManifest(hash', name, m.operator)
  /\ pc' = "checksums"
  /\ UNCHANGED <<packages, loop, nodeStatus, marker, both, futureVersion,
                 agentVersion, auth, override, src, chan, outsideVars, marked>>

\* For another server, or when the token cannot be had: forget everything.
FullReset ==
  /\ pc = "session" /\ marker # NoServer
  /\ (marker # m.server \/ "auth" \in Faults)
  /\ hash' = EmptyHash /\ agentHash' = 0
  /\ \E name \in ServerNames :
       /\ status' = LicenseStatus(name)
       /\ m' = NewManifest(EmptyHash, name, m.operator)
  /\ pc' = "checksums"
  /\ UNCHANGED <<packages, loop, nodeStatus, marker, both, futureVersion,
                 agentVersion, auth, override, src, chan, outsideVars, marked>>

FullResetFails ==
  /\ pc = "session" /\ marker # NoServer
  /\ (marker # m.server \/ "auth" \in Faults)
  /\ "remove" \in Faults
  /\ Retry
  /\ UNCHANGED <<packages, reported, otaVars>>

\* For this server: uninstall what the hash file records for it.
PartialReset ==
  /\ pc = "session" /\ marker = m.server
  /\ m' = PrepareForServerPurge(m)
  /\ todo' = ToHandle(m')
  /\ pc' = "purge"
  /\ UNCHANGED <<packages, updatedList, stuck, reported, otaVars>>

\* After the last purge_component; a forced update starts over from here.
SavePurgedHash ==
  /\ pc \in {"purge", "forcePurge"} /\ todo = {}
  /\ hash' = WriteToFile(hash, m)
  /\ IF pc = "purge" THEN pc' = "checksums" /\ UNCHANGED <<m, loop>> ELSE Retry
  /\ UNCHANGED <<packages, reported, agentHash, marker, both, futureVersion,
                 agentVersion, auth, override, src, chan, outsideVars, marked>>

-----------------------------------------------------------------------------
(* run_once: download_manager.run, as run_once sees it *)

PostChecksums ==
  /\ pc = "checksums"
  /\ m' = UpdateWithJson(m, answer[src], agentVersion)
  /\ IF ToDownload(m') = {} /\ m'.agent = 0
     THEN pc' = "decide" /\ UNCHANGED reported
     ELSE /\ pc' = "download"
          /\ status' = "DOWNLOADING" /\ nodeStatus' \in Put("Downloading")
  /\ UNCHANGED <<packages, loop, otaVars>>

\* The client of the downloads and of report_eta has no timeout
\* (rest_request/mod.rs:149, 185): a connection that goes silent is waited for
\* until the process is killed.
DownloadHangs ==
  /\ pc = "download"
  /\ "silent" \in Faults
  /\ Leave("hung")
  /\ UNCHANGED <<packages, reported, otaVars>>

DownloadComponents ==
  /\ pc = "download"
  /\ m' = UpdateComponentsPaths(m)
  /\ pc' = "decide"
  /\ UNCHANGED <<packages, loop, reported, otaVars>>

\* As a bug: the server is not told.
DownloadManagerFailsQuietly ==
  /\ pc \in {"checksums", "download"}
  /\ Continue
  /\ status' = "ERROR"
  /\ UNCHANGED <<nodeStatus, packages, otaVars>>

\* No answer, no room on the disk, or a download that did not succeed.
DownloadManagerFails ==
  /\ pc \in {"checksums", "download"}
  /\ Continue
  /\ status' = "ERROR" /\ nodeStatus' \in Put("Failed")
  /\ UNCHANGED <<packages, otaVars>>

-----------------------------------------------------------------------------
(* run_once: the install *)

SkipInstall ==
  /\ pc = "decide" /\ IsFullyInstalled(m)
  /\ nodeStatus' \in Put("Updated")
  /\ pc' = "finish"
  /\ UNCHANGED <<m, packages, loop, status, otaVars>>

\* As a bug: no mark is left, or none for an agent that is going to be killed.
MarkedNobody == NoServer
MarkedUnlessAgent == IF m.agent # 0 THEN NoServer ELSE m.server

\* "Detects if install did not finish".
MarkedServer == m.server

\* A write that fails leaves the file as it was, or empty, and the install goes on.
MarkIncomplete ==
  /\ pc = "decide" /\ ~IsFullyInstalled(m)
  /\ \E works \in Settings :
       /\ marker' \in IF works THEN {MarkedServer} ELSE {marker, Unnamed}
       /\ marked' = [operator |-> m.operator, ended |-> FALSE, done |-> works]
  /\ pc' = IF m.agent # 0 THEN "agent" ELSE "install"
  /\ todo' = ToHandle(m) /\ updatedList' = {} /\ stuck' = {}
  /\ UNCHANGED <<m, packages, reported, hash, agentHash, both, futureVersion,
                 agentVersion, auth, override, src, chan, outsideVars>>

\* As a bug: the agent's install is reported like any other.
ReportAgentInstalling ==
  /\ pc = "agent"
  /\ status' = "INSTALLING" /\ nodeStatus' \in Put("Installing")
  /\ pc' = "agentVersion"
  /\ UNCHANGED <<m, packages, loop, otaVars>>

\* install_agent: Failed is put first, then the version file is set, then the
\* hash; the install is not expected to return when it works.
ReportAgentPending ==
  /\ pc = "agent"
  /\ status' = "INSTALLING" /\ nodeStatus' \in Put("Failed")
  /\ pc' = "agentVersion"
  /\ UNCHANGED <<m, packages, loop, otaVars>>

\* "This will make agent panic on next run UNLESS it was installed".
SetFutureVersion ==
  /\ pc = "agentVersion"
  /\ futureVersion' = m.agent
  /\ pc' = "agentHash"
  /\ UNCHANGED <<m, packages, loop, reported, hash, agentHash, marker, both,
                 agentVersion, auth, override, src, chan, outsideVars, marked>>

\* "Preemptively saving the hash as if the install was successful".
SaveAgentHash ==
  /\ pc = "agentHash"
  /\ hash' = WriteToFile(hash, m) /\ agentHash' = m.agent
  /\ pc' = "agentInstall"
  /\ UNCHANGED <<m, packages, loop, reported, marker, both, futureVersion,
                 agentVersion, auth, override, src, chan, outsideVars, marked>>

\* A new process: only files and packages are left.
Restart ==
  /\ Leave("start")
  /\ override' = "None" /\ chan' = <<>>
  /\ status' = "UPDATED"
  /\ UNCHANGED <<nodeStatus, src>>

AgentInstalled ==
  /\ pc = "agentInstall"
  /\ agentVersion' = m.agent
  /\ marked' = [marked EXCEPT !.ended = TRUE]
  /\ Restart
  /\ UNCHANGED <<packages, hash, agentHash, marker, both, futureVersion, auth,
                 outsideVars>>

\* What write_to_file makes of the agent's entry after the failure: the agent's
\* component is not marked updated, so it is left out and the old one is merged.
RevertedAgentHash == agentHash

AgentInstallFails ==
  /\ pc = "agentInstall"
  /\ hash' = WriteToFile(hash, m) /\ agentHash' = RevertedAgentHash
  /\ pc' = "finish"
  /\ UNCHANGED <<m, packages, loop, reported, marker, both, futureVersion,
                 agentVersion, auth, override, src, chan, outsideVars, marked>>

Install == InstallStep /\ UNCHANGED otaVars

\* set_incomplete_install_status(None): a mark that cannot be removed stays.
EndMark ==
  \E works \in Settings :
    /\ marker' = IF works THEN NoServer ELSE marker
    /\ marked' = [marked EXCEPT !.ended = TRUE, !.done = works]

\* As a bug: the run goes on to the next stage after the error.
ReportErrorAndGoOn ==
  /\ pc = "error"
  /\ status' = "ERROR" /\ nodeStatus' \in Put("Failed")
  /\ EndMark
  /\ pc' = "stage"
  /\ UNCHANGED <<m, packages, loop, hash, agentHash, both, futureVersion,
                 agentVersion, auth, override, src, chan, outsideVars>>

\* install_manifest returned an error.  "Install finished (error)".
ReportError ==
  /\ pc = "error"
  /\ status' = "ERROR" /\ nodeStatus' \in Put("Failed")
  /\ EndMark
  /\ Continue
  /\ UNCHANGED <<packages, hash, agentHash, both, futureVersion, agentVersion,
                 auth, override, src, chan, outsideVars>>

-----------------------------------------------------------------------------
(* run_once: the end of a run without errors *)

SaveHash ==
  /\ pc = "finish"
  /\ hash' = WriteToFile(hash, m)
  /\ pc' = "saved"
  /\ UNCHANGED <<m, packages, loop, reported, agentHash, marker, both,
                 futureVersion, agentVersion, auth, override, src, chan,
                 outsideVars, marked>>

\* "Install finished (success)".
ClearMarker ==
  /\ pc = "saved"
  /\ EndMark
  /\ status' = "UPDATED"
  /\ pc' = "stage"
  /\ UNCHANGED <<m, packages, loop, nodeStatus, hash, agentHash, both,
                 futureVersion, agentVersion, auth, override, src, chan,
                 outsideVars>>

\* As a bug: the last stage is not taken back.
NextStageSticks == IF both = "Operator" THEN "Vehicle" ELSE both
NextStage == IF both = "Operator" THEN "Vehicle" ELSE "None"

\* A stage file that cannot be written, or removed, is as it was, or empty.
AdvanceStage ==
  /\ pc = "stage"
  /\ both' \in {NextStage} \cup Unset
  /\ IF both = "Operator" THEN Retry ELSE Continue
  /\ UNCHANGED <<packages, reported, hash, agentHash, marker, futureVersion,
                 agentVersion, auth, override, src, chan, outsideVars, marked>>

-----------------------------------------------------------------------------
(* The process is killed, inside a write or between two steps *)

\* The files whose write pc is about to do; an interrupted write leaves an
\* empty file (File::create truncates, write_all follows).
TornHash ==
  \/ pc \in {"agentHash", "agentInstall", "finish"}
  \/ (pc \in {"purge", "forcePurge"} /\ todo = {})
TornMarker == pc = "decide" /\ ~IsFullyInstalled(m)
TornVersion ==
  \/ pc = "agentVersion"
  \/ (pc = "manifest" /\ futureVersion < agentVersion)
TornStage ==
  \/ pc = "stage" /\ both = "Operator"
  \/ pc = "idle" /\ chan # <<>> /\ Head(chan) = "UpdateBothSides"

\* save_prev_components: the directory is emptied before the installer is copied.
TornSave(c) == pc = "savePrev" /\ c \in todo /\ SaveAs(c, NoSum)

TornWrite ==
  \/ /\ \E c \in Comps : TornSave(c)
     /\ UNCHANGED <<hash, agentHash, marker, both, futureVersion, marked>>
  \/ /\ TornHash
     /\ hash' = EmptyHash /\ agentHash' = 0
     /\ UNCHANGED <<prev, marker, both, futureVersion, marked>>
  \/ /\ TornMarker
     /\ marker' = Unnamed
     /\ marked' = [operator |-> m.operator, ended |-> FALSE, done |-> FALSE]
     /\ UNCHANGED <<prev, hash, agentHash, both, futureVersion>>
  \/ /\ TornVersion
     /\ futureVersion' = 0
     /\ UNCHANGED <<prev, hash, agentHash, marker, both, marked>>
  \/ /\ TornStage
     /\ both' = "None"
     /\ UNCHANGED <<prev, hash, agentHash, marker, futureVersion, marked>>

Crash ==
  /\ pc # "dead" /\ Restart
  /\ \/ "crash" \in Faults
        /\ UNCHANGED <<prev, hash, agentHash, marker, both, futureVersion, marked>>
     \/ /\ "torn" \in Faults
        /\ TornWrite
  /\ UNCHANGED <<machine, agentVersion, auth, outsideVars>>

\* The service manager starts the process again after a panic.
RestartAfterPanic ==
  /\ pc = "dead" /\ Restart
  /\ UNCHANGED <<packages, diskVars, outsideVars, marked>>

-----------------------------------------------------------------------------
(* The REST thread and the server, at any time *)

SendRequest(message) ==
  /\ sent < MaxRequests
  /\ sent' = sent + 1
  /\ chan' = Append(chan, message)
  /\ UNCHANGED <<installVars, diskVars, override, src, answer, marked>>

\* update_version saves the credentials it was given before the message is sent.
ChangeServer(s) ==
  /\ s # auth
  /\ auth' = s
  /\ UNCHANGED <<installVars, hash, agentHash, marker, both, futureVersion,
                 agentVersion, override, src, chan, outsideVars, marked>>

Publish(s, list) ==
  /\ list # answer[s]
  /\ answer' = [answer EXCEPT ![s] = list]
  /\ UNCHANGED <<installVars, diskVars, override, src, chan, sent, marked>>

-----------------------------------------------------------------------------
RunLoop == TimerExpires \/ ReceiveUpdateVersion \/ ReceiveUpdateBothSides
             \/ ReceiveUpdateVersionForce

Check == FetchLicense \/ FetchLicenseFails \/ ReadManifest \/ CoreHasConnectedSession

Recover == NoIncompleteInstall \/ FullReset \/ FullResetFails \/ PartialReset
             \/ SavePurgedHash

Download == PostChecksums \/ DownloadComponents \/ DownloadHangs \/ DownloadManagerFails

Agent == ReportAgentPending \/ SetFutureVersion \/ SaveAgentHash \/ AgentInstalled \/ AgentInstallFails

Finish == SkipInstall \/ MarkIncomplete \/ ReportError \/ SaveHash
            \/ ClearMarker \/ AdvanceStage

Outside ==
  \/ \E r \in Requests : SendRequest(r)
  \/ \E s \in Servers : ChangeServer(s)
  \/ \E s \in Servers, list \in ServerLists : Publish(s, list)

Next ==
  \/ RunLoop
  \/ Check
  \/ Recover
  \/ Download
  \/ Agent
  \/ Install
  \/ Finish
  \/ Crash
  \/ RestartAfterPanic
  \/ Outside

\* Every part of run and run_once but what others do to them.
Thread == RunLoop \/ Check \/ Recover \/ Download \/ Agent \/ Install \/ Finish
            \/ RestartAfterPanic

Spec == Init /\ [][Next]_vars

\* The thread waits on timers, channels, commands that return and requests of the
\* blocking client, which has a timeout.  Where it has none, DownloadHangs says so.
FairSpec == Spec /\ WF_vars(Thread)

-----------------------------------------------------------------------------
(* Properties *)

Working == {"session", "checksums", "download", "decide", "purge", "forcePurge",
            "agent", "agentVersion", "agentHash", "agentInstall", "install",
            "savePrev", "rollback", "restore", "restoreBack", "error", "finish",
            "saved", "stage"}

\* The part of run_once in which packages, or the agent, are being replaced.
Installing == {"agent", "agentVersion", "agentHash", "agentInstall", "install",
               "savePrev", "rollback", "restore", "restoreBack", "error"}

Status == {"UPDATED", "CHECKING", "DOWNLOADING", "INSTALLING", "ERROR"}
Progress == {"Triggered", "Downloading", "Installing", "Updated", "Failed"}

\* Every variable has its type, and run_once has a manifest while it works on one.
TypeOK ==
  /\ pc \in Working \cup {"idle", "start", "manifest", "dead", "hung"}
  /\ m \in ManifestType \cup {NoManifest}
  /\ pc \in Working => m \in ManifestType
  /\ machine \in [Comps -> Sum]
  /\ prev \in HashManifest
  /\ todo \subseteq Comps /\ updatedList \subseteq Comps /\ stuck \subseteq Comps
  /\ status \in Status /\ nodeStatus \in Progress
  /\ hash \in HashManifest /\ agentHash \in Nat
  /\ marker \in Names \cup {NoServer}
  /\ both \in Override /\ override \in Override
  /\ futureVersion \in Nat /\ agentVersion \in Nat
  /\ auth \in Servers /\ src \in Servers
  /\ chan \in Seq(Requests) /\ sent \in 0..MaxRequests
  /\ answer \in [Servers -> ServerLists]
  /\ marked \in [operator: BOOLEAN, ended: BOOLEAN, done: BOOLEAN]

\* While packages are being replaced the disk says so: if the mark could be
\* written, whatever kills the process finds the mark of this very server when it
\* starts again (set_incomplete_install_status, ota_manager.rs:302, 322, 345).  A
\* mark that could not be written is only logged (431), and the install goes on.
MarkedWhileInstalling ==
  pc \in Installing => ~marked.ended /\ (marked.done => marker = m.server)

\* Packages change only under that mark, while an interrupted install is being
\* undone, or in a forced update's purge; once the mark is taken away nothing
\* of this install touches the machine any more.  The exception is the install
\* whose own mark could not be written.
ChangesAreMarked ==
  [][machine' # machine =>
       \/ marker # NoServer
       \/ pc = "forcePurge"
       \/ pc \in Installing /\ ~marked.done]_vars

\* What the hash file records for this server is what is on the machine, unless
\* an install is marked incomplete or a forced purge is under way: the agent
\* never takes a component for up to date that is not there.  Components kept
\* under meta_server are exempt, purge_server_manifest leaves them alone.
RecordedIsInstalled ==
  marker = NoServer /\ pc # "forcePurge" =>
    \A s \in Names, op \in BOOLEAN : \A c \in Hardcoded[op] \ Meta :
      hash[FullServerName(s, op)][c] # NoSum =>
        machine[c] = hash[FullServerName(s, op)][c]

\* Every component recorded for this server has its installer saved, and it is
\* the installer of the recorded version: a rollback goes back to what the hash
\* file says, and a recorded deb or archive can be uninstalled at all
\* (save_prev_components before write_to_file, install_manager.rs:641,
\* ota_manager.rs:344).
SavedIsRecorded ==
  marker = NoServer =>
    \A s \in Names, op \in BOOLEAN : \A c \in Hardcoded[op] \ Meta :
      LET k == FullServerName(s, op)
      IN  hash[k][c] # NoSum => prev[k][c] = hash[k][c]

\* A run that is about to save its manifest and report UPDATED really did what
\* the manifest says for every component it had to handle: one failure among
\* them, whatever it left behind, leads elsewhere.
SuccessIsReal ==
  pc \in {"finish", "saved", "stage"} /\ m.agent = 0 =>
    \A c \in Comps :
      /\ m.comp[c].path => machine[c] = m.comp[c].sum
      /\ c \in Snaps \cap (updatedList \cup ToHandle(m)) /\ ~m.comp[c].path =>
           machine[c] = NoSum

\* A rollback that worked leaves every component it rolled back as the hash file
\* records it, though the file is not written again: the installers it used were
\* saved by the run that wrote the file (roll_back_components and the error
\* after it, install_manager.rs:488, 658).  Archives are unpacked again later.
RolledBackIsRecorded ==
  pc = "restoreBack" =>
    \A c \in updatedList \ Tars :
      LET recorded == hash[WhichServer(c, m.server, m.operator)][c]
      IN  recorded # NoSum => machine[c] = recorded

\* Once run_once is past the recovery, nothing is recorded any more for the side
\* it works on and the server whose install was interrupted, be it this server
\* or one the credentials no longer name: what that install left half done is
\* never taken for installed (ota_manager.rs:236-267).
InterruptedIsForgotten ==
  pc \in {"checksums", "download", "decide"} /\ marker # NoServer =>
    \A s \in Names : s = marker =>
      \A c \in Comps \ Meta : hash[FullServerName(s, m.operator)][c] = NoSum

\* As long as the version file makes the agent panic at every start, the server
\* shows the node as failed (install_agent puts Failed before it sets the file,
\* install_manager.rs:335-345): a node that cannot recover alone is visible.
StuckAgentIsReported == ~VersionVerified => nodeStatus = "Failed"

\* The thread keeps MarkedUpdate's promise to the next process, for the server of the
\* credentials and the components of its own entry of the hash file: packages change
\* under the mark, one save records all that was done when it is true of the machine,
\* nothing changes between that and the end of the mark, and the mark goes only from a
\* machine that is as recorded (ota_manager.rs:236-361).
InstalledPackages == [c \in Comps \ Meta |-> machine[c]]
RecordedPackages ==
  [c \in Comps \ Meta |-> hash[FullServerName(auth, IsOperator)][c]]
UpdatePhase ==
  IF marker = NoServer THEN "clean" ELSE IF pc = "saved" THEN "recorded" ELSE "open"

Promise == INSTANCE MarkedUpdate WITH
  Packages <- Comps \ Meta, installed <- InstalledPackages,
  recorded <- RecordedPackages, phase <- UpdatePhase

KeepsUpdatePromise == Promise!Spec

\* When run_once is over, the status the REST interface shows and the one the
\* server was given agree on success and on failure, but for an agent that
\* could not be replaced.
StatusesAgree ==
  pc = "idle" =>
    /\ status = "UPDATED" /\ VersionVerified => nodeStatus = "Updated"
    /\ status = "ERROR" => nodeStatus = "Failed"

\* In update-both mode the manifest run_once works on is that of the stage the
\* status file names, after any crash (ota_manager.rs:219-227).
StageDecidesSide ==
  pc \in Installing \cup {"checksums", "download", "decide", "purge", "finish", "saved"} =>
    /\ both = "Operator" => m.operator
    /\ both = "Vehicle" => ~m.operator

\* The vehicle stage begins only when the operator stage ended: nothing is
\* marked incomplete, unless the mark could not be removed, and everything the
\* stage had to do is done and saved.  The exception is a failed agent update,
\* which ends the stage all the same (FinishedIsComplete).
OperatorStageFirst ==
  [][both = "Operator" /\ both' = "Vehicle" =>
       /\ marked.done => marker = NoServer
       /\ m.agent = 0 =>
            /\ ToHandle(m) = {}
            /\ \A c \in Hardcoded[TRUE] \ Meta :
                 hash[FullServerName(m.server, TRUE)][c] = m.comp[c].sum]_vars

-----------------------------------------------------------------------------
(* What the code says of itself and does not do *)

\* "Detects if install did not finish" (ota_manager.rs:302), "Incomplete install
\* detected (for {}), doing partial factory reset" (249): a reset happens only
\* when the marked install did not end.
ResetOnlyAfterInterruption == pc = "purge" => ~marked.ended

\* "If we got here the install completed successfully" (ota_manager.rs:338).
FinishedIsComplete == pc = "finish" => IsFullyInstalled(m)

\* "The manifest is fully installed, no download is needed"
\* (download_manager.rs:174): what run_once then leaves alone is installed.
FullyInstalledIsTrue ==
  pc = "decide" /\ IsFullyInstalled(m) =>
    \A c \in Comps \ Meta : CurrentlyInstalled(m.comp[c]) => machine[c] = m.comp[c].sum

-----------------------------------------------------------------------------
(* Liveness *)

\* A component fails to install or uninstall though it could have succeeded.
ComponentFails(c) ==
  /\ pc = "install" /\ c \in todo
  /\ InstallComponent(c)
  /\ c \notin updatedList'
  /\ \E r \in InstallOrUninstall(c) : r.ok

\* The mark or the stage file could not be written, or removed.
SettingFails ==
  \/ (MarkIncomplete \/ ReportError \/ ClearMarker) /\ ~marked'.done
  \/ AdvanceStage /\ both' # NextStage
  \/ ReceiveUpdateBothSides /\ both' # "Operator"

\* What may go wrong around the agent, and a server that changes its list.  A kill
\* that loses nothing looks like the timer running out, and is none here.
Disturbance ==
  \/ FetchLicenseFails
  \/ CoreHasConnectedSession
  \/ DownloadManagerFails
  \/ DownloadHangs
  \/ SettingFails
  \/ AgentInstallFails
  \/ \E c \in Comps : ComponentFails(c) \/ InstallerPanics(c)
  \/ Crash /\ ~Thread
  \/ \E s \in Servers : ChangeServer(s)
  \/ \E s \in Servers, list \in ServerLists : Publish(s, list)

EventuallyCalm == <>[][~Disturbance]_vars

\* Whatever happened before, interrupted installs included: once the server's
\* list stays and nothing fails, every component of this side that the list
\* names is installed in the listed version, for good; unless the agent cannot
\* start any more (VersionVerified), or waits for ever for a download.
Converges ==
  EventuallyCalm =>
    <>[](VersionVerified /\ pc # "hung" =>
           \A s \in Servers : s = auth /\ answer[s].list # KeepAsIs =>
             \A c \in Hardcoded[IsOperator] :
               answer[s].list[c] # NoSum => machine[c] = answer[s].list[c])

\* A request in the channel is taken, whatever retry loop the thread is in, but for
\* a thread that waits for a silent connection (DownloadHangs).
RequestsAreTaken == EventuallyCalm => (chan # <<>> ~> chan = <<>> \/ pc = "hung")

\* The stage has to remove a snap that is recorded for its side, but is no longer on
\* the machine or has no saved installer to tell its name: the other side shares the
\* machine and has removed it, or a reset has emptied that side's entry only.  snapd
\* then refuses every removal, and the stage is rolled back every time.
CannotRemove ==
  LET side == both = "Operator"
      key == FullServerName(auth, side)
  IN  \E c \in Snaps \cap Hardcoded[side] :
        /\ hash[key][c] # NoSum
        /\ answer[auth].list # KeepAsIs /\ answer[auth].list[c] = NoSum
        /\ machine[c] = NoSum \/ prev[key][c] = NoSum

\* An update of both sides goes through both stages, though each may be interrupted,
\* fail or meet other credentials (ota_manager.rs:347-361).  What is left in one of
\* them is an agent that cannot start any more, or waits for a silent connection, or
\* has a snap to remove that it cannot name or that is gone.
BothStagesEnd ==
  EventuallyCalm =>
    (both # "None" ~>
       both = "None" \/ ~VersionVerified \/ pc = "hung" \/ (pc = "idle" /\ CannotRemove))
=============================================================================
