# Phantom Agent: the OTA update, modelled, checked and proved

The Phantom Agent is a service that keeps the packages of one machine (a remote
operator's station or a vehicle) at the versions a server, Coupling, publishes. It
polls the server, downloads what changed, installs it with snapd, apt or tar, rolls
back when an install fails, and survives being killed at any moment, its own
replacement included. This directory holds TLA+ models of that program, the TLC
runs that check them and TLAPS proofs of the central properties.

The code is Rust, under `src/src/`. Line numbers in the modules' comments are lines of
those files. `PROJECT.json` maps every definition to the lines it translates.

## 1. The system

| Component | State it keeps | Operations | Modelled in |
|---|---|---|---|
| OTA manager (`ota/ota_manager.rs`) | the files `incomplete_install`, `update_both_status`; in memory `override_operator` and the channel's receiver | `run`, `run_until_complete`, `run_once`, the two resets, `update_version`, `check_versions` | `OTAManager`; the callbacks in `RestListener` |
| Manifest (`ota/manifest.rs`, `hardcoded_manifest.rs`) | the hash file (what is installed, per server and side), the future version file | `new`, `update_with_json`, `update_components_paths`, `prepare_for_server_purge`, `write_to_file`, `verify_version`, `save_agent_hash` | `Manifest`, files in `OTAManager` |
| Install manager (`ota/install_manager.rs`) | the saved installers (`previous_install_path`) | `install_manifest`, `save_prev_components`, `roll_back_components`, `restore_archives`, `purge_component`, `install_agent` | `InstallManager`, agent in `OTAManager` |
| Package installers, Linux (`snap_`, `deb_`, `tar_installer.rs`) | the machine's packages; for snaps, the changes snapd works on | install, uninstall | outcomes in `InstallManager`; the snap installer step by step in `SnapInstaller` |
| Package installer, Windows (`ota/msi_installer.rs`) | files, list of programs, installer keys, the machine's one msiexec | install with its own rollback, uninstall | `MsiInstaller` |
| Download manager (`ota/download_manager.rs`, `disk_space_verifier.rs`) and resumed download (`rest_request/mod.rs`) | the download folder with partial files | ask for the list, check the disk, download all with retries | as seen by `run_once` in `OTAManager`; step by step in `Download` |
| Coupling and Core clients (`rest_comm/`) | none; the server keeps the node's OTA progress | `post_checksums`, `put_ota_status`, `get_ota_status`, `is_core_has_connected_session` | `RestClient`; their effects in `OTAManager`, `InstallManager` |
| REST listener (`ota/rest_listener.rs`, `lib.rs`) | callback map, OTA status | requests on the runtime's threads, their callbacks, messages to the channel | `RestListener`; as inputs in `OTAManager` |
| Authentication and licence (`auth/`) | the auth file, the licence, a token | which server, which token, the exchange of a challenge | auth file in `RestListener`, token in `RestClient`, licence's move in `Startup`, which server in `OTAManager` |
| Log submission (`rest_comm/jira_log_submitter.rs`, `utils/zip_utils.rs`) | the flag file, the day's archive | `send_snapshot_to_jira`, `send_custom_log` | `LogSubmission` |
| Start up, configuration, logging, time (`bin/phantom_agent.rs`, `config_watcher.rs`, `logger/`, `utils/verify_ntp.rs`) | the configuration in force, the log and its age, the clock and its service | `main`, `on_config_modified`, `configure_logging`, the time thread | `Startup` |
| Version table, host queries, progress window, packaging | see `PROJECT.json` | | not modelled, see section 8 |

### How they interact

One thread, the OTA thread, does all the work. `run` calls `run_until_complete`,
which repeats `run_once` while it returns RETRY; then it waits up to an hour, reading
the channel once a second. The REST thread writes into that channel and, independently,
rewrites the auth file: credentials can change between any two lines of `run_once`.
`run_once` reads the licence twice (once for the server it talks to, once for the
manifest), compares the server's list with the hash file, and hands the manifest to
the download manager and then to the install manager. The download manager runs its
downloads and a progress reporter as futures of one executor.

Files, packages and the saved installers are shared by successive processes: the
service manager starts the agent again whenever it dies.

Around the OTA thread there are the runtime's threads (a callback each, then a message), the config watcher, the time
thread, and the panic hook, which runs on whichever thread panics: it sends the log to a ticket and puts the status
`Failed`. They share files and no lock: the auth file, the log folder, the archive of the day and its flag.

### What makes it hard

* **Kills and restarts.** The process can be killed at any step (the machine is
  switched off, the agent's own package is replaced). Three things must then agree that
  are written at different moments: the packages on the machine, the hash file, and the
  saved installers. The mark `incomplete_install` is what tells the next process that
  they may not.
* **Torn files.** `string_to_file` creates the file and then writes it; a kill between
  the two leaves an empty file, and each of the four files means something when empty. A write that
  fails is only logged, for the mark and the stage, and the run goes on without it.
* **Partial failure.** One of several installs, rollbacks, backups or uninstalls fails.
* **Two credentials.** The server of the list, of the manifest and of the mark may be
  three different ones.
* **Two sides.** An update of both sides runs the operator's manifest and then the
  vehicle's, with a stage file between them.
* **The agent's own update** cannot return: success is a kill, failure is a return.
* **Requests, timers, retries** share one thread and one loop, and a connection that goes silent during a download holds them
  all: that client has no timeout.
* **Files shared without a lock.** Callbacks, the hook and the OTA thread rewrite the auth file, the archive and the log
  while others read them.
* **Servers of several generations.** Routes differ, answers are lost or odd, and a server may be upgraded between two
  requests of one call.
* **Windows' installer** runs one command at a time for all programs, outlives the agent that started it, and reports
  success for what it did not do and failure for what it did.
* **The clock** is what the log's age, the archive's name and the throttle of reports are told by, and it may be wrong; on Linux
  the time of the log's creation is local and read as UTC.

### What makes each part correct

* *OTA manager*: packages change only under a mark that the next process can read, if it could be written
  (`MarkedWhileInstalling`, `ChangesAreMarked`); what an interrupted install recorded is
  forgotten before it is compared with anything (`InterruptedIsForgotten`); the machine
  reaches what the server lists (`Converges`); requests are taken (`RequestsAreTaken`);
  the stages follow one another (`StageDecidesSide`, `OperatorStageFirst`,
  `BothStagesEnd`); the two statuses agree (`StatusesAgree`, `StuckAgentIsReported`).
* *Manifest*: what it records is what is there (`RecordedIsInstalled`).
* *Install manager*: a success is a success of every component (`SuccessIsReal`), the
  saved installers are those of the recorded versions (`SavedIsRecorded`), a rollback
  restores what is recorded (`RolledBackIsRecorded`).
* *Download*: what is handed to the installers is what the list asked for (`KeepsPromise`), what was
  fetched is not fetched again (`PartsAreKept`), and every download ends, unless a connection went silent (`FilesArrive`).
* *Snap installer*: Ok means done and final (`KeepsPackagePromise`), a disabled snap stays disabled (`DisabledStaysDisabled`), and changes left
  behind by failed calls neither hang a call (`CallsReturn`) nor stop a repeated one from succeeding (`RepeatedInstallSucceeds`).
* *Msi installer*: Ok means installed, listed and removable (`OkIsInstalled`), a failed install tries to put the saved
  version back (`FailedInstallRestores`), and calls return although the other installer may not (`MsiCallsReturn`).
* *REST listener and auth file*: saved credentials are read by a later run (`NewCredentialsAreTaken`), every route is
  served again after any restart (`ServesAgain`), a failure told to the server by a panicking request is corrected
  (`FalseFailureIsCorrected`).
* *Clients*: a put is recorded once (`PutsAreRecordedOnce`) and by every generation (`PutReachesEveryServer`), what cannot be
  read is not "updated" (`UpdatedIsNotAssumed`), the token is got in the end (`TokenIsFetched`).
* *Log submission*: a report that ran alone and met no fault delivers its own archive (`LoneReportArrives`); unforced ones keep
  their distance while the flag can be opened (`OneReportPerInterval`).
* *Start up*: the agent writes to the log that is on disk (`LogIsOnDisk`), which is not cleared before its time (`YoungLogIsKept`); an edit of
  the configuration is in force once its events are read (`EditIsInForce`); the clock is right again and again (`TimeIsKept`).

## 2. The modules

    Manifest            constant-level operators: hash file and manifest
       |  EXTENDS
    InstallManager      variables and actions of the install, one step per component
       |  EXTENDS
    OTAManager          Init, Next, fairness, properties: the OTA thread and its world
       |                (implements MarkedUpdate: what one process promises the next)
       |  EXTENDS           \  EXTENDS
    OTAManagerMC         OTAManagerProofs
    (TLC's constants)    (theorems)

    PackageCall         what the install manager expects of install_command
       ^  implemented by
    SnapInstaller       a call's conversation with snapd
       |  EXTENDS
    SnapInstallerProofs  (theorems)

    VerifiedDownload    what run_once expects of the download manager
       ^  implemented by
    Download            concurrent, resumed downloads
       |  EXTENDS           \  EXTENDS
    DownloadMC           DownloadProofs

    MsiInstaller         a call's commands and the Windows installer they share
    RestListener         requests, callbacks, the auth file, the OTA thread as they meet it
    RestClient           the requests of one call, servers of three generations
    LogSubmission        the threads that send the log to a ticket
    Startup              main, the config watcher, the logger, the time thread

    MsiInstallerProofs, RestListenerProofs, RestClientProofs, StartupProofs, LogSubmissionProofs    (theorems)

The last five models stand alone: with the rest they share one step each (an install's outcome, a message in the channel, a put, a
report), which `OTAManager` and `InstallManager` have as an input or an outcome. Each has an `...MC` module with TLC's
constants where its `.cfg` needs definitions.

**`Manifest`** translates `Manifest::new`, `update_with_json`, `update_components_paths`,
`prepare_for_server_purge` and `HashManifest::write_to_file`. The hash file is a function
from keys (`<<server, operator>>`, plus `meta_server`) and component types to checksums.
Two rules of the code matter and are kept: only components marked `updated` are written,
and a server's entry is replaced while the meta entry is merged.

**`InstallManager`** has the loops of `install_manifest` one component per step.
Installers return an outcome, what they reported and what they left (`Outcome`,
`InstallOutcomes`, `UninstallOutcomes`), so an installer can fail and have changed
something. The order of the components is any order that has the archives last
(`sort_by_package`; the map's own order is arbitrary). `Faults` names what may go wrong in an instance.

**`OTAManager`** is the rest. `pc` says where `run_once` is:

| `pc` | in the code |
|---|---|
| `idle` | `run`, waiting (484-521) |
| `start`, `manifest` | licence; stage, side, manifest, version check (195-229) |
| `session` | Core session, interrupted install (231-267) |
| `purge`, `forcePurge` | `purge_server_manifest`, after an interruption or on request (619-637) |
| `checksums`, `download` | `download_manager.run` (276-293) |
| `hung` | in a download whose connection went silent; only a kill ends it (`rest_request/mod.rs:149`, 185) |
| `decide` | install or skip (295, 327-337) |
| `agent`, `agentVersion`, `agentHash`, `agentInstall` | `install_agent` |
| `install`, `savePrev`, `rollback`, `restore`, `restoreBack` | `install_manifest` and its loops |
| `error` | `install_manifest` returned an error (308-324) |
| `finish`, `saved`, `stage` | hash file, mark, stage file (338-359) |
| `dead` | panicked, not started again yet |

An action is everything up to the next thing that outlives a kill, so `Crash` between any two
actions is a kill between any two effects, and `TornWrite` is a kill inside the write of
the file the current `pc` is about to write, or of an installer being saved. A mark or a stage file that cannot be written or
removed (fault `file`) does not stop the run: the file is as it was, or empty. `machine`, `prev` and the files survive `Restart`; `override`,
the channel and the status do not.

History variables: `sent` bounds the requests, `marked` remembers the side of the last install that was to be marked, whether it
ended and whether the last write or removal of the mark worked (`done`); no guard reads `marked`.

**`Download`** is what `OTAManager` takes as one step. Each file has a future: `get` (the first request), `range`
(the second), `stream` (chunks appended to the file), then `done`, `failed` or another attempt.
`folder` is what is on the disk and survives `Kill`; `count` and `reporter` are `download_count` and `report_eta`, which
`join_all` waits for. A request, a stream or the reporter's put may go `silent`, and stays so until the process ends. A version's content is a sequence of numbered parts, so that a file put together from two
versions or with a part written twice is told from a whole one, as its checksum tells them apart. `link` is what the server
publishes behind a file's link; the checksum of the list is that of the version it had when the list was read.

**`VerifiedDownload`** is the promise `OTAManager` relies on (`DownloadComponents`, `DownloadManagerFails`): all the files in the
versions asked for, or an error. `Download` implements it with `asked <- want` and, for `handed`, the versions
found in the folder while the result is "files".

**`MarkedUpdate`** is the promise of one process of the agent to the next one, which has nothing but the disk: packages change
only under a mark (`Change`), one save records what was done when it is true of the machine (`Record`), nothing is changed between
that and the end of the mark, and the mark goes only from a machine that is as recorded (`Unmark`). Records may be lost at any time
(`Forget`), never invented. `OTAManager` implements it for the server of the credentials, with the machine for `installed`
(`InstalledPackages`), the server's entry of the hash file for `recorded` (`RecordedPackages`), and a `phase` made of the mark and
of `pc = "saved"` (`UpdatePhase`); the components under `meta_server` are left out, as in `RecordedIsInstalled`.

**`SnapInstaller`** is one call of `install_command` after another for one snap, and snapd. `pc` is the part of `install` or `uninstall`
that is next (`name` and `status` are `extract_snap_name` and `extract_snap_enabled`, the others the request to be posted); `request`
tells posting it from `wait_until_done`. snapd is external and modelled by what the code expects of it: it accepts one change of a snap
at a time (`Accepts`), works on it whether anyone waits or not (`Start`, `Finish`) or undoes it (`Fail`, `Undone`). A call that lost an
answer, gave up polling or was killed leaves its `change` behind. A disabled snap has the status "installed" in snapd's answers, an
enabled one "active". `Cleanup` is the removal of one deprecated snap.

**`PackageCall`** is what the install manager relies on: after Ok the package is as asked and nothing that could change it is under
way; an error promises nothing, and what was ordered may still land. `SnapInstaller` implements it with `package <- snap.version` and,
for `ordered`, the version of an installation or removal still in progress.

**`MsiInstaller`** follows a call through the commands it gives msiexec: `pc` is the part of `install` (remove the saved
version, advertise, install, and the same two for the saved one) and `command` whether msiexec is at it. The machine has the
files, the list of programs and the keys separately, because the code decides by the list, msiexec by the keys, and the operator
sees the files. `other` is another program's installation, `running` may be the command of a killed agent.

**`RestListener`** has a record per thread of the runtime: the request it serves and the step its callback is at. The auth file is
opened (and so emptied) and written in two steps, by whoever is there. Of `run_once` there is what reads the
credentials, shows a status or puts one; the rest is `work`. `VersionPanics` is the `unwrap` of a url that is none, which
every status passes through.

**`RestClient`** is one call at a time and all the requests it becomes. The server is a generation: which versions of the routes it
serves and whether `nodes/self/ota` is one of them. A request that was given up stays in `requests` and may be handled later.
`clean` is a history variable: nothing went wrong during the call.

**`LogSubmission`** gives each thread its own `pc`; they share the flag and, per day, the archive. An archive knows who opened it
and whether another wrote to it meanwhile. A flag that is there and cannot be opened is taken for none (`FlagUnopened`). The rest of a
call is history: its `course` so far, the flag by which it passed (`seen`) and whether that is the flag it replaced (`fresh`), and
the reports that were `reported`.

**`Startup`** puts together what begins with the process and meets in the log folder and the clock: `main` step by step with the
three times it configures the logger, the watcher's events, an editor that empties the file before writing it, a second
agent that opens the log before it sees the first, and the time thread on both platforms. `configure_logging` is two steps of a
thread: it opens the log, the folder cleared before or not (`Configure`), and later its logger takes the place of the one in force (`SwapLogger`);
it may panic in between, with the log gone (`ConfigurePanics`). `onDisk` says who has opened the file that is on disk. `Created` is
what the agent takes for the time of the log's creation: on Linux the local time, read as UTC, so the day shifted by `Zone`. `today` is the true day, `clock` the machine's.

### Abstractions, all of them

* A checksum stands for the installer with that checksum. Links, paths and tokens are
  present or absent. The hash file's entry of the agent is `agentHash`, apart from
  `hash`, because the agent is installed apart from everything else.
* `hash_manifest` is carried in memory by the manifest and is equal to the file: only the
  OTA thread writes the file, and each write is made from the copy just read.
* The server always lists the agent (the server "gives us ALL the components",
  `manifest.rs:591`). A component the list names with an empty checksum does not occur.
* The Linux build. `phantom_launcher`'s version is the constant 1.0.0 there, so a listed
  launcher is always updated (`ByVersion`).
* A snap is uninstalled by the name of its saved file. The names the code knows without a
  file are those of deprecated packages, which no machine of the model has.
* `UninstallOutcomes` and `InstallOutcomes` stand for snapd, apt and tar. A failed call has left its change landed or dropped when the
  next step begins; that snapd may land it later still is in `SnapInstaller`, not in `InstallManager`.
* Disk space is counted in parts. Nothing but the download folder takes room on the disk.
* msiexec's mutex is looked at and given back in one step, and no program but the agent changes versions of the product.
* In `RestListener` a body is read whole before its callback; of `run_once` only what meets the callbacks is there.
* In `RestClient` only a put is handled late: a late handling of another request changes nothing at the server.
* In `Startup` time is in units that may be days or hours, the time zone a whole number of them; an unsigned difference wraps around at
  `WordSize`. The folder is cleared and the log opened in one step, but for a panic or a kill between the two. A file without a
  valid `logging` key stands for the default configuration.
* A saved installer that a kill left partly copied counts as none (`install_manager.rs:431`). The code may panic over it: a deb that is
  cut short cannot be asked for its name (`deb_installer.rs:131`).
* The success of the agent's own install is a kill. That the snap's refresh may also return with the process still alive, which then asks the server
  again (`install_manager.rs:402`), is left out.
* A panic of the `expect` in `write_to_file` is a kill at that place.
* `LogSubmission` leaves the put of `Failed` after an unforced call to `RestListener` and `RestClient`.
* msiexec is called with `/qn` and prints nothing, so `exec_arg`'s Ok for a failing command with output (`bash_exec.rs:75`) does not occur.
* A file's parts arrive one by one; a missing file and an empty one are the same; published files
  have at least one part; the files of one download have different names (the code refuses others).
* The JIRA snapshots, the log, the version table and the progress
  window change nothing the other parts read, and are left out of `OTAManager`.
* In `OTAManager` the download folder is left out: `VerifiedDownload` is all that is used of it.
* A change of server and the message that follows it are two actions (`ChangeServer`,
  `SendRequest`): the callback saves before it sends, and another request may come between.

## 3. The runs

Each run's constants are in `<run>.cfg`, over the definitions of the run's module. The last column has the distinct states.

| Run | What the instance has | Shows | States |
|---|---|---|---|
| `core` | a snap and an archive, updates, removals, "keep as is", a later agent; kills, torn files, panics, a download that never ends, then calm; marks that can be written | `TypeOK`, `RecordedIsInstalled`, `SavedIsRecorded`, `StuckAgentIsReported`, `StatusesAgree`, `KeepsUpdatePromise`, `Converges`, `RequestsAreTaken` | 422 160 |
| `faults` | a snap, a launcher under `meta_server` updated by version, a deb; every failure of the environment that kills nothing, a mark that cannot be written or removed included, and installers that panic; forced updates | `SuccessIsReal`, `ChangesAreMarked`, `RolledBackIsRecorded` | 2 026 272 |
| `both_sides` | a snap on both sides and an archive on the operator's only; kills, stage files and marks that cannot be written or removed | `StageDecidesSide`, `OperatorStageFirst`, `BothStagesEnd` | 611 126 |
| `two_servers` | two servers, a later agent, a licence that fails the second time, resets, backups and marks that fail, kills, torn files | `InterruptedIsForgotten`, `MarkedWhileInstalling` | 3 391 200 |
| `failed_agent_update` | an agent whose installation fails | violated: `FinishedIsComplete` | |
| `download` | two files, two versions of one size, two attempts, a disk with little to spare; kills, failing requests, broken streams, connections that go silent, servers that ignore ranges, replaced files | `DownloadTypeOK`, `KeepsPromise`, `PartsAreKept`, `FilesArrive` | 908 488 |
| `snap` | one snap in two versions, or absent; installs, removals and clean-ups in any order; missing files, failing commands, lost answers, undone changes, kills | `DisabledStaysDisabled`, `KeepsPackagePromise`, `CallsReturn`, `RepeatedInstallSucceeds` | 2 641 |
| `msi` | one product in two versions, another installer, unreadable files, commands that fail, report late or are not listed, kills | `OkIsInstalled`, `FailedInstallRestores`, `MsiCallsReturn` | 42 842 |
| `rest` | two threads, two requests, proper and improper credentials, a license file; kills, panics, failing saves, no network | `NewCredentialsAreTaken`, `ServesAgain`, `FalseFailureIsCorrected` | 235 371 |
| `client` | servers of three generations, two puts; lost, cut, refused, odd, garbled answers, upgrades | `PutsAreRecordedOnce`, `PutReachesEveryServer`, `UpdatedIsNotAssumed`, `TokenIsFetched` | 65 686 |
| `logs` | two threads, an interval of one day in three; a flag that cannot be opened, every other failing step, kills | `LoneReportArrives`, `OneReportPerInterval` | 5 919 680 |
| `startup` | Linux west of UTC and Windows, a retention shorter than the default one, edits, a second agent, a folder that cannot be cleared or opened, a clock and a service that others set, failing commands and servers, kills | `LogIsOnDisk`, `EditIsInForce`, `YoungLogIsKept`, `TimeIsKept` | 1 305 648 |

`failed_agent_update` ends in a counterexample: the property is what a comment says of the code, and `PROJECT.json`
("findings") quotes it.

### Bounds, and why they are enough

* *Two or three components.* Every loop treats components one by one and the properties compare one
  component with itself, so two are needed to have one that works and one that fails, and a snap, an archive and a deb
  to have each uninstaller; the third kind, the launcher, is in `faults`.
* *Two checksums and "none".* Old, new, absent: a component is compared with one version at a time.
* *One or two servers*, since the mark, the manifest and the list can name at most two that matter.
* *One or two requests* (`MaxRequests`): a request changes what `run` does next; two let
  one arrive while the other is served. The hourly timer is not bounded, so there are arbitrarily many runs.
* *Server's lists*: a first version, a second one, one without the archive, "keep as is",
  one with a later agent. `Publish` switches among them at any moment.
* Kills, panics and failures are not bounded.
* *Snaps*: snapd has one change of a snap at a time and snaps do not depend on one another, so one snap is enough; two versions, so that
  a change left by an earlier call can be for another version than the one asked for now.
* *Downloads*: two files, so that one can fail while the other goes on and `join_all` has something to wait for; two parts, so that a
  file can be partial; two attempts in place of five (`Attempts`), so that both "again" and "give up" happen. Room for seven parts: both
  files and less than what a download can leave behind.
* *Msi*: two versions, so that the saved one and the new one differ, or are the same; two waits in place of 60 for the mutex.
* *REST*: two threads and two requests, so that two callbacks meet in the auth file; requests are bounded per behaviour, the runs of
  the OTA thread and the kills are not.
* *Client*: calls are one at a time, as in the code, so two puts are enough for one to be handled after the other was made.
* *Logs*: two threads meet in one archive; three days, so that a report is throttled, and due again.
* *Startup*: three units of time, one more than the longest retention, and a retention of none, so that a log can be too old
  for one of the two and not for the other; a word of 8 in place of 2^64 seconds, larger than every day, so that the difference wraps around exactly when it is
  negative, as in the code; a machine one unit from UTC, so that the shift meets the end of a retention; one attempt at a server in place of ten, so that
  "again" and "give up" happen. That the licence cannot be copied is not among this run's faults; the proofs are for all of them.

### What does not hold

*Exempted by the properties that are checked.* Each is a hazard in `PROJECT.json`.

* `RecordedIsInstalled` and `SavedIsRecorded` leave out the components kept under `meta_server`: the reset after an
  interruption skips them (`manifest.rs:489`).
* `RecordedIsInstalled` fails after a kill during a forced update, whose purge leaves no mark,
  after an installer that fails and is not atomic (the component that failed is not in `updated_list`), after a
  failed backup, and after a kill when the mark could not be written (`ota_manager.rs:431`). `core` therefore has no forced updates, and for
  faults only kills, panics and downloads that never end.
* `MarkedWhileInstalling`, `ChangesAreMarked` and `OperatorStageFirst` leave out the install whose mark could not be written or removed: the code
  only logs that (`ota_manager.rs:423`, 431) and goes on.
* `Converges` fails when the installer's failures leave something else than they found, when the server
  changes, and for an agent that panics at every start because its version file names one that could not be installed: it
  exempts the last (`VersionVerified`), and so does `BothStagesEnd`, which also exempts a snap that both sides recorded and the list no longer
  has (`CannotRemove`): the first stage removes it, and snapd refuses the second one's removal every time.
* `Converges`, `RequestsAreTaken`, `BothStagesEnd` and `FilesArrive` exempt an agent that waits for a connection which went silent before the
  network was quiet (`hung`, `Silent`): only a kill ends that.
* `StuckAgentIsReported` and `StatusesAgree` need puts that arrive.
* After an update of both sides `override_operator` keeps the vehicle's side (`ota_manager.rs:222` has no branch that sets it back), so
  the operator's agent works on the vehicle's manifest until it restarts; `StageDecidesSide` speaks of the two stages only.
* `KeepsPromise` needs answers that can be verified (`Verifiable`, section 5), which the faults of `download` are.
* `FilesArrive` otherwise ends in one of two ways: files, or a folder whose leftovers take the space the whole files are said to need.
* `OneReportPerInterval` exempts the later of two reports when it did not pass by the flag as it was: a flag that cannot be opened is
  taken for none (`jira_log_submitter.rs:85`, 120-131), and another call may write the flag between this one's reading and writing it.
* `ServesAgain` exempts a url that `Url::parse` refuses. `NewCredentialsAreTaken` speaks of the file as
  `update_version` wrote it last: `check_versions`, which reads the file, asks the server and writes the file back, may overwrite that
  (`ota_manager.rs:665-680`).
* `YoungLogIsKept` allows for the machine's distance from UTC (`file_creation_date_util.rs:74-79`): west of UTC a log is cleared that much before its retention
  ends. Without it TLC finds the log cleared too early. It exempts the days on which the unsigned limit wraps around (`phantom_file_logger.rs:81`).
* `LogIsOnDisk` exempts the time after a second agent opened a log (`phantom_agent.rs:81`), an edit during the start, when `main` and the watcher
  configure at once (101-104), and a watcher whose panic left no log at all (`phantom_file_logger.rs:41-43`, 97). Each of the three is needed:
  without it TLC finds the agent writing to a file that is gone.

*Stated, and violated.* The modules state what a comment or a log message says where the code does otherwise, and TLC finds each violated
under the constants given. They are not among the runs, except the first.

| Definition | The code says | Violated with |
|---|---|---|
| `FinishedIsComplete` (`OTAManager`) | "the install completed successfully" | run `failed_agent_update` |
| `ResetOnlyAfterInterruption` (`OTAManager`) | "Incomplete install detected" | `core.cfg`: the agent that an update installed finds the mark of that update and resets what was recorded |
| `FullyInstalledIsTrue` (`OTAManager`) | "The manifest is fully installed" | `two_servers.cfg` with `Faults = {}`: a change of server and back, the machine has the other's components |
| `OldLogIsCleared` (`Startup`) | a test of the retention: a file older than it is gone (`phantom_file_logger.rs:162-167`) | `startup.cfg` with `Zone = 1` and no fault `command`: on Linux east of UTC a log seems younger than it is, and is kept |
| `DownloadedIsWhole` (`Download`) | "Download was successful" | `download.cfg` with `NetFaults = {"refuse"}`: an error page in the place of a range is not compared with the checksum |
| `ResumeIsAdmitted` (`Download`) | "resuming partial downloads" | one file of two parts, `Space = 3`, `NetFaults = {"kill"}`: its leftovers make every later download be refused |
| `SavedIsReadable` (`RestListener`) | "Auth file saved" | `rest.cfg`: two callbacks write the auth file at once, or one cannot finish |

## 4. Fairness

`FairSpec` is `Spec /\ WF_vars(Thread)`, weak fairness of the OTA thread as a whole: every wait of
that thread ends, but for one. `recv_timeout` and `sleep` end by themselves; the requests of the blocking client fail after its timeout of 30 seconds;
commands of the host are assumed to return (`wait_until_done` polls snapd without a limit; `CallsReturn` says what it needs of snapd).
The downloads and `report_eta` use the client without a timeout (`rest_request/mod.rs:149`, 185): that such a call may never end is the step
`DownloadHangs`, after which the thread has no step.
No fairness is assumed for the environment, for kills or for any one action: at `idle` the
thread's step is determined by the channel (`TimerExpires` requires an empty channel, as
the timer runs out only when the last of its polls found nothing).

`SnapInstaller` has weak fairness of a call's commands that work (`Works`) and of snapd (`Snapd`): commands return, and snapd brings a
change it accepted to an end. Calls, failures, kills and what is done by hand have none.

`Download` has weak fairness of each future and of what `run_once` does around them: `join_all` polls every
future that can go on. One whose connection went silent (`GoesSilent`, `ReporterGoesSilent`) cannot, and nothing is assumed of it.

`MsiInstaller` has weak fairness of the code's own steps and of a command that was started. The other installer has
none: it may hold the mutex for ever. `RestListener` has weak fairness of the OTA thread with the restart and of each callback; clients,
kills and whatever fails have none. `RestClient` has weak fairness of sending, of receiving, of the repetition in
`run_until_complete` and of the server's answer to the request that is waited for; nothing is assumed of requests given up. `Startup` has weak
fairness of the time thread's loop and of the system's own synchronisation while it is switched on. `LogSubmission` states safety only.

The liveness properties have the form `EventuallyCalm => ...`: from some moment on no
kill, no failing component, no failing or silent network call, no failing write, no connected Core session, no change of server or list. What happened before is not
restricted, so the properties say that the agent recovers from every state the faults can
bring about. Without this condition the retry loops may legitimately run for ever.
A kill at `idle` that loses nothing is the same step as the timer running out, so `Crash` and `Kill` count as disturbances only where
they are no step of the thread itself.

## 5. The proofs

Eight modules hold theorems: `OTAManagerProofs`, `DownloadProofs`, `SnapInstallerProofs`, `RestListenerProofs`,
`MsiInstallerProofs`, `StartupProofs`, `RestClientProofs` and `LogSubmissionProofs`. Every invariant, every action property and every
refinement that a passing run checks is stated by a theorem; the liveness properties are not. Each theorem is proved for every value of the constants that satisfies the named
assumptions of its module, which TLC evaluates on the instances of the runs. Those of
`OTAManagerProofs` are `ManifestAssumption`, `KeysAssumption`, `InstallAssumption` and `OTAAssumption` (any set of components, any
servers, checksums, lists and faults):

| Theorem | States |
|---|---|
| `TypeCorrect` | `Spec => []TypeOK` |
| `MarkedWhileInstallingHolds` | `Spec => []MarkedWhileInstalling` |
| `ChangesAreMarkedHolds` | `Spec => ChangesAreMarked` |
| `StageDecidesSideHolds` | `Spec => []StageDecidesSide` |
| `InterruptedIsForgottenHolds` | `Spec => []InterruptedIsForgotten` |
| `StuckAgentIsReportedHolds` | `"put" \notin Faults => (Spec => []StuckAgentIsReported)` |
| `OperatorStageFirstHolds` | `Spec => OperatorStageFirst` |
| `StatusesAgreeHolds` | `"put" \notin Faults /\ TokenOrLicense => (Spec => []StatusesAgree)` |
| `SuccessIsRealHolds` | `RestoresAreSafe => (Spec => []SuccessIsReal)` |
| `SavedIsRecordedHolds` | `{"backup", "file"} \cap Faults = {} /\ (Unkilled \/ NeverBothSides) => (Spec => []SavedIsRecorded)` |
| `RolledBackToEntry` | `"backup" \notin Faults /\ KillsAreMarked =>` a rollback that worked leaves every component of the server's own entry as the entry has it |
| `RolledBackIsRecordedHolds` | `"backup" \notin Faults /\ KillsAreMarked /\ (Unkilled \/ Meta = {}) => (Spec => []RolledBackIsRecorded)` |
| `RecordedIsInstalledHolds` | `PlainRuns => (Spec => []RecordedIsInstalled)` |
| `UpdatePromiseKept` | `PlainRuns => (Spec => KeepsUpdatePromise)`, the refinement of `MarkedUpdate` |

None of the invariants is inductive alone. The inductive invariant is

    IInv == TypeOK /\ MarkedWhileWorking /\ SideFollowsStage
              /\ PurgeForgets /\ InterruptedIsForgotten

* `MarkedWhileWorking` adds to the install the purge that follows an interruption: there too packages
  change, and the mark is the one that was found. An install is without a mark only when writing it failed (`Unmarked`).
* `SideFollowsStage` extends `StageDecidesSide` to every `pc` at which `run_once` has its manifest: the side is
  fixed when the stage file is read, long before anything is installed.
* `PurgeForgets` says that the manifest of a purge has nothing to record for this server
  (`PurgeLeavesNothing`, `WritePurged`): without it nothing is known of the hash file `SavePurgedHash` writes.

Each part has its step lemma, with a case per group of actions; the install's actions, which
leave all files alone, are dealt with once (`InstallFrame`). `StuckAgentIsReported` has an invariant of its
own, `VersionInv`: past `verify_version` the version file names no later version, and from
`ReportAgentPending` to the end of the agent's install the server has been told `Failed`.
TLC checked both invariants on the instances of `core`, `two_servers` and `both_sides` first.

The other six need to know what the loops of the install have done. `RunInv` says it for every `pc`, for any faults: nothing is handled
outside the install (`ListIsLocal`), the agent's component names a later version (`AgentIsNewer`), what is up to date and not
handled has the checksum of the hash file (`PlanIsRecorded`), only what has to be handled was downloaded (`PathsAreNew`), what was handled
and what is left make up what had to be handled, and what was saved is what was installed (`LoopsAreComplete`), and the components of the
other side are left alone (`OthersAreSettled`). `OperatorStageFirst` follows from it without a hypothesis. On top of it:

* `StatusInv`: past the install the server has been told what the REST interface will say.
* `HandledIsReal`: what was handled with success is on the machine, or off it, while the others fail and archives are unpacked again.
* `SavedInv`: what is recorded under an entry is what is saved for it, if the entry can be `Trusted` and the component is not in
  the middle of being saved. Trusted are all entries when nothing is killed, and after a kill all but that of `meta_server` and, until
  the recovery has emptied it, that of the interrupted server.
* `RolledBack`: of the components that a rollback has done, each is as the hash file has it, since what it installed is what was saved.
* `InstalledInv`: what the server's entry has is on the machine, but for the components that the run has handled and not put back.

`UpdatePromiseKept` rests on the same invariants. A step that changes no package and neither takes nor sets the mark is a stutter or a
`Forget` (`ForgetsPromised`): a reset, a purge, a torn file, and each save of a manifest of which nothing was handled (`WriteKeeps`).
A step of the install changes one package while the mark is there (`ChangePromised`). `SaveHash` is `Record`, true of the machine by
`InstalledInv` in the state it leads to. The mark is taken away by `ClearMarker` or, after a rollback, by `ReportError`: in both states
the run has left every component as it is recorded (`EntryAgrees`). A kill before the mark is gone is `Kill`, a torn mark is `Mark`.

The hypotheses say which behaviours the code does not deal with; for each of them TLC finds a violation when it is dropped:

| Theorem | Hypothesis | Without it |
|---|---|---|
| `StatusesAgreeHolds` | no put is lost | a lost put is only logged (`ota_manager.rs:330`) |
| | `TokenOrLicense` | a forced update without token or licence shows `ERROR` and tells the server nothing |
| `SuccessIsRealHolds` | `RestoresAreSafe` | an archive that is not unpacked again leaves something else on the machine, which is only logged |
| `SavedIsRecordedHolds`, `RolledBackToEntry`, `RolledBackIsRecordedHolds` | no fault `backup` | when a later one cannot be saved, installers of new versions are saved and the hash file keeps the old ones |
| | no kill, or one side | the recovery empties the entry of one side, the killed run may have saved installers of the other |
| | marks can be written; of the last two only with kills (`KillsAreMarked`) | the next process does not know of the kill and resets nothing |
| `RolledBackIsRecordedHolds` | no kill, or no component under `meta_server` | the recovery does not empty that entry (`manifest.rs:489`) |
| `RecordedIsInstalledHolds`, `UpdatePromiseKept` | no fault `dirty`, `rollback`, `backup` | a component that failed or was not put back is still recorded (`install_manager.rs:604`) |
| | no fault `license` | the manifest is made for the server named `""` (`ota_manager.rs:175`) |
| | unforced, one side | a purge is without a mark (`ota_manager.rs:502`); the two sides share the machine |
| | one server | the servers share the machine, each has its entry (`manifest.rs:371`) |
| | no fault `file` | a kill in an install without a mark is not noticed (`ota_manager.rs:431`) |

The runs `core` and `faults` satisfy the hypotheses of the theorems about the properties they check. The invariants were checked
by TLC on the instances of the runs, and on larger ones (14 million states), before they were proved.

`DownloadProofs` proves, for any number of files, attempts and parts (`DownloadAssumption`):

| Theorem | States |
|---|---|
| `DownloadTypeCorrect` | `Spec => []DownloadTypeOK`, whatever the server and the network do |
| `DownloadedIsWholeHolds` | `Verifiable => (Spec => []DownloadedIsWhole)` |
| `PromiseKept` | `Verifiable => (Spec => KeepsPromise)`, the refinement |
| `PartsAreKeptHolds` | `SizesStay => (Spec => PartsAreKept)` |

`Verifiable` says that a request for a range is answered with a part of a file and that a file replaced during a download keeps its
size; the code does not check either, and without them the property is false. The type invariant needs `Counted` (`download_count` is
the number of running downloads, so it is never decremented below zero). Under `Verifiable` the argument is `LongEnough`: what was
written plus what is still to come is never less than the size, so an answer that ended with success had its checksum compared
(`NextWhole`). Then `NextPromise` maps each step to one of `VerifiedDownload`'s or to none; that two versions do not have the same content
(`ContentInjective`) makes the mapped version the one asked for.

`PartsAreKept` needs less: only that a file replaced during a download keeps its size (`SizesStay`; TLC finds a violation without it). A
file is emptied when its checksum is compared and differs, and after an install. `Lengths` says that neither meets a beginning of the
version asked for: no more was counted than is in the file, so a file that is compared is as long as the version, and a download
that succeeded left the version or a file with a part of an error page in it (`Spoilt`), which is the beginning of no version.

`SnapInstallerProofs` proves, for any set of versions and of faults (`SnapAssumption`):

| Theorem | States |
|---|---|
| `SnapTypeCorrect` | `Spec => []SnapTypeOK` |
| `DisabledStaysDisabledHolds` | `Spec => []DisabledStaysDisabled` |
| `PackagePromiseKept` | `Spec => KeepsPackagePromise`, the refinement |

The inductive invariant `SnapInv` says that the change waited for is the one the call asked for (`WatchesItsOwn`: snapd accepts nothing
else meanwhile), that once it is done the snap is what it made of it (`DoneIsDone`), and that when a snap is disabled again it is
already in the version asked for with nothing left that could replace it (`DisablesInstalled`); `OkIsFinal` then follows at the return.
`PackagePromiseKept` has one lemma per group of actions.

`RestListenerProofs` proves, for any number of threads and requests (`PostedAssumption`, `RestAssumption`):

| Theorem | States |
|---|---|
| `RestTypeCorrect` | `Spec => []RestTypeOK`, with it that only valid credentials are ever written |
| `NewCredentialsAreTakenHolds` | `Spec => []NewCredentialsAreTaken` |

`NewCredentialsAreTaken` is nearly inductive: what it lacks is that the place of a callback tells whose callback it is
(`PlaceOfKind`), so that the one that has written is the one that will send a message. Then any credentials nobody has read have a message
before them, or a thread that will send one, or a run that has not read the file yet; the cases are one per group of
actions (`SavesKeeps`, `SendKeeps`, `OTAThreadKeeps` and so on).

`MsiInstallerProofs` proves, for any versions and any number of waits (`MsiAssumption`):

| Theorem | States |
|---|---|
| `MsiTypeCorrect` | `Spec => []MsiTypeOK` |
| `OkIsInstalledHolds` | `Spec => []OkIsInstalled` |
| `FailedInstallRestoresHolds` | `Spec => []FailedInstallRestores` |

The heart of `MsiInv` is `Undisturbed`: while a call installs there is no command but its own, since it began when the mutex was free and
a killed agent's command holds it until it ends. An uninstallation does not wait for the mutex, so nothing of the kind is true of it.
`NothingRemoved` and `FailedIsOver` carry the result to the return, `PartsBelong` and `CommandsHaveFiles` say what each command is of.

`StartupProofs` proves, for any configurations, retentions and days (`StartAssumption`, and `ConfigAssumption`: a configuration
is neither a torn file nor a missing one):

| Theorem | States |
|---|---|
| `StartTypeCorrect` | `Spec => []StartTypeOK` |
| `LogIsOnDiskHolds` | `Spec => []LogIsOnDisk` |
| `EditIsInForceHolds` | `Spec => []EditIsInForce` |
| `YoungLogIsKeptHolds` | `Spec => YoungLogIsKept` |
| `LicenseIsNotLostHolds` | `Spec => LicenseIsNotLost` |

`LogIsOnDisk` rests on where a logger comes from: whoever is about to put one in force has opened the log that is on disk (`OpenedOnDisk`), or another
agent or an early edit came between; and nobody else configures while `main` does, since without an edit the watcher has nothing to read (`QuietStart`,
`OpenedAtWork`).

`EditIsInForce` needs that there is no watcher before `main` started it (`WatcherAfterMain`), that an edit counts from the moment
that the agent is up and watches the file (`TouchedWhileWatching`: `main`, which applies the file and its defaults itself, is past that
then), and that what the watcher read is in force or about to be (`EditIsRead`). `YoungLogIsKept` is about steps: a log is dropped only where
one is opened or a panic cuts that short, and there it is `Expired`, by an unsigned limit that is the true one unless it wraps around
(`LimitIsDay`, `ExpiredIsOld`). The time zone is any number.

`RestClientProofs` proves, for servers of any generations and any number of puts (`ClientAssumption`: a server serves at least one
version of the routes):

| Theorem | States |
|---|---|
| `ClientTypeCorrect` | `Spec => []ClientTypeOK` |
| `PutsAreRecordedOnceHolds` | `Spec => []PutsAreRecordedOnce` |
| `PutReachesEveryServerHolds` | `Spec => []PutReachesEveryServer` |
| `UpdatedIsNotAssumedHolds` | `Spec => []UpdatedIsNotAssumed` |

`ClientInv` follows a put through its routes. `Once`: what may still be handled is not recorded yet and has one request, and a put that
may be asked for again, before it is sent or after a 404, has neither a record nor a request; a request given up is never followed by
another, since only a 404 leads to the next route. `Reached`: without faults a 404 means that the route is missing, so after the last
one the server would serve no version. `Told`: an answer "updated" shows the end of the record.

`LogSubmissionProofs` proves, for any number of threads, any interval and any faults (`SubmitAssumption`):

| Theorem | States |
|---|---|
| `SubmitTypeCorrect` | `Spec => []SubmitTypeOK` |
| `LoneReportArrivesHolds` | `Spec => []LoneReportArrives` |
| `OneReportPerIntervalHolds` | `Spec => []OneReportPerInterval` |

`LogInv` says that a call which is not disturbed is the only one there is (`LoneIsAlone`: a call that begins disturbs the others), what such a call
finds before each of its steps (`LoneFindsOwn`: no archive when it creates one, its own and whole when it sends it, whatever was
left on disk), how the dates are ordered (`DatesAreOrdered`: no report is later than the flag, nor the flag than the clock, and a call that
passed by a flag is more than the interval after it), and that the reports under way are apart from each other and from those that
arrived (`ReportsAreApart`). One of two that pass by the same flag finds it rewritten and is not `fresh`: that is the exemption of the property, and no hypothesis
about the faults is needed.

**Only model-checked**: liveness (`Converges`, `RequestsAreTaken`, `BothStagesEnd`, `FilesArrive`, `CallsReturn`,
`RepeatedInstallSucceeds`, `MsiCallsReturn`, `ServesAgain`, `FalseFailureIsCorrected`, `TokenIsFetched`, `TimeIsKept`), which is out of the
provers' reach; and the violation of `FinishedIsComplete`. No run lists `SnapTypeOK`, `RestTypeOK`, `MsiTypeOK`, `StartTypeOK`, `ClientTypeOK`,
`SubmitTypeOK` and `LicenseIsNotLost`, as theorems state them for every instance.

## 6. Mutants

Every property of a passing run has a mutated definition ("As a bug: ..." in the modules), written beside the
definition it mutates: a mark left out, a merge where the code replaces, a report in the other order, a timer looked at first.
Under the run's own constants TLC finds the property violated with it.

## 7. Plan

1. *Done*: `Manifest`, `InstallManager`, `OTAManager`, their runs, `OTAManagerProofs`.
2. *Done*: `VerifiedDownload`, `Download`, their runs, `DownloadProofs`; disk space.
3. *Done*: `PackageCall`, `SnapInstaller`, its run, `SnapInstallerProofs`.
4. *Done*: `RestListener`, `RestClient`, `MsiInstaller`, `LogSubmission`, `Startup`, their runs.
5. *Done*: `RestListenerProofs`, `MsiInstallerProofs`, `StartupProofs`, `RestClientProofs`, `LogSubmissionProofs`.
6. *Done*: proofs of `RecordedIsInstalled`, `SavedIsRecorded`, `RolledBackIsRecorded`, `SuccessIsReal`, `StatusesAgree`,
   `OperatorStageFirst` and `PartsAreKept`.
7. *Done*: `MarkedUpdate`, what an update promises, and `OTAManager` as a refinement of it (`UpdatePromiseKept`).
8. `SnapInstaller`'s late landings in `InstallManager`.

## 8. Not modelled

* The progress window, `windows_service_control.rs` and the permissions of files on Windows: no state that anything modelled reads.
  `windows_installer.rs` is commented out.
* The version table: a value that is displayed. That it cannot be read without credentials is in `RestListener`.
* The task list, the network queries, `artifactory_comm.rs` (not called): they change nothing.
* What Core is told during an update, and the statistics of a download's progress.
* `standardize`, `standardize_prev_dir`: one-time moves of files of older versions.
* The processes of a component killed before its installation: nothing is left of that afterwards.
* The commands of the apt and tar installers one by one: their outcomes are in `InstallManager`.
* Packaging, build scripts and the end-to-end tests.
