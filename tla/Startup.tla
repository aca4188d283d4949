------------------------------- MODULE Startup --------------------------------
(***************************************************************************)
(* The start of the agent (src/src/bin/phantom_agent.rs) and the threads   *)
(* that begin with it: the config watcher (config_watcher.rs), the logger  *)
(* with its retention (logger/) and the time service (utils/               *)
(* verify_ntp.rs).  They meet in the log folder, which every start and     *)
(* every change of the configuration opens anew and may clear, and in the  *)
(* clock, by which the age of the log is told.                             *)
(***************************************************************************)
EXTENDS Integers

CONSTANTS
  Configs,           \* the configurations an administrator writes
  DefaultRetention,  \* the days a log is kept, 14 in the code
  WordSize,          \* unsigned numbers wrap around at it, 2^64 seconds in the code
  MaxDay,            \* the last day of the model
  Zone,              \* what the machine's time zone adds to UTC, negative in the west
  MaxAttempts,       \* the attempts of a synchronisation, 10 in the code
  StartFaults        \* what may go wrong

\* "kill"     the agent is killed, and started again
\* "clear"    the log folder cannot be cleared, or a file in it not opened
\* "copy"     the licence cannot be copied, or the copied file not removed
\* "clock"    the clock is set
\* "second"   a second agent is started
\* "command"  a command of the time service fails
\* "server"   no time server answers, or none with a time that can be used
ASSUME StartAssumption ==
  /\ DefaultRetention \in Nat /\ MaxDay \in Nat /\ MaxAttempts \in Nat /\ Zone \in Int
  /\ WordSize \in Nat /\ WordSize > MaxDay
  /\ \A c \in Configs : c.retention \in Nat
  /\ StartFaults \subseteq
       {"kill", "clear", "copy", "clock", "second", "command", "server"}

VARIABLES
  platform,   \* "linux" or "windows"
  today,      \* the day
  clock,      \* the day the machine believes in
  logDay,     \* the day phantom_agent.log was created, or NoLog
  main,       \* the step of main that is next, or "off"
  opened,     \* the settings of a thread that has opened a log for a new logger
  onDisk,     \* who has opened the log that is on disk: threads, and "logger", the one in force
  intruded,   \* another agent opened a log of its own since
  early,      \* the configuration was edited while the agent started
  inForce,    \* the settings of the logger
  config,     \* the file: NoConfig, Torn, or what is written in it
  watcher,    \* the thread: "off", "starting", "watching" or "dead"
  modified,   \* the watcher has an event it has not read
  touched,    \* the file was written since the agent is up and watches it
  source,     \* the licence at its old place: "none" or "whole"
  licence,    \* the licence at its place: "none", "part" or "whole"
  ntp,        \* the step of the time thread, or "off"
  service,    \* the time service of the system is "on" or "off"
  attempt     \* the attempts of this synchronisation

logging == <<logDay, opened, onDisk, intruded, inForce>>
watching == <<watcher, modified, touched, early>>
licences == <<source, licence>>
time == <<ntp, service, attempt>>
vars == <<platform, today, clock, main, config, logging, watching, licences, time>>

NoLog == -1
Days == 0..MaxDay
Torn == [level |-> "torn", retention |-> 0]
NoConfig == [level |-> "none", retention |-> 0]
Default == [level |-> "info", retention |-> DefaultRetention]
FirstConfig == [level |-> "trace", retention |-> DefaultRetention]

\* A file without valid settings of the logger stands for the default ones.
Files == Configs \cup {Default}

\* A file that is torn, or missing, is none of the configurations.
ASSUME ConfigAssumption == Torn \notin Configs /\ NoConfig \notin Configs

Threads == {"main", "watcher"}
AllClosed == [t \in Threads |-> NoConfig]

Init ==
  /\ platform \in {"linux", "windows"}
  /\ today = 0 /\ clock \in Days
  /\ logDay = NoLog /\ inForce = NoConfig
  /\ opened = AllClosed /\ onDisk = {} /\ intruded = FALSE /\ early = FALSE
  /\ main = "off"
  /\ config \in {NoConfig} \cup Files
  /\ watcher = "off" /\ modified = FALSE /\ touched = FALSE
  /\ source \in {"none", "whole"} /\ licence = "none"
  /\ ntp = "off" /\ service \in {"on", "off"} /\ attempt = 0

-----------------------------------------------------------------------------
(* The logger *)

\* apply_retention_policy subtracts days from the clock without a sign: a retention
\* longer than the time since 1970 leaves a limit in the far future.
Limit(retention) == (clock - retention) % WordSize

\* get_file_created_time: debugfs tells the local time, which is read as UTC; the
\* metadata of Windows are exact.
Created == IF platform = "linux" THEN logDay + Zone ELSE logDay

\* As a bug: a log as old as the retention is too old.
ExpiredEarly(retention) == logDay # NoLog /\ Created >= 0 /\ Created <= Limit(retention)

\* A time before 1970 is an error, and the log is kept.
Expired(retention) == logDay # NoLog /\ Created >= 0 /\ Created < Limit(retention)

\* get_file_created_time asks df and debugfs.
AgeUnknown == "command" \in StartFaults /\ platform = "linux"

\* The folder is cleared when the log is old, unless nobody tells how old it is.
Decided(retention, clears) == clears = Expired(retention) \/ (AgeUnknown /\ ~clears)

\* clear_folder takes the log away from under everyone who has opened it.
Keep(clears) == IF clears THEN {} ELSE onDisk

\* As a bug: the log is opened before the folder is cleared.
OpenLogFirst(t, settings, clears) ==
  /\ logDay' = IF clears THEN NoLog ELSE IF logDay = NoLog THEN clock ELSE logDay
  /\ onDisk' = IF clears THEN {} ELSE onDisk \cup (Threads \cap {t})
  /\ opened' = [u \in Threads |-> IF u = t THEN settings ELSE opened[u]]

\* PhantomFileSink::new: the folder is cleared or not, and the log opened or created.
OpenLog(t, settings, clears) ==
  /\ logDay' = IF clears \/ logDay = NoLog THEN clock ELSE logDay
  /\ onDisk' = Keep(clears) \cup (Threads \cap {t})
  /\ opened' = [u \in Threads |-> IF u = t THEN settings ELSE opened[u]]

\* configure_logging, to where the new logger is made.
Configure(t, settings) ==
  /\ opened[t] = NoConfig
  /\ \E clears \in BOOLEAN :
       Decided(settings.retention, clears) /\ OpenLog(t, settings, clears)
  /\ UNCHANGED <<intruded, inForce>>

\* The end of configure_logging: the new logger takes the place of the old.
SwapLogger(t) ==
  /\ opened[t] # NoConfig
  /\ inForce' = opened[t]
  /\ onDisk' = IF t \in onDisk THEN (onDisk \ {t}) \cup {"logger"} ELSE onDisk \ {"logger"}
  /\ intruded' = (intruded /\ t \notin onDisk)
  /\ opened' = [opened EXCEPT ![t] = NoConfig]
  /\ UNCHANGED logDay

\* A panic on the way: nothing was cleared yet, or the log is gone and no other opened.
ConfigurePanics(retention) ==
  /\ "clear" \in StartFaults
  /\ \E clears \in BOOLEAN :
       /\ clears => Expired(retention)
       /\ logDay' = IF clears THEN NoLog ELSE logDay
       /\ onDisk' = Keep(clears)
  /\ UNCHANGED opened

-----------------------------------------------------------------------------
(* main *)

ConfigValid == config \in Files

\* A panic of main, and a kill, end every thread.
Dies ==
  /\ main' = "off" /\ watcher' = "off" /\ ntp' = "off"
  /\ opened' = AllClosed /\ onDisk' = {} /\ intruded' = FALSE /\ inForce' = NoConfig
  /\ modified' = FALSE /\ touched' = FALSE /\ early' = FALSE /\ attempt' = 0
  /\ UNCHANGED <<platform, today, clock, config, licences, service>>

Launch ==
  /\ main = "off" /\ main' = "log"
  /\ UNCHANGED <<platform, today, clock, config, logging, watching, licences, time>>

LogConfigure ==
  /\ main = "log"
  /\ Configure("main", FirstConfig)
  /\ UNCHANGED <<platform, today, clock, main, config, watching, licences, time>>

\* main after its new logger is in force; after the last one it starts the time thread.
Configured ==
  /\ main \in {"log", "read", "defaults"}
  /\ SwapLogger("main")
  /\ main' = CASE main = "log" -> "licence" [] main = "read" -> "defaults" [] OTHER -> "up"
  /\ ntp' = IF main = "defaults" THEN "check" ELSE ntp
  /\ UNCHANGED <<platform, today, clock, config, watching, licences, service, attempt>>

\* Whoever finds another agent has opened the log already, or failed to.
SecondAgent ==
  /\ "second" \in StartFaults
  /\ main \notin {"off", "log"}
  /\ \/ \E clears \in BOOLEAN :
          /\ Decided(DefaultRetention, clears)
          /\ clears \/ logDay = NoLog
          /\ OpenLog("second", FirstConfig, clears)
     \/ ConfigurePanics(DefaultRetention) /\ logDay' # logDay
  /\ intruded' = TRUE
  /\ UNCHANGED <<platform, today, clock, main, config, inForce, watching, licences, time>>

\* move_license copies and removes: a copy that was cut short stays, as nothing is
\* copied to a file that exists.
CopyLicense ==
  /\ main = "licence"
  /\ IF source = "whole" /\ licence = "none"
     THEN licence' = "part" /\ main' = "copy"
     ELSE main' = "watch" /\ UNCHANGED licence
  /\ UNCHANGED <<platform, today, clock, config, logging, watching, source, time>>

FinishCopy ==
  /\ main = "copy" /\ main' = "watch"
  /\ \/ licence' = "whole" /\ source' = "none"
     \/ "copy" \in StartFaults /\ licence' \in {licence, "whole"} /\ UNCHANGED source
  /\ UNCHANGED <<platform, today, clock, config, logging, watching, time>>

StartWatcher ==
  /\ main = "watch" /\ main' = "read"
  /\ watcher' = "starting"
  /\ UNCHANGED <<platform, today, clock, config, logging, modified, touched, early, licences, time>>

\* The file's configuration lasts only to the next step.  A file that is none is a
\* panic.
UpdateConfig ==
  /\ main = "read"
  /\ \/ ConfigValid /\ Configure("main", config) /\ UNCHANGED main
     \/ config = NoConfig /\ opened["main"] = NoConfig /\ main' = "defaults" /\ UNCHANGED logging
  /\ UNCHANGED <<platform, today, clock, config, watching, licences, time>>

UpdateConfigPanics ==
  /\ main = "read" /\ config = Torn /\ opened["main"] = NoConfig
  /\ Dies /\ UNCHANGED logDay

Defaults ==
  /\ main = "defaults"
  /\ Configure("main", Default)
  /\ UNCHANGED <<platform, today, clock, main, config, watching, licences, time>>

\* Ended while it configures, the agent leaves the log, or none when it was old.
CutShort(retention) == logDay' = logDay \/ (Expired(retention) /\ logDay' = NoLog)

ConfigureFails ==
  /\ StartFaults \cap {"clear", "kill"} # {} /\ opened["main"] = NoConfig
  /\ \/ main \in {"log", "defaults"} /\ CutShort(DefaultRetention)
     \/ main = "read" /\ ConfigValid /\ CutShort(config.retention)
  /\ Dies

Kill == "kill" \in StartFaults /\ main # "off" /\ Dies /\ UNCHANGED logDay

-----------------------------------------------------------------------------
(* The config watcher *)

WatcherStarts ==
  /\ watcher = "starting" /\ watcher' = "watching"
  /\ UNCHANGED <<platform, today, clock, main, config, logging, modified, touched, early,
                 licences, time>>

\* As a bug: the settings that were in force are applied again.
ReadEventKeeps ==
  /\ watcher = "watching" /\ modified /\ opened["watcher"] = NoConfig
  /\ modified' = FALSE
  /\ \/ ConfigValid /\ Configure("watcher", inForce)
     \/ config = NoConfig /\ UNCHANGED logging
  /\ UNCHANGED <<platform, today, clock, main, config, watcher, touched, early, licences, time>>

\* For every event the file is read as it is then.
ReadEvent ==
  /\ watcher = "watching" /\ modified /\ opened["watcher"] = NoConfig
  /\ modified' = FALSE
  /\ \/ ConfigValid /\ Configure("watcher", config)
     \/ config = NoConfig /\ UNCHANGED logging
  /\ UNCHANGED <<platform, today, clock, main, config, watcher, touched, early, licences, time>>

\* The watcher's new logger is in force.
EventRead ==
  /\ watcher = "watching"
  /\ SwapLogger("watcher")
  /\ early' = (early /\ ~(main = "up" /\ "logger" \in onDisk'))
  /\ UNCHANGED <<platform, today, clock, main, config, watcher, modified, touched, licences, time>>

\* The thread ends with a panic, the agent goes on without it, and with the logger it
\* has, whose file may be gone.
ReadEventPanics ==
  /\ watcher = "watching" /\ modified /\ opened["watcher"] = NoConfig
  /\ watcher' = "dead" /\ modified' = FALSE
  /\ \/ config = Torn /\ UNCHANGED logging
     \/ ConfigValid /\ ConfigurePanics(config.retention) /\ UNCHANGED <<intruded, inForce>>
  /\ UNCHANGED <<platform, today, clock, main, config, touched, early, licences, time>>

\* An administrator's editor: the file is emptied, then written, or removed.
WriteConfig ==
  \/ /\ config' = Torn /\ config # Torn
     /\ modified' = (watcher = "watching") /\ UNCHANGED touched
  \/ /\ config = Torn /\ config' \in Files
     /\ modified' = (watcher = "watching")
     /\ touched' = (main = "up" /\ watcher = "watching")
  \/ /\ config' = NoConfig /\ config # NoConfig
     /\ touched' = FALSE /\ UNCHANGED modified

EditConfig ==
  /\ WriteConfig
  /\ early' = (early \/ (modified' /\ main # "up"))
  /\ UNCHANGED <<platform, today, clock, main, logging, watcher, licences, time>>

-----------------------------------------------------------------------------
(* The time thread.  On Linux it keeps the service of the system on, on Windows off, *)
(* where it sets the clock itself. *)

Wanted == IF platform = "linux" THEN "on" ELSE "off"

\* A command that fails reads as a service that is off, one that ends in an error on
\* Windows as a service that is on.
CheckService ==
  /\ ntp = "check"
  /\ \E seen \in {IF platform = "windows" THEN "on" ELSE service} \cup {"off" : f \in StartFaults \cap {"command"}} :
       ntp' = IF seen # Wanted THEN "set" ELSE IF platform = "windows" THEN "sync" ELSE "sleep"
  /\ UNCHANGED <<platform, today, clock, main, config, logging, watching, licences, service, attempt>>

SetService ==
  /\ ntp = "set"
  /\ service' = Wanted
  /\ ntp' = IF platform = "windows" THEN "sync" ELSE "sleep"
  /\ UNCHANGED <<platform, today, clock, main, config, logging, watching, licences, attempt>>

\* The service cannot be switched, or SetLocalTime is refused.
CommandFails ==
  /\ "command" \in StartFaults
  /\ \/ ntp = "set" /\ ntp' = IF platform = "windows" THEN "sync" ELSE "sleep"
     \/ ntp = "sync" /\ attempt < MaxAttempts /\ ntp' = "sleep"
  /\ attempt' = 0
  /\ UNCHANGED <<platform, today, clock, main, config, logging, watching, licences, service>>

\* The clock is set after the nearest server that answered.
Synchronize ==
  /\ ntp = "sync" /\ attempt < MaxAttempts
  /\ clock' = today /\ ntp' = "sleep" /\ attempt' = 0
  /\ UNCHANGED <<platform, today, main, config, logging, watching, licences, service>>

\* As a bug: one attempt that fails ends the thread.
AttemptFailsForGood ==
  /\ ntp = "sync" /\ attempt < MaxAttempts
  /\ "server" \in StartFaults
  /\ attempt' = attempt + 1 /\ ntp' = "off"
  /\ UNCHANGED <<platform, today, clock, main, config, logging, watching, licences, service>>

AttemptFails ==
  /\ ntp = "sync" /\ attempt < MaxAttempts
  /\ "server" \in StartFaults
  /\ attempt' = attempt + 1
  /\ UNCHANGED <<platform, today, clock, main, config, logging, watching, licences, ntp, service>>

SynchronizeFails ==
  /\ ntp = "sync" /\ attempt = MaxAttempts
  /\ ntp' = "sleep" /\ attempt' = 0
  /\ UNCHANGED <<platform, today, clock, main, config, logging, watching, licences, service>>

Sleep ==
  /\ ntp = "sleep" /\ ntp' = "check"
  /\ UNCHANGED <<platform, today, clock, main, config, logging, watching, licences, service, attempt>>

SystemSynchronizes ==
  /\ platform = "linux" /\ service = "on" /\ clock' = today
  /\ UNCHANGED <<platform, today, main, config, logging, watching, licences, time>>

\* An administrator, or a machine without a battery.
Disturb ==
  /\ "clock" \in StartFaults
  /\ \/ clock' \in Days \ {clock} /\ UNCHANGED service
     \/ service' \in {"on", "off"} \ {service} /\ UNCHANGED clock
  /\ UNCHANGED <<platform, today, main, config, logging, watching, licences, ntp, attempt>>

Tomorrow ==
  /\ today < MaxDay /\ today' = today + 1
  /\ clock' = IF clock < MaxDay THEN clock + 1 ELSE clock
  /\ UNCHANGED <<platform, main, config, logging, watching, licences, time>>

-----------------------------------------------------------------------------
NtpStep == CheckService \/ SetService \/ Synchronize \/ SynchronizeFails \/ Sleep

Next ==
  \/ Launch \/ LogConfigure \/ Configured \/ CopyLicense \/ FinishCopy
  \/ StartWatcher \/ UpdateConfig \/ UpdateConfigPanics \/ Defaults
  \/ ConfigureFails \/ Kill \/ SecondAgent
  \/ WatcherStarts \/ ReadEvent \/ EventRead \/ ReadEventPanics \/ EditConfig
  \/ NtpStep \/ CommandFails \/ AttemptFails \/ SystemSynchronizes \/ Disturb \/ Tomorrow

Spec == Init /\ [][Next]_vars

\* The time thread goes on, and so does the service of the system.
FairSpec == Spec /\ WF_vars(NtpStep) /\ WF_vars(SystemSynchronizes)

-----------------------------------------------------------------------------
(* Properties *)

StartTypeOK ==
  /\ platform \in {"linux", "windows"} /\ today \in Days /\ clock \in Days
  /\ logDay \in Days \cup {NoLog}
  /\ main \in {"off", "log", "licence", "copy", "watch", "read", "defaults", "up"}
  /\ opened \in [Threads -> Files \cup {FirstConfig, NoConfig}]
  /\ onDisk \subseteq Threads \cup {"logger"} /\ intruded \in BOOLEAN /\ early \in BOOLEAN
  /\ inForce \in Files \cup {NoConfig, FirstConfig}
  /\ config \in Files \cup {NoConfig, Torn}
  /\ watcher \in {"off", "starting", "watching", "dead"}
  /\ modified \in BOOLEAN
  /\ modified => watcher = "watching"
  /\ touched \in BOOLEAN
  /\ source \in {"none", "whole"} /\ licence \in {"none", "part", "whole"}
  /\ ntp \in {"off", "check", "set", "sync", "sleep"} /\ service \in {"on", "off"}
  /\ ntp # "off" => main = "up"
  /\ attempt \in 0..MaxAttempts

Shortest == {c.retention : c \in Configs} \cup {DefaultRetention}

\* A log is cleared only when its age, by the clock, exceeds the shortest retention
\* there is by more than the machine's distance from UTC, whoever opens it and whenever
\* the configuration changes: west of UTC that is hours before the retention ends, as
\* its local time of creation is read as UTC.  Exempt is a clock so early, or a
\* retention so long, that the limit wraps around (phantom_file_logger.rs:73-100,
\* file_creation_date_util.rs:64-85).
YoungLogIsKept ==
  [][logDay # NoLog /\ logDay' # logDay =>
       \/ \E r \in Shortest : clock - Created > r
       \/ clock < DefaultRetention \/ (ConfigValid /\ clock < config.retention)]_vars

\* As the tests of the retention have it: a log older than its retention is cleared
\* when the agent starts (phantom_file_logger.rs:152-169).
OldLogIsCleared ==
  [][LogConfigure /\ logDay # NoLog /\ clock - logDay > DefaultRetention => logDay' # logDay]_vars

\* The agent writes to the log that is on disk, the one it sends to a ticket, or is about
\* to, however its threads configure it.  Only another agent, which opens the log before the
\* instances are counted (phantom_agent.rs:81-89), an edit during the start, when main
\* and the watcher configure at once (phantom_agent.rs:101-104), and a watcher whose
\* panic left no log at all (phantom_file_logger.rs:41-43, 97) take it away.
LogIsOnDisk ==
  main \notin {"off", "log"} =>
    \/ onDisk # {} \/ intruded \/ early \/ (watcher = "dead" /\ logDay = NoLog)

\* What was written to the configuration while the agent was up is in force when the
\* watcher has read its events, whatever interleaved with the start and the events of
\* one edit (config_watcher.rs:47-60).  What it held before is not: the defaults
\* replace it (phantom_agent.rs:103-104).
EditIsInForce ==
  watcher = "watching" /\ touched /\ ~modified /\ opened["watcher"] = NoConfig /\ ConfigValid
    => inForce = config

\* The licence is not lost by the move, killed or failed at any point, though a part
\* of it may stand in the place of the whole (license_manager.rs:110-131).
LicenseIsNotLost ==
  [][source = "whole" => source' = "whole" \/ licence' = "whole"]_vars

\* The clock is right again and again while the agent is up, once nothing fails and
\* nobody sets it (verify_ntp.rs:5-73, 197-260, phantom_agent.rs:106-139).
TimeIsKept ==
  (<>[][~Disturb /\ ~AttemptFails /\ ~CommandFails]_vars) => (main = "up" ~> main = "off" \/ clock = today)
=============================================================================
