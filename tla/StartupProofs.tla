----------------------------- MODULE StartupProofs ------------------------------
(***************************************************************************)
(* What holds of Startup for every set of configurations, any retention,   *)
(* word size and number of days, and whatever fails: the log that is       *)
(* written is the one on disk and not cleared early, an edit of the        *)
(* configuration is in force when its events are read, and the licence     *)
(* survives its move.                                                      *)
(***************************************************************************)
EXTENDS Startup, TLAPS

-----------------------------------------------------------------------------
(* The inductive invariant *)

\* Only what is written while main is done and the watcher watches counts as an edit:
\* main applies nothing after that.
TouchedWhileWatching ==
  touched => main = "up" /\ watcher \in {"watching", "dead"}

\* The watcher is started by main.
WatcherAfterMain ==
  main \in {"off", "log", "licence", "copy", "watch"} => watcher = "off"

\* A thread has a logger of its own to put in force only where it configures.
OpenedAtWork ==
  /\ opened["main"] # NoConfig => main \in {"log", "read", "defaults"}
  /\ opened["watcher"] # NoConfig => watcher = "watching"

\* Without an edit the watcher does nothing while main starts.
QuietStart ==
  ~early /\ main # "up" => ~modified /\ opened["watcher"] = NoConfig /\ watcher # "dead"

\* What a thread is about to put in force writes to the log on disk.
OpenedOnDisk ==
  \A t \in Threads : opened[t] # NoConfig => t \in onDisk \/ intruded \/ early

\* The last edit is in force, or what the watcher is about to put in force.
EditIsRead ==
  watcher = "watching" /\ touched /\ ~modified /\ ConfigValid =>
    IF opened["watcher"] = NoConfig THEN inForce = config ELSE opened["watcher"] = config

StartInv ==
  /\ StartTypeOK /\ WatcherAfterMain /\ TouchedWhileWatching /\ OpenedAtWork
  /\ QuietStart /\ OpenedOnDisk /\ LogIsOnDisk /\ EditIsRead

-----------------------------------------------------------------------------
(* The logger *)

\* A limit that does not wrap around is the day it is meant to be.
LEMMA LimitIsDay ==
  ASSUME StartTypeOK, NEW r \in Nat, clock >= r
  PROVE  Limit(r) = clock - r
<1>1. clock \in Nat /\ clock <= MaxDay /\ MaxDay \in Nat /\ WordSize \in Nat /\ WordSize > MaxDay
  BY StartAssumption DEF StartTypeOK, Days
<1>2. clock - r \in 0..(WordSize - 1)
  BY <1>1
<1>3. \A w \in Nat \ {0} : \A d \in 0..(w - 1) : d % w = d
  OBVIOUS
<1>4. QED
  BY <1>1, <1>2, <1>3 DEF Limit

\* Settings that are applied are not those of a missing file.
LEMMA SettingsAreSome == \A c \in Files \cup {FirstConfig} : c # NoConfig
  BY ConfigAssumption DEF Files, Default, FirstConfig, NoConfig

\* A log that is cleared was older than the retention, unless the limit wrapped around.
LEMMA ExpiredIsOld ==
  ASSUME StartTypeOK, NEW r \in Nat, clock >= r, Expired(r)
  PROVE  clock - Created > r
<1>1. logDay \in Int /\ clock \in Int
  BY StartAssumption DEF StartTypeOK, Days, NoLog
<1>2. Created \in Int
  BY <1>1, StartAssumption DEF Created
<1>3. Created < clock - r
  BY LimitIsDay DEF Expired
<1>4. QED
  BY <1>1, <1>2, <1>3

\* A thread that has opened a log holds the one on disk.
LEMMA OpenLogOpens ==
  ASSUME StartTypeOK, NEW t, NEW c \in Files \cup {FirstConfig}, NEW clears \in BOOLEAN,
         OpenLog(t, c, clears)
  PROVE  /\ logDay' \in Days
         /\ opened' \in [Threads -> Files \cup {FirstConfig, NoConfig}]
         /\ onDisk' \subseteq Threads \cup {"logger"}
         /\ t \in Threads => opened'[t] = c /\ opened'[t] # NoConfig /\ t \in onDisk'
         /\ \A u \in Threads \ {t} : opened'[u] = opened[u]
<1>1. logDay' \in Days
  BY DEF OpenLog, StartTypeOK
<1>2. opened' \in [Threads -> Files \cup {FirstConfig, NoConfig}]
  BY DEF OpenLog, StartTypeOK
<1>3. onDisk' \subseteq Threads \cup {"logger"}
  BY DEF OpenLog, Keep, StartTypeOK
<1>4. t \in Threads => opened'[t] = c /\ t \in onDisk'
  BY DEF OpenLog
<1>5. \A u \in Threads \ {t} : opened'[u] = opened[u]
  BY DEF OpenLog
<1>6. QED
  BY <1>1, <1>2, <1>3, <1>4, <1>5, SettingsAreSome

-----------------------------------------------------------------------------
(* Each group of actions keeps the invariant *)

\* A process that ends leaves the clock, the service and the configuration.
LEMMA DiesKeeps == ASSUME StartInv, Dies, logDay' \in {logDay, NoLog} PROVE StartInv'
<1>1. 0 \in 0..MaxAttempts
  BY StartAssumption
<1>2. /\ opened' \in [Threads -> Files \cup {FirstConfig, NoConfig}]
      /\ \A t \in Threads : opened'[t] = NoConfig
  BY DEF Dies, AllClosed
<1>3. opened'["main"] = NoConfig /\ opened'["watcher"] = NoConfig
  BY <1>2 DEF Threads
<1>4. QED
  BY <1>1, <1>2, <1>3 DEF StartInv, StartTypeOK, WatcherAfterMain, TouchedWhileWatching, OpenedAtWork,
     QuietStart, OpenedOnDisk, LogIsOnDisk, EditIsRead, Dies, licences

\* main's steps beside the logger.
LEMMA MainKeeps ==
  ASSUME StartInv,
         \/ Launch \/ CopyLicense \/ FinishCopy \/ StartWatcher
         \/ /\ main = "read" /\ main' = "defaults" /\ opened["main"] = NoConfig
            /\ UNCHANGED <<platform, today, clock, config, logging, watching, licences, time>>
  PROVE  StartInv'
<1> USE DEF StartInv, StartTypeOK, WatcherAfterMain, TouchedWhileWatching, OpenedAtWork, QuietStart,
            OpenedOnDisk, LogIsOnDisk, EditIsRead, logging, watching, licences, time, ConfigValid
<1>1. CASE Launch
  BY <1>1 DEF Launch
<1>2. CASE CopyLicense
  BY <1>2 DEF CopyLicense
<1>3. CASE FinishCopy
  BY <1>3 DEF FinishCopy
<1>4. CASE StartWatcher
  BY <1>4 DEF StartWatcher
<1>5. CASE /\ main = "read" /\ main' = "defaults" /\ opened["main"] = NoConfig
           /\ UNCHANGED <<platform, today, clock, config, logging, watching, licences, time>>
  BY <1>5
<1>6. QED
  BY <1>1, <1>2, <1>3, <1>4, <1>5

\* main opens a log: it may clear the folder under the watcher, which works only after
\* an early edit.
LEMMA MainConfigures ==
  ASSUME StartInv, NEW c \in Files \cup {FirstConfig}, Configure("main", c),
         main \in {"log", "read", "defaults"},
         UNCHANGED <<platform, today, clock, main, config, watching, licences, time>>
  PROVE  StartInv'
<1>1. PICK clears \in BOOLEAN : OpenLog("main", c, clears)
  BY DEF Configure
<1>2. /\ logDay' \in Days
      /\ opened' \in [Threads -> Files \cup {FirstConfig, NoConfig}]
      /\ onDisk' \subseteq Threads \cup {"logger"} /\ "main" \in onDisk'
      /\ opened'["watcher"] = opened["watcher"]
  <2>1. "main" \in Threads /\ "watcher" \in Threads \ {"main"}
    BY DEF Threads
  <2>2. StartTypeOK
    BY DEF StartInv
  <2>3. QED
    BY <1>1, <2>1, <2>2, OpenLogOpens
<1>3. UNCHANGED <<intruded, inForce, early, watcher, modified, touched, platform, today, clock, main,
                  config, source, licence, ntp, service, attempt>>
  BY DEF Configure, watching, licences, time
<1>4. StartTypeOK'
  BY <1>2, <1>3 DEF StartInv, StartTypeOK
<1>5. OpenedOnDisk'
  <2>1. opened["watcher"] # NoConfig => early
    BY DEF StartInv, QuietStart
  <2>2. QED
    BY <1>2, <1>3, <2>1 DEF OpenedOnDisk, Threads
<1>6. WatcherAfterMain' /\ TouchedWhileWatching' /\ OpenedAtWork' /\ QuietStart'
  BY <1>2, <1>3 DEF StartInv, WatcherAfterMain, TouchedWhileWatching, OpenedAtWork, QuietStart
<1>7. LogIsOnDisk'
  BY <1>2 DEF LogIsOnDisk, Threads
<1>8. EditIsRead'
  BY <1>3 DEF StartInv, TouchedWhileWatching, EditIsRead
<1>9. QED
  BY <1>4, <1>5, <1>6, <1>7, <1>8 DEF StartInv

\* main puts its logger in force.
LEMMA ConfiguredKeeps == ASSUME StartInv, Configured PROVE StartInv'
<1>1. /\ main \in {"log", "read", "defaults"} /\ opened["main"] # NoConfig
      /\ inForce' = opened["main"]
      /\ onDisk' = IF "main" \in onDisk THEN (onDisk \ {"main"}) \cup {"logger"}
                   ELSE onDisk \ {"logger"}
      /\ intruded' = (intruded /\ "main" \notin onDisk)
      /\ opened' = [opened EXCEPT !["main"] = NoConfig]
      /\ main' \in {"licence", "defaults", "up"} /\ (main = "log" => main' = "licence")
      /\ (main = "read" => main' = "defaults") /\ (main = "defaults" => main' = "up")
      /\ ntp' = IF main = "defaults" THEN "check" ELSE ntp
      /\ UNCHANGED <<logDay, platform, today, clock, config, watcher, modified, touched, early,
                     source, licence, service, attempt>>
  BY DEF Configured, SwapLogger, watching, licences
<1>2. /\ opened["main"] \in Files \cup {FirstConfig, NoConfig}
      /\ onDisk' \subseteq Threads \cup {"logger"} /\ intruded' \in BOOLEAN
  BY <1>1 DEF StartInv, StartTypeOK, Threads
<1>3. /\ opened' \in [Threads -> Files \cup {FirstConfig, NoConfig}]
      /\ opened'["main"] = NoConfig /\ opened'["watcher"] = opened["watcher"]
  BY <1>1 DEF StartInv, StartTypeOK, Threads
<1>4. StartTypeOK'
  BY <1>1, <1>2, <1>3 DEF StartInv, StartTypeOK
<1>5. "main" \in onDisk \/ intruded \/ early
  BY <1>1 DEF StartInv, OpenedOnDisk, Threads
<1>6. opened["watcher"] # NoConfig => early
  BY <1>1 DEF StartInv, QuietStart
<1>7. OpenedOnDisk' /\ LogIsOnDisk'
  BY <1>1, <1>3, <1>5, <1>6 DEF OpenedOnDisk, LogIsOnDisk, Threads
<1>8. WatcherAfterMain' /\ TouchedWhileWatching' /\ OpenedAtWork' /\ QuietStart'
  BY <1>1, <1>3 DEF StartInv, WatcherAfterMain, TouchedWhileWatching, OpenedAtWork, QuietStart
<1>9. EditIsRead'
  BY <1>1 DEF StartInv, TouchedWhileWatching, EditIsRead
<1>10. QED
  BY <1>4, <1>7, <1>8, <1>9 DEF StartInv

\* The watcher opens a log: while main starts, that is after an early edit.
LEMMA ReadEventStep == ASSUME StartInv, ReadEvent PROVE StartInv'
<1>1. /\ watcher = "watching" /\ modified /\ ~modified' /\ modified' \in BOOLEAN
      /\ opened["watcher"] = NoConfig
      /\ UNCHANGED <<platform, today, clock, main, config, watcher, touched, early, source, licence,
                     ntp, service, attempt>>
  BY DEF ReadEvent, licences, time
<1>2. main # "up" => early
  BY <1>1 DEF StartInv, QuietStart
<1>3. CASE ConfigValid /\ Configure("watcher", config)
  <2>1. PICK clears \in BOOLEAN : OpenLog("watcher", config, clears)
    BY <1>3 DEF Configure
  <2>2. config \in Files
    BY <1>3 DEF ConfigValid
  <2>3. /\ logDay' \in Days
        /\ opened' \in [Threads -> Files \cup {FirstConfig, NoConfig}]
        /\ onDisk' \subseteq Threads \cup {"logger"} /\ "watcher" \in onDisk'
        /\ opened'["watcher"] = config /\ opened'["watcher"] # NoConfig
        /\ opened'["main"] = opened["main"]
    BY <2>1, <2>2, OpenLogOpens DEF StartInv, Threads
  <2>4. UNCHANGED <<intruded, inForce>>
    BY <1>3 DEF Configure
  <2>5. StartTypeOK'
    BY <1>1, <2>3, <2>4 DEF StartInv, StartTypeOK
  <2>6. OpenedOnDisk'
    <3>1. opened["main"] # NoConfig => early
      BY <1>2 DEF StartInv, OpenedAtWork
    <3>2. QED
      BY <1>1, <2>3, <3>1 DEF OpenedOnDisk, Threads
  <2>7. WatcherAfterMain' /\ TouchedWhileWatching' /\ OpenedAtWork' /\ QuietStart'
    BY <1>1, <1>2, <2>3 DEF StartInv, WatcherAfterMain, TouchedWhileWatching, OpenedAtWork, QuietStart
  <2>8. LogIsOnDisk'
    BY <2>3 DEF LogIsOnDisk, Threads
  <2>9. EditIsRead'
    BY <1>1, <2>3 DEF EditIsRead
  <2>10. QED
    BY <2>5, <2>6, <2>7, <2>8, <2>9 DEF StartInv
<1>4. CASE config = NoConfig /\ UNCHANGED logging
  <2>1. config \notin Files
    BY <1>4, SettingsAreSome
  <2>2. UNCHANGED <<logDay, opened, onDisk, intruded, inForce>>
    BY <1>4 DEF logging
  <2>3. StartTypeOK'
    BY <1>1, <2>2 DEF StartInv, StartTypeOK
  <2>4. OpenedOnDisk' /\ LogIsOnDisk'
    BY <1>1, <2>2 DEF StartInv, OpenedOnDisk, LogIsOnDisk
  <2>5. WatcherAfterMain' /\ TouchedWhileWatching' /\ OpenedAtWork' /\ QuietStart'
    BY <1>1, <1>2, <2>2 DEF StartInv, WatcherAfterMain, TouchedWhileWatching, OpenedAtWork, QuietStart
  <2>6. EditIsRead'
    BY <1>1, <2>1 DEF EditIsRead, ConfigValid
  <2>7. QED
    BY <2>3, <2>4, <2>5, <2>6 DEF StartInv
<1>5. QED
  BY <1>3, <1>4 DEF ReadEvent

\* The watcher puts its logger in force.
LEMMA EventReadKeeps == ASSUME StartInv, EventRead PROVE StartInv'
<1>1. /\ watcher = "watching" /\ opened["watcher"] # NoConfig
      /\ inForce' = opened["watcher"]
      /\ onDisk' = IF "watcher" \in onDisk THEN (onDisk \ {"watcher"}) \cup {"logger"}
                   ELSE onDisk \ {"logger"}
      /\ intruded' = (intruded /\ "watcher" \notin onDisk)
      /\ opened' = [opened EXCEPT !["watcher"] = NoConfig]
      /\ early' = (early /\ ~(main = "up" /\ "logger" \in onDisk'))
      /\ UNCHANGED <<logDay, platform, today, clock, main, config, watcher, modified, touched,
                     source, licence, ntp, service, attempt>>
  BY DEF EventRead, SwapLogger, licences, time
<1>2. /\ opened["watcher"] \in Files \cup {FirstConfig, NoConfig}
      /\ onDisk' \subseteq Threads \cup {"logger"}
      /\ intruded' \in BOOLEAN /\ early' \in BOOLEAN
  BY <1>1 DEF StartInv, StartTypeOK, Threads
<1>3. /\ opened' \in [Threads -> Files \cup {FirstConfig, NoConfig}]
      /\ opened'["watcher"] = NoConfig /\ opened'["main"] = opened["main"]
  BY <1>1 DEF StartInv, StartTypeOK, Threads
<1>4. StartTypeOK'
  BY <1>1, <1>2, <1>3 DEF StartInv, StartTypeOK
<1>5. "watcher" \in onDisk \/ intruded \/ early
  BY <1>1 DEF StartInv, OpenedOnDisk, Threads
<1>6. main # "up" => early
  BY <1>1 DEF StartInv, QuietStart
<1>7. opened["main"] # NoConfig => main # "up"
  BY DEF StartInv, OpenedAtWork
<1>8. OpenedOnDisk' /\ LogIsOnDisk'
  BY <1>1, <1>3, <1>5, <1>6, <1>7 DEF OpenedOnDisk, LogIsOnDisk, Threads
<1>9. WatcherAfterMain' /\ TouchedWhileWatching' /\ OpenedAtWork' /\ QuietStart'
  BY <1>1, <1>3, <1>6 DEF StartInv, WatcherAfterMain, TouchedWhileWatching, OpenedAtWork, QuietStart
<1>10. EditIsRead'
  BY <1>1, <1>3 DEF StartInv, EditIsRead, ConfigValid
<1>11. QED
  BY <1>4, <1>8, <1>9, <1>10 DEF StartInv

\* The watcher dies; the log may be gone with it.
LEMMA ReadEventPanicsKeeps == ASSUME StartInv, ReadEventPanics PROVE StartInv'
<1>1. /\ watcher = "watching" /\ watcher' = "dead" /\ modified /\ ~modified' /\ modified' \in BOOLEAN
      /\ opened["watcher"] = NoConfig
      /\ UNCHANGED <<platform, today, clock, main, config, touched, early, source, licence,
                     ntp, service, attempt>>
  BY DEF ReadEventPanics, licences, time
<1>2. main # "up" => early
  BY <1>1 DEF StartInv, QuietStart
<1>3. /\ UNCHANGED <<opened, intruded, inForce>>
      /\ \/ UNCHANGED <<logDay, onDisk>>
         \/ logDay' = NoLog /\ onDisk' = {}
  BY DEF ReadEventPanics, ConfigurePanics, Keep, logging
<1>4. StartTypeOK'
  BY <1>1, <1>3 DEF StartInv, StartTypeOK
<1>5. opened["main"] # NoConfig => early
  BY <1>2 DEF StartInv, OpenedAtWork
<1>6. OpenedOnDisk'
  BY <1>1, <1>3, <1>5 DEF OpenedOnDisk, Threads
<1>7. LogIsOnDisk'
  BY <1>1, <1>3 DEF StartInv, LogIsOnDisk
<1>8. WatcherAfterMain' /\ TouchedWhileWatching' /\ OpenedAtWork' /\ QuietStart'
  BY <1>1, <1>2, <1>3 DEF StartInv, WatcherAfterMain, TouchedWhileWatching, OpenedAtWork, QuietStart
<1>9. EditIsRead'
  BY <1>1 DEF EditIsRead
<1>10. QED
  BY <1>4, <1>6, <1>7, <1>8, <1>9 DEF StartInv

\* Another agent opens, or clears, the log.
LEMMA SecondAgentKeeps == ASSUME StartInv, SecondAgent PROVE StartInv'
<1>1. /\ intruded' = TRUE
      /\ UNCHANGED <<platform, today, clock, main, config, inForce, watcher, modified, touched, early,
                     source, licence, ntp, service, attempt>>
  BY DEF SecondAgent, watching, licences, time
<1>2. /\ logDay' \in Days \cup {NoLog} /\ onDisk' \subseteq Threads \cup {"logger"}
      /\ opened' \in [Threads -> Files \cup {FirstConfig, NoConfig}]
      /\ \A u \in Threads : opened'[u] = opened[u]
  <2>1. CASE \E clears \in BOOLEAN : OpenLog("second", FirstConfig, clears)
    <3>1. PICK clears \in BOOLEAN : OpenLog("second", FirstConfig, clears)
      BY <2>1
    <3>2. Threads \ {"second"} = Threads
      BY DEF Threads
    <3>3. QED
      BY <3>1, <3>2, OpenLogOpens DEF StartInv
  <2>2. CASE ConfigurePanics(DefaultRetention)
    BY <2>2 DEF ConfigurePanics, Keep, StartInv, StartTypeOK
  <2>3. QED
    BY <2>1, <2>2 DEF SecondAgent
<1>3. StartTypeOK'
  BY <1>1, <1>2 DEF StartInv, StartTypeOK
<1>4. OpenedOnDisk' /\ LogIsOnDisk'
  BY <1>1 DEF OpenedOnDisk, LogIsOnDisk
<1>5. opened'["main"] = opened["main"] /\ opened'["watcher"] = opened["watcher"]
  BY <1>2 DEF Threads
<1>6. WatcherAfterMain' /\ TouchedWhileWatching' /\ OpenedAtWork' /\ QuietStart' /\ EditIsRead'
  BY <1>1, <1>5 DEF StartInv, WatcherAfterMain, TouchedWhileWatching, OpenedAtWork, QuietStart, EditIsRead,
     ConfigValid
<1>7. QED
  BY <1>3, <1>4, <1>6 DEF StartInv

\* An edit that was not read is an event.
LEMMA EditConfigKeeps == ASSUME StartInv, EditConfig PROVE StartInv'
<1>1. UNCHANGED <<platform, today, clock, main, logDay, opened, onDisk, intruded, inForce, watcher,
                  source, licence, ntp, service, attempt>>
  BY DEF EditConfig, logging, licences, time
<1>2. config' \in Files \cup {NoConfig, Torn}
  BY DEF EditConfig, WriteConfig, StartInv, StartTypeOK
<1>3. modified' = (watcher = "watching") \/ modified' = modified
  BY Zenon DEF EditConfig, WriteConfig
<1>4. modified' \in BOOLEAN /\ (modified' => watcher = "watching")
  <2>1. CASE modified' = (watcher = "watching")
    <3>1. CASE watcher = "watching"
      BY <2>1, <3>1
    <3>2. CASE watcher # "watching"
      BY <2>1, <3>2
    <3>3. QED
      BY <3>1, <3>2
  <2>2. CASE modified' = modified
    BY <2>2 DEF StartInv, StartTypeOK
  <2>3. QED
    BY <1>3, <2>1, <2>2
<1>5. touched' \in BOOLEAN /\ (touched' => touched \/ (main = "up" /\ watcher = "watching"))
  <2>1. \/ touched' = touched \/ touched' = FALSE
        \/ touched' = (main = "up" /\ watcher = "watching")
    BY Zenon DEF EditConfig, WriteConfig
  <2>2. CASE touched' = touched
    BY <2>2 DEF StartInv, StartTypeOK
  <2>3. CASE touched' = FALSE
    BY <2>3
  <2>4. CASE touched' = (main = "up" /\ watcher = "watching")
    <3>1. CASE main = "up" /\ watcher = "watching"
      BY <2>4, <3>1
    <3>2. CASE ~(main = "up" /\ watcher = "watching")
      BY <2>4, <3>2
    <3>3. QED
      BY <3>1, <3>2
  <2>5. QED
    BY <2>1, <2>2, <2>3, <2>4
<1>6. early' \in BOOLEAN /\ (early => early') /\ (modified' /\ main # "up" => early')
  <2>1. early' = (early \/ (modified' /\ main # "up"))
    BY DEF EditConfig
  <2>2. early \in BOOLEAN
    BY DEF StartInv, StartTypeOK
  <2>3. CASE early \/ (modified' /\ main # "up")
    BY <2>1, <2>3
  <2>4. CASE ~(early \/ (modified' /\ main # "up"))
    BY <2>1, <2>4
  <2>5. QED
    BY <2>3, <2>4
<1>7. config' \in Files => modified' \/ watcher # "watching"
  <2>1. Torn \notin Files /\ NoConfig \notin Files
    BY ConfigAssumption DEF Files, Default, Torn, NoConfig
  <2>2. QED
    BY <2>1 DEF EditConfig, WriteConfig
<1>8. StartTypeOK'
  BY <1>1, <1>2, <1>4, <1>5, <1>6 DEF StartInv, StartTypeOK
<1>9. WatcherAfterMain' /\ TouchedWhileWatching' /\ OpenedAtWork'
  BY <1>1, <1>5 DEF StartInv, WatcherAfterMain, TouchedWhileWatching, OpenedAtWork
<1>10. QuietStart' /\ OpenedOnDisk' /\ LogIsOnDisk'
  BY <1>1, <1>6 DEF StartInv, QuietStart, OpenedOnDisk, LogIsOnDisk
<1>11. EditIsRead'
  BY <1>1, <1>7 DEF EditIsRead, ConfigValid
<1>12. QED
  BY <1>8, <1>9, <1>10, <1>11 DEF StartInv

LEMMA WatcherStartsKeeps == ASSUME StartInv, WatcherStarts PROVE StartInv'
  BY DEF StartInv, StartTypeOK, WatcherAfterMain, TouchedWhileWatching, OpenedAtWork, QuietStart,
     OpenedOnDisk, LogIsOnDisk, EditIsRead, logging, licences, time, ConfigValid, WatcherStarts

\* The time thread and the clock are none of the log's or the configuration's business.
LEMMA TimeKeeps ==
  ASSUME StartInv,
         NtpStep \/ CommandFails \/ AttemptFails \/ SystemSynchronizes \/ Disturb \/ Tomorrow
  PROVE  StartInv'
<1>1. UNCHANGED <<platform, main, config, logging, watching, licences>>
  BY DEF NtpStep, CheckService, SetService, Synchronize, SynchronizeFails, Sleep, CommandFails,
         AttemptFails, SystemSynchronizes, Disturb, Tomorrow
<1>2. /\ today' \in Days /\ clock' \in Days /\ service' \in {"on", "off"}
      /\ ntp' \in {"off", "check", "set", "sync", "sleep"}
      /\ ntp' # "off" => ntp # "off"
      /\ attempt' \in 0..MaxAttempts
  <2> USE StartAssumption DEF StartInv, StartTypeOK, Days, time
  <2>1. CASE CheckService
    BY <2>1 DEF CheckService, Wanted
  <2>2. CASE SetService \/ Synchronize \/ SynchronizeFails \/ Sleep
    BY <2>2 DEF SetService, Wanted, Synchronize, SynchronizeFails, Sleep
  <2>3. CASE CommandFails
    BY <2>3 DEF CommandFails
  <2>4. CASE AttemptFails
    BY <2>4 DEF AttemptFails
  <2>5. CASE SystemSynchronizes \/ Disturb \/ Tomorrow
    BY <2>5 DEF SystemSynchronizes, Disturb, Tomorrow
  <2>6. QED
    BY <2>1, <2>2, <2>3, <2>4, <2>5 DEF NtpStep
<1>3. QED
  BY <1>1, <1>2 DEF StartInv, StartTypeOK, WatcherAfterMain, TouchedWhileWatching, OpenedAtWork,
     QuietStart, OpenedOnDisk, LogIsOnDisk, EditIsRead, logging, watching, licences, ConfigValid

\* What main does to the log is one of these.
LEMMA MainSteps ==
  ASSUME StartInv, LogConfigure \/ UpdateConfig \/ Defaults
  PROVE  StartInv'
<1>1. FirstConfig \in Files \cup {FirstConfig} /\ Default \in Files \cup {FirstConfig}
  BY DEF Files
<1>2. CASE LogConfigure
  BY <1>1, <1>2, MainConfigures DEF LogConfigure
<1>3. CASE Defaults
  BY <1>1, <1>3, MainConfigures DEF Defaults
<1>4. CASE UpdateConfig /\ ConfigValid /\ Configure("main", config) /\ UNCHANGED main
  BY <1>4, MainConfigures DEF UpdateConfig, ConfigValid
<1>5. CASE UpdateConfig /\ opened["main"] = NoConfig /\ main' = "defaults" /\ UNCHANGED logging
  BY <1>5, MainKeeps DEF UpdateConfig
<1>6. QED
  BY <1>2, <1>3, <1>4, <1>5 DEF UpdateConfig

LEMMA Invariant == Spec => []StartInv
<1>1. Init => StartInv
  <2>1. 0 \in Days /\ 0 \in 0..MaxAttempts
    BY StartAssumption DEF Days
  <2>2. ASSUME Init PROVE \A t \in Threads : opened[t] = NoConfig
    BY <2>2 DEF Init, AllClosed
  <2>3. ASSUME Init PROVE opened["main"] = NoConfig /\ opened["watcher"] = NoConfig
    BY <2>2, <2>3 DEF Threads
  <2>4. QED
    BY <2>1, <2>2, <2>3 DEF Init, AllClosed, StartInv, StartTypeOK, WatcherAfterMain,
       TouchedWhileWatching, OpenedAtWork, QuietStart, OpenedOnDisk, LogIsOnDisk, EditIsRead
<1>2. StartInv /\ [Next]_vars => StartInv'
  <2>1. StartInv /\ UNCHANGED vars => StartInv'
    BY DEF vars, logging, watching, licences, time, StartInv, StartTypeOK, WatcherAfterMain,
       TouchedWhileWatching, OpenedAtWork, QuietStart, OpenedOnDisk, LogIsOnDisk, EditIsRead, ConfigValid
  <2>2. StartInv /\ (UpdateConfigPanics \/ ConfigureFails \/ Kill) => StartInv'
    BY DiesKeeps DEF UpdateConfigPanics, ConfigureFails, CutShort, Kill
  <2>3. QED
    BY <2>1, <2>2, MainKeeps, MainSteps, ConfiguredKeeps, ReadEventStep, EventReadKeeps,
       ReadEventPanicsKeeps, SecondAgentKeeps, EditConfigKeeps, WatcherStartsKeeps, TimeKeeps DEF Next
<1>3. QED
  BY <1>1, <1>2, PTL DEF Spec

-----------------------------------------------------------------------------
(* Theorems *)

\* Every variable has its type, for any configurations, days and faults.
THEOREM StartTypeCorrect == Spec => []StartTypeOK
  BY Invariant, PTL DEF StartInv

\* The agent writes to the log that is on disk, or is about to, but for another agent,
\* an edit during the start, and a watcher whose panic left no log
\* (phantom_agent.rs:81-104, phantom_file_logger.rs:23-46, 73-100).
THEOREM LogIsOnDiskHolds == Spec => []LogIsOnDisk
  BY Invariant, PTL DEF StartInv

\* What was written to the configuration while it was watched is in force once its
\* events are read (config_watcher.rs:47-60).
THEOREM EditIsInForceHolds == Spec => []EditIsInForce
<1>1. StartInv => EditIsInForce
  BY DEF StartInv, EditIsRead, EditIsInForce
<1>2. QED
  BY <1>1, Invariant, PTL

\* A log is cleared only when its age exceeds a retention there is by more than the
\* machine's distance from UTC, for any zone and any word size that holds all days,
\* unless the limit wraps around (phantom_file_logger.rs:73-100,
\* file_creation_date_util.rs:64-85).
THEOREM YoungLogIsKeptHolds == Spec => YoungLogIsKept
<1> DEFINE Young ==
      logDay # NoLog /\ logDay' # logDay =>
        \/ \E r \in Shortest : clock - Created > r
        \/ clock < DefaultRetention \/ (ConfigValid /\ clock < config.retention)
<1>1. StartInv /\ [Next]_vars => Young
  <2> SUFFICES ASSUME StartInv, [Next]_vars, logDay # NoLog, logDay' # logDay,
                      clock >= DefaultRetention, ConfigValid => clock >= config.retention
               PROVE  \E r \in Shortest : clock - Created > r
    <3>1. StartInv => clock \in Int /\ DefaultRetention \in Int
      BY StartAssumption DEF StartInv, StartTypeOK, Days
    <3>2. ConfigValid => config.retention \in Int
      BY StartAssumption DEF ConfigValid, Files, Default
    <3>3. QED
      BY <3>1, <3>2
  <2>1. ASSUME NEW r \in Shortest, clock >= r, Expired(r)
        PROVE  \E q \in Shortest : clock - Created > q
    BY <2>1, ExpiredIsOld, StartAssumption DEF Shortest, StartInv
  <2>2. DefaultRetention \in Shortest /\ (ConfigValid => config.retention \in Shortest)
    BY DEF Shortest, ConfigValid, Files, Default
  <2>3. ASSUME NEW t, NEW c, NEW clears \in BOOLEAN, OpenLog(t, c, clears), Decided(c.retention, clears)
        PROVE  Expired(c.retention)
    BY <2>3, Zenon DEF OpenLog, Decided
  <2>4. ASSUME NEW r, ConfigurePanics(r)
        PROVE  Expired(r)
    BY <2>4 DEF ConfigurePanics
  <2>5. CASE LogConfigure \/ Defaults
    <3>1. FirstConfig.retention = DefaultRetention /\ Default.retention = DefaultRetention
      BY DEF FirstConfig, Default
    <3>2. Configure("main", FirstConfig) \/ Configure("main", Default)
      BY <2>5 DEF LogConfigure, Defaults
    <3>3. Expired(DefaultRetention)
      BY <2>3, <3>1, <3>2 DEF Configure
    <3>4. QED
      BY <2>1, <2>2, <3>3
  <2>6. CASE UpdateConfig \/ ReadEvent
    <3>1. ConfigValid /\ (Configure("main", config) \/ Configure("watcher", config))
      BY <2>6 DEF UpdateConfig, ReadEvent, logging
    <3>2. Expired(config.retention)
      BY <2>3, <3>1 DEF Configure
    <3>3. QED
      BY <2>1, <2>2, <3>1, <3>2
  <2>7. CASE ReadEventPanics
    <3>1. ConfigValid /\ ConfigurePanics(config.retention)
      BY <2>7 DEF ReadEventPanics, logging
    <3>2. QED
      BY <2>1, <2>2, <2>4, <3>1
  <2>8. CASE SecondAgent
    <3>1. Expired(DefaultRetention)
      <4>1. FirstConfig.retention = DefaultRetention
        BY DEF FirstConfig
      <4>2. CASE ConfigurePanics(DefaultRetention)
        BY <2>4, <4>2
      <4>3. CASE \E clears \in BOOLEAN : Decided(DefaultRetention, clears) /\ OpenLog("second", FirstConfig, clears)
        BY <2>3, <4>1, <4>3
      <4>4. QED
        BY <2>8, <4>2, <4>3 DEF SecondAgent
    <3>2. QED
      BY <2>1, <2>2, <3>1
  <2>9. CASE ConfigureFails
    <3>1. \/ Expired(DefaultRetention)
          \/ ConfigValid /\ Expired(config.retention)
      BY <2>9 DEF ConfigureFails, CutShort
    <3>2. QED
      BY <2>1, <2>2, <3>1
  <2>10. CASE ~(\/ LogConfigure \/ Defaults \/ UpdateConfig \/ ReadEvent \/ ReadEventPanics
               \/ SecondAgent \/ ConfigureFails)
    <3>1. CASE UNCHANGED vars
      BY <3>1 DEF vars, logging
    <3>2. CASE Next
      BY <2>10, <3>2 DEF Next, logging, Launch, Configured, SwapLogger, CopyLicense, FinishCopy,
         StartWatcher, UpdateConfigPanics, Kill, WatcherStarts, EventRead, EditConfig, NtpStep,
         CheckService, SetService, Synchronize, SynchronizeFails, Sleep, CommandFails, AttemptFails,
         SystemSynchronizes, Disturb, Tomorrow
    <3>3. QED
      BY <3>1, <3>2
  <2>11. QED
    BY <2>5, <2>6, <2>7, <2>8, <2>9, <2>10
<1>2. QED
  BY <1>1, Invariant, PTL DEF Spec, YoungLogIsKept

\* The licence is not lost by its move, whatever fails or is killed
\* (license_manager.rs:110-131).
THEOREM LicenseIsNotLostHolds == Spec => LicenseIsNotLost
<1>1. [Next]_vars => (source = "whole" => source' = "whole" \/ licence' = "whole")
  BY DEF Next, vars, licences, Launch, LogConfigure, Configured, CopyLicense, FinishCopy, StartWatcher,
     UpdateConfig, UpdateConfigPanics, Defaults, ConfigureFails, Kill, Dies, SecondAgent,
     WatcherStarts, ReadEvent, EventRead, ReadEventPanics, EditConfig, NtpStep, CheckService, SetService,
     Synchronize, SynchronizeFails, Sleep, CommandFails, AttemptFails, SystemSynchronizes,
     Disturb, Tomorrow
<1>2. QED
  BY <1>1, PTL DEF Spec, LicenseIsNotLost
=============================================================================
