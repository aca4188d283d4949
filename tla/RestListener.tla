----------------------------- MODULE RestListener -----------------------------
(***************************************************************************)
(* The requests clients make over HTTP (rest_listener.rs), their callbacks *)
(* (lib.rs:109-154, ota_manager.rs:525-690) and what they share with the   *)
(* thread of the OTA manager: the auth file with the credentials, the      *)
(* channel and the status the server was given.                            *)
(*                                                                         *)
(* A callback runs on the thread of the runtime that has the request, next *)
(* to other callbacks, and reads and writes the auth file without a lock.  *)
(* Of run_once only what it has to do with them is here: the module        *)
(* OTAManager has the rest.                                                *)
(***************************************************************************)
EXTENDS Naturals, Sequences

CONSTANTS
  Workers,      \* the runtime's threads that handle requests
  Urls,         \* what credentials name as the server
  BadUrl,       \* a string among them that Url::parse refuses, or none of them
  Versions,     \* the versions they name
  NoVersion,    \* the version "", which check_versions makes up
  Posted,       \* the bodies clients send
  Kinds,        \* the requests they make
  OldLicence,   \* whether there is a license file, used without an auth file
  MaxRequests,  \* bound: the requests of a behaviour
  RestFaults    \* what may go wrong

\* "kill"     the process is killed
\* "panic"    an installer panics in the OTA thread
\* "network"  the server does not answer
\* "save"     the auth file cannot be opened, or not written to
ASSUME RestAssumption ==
  /\ NoVersion \notin Versions
  /\ OldLicence \in BOOLEAN
  /\ MaxRequests \in Nat
  /\ RestFaults \subseteq {"kill", "panic", "network", "save"}

VARIABLES
  file,     \* the auth file
  writer,   \* what wrote to it last: the service that used it when it did not change
  req,      \* of every worker: the request it has
  count,    \* the requests made
  routes,   \* the number of callbacks registered
  chan,     \* the channel to the OTA thread
  ota,      \* where the OTA thread is
  seen,     \* the auth file as run_once last read it
  status,   \* the status the REST interface shows
  node      \* the status the server was given

vars == <<file, writer, req, count, routes, chan, ota, seen, status, node>>

\* What a file or a body holds: nothing (no file, an empty body), credentials, or
\* something else.  A file just truncated is empty.  Two writers leave it garbled.
Credentials ==
  [is: {"whole"}, url: Urls, version: Versions \cup {NoVersion}]
Unreadable(is) == [is |-> is, url |-> BadUrl, version |-> NoVersion]
Text == Credentials \cup {Unreadable(is) : is \in {"none", "empty", "garbled"}}

ASSUME PostedAssumption ==
  /\ Posted \subseteq Text
  /\ Kinds \subseteq {"update_version", "update_version_force",
                      "update_version_both", "status", "check", "write_to_log"}

\* valid_auth, from_str: three strings, whatever they say.
Valid(text) == text.is = "whole"

\* fetch_license_manager: without the auth file the license file.
Readable == Valid(file) \/ (file.is = "none" /\ OldLicence)

\* make_proper_url unwraps what Url::parse says.
Panics(text) == Valid(text) /\ text.url = BadUrl

\* get_version asks for the licence, to know whose version it is asked for.
VersionPanics == Panics(file)

\* set_rest_server_routes registers in this order; three of the callbacks have a
\* message for the OTA thread.
Routes == <<"update_version", "update_version_force", "update_version_both",
            "status", "log", "check", "write_to_log">>
Triggers == {"update_version", "update_version_force", "update_version_both"}

\* A request with its body, the place of its callback, and the code it gets.
Request(kind, body, place, code) ==
  [kind |-> kind, body |-> body, at |-> place, got |-> Unreadable("none"), code |-> code]

NoRequest == Request("none", Unreadable("none"), "idle", 0)

Init ==
  /\ file \in Text /\ file.is \in {"none", "whole"} /\ ~Panics(file)
  /\ writer = "nobody"
  /\ req = [w \in Workers |-> NoRequest] /\ count = 0
  /\ routes = 0 /\ chan = <<>> /\ ota = "new"
  /\ seen = Unreadable("none") /\ status = "ERROR" /\ node = "Updated"

-----------------------------------------------------------------------------
(* Requests *)

At(w, place) == req[w].at = place

\* The request of w goes on at a place, with what it has got, or ends with a code.
Continues(w, place) == req' = [req EXCEPT ![w].at = place]
Got(w, text, place) == req' = [req EXCEPT ![w].got = text, ![w].at = place]
Answered(w, code) == req' = [req EXCEPT ![w] = Request("none", Unreadable("none"), "idle", code)]

\* The callback returned: the message is sent whatever it returned.
ToSend(kind, code) == Request(kind, Unreadable("none"), "send", code)
Returned(w, code) == req' = [req EXCEPT ![w] = ToSend(req[w].kind, code)]

Registered(kind) == \E i \in 1..routes : Routes[i] = kind

\* The map of callbacks is copied under its lock and the callback looked up; those
\* of status and write_to_log only answer.
Arrive(w, kind, body) ==
  /\ ota # "dead" /\ At(w, "idle") /\ count < MaxRequests
  /\ count' = count + 1
  /\ IF ~Registered(kind) THEN Answered(w, 501)
     ELSE IF kind \in {"update_version", "check"}
     THEN req' = [req EXCEPT ![w] = Request(kind, body, kind, 0)]
     ELSE IF kind \in Triggers THEN req' = [req EXCEPT ![w] = ToSend(kind, 200)]
     ELSE Answered(w, 200)
  /\ UNCHANGED <<file, writer, routes, chan, ota, seen, status, node>>

\* update_version: without a body the file itself is validated and rewritten.
UpdateVersion(w) ==
  LET text == IF req[w].body.is = "none" THEN file ELSE req[w].body
  IN  /\ At(w, "update_version")
      /\ IF text.is = "none" THEN Returned(w, 200)
         ELSE IF Valid(text) THEN Got(w, text, "open")
         ELSE Returned(w, 500)
      /\ UNCHANGED <<file, writer, count, routes, chan, ota, seen, status, node>>

\* The credentials check_versions works with: those of the body, which name no
\* version, take the version of the file.
Checked(w) ==
  IF Valid(req[w].body)
  THEN [req[w].body EXCEPT !.version = file.version]
  ELSE file

CheckVersions(w) ==
  /\ At(w, "check") /\ ~Panics(file) /\ ~Panics(Checked(w))
  /\ IF Valid(Checked(w)) THEN Got(w, Checked(w), "fetch") ELSE Answered(w, 500)
  /\ UNCHANGED <<file, writer, count, routes, chan, ota, seen, status, node>>

\* fetch_versions_from_cloud, and the version it compares with, for which the file
\* is read again.
Fetch(w) ==
  /\ At(w, "fetch") /\ ~VersionPanics
  /\ Continues(w, "open")
  /\ UNCHANGED <<file, writer, count, routes, chan, ota, seen, status, node>>

FetchFails(w) ==
  /\ "network" \in RestFaults
  /\ At(w, "fetch")
  /\ Answered(w, 500)
  /\ UNCHANGED <<file, writer, count, routes, chan, ota, seen, status, node>>

\* string_to_file: File::create truncates ...
Open(w) ==
  /\ At(w, "open")
  /\ Continues(w, "write")
  /\ file' = Unreadable("empty") /\ writer' = req[w].kind
  /\ UNCHANGED <<count, routes, chan, ota, seen, status, node>>

\* update_version answers 200 whether or not it could save, check_versions does not.
Saved(w, ok) ==
  IF req[w].kind = "check" THEN Answered(w, IF ok THEN 200 ELSE 500)
  ELSE Returned(w, 200)

\* ... and write_all begins at the start of a file that somebody else may have
\* written to since: what is longer there stays behind it.
Write(w) ==
  /\ At(w, "write")
  /\ file' \in IF file.is = "empty" THEN {req[w].got}
               ELSE {req[w].got, Unreadable("garbled")}
  /\ writer' = req[w].kind
  /\ Saved(w, TRUE)
  /\ UNCHANGED <<count, routes, chan, ota, seen, status, node>>

SaveFails(w) ==
  /\ "save" \in RestFaults
  /\ At(w, "open") \/ At(w, "write")
  /\ Saved(w, FALSE)
  /\ UNCHANGED <<file, writer, count, routes, chan, ota, seen, status, node>>

\* The receiver is gone while the OTA thread unwinds.
Send(w) ==
  /\ At(w, "send")
  /\ IF ota = "dying" THEN Answered(w, 503) /\ UNCHANGED chan
     ELSE Answered(w, req[w].code) /\ chan' = Append(chan, req[w].kind)
  /\ UNCHANGED <<file, writer, count, routes, ota, seen, status, node>>

-----------------------------------------------------------------------------
(* The process *)

\* The process is gone, and with it the requests, the channel and the routes.
Gone ==
  /\ ota' = "dead"
  /\ req' = [w \in Workers |-> NoRequest]
  /\ routes' = 0 /\ chan' = <<>>

Die == Gone /\ UNCHANGED <<file, writer, count, seen, status>>

\* The hook is set by run: every thread's panic sends a report and puts Failed.
\* It reads the credentials for that, and a panic of the hook aborts the process.
HookSet == ota \notin {"new", "routes"}

WorkerPanics(w) ==
  /\ \/ At(w, "check") /\ (Panics(file) \/ Panics(Checked(w)))
     \/ At(w, "fetch") /\ VersionPanics
  /\ IF HookSet /\ Panics(file) THEN Die /\ UNCHANGED node
     ELSE /\ Answered(w, 0)
          /\ node' = IF HookSet THEN "Failed" ELSE node
          /\ UNCHANGED <<file, writer, count, routes, chan, ota, seen, status>>

Kill ==
  /\ "kill" \in RestFaults
  /\ ota # "dead"
  /\ Die /\ UNCHANGED node

\* The service is started again; the listener answers before anything else.
Restart ==
  /\ ota = "dead"
  /\ ota' = "new" /\ status' = "ERROR"
  /\ UNCHANGED <<file, writer, req, count, routes, chan, seen, node>>

-----------------------------------------------------------------------------
(* The OTA thread *)

\* Every status is shown with the version of the server the file names: the OTA
\* thread panics with a url that is none.
Shows(s, place) ==
  IF VersionPanics THEN Die
  ELSE /\ status' = s /\ ota' = place
       /\ UNCHANGED <<file, writer, req, count, routes, chan, seen>>

\* As a bug: a version that cannot be found is not replaced by "not_supported".
NewManagerUnwraps ==
  /\ ota = "new"
  /\ IF Valid(file) \/ file.is = "none" THEN Shows("UPDATED", "routes") ELSE Die
  /\ UNCHANGED node

\* OTAManager::new
NewManager ==
  /\ ota = "new"
  /\ Shows("UPDATED", "routes")
  /\ UNCHANGED node

\* set_rest_server_routes, then run sets the hook and begins.
AddCallback ==
  /\ ota = "routes" /\ routes < Len(Routes)
  /\ routes' = routes + 1
  /\ UNCHANGED <<file, writer, req, count, chan, ota, seen, status, node>>

Run ==
  /\ ota = "routes" /\ routes = Len(Routes)
  /\ ota' = "start"
  /\ UNCHANGED <<file, writer, req, count, routes, chan, seen, status, node>>

\* run_once: CHECKING, and the credentials; without the file those of the license.
\* Credentials that cannot be read end the run.
FetchLicense ==
  /\ ota = "start"
  /\ seen' = file
  /\ IF Panics(file) THEN Gone /\ UNCHANGED status
     ELSE /\ status' = "CHECKING"
          /\ ota' = IF Readable THEN "work" ELSE "wait"
          /\ UNCHANGED <<req, routes, chan>>
  /\ UNCHANGED <<file, writer, count, node>>

\* RETRY: the license asks the server for a token, and so does the work itself.
Retry ==
  /\ "network" \in RestFaults
  /\ ota = "work"
  /\ ota' = "start"
  /\ UNCHANGED <<file, writer, req, count, routes, chan, seen, status, node>>

\* As a bug: the server is told only of what was installed.
WorkSkipsPut ==
  /\ ota = "work"
  /\ Shows("UPDATED", "wait")
  /\ UNCHANGED node

\* As a bug: what was asked for during the run counts as served by it.
WorkSucceedsDrains ==
  /\ ota = "work" /\ ~Panics(file)
  /\ node' = "Updated" /\ status' = "UPDATED" /\ ota' = "wait"
  /\ chan' = <<>>
  /\ UNCHANGED <<file, writer, req, count, routes, seen>>

\* Installed, or nothing to install: in that case the server is asked what it was
\* given, and given Updated when it was not that.
WorkSucceeds ==
  /\ ota = "work"
  /\ node' = "Updated"
  /\ Shows("UPDATED", "wait")

WorkFails ==
  /\ "network" \in RestFaults
  /\ ota = "work"
  /\ node' = "Failed"
  /\ Shows("ERROR", "wait")

\* The hook puts Failed; then the manager is dropped with its receiver, and the
\* process ends some time later.
WorkPanics ==
  /\ "panic" \in RestFaults
  /\ ota = "work"
  /\ IF Panics(file) THEN Die /\ UNCHANGED node
     ELSE /\ ota' = "dying" /\ node' = "Failed"
          /\ UNCHANGED <<file, writer, req, count, routes, chan, seen, status>>

Exit == ota = "dying" /\ Die /\ UNCHANGED node

\* A forced update needs the credentials before it begins: without them there is
\* no run.
Take ==
  /\ ota = "wait" /\ chan # <<>>
  /\ IF Head(chan) = "update_version_force" /\ Panics(file)
     THEN Die
     ELSE /\ chan' = Tail(chan)
          /\ IF Head(chan) = "update_version_force" /\ ~Readable
             THEN status' = "ERROR" /\ UNCHANGED ota
             ELSE ota' = "start" /\ UNCHANGED status
          /\ UNCHANGED <<file, writer, req, count, routes, seen>>
  /\ UNCHANGED node

Timer ==
  /\ ota = "wait" /\ chan = <<>>
  /\ ota' = "start"
  /\ UNCHANGED <<file, writer, req, count, routes, chan, seen, status, node>>

-----------------------------------------------------------------------------
Client == \E w \in Workers, kind \in Kinds, body \in Posted : Arrive(w, kind, body)

Callback(w) ==
  \/ UpdateVersion(w) \/ CheckVersions(w) \/ Fetch(w)
  \/ Open(w) \/ Write(w) \/ Send(w) \/ WorkerPanics(w)

CallbackFails(w) == FetchFails(w) \/ SaveFails(w)

OTAThread ==
  \/ NewManager \/ AddCallback \/ Run
  \/ FetchLicense \/ WorkSucceeds \/ Take \/ Timer
  \/ Exit \/ Restart

WorkGoesWrong == Retry \/ WorkFails \/ WorkPanics

Next ==
  \/ Client
  \/ \E w \in Workers : Callback(w) \/ CallbackFails(w)
  \/ OTAThread \/ WorkGoesWrong
  \/ Kill

Spec == Init /\ [][Next]_vars

\* Threads go on, and the service manager restarts the process.
FairSpec ==
  /\ Spec
  /\ WF_vars(OTAThread)
  /\ \A w \in Workers : WF_vars(Callback(w))

-----------------------------------------------------------------------------
(* Properties *)

Places == {"idle", "update_version", "check", "fetch", "open", "write", "send"}

\* Every variable has its type, and only valid credentials are written.
RestTypeOK ==
  /\ file \in Text /\ seen \in Text
  /\ writer \in {"nobody", "update_version", "check"}
  /\ req \in [Workers -> [kind: Kinds \cup {"none"}, body: Posted \cup {Unreadable("none")},
                          at: Places, got: Text, code: {0, 200, 500, 501, 503}]]
  /\ \A w \in Workers : req[w].at \in {"open", "write"} => Valid(req[w].got)
  /\ count \in 0..MaxRequests /\ routes \in 0..Len(Routes)
  /\ chan \in Seq(Triggers)
  /\ ota \in {"new", "routes", "start", "work", "wait", "dying", "dead"}
  /\ status \in {"CHECKING", "UPDATED", "ERROR"} /\ node \in {"Updated", "Failed"}

\* The OTA thread is on its way to read the credentials.
WillRead == ota \in {"new", "routes", "start", "dying", "dead"}

\* Credentials that update_version saved are not forgotten: as long as the OTA
\* thread has not read them, a message that makes it is in the channel or about to
\* be sent, though a run that reads the old ones may be under way and other
\* messages are taken (the callback first, then the message,
\* rest_listener.rs:88-100).
NewCredentialsAreTaken ==
  writer = "update_version" /\ file # seen =>
    \/ WillRead
    \/ \E i \in DOMAIN chan : chan[i] = "update_version"
    \/ \E w \in Workers :
         req[w].kind = "update_version" /\ req[w].at \in {"write", "send"}

\* What may go wrong from outside.  A process that ends by itself looks killed, and
\* is not.
Disturbance ==
  \/ \E w \in Workers : CallbackFails(w)
  \/ WorkGoesWrong
  \/ Kill /\ ~OTAThread
EventuallyCalm == <>[][~Disturbance]_vars

\* After any kills the service gets back to where every route is served, with an
\* auth file that is missing, truncated or garbled as well: only a url that is
\* none keeps it from that (OTAManager::new before set_rest_server_routes,
\* lib.rs:97-105).
ServesAgain ==
  EventuallyCalm => <>[](Panics(file) \/ routes = Len(Routes))

\* A request that panics tells the server the node failed, while the OTA thread
\* goes on: sooner or later the server is told again what the node shows
\* (ota_manager.rs:326-334, 472).
FalseFailureIsCorrected ==
  EventuallyCalm => <>[](status = "UPDATED" => node = "Updated")

-----------------------------------------------------------------------------
(* What the code says of itself and does not do *)

\* "Auth file saved" (ota_manager.rs:544): once nobody writes any more, the file
\* holds credentials.
SavedIsReadable ==
  writer # "nobody" /\ (\A w \in Workers : req[w].at = "idle") => Valid(file)
=============================================================================
