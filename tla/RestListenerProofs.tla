--------------------------- MODULE RestListenerProofs ---------------------------
(***************************************************************************)
(* What holds of RestListener for any number of threads and requests, any  *)
(* bodies and any faults: credentials that were saved are read by a run of *)
(* the OTA thread that begins after they were.                             *)
(***************************************************************************)
EXTENDS RestListener, TLAPS

-----------------------------------------------------------------------------
(* The inductive invariant *)

\* The place of a callback tells whose it is: only the three kinds with a message
\* come to send one, only two write to the auth file.
PlaceOfKind ==
  \A w \in Workers :
    /\ At(w, "update_version") => req[w].kind = "update_version"
    /\ At(w, "check") \/ At(w, "fetch") => req[w].kind = "check"
    /\ At(w, "fetch") => Valid(req[w].got)
    /\ At(w, "open") \/ At(w, "write") => req[w].kind \in {"update_version", "check"}
    /\ At(w, "send") => req[w].kind \in Triggers

RestInv == RestTypeOK /\ PlaceOfKind /\ NewCredentialsAreTaken

Requested == [kind: Kinds \cup {"none"}, body: Posted \cup {Unreadable("none")},
              at: Places, got: Text, code: {0, 200, 500, 501, 503}]

\* What is no text of credentials is one of three.
LEMMA TextCases ==
  /\ \A is \in {"none", "empty", "garbled"} : Unreadable(is) \in Text /\ ~Valid(Unreadable(is))
  /\ \A text \in Text : Valid(text) => text \in Credentials
  /\ \A text \in Text : text.version \in Versions \cup {NoVersion}
  /\ \A text \in Posted : text \in Text
  BY PostedAssumption DEF Text, Credentials, Unreadable, Valid

-----------------------------------------------------------------------------
(* Requests *)

LEMMA RequestIsRequest ==
  ASSUME NEW kind \in Kinds \cup {"none"}, NEW body \in Posted \cup {Unreadable("none")},
         NEW place \in Places, NEW code \in {0, 200, 500, 501, 503}
  PROVE  Request(kind, body, place, code) \in Requested
  BY TextCases DEF Request, Requested

LEMMA AnsweredIsRequest ==
  ASSUME NEW code \in {0, 200, 500, 501, 503}
  PROVE  Request("none", Unreadable("none"), "idle", code) \in Requested
  BY RequestIsRequest DEF Places

\* A new request touches neither the file nor what the OTA thread read.
LEMMA ArriveKeeps ==
  ASSUME RestInv, NEW w \in Workers, NEW kind \in Kinds, NEW body \in Posted,
         Arrive(w, kind, body)
  PROVE  RestInv'
<1> USE DEF RestInv, RestTypeOK, PlaceOfKind, At, Requested
<1>1. /\ UNCHANGED <<file, writer, routes, chan, ota, seen, status, node>>
      /\ count' = count + 1 /\ count < MaxRequests
      /\ At(w, "idle")
  BY DEF Arrive
<1>2. count' \in 0..MaxRequests
  BY <1>1, RestAssumption
<1>3. \E r \in Requested :
        /\ req' = [req EXCEPT ![w] = r]
        /\ r.at \in {"idle", "update_version", "check", "send"}
        /\ r.at \in {"update_version", "check"} => r.kind = r.at
        /\ r.at = "send" => r.kind \in Triggers
  <2>1. CASE ~Registered(kind)
    BY <2>1, RequestIsRequest DEF Arrive, Answered, Request, Places
  <2>2. CASE Registered(kind) /\ kind \in {"update_version", "check"}
    BY <2>2, RequestIsRequest DEF Arrive, Request, Places
  <2>3. CASE Registered(kind) /\ kind \notin {"update_version", "check"} /\ kind \in Triggers
    BY <2>3, RequestIsRequest DEF Arrive, ToSend, Request, Places
  <2>4. CASE Registered(kind) /\ kind \notin {"update_version", "check"} /\ kind \notin Triggers
    BY <2>4, RequestIsRequest DEF Arrive, Answered, Request, Places
  <2>5. QED
    BY <2>1, <2>2, <2>3, <2>4
<1>4. PICK r \in Requested :
        /\ req' = [req EXCEPT ![w] = r]
        /\ r.at \in {"idle", "update_version", "check", "send"}
        /\ r.at \in {"update_version", "check"} => r.kind = r.at
        /\ r.at = "send" => r.kind \in Triggers
  BY <1>3
<1>5. RestTypeOK'
  BY <1>1, <1>2, <1>4
<1>6. PlaceOfKind'
  BY <1>4
<1>7. NewCredentialsAreTaken'
  BY <1>1, <1>4 DEF NewCredentialsAreTaken, WillRead
<1>8. QED
  BY <1>5, <1>6, <1>7

\* A callback looks at the credentials it is to work with.
LEMMA LooksKeeps ==
  ASSUME RestInv, NEW w \in Workers,
         UpdateVersion(w) \/ CheckVersions(w) \/ Fetch(w) \/ FetchFails(w)
  PROVE  RestInv'
<1> USE DEF RestInv, RestTypeOK, PlaceOfKind, At, Requested
<1>1. UNCHANGED <<file, writer, count, routes, chan, ota, seen, status, node>>
  BY DEF UpdateVersion, CheckVersions, Fetch, FetchFails
<1>2. ~At(w, "write") /\ ~At(w, "send")
  BY DEF UpdateVersion, CheckVersions, Fetch, FetchFails
<1>3. RestTypeOK' /\ PlaceOfKind'
  <2>1. CASE UpdateVersion(w)
    <3> DEFINE text == IF req[w].body.is = "none" THEN file ELSE req[w].body
    <3>1. text \in Text
      BY TextCases
    <3>2. ToSend(req[w].kind, 200) \in Requested /\ ToSend(req[w].kind, 500) \in Requested
      BY <2>1, RequestIsRequest, TextCases DEF UpdateVersion, ToSend, Places
    <3>3. CASE req' = [req EXCEPT ![w].got = text, ![w].at = "open"] /\ Valid(text)
      BY <1>1, <2>1, <3>1, <3>3 DEF UpdateVersion, Places
    <3>4. CASE \E code \in {200, 500} : req' = [req EXCEPT ![w] = ToSend(req[w].kind, code)]
      BY <1>1, <2>1, <3>2, <3>4 DEF UpdateVersion, ToSend, Request, Triggers, Places
    <3>5. QED
      BY <2>1, <3>3, <3>4 DEF UpdateVersion, Returned, Got
  <2>2. CASE CheckVersions(w)
    <3>1. Checked(w) \in Text
      BY TextCases DEF Checked, Credentials, Text, Valid
    <3>2. CASE req' = [req EXCEPT ![w].got = Checked(w), ![w].at = "fetch"]
      BY <1>1, <2>2, <3>1, <3>2 DEF CheckVersions, Places
    <3>3. CASE Answered(w, 500)
      <4>1. Request("none", Unreadable("none"), "idle", 500) \in Requested
        BY AnsweredIsRequest
      <4>2. QED
        BY <1>1, <2>2, <3>3, <4>1 DEF CheckVersions, Answered, Request
    <3>4. QED
      BY <2>2, <3>2, <3>3 DEF CheckVersions, Got
  <2>3. CASE Fetch(w)
    BY <1>1, <2>3 DEF Fetch, Continues, Places
  <2>4. CASE FetchFails(w)
    BY <1>1, <2>4, RequestIsRequest DEF FetchFails, Answered, Request, Places
  <2>5. QED
    BY <2>1, <2>2, <2>3, <2>4
<1>4. \A u \in Workers \ {w} : req'[u] = req[u]
  BY DEF UpdateVersion, CheckVersions, Fetch, FetchFails, Returned, Got, Answered, Continues
<1>5. NewCredentialsAreTaken'
  BY <1>1, <1>2, <1>4 DEF NewCredentialsAreTaken, WillRead
<1>6. QED
  BY <1>3, <1>5

\* The file is truncated, and then written to by the callback that has credentials
\* for it; a callback of update_version has its message to send next.
LEMMA SavesKeeps ==
  ASSUME RestInv, NEW w \in Workers,
         Open(w) \/ Write(w) \/ SaveFails(w)
  PROVE  RestInv'
<1> USE DEF RestInv, RestTypeOK, PlaceOfKind, At, Requested
<1>1. UNCHANGED <<count, routes, chan, ota, seen, status, node>>
  BY DEF Open, Write, SaveFails
<1>2. req[w].kind \in {"update_version", "check"} /\ Valid(req[w].got)
  BY DEF Open, Write, SaveFails
<1>3. CASE Open(w)
  <2>1. file' \in Text
    BY <1>3, TextCases DEF Open
  <2>2. RestTypeOK' /\ PlaceOfKind'
    BY <1>1, <1>2, <1>3, <2>1 DEF Open, Continues, Places
  <2>3. NewCredentialsAreTaken'
    <3>1. writer' = req[w].kind /\ req'[w].kind = req[w].kind /\ req'[w].at = "write"
      BY <1>3 DEF Open, Continues
    <3>2. QED
      BY <3>1 DEF NewCredentialsAreTaken
  <2>4. QED
    BY <2>2, <2>3
<1>4. CASE Write(w) \/ SaveFails(w)
  <2>1. file' \in Text /\ writer' \in {"nobody", "update_version", "check"}
    <3>1. CASE Write(w)
      <4>1. writer' = req[w].kind /\ file' \in {req[w].got, Unreadable("garbled")}
        BY <3>1 DEF Write
      <4>2. QED
        BY <1>2, <4>1, TextCases
    <3>2. CASE SaveFails(w)
      BY <3>2 DEF SaveFails
    <3>3. QED
      BY <1>4, <3>1, <3>2
  <2>2. PICK ok \in BOOLEAN : Saved(w, ok)
    BY <1>4 DEF Write, SaveFails
  <2>3. CASE req[w].kind = "check"
    <3>1. PICK code \in {200, 500} :
            req' = [req EXCEPT ![w] = Request("none", Unreadable("none"), "idle", code)]
      BY <2>2, <2>3 DEF Saved, Answered
    <3>2. Request("none", Unreadable("none"), "idle", code) \in Requested
      BY AnsweredIsRequest
    <3>3. RestTypeOK' /\ PlaceOfKind'
      BY <1>1, <2>1, <3>1, <3>2 DEF Request
    <3>4. NewCredentialsAreTaken'
      <4>1. \A u \in Workers : req[u].kind = "update_version" => req'[u] = req[u]
        BY <2>3, <3>1
      <4>2. CASE Write(w)
        BY <1>1, <2>3, <4>1, <4>2 DEF Write, NewCredentialsAreTaken, WillRead
      <4>3. CASE SaveFails(w)
        BY <1>1, <4>1, <4>3 DEF SaveFails, NewCredentialsAreTaken, WillRead
      <4>4. QED
        BY <1>4, <4>2, <4>3
    <3>5. QED
      BY <3>3, <3>4
  <2>4. CASE req[w].kind = "update_version"
    <3>1. req' = [req EXCEPT ![w] = Request("update_version", Unreadable("none"), "send", 200)]
      BY <2>2, <2>4 DEF Saved, Returned, ToSend
    <3>2. Request("update_version", Unreadable("none"), "send", 200) \in Requested
      BY <2>4, RequestIsRequest DEF Places
    <3>3. RestTypeOK' /\ PlaceOfKind'
      BY <1>1, <2>1, <3>1, <3>2 DEF Request, Triggers
    <3>4. NewCredentialsAreTaken'
      BY <3>1 DEF Request, NewCredentialsAreTaken
    <3>5. QED
      BY <3>3, <3>4
  <2>5. QED
    BY <1>2, <2>3, <2>4
<1>5. QED
  BY <1>3, <1>4

\* The message is in the channel before the request has its answer, unless the OTA
\* thread is unwinding: the next process reads the file then.
LEMMA SendKeeps ==
  ASSUME RestInv, NEW w \in Workers, Send(w)
  PROVE  RestInv'
<1> USE DEF RestInv, RestTypeOK, PlaceOfKind, At, Requested
<1>1. UNCHANGED <<file, writer, count, routes, ota, seen, status, node>>
  BY DEF Send
<1>2. PICK code \in {0, 200, 500, 501, 503} :
        req' = [req EXCEPT ![w] = Request("none", Unreadable("none"), "idle", code)]
  BY DEF Send, Answered
<1>3. Request("none", Unreadable("none"), "idle", code) \in Requested
  BY AnsweredIsRequest
<1>4. /\ chan' \in Seq(Triggers)
      /\ \A i \in DOMAIN chan : i \in DOMAIN chan' /\ chan'[i] = chan[i]
      /\ ota # "dying" => chan'[Len(chan) + 1] = req[w].kind /\ Len(chan) + 1 \in DOMAIN chan'
  <2>1. req[w].kind \in Triggers
    BY DEF Send
  <2>2. CASE ota = "dying"
    BY <2>2 DEF Send
  <2>3. CASE ota # "dying"
    <3>1. chan' = Append(chan, req[w].kind)
      BY <2>3 DEF Send
    <3>2. QED
      BY <2>1, <2>3, <3>1
  <2>4. QED
    BY <2>2, <2>3
<1>5. RestTypeOK' /\ PlaceOfKind'
  BY <1>1, <1>2, <1>3, <1>4 DEF Request
<1>6. NewCredentialsAreTaken'
  <2>1. CASE WillRead
    BY <1>1, <2>1 DEF NewCredentialsAreTaken, WillRead
  <2>2. CASE ~WillRead /\ req[w].kind = "update_version"
    BY <1>4, <2>2 DEF NewCredentialsAreTaken, WillRead
  <2>3. CASE ~WillRead /\ req[w].kind # "update_version"
    BY <1>1, <1>2, <1>4, <2>3 DEF NewCredentialsAreTaken, WillRead
  <2>4. QED
    BY <2>1, <2>2, <2>3
<1>7. QED
  BY <1>5, <1>6

-----------------------------------------------------------------------------
(* The process and the OTA thread *)

\* When the process is gone the next one reads the file.
LEMMA GoneKeeps ==
  ASSUME RestInv, Gone, UNCHANGED <<file, writer, count>>,
         seen' \in Text, status' \in {"CHECKING", "UPDATED", "ERROR"},
         node' \in {"Updated", "Failed"}
  PROVE  RestInv'
<1> USE DEF RestInv, RestTypeOK, PlaceOfKind, At, Requested, Gone
<1>1. NoRequest \in Requested
  BY AnsweredIsRequest DEF NoRequest
<1>2. RestTypeOK' /\ PlaceOfKind'
  BY <1>1 DEF NoRequest, Request, Routes
<1>3. NewCredentialsAreTaken'
  BY DEF NewCredentialsAreTaken, WillRead
<1>4. QED
  BY <1>2, <1>3

LEMMA PanicsAndKillsKeep ==
  ASSUME RestInv,
         (\E w \in Workers : WorkerPanics(w)) \/ WorkPanics \/ Exit \/ Kill
  PROVE  RestInv'
<1>1. node' \in {"Updated", "Failed"}
  BY DEF WorkerPanics, WorkPanics, Exit, Kill, RestInv, RestTypeOK
<1>2. CASE Die
  BY <1>1, <1>2, GoneKeeps DEF Die, RestInv, RestTypeOK
<1>3. CASE WorkPanics /\ ~Die
  BY <1>3 DEF WorkPanics, RestInv, RestTypeOK, PlaceOfKind, At, NewCredentialsAreTaken, WillRead
<1>4. ASSUME NEW w \in Workers, WorkerPanics(w), ~Die PROVE RestInv'
  <2> USE DEF RestInv, RestTypeOK, PlaceOfKind, At, Requested
  <2>1. UNCHANGED <<file, writer, count, routes, chan, ota, seen, status>>
    BY <1>4 DEF WorkerPanics
  <2>2. req' = [req EXCEPT ![w] = Request("none", Unreadable("none"), "idle", 0)]
    BY <1>4 DEF WorkerPanics, Answered
  <2>3. Request("none", Unreadable("none"), "idle", 0) \in Requested
    BY AnsweredIsRequest
  <2>4. RestTypeOK' /\ PlaceOfKind'
    BY <1>1, <2>1, <2>2, <2>3 DEF Request
  <2>5. req[w].at \in {"check", "fetch"}
    BY <1>4 DEF WorkerPanics
  <2>6. NewCredentialsAreTaken'
    BY <2>1, <2>2, <2>5 DEF NewCredentialsAreTaken, WillRead
  <2>7. QED
    BY <2>4, <2>6
<1>5. QED
  BY <1>2, <1>3, <1>4 DEF WorkerPanics, WorkPanics, Exit, Kill

\* A run reads the file when it begins, and a message is taken only to begin a run.
LEMMA OTAThreadKeeps ==
  ASSUME RestInv, (OTAThread /\ ~Exit) \/ Retry \/ WorkFails
  PROVE  RestInv'
<1> USE DEF RestInv, RestTypeOK, PlaceOfKind, At, NewCredentialsAreTaken, WillRead
<1>1. CASE Die /\ node' \in {"Updated", "Failed"}
  BY <1>1, GoneKeeps DEF Die
<1>2. CASE NewManager \/ WorkSucceeds \/ WorkFails
  BY <1>1, <1>2 DEF NewManager, WorkSucceeds, WorkFails, Shows
<1>3. CASE AddCallback
  BY <1>3 DEF AddCallback, Routes
<1>4. CASE Run \/ Restart \/ Timer \/ Retry
  BY <1>4 DEF Run, Restart, Timer, Retry
<1>5. CASE FetchLicense
  <2>1. CASE Panics(file)
    BY <1>5, <2>1, GoneKeeps DEF FetchLicense
  <2>2. CASE ~Panics(file)
    BY <1>5, <2>2 DEF FetchLicense
  <2>3. QED
    BY <2>1, <2>2
<1>6. CASE Take
  <2>1. CASE Head(chan) = "update_version_force" /\ Panics(file)
    BY <1>1, <1>6, <2>1 DEF Take
  <2>2. CASE ~(Head(chan) = "update_version_force" /\ Panics(file))
    <3>1. UNCHANGED <<file, writer, req, count, routes, seen, node>> /\ chan # <<>>
      BY <1>6, <2>2 DEF Take
    <3>2. chan' = Tail(chan) /\ chan' \in Seq(Triggers)
      <4>1. chan' = Tail(chan)
        BY <1>6, <2>2 DEF Take
      <4>2. QED
        BY <3>1, <4>1
    <3>3. \/ ota' = "start" /\ UNCHANGED status
          \/ UNCHANGED ota /\ status' = "ERROR" /\ Head(chan) = "update_version_force"
      <4>1. CASE Head(chan) = "update_version_force" /\ ~Readable
        BY <1>6, <2>2, <4>1 DEF Take
      <4>2. CASE ~(Head(chan) = "update_version_force" /\ ~Readable)
        BY <1>6, <2>2, <4>2 DEF Take
      <4>3. QED
        BY <4>1, <4>2
    <3>4. \A i \in DOMAIN chan : i = 1 \/ (i - 1 \in DOMAIN chan' /\ chan'[i - 1] = chan[i])
      BY <3>1, <3>2
    <3>5. RestTypeOK' /\ PlaceOfKind'
      BY <3>1, <3>2, <3>3
    <3>6. NewCredentialsAreTaken'
      BY <3>1, <3>3, <3>4
    <3>7. QED
      BY <3>5, <3>6
  <2>3. QED
    BY <2>1, <2>2
<1>7. QED
  BY <1>2, <1>3, <1>4, <1>5, <1>6 DEF OTAThread

-----------------------------------------------------------------------------
(* Theorems *)

LEMMA Invariant == Spec => []RestInv
<1>1. Init => RestInv
  <2> SUFFICES ASSUME Init PROVE RestInv
    OBVIOUS
  <2>1. NoRequest \in Requested
    BY AnsweredIsRequest DEF NoRequest
  <2>2. QED
    BY <2>1, TextCases, RestAssumption
      DEF Init, RestInv, RestTypeOK, PlaceOfKind, At, NewCredentialsAreTaken, WillRead,
          NoRequest, Request, Requested, Routes
<1>2. RestInv /\ [Next]_vars => RestInv'
  <2> SUFFICES ASSUME RestInv, [Next]_vars PROVE RestInv'
    OBVIOUS
  <2>1. CASE UNCHANGED vars
    BY <2>1 DEF vars, RestInv, RestTypeOK, PlaceOfKind, At, NewCredentialsAreTaken, WillRead
  <2>2. CASE Client
    BY <2>2, ArriveKeeps DEF Client
  <2>3. ASSUME NEW w \in Workers, Callback(w) \/ CallbackFails(w) PROVE RestInv'
    BY <2>3, LooksKeeps, SavesKeeps, SendKeeps, PanicsAndKillsKeep DEF Callback, CallbackFails
  <2>4. CASE OTAThread \/ WorkGoesWrong \/ Kill
    BY <2>4, OTAThreadKeeps, PanicsAndKillsKeep DEF WorkGoesWrong
  <2>5. QED
    BY <2>1, <2>2, <2>3, <2>4 DEF Next
<1>3. QED
  BY <1>1, <1>2, PTL DEF Spec

\* Every variable has its type, and only valid credentials are written to the auth
\* file, for any threads, bodies and faults.
THEOREM RestTypeCorrect == Spec => []RestTypeOK
  BY Invariant, PTL DEF RestInv

\* Credentials that update_version saved are read by a run that begins after that, or
\* a message that makes one is on its way, whatever else is asked for, fails or dies
\* (rest_listener.rs:88-100).
THEOREM NewCredentialsAreTakenHolds == Spec => []NewCredentialsAreTaken
  BY Invariant, PTL DEF RestInv
=============================================================================
