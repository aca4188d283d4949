------------------------------ MODULE RestClient ------------------------------
(***************************************************************************)
(* What the agent asks of the Coupling server, request by request:         *)
(* src/src/auth/license_manager.rs (the token), rest_comm/                 *)
(* coupling_rest_comm.rs (the status of the node and the other routes) and *)
(* the answers as rest_request/mod.rs maps them.  Servers of three         *)
(* generations are in the field; the agent tries the newest routes first   *)
(* and an older one when the answer is 404.  The network loses requests    *)
(* and answers, and a request it gave up may still be handled later.       *)
(***************************************************************************)
EXTENDS Naturals, Sequences

CONSTANTS
  Generations,   \* servers: the versions of the routes and whether "ota" is one of them
  PutValues,     \* the statuses that are put
  MaxPuts,       \* how often, in the model
  NetFaults      \* what may go wrong

\* "lose"     no answer, with the request lost, handled or handled later
\* "cut"      the text of an answer breaks off
\* "refuse"   the server answers with another error than 404
\* "odd"      the server answers with a success other than 200
\* "garble"   the text of an answer is not what it should be
\* "upgrade"  the server becomes one of another generation
ASSUME ClientAssumption ==
  /\ Generations \subseteq [apis : (SUBSET {"v3", "v1"}) \ {{}}, ota : BOOLEAN]
  /\ PutValues \subseteq {"downloading", "installing", "updated", "failed"}
  /\ MaxPuts \in Nat
  /\ NetFaults \subseteq {"lose", "cut", "refuse", "odd", "garble", "upgrade"}

VARIABLES
  server,     \* its generation
  recorded,   \* the puts it recorded: the number of each and its value
  requests,   \* the requests it has not handled yet
  pc,         \* "idle", "send" the next request, "sent", or "retry" the token
  call,       \* the call under way
  answer,     \* its answer, NoAnswer before and without one
  puts,       \* the puts so far
  token,      \* whether the agent has a token
  clean       \* nothing went wrong during the call

vars == <<server, recorded, requests, pc, call, answer, puts, token, clean>>

Words == {"downloading", "installing", "updating", "updated", "failed", "triggered"}
Routes == {"challenge", "validate", "ota", "ota-status", "versions"}
Versions == {"v3", "v1"}

NoAnswer == [code |-> 0, text |-> "none", cut |-> FALSE]
NoCall == [op |-> "none", route |-> "versions", version |-> "v3", put |-> 0, value |-> "none"]

Init ==
  /\ server \in Generations
  /\ recorded = <<>> /\ requests = {}
  /\ pc = "idle" /\ call = NoCall /\ answer = NoAnswer
  /\ puts = 0 /\ token = FALSE /\ clean = TRUE

-----------------------------------------------------------------------------
(* Conversions *)

\* get_response and get_response_text: four codes are a success, with the text read
\* to its end.
Ok(a) == a.code \in {200, 204, 206, 308} /\ ~a.cut
NotFound(a) == a.code = 404 /\ ~a.cut

\* The word of a status on the new route is its own name, on the old one that of
\* as_str.
Word(value, route) ==
  IF route = "ota-status" /\ value \in {"downloading", "installing"} THEN "updating" ELSE value

\* from_string knows the words of as_str.
FromString(word) == IF word \in {"failed", "triggered", "updating", "updated"} THEN word ELSE "triggered"

Serves(route, version) ==
  /\ version \in server.apis
  /\ route = "ota" => server.ota

-----------------------------------------------------------------------------
(* Calls of the agent *)

Starts(op, route, put, value) ==
  /\ call' = [op |-> op, route |-> route, version |-> "v3", put |-> put, value |-> value]
  /\ pc' = "send" /\ clean' = TRUE
  /\ UNCHANGED <<server, recorded, requests, answer>>

\* run_once begins with the token: a fetched licence manager has a new one.
FetchToken ==
  /\ pc \in {"idle", "retry"}
  /\ Starts("token", "challenge", 0, "none")
  /\ token' = FALSE
  /\ UNCHANGED puts

PutOtaStatus(value) ==
  /\ pc = "idle" /\ token /\ puts < MaxPuts
  /\ Starts("put", "ota", puts + 1, value)
  /\ puts' = puts + 1
  /\ UNCHANGED token

\* A run that installs nothing puts "updated" unless the server shows that already.
FinishRun ==
  /\ pc = "idle" /\ token /\ puts < MaxPuts
  /\ Starts("get", "ota", 0, "none")
  /\ UNCHANGED <<token, puts>>

\* check_versions, post_checksums, send_file_to_jira
Ask ==
  /\ pc = "idle" /\ token
  /\ Starts("ask", "versions", 0, "none")
  /\ UNCHANGED <<token, puts>>

Request == [put |-> call.put, route |-> call.route, version |-> call.version, value |-> call.value]

Send ==
  /\ pc = "send"
  /\ requests' = requests \cup {Request}
  /\ pc' = "sent"
  /\ UNCHANGED <<server, recorded, call, answer, puts, token, clean>>

-----------------------------------------------------------------------------
(* The server and the network *)

Shown == IF recorded = <<>> THEN "triggered" ELSE recorded[Len(recorded)].word

Record(r) ==
  recorded' = IF r.put = 0 THEN recorded
              ELSE Append(recorded, [put |-> r.put, word |-> Word(r.value, r.route)])

Awaited(r) == pc = "sent" /\ r = Request

\* The answers the server may give to a request, and whether it does what is asked.
Answers(r, code, text) ==
  \/ ~Serves(r.route, r.version) /\ code = 404 /\ text = "none" /\ UNCHANGED recorded
  \/ "refuse" \in NetFaults /\ code = 500 /\ text = "none" /\ UNCHANGED recorded
  \/ /\ Serves(r.route, r.version) /\ Record(r)
     /\ code \in {200} \cup {c \in {204} : "odd" \in NetFaults}
     /\ text \in {IF r.route = "ota" THEN Shown ELSE "none"} \cup {t \in {"garbled"} : "garble" \in NetFaults}

Faulty(code, text, cut) == code \notin {200, 404} \/ text = "garbled" \/ cut

Handle(r) ==
  \E code \in {200, 204, 404, 500}, text \in Words \cup {"none", "garbled"},
     cut \in {FALSE} \cup {c \in {TRUE} : "cut" \in NetFaults} :
    /\ r \in requests /\ requests' = requests \ {r}
    /\ Answers(r, code, text)
    /\ IF Awaited(r)
       THEN /\ answer' = [code |-> code, text |-> text, cut |-> cut]
            /\ pc' = "answered" /\ clean' = (clean /\ ~Faulty(code, text, cut))
       ELSE UNCHANGED <<answer, pc, clean>>
    /\ UNCHANGED <<server, call, puts, token>>

\* The client gives up.  The request is lost, or handled when its time comes, of which
\* a put is the one that matters.
Lose ==
  /\ "lose" \in NetFaults
  /\ pc = "sent"
  /\ \/ requests' = requests \ {Request}
     \/ call.op = "put" /\ UNCHANGED requests
  /\ pc' = "answered" /\ clean' = FALSE
  /\ UNCHANGED <<server, recorded, call, answer, puts, token>>

Upgrade ==
  /\ "upgrade" \in NetFaults
  /\ server' \in Generations \ {server}
  /\ clean' = FALSE
  /\ UNCHANGED <<recorded, requests, pc, call, answer, puts, token>>

-----------------------------------------------------------------------------
(* What follows an answer *)

Again(route, version) ==
  /\ pc' = "send" /\ call' = [call EXCEPT !.route = route, !.version = version]
  /\ UNCHANGED <<puts, token>>

Ends(next) == pc' = next /\ UNCHANGED <<call, puts>>

\* As a bug: any error is asked again.
RedirectOnError == ~Ok(answer) /\ call.version = "v3"

\* As a bug: only what v3 answers counts.
RedirectNever == FALSE

\* redirect_send and its like in the licence manager: a 404 of the newest route, and
\* nothing else, is asked again of the older.
Redirect == NotFound(answer) /\ call.version = "v3"

TokenAnswered ==
  /\ call.op = "token"
  /\ CASE Ok(answer) /\ answer.code = 200 /\ answer.text # "garbled" ->
            IF call.route = "challenge" THEN Again("validate", "v3")
            ELSE Ends("idle") /\ token' = TRUE
       [] ~Ok(answer) /\ ~NotFound(answer) -> Ends("retry") /\ UNCHANGED token
       [] OTHER -> Ends("idle") /\ UNCHANGED token

\* As a bug: servers of 1.27 are forgotten.
PutAnsweredNewRouteOnly == call.op = "put" /\ Ends("idle") /\ UNCHANGED token

PutAnswered ==
  /\ call.op = "put"
  /\ IF NotFound(answer) /\ call.route = "ota" THEN Again("ota-status", "v3")
     ELSE Ends("idle") /\ UNCHANGED token

\* As a bug: the other status for what cannot be read, as on Windows.
ReadUpdated(a) == IF Ok(a) THEN FromString(a.text) ELSE "updated"

\* Whatever cannot be read counts as triggered.
Read(a) == IF Ok(a) THEN FromString(a.text) ELSE "triggered"

GetAnswered ==
  /\ call.op = "get"
  /\ UNCHANGED token
  /\ IF Read(answer) = "updated" THEN Ends("idle")
     ELSE /\ pc' = "send" /\ puts' = puts + 1
          /\ call' = [op |-> "put", route |-> "ota", version |-> "v3",
                      put |-> puts + 1, value |-> "updated"]

AskAnswered == call.op = "ask" /\ Ends("idle") /\ UNCHANGED token

\* The text of an error is read with unwrap: the process ends and starts anew.
CutErrorPanics ==
  /\ pc = "answered" /\ answer.cut /\ answer.code \in {404, 500}
  /\ pc' = "idle" /\ call' = NoCall /\ token' = FALSE /\ answer' = NoAnswer
  /\ UNCHANGED <<server, recorded, requests, puts, clean>>

Receive ==
  /\ pc = "answered" /\ ~(answer.cut /\ answer.code \in {404, 500})
  /\ IF Redirect THEN Again(call.route, "v1")
     ELSE TokenAnswered \/ PutAnswered \/ GetAnswered \/ AskAnswered
  /\ answer' = NoAnswer
  /\ UNCHANGED <<server, recorded, requests, clean>>

-----------------------------------------------------------------------------
\* run_until_complete runs again what ended with a network error.
Retry == pc = "retry" /\ FetchToken
HandleAwaited == \E r \in requests : Awaited(r) /\ Handle(r)

Next ==
  \/ FetchToken \/ FinishRun \/ Ask
  \/ \E value \in PutValues : PutOtaStatus(value)
  \/ Send \/ Receive \/ CutErrorPanics
  \/ \E r \in requests : Handle(r)
  \/ Lose \/ Upgrade

Spec == Init /\ [][Next]_vars

\* The agent goes on and waits no longer than its poll frequency; the server answers.
FairSpec ==
  /\ Spec
  /\ WF_vars(Send) /\ WF_vars(Receive) /\ WF_vars(Retry) /\ WF_vars(HandleAwaited)

-----------------------------------------------------------------------------
(* Properties *)

ClientTypeOK ==
  /\ server \in Generations
  /\ recorded \in Seq([put : 1..MaxPuts, word : Words \ {"triggered"}])
  /\ \A r \in requests : r.put \in 0..puts /\ r.route \in Routes /\ r.version \in Versions
  /\ pc \in {"idle", "send", "sent", "answered", "retry"}
  /\ call.op \in {"none", "token", "put", "get", "ask"} /\ call.put \in 0..puts
  /\ puts \in 0..MaxPuts
  /\ token \in BOOLEAN /\ clean \in BOOLEAN

\* A status is recorded at most once, though one put may ask four times and a request
\* that was given up is handled later: the next route is taken after an answer that
\* says that nothing was done (coupling_rest_comm.rs:25-35, 114-131).
PutsAreRecordedOnce ==
  \A i, j \in DOMAIN recorded : recorded[i].put = recorded[j].put => i = j

\* When nothing goes wrong a status reaches a server of any generation, the ones
\* without the route of today included.
PutReachesEveryServer ==
  pc = "idle" /\ call.op = "put" /\ clean =>
    \E i \in DOMAIN recorded : recorded[i].put = call.put

\* A run that installed nothing leaves "updated" unsent only if the server has shown it
\* before: an answer that is missing or not understood is not taken for it, on the
\* old routes neither (coupling_rest_comm.rs:163-198, ota_manager.rs:329-335).
UpdatedIsNotAssumed ==
  pc = "idle" /\ call.op = "get" =>
    \E i \in DOMAIN recorded : recorded[i].word = "updated"

\* Once nothing goes wrong any more, an agent that asks for its token gets it, from a
\* server of any generation: a 404 leads to the other route and a failure of the
\* network to another try (license_manager.rs:197-275, ota_manager.rs:197-214,
\* 436-448).
TokenIsFetched ==
  <>[]clean => (pc = "retry" \/ (call.op = "token" /\ pc # "idle") ~> token)
=============================================================================
