---------------------------- MODULE RestClientProofs ----------------------------
(***************************************************************************)
(* What holds of RestClient for servers of any set of generations, any     *)
(* number of puts and any faults: a put is recorded once although it asks  *)
(* several routes, a clean one reaches the server, and "updated" is not    *)
(* taken for granted.  The invariant follows a put through its routes: it  *)
(* is asked for again only while nothing of it is recorded or on its way.  *)
(***************************************************************************)
EXTENDS RestClient, TLAPS

-----------------------------------------------------------------------------
(* The inductive invariant *)

Values == PutValues \cup {"updated"}
Messages == [put : 0..MaxPuts, route : Routes, version : Versions, value : Values \cup {"none"}]
Records == [put : 1..MaxPuts, word : Words \ {"triggered"}]
Calls == [op : {"none", "token", "put", "get", "ask"}, route : Routes, version : Versions,
          put : 0..MaxPuts, value : Values \cup {"none"}]
AnswerSet == [code : {0, 200, 204, 404, 500}, text : Words \cup {"none", "garbled"}, cut : BOOLEAN]

\* Only a put has a number and a value.
PutsAreNumbered ==
  /\ call.put # 0 <=> call.op = "put"
  /\ call.op = "put" => call.put <= puts /\ call.value # "none" /\ call.route \in {"ota", "ota-status"}
  /\ call.op = "get" => call.route = "ota"
  /\ call.op = "get" /\ pc # "idle" => puts < MaxPuts
  /\ \A r \in requests : r.put <= puts /\ (r.put # 0 => r.value # "none")
  /\ \A i \in DOMAIN recorded : recorded[i].put <= puts

Types ==
  /\ server \in Generations
  /\ recorded \in Seq(Records) /\ requests \subseteq Messages
  /\ pc \in {"idle", "send", "sent", "answered", "retry"}
  /\ call \in Calls /\ answer \in AnswerSet
  /\ puts \in 0..MaxPuts /\ token \in BOOLEAN /\ clean \in BOOLEAN
  /\ pc # "answered" => answer = NoAnswer
  /\ PutsAreNumbered

Recorded(p) == \E i \in DOMAIN recorded : recorded[i].put = p
Pending(p) == \E r \in requests : r.put = p

\* What can still be recorded is not yet, and by one request only; a put that may be
\* asked for again has left nothing.
Once ==
  /\ PutsAreRecordedOnce
  /\ \A r \in requests : r.put # 0 => ~Recorded(r.put)
  /\ \A q, r \in requests : q.put = r.put /\ r.put # 0 => q = r
  /\ call.op = "put" /\ (pc = "send" \/ (pc = "answered" /\ answer.code = 404)) =>
       ~Recorded(call.put) /\ ~Pending(call.put)

\* A clean put is recorded, or the server has not the routes it tried.
Reached ==
  /\ PutReachesEveryServer
  /\ clean /\ call.op = "put" /\ pc = "answered" =>
       \/ answer.code = 200 /\ Recorded(call.put)
       \/ answer.code = 404 /\ ~Serves(call.route, call.version)
  /\ clean /\ call.op = "put" /\ pc \in {"send", "sent", "answered"} /\ call.version = "v1" =>
       ~Serves(call.route, "v3")

UpdatedIsRecorded == \E i \in DOMAIN recorded : recorded[i].word = "updated"

\* An answer "updated" is one that was recorded.
Told ==
  /\ UpdatedIsNotAssumed
  /\ call.op = "get" /\ pc = "answered" /\ answer.text = "updated" => UpdatedIsRecorded

ClientInv == Types /\ Once /\ Reached /\ Told

-----------------------------------------------------------------------------
(* The record of the server *)

LEMMA ValueCases ==
  /\ \A v \in Values : v # "none" /\ v \in Words \ {"triggered"}
  /\ \A v \in Values, route \in Routes : Word(v, route) \in Words \ {"triggered"}
  BY ClientAssumption DEF Values, Words, Word

\* A handled put is added at the end, and whatever was there stays.
LEMMA RecordAdds ==
  ASSUME Types, NEW r \in requests, Record(r)
  PROVE  /\ recorded' \in Seq(Records)
         /\ \A i \in DOMAIN recorded : i \in DOMAIN recorded' /\ recorded'[i] = recorded[i]
         /\ \A i \in DOMAIN recorded' :
              i \in DOMAIN recorded \/ (r.put # 0 /\ i = Len(recorded) + 1 /\ recorded'[i].put = r.put)
         /\ r.put # 0 => Len(recorded) + 1 \in (DOMAIN recorded') \ DOMAIN recorded
<1>1. r \in Messages /\ recorded \in Seq(Records) /\ (r.put # 0 => r.value \in Values)
  BY DEF Types, Messages, PutsAreNumbered
<1>2. CASE r.put = 0
  BY <1>1, <1>2 DEF Record
<1>3. CASE r.put # 0
  <2> DEFINE e == [put |-> r.put, word |-> Word(r.value, r.route)]
  <2>1. recorded' = Append(recorded, e)
    BY <1>3 DEF Record
  <2>2. e \in Records
    BY <1>1, <1>3, ValueCases, ClientAssumption DEF Messages, Records
  <2>3. e.put = r.put
    OBVIOUS
  <2> HIDE DEF e
  <2>4. QED
    BY <1>1, <1>3, <2>1, <2>2, <2>3
<1>4. QED
  BY <1>2, <1>3

-----------------------------------------------------------------------------
(* Calls *)

\* A call that begins has left nothing yet.
LEMMA StartsKeep ==
  ASSUME ClientInv, NEW op \in {"token", "put", "get", "ask"},
         NEW route \in {"challenge", "ota", "versions"}, NEW value \in Values \cup {"none"},
         pc' = "send", puts' \in 0..MaxPuts, answer' = NoAnswer,
         call' = [op |-> op, route |-> route, version |-> "v3",
                  put |-> IF op = "put" THEN puts' ELSE 0, value |-> value],
         op = "put" => puts' = puts + 1 /\ value # "none" /\ route = "ota",
         op # "put" => puts' = puts,
         op = "get" => route = "ota" /\ puts < MaxPuts,
         clean' \in BOOLEAN, token' \in BOOLEAN, UNCHANGED <<server, recorded, requests>>
  PROVE  ClientInv'
<1> USE DEF Recorded, Pending
<1>1. /\ call'.op = op /\ call'.route = route /\ call'.version = "v3" /\ call'.value = value
      /\ call'.put = IF op = "put" THEN puts' ELSE 0
  OBVIOUS
<1>2. puts \in 0..MaxPuts
  BY DEF ClientInv, Types
<1>3. call' \in Calls
  <2>1. (IF op = "put" THEN puts' ELSE 0) \in 0..MaxPuts
    BY <1>2, ClientAssumption
  <2>2. route \in Routes /\ "v3" \in Versions
    BY DEF Routes, Versions
  <2>3. QED
    BY <2>1, <2>2 DEF Calls
<1>4. PutsAreNumbered'
  <2>1. \A r \in requests : r.put <= puts' /\ (r.put # 0 => r.value # "none")
    BY <1>2, ClientAssumption DEF ClientInv, Types, PutsAreNumbered, Messages
  <2>2. \A i \in DOMAIN recorded : recorded[i].put <= puts'
    <3>1. \A i \in DOMAIN recorded : recorded[i] \in Records
      BY DEF ClientInv, Types
    <3>2. QED
      BY <1>2, <3>1 DEF ClientInv, Types, PutsAreNumbered, Records
  <2>3. QED
    BY <1>1, <1>2, <2>1, <2>2 DEF PutsAreNumbered
<1>5. Types'
  <2>1. NoAnswer \in AnswerSet
    BY DEF NoAnswer, AnswerSet
  <2>2. QED
    BY <1>3, <1>4, <2>1 DEF ClientInv, Types
<1>6. Once'
  <2>1. op = "put" => ~Recorded(call'.put) /\ ~Pending(call'.put)
    <3>1. \A i \in DOMAIN recorded : recorded[i] \in Records
      BY DEF ClientInv, Types
    <3>2. \A r \in requests : r.put \in 0..MaxPuts /\ r.put <= puts
      BY DEF ClientInv, Types, Messages, PutsAreNumbered
    <3>3. QED
      BY <1>1, <1>2, <3>1, <3>2 DEF ClientInv, Types, PutsAreNumbered, Records
  <2>2. QED
    BY <1>1, <2>1 DEF ClientInv, Once, PutsAreRecordedOnce
<1>7. Reached'
  BY <1>1 DEF Reached, PutReachesEveryServer
<1>8. Told'
  BY DEF Told, UpdatedIsNotAssumed
<1>9. QED
  BY <1>5, <1>6, <1>7, <1>8 DEF ClientInv

LEMMA BeginKeeps ==
  ASSUME ClientInv,
         \/ FetchToken \/ FinishRun \/ Ask
         \/ \E value \in PutValues : PutOtaStatus(value)
  PROVE  ClientInv'
<1>1. puts \in 0..MaxPuts /\ token \in BOOLEAN /\ MaxPuts \in Nat
  BY ClientAssumption DEF ClientInv, Types
<1>2. pc # "answered" => answer = NoAnswer
  BY DEF ClientInv, Types
<1>3. CASE FetchToken
  BY <1>1, <1>2, <1>3, StartsKeep DEF FetchToken, Starts
<1>4. CASE FinishRun
  BY <1>1, <1>2, <1>4, StartsKeep DEF FinishRun, Starts
<1>5. CASE Ask
  BY <1>1, <1>2, <1>5, StartsKeep DEF Ask, Starts
<1>6. ASSUME NEW value \in PutValues, PutOtaStatus(value) PROVE ClientInv'
  <2>1. value \in Values /\ value # "none"
    BY ValueCases DEF Values
  <2>2. QED
    BY <1>1, <1>2, <1>6, <2>1, StartsKeep DEF PutOtaStatus, Starts
<1>7. QED
  BY <1>3, <1>4, <1>5, <1>6

\* A request that is sent is the only one of its put.
LEMMA SendKeeps == ASSUME ClientInv, Send PROVE ClientInv'
<1> USE DEF Send
<1>1. /\ Request \in Messages /\ Request.put = call.put /\ Request.value = call.value
      /\ Request.put # 0 => call.op = "put"
  BY DEF ClientInv, Types, PutsAreNumbered, Request, Calls, Messages
<1>2. Types'
  BY <1>1 DEF ClientInv, Types, PutsAreNumbered
<1>3. Once'
  BY <1>1 DEF ClientInv, Types, PutsAreNumbered, Once, PutsAreRecordedOnce, Recorded, Pending
<1>4. Reached' /\ Told'
  BY DEF ClientInv, Reached, PutReachesEveryServer, Told, UpdatedIsNotAssumed, Serves
<1>5. QED
  BY <1>2, <1>3, <1>4 DEF ClientInv

-----------------------------------------------------------------------------
(* The server and the network *)

LEMMA LoseKeeps == ASSUME ClientInv, Lose PROVE ClientInv'
<1> USE DEF Lose
<1>1. answer = NoAnswer /\ requests' \subseteq requests
  BY DEF ClientInv, Types
<1>2. Types'
  BY <1>1 DEF ClientInv, Types, PutsAreNumbered
<1>3. Once'
  BY <1>1 DEF ClientInv, Once, PutsAreRecordedOnce, Recorded, Pending, NoAnswer
<1>4. Reached' /\ Told'
  BY <1>1 DEF ClientInv, Reached, PutReachesEveryServer, Told, UpdatedIsNotAssumed, NoAnswer
<1>5. QED
  BY <1>2, <1>3, <1>4 DEF ClientInv

LEMMA UpgradeKeeps == ASSUME ClientInv, Upgrade PROVE ClientInv'
<1> USE DEF Upgrade
<1>1. Types'
  BY DEF ClientInv, Types, PutsAreNumbered
<1>2. Once'
  BY DEF ClientInv, Once, PutsAreRecordedOnce, Recorded, Pending
<1>3. Reached' /\ Told'
  BY DEF ClientInv, Reached, PutReachesEveryServer, Told, UpdatedIsNotAssumed, UpdatedIsRecorded
<1>4. QED
  BY <1>1, <1>2, <1>3 DEF ClientInv

LEMMA PanicKeeps == ASSUME ClientInv, CutErrorPanics PROVE ClientInv'
<1> USE DEF CutErrorPanics
<1>1. NoCall \in Calls /\ NoAnswer \in AnswerSet
  BY ClientAssumption DEF NoCall, NoAnswer, Calls, AnswerSet, Routes, Versions
<1>2. Types'
  <2>1. call'.put = 0 /\ call'.op = "none"
    BY DEF NoCall
  <2>2. PutsAreNumbered'
    BY <2>1 DEF ClientInv, Types, PutsAreNumbered
  <2>3. QED
    BY <1>1, <2>2 DEF ClientInv, Types
<1>3. Once'
  BY DEF ClientInv, Once, PutsAreRecordedOnce, Recorded, Pending, NoCall
<1>4. Reached' /\ Told'
  BY DEF Reached, PutReachesEveryServer, Told, UpdatedIsNotAssumed, NoCall
<1>5. QED
  BY <1>2, <1>3, <1>4 DEF ClientInv

\* What is handled is added to the record at most once, and an answer tells what the
\* server has done.
LEMMA HandleKeeps ==
  ASSUME ClientInv, NEW r \in requests, Handle(r)
  PROVE  ClientInv'
<1>1. PICK code \in {200, 204, 404, 500}, text \in Words \cup {"none", "garbled"}, cut \in {FALSE} \cup {c \in {TRUE} : "cut" \in NetFaults} :
        /\ r \in requests /\ requests' = requests \ {r}
        /\ Answers(r, code, text)
        /\ IF Awaited(r)
           THEN /\ answer' = [code |-> code, text |-> text, cut |-> cut]
                /\ pc' = "answered" /\ clean' = (clean /\ ~Faulty(code, text, cut))
           ELSE UNCHANGED <<answer, pc, clean>>
        /\ UNCHANGED <<server, call, puts, token>>
  BY DEF Handle
<1>2. \/ Record(r) /\ Serves(r.route, r.version) /\ code \in {200, 204}
      \/ UNCHANGED recorded /\ code \in {404, 500} /\ text = "none"
  BY <1>1 DEF Answers
<1>3. /\ recorded' \in Seq(Records)
      /\ \A i \in DOMAIN recorded : i \in DOMAIN recorded' /\ recorded'[i] = recorded[i]
      /\ \A i \in DOMAIN recorded' :
           i \in DOMAIN recorded \/ (r.put # 0 /\ i = Len(recorded) + 1 /\ recorded'[i].put = r.put)
  BY <1>2, RecordAdds DEF ClientInv, Types
<1>4. r \in Messages /\ r.put <= puts
  BY DEF ClientInv, Types, PutsAreNumbered
<1>5. ASSUME Awaited(r)
      PROVE  /\ r.put = call.put /\ r.route = call.route /\ r.version = call.version
             /\ pc = "sent" /\ pc' = "answered"
             /\ answer'.code = code /\ answer'.text = text /\ answer' \in AnswerSet
             /\ clean' \in BOOLEAN /\ (clean' => clean /\ code \in {200, 404})
  <2>1. cut \in BOOLEAN
    OBVIOUS
  <2>2. answer' = [code |-> code, text |-> text, cut |-> cut] /\ pc' = "answered"
    BY <1>1, <1>5
  <2>3. answer' \in AnswerSet /\ answer'.code = code /\ answer'.text = text
    BY <2>1, <2>2 DEF AnswerSet
  <2>4. clean' = (clean /\ ~Faulty(code, text, cut))
    BY <1>1, <1>5
  <2>5. clean' \in BOOLEAN /\ (clean' => clean /\ code \in {200, 404})
    BY <2>4 DEF Faulty
  <2>6. QED
    BY <1>5, <2>2, <2>3, <2>5 DEF Awaited, Request
<1>6. Types'
  <2>1. \A i \in DOMAIN recorded' : recorded'[i].put <= puts
    BY <1>3, <1>4 DEF ClientInv, Types, PutsAreNumbered
  <2>2. PutsAreNumbered'
    BY <1>1, <2>1 DEF ClientInv, Types, PutsAreNumbered, Awaited
  <2>3. answer' \in AnswerSet /\ pc' \in {"idle", "send", "sent", "answered", "retry"} /\ clean' \in BOOLEAN
    <3>1. CASE Awaited(r)
      BY <1>5, <3>1
    <3>2. CASE ~Awaited(r)
      BY <1>1, <3>2 DEF ClientInv, Types
    <3>3. QED
      BY <3>1, <3>2
  <2>4. pc' # "answered" => answer' = NoAnswer
    BY <1>1 DEF ClientInv, Types
  <2>5. QED
    BY <1>1, <1>3, <2>2, <2>3, <2>4 DEF ClientInv, Types
<1>7. Once'
  <2>1. PutsAreRecordedOnce'
    BY <1>3 DEF ClientInv, Once, PutsAreRecordedOnce, Recorded
  <2>2. \A q \in requests' : q.put # 0 => ~Recorded(q.put)'
    BY <1>1, <1>3 DEF ClientInv, Once, Recorded
  <2>3. ASSUME call'.op = "put", pc' = "send" \/ (pc' = "answered" /\ answer'.code = 404)
        PROVE  ~Recorded(call.put)' /\ ~Pending(call.put)'
    <3>1. CASE Awaited(r)
      <4>1. code = 404 /\ UNCHANGED recorded
        BY <1>2, <1>5, <2>3, <3>1
      <4>2. call.put # 0 /\ call' = call /\ r.put = call.put
        BY <1>1, <1>5, <2>3, <3>1 DEF ClientInv, Types, PutsAreNumbered
      <4>3. QED
        BY <1>1, <4>1, <4>2 DEF ClientInv, Once, Recorded, Pending
    <3>2. CASE ~Awaited(r)
      BY <1>1, <1>3, <2>3, <3>2 DEF ClientInv, Once, Recorded, Pending
    <3>3. QED
      BY <3>1, <3>2
  <2>4. QED
    BY <1>1, <2>1, <2>2, <2>3 DEF ClientInv, Once
<1>8. Reached'
  <2>1. ASSUME clean', call'.op = "put", pc' = "answered"
        PROVE  \/ answer'.code = 200 /\ Recorded(call.put)'
               \/ answer'.code = 404 /\ ~Serves(call.route, call.version)'
    <3>1. CASE Awaited(r)
      <4>1. code \in {200, 404} /\ answer'.code = code
        BY <1>5, <2>1, <3>1
      <4>2. call' = call /\ call.put # 0 /\ r.put = call.put
        BY <1>1, <1>5, <2>1, <3>1 DEF ClientInv, Types, PutsAreNumbered
      <4>3. CASE code = 200
        BY <1>2, <1>3, <4>1, <4>2, <4>3, RecordAdds DEF ClientInv, Recorded
      <4>4. CASE code = 404
        <5>1. ~Serves(r.route, r.version)
          BY <1>1, <4>4 DEF Answers
        <5>2. QED
          BY <1>1, <1>5, <3>1, <4>1, <4>4, <5>1 DEF Serves
      <4>5. QED
        BY <4>1, <4>3, <4>4
    <3>2. CASE ~Awaited(r)
      <4>1. UNCHANGED <<answer, pc, clean, call, server>>
        BY <1>1, <3>2
      <4>2. Recorded(call.put) => Recorded(call.put)'
        BY <1>3, <4>1 DEF Recorded
      <4>3. ~Serves(call.route, call.version) => ~Serves(call.route, call.version)'
        BY <4>1 DEF Serves
      <4>4. clean /\ call.op = "put" /\ pc = "answered"
        BY <2>1, <4>1
      <4>5. QED
        BY <4>1, <4>2, <4>3, <4>4 DEF ClientInv, Reached
    <3>3. QED
      BY <3>1, <3>2
  <2>2. PutReachesEveryServer'
    <3>1. (pc = "idle" /\ call.op = "put" /\ clean)' => pc = "idle" /\ call.op = "put" /\ clean
      BY <1>1, <1>5
    <3>2. QED
      BY <1>1, <1>3, <3>1 DEF ClientInv, Reached, PutReachesEveryServer
  <2>3. (clean /\ call.op = "put" /\ pc \in {"send", "sent", "answered"} /\ call.version = "v1" =>
           ~Serves(call.route, "v3"))'
    <3>1. clean' => clean
      BY <1>1, <1>5
    <3>2. pc' \in {"send", "sent", "answered"} => pc \in {"send", "sent", "answered"}
      BY <1>1 DEF Awaited
    <3>3. QED
      BY <1>1, <3>1, <3>2 DEF ClientInv, Reached, Serves
  <2>4. QED
    BY <2>1, <2>2, <2>3 DEF Reached
<1>9. Told'
  <2>1. UpdatedIsRecorded => UpdatedIsRecorded'
    BY <1>3 DEF UpdatedIsRecorded
  <2>2. UpdatedIsNotAssumed'
    BY <1>1, <2>1 DEF ClientInv, Told, UpdatedIsNotAssumed, UpdatedIsRecorded
  <2>3. text = "updated" => UpdatedIsRecorded
    BY <1>1 DEF ClientInv, Types, Answers, Shown, UpdatedIsRecorded
  <2>4. CASE Awaited(r)
    BY <1>5, <2>1, <2>2, <2>3, <2>4 DEF Told
  <2>5. CASE ~Awaited(r)
    BY <1>1, <2>1, <2>2, <2>5 DEF ClientInv, Told
  <2>6. QED
    BY <2>4, <2>5
<1>10. QED
  BY <1>6, <1>7, <1>8, <1>9 DEF ClientInv

-----------------------------------------------------------------------------
(* What follows an answer *)

\* Another route is asked, after an answer that left nothing of a put.
LEMMA AgainKeeps ==
  ASSUME ClientInv, pc = "answered", NEW route \in Routes, NEW version \in Versions,
         Again(route, version), answer' = NoAnswer,
         UNCHANGED <<server, recorded, requests, clean>>,
         call.op = "put" => answer.code = 404 /\ route \in {"ota", "ota-status"},
         call.op = "get" => route = "ota",
         clean /\ call.op = "put" /\ version = "v1" => ~Serves(route, "v3")
  PROVE  ClientInv'
<1> USE DEF Again
<1>1. /\ call' \in Calls /\ call'.op = call.op /\ call'.put = call.put /\ call'.value = call.value
      /\ call'.route = route /\ call'.version = version
  BY DEF ClientInv, Types, Calls
<1>2. Types'
  <2>1. NoAnswer \in AnswerSet
    BY DEF NoAnswer, AnswerSet
  <2>2. PutsAreNumbered'
    BY <1>1 DEF ClientInv, Types, PutsAreNumbered
  <2>3. QED
    BY <1>1, <2>1, <2>2 DEF ClientInv, Types
<1>3. Once'
  BY <1>1 DEF ClientInv, Once, PutsAreRecordedOnce, Recorded, Pending
<1>4. Reached'
  BY <1>1 DEF Reached, PutReachesEveryServer, Serves
<1>5. Told'
  BY <1>1 DEF Told, UpdatedIsNotAssumed
<1>6. QED
  BY <1>2, <1>3, <1>4, <1>5 DEF ClientInv

\* The call is over.
LEMMA EndsKeep ==
  ASSUME ClientInv, NEW next \in {"idle", "retry"}, Ends(next),
         answer' = NoAnswer, token' \in BOOLEAN, UNCHANGED <<server, recorded, requests, clean>>,
         call.op = "put" /\ clean => Recorded(call.put),
         call.op = "get" => next = "idle" /\ UpdatedIsRecorded
  PROVE  ClientInv'
<1> USE DEF Ends
<1>1. Types'
  <2>1. NoAnswer \in AnswerSet
    BY DEF NoAnswer, AnswerSet
  <2>2. PutsAreNumbered'
    BY DEF ClientInv, Types, PutsAreNumbered
  <2>3. QED
    BY <2>1, <2>2 DEF ClientInv, Types
<1>2. Once'
  BY DEF ClientInv, Once, PutsAreRecordedOnce, Recorded, Pending
<1>3. Reached'
  BY DEF Reached, PutReachesEveryServer, Recorded
<1>4. Told'
  BY DEF Told, UpdatedIsNotAssumed, UpdatedIsRecorded
<1>5. QED
  BY <1>1, <1>2, <1>3, <1>4 DEF ClientInv

LEMMA ReceiveKeeps == ASSUME ClientInv, Receive PROVE ClientInv'
<1>1. /\ pc = "answered" /\ answer' = NoAnswer /\ UNCHANGED <<server, recorded, requests, clean>>
      /\ answer.code = 404 => ~answer.cut
  BY DEF Receive
<1>2. call \in Calls /\ answer \in AnswerSet /\ token \in BOOLEAN /\ puts \in 0..MaxPuts
  BY DEF ClientInv, Types
<1>3. call.route \in Routes /\ call.version \in Versions
  BY <1>2 DEF Calls
<1>4. "v1" \in Versions /\ "v3" \in Versions /\ "validate" \in Routes /\ "ota-status" \in Routes
  BY DEF Versions, Routes
\* Of a clean put that was not recorded the route that was asked is missing.
<1>5. clean /\ call.op = "put" =>
        \/ answer.code = 200 /\ Recorded(call.put)
        \/ NotFound(answer) /\ ~Serves(call.route, call.version)
  BY <1>1, <1>2 DEF ClientInv, Reached, NotFound, AnswerSet
<1>6. CASE Redirect
  <2>1. Again(call.route, "v1") /\ answer.code = 404 /\ call.version = "v3"
    BY <1>6 DEF Receive, Redirect, NotFound
  <2>2. call.op = "put" => call.route \in {"ota", "ota-status"}
    BY DEF ClientInv, Types, PutsAreNumbered
  <2>3. call.op = "get" => call.route = "ota"
    BY DEF ClientInv, Types, PutsAreNumbered
  <2>4. clean /\ call.op = "put" => ~Serves(call.route, "v3")
    BY <1>5, <2>1
  <2>5. QED
    BY <1>1, <1>3, <1>4, <2>1, <2>2, <2>3, <2>4, AgainKeeps
<1>7. CASE ~Redirect
  <2>1. CASE TokenAnswered
    <3>1. call.op = "token"
      BY <2>1 DEF TokenAnswered
    <3>2. \/ Again("validate", "v3")
          \/ Ends("idle") /\ token' \in BOOLEAN
          \/ Ends("retry") /\ token' \in BOOLEAN
      BY <1>2, <2>1 DEF TokenAnswered
    <3>3. CASE Again("validate", "v3")
      BY <1>1, <1>4, <3>1, <3>3, AgainKeeps
    <3>4. CASE Ends("idle") /\ token' \in BOOLEAN
      BY <1>1, <3>1, <3>4, EndsKeep
    <3>5. CASE Ends("retry") /\ token' \in BOOLEAN
      BY <1>1, <3>1, <3>5, EndsKeep
    <3>6. QED
      BY <3>2, <3>3, <3>4, <3>5
  <2>2. CASE PutAnswered
    <3>1. call.op = "put"
      BY <2>2 DEF PutAnswered
    <3>2. CASE NotFound(answer) /\ call.route = "ota"
      <4>1. Again("ota-status", "v3") /\ answer.code = 404
        BY <2>2, <3>2 DEF PutAnswered, NotFound
      <4>2. QED
        BY <1>1, <1>4, <3>1, <4>1, AgainKeeps
    <3>3. CASE ~(NotFound(answer) /\ call.route = "ota")
      <4>1. Ends("idle") /\ token' \in BOOLEAN
        BY <1>2, <2>2, <3>3 DEF PutAnswered
      \* A server has one of the versions.
      <4>2. clean => Recorded(call.put)
        <5>1. SUFFICES ASSUME clean, NotFound(answer), ~Serves(call.route, call.version) PROVE FALSE
          BY <1>5, <3>1
        <5>2. call.route = "ota-status" /\ call.version = "v1"
          BY <1>3, <1>7, <3>1, <3>3, <5>1 DEF ClientInv, Types, PutsAreNumbered, Redirect, Versions
        <5>3. ~Serves(call.route, "v3")
          BY <1>1, <3>1, <5>1, <5>2 DEF ClientInv, Reached
        <5>4. server.apis \in (SUBSET {"v3", "v1"}) \ {{}}
          BY ClientAssumption DEF ClientInv, Types
        <5>5. "v3" \notin server.apis /\ "v1" \notin server.apis
          BY <5>1, <5>2, <5>3 DEF Serves
        <5>6. \A S \in (SUBSET {"v3", "v1"}) \ {{}} : "v3" \in S \/ "v1" \in S
          BY Zenon
        <5>7. QED
          BY <5>4, <5>5, <5>6, Zenon
      <4>3. QED
        BY <1>1, <3>1, <4>1, <4>2, EndsKeep
    <3>4. QED
      BY <3>2, <3>3
  <2>3. CASE GetAnswered
    <3>1. call.op = "get" /\ token' \in BOOLEAN
      BY <1>2, <2>3 DEF GetAnswered
    <3>2. CASE Read(answer) = "updated"
      <4>1. answer.text = "updated"
        BY <3>2 DEF Read, FromString
      <4>2. UpdatedIsRecorded
        BY <1>1, <3>1, <4>1 DEF ClientInv, Told
      <4>3. Ends("idle")
        BY <2>3, <3>2 DEF GetAnswered
      <4>4. QED
        BY <1>1, <3>1, <4>2, <4>3, EndsKeep
    <3>3. CASE Read(answer) # "updated"
      <4>1. puts < MaxPuts /\ MaxPuts \in Nat
        BY <1>1, <3>1, ClientAssumption DEF ClientInv, Types, PutsAreNumbered
      <4>2. "updated" \in Values /\ puts + 1 \in 0..MaxPuts
        BY <1>2, <4>1 DEF Values
      <4>3. QED
        BY <1>1, <1>2, <2>3, <3>1, <3>3, <4>2, StartsKeep DEF GetAnswered, ClientInv, Types
    <3>4. QED
      BY <3>2, <3>3
  <2>4. CASE AskAnswered
    BY <1>1, <1>2, <2>4, EndsKeep DEF AskAnswered
  <2>5. QED
    BY <1>7, <2>1, <2>2, <2>3, <2>4 DEF Receive
<1>8. QED
  BY <1>6, <1>7

-----------------------------------------------------------------------------
(* Theorems *)

LEMMA Invariant == Spec => []ClientInv
<1>1. Init => ClientInv
  <2>1. NoCall \in Calls /\ NoAnswer \in AnswerSet /\ MaxPuts \in Nat
    BY ClientAssumption DEF NoCall, NoAnswer, Calls, AnswerSet, Routes, Versions
  <2>2. NoCall.put = 0 /\ NoCall.op = "none"
    BY DEF NoCall
  <2>3. <<>> \in Seq(Records) /\ DOMAIN <<>> = {}
    OBVIOUS
  <2>4. ASSUME Init PROVE Types
    <3>1. call = NoCall /\ requests = {} /\ recorded = <<>> /\ puts = 0 /\ pc = "idle" /\ server \in Generations
          /\ answer = NoAnswer /\ token = FALSE /\ clean = TRUE
      BY <2>4 DEF Init
    <3>2. PutsAreNumbered
      BY <2>2, <2>3, <3>1 DEF PutsAreNumbered
    <3>3. recorded \in Seq(Records) /\ requests \subseteq Messages /\ puts \in 0..MaxPuts
      BY <2>1, <2>3, <3>1
    <3>4. call \in Calls /\ answer \in AnswerSet
      BY <2>1, <3>1
    <3>5. QED
      BY <3>1, <3>2, <3>3, <3>4 DEF Types
  <2>5. Init => Once /\ Reached /\ Told
    BY <2>2, <2>3 DEF Init, Once, PutsAreRecordedOnce, Reached, PutReachesEveryServer, Told,
                      UpdatedIsNotAssumed
  <2>6. QED
    BY <2>4, <2>5 DEF ClientInv
<1>2. ClientInv /\ [Next]_vars => ClientInv'
  <2>1. ASSUME ClientInv, Next PROVE ClientInv'
    BY <2>1, BeginKeeps, SendKeeps, ReceiveKeeps, PanicKeeps, HandleKeeps, LoseKeeps, UpgradeKeeps
       DEF Next
  <2>2. ASSUME ClientInv, UNCHANGED vars PROVE ClientInv'
    BY <2>2 DEF vars, ClientInv, Types, PutsAreNumbered, Once, PutsAreRecordedOnce, Recorded, Pending,
                Reached, PutReachesEveryServer, Serves, Told, UpdatedIsNotAssumed, UpdatedIsRecorded
  <2>3. QED
    BY <2>1, <2>2
<1>3. QED
  BY <1>1, <1>2, PTL DEF Spec

\* Every variable has its type, for servers of any generations and any faults.
THEOREM ClientTypeCorrect == Spec => []ClientTypeOK
<1>1. ClientInv => ClientTypeOK
  BY ClientAssumption DEF ClientInv, Types, PutsAreNumbered, ClientTypeOK, Records, Messages, Calls
<1>2. QED
  BY <1>1, Invariant, PTL

\* No put is recorded twice, whatever requests are given up and handled late
\* (coupling_rest_comm.rs:25-35, 114-131).
THEOREM PutsAreRecordedOnceHolds == Spec => []PutsAreRecordedOnce
  BY Invariant, PTL DEF ClientInv, Once

\* A put to which nothing happened is recorded by a server of any generation that
\* serves one of the versions (coupling_rest_comm.rs:114-131).
THEOREM PutReachesEveryServerHolds == Spec => []PutReachesEveryServer
  BY Invariant, PTL DEF ClientInv, Reached

\* A run that left "updated" unsent was shown it by the server
\* (coupling_rest_comm.rs:163-198).
THEOREM UpdatedIsNotAssumedHolds == Spec => []UpdatedIsNotAssumed
  BY Invariant, PTL DEF ClientInv, Told
=============================================================================
