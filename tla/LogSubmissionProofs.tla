------------------------- MODULE LogSubmissionProofs --------------------------
(***************************************************************************)
(* What holds of LogSubmission for any number of threads, any interval and *)
(* any faults.  The invariant has five parts: the types; a call that       *)
(* nothing disturbed is the only one; what it finds at each of its steps;  *)
(* how the dates of the reports, of the flag and of the clock are ordered; *)
(* and that the reports under way and those that arrived are apart.        *)
(***************************************************************************)
EXTENDS LogSubmission, TLAPS

-----------------------------------------------------------------------------
(* The inductive invariant *)

PCs == {"idle", "flag", "write_flag", "look", "remove_old", "create", "open", "write",
        "send", "remove_sent", "end"}
ArchiveType == [by : Reporters \cup {"nobody"}, whole : BOOLEAN, spoilt : BOOLEAN]
ReportType == [date : Days, fresh : BOOLEAN]
CallType == [kind : Kinds, date : Days, seen : Days \cup {NoFlag}, fresh : BOOLEAN, course : Courses]

\* Every variable has its type, the calls are records.
Typed == SubmitTypeOK /\ call \in [Reporters -> CallType]

Lone(t) == pc[t] # "idle" /\ call[t].course # "disturbed"

\* A lone call is the only one.
LoneIsAlone == \A t, u \in Reporters : Lone(t) /\ u # t => pc[u] = "idle"

\* From the flag to the request.
Reporting == {"look", "remove_old", "create", "open", "write", "send"}

\* What a lone call c of thread t finds before step p, with a its archive: the archive is
\* its own from the moment it looked.
Finds(t, p, c, a) ==
  /\ p \in {"flag", "write_flag"} => c.course = "throttled"
  /\ p \in Reporting => c.course = "passed"
  /\ p \in {"create", "open"} => a = NoArchive
  /\ p \in {"write", "send"} => a.by = t
  /\ p = "write" => ~a.spoilt
  /\ p = "send" => a.whole
  /\ p \in {"remove_old", "remove_sent"} => a # NoArchive
  /\ p = "remove_sent" => c.course = "own"
  /\ p = "end" => c.course = "throttled" \/ (c.course = "own" /\ a = NoArchive)

LoneFindsOwn == \A t \in Reporters : Lone(t) => Finds(t, pc[t], call[t], Archive(t))

\* Call c, before step p, has an unforced report under way.
UnderWay(p, c) == p \in Reporting /\ c.kind # "forced"
Reports(t) == UnderWay(pc[t], call[t])

\* The dates: no report is later than the flag, nor the flag than the clock; a call that
\* passed by a flag is more than the interval after it.
Due(date, last) == last = NoFlag \/ date - last > Interval
DatesAreOrdered ==
  /\ flag <= day
  /\ \A r \in reported : r.date <= flag
  /\ \A t \in Reporters :
       /\ Reports(t) => call[t].date <= flag
       /\ pc[t] = "write_flag" /\ call[t].fresh => Due(day, call[t].seen)

\* The reports under way are apart from each other and from those that arrived.
ReportsAreApart ==
  \A t \in Reporters : Reports(t) =>
    /\ \A u \in Reporters : u # t /\ Reports(u) => Apart(Report(call[t]), Report(call[u]))
    /\ \A r \in reported : Apart(Report(call[t]), r)

LogInv == Typed /\ LoneIsAlone /\ LoneFindsOwn /\ DatesAreOrdered /\ ReportsAreApart

-----------------------------------------------------------------------------
(* Lemmas about a step of a thread *)

\* The fields of a call, and of its report.
LEMMA CallsAreTyped ==
  ASSUME NEW c \in CallType
  PROVE  /\ c.kind \in Kinds /\ c.date \in Days /\ c.date \in Int
         /\ c.seen \in Days \cup {NoFlag} /\ c.seen \in Int
         /\ c.fresh \in BOOLEAN /\ c.course \in Courses
         /\ Report(c) \in ReportType /\ Report(c).date = c.date /\ Report(c).fresh = c.fresh
<1>1. Days \subseteq Int /\ NoFlag \in Int
  BY SubmitAssumption DEF Days, NoFlag
<1> QED
  BY <1>1 DEF CallType, ReportType, Report

\* The archive that is none, and the days.
LEMMA NoArchiveIsTyped ==
  /\ NoArchive \in ArchiveType /\ NoArchive.by = "nobody" /\ ~NoArchive.whole /\ ~NoArchive.spoilt
  /\ Days \subseteq Int /\ NoFlag \in Int /\ 0 \in Days /\ \A d \in Days : d >= 0 /\ d > NoFlag
  BY SubmitAssumption DEF ArchiveType, NoArchive, Days, NoFlag

\* Which of two reports is named first makes no difference.
LEMMA ApartIsSymmetric ==
  ASSUME NEW a, NEW b, Apart(a, b)
  PROVE  Apart(b, a)
BY DEF Apart

\* A report of today is apart from one no later than the flag, if it passed by that flag
\* or is known not to be fresh.
LEMMA NewIsApart ==
  ASSUME NEW a \in ReportType, NEW b \in ReportType, flag \in Days \cup {NoFlag},
         a.date = day, b.date <= flag, flag <= day, day \in Days,
         a.fresh => Due(day, flag)
  PROVE  Apart(a, b)
<1>1. b.date \in Days /\ Interval \in Int
  BY SubmitAssumption DEF ReportType
<1>2. b.date \in Int /\ b.date > NoFlag /\ NoFlag \in Int /\ flag \in Int /\ day \in Int
  BY <1>1, NoArchiveIsTyped
<1>3. CASE a.fresh
  <2>1. flag # NoFlag
    BY <1>2
  <2>2. a.date - b.date > Interval
    BY <1>1, <1>3, <1>2, <2>1 DEF Due
  <2> QED
    BY <2>2 DEF Apart
<1>4. CASE ~a.fresh
  BY <1>4, <1>2 DEF Apart
<1> QED
  BY <1>3, <1>4

\* A step of thread t that replaces its call by c, goes to p and keeps the clock
\* preserves the invariant, if it does for t alone: no other call is lone meanwhile.
LEMMA StepOfOne ==
  ASSUME LogInv, NEW t \in Reporters, NEW c \in CallType, NEW p \in PCs, pc[t] # "idle",
         call' = [call EXCEPT ![t] = c], Goes(t, p),
         c.course # "disturbed" /\ p # "idle" => call[t].course # "disturbed",
         day' = day, flag' \in {flag, day},
         reported' \subseteq ReportType, \A r \in reported' : r.date <= flag',
         archives' \in [Days -> ArchiveType],
         \A d \in Days : archives'[d].whole => archives'[d].by \in Reporters /\ ~archives'[d].spoilt,
         c.course # "disturbed" /\ p # "idle" => Finds(t, p, c, archives'[c.date]),
         UnderWay(p, c) => c.date <= flag',
         p = "write_flag" /\ c.fresh => Due(day, c.seen),
         UnderWay(p, c) => \A u \in Reporters : u # t /\ Reports(u) => Apart(Report(c), Report(call[u])),
         UnderWay(p, c) => \A r \in reported' : Apart(Report(c), r),
         \A u \in Reporters : u # t /\ Reports(u) => \A r \in reported' : Apart(Report(call[u]), r)
  PROVE  LogInv'
<1> USE DEF LogInv, Typed, Goes
<1>0. /\ pc \in [Reporters -> PCs] /\ call \in [Reporters -> CallType]
      /\ flag \in Days \cup {NoFlag} /\ day \in Days /\ flag <= day
  BY DEF SubmitTypeOK, PCs, DatesAreOrdered
<1>1. /\ pc'[t] = p /\ call'[t] = c
      /\ \A u \in Reporters : u # t => pc'[u] = pc[u] /\ call'[u] = call[u]
      /\ pc' \in [Reporters -> PCs] /\ call' \in [Reporters -> CallType]
  BY <1>0
<1>2. \A u \in Reporters : u # t => ~Lone(u) /\ ~Lone(u)'
  BY <1>1 DEF LoneIsAlone, Lone
<1>3. LoneIsAlone'
  <2>1. SUFFICES ASSUME NEW u \in Reporters, NEW v \in Reporters, Lone(u)', v # u
                 PROVE  pc'[v] = "idle"
    BY DEF LoneIsAlone
  <2>2. u = t /\ Lone(t)
    BY <1>1, <1>2, <2>1 DEF Lone
  <2> QED
    BY <1>1, <2>1, <2>2 DEF LoneIsAlone
<1>4. LoneFindsOwn'
  <2>1. SUFFICES ASSUME NEW u \in Reporters, Lone(u)'
                 PROVE  Finds(u, pc'[u], call'[u], archives'[call'[u].date])
    BY DEF LoneFindsOwn, Archive
  <2>2. u = t
    BY <1>2, <2>1
  <2> QED
    BY <1>1, <2>1, <2>2 DEF Lone
<1>5. /\ flag' <= day' /\ flag <= flag'
      /\ flag' \in Days \cup {NoFlag}
  BY <1>0, NoArchiveIsTyped
<1>6. DatesAreOrdered'
  <2>1. SUFFICES ASSUME NEW u \in Reporters
                 PROVE  /\ Reports(u)' => call'[u].date <= flag'
                        /\ (pc'[u] = "write_flag" /\ call'[u].fresh => Due(day', call'[u].seen))
    BY <1>5 DEF DatesAreOrdered
  <2>2. CASE u = t
    BY <1>1, <2>2 DEF Reports
  <2>3. CASE u # t
    <3>1. /\ pc'[u] = pc[u] /\ call'[u] = call[u]
      BY <1>1, <2>3
    <3>2. call[u].date \in Int /\ flag \in Int /\ flag' \in Int
      BY <1>0, <1>5, CallsAreTyped, NoArchiveIsTyped
    <3>3. /\ Reports(u) => call[u].date <= flag
          /\ (pc[u] = "write_flag" /\ call[u].fresh => Due(day, call[u].seen))
      BY DEF DatesAreOrdered
    <3> QED
      BY <3>1, <3>2, <3>3, <1>5 DEF Reports
  <2> QED
    BY <2>2, <2>3
<1>7. SubmitTypeOK'
  <2>1. \A u \in Reporters : call'[u].kind \in Kinds /\ call'[u].date \in Days /\ call'[u].course \in Courses
    BY <1>1, CallsAreTyped
  <2> QED
    BY <1>0, <1>1, <1>5, <2>1 DEF SubmitTypeOK, PCs, ArchiveType, ReportType
<1>8. ReportsAreApart'
  <2>1. /\ Reports(t)' = UnderWay(p, c)
        /\ \A u \in Reporters : u # t => Reports(u)' = Reports(u)
    BY <1>1 DEF Reports
  <2>2. SUFFICES ASSUME NEW v \in Reporters, Reports(v)'
                 PROVE  /\ \A u \in Reporters : u # v /\ Reports(u)' => Apart(Report(call'[v]), Report(call'[u]))
                        /\ \A r \in reported' : Apart(Report(call'[v]), r)
    BY DEF ReportsAreApart
  <2>3. CASE v = t
    BY <1>1, <2>1, <2>2, <2>3
  <2>4. CASE v # t
    <3>1. Reports(v) /\ call'[v] = call[v]
      BY <1>1, <2>1, <2>2, <2>4
    <3>2. \A r \in reported' : Apart(Report(call'[v]), r)
      BY <2>4, <3>1
    <3>3. ASSUME NEW u \in Reporters, u # v, Reports(u)'
          PROVE  Apart(Report(call'[v]), Report(call'[u]))
      <4>1. CASE u = t
        <5>1. Apart(Report(c), Report(call[v]))
          BY <2>1, <2>4, <3>1, <3>3, <4>1
        <5> QED
          BY <1>1, <3>1, <4>1, <5>1, ApartIsSymmetric
      <4>2. CASE u # t
        BY <1>1, <2>1, <3>1, <3>3, <4>2 DEF ReportsAreApart
      <4> QED
        BY <4>1, <4>2
    <3> QED
      BY <3>2, <3>3
  <2> QED
    BY <2>3, <2>4
<1> QED
  BY <1>1, <1>3, <1>4, <1>6, <1>7, <1>8

\* What the invariant says of one thread's call.
LEMMA OfOne ==
  ASSUME LogInv, NEW t \in Reporters
  PROVE  /\ call[t] \in CallType /\ call \in [Reporters -> CallType]
         /\ archives \in [Days -> ArchiveType] /\ Archive(t) \in ArchiveType
         /\ \A d \in Days : archives[d].whole => archives[d].by \in Reporters /\ ~archives[d].spoilt
         /\ day \in Days /\ flag \in Days \cup {NoFlag} /\ flag <= day
         /\ reported \subseteq ReportType /\ \A r \in reported : r.date <= flag
         /\ (Lone(t) => Finds(t, pc[t], call[t], Archive(t)))
         /\ (Reports(t) => call[t].date <= flag)
         /\ (pc[t] = "write_flag" /\ call[t].fresh => Due(day, call[t].seen))
         /\ \A u \in Reporters : Reports(t) /\ u # t /\ Reports(u) => Apart(Report(call[t]), Report(call[u]))
         /\ \A u \in Reporters, r \in reported : Reports(u) => Apart(Report(call[u]), r)
<1>1. call[t] \in CallType
  BY DEF LogInv, Typed
<1>2. archives \in [Days -> ArchiveType]
  BY DEF LogInv, Typed, SubmitTypeOK, ArchiveType
<1>3. call[t].date \in Days
  BY <1>1, CallsAreTyped
<1>4. reported \subseteq ReportType
  BY DEF LogInv, Typed, SubmitTypeOK, ReportType
<1> QED
  BY <1>1, <1>2, <1>3, <1>4
     DEF LogInv, Typed, SubmitTypeOK, Archive, LoneFindsOwn, DatesAreOrdered, ReportsAreApart

\* The clock, the flag and the reports are integers in that order.
LEMMA DatesAreIntegers ==
  ASSUME LogInv
  PROVE  /\ day \in Int /\ flag \in Int /\ Interval \in Int /\ NoFlag \in Int
         /\ flag <= day
         /\ \A r \in reported : r.date \in Int /\ r.date <= flag /\ r.date <= day
         /\ \A t \in Reporters : call[t].date \in Int
<1>1. day \in Days /\ flag \in Days \cup {NoFlag} /\ flag <= day
  BY DEF LogInv, Typed, SubmitTypeOK, DatesAreOrdered
<1>2. \A t \in Reporters : call[t].date \in Days
  BY DEF LogInv, Typed, SubmitTypeOK
<1>3. \A r \in reported : r.date \in Days /\ r.date <= flag
  BY DEF LogInv, Typed, SubmitTypeOK, DatesAreOrdered
<1>4. day \in Int /\ flag \in Int /\ NoFlag \in Int /\ Interval \in Int /\ \A d \in Days : d \in Int
  BY <1>1, NoArchiveIsTyped, SubmitAssumption
<1>5. ASSUME NEW r \in reported PROVE r.date \in Int /\ r.date <= flag /\ r.date <= day
  <2>1. r.date \in Int /\ r.date <= flag
    BY <1>3, <1>4, <1>5
  <2> QED
    BY <1>1, <1>4, <2>1
<1>6. \A t \in Reporters : call[t].date \in Int
  BY <1>2, <1>4
<1> QED
  BY <1>1, <1>4, <1>5, <1>6

\* A step of thread t that changes no call, no archive, no flag and no report: it goes
\* to a step for which its call finds what it needs.
LEMMA StepOn ==
  ASSUME LogInv, NEW t \in Reporters, NEW p \in PCs, pc[t] # "idle", Goes(t, p), p # "write_flag",
         UNCHANGED <<day, flag, archives, reported, call>>,
         Lone(t) /\ p # "idle" => Finds(t, p, call[t], Archive(t)),
         p \in Reporting => pc[t] \in Reporting
  PROVE  LogInv'
<1>1. call' = [call EXCEPT ![t] = call[t]]
  BY OfOne
<1>2. /\ call[t].course # "disturbed" => Lone(t)
      /\ UnderWay(p, call[t]) => Reports(t)
  BY DEF Lone, Reports, UnderWay
<1> QED
  BY <1>1, <1>2, OfOne, StepOfOne DEF Archive

\* A call that fails, with a fault or without.
LEMMA FailsKeeps ==
  ASSUME LogInv, NEW t \in Reporters, pc[t] # "idle", NEW alone \in BOOLEAN, Fails(t, alone),
         ~alone \/ ~Lone(t),
         UNCHANGED <<day, archives>>, flag' \in {flag, day},
         reported' \subseteq ReportType, \A r \in reported' : r.date <= flag',
         \A u \in Reporters : u # t /\ Reports(u) => \A r \in reported' : Apart(Report(call[u]), r)
  PROVE  LogInv'
<1> DEFINE c == [call[t] EXCEPT !.fresh = FALSE, !.course = WentWrong(@, alone)]
<1>1. call[t] \in CallType
  BY OfOne
<1>2. WentWrong(call[t].course, alone) = "disturbed"
  BY DEF WentWrong, Lone
<1>3. c \in CallType /\ c.course = "disturbed"
  BY <1>1, <1>2 DEF CallType, Courses
<1>4. call' = [call EXCEPT ![t] = c]
  BY OfOne DEF Fails
<1>5. "end" \in PCs /\ ~UnderWay("end", c)
  BY DEF PCs, Reporting, UnderWay
<1>6. Goes(t, "end")
  BY DEF Fails
<1> HIDE DEF c
<1> QED
  BY <1>3, <1>4, <1>5, <1>6, OfOne, StepOfOne

\* A panic of a call that is not lone afterwards.
LEMMA HookKeeps ==
  ASSUME LogInv, NEW t \in Reporters, pc[t] # "idle", NEW alone \in BOOLEAN, Hook(t, alone),
         ~alone \/ ~Lone(t), UNCHANGED <<day, flag, archives, reported>>
  PROVE  LogInv'
<1> DEFINE c == [call[t] EXCEPT !.kind = "hook", !.date = 0, !.fresh = FALSE,
                               !.course = WentWrong(@, alone)]
<1>1. call[t] \in CallType /\ 0 \in Days
  BY OfOne, NoArchiveIsTyped
<1>2. WentWrong(call[t].course, alone) = "disturbed"
  BY DEF WentWrong, Lone
<1>3. c \in CallType /\ c.course = "disturbed"
  BY <1>1, <1>2 DEF CallType, Courses, Kinds
<1>4. call' = [call EXCEPT ![t] = c]
  BY OfOne DEF Hook
<1>5. "flag" \in PCs /\ ~UnderWay("flag", c)
  BY DEF PCs, Reporting, UnderWay
<1>6. Goes(t, "flag")
  BY DEF Hook
<1> HIDE DEF c
<1> QED
  BY <1>3, <1>4, <1>5, <1>6, OfOne, StepOfOne

\* A call that begins, and the call of a thread that has none.
LEMMA NewCallIsTyped ==
  ASSUME NEW kind \in Kinds, day \in Days, NEW course \in Courses
  PROVE  /\ [NewCall(kind) EXCEPT !.course = course] \in CallType
         /\ [NewCall(kind) EXCEPT !.course = course].course = course
         /\ [NewCall(kind) EXCEPT !.course = course].kind = kind
         /\ NewCall(kind).course = (IF kind = "forced" THEN "passed" ELSE "throttled")
         /\ NewCall(kind) \in CallType
<1> DEFINE date == IF kind = "forced" THEN day ELSE 0
           first == IF kind = "forced" THEN "passed" ELSE "throttled"
<1>1. date \in Days /\ first \in Courses /\ NoFlag \in Days \cup {NoFlag}
  BY NoArchiveIsTyped DEF Courses
<1>2. NewCall(kind) = [kind |-> kind, date |-> date, seen |-> NoFlag, fresh |-> FALSE, course |-> first]
  BY DEF NewCall
<1> HIDE DEF date, first
<1>3. NewCall(kind) \in CallType /\ NewCall(kind).course = first /\ NewCall(kind).kind = kind
  BY <1>1, <1>2 DEF CallType
<1> QED
  BY <1>3 DEF CallType, first

\* A restart leaves no call.
LEMMA RestartKeeps ==
  ASSUME LogInv, Restart, UNCHANGED <<day, flag, archives, reported>>
  PROVE  LogInv'
<1>1. NoCall \in CallType
  BY NewCallIsTyped DEF NoCall, Kinds, Courses, LogInv, Typed, SubmitTypeOK
<1>2. \A t \in Reporters : pc'[t] = "idle" /\ call'[t] = NoCall
  BY DEF Restart
<1>3. Typed'
  <2>1. call' \in [Reporters -> CallType]
    BY <1>1 DEF Restart
  <2>2. pc' \in [Reporters -> PCs]
    BY DEF Restart, PCs
  <2>3. \A t \in Reporters : call'[t].kind \in Kinds /\ call'[t].date \in Days /\ call'[t].course \in Courses
    BY <1>1, <1>2, CallsAreTyped
  <2> QED
    BY <2>1, <2>2, <2>3 DEF LogInv, Typed, SubmitTypeOK, PCs
<1>4. LoneIsAlone' /\ LoneFindsOwn'
  BY <1>2 DEF LoneIsAlone, LoneFindsOwn, Lone
<1>5. \A t \in Reporters : ~Reports(t)' /\ pc'[t] # "write_flag"
  BY <1>2 DEF Reports, UnderWay, Reporting
<1>6. DatesAreOrdered' /\ ReportsAreApart'
  BY <1>5 DEF LogInv, DatesAreOrdered, ReportsAreApart
<1> QED
  BY <1>3, <1>4, <1>6 DEF LogInv

\* So does a panic in the hook; another panic starts the hook.
LEMMA PanicKeeps ==
  ASSUME LogInv, NEW t \in Reporters, pc[t] # "idle", NEW alone \in BOOLEAN, Panics(t, alone),
         ~alone \/ ~Lone(t), UNCHANGED <<day, flag, archives, reported>>
  PROVE  LogInv'
BY HookKeeps, RestartKeeps DEF Panics

-----------------------------------------------------------------------------
(* One lemma per group of actions *)

\* Another call makes the calls there are not lone.
LEMMA CallKeeps ==
  ASSUME LogInv, NEW t \in Reporters, NEW kind \in Kinds, Call(t, kind)
  PROVE  LogInv'
<1> DEFINE course == IF Active = {} THEN NewCall(kind).course ELSE "disturbed"
           c == [NewCall(kind) EXCEPT !.course = course]
           p == IF kind = "forced" THEN "look" ELSE "flag"
<1>0. course \in Courses
  BY OfOne, NewCallIsTyped, CallsAreTyped DEF Courses
<1>1. /\ call'[t] = c
      /\ \A u \in Reporters : u # t =>
           call'[u] = [call[u] EXCEPT !.course = IF u \in Active THEN "disturbed" ELSE @]
      /\ call' = [u \in Reporters |-> call'[u]]
  BY DEF Call
<1>2. NewCall(kind).course = (IF kind = "forced" THEN "passed" ELSE "throttled")
  BY OfOne, NewCallIsTyped DEF Courses
<1> HIDE DEF course
<1>3. /\ c \in CallType /\ c.course = course /\ c.kind = kind
  BY <1>0, OfOne, NewCallIsTyped
<1>4. /\ pc[t] = "idle" /\ pc'[t] = p /\ \A u \in Reporters : u # t => pc'[u] = pc[u]
      /\ pc' \in [Reporters -> PCs]
  BY DEF Call, Goes, LogInv, Typed, SubmitTypeOK, PCs
<1>5. UNCHANGED <<day, flag, archives, reported>>
  BY DEF Call
<1> HIDE DEF c, p
<1>6. ASSUME NEW u \in Reporters, u # t
      PROVE  /\ call'[u] \in CallType /\ call'[u].kind = call[u].kind /\ call'[u].date = call[u].date
             /\ call'[u].seen = call[u].seen /\ call'[u].fresh = call[u].fresh
             /\ (u \in Active => call'[u].course = "disturbed")
  <2>1. call[u] \in CallType
    BY OfOne
  <2> DEFINE b == IF u \in Active THEN "disturbed" ELSE call[u].course
  <2>2. b \in Courses /\ (u \in Active => b = "disturbed")
    BY <2>1, CallsAreTyped DEF Courses
  <2>3. call'[u] = [call[u] EXCEPT !.course = b]
    BY <1>1, <1>6
  <2> HIDE DEF b
  <2>4. /\ call'[u] \in CallType /\ call'[u].kind = call[u].kind /\ call'[u].date = call[u].date
        /\ call'[u].seen = call[u].seen /\ call'[u].fresh = call[u].fresh
        /\ call'[u].course = b
    BY <2>1, <2>2, <2>3 DEF CallType
  <2> QED
    BY <2>2, <2>4
<1>7. \A u \in Reporters : u # t => ~Lone(u)'
  BY <1>4, <1>6 DEF Active, Lone
<1>8. Typed'
  <2>1. call' \in [Reporters -> CallType]
    BY <1>1, <1>3, <1>6
  <2>2. \A u \in Reporters : call'[u].kind \in Kinds /\ call'[u].date \in Days /\ call'[u].course \in Courses
    BY <2>1, CallsAreTyped
  <2> QED
    BY <1>4, <1>5, <2>1, <2>2 DEF LogInv, Typed, SubmitTypeOK, PCs
<1>9. LoneIsAlone'
  <2>1. ASSUME Lone(t)', NEW u \in Reporters, u # t PROVE pc'[u] = "idle"
    BY <1>1, <1>3, <1>4, <2>1 DEF Lone, Active, course
  <2> QED
    BY <1>7, <2>1 DEF LoneIsAlone
<1>10. LoneFindsOwn'
  <2>1. ASSUME course # "disturbed" PROVE Finds(t, p, c, archives'[c.date])
    BY <1>2, <1>3, <2>1 DEF p, course, Finds, Reporting
  <2>2. Lone(t)' => Finds(t, pc'[t], call'[t], archives'[call'[t].date])
    BY <1>1, <1>3, <1>4, <2>1 DEF Lone
  <2> QED
    BY <1>7, <2>2 DEF LoneFindsOwn, Archive
<1>11. ~Reports(t)' /\ pc'[t] # "write_flag"
  BY <1>1, <1>3, <1>4 DEF p, Reports, UnderWay, Reporting
<1>12. \A u \in Reporters : u # t => /\ Reports(u)' = Reports(u)
                                     /\ Report(call'[u]) = Report(call[u])
  BY <1>4, <1>6 DEF Reports, UnderWay, Report
<1>13. DatesAreOrdered'
  <2>1. SUFFICES ASSUME NEW u \in Reporters
                 PROVE  /\ Reports(u)' => call'[u].date <= flag'
                        /\ (pc'[u] = "write_flag" /\ call'[u].fresh => Due(day', call'[u].seen))
    BY <1>5 DEF LogInv, DatesAreOrdered
  <2>2. CASE u # t
    BY <1>4, <1>5, <1>6, <1>12, <2>2, OfOne
  <2> QED
    BY <1>11, <2>2
<1>14. ReportsAreApart'
  BY <1>5, <1>11, <1>12 DEF LogInv, ReportsAreApart
<1> QED
  BY <1>8, <1>9, <1>10, <1>13, <1>14 DEF LogInv

\* check_flag: a call that passes by the flag is due.
LEMMA FlagKeeps ==
  ASSUME LogInv, NEW t \in Reporters,
         ReadFlag(t) \/ FlagUnopened(t) \/ WriteFlag(t) \/ WriteFlagFails(t)
  PROVE  LogInv'
<1>0. /\ {"write_flag", "end", "look"} \subseteq PCs /\ "look" \in Reporting
      /\ "write_flag" \notin Reporting /\ "end" \notin Reporting
  BY DEF PCs, Reporting
<1>1. CASE ReadFlag(t) /\ (flag = NoFlag \/ day - flag > Interval)
  <2> DEFINE c == [call[t] EXCEPT !.seen = flag, !.fresh = TRUE]
  <2>1. /\ pc[t] = "flag" /\ Goes(t, "write_flag") /\ UNCHANGED <<day, flag, archives, reported>>
    BY <1>1 DEF ReadFlag, Passes
  <2>2. /\ c \in CallType /\ c.seen = flag /\ c.course = call[t].course /\ c.date = call[t].date
    BY OfOne DEF CallType
  <2>3. call' = [call EXCEPT ![t] = c]
    BY <1>1, OfOne DEF ReadFlag, Passes
  <2> HIDE DEF c
  <2>4. c.course # "disturbed" => Finds(t, "write_flag", c, archives'[c.date])
    BY <2>1, <2>2, OfOne DEF Finds, Reporting, Lone
  <2>5. Due(day, c.seen) /\ ~UnderWay("write_flag", c)
    BY <1>0, <1>1, <2>2 DEF Due, UnderWay
  <2> QED
    BY <1>0, <2>1, <2>2, <2>3, <2>4, <2>5, OfOne, StepOfOne
<1>2. CASE ReadFlag(t) /\ ~(flag = NoFlag \/ day - flag > Interval)
  <2>1. /\ pc[t] = "flag" /\ Goes(t, "end") /\ UNCHANGED <<day, flag, archives, reported, call>>
    BY <1>2 DEF ReadFlag
  <2>2. Lone(t) => Finds(t, "end", call[t], Archive(t))
    BY <2>1, OfOne DEF Finds, Reporting
  <2> QED
    BY <1>0, <2>1, <2>2, StepOn
<1>3. CASE FlagUnopened(t)
  <2> DEFINE c == [call[t] EXCEPT !.fresh = FALSE]
  <2>1. /\ pc[t] = "flag" /\ Goes(t, "write_flag") /\ UNCHANGED <<day, flag, archives, reported>>
    BY <1>3 DEF FlagUnopened
  <2>2. /\ c \in CallType /\ ~c.fresh /\ c.course = call[t].course /\ c.date = call[t].date
    BY OfOne DEF CallType
  <2>3. call' = [call EXCEPT ![t] = c]
    BY <1>3, OfOne DEF FlagUnopened
  <2> HIDE DEF c
  <2>4. c.course # "disturbed" => Finds(t, "write_flag", c, archives'[c.date])
    BY <2>1, <2>2, OfOne DEF Finds, Reporting, Lone
  <2>5. ~UnderWay("write_flag", c)
    BY <1>0 DEF UnderWay
  <2> QED
    BY <1>0, <2>1, <2>2, <2>3, <2>4, <2>5, OfOne, StepOfOne
<1>4. CASE WriteFlag(t)
  <2>1. /\ pc[t] = "write_flag" /\ flag' = day /\ Goes(t, "look")
        /\ UNCHANGED <<day, archives, reported>>
    BY <1>4 DEF WriteFlag
  <2> DEFINE course == IF call[t].course = "throttled" THEN "passed" ELSE call[t].course
             fresh == call[t].fresh /\ call[t].seen = flag
             c == [call[t] EXCEPT !.date = day, !.seen = NoFlag, !.fresh = fresh, !.course = course]
  <2>2. course \in Courses /\ fresh \in BOOLEAN /\ day \in Days /\ NoFlag \in Days \cup {NoFlag}
    BY OfOne, CallsAreTyped DEF Courses
  <2>3. call' = [call EXCEPT ![t] = c]
    BY <1>4, OfOne DEF WriteFlag
  <2>4. (course # "disturbed" => call[t].course # "disturbed") /\ (call[t].course = "throttled" => course = "passed")
    OBVIOUS
  <2>5. fresh => Due(day, flag)
    BY <2>1, OfOne
  <2> HIDE DEF course, fresh
  <2>6. /\ c \in CallType /\ c.date = day /\ c.course = course /\ c.fresh = fresh
    BY <2>2, OfOne DEF CallType
  <2> HIDE DEF c
  <2>7. c.course # "disturbed" => Finds(t, "look", c, archives'[c.date])
    BY <2>1, <2>4, <2>6, OfOne DEF Finds, Reporting, Lone
  <2>8. c.date <= flag' /\ (\A r \in reported' : r.date <= flag')
    BY <2>1, <2>6, DatesAreIntegers
  <2>9. Report(c) \in ReportType /\ Report(c).date = day /\ (Report(c).fresh => Due(day, flag))
    BY <2>5, <2>6, CallsAreTyped
  <2>10. \A r \in reported' : Apart(Report(c), r)
    BY <2>1, <2>9, NewIsApart, OfOne
  <2>11. ASSUME NEW u \in Reporters, u # t, Reports(u) PROVE Apart(Report(c), Report(call[u]))
    <3>1. call[u] \in CallType /\ call[u].date <= flag
      BY <2>11, OfOne
    <3>2. Report(call[u]) \in ReportType /\ Report(call[u]).date <= flag
      BY <3>1, CallsAreTyped
    <3> QED
      BY <2>9, <3>2, NewIsApart, OfOne
  <2> QED
    BY <1>0, <2>1, <2>3, <2>4, <2>6, <2>7, <2>8, <2>10, <2>11, OfOne, StepOfOne
<1>5. CASE WriteFlagFails(t)
  <2>1. pc[t] = "write_flag" /\ flag' = day /\ Fails(t, FALSE) /\ UNCHANGED <<day, archives, reported>>
    BY <1>5 DEF WriteFlagFails
  <2> QED
    BY <2>1, OfOne, DatesAreIntegers, FailsKeeps
<1> QED
  BY <1>1, <1>2, <1>3, <1>4, <1>5

\* The archive of one call changes: the archives keep their types.
LEMMA ArchiveBecomesTyped ==
  ASSUME LogInv, NEW t \in Reporters, NEW a \in ArchiveType, ArchiveBecomes(t, a),
         a.whole => a.by \in Reporters /\ ~a.spoilt
  PROVE  /\ archives' \in [Days -> ArchiveType] /\ archives'[call[t].date] = a
         /\ \A d \in Days : archives'[d].whole => archives'[d].by \in Reporters /\ ~archives'[d].spoilt
<1>1. call[t].date \in Days
  BY OfOne, CallsAreTyped
<1> QED
  BY <1>1, OfOne DEF ArchiveBecomes

\* A step of thread t that changes its archive and neither its call nor the dates.
LEMMA StepOnArchive ==
  ASSUME LogInv, NEW t \in Reporters, NEW p \in PCs, pc[t] # "idle", Goes(t, p), p # "write_flag",
         NEW a \in ArchiveType, ArchiveBecomes(t, a), a.whole => a.by \in Reporters /\ ~a.spoilt,
         UNCHANGED <<day, flag, reported, call>>,
         Lone(t) /\ p # "idle" => Finds(t, p, call[t], a),
         p \in Reporting => pc[t] \in Reporting
  PROVE  LogInv'
<1>1. call' = [call EXCEPT ![t] = call[t]]
  BY OfOne
<1>2. /\ call[t].course # "disturbed" => Lone(t)
      /\ UnderWay(p, call[t]) => Reports(t)
  BY DEF Lone, Reports, UnderWay
<1> QED
  BY <1>1, <1>2, OfOne, ArchiveBecomesTyped, StepOfOne

\* create_snapshot: the old archive goes, the new one is the call's own.
LEMMA SnapshotKeeps ==
  ASSUME LogInv, NEW t \in Reporters,
         \/ Look(t) \/ RemoveOld(t) \/ Create(t) \/ CreateFails(t) \/ Open(t) \/ Write(t)
  PROVE  LogInv'
<1>0. /\ \A p \in Reporting : p \in PCs /\ p # "idle" /\ p # "write_flag"
      /\ {"look", "remove_old", "create", "open", "write", "send"} \subseteq Reporting
  BY DEF PCs, Reporting
<1>1. CASE Look(t)
  <2> DEFINE p == IF Archive(t) = NoArchive THEN "create" ELSE "remove_old"
  <2>1. p \in Reporting /\ Goes(t, p) /\ pc[t] = "look" /\ UNCHANGED <<day, flag, archives, reported, call>>
    BY <1>0, <1>1 DEF Look
  <2>2. Lone(t) => Finds(t, p, call[t], Archive(t))
    BY <2>1, OfOne DEF Finds, Reporting
  <2> HIDE DEF p
  <2> QED
    BY <1>0, <2>1, <2>2, OfOne, StepOn
<1>2. CASE RemoveOld(t)
  <2>1. CASE Archive(t) = NoArchive
    <3>1. ~Lone(t)
      BY <1>2, <2>1, OfOne DEF RemoveOld, Finds
    <3> QED
      BY <1>2, <2>1, <3>1, OfOne, FailsKeeps DEF RemoveOld
  <2>2. CASE Archive(t) # NoArchive
    <3>1. Lone(t) => Finds(t, "create", call[t], NoArchive)
      BY <1>2, OfOne DEF RemoveOld, Finds, Reporting
    <3>2. pc[t] = "remove_old" /\ ArchiveBecomes(t, NoArchive) /\ Goes(t, "create")
          /\ UNCHANGED <<day, flag, reported, call>>
      BY <1>2, <2>2 DEF RemoveOld
    <3> QED
      BY <1>0, <3>1, <3>2, NoArchiveIsTyped, StepOnArchive
  <2> QED
    BY <2>1, <2>2
<1>3. CASE Create(t)
  <2>1. CASE Archive(t) # NoArchive
    <3>1. ~Lone(t) /\ pc[t] = "create" /\ Panics(t, TRUE) /\ UNCHANGED <<day, flag, archives, reported>>
      BY <1>3, <2>1, OfOne DEF Create, Finds
    <3> QED
      BY <3>1, PanicKeeps
  <2>2. CASE Archive(t) = NoArchive
    <3>1. Lone(t) => Finds(t, "open", call[t], Archive(t))
      BY <1>3, <2>2, OfOne DEF Create, Finds, Reporting
    <3> QED
      BY <1>0, <1>3, <2>2, <3>1, OfOne, StepOn DEF Create
  <2> QED
    BY <2>1, <2>2
<1>4. CASE CreateFails(t)
  <2>1. pc[t] = "open" /\ Panics(t, FALSE) /\ UNCHANGED <<day, flag, archives, reported>>
    BY <1>4 DEF CreateFails
  <2> QED
    BY <2>1, PanicKeeps
<1>5. CASE Open(t)
  <2> DEFINE writer == Archive(t).by
             shared == /\ writer \in Reporters /\ pc[writer] = "write"
                       /\ call[writer].date = call[t].date
             a == [by |-> t, whole |-> FALSE, spoilt |-> shared]
  <2>1. pc[t] = "open" /\ ArchiveBecomes(t, a) /\ Goes(t, "write")
        /\ UNCHANGED <<day, flag, reported, call>>
    BY <1>5 DEF Open
  <2>2. shared \in BOOLEAN
    OBVIOUS
  <2>3. Lone(t) => ~shared
    BY <2>1, OfOne, NoArchiveIsTyped, SubmitAssumption DEF Finds
  <2> HIDE DEF shared
  <2>4. a \in ArchiveType /\ a.by = t /\ ~a.whole /\ a.spoilt = shared
    BY <2>2 DEF ArchiveType
  <2> HIDE DEF a
  <2>5. Lone(t) => Finds(t, "write", call[t], a)
    BY <2>1, <2>3, <2>4, OfOne DEF Finds, Reporting
  <2> QED
    BY <1>0, <2>1, <2>4, <2>5, StepOnArchive
<1>6. CASE Write(t)
  <2>1. pc[t] = "write" /\ Goes(t, "send") /\ UNCHANGED <<day, flag, reported, call>>
    BY <1>6 DEF Write
  <2>2. CASE Archive(t).by = t
    <3> DEFINE w == ~Archive(t).spoilt
               a == [Archive(t) EXCEPT !.whole = w]
    <3>1. w \in BOOLEAN /\ ArchiveBecomes(t, a) /\ (Lone(t) => w) /\ (w => ~Archive(t).spoilt)
      BY <1>6, <2>1, <2>2, OfOne DEF Write, Finds
    <3> HIDE DEF w
    <3>2. a \in ArchiveType /\ a.by = t /\ a.whole = w /\ a.spoilt = Archive(t).spoilt
      BY <2>2, <3>1, OfOne DEF ArchiveType
    <3> HIDE DEF a
    <3>3. Lone(t) => Finds(t, "send", call[t], a)
      BY <2>1, <3>1, <3>2, OfOne DEF Finds, Reporting
    <3> QED
      BY <1>0, <2>1, <3>1, <3>2, <3>3, StepOnArchive
  <2>3. CASE Archive(t).by # t
    <3>1. ~Lone(t) /\ UNCHANGED archives
      BY <1>6, <2>1, <2>3, OfOne DEF Write, Finds
    <3> QED
      BY <1>0, <2>1, <3>1, OfOne, StepOn
  <2> QED
    BY <2>2, <2>3
<1> QED
  BY <1>1, <1>2, <1>3, <1>4, <1>5, <1>6

\* The request and the removal of what was sent.
LEMMA SendKeeps ==
  ASSUME LogInv, NEW t \in Reporters, Send(t) \/ SendPanics(t) \/ AnswerLost(t) \/ RemoveSent(t)
  PROVE  LogInv'
<1>0. ASSUME pc[t] = "send", ReportArrives(t), flag' = flag
      PROVE  /\ reported' \subseteq ReportType /\ \A r \in reported' : r.date <= flag'
             /\ \A u \in Reporters : u # t /\ Reports(u) => \A r \in reported' : Apart(Report(call[u]), r)
  <2>1. CASE call[t].kind = "forced"
    BY <1>0, <2>1, OfOne DEF ReportArrives
  <2>2. CASE call[t].kind # "forced"
    <3>1. Reports(t) /\ reported' = reported \cup {Report(call[t])}
      BY <1>0, <2>2 DEF ReportArrives, Reports, UnderWay, Reporting
    <3>2. Report(call[t]) \in ReportType /\ Report(call[t]).date <= flag
      BY <3>1, OfOne, CallsAreTyped
    <3>3. \A u \in Reporters : u # t /\ Reports(u) => Apart(Report(call[u]), Report(call[t]))
      BY <3>1, OfOne, ApartIsSymmetric
    <3> QED
      BY <1>0, <3>1, <3>2, <3>3, OfOne
  <2> QED
    BY <2>1, <2>2
<1>1. CASE Send(t)
  <2> DEFINE course == IF call[t].course # "passed" THEN call[t].course
                      ELSE IF Archive(t).by = t /\ Archive(t).whole THEN "own" ELSE "another"
             c == [call[t] EXCEPT !.fresh = FALSE, !.course = course]
  <2>1. pc[t] = "send" /\ Goes(t, "remove_sent") /\ UNCHANGED <<day, flag, archives>>
        /\ ReportArrives(t) /\ Archive(t) # NoArchive
    BY <1>1 DEF Send, Received
  <2>2. /\ course \in Courses /\ (course # "disturbed" => call[t].course # "disturbed")
        /\ (Lone(t) => course = "own")
    BY <2>1, OfOne, CallsAreTyped DEF Finds, Courses, Reporting
  <2>3. call' = [call EXCEPT ![t] = c]
    BY <1>1, OfOne DEF Send, Received
  <2> HIDE DEF course
  <2>4. /\ c \in CallType /\ c.date = call[t].date /\ c.course = course
    BY <2>2, OfOne DEF CallType
  <2> HIDE DEF c
  <2>5. c.course # "disturbed" => Finds(t, "remove_sent", c, archives'[c.date])
    BY <2>1, <2>2, <2>4, OfOne DEF Finds, Reporting, Archive, Lone
  <2>6. "remove_sent" \in PCs /\ ~UnderWay("remove_sent", c)
    BY DEF PCs, Reporting, UnderWay
  <2> QED
    BY <1>0, <2>1, <2>2, <2>3, <2>4, <2>5, <2>6, OfOne, StepOfOne
<1>2. CASE SendPanics(t)
  <2>1. ~Lone(t) /\ pc[t] = "send" /\ Hook(t, TRUE) /\ UNCHANGED <<day, flag, archives, reported>>
    BY <1>2, OfOne, NoArchiveIsTyped DEF SendPanics, Finds
  <2> QED
    BY <2>1, HookKeeps
<1>3. CASE AnswerLost(t)
  <2>1. pc[t] = "send" /\ Fails(t, FALSE) /\ UNCHANGED <<day, flag, archives>> /\ ReportArrives(t)
    BY <1>3 DEF AnswerLost
  <2> QED
    BY <1>0, <2>1, FailsKeeps
<1>4. CASE RemoveSent(t)
  <2>1. CASE Archive(t) = NoArchive
    <3>1. ~Lone(t)
      BY <1>4, <2>1, OfOne DEF RemoveSent, Finds
    <3> QED
      BY <1>4, <2>1, <3>1, OfOne, FailsKeeps DEF RemoveSent
  <2>2. CASE Archive(t) # NoArchive
    <3>1. pc[t] = "remove_sent" /\ ArchiveBecomes(t, NoArchive) /\ Goes(t, "end")
          /\ UNCHANGED <<day, flag, reported, call>>
      BY <1>4, <2>2 DEF RemoveSent
    <3>2. "end" \in PCs /\ "end" \notin Reporting
      BY DEF PCs, Reporting
    <3>3. Lone(t) => Finds(t, "end", call[t], NoArchive)
      BY <3>1, <3>2, OfOne DEF Finds, Reporting
    <3> QED
      BY <3>1, <3>2, <3>3, NoArchiveIsTyped, StepOnArchive
  <2> QED
    BY <2>1, <2>2
<1> QED
  BY <1>1, <1>2, <1>3, <1>4

\* The return, and the steps that fail and leave all as it was.
LEMMA EndKeeps ==
  ASSUME LogInv, NEW t \in Reporters, Return(t) \/ StepFails(t)
  PROVE  LogInv'
<1>1. CASE Return(t)
  <2>1. "idle" \in PCs /\ ~UnderWay("idle", NoCall)
    BY DEF PCs, Reporting, UnderWay
  <2>2. pc[t] = "end" /\ Goes(t, "idle") /\ call' = [call EXCEPT ![t] = NoCall]
        /\ UNCHANGED <<day, flag, archives, reported>>
    BY <1>1 DEF Return
  <2>3. NoCall \in CallType
    BY OfOne, NewCallIsTyped DEF NoCall, Kinds, Courses
  <2> QED
    BY <2>1, <2>2, <2>3, OfOne, StepOfOne
<1>2. CASE StepFails(t)
  <2>1. pc[t] # "idle" /\ \E fault \in SubmitFaults : FailsBy(t, fault)
    BY <1>2 DEF StepFails, FailsBy
  <2> QED
    BY <2>1, OfOne, FailsKeeps DEF FailsBy
<1> QED
  BY <1>1, <1>2

\* A day passes, or the agent is killed.
LEMMA OutsideKeeps ==
  ASSUME LogInv, Tomorrow \/ Kill
  PROVE  LogInv'
<1>1. CASE Tomorrow
  <2>1. day' = day + 1 /\ day < MaxDay /\ UNCHANGED <<flag, archives, reported, pc, call>>
    BY <1>1 DEF Tomorrow
  <2>2. day' \in Days
    BY <2>1, SubmitAssumption DEF Days, LogInv, Typed, SubmitTypeOK
  <2>3. Typed' /\ LoneIsAlone' /\ LoneFindsOwn' /\ ReportsAreApart'
    BY <2>1, <2>2 DEF LogInv, Typed, SubmitTypeOK, LoneIsAlone, LoneFindsOwn, Lone, Archive,
       ReportsAreApart, Reports
  <2>4. DatesAreOrdered'
    <3>1. flag' <= day'
      BY <2>1, DatesAreIntegers
    <3>2. ASSUME NEW t \in Reporters, Due(day, call[t].seen) PROVE Due(day', call'[t].seen)
      <4>1. call[t].seen \in Int
        BY OfOne, CallsAreTyped
      <4> QED
        BY <2>1, <3>2, <4>1, DatesAreIntegers DEF Due
    <3> QED
      BY <2>1, <3>1, <3>2 DEF LogInv, DatesAreOrdered, Reports
  <2> QED
    BY <2>3, <2>4 DEF LogInv
<1>2. CASE Kill
  BY <1>2, RestartKeeps DEF Kill
<1> QED
  BY <1>1, <1>2

-----------------------------------------------------------------------------
(* The theorems *)

\* LogInv is inductive.
LEMMA LogInvHolds == Spec => []LogInv
<1>1. Init => LogInv
  <2> SUFFICES ASSUME Init PROVE LogInv
    OBVIOUS
  <2>1. day \in Days /\ 0 \in Days
    BY SubmitAssumption DEF Init, Days
  <2>2. NoCall \in CallType
    BY <2>1, NewCallIsTyped DEF NoCall, Kinds, Courses
  <2>3. \A t \in Reporters : pc[t] = "idle" /\ call[t] = NoCall
    BY DEF Init
  <2>4. Typed
    <3>1. call \in [Reporters -> CallType] /\ pc \in [Reporters -> PCs]
      BY <2>2 DEF Init, PCs
    <3>2. \A t \in Reporters : call[t].kind \in Kinds /\ call[t].date \in Days /\ call[t].course \in Courses
      BY <2>2, <2>3, CallsAreTyped
    <3>3. /\ archives \in [Days -> ArchiveType]
          /\ \A d \in Days : archives[d].whole => archives[d].by \in Reporters /\ ~archives[d].spoilt
      BY NoArchiveIsTyped DEF Init
    <3> QED
      BY <2>1, <3>1, <3>2, <3>3 DEF Init, Typed, SubmitTypeOK, PCs, ArchiveType
  <2>5. LoneIsAlone /\ LoneFindsOwn
    BY <2>3 DEF LoneIsAlone, LoneFindsOwn, Lone
  <2>6. DatesAreOrdered /\ ReportsAreApart
    <3>1. \A t \in Reporters : ~Reports(t) /\ pc[t] # "write_flag"
      BY <2>3 DEF Reports, UnderWay, Reporting
    <3> QED
      BY <3>1 DEF Init, DatesAreOrdered, ReportsAreApart, NoFlag
  <2> QED
    BY <2>4, <2>5, <2>6 DEF LogInv
<1>2. LogInv /\ [Next]_vars => LogInv'
  <2> SUFFICES ASSUME LogInv, [Next]_vars PROVE LogInv'
    OBVIOUS
  <2>1. CASE Next
    <3>1. CASE \E t \in Reporters :
                 \/ \E segment \in Segments : Request(t, segment)
                 \/ \E kind \in Kinds \ {"forced"} : Call(t, kind)
                 \/ Step(t) \/ StepFails(t)
                 \/ FlagUnopened(t) \/ WriteFlagFails(t) \/ CreateFails(t) \/ AnswerLost(t)
      <4>1. PICK t \in Reporters :
                 \/ \E segment \in Segments : Request(t, segment)
                 \/ \E kind \in Kinds \ {"forced"} : Call(t, kind)
                 \/ Step(t) \/ StepFails(t)
                 \/ FlagUnopened(t) \/ WriteFlagFails(t) \/ CreateFails(t) \/ AnswerLost(t)
        BY <3>1
      <4>2. "forced" \in Kinds
        BY DEF Kinds
      <4>3. CASE \E segment \in Segments : Request(t, segment)
        BY <4>2, <4>3, CallKeeps DEF Request
      <4>4. CASE \E kind \in Kinds \ {"forced"} : Call(t, kind)
        BY <4>4, CallKeeps
      <4>5. CASE Step(t)
        BY <4>5, FlagKeeps, SnapshotKeeps, SendKeeps, EndKeeps DEF Step
      <4>6. CASE StepFails(t) \/ FlagUnopened(t) \/ WriteFlagFails(t) \/ CreateFails(t) \/ AnswerLost(t)
        BY <4>6, FlagKeeps, SnapshotKeeps, SendKeeps, EndKeeps
      <4> QED
        BY <4>1, <4>3, <4>4, <4>5, <4>6
    <3>2. CASE Tomorrow \/ Kill
      BY <3>2, OutsideKeeps
    <3> QED
      BY <2>1, <3>1, <3>2 DEF Next
  <2>2. CASE UNCHANGED vars
    BY <2>2 DEF vars, LogInv, Typed, SubmitTypeOK, LoneIsAlone, LoneFindsOwn, Lone, Archive,
       DatesAreOrdered, ReportsAreApart, Reports
  <2> QED
    BY <2>1, <2>2
<1> QED
  BY <1>1, <1>2, PTL DEF Spec

\* The variables have their types; an archive that is whole is one thread's own.
THEOREM SubmitTypeCorrect == Spec => []SubmitTypeOK
<1>1. LogInv => SubmitTypeOK
  BY DEF LogInv, Typed
<1> QED
  BY <1>1, LogInvHolds, PTL

\* A call that passed the throttle, met no failure and no other call delivers the
\* archive it made and leaves none (create_snapshot, jira_log_submitter.rs:136-138).
THEOREM LoneReportArrivesHolds == Spec => []LoneReportArrives
<1>1. LogInv => LoneReportArrives
  BY DEF LogInv, LoneReportArrives, LoneFindsOwn, Lone, Finds
<1> QED
  BY <1>1, LogInvHolds, PTL

\* Unforced reports have more than the interval between their dates, but for one whose
\* flag could not be opened or was written by another call under its hands
\* (check_flag, jira_log_submitter.rs:83-132).
THEOREM OneReportPerIntervalHolds == Spec => []OneReportPerInterval
<1>1. LogInv => OneReportPerInterval
  BY DEF LogInv, OneReportPerInterval, ReportsAreApart, Reports, UnderWay, Reporting
<1> QED
  BY <1>1, LogInvHolds, PTL
=============================================================================
