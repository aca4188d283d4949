---------------------------- MODULE DownloadProofs ----------------------------
(***************************************************************************)
(* What holds of Download for every number of files, of attempts and of    *)
(* parts: the types and the count of running downloads whatever the server *)
(* does; when the server's answers can be verified at all, that the        *)
(* download manager keeps the promise of VerifiedDownload; and that a part *)
(* of a file once written is not fetched again.                            *)
(***************************************************************************)
EXTENDS Download, FiniteSetTheorems, SequenceTheorems, TLAPS
LOCAL INSTANCE SequencesExt

-----------------------------------------------------------------------------
(* Contents and answers *)

\* A version's content is a nonempty sequence of as many parts as its size.
LEMMA ContentType ==
  ASSUME NEW v \in Versions
  PROVE  /\ Content(v) \in Seq(Part)
         /\ Len(Content(v)) = Size[v]
         /\ Size[v] \in Nat \ {0}
<1>1. Size[v] \in Nat \ {0}
  BY DownloadAssumption
<1>2. Content(v) \in [1..Size[v] -> Part]
  BY <1>1 DEF Content, Part
<1>3. QED
  BY <1>1, <1>2, SeqDef DEF Content

\* Two versions with the same content are the same.
LEMMA ContentInjective ==
  ASSUME NEW v \in Versions, NEW w \in Versions, Content(v) = Content(w)
  PROVE  v = w
<1>1. 1 \in 1..Size[v] /\ 1 \in 1..Size[w]
  BY ContentType
<1>2. Content(v)[1] = <<v, 1>> /\ Content(w)[1] = <<w, 1>>
  BY <1>1 DEF Content
<1>3. QED
  BY <1>2

\* The first request leaves less than a whole file.
LEMMA OpenFileType ==
  ASSUME DownloadTypeOK, NEW f \in Files, NEW size \in Nat \ {0}
  PROVE  /\ OpenFile(f, size) \in Seq(Part)
         /\ Len(OpenFile(f, size)) \in Nat
         /\ Len(OpenFile(f, size)) < size
         /\ ~ranges => Len(OpenFile(f, size)) = 0
<1>1. folder[f] \in Seq(Part)
  BY DEF DownloadTypeOK
<1>2. <<>> \in Seq(Part) /\ Len(<<>>) = 0
  BY EmptySeq
<1>3. QED
  BY <1>1, <1>2, LenProperties DEF OpenFile

\* The range a server sends is made of parts, and as long as asked for if the
\* version's size is still the one the first request gave.
LEMMA RequestedType ==
  ASSUME NEW v \in Versions, NEW start \in Nat, NEW size \in Nat \ {0},
         start < size, NEW x \in Requested(v, start, size)
  PROVE  x \in Seq(Part) /\ (size = Size[v] => Len(x) = size - start)
<1>1. <<Junk>> \in Seq(Part)
  BY DEF Part
<1>2. CASE start < Size[v]
  <2> DEFINE last == IF size < Size[v] THEN size ELSE Size[v]
  <2>1. last \in Nat /\ last <= Size[v] /\ start + 1 \in Nat /\ start + 1 <= last
    BY <1>2, ContentType
  <2>2. \A i \in (start + 1)..last : Content(v)[i] \in Part
    BY <2>1, ContentType, ElementOfSeq
  <2>3. /\ SubSeq(Content(v), start + 1, last) \in Seq(Part)
        /\ Len(SubSeq(Content(v), start + 1, last)) = last - (start + 1) + 1
    BY <2>1, <2>2, SubSeqProperties
  <2>4. x = SubSeq(Content(v), start + 1, last)
    BY <1>2 DEF Requested
  <2>5. QED
    BY <2>1, <2>3, <2>4, ContentType
<1>3. CASE ~(start < Size[v])
  BY <1>1, <1>3, ContentType DEF Requested
<1>4. QED
  BY <1>2, <1>3

\* So is any answer, an error page excepted.
LEMMA AnswersType ==
  ASSUME NEW v \in Versions, NEW start \in Nat, NEW size \in Nat \ {0},
         start < size, NEW x \in Answers(v, start, size)
  PROVE  /\ x \in Seq(Part)
         /\ "refuse" \notin NetFaults /\ size = Size[v] => Len(x) >= size - start
<1>1. CASE x \in Requested(v, start, size)
  BY <1>1, RequestedType, LenProperties
<1>2. CASE x = Content(v)
  BY <1>2, ContentType
<1>3. CASE x = <<Junk>> /\ "refuse" \in NetFaults
  BY <1>3 DEF Part
<1>4. QED
  BY <1>1, <1>2, <1>3 DEF Answers

-----------------------------------------------------------------------------
(* Types, and the count of running downloads *)

Running == {f \in Files : phase[f] \in {"get", "range", "stream", "silent"}}

\* download_count is the number of downloads that are not over: report_eta ends
\* exactly when they all are, and dec_download_count never goes below zero.
Counted == count = Cardinality(Running)

\* A download that asks for a range is not complete.
Incomplete == \A f \in Files : phase[f] = "range" => downloaded[f] < total[f]

TInv == DownloadTypeOK /\ Counted /\ Incomplete

\* The files are finitely many, and so are the downloads that run.
LEMMA RunningFinite == IsFiniteSet(Running) /\ Cardinality(Running) \in Nat
<1>1. Running \in SUBSET Files
  BY DEF Running
<1>2. QED
  BY <1>1, DownloadAssumption, FS_Subset, FS_CardinalityType

\* One more download that is over.
LEMMA RunningLess ==
  ASSUME NEW f \in Running, Running' = Running \ {f}, Counted, count' = count - 1
  PROVE  Counted' /\ count' \in Nat
<1>1. IsFiniteSet(Running) /\ Cardinality(Running) \in Nat
  BY RunningFinite
<1>2. Cardinality(Running \ {f}) = Cardinality(Running) - 1 /\ IsFiniteSet(Running \ {f})
  BY <1>1, FS_RemoveElement
<1>3. Cardinality(Running \ {f}) \in Nat
  BY <1>2, FS_CardinalityType
<1>4. QED
  BY <1>2, <1>3 DEF Counted

\* The end of an attempt, for better or worse, keeps the types and the count.
LEMMA AttemptEnds ==
  ASSUME TInv, NEW f \in Running, AttemptFails(f) \/ AttemptSucceeds(f)
  PROVE  /\ phase' \in [Files -> {"off", "get", "range", "stream", "silent", "done", "failed"}]
         /\ attempt' \in [Files -> 1..Attempts]
         /\ total' \in [Files -> Nat] /\ downloaded' \in [Files -> Nat]
         /\ \A g \in Files : downloaded'[g] <= total'[g]
         /\ body' \in [Files -> Seq(Part)]
         /\ count' \in Nat /\ Counted' /\ Incomplete'
<1>1. f \in Files /\ DownloadTypeOK /\ Counted
  BY DEF TInv, Running
<1>2. <<>> \in Seq(Part)
  BY EmptySeq
<1>3. /\ total' = [total EXCEPT ![f] = 0]
      /\ downloaded' = [downloaded EXCEPT ![f] = 0]
      /\ body' = [body EXCEPT ![f] = <<>>]
  BY DEF AttemptFails, AttemptSucceeds
<1>4. CASE phase' = [phase EXCEPT ![f] = "get"] /\ UNCHANGED count
           /\ attempt' = [attempt EXCEPT ![f] = @ + 1] /\ ~(attempt[f] >= Attempts)
  <2>1. Running' = Running
    BY <1>1, <1>4 DEF Running, DownloadTypeOK
  <2>2. attempt' \in [Files -> 1..Attempts]
    BY <1>1, <1>4, DownloadAssumption DEF DownloadTypeOK
  <2>3. QED
    BY <1>1, <1>2, <1>3, <1>4, <2>1, <2>2 DEF DownloadTypeOK, Counted, Incomplete, TInv
<1>5. CASE /\ \E over \in {"done", "failed"} : phase' = [phase EXCEPT ![f] = over]
           /\ count' = count - 1 /\ UNCHANGED attempt
  <2>1. Running' = Running \ {f}
    BY <1>1, <1>5 DEF Running, DownloadTypeOK
  <2>2. Counted' /\ count' \in Nat
    BY <1>1, <1>5, <2>1, RunningLess
  <2>3. QED
    BY <1>1, <1>2, <1>3, <1>5, <2>2 DEF DownloadTypeOK, Incomplete, TInv
<1>6. QED
  BY <1>4, <1>5 DEF AttemptFails, AttemptSucceeds

\* The initial states are typed and nothing runs in them.
LEMMA InitTyped == Init => TInv
<1> SUFFICES ASSUME Init PROVE TInv
  OBVIOUS
<1>1. <<>> \in Seq(Part)
  BY EmptySeq
<1>2. Running = {}
  BY DEF Init, Running
<1>3. QED
  BY <1>1, <1>2, FS_EmptySet, DownloadAssumption
     DEF Init, TInv, DownloadTypeOK, Counted, Incomplete

\* Forgetting the futures does the same.
LEMMA ForgetTyped ==
  ASSUME TInv, Forget, folder' \in [Files -> Seq(Part)], UNCHANGED <<link, ranges>>
  PROVE  TInv'
<1>1. <<>> \in Seq(Part)
  BY EmptySeq
<1>2. Running' = {}
  BY DEF Forget, Running
<1>3. QED
  BY <1>1, <1>2, FS_EmptySet, DownloadAssumption
     DEF Forget, TInv, DownloadTypeOK, Counted, Incomplete

\* Every step keeps the types and the count.
LEMMA NextTyped == TInv /\ [Next]_vars => TInv'
<1> SUFFICES ASSUME TInv, [Next]_vars PROVE TInv'
  OBVIOUS
<1> USE DEF TInv
<1>1. CASE DownloadComponents
  <2>1. Running' = Files
    BY <1>1 DEF DownloadComponents, Running
  <2>2. Cardinality(Files) \in Nat
    BY DownloadAssumption, FS_CardinalityType
  <2>3. QED
    BY <1>1, <2>1, <2>2, DownloadAssumption
       DEF DownloadComponents, DownloadTypeOK, Counted, Incomplete
<1>2. ASSUME NEW f \in Files, Get(f) PROVE TInv'
  <2> DEFINE v == link[f]
             file == OpenFile(f, Size[v])
  <2>1. v \in Versions /\ Size[v] \in Nat \ {0} /\ Content(v) \in Seq(Part)
    BY ContentType DEF DownloadTypeOK
  <2>2. file \in Seq(Part) /\ Len(file) \in Nat /\ Len(file) < Size[v]
    BY <2>1, OpenFileType
  <2>3. Running' = Running
    BY <1>2 DEF Get, Running, DownloadTypeOK
  <2>4. <<>> \in Seq(Part)
    BY EmptySeq
  <2>5. /\ folder' = [folder EXCEPT ![f] = file]
        /\ total' = [total EXCEPT ![f] = Size[v]]
        /\ downloaded' = [downloaded EXCEPT ![f] = Len(file)]
        /\ body' = [body EXCEPT ![f] = IF ranges THEN <<>> ELSE Content(v)]
        /\ phase' = [phase EXCEPT ![f] = IF ranges THEN "range" ELSE "stream"]
        /\ UNCHANGED <<want, attempt, count, reporter, result, link, ranges>>
    BY <1>2 DEF Get
  <2> HIDE DEF v, file
  <2>6. DownloadTypeOK'
    BY <2>1, <2>2, <2>4, <2>5 DEF DownloadTypeOK
  <2>7. Incomplete'
    BY <2>1, <2>2, <2>5 DEF DownloadTypeOK, Incomplete
  <2>8. QED
    BY <2>3, <2>5, <2>6, <2>7 DEF Counted
<1>3. ASSUME NEW f \in Files, GetRange(f) PROVE TInv'
  <2>1. PICK x \in Answers(link[f], downloaded[f], total[f]) : body' = [body EXCEPT ![f] = x]
    BY <1>3 DEF GetRange
  <2>2. downloaded[f] \in Nat /\ total[f] \in Nat \ {0} /\ downloaded[f] < total[f]
    BY <1>3 DEF GetRange, DownloadTypeOK, Incomplete
  <2>3. x \in Seq(Part)
    BY <2>1, <2>2, AnswersType DEF DownloadTypeOK
  <2>4. Running' = Running
    BY <1>3 DEF GetRange, Running, DownloadTypeOK
  <2>5. QED
    BY <1>3, <2>1, <2>3, <2>4 DEF GetRange, DownloadTypeOK, Counted, Incomplete
<1>4. ASSUME NEW f \in Files, WriteChunk(f) PROVE TInv'
  <2>1. Head(body[f]) \in Part /\ Tail(body[f]) \in Seq(Part)
    BY <1>4, HeadTailProperties DEF WriteChunk, DownloadTypeOK
  <2>2. Append(folder[f], Head(body[f])) \in Seq(Part)
    BY <2>1 DEF DownloadTypeOK
  <2>3. NewDownloaded(f) \in Nat /\ NewDownloaded(f) <= total[f]
    BY DEF NewDownloaded, DownloadTypeOK
  <2>4. Running' = Running
    BY <1>4 DEF WriteChunk, Running
  <2>5. QED
    BY <1>4, <2>1, <2>2, <2>3, <2>4 DEF WriteChunk, DownloadTypeOK, Counted, Incomplete
<1>5. ASSUME NEW f \in Files, EndOfStream(f) PROVE TInv'
  <2>1. f \in Running /\ (AttemptFails(f) \/ AttemptSucceeds(f))
    BY <1>5 DEF EndOfStream, Running
  <2>2. folder' \in [Files -> Seq(Part)]
    BY <1>5, EmptySeq DEF EndOfStream, DownloadTypeOK
  <2>3. UNCHANGED <<want, reporter, result, link, ranges>>
    BY <1>5 DEF EndOfStream
  <2>4. QED
    BY <2>1, <2>2, <2>3, AttemptEnds DEF DownloadTypeOK
<1>6. ASSUME NEW f \in Files, RequestFails(f) \/ StreamBreaks(f) PROVE TInv'
  <2>1. f \in Running /\ AttemptFails(f)
    BY <1>6 DEF RequestFails, StreamBreaks, Running
  <2>2. UNCHANGED <<folder, want, reporter, result, link, ranges>>
    BY <1>6 DEF RequestFails, StreamBreaks
  <2>3. QED
    BY <2>1, <2>2, AttemptEnds DEF DownloadTypeOK
<1>7. CASE ReportEta \/ ReportEtaWakes \/ ReporterGoesSilent \/ JoinAll
  BY <1>7 DEF ReportEta, ReportEtaWakes, ReporterGoesSilent, JoinAll, future, DownloadTypeOK,
              Counted, Incomplete, Running
<1>8. CASE Installed \/ NotInstalled \/ Kill
  <2>1. folder' \in [Files -> Seq(Part)]
    BY <1>8, EmptySeq DEF Installed, NotInstalled, Kill, DownloadTypeOK
  <2>2. QED
    BY <1>8, <2>1, ForgetTyped DEF Installed, NotInstalled, Kill
<1>9. ASSUME NEW f \in Files, NEW v \in Versions, Publish(f, v) PROVE TInv'
  BY <1>9 DEF Publish, future, DownloadTypeOK, Counted, Incomplete, Running
<1>10. CASE UNCHANGED vars
  BY <1>10 DEF vars, future, DownloadTypeOK, Counted, Incomplete, Running
<1>11. ASSUME NEW f \in Files, GoesSilent(f) PROVE TInv'
  <2>1. Running' = Running
    BY <1>11 DEF GoesSilent, Running, DownloadTypeOK
  <2> QED
    BY <1>11, <2>1 DEF GoesSilent, DownloadTypeOK, Counted, Incomplete
<1>12. QED
  BY <1>1, <1>2, <1>3, <1>4, <1>5, <1>6, <1>7, <1>8, <1>9, <1>10, <1>11 DEF Next, DownloadFile

\* The types hold, whatever the server and the network do: in particular the
\* progress of a file never passes its size, and the count of running downloads
\* never goes below zero.
THEOREM DownloadTypeCorrect == Spec => []DownloadTypeOK
<1>1. TInv => DownloadTypeOK
  BY DEF TInv
<1>2. QED
  BY InitTyped, NextTyped, <1>1, PTL DEF Spec

-----------------------------------------------------------------------------
(* The promise *)

\* What is needed to verify an answer: a request for a range is answered with a
\* part of a file, and a file replaced during a download keeps its size.
\* Without it an answer can be shorter than the size the first request gave, and
\* then no checksum is compared (DownloadedIsWhole is violated).
Verifiable ==
  /\ "refuse" \notin NetFaults
  /\ "swap" \in NetFaults => \A v, w \in Versions : Size[v] = Size[w]

\* The futures and the result belong to a download that is under way.
UnderWay ==
  /\ \A f \in Files : phase[f] # "off" => want # Idle
  /\ result # "none" => want # Idle
  /\ result # "none" => \A f \in Files : phase[f] \in {"done", "failed"}
  /\ result = "files" => \A f \in Files : phase[f] = "done"

\* The size is that of the file on the server, and the answer is long enough.
LongEnough ==
  \A f \in Files :
    /\ phase[f] = "range" => total[f] = Size[link[f]]
    /\ phase[f] = "stream" => downloaded[f] + Len(body[f]) >= total[f]

\* A download that succeeded left the file asked for.
DoneIsWhole == \A f \in Files : phase[f] = "done" => folder[f] = Content(want[f])

WInv == TInv /\ UnderWay /\ LongEnough /\ DoneIsWhole

\* A state without a download satisfies the rest trivially.
LEMMA OffWhole ==
  ASSUME \A f \in Files : phase[f] = "off", result = "none"
  PROVE  UnderWay /\ LongEnough /\ DoneIsWhole
BY DEF UnderWay, LongEnough, DoneIsWhole

\* An answer is never too short, so every download that ends with success has
\* had its checksum compared.
LEMMA NextWhole == Verifiable /\ WInv /\ [Next]_vars => WInv'
<1> SUFFICES ASSUME Verifiable, WInv, [Next]_vars PROVE UnderWay' /\ LongEnough' /\ DoneIsWhole'
  BY NextTyped DEF WInv
<1>0. TInv /\ TInv' /\ DownloadTypeOK /\ UnderWay /\ LongEnough /\ DoneIsWhole
  BY NextTyped DEF WInv, TInv
<1>1. CASE DownloadComponents
  BY <1>0, <1>1, DownloadAssumption
     DEF DownloadComponents, DownloadTypeOK, UnderWay, LongEnough, DoneIsWhole
<1>2. ASSUME NEW f \in Files, Get(f) PROVE UnderWay' /\ LongEnough' /\ DoneIsWhole'
  <2> DEFINE v == link[f]
             file == OpenFile(f, Size[v])
  <2>1. v \in Versions /\ Size[v] \in Nat \ {0} /\ Len(Content(v)) = Size[v]
    BY <1>0, ContentType DEF DownloadTypeOK
  <2>2. Len(file) \in Nat
    BY <1>0, <2>1, OpenFileType
  <2>3. /\ folder' = [folder EXCEPT ![f] = file]
        /\ total' = [total EXCEPT ![f] = Size[v]]
        /\ downloaded' = [downloaded EXCEPT ![f] = Len(file)]
        /\ body' = [body EXCEPT ![f] = IF ranges THEN <<>> ELSE Content(v)]
        /\ phase' = [phase EXCEPT ![f] = IF ranges THEN "range" ELSE "stream"]
        /\ UNCHANGED <<want, attempt, count, reporter, result, link, ranges>>
    BY <1>2 DEF Get
  <2>4. phase[f] = "get"
    BY <1>2 DEF Get
  <2> HIDE DEF file
  <2>5. LongEnough'
    BY <1>0, <2>1, <2>2, <2>3 DEF DownloadTypeOK, LongEnough
  <2>6. UnderWay' /\ DoneIsWhole'
    BY <1>0, <2>3, <2>4 DEF DownloadTypeOK, UnderWay, DoneIsWhole
  <2>7. QED
    BY <2>5, <2>6
<1>3. ASSUME NEW f \in Files, GetRange(f) PROVE UnderWay' /\ LongEnough' /\ DoneIsWhole'
  <2>1. PICK x \in Answers(link[f], downloaded[f], total[f]) : body' = [body EXCEPT ![f] = x]
    BY <1>3 DEF GetRange
  <2>2. downloaded[f] \in Nat /\ total[f] \in Nat \ {0} /\ downloaded[f] < total[f]
    BY <1>0, <1>3 DEF GetRange, DownloadTypeOK, Incomplete, TInv
  <2>3. total[f] = Size[link[f]]
    BY <1>0, <1>3 DEF GetRange, LongEnough
  <2>4. x \in Seq(Part) /\ Len(x) >= total[f] - downloaded[f] /\ Len(x) \in Nat
    BY <1>0, <2>1, <2>2, <2>3, AnswersType, LenProperties DEF DownloadTypeOK, Verifiable
  <2>5. LongEnough'
    BY <1>0, <1>3, <2>1, <2>2, <2>4 DEF GetRange, DownloadTypeOK, LongEnough
  <2>6. UnderWay' /\ DoneIsWhole'
    BY <1>0, <1>3 DEF GetRange, DownloadTypeOK, UnderWay, DoneIsWhole
  <2>7. QED
    BY <2>5, <2>6
<1>4. ASSUME NEW f \in Files, WriteChunk(f) PROVE UnderWay' /\ LongEnough' /\ DoneIsWhole'
  <2>1. Len(Tail(body[f])) = Len(body[f]) - 1 /\ Len(body[f]) \in Nat
    BY <1>0, <1>4, HeadTailProperties, LenProperties DEF WriteChunk, DownloadTypeOK
  <2>2. NewDownloaded(f) = total[f] \/ NewDownloaded(f) = downloaded[f] + 1
    BY DEF NewDownloaded
  <2>3. NewDownloaded(f) \in Nat /\ downloaded[f] \in Nat /\ total[f] \in Nat
    BY <1>0, <2>2 DEF DownloadTypeOK
  <2>4. NewDownloaded(f) + Len(Tail(body[f])) >= total[f]
    <3>1. downloaded[f] + Len(body[f]) >= total[f] /\ Len(Tail(body[f])) \in Nat
      BY <1>0, <1>4, HeadTailProperties, LenProperties
         DEF WriteChunk, DownloadTypeOK, LongEnough
    <3>2. QED
      BY <2>1, <2>2, <2>3, <3>1
  <2>5. LongEnough'
    BY <1>0, <1>4, <2>4 DEF WriteChunk, DownloadTypeOK, LongEnough
  <2>6. UnderWay' /\ DoneIsWhole'
    BY <1>0, <1>4 DEF WriteChunk, DownloadTypeOK, UnderWay, DoneIsWhole
  <2>7. QED
    BY <2>5, <2>6
<1>5. ASSUME NEW f \in Files, EndOfStream(f) \/ RequestFails(f) \/ StreamBreaks(f)
      PROVE  UnderWay' /\ LongEnough' /\ DoneIsWhole'
  <2>1. phase[f] \in {"get", "range", "stream"} /\ UNCHANGED <<want, result, link>>
    BY <1>5 DEF EndOfStream, RequestFails, StreamBreaks
  <2>2. want # Idle /\ result = "none"
    BY <1>0, <2>1 DEF UnderWay
  <2>3. \A g \in Files \ {f} : folder'[g] = folder[g] /\ phase'[g] = phase[g]
           /\ total'[g] = total[g] /\ downloaded'[g] = downloaded[g] /\ body'[g] = body[g]
    BY <1>0, <1>5 DEF EndOfStream, RequestFails, StreamBreaks, AttemptFails,
       AttemptSucceeds, DownloadTypeOK
  <2>4. phase'[f] \in {"get", "failed", "done"}
    BY <1>0, <1>5 DEF EndOfStream, RequestFails, StreamBreaks, AttemptFails,
       AttemptSucceeds, DownloadTypeOK
  <2>5. phase'[f] = "done" => folder'[f] = Content(want[f])
    <3> SUFFICES ASSUME phase'[f] = "done" PROVE folder'[f] = Content(want[f])
      OBVIOUS
    <3>1. EndOfStream(f)
      BY <1>0, <1>5 DEF RequestFails, StreamBreaks, AttemptFails, DownloadTypeOK
    <3>2. downloaded[f] >= total[f]
      BY <1>0, <3>1, EmptySeq DEF EndOfStream, LongEnough, DownloadTypeOK
    <3>3. ChecksumMatches(f) /\ folder' = folder
      BY <1>0, <3>1, <3>2 DEF EndOfStream, AttemptFails, DownloadTypeOK
    <3>4. QED
      BY <3>3 DEF ChecksumMatches
  <2>6. UnderWay'
    BY <2>1, <2>2, <2>4 DEF UnderWay
  <2>7. LongEnough' /\ DoneIsWhole'
    BY <1>0, <2>1, <2>3, <2>4, <2>5 DEF LongEnough, DoneIsWhole
  <2>8. QED
    BY <2>6, <2>7
<1>6. CASE ReportEta \/ ReportEtaWakes \/ ReporterGoesSilent
  BY <1>0, <1>6 DEF ReportEta, ReportEtaWakes, ReporterGoesSilent, future, UnderWay, LongEnough,
     DoneIsWhole
<1>7. CASE JoinAll
  BY <1>0, <1>7 DEF JoinAll, future, UnderWay, LongEnough, DoneIsWhole
<1>8. CASE Installed \/ NotInstalled \/ Kill
  <2>1. (\A f \in Files : phase'[f] = "off") /\ result' = "none"
    BY <1>8 DEF Installed, NotInstalled, Kill, Forget
  <2>2. QED
    BY <2>1 DEF UnderWay, LongEnough, DoneIsWhole
<1>9. ASSUME NEW f \in Files, NEW v \in Versions, Publish(f, v)
      PROVE  UnderWay' /\ LongEnough' /\ DoneIsWhole'
  <2>1. Size[v] = Size[link[f]] \/ phase[f] = "off"
    BY <1>0, <1>9 DEF Publish, UnderWay, DownloadTypeOK, Verifiable
  <2>2. LongEnough'
    BY <1>0, <1>9, <2>1 DEF Publish, future, DownloadTypeOK, LongEnough
  <2>3. UnderWay' /\ DoneIsWhole'
    BY <1>0, <1>9 DEF Publish, future, UnderWay, DoneIsWhole
  <2>4. QED
    BY <2>2, <2>3
<1>10. CASE UNCHANGED vars
  BY <1>0, <1>10 DEF vars, future, UnderWay, LongEnough, DoneIsWhole
<1>11. ASSUME NEW f \in Files, GoesSilent(f) PROVE UnderWay' /\ LongEnough' /\ DoneIsWhole'
  <2>1. /\ phase[f] \in {"get", "range", "stream"}
        /\ phase' = [phase EXCEPT ![f] = "silent"]
        /\ UNCHANGED <<folder, want, total, downloaded, body, result, link>>
    BY <1>11 DEF GoesSilent
  <2> QED
    BY <1>0, <2>1 DEF DownloadTypeOK, UnderWay, LongEnough, DoneIsWhole
<1>12. QED
  BY <1>1, <1>2, <1>3, <1>4, <1>5, <1>6, <1>7, <1>8, <1>9, <1>10, <1>11 DEF Next, DownloadFile

\* The initial states satisfy the invariant.
LEMMA InitWhole == Init => WInv
<1> SUFFICES ASSUME Init PROVE WInv
  OBVIOUS
<1>1. (\A f \in Files : phase[f] = "off") /\ result = "none"
  BY DEF Init
<1>2. QED
  BY <1>1, OffWhole, InitTyped DEF WInv

\* What is given to the installers has the checksum of the list, provided the
\* answers can be verified.
THEOREM DownloadedIsWholeHolds ==
  ASSUME Verifiable
  PROVE  Spec => []DownloadedIsWhole
<1>1. WInv => DownloadedIsWhole
  BY DEF WInv, UnderWay, DoneIsWhole, DownloadedIsWhole
<1>2. WInv /\ [Next]_vars => WInv'
  BY NextWhole
<1>3. QED
  BY InitWhole, <1>1, <1>2, PTL DEF Spec

\* The version of a whole file is the one asked for.
LEMMA VersionOfWhole ==
  ASSUME NEW f \in Files, NEW v \in Versions, folder[f] = Content(v)
  PROVE  VersionIn(f) = v
BY ContentInjective DEF VersionIn

\* The initial states are those of the promise.
LEMMA InitPromise == Init => Promise!Init
BY DEF Init, Promise!Init

\* A step of a download is a step of the promise, or none.
LEMMA NextPromise ==
  WInv /\ [Next]_vars =>
    [Promise!Next]_<<want, IF result = "files" THEN [f \in Files |-> VersionIn(f)] ELSE Idle>>
<1> DEFINE handed == IF result = "files" THEN [f \in Files |-> VersionIn(f)] ELSE Idle
<1> SUFFICES ASSUME WInv, [Next]_vars PROVE [Promise!Next]_<<want, handed>>
  OBVIOUS
<1>0. DownloadTypeOK /\ UnderWay /\ DoneIsWhole
  BY DEF WInv, TInv
<1>1. CASE DownloadComponents
  <2>1. result = "none" /\ result' = "none" /\ want = Idle /\ want' \in [Files -> Versions]
    BY <1>0, <1>1 DEF DownloadComponents, UnderWay, DownloadTypeOK
  <2>2. QED
    BY <2>1 DEF Promise!Next, Promise!Ask
<1>2. CASE JoinAll
  <2>1. want # Idle /\ want \in [Files -> Versions] /\ result = "none" /\ UNCHANGED <<want, folder>>
    BY <1>0, <1>2 DEF JoinAll, DownloadTypeOK
  <2>2. CASE result' = "files"
    <3>1. \A f \in Files : folder'[f] = Content(want[f])
      BY <1>0, <1>2, <2>1, <2>2 DEF JoinAll, DoneIsWhole
    <3>2. \A f \in Files : VersionIn(f)' = want[f]
      BY <2>1, <3>1, ContentInjective DEF VersionIn
    <3>3. handed' = want
      BY <2>1, <2>2, <3>2
    <3>4. QED
      BY <2>1, <3>3 DEF Promise!Next, Promise!HandOver
  <2>3. CASE result' # "files"
    BY <2>1, <2>3
  <2>4. QED
    BY <2>2, <2>3
<1>3. CASE Installed \/ NotInstalled \/ Kill
  <2>1. want # Idle /\ want' = Idle /\ result' = "none"
    BY <1>0, <1>3 DEF Installed, NotInstalled, Kill, Forget, UnderWay
  <2>2. QED
    BY <2>1 DEF Promise!Next, Promise!End
<1>4. ASSUME NEW f \in Files, DownloadFile(f) \/ RequestFails(f) \/ StreamBreaks(f) \/ GoesSilent(f)
      PROVE  UNCHANGED <<want, handed>>
  <2>1. phase[f] \in {"get", "range", "stream"} /\ UNCHANGED <<want, result>>
    BY <1>4 DEF DownloadFile, Get, GetRange, WriteChunk, EndOfStream, RequestFails, StreamBreaks,
       GoesSilent
  <2>2. result = "none"
    BY <1>0, <2>1 DEF UnderWay
  <2>3. QED
    BY <2>1, <2>2
<1>5. CASE ReportEta \/ ReportEtaWakes \/ ReporterGoesSilent \/ UNCHANGED vars
           \/ \E f \in Files, v \in Versions : Publish(f, v)
  <2>1. UNCHANGED <<want, result, folder>>
    BY <1>5 DEF ReportEta, ReportEtaWakes, ReporterGoesSilent, vars, Publish
  <2>2. QED
    BY <2>1 DEF VersionIn
<1>6. QED
  BY <1>1, <1>2, <1>3, <1>4, <1>5 DEF Next

\* The download manager implements VerifiedDownload: run_once is given all the
\* files it asked for, in the versions it asked for, or an error, over failed
\* attempts, broken streams, resumed files, kills and replaced files, provided
\* the answers can be verified.
THEOREM PromiseKept ==
  ASSUME Verifiable
  PROVE  Spec => KeepsPromise
<1>1. WInv /\ [Next]_vars => WInv'
  BY NextWhole
<1>2. QED
  BY InitWhole, InitPromise, NextPromise, <1>1, PTL DEF Spec, KeepsPromise, Promise!Spec
-----------------------------------------------------------------------------
(* Partial files *)

\* A file replaced during a download keeps its size.  Without it a partial file is as
\* long as the size of another version and thrown away (PartsAreKept is violated).
SizesStay == "swap" \in NetFaults => \A v, w \in Versions : Size[v] = Size[w]

\* A file with a part of an error page.
Spoilt(f) == \E i \in 1..Len(folder[f]) : folder[f][i] = Junk

\* What the list asked for has the size of what is behind the link.
SizesKept == want # Idle => \A f \in Files : Size[link[f]] = Size[want[f]]

\* Of a file that is compared, or called a success without, there is as much as asked for,
\* unless a part of an error page is in it.
Lengths ==
  \A f \in Files :
    /\ phase[f] \in {"range", "stream"} => total[f] = Size[want[f]] /\ downloaded[f] <= Len(folder[f])
    /\ phase[f] = "stream" => downloaded[f] + Len(body[f]) >= total[f] \/ Spoilt(f) \/ body[f] = <<Junk>>
    /\ phase[f] = "done" => folder[f] = Content(want[f]) \/ Spoilt(f)

KInv == TInv /\ UnderWay /\ SizesKept /\ Lengths

\* No part of a version's content is an error page.
LEMMA ContentIsNotSpoilt ==
  ASSUME NEW v \in Versions, NEW i \in 1..Size[v]
  PROVE  Content(v)[i] # Junk
<1>1. Content(v)[i] = <<v, i>> /\ i \in Nat
  BY ContentType DEF Content
<1> QED
  BY <1>1, DownloadAssumption

\* A file with a part of an error page is no beginning of a version.
LEMMA SpoiltIsNoPrefix ==
  ASSUME DownloadTypeOK, NEW f \in Files, NEW v \in Versions, Spoilt(f)
  PROVE  ~IsPrefix(folder[f], Content(v))
<1>1. PICK i \in 1..Len(folder[f]) : folder[f][i] = Junk
  BY DEF Spoilt
<1>2. folder[f] \in Seq(Part) /\ Content(v) \in Seq(Part) /\ Len(Content(v)) = Size[v] /\ Size[v] \in Nat
  BY ContentType DEF DownloadTypeOK
<1>3. SUFFICES ASSUME IsPrefix(folder[f], Content(v)) PROVE FALSE
  OBVIOUS
<1>4. Len(folder[f]) <= Size[v] /\ Len(folder[f]) \in Nat
  BY <1>2, <1>3, LenProperties DEF IsPrefix
<1>5. folder[f][i] = Content(v)[i]
  BY <1>1, <1>2, <1>3, <1>4 DEF IsPrefix
<1>6. i \in 1..Size[v]
  BY <1>1, <1>2, <1>4
<1> QED
  BY <1>1, <1>5, <1>6, ContentIsNotSpoilt

\* A strict beginning of a version is shorter than it.
LEMMA StrictPrefixIsShorter ==
  ASSUME NEW s \in Seq(Part), NEW v \in Versions, IsStrictPrefix(s, Content(v))
  PROVE  Len(s) < Size[v]
<1>1. Content(v) \in Seq(Part) /\ Len(Content(v)) = Size[v] /\ Size[v] \in Nat
  BY ContentType
<1>2. IsPrefix(s, Content(v)) /\ s # Content(v)
  BY DEF IsStrictPrefix
<1>3. Len(s) \in Nat /\ Len(s) <= Size[v]
  BY <1>1, <1>2, LenProperties DEF IsPrefix
<1>4. CASE Len(s) = Size[v]
  <2>1. SubSeq(s, 1, Len(s)) = SubSeq(Content(v), 1, Len(s))
    BY <1>2 DEF IsPrefix
  <2>2. \A i \in 1..Len(s) : s[i] = Content(v)[i]
    BY <1>1, <1>3, <1>4, <2>1
  <2>3. s = Content(v)
    BY <1>1, <1>4, <2>2, SeqEqual
  <2> QED
    BY <1>2, <2>3
<1> QED
  BY <1>1, <1>3, <1>4

\* A file is a beginning of itself and of what is appended to it.
LEMMA PrefixOfAppend ==
  ASSUME NEW s \in Seq(Part), NEW x \in Part
  PROVE  IsPrefix(s, s) /\ IsPrefix(s, Append(s, x))
BY DEF IsPrefix

\* An answer is as long as asked for, or it is an error page.
LEMMA AnswersLength ==
  ASSUME NEW v \in Versions, NEW start \in Nat, start < Size[v], NEW x \in Answers(v, start, Size[v])
  PROVE  x = <<Junk>> \/ Len(x) >= Size[v] - start
<1>1. CASE x \in Requested(v, start, Size[v])
  BY <1>1, ContentType, RequestedType, LenProperties
<1>2. CASE x = Content(v)
  BY <1>2, ContentType
<1>3. CASE x = <<Junk>>
  BY <1>3
<1> QED
  BY <1>1, <1>2, <1>3 DEF Answers

\* UnderWay holds whatever the server answers.
LEMMA UnderWayKept == TInv /\ UnderWay /\ [Next]_vars => UnderWay'
<1> SUFFICES ASSUME TInv, UnderWay, [Next]_vars PROVE UnderWay'
  OBVIOUS
<1>0. DownloadTypeOK
  BY DEF TInv
<1>1. CASE DownloadComponents
  BY <1>0, <1>1, DownloadAssumption DEF DownloadComponents, DownloadTypeOK, UnderWay
<1>2. ASSUME NEW f \in Files, DownloadFile(f) \/ RequestFails(f) \/ StreamBreaks(f) \/ GoesSilent(f)
      PROVE  UnderWay'
  <2>1. phase[f] \in {"get", "range", "stream"} /\ UNCHANGED <<want, result>>
    BY <1>2 DEF DownloadFile, Get, GetRange, WriteChunk, EndOfStream, RequestFails, StreamBreaks,
       GoesSilent
  <2>2. want # Idle /\ result = "none"
    BY <2>1 DEF UnderWay
  <2> QED
    BY <2>1, <2>2 DEF UnderWay
<1>3. CASE ReportEta \/ ReportEtaWakes \/ ReporterGoesSilent \/ JoinAll \/ UNCHANGED vars
           \/ \E f \in Files, v \in Versions : Publish(f, v)
  BY <1>3 DEF ReportEta, ReportEtaWakes, ReporterGoesSilent, JoinAll, vars, Publish, future, UnderWay
<1>4. CASE Installed \/ NotInstalled \/ Kill
  BY <1>4 DEF Installed, NotInstalled, Kill, Forget, UnderWay
<1> QED
  BY <1>1, <1>2, <1>3, <1>4 DEF Next

\* The sizes stay those of what was asked for.
LEMMA SizesKeptKept == SizesStay /\ TInv /\ SizesKept /\ [Next]_vars => SizesKept'
<1> SUFFICES ASSUME SizesStay, TInv, SizesKept, [Next]_vars PROVE SizesKept'
  OBVIOUS
<1>0. DownloadTypeOK /\ DownloadTypeOK'
  BY NextTyped DEF TInv
<1>1. CASE DownloadComponents
  BY <1>1 DEF DownloadComponents, SizesKept
<1>2. ASSUME NEW f \in Files, DownloadFile(f) \/ RequestFails(f) \/ StreamBreaks(f) \/ GoesSilent(f)
      PROVE  SizesKept'
  <2>1. UNCHANGED <<want, link>>
    BY <1>2 DEF DownloadFile, Get, GetRange, WriteChunk, EndOfStream, RequestFails, StreamBreaks,
       GoesSilent
  <2> QED
    BY <2>1 DEF SizesKept
<1>3. CASE ReportEta \/ ReportEtaWakes \/ ReporterGoesSilent \/ JoinAll \/ UNCHANGED vars
  BY <1>3 DEF ReportEta, ReportEtaWakes, ReporterGoesSilent, JoinAll, vars, SizesKept
<1>4. CASE Installed \/ NotInstalled \/ Kill
  BY <1>4 DEF Installed, NotInstalled, Kill, Forget, SizesKept
<1>5. ASSUME NEW f \in Files, NEW v \in Versions, Publish(f, v) PROVE SizesKept'
  <2>1. want' = want /\ link' = [link EXCEPT ![f] = v] /\ (want = Idle \/ "swap" \in NetFaults)
    BY <1>5 DEF Publish
  <2>2. CASE want = Idle
    BY <2>1, <2>2 DEF SizesKept
  <2>3. CASE want # Idle /\ "swap" \in NetFaults
    BY <1>0, <2>1, <2>3 DEF SizesKept, SizesStay, DownloadTypeOK
  <2> QED
    BY <2>1, <2>2, <2>3
<1> QED
  BY <1>1, <1>2, <1>3, <1>4, <1>5 DEF Next

\* One file's part of Lengths.
LengthOf(f) ==
  /\ phase[f] \in {"range", "stream"} => total[f] = Size[want[f]] /\ downloaded[f] <= Len(folder[f])
  /\ phase[f] = "stream" => downloaded[f] + Len(body[f]) >= total[f] \/ Spoilt(f) \/ body[f] = <<Junk>>
  /\ phase[f] = "done" => folder[f] = Content(want[f]) \/ Spoilt(f)

\* A step of one future leaves the files and lengths of the others.
LEMMA LengthOfOthers ==
  ASSUME TInv, Lengths, NEW f \in Files, DownloadFile(f) \/ RequestFails(f) \/ StreamBreaks(f),
         LengthOf(f)'
  PROVE  Lengths'
<1>1. want' = want /\ \A g \in Files \ {f} :
        /\ folder'[g] = folder[g] /\ phase'[g] = phase[g]
        /\ total'[g] = total[g] /\ downloaded'[g] = downloaded[g] /\ body'[g] = body[g]
  BY DEF TInv, DownloadTypeOK, DownloadFile, Get, GetRange, WriteChunk, EndOfStream, RequestFails,
         StreamBreaks, AttemptFails, AttemptSucceeds
<1>2. \A g \in Files \ {f} : LengthOf(g)'
  BY <1>1 DEF Lengths, LengthOf, Spoilt
<1> QED
  BY <1>2 DEF Lengths, LengthOf

\* The steps of an attempt keep count of what is in the file.
LEMMA LengthsKept == SizesStay /\ KInv /\ [Next]_vars => Lengths'
<1> SUFFICES ASSUME SizesStay, KInv, [Next]_vars PROVE Lengths'
  OBVIOUS
<1>0. TInv /\ TInv' /\ DownloadTypeOK /\ DownloadTypeOK' /\ UnderWay /\ SizesKept /\ Lengths
  BY NextTyped DEF KInv, TInv
<1>1. CASE DownloadComponents
  BY <1>0, <1>1 DEF DownloadComponents, DownloadTypeOK, Lengths
<1>2. ASSUME NEW f \in Files, Get(f) PROVE LengthOf(f)'
  <2> DEFINE v == link[f]
             file == OpenFile(f, Size[v])
  <2>1. v \in Versions /\ Size[v] \in Nat \ {0} /\ Len(Content(v)) = Size[v] /\ Size[v] = Size[want[f]]
    BY <1>0, <1>2, ContentType DEF DownloadTypeOK, SizesKept, UnderWay, Get
  <2>2. Len(file) \in Nat
    BY <1>0, <2>1, OpenFileType
  <2>3. /\ folder'[f] = file /\ total'[f] = Size[v] /\ downloaded'[f] = Len(file)
        /\ body'[f] = (IF ranges THEN <<>> ELSE Content(v))
        /\ phase'[f] = (IF ranges THEN "range" ELSE "stream") /\ want' = want
    BY <1>0, <1>2 DEF Get, DownloadTypeOK
  <2> HIDE DEF file, v
  <2>4. phase'[f] = "stream" => downloaded'[f] + Len(body'[f]) >= total'[f]
    BY <2>1, <2>2, <2>3
  <2>5. phase'[f] \in {"range", "stream"} /\ total'[f] = Size[want'[f]] /\ downloaded'[f] <= Len(folder'[f])
    BY <2>1, <2>2, <2>3
  <2> QED
    BY <2>4, <2>5 DEF LengthOf
<1>3. ASSUME NEW f \in Files, GetRange(f) PROVE LengthOf(f)'
  <2>1. PICK x \in Answers(link[f], downloaded[f], total[f]) : body' = [body EXCEPT ![f] = x]
    BY <1>3 DEF GetRange
  <2>2. /\ downloaded[f] \in Nat /\ total[f] \in Nat \ {0} /\ downloaded[f] < total[f]
        /\ total[f] = Size[want[f]] /\ downloaded[f] <= Len(folder[f]) /\ want # Idle
        /\ link[f] \in Versions
    BY <1>0, <1>3 DEF GetRange, DownloadTypeOK, Incomplete, TInv, Lengths, UnderWay
  <2>3. total[f] = Size[link[f]]
    BY <2>2, <1>0 DEF SizesKept
  <2>4. x = <<Junk>> \/ Len(x) >= total[f] - downloaded[f]
    BY <2>1, <2>2, <2>3, AnswersLength
  <2>5. x \in Seq(Part) /\ Len(x) \in Nat
    BY <2>1, <2>2, AnswersType, LenProperties
  <2>6. body'[f] = x /\ phase'[f] = "stream" /\ UNCHANGED <<folder, want, total, downloaded>>
    BY <1>0, <1>3, <2>1 DEF GetRange, DownloadTypeOK
  <2>7. downloaded'[f] + Len(body'[f]) >= total'[f] \/ body'[f] = <<Junk>>
    BY <2>2, <2>4, <2>5, <2>6
  <2> QED
    BY <2>2, <2>6, <2>7 DEF LengthOf
<1>4. ASSUME NEW f \in Files, WriteChunk(f) PROVE LengthOf(f)'
  <2> DEFINE head == Head(body[f])
             tail == Tail(body[f])
  <2>1. /\ body[f] \in Seq(Part) /\ body[f] # <<>> /\ folder[f] \in Seq(Part) /\ phase[f] = "stream"
        /\ total[f] \in Nat /\ downloaded[f] \in Nat /\ Len(folder[f]) \in Nat
    BY <1>0, <1>4, LenProperties DEF WriteChunk, DownloadTypeOK
  <2>2. head \in Part /\ tail \in Seq(Part) /\ Len(tail) = Len(body[f]) - 1 /\ Len(body[f]) \in Nat
        /\ Len(tail) \in Nat
    BY <2>1, HeadTailProperties, LenProperties
  <2>3. /\ folder'[f] = Append(folder[f], head) /\ body'[f] = tail /\ phase'[f] = "stream"
        /\ downloaded'[f] = NewDownloaded(f) /\ UNCHANGED <<want, total>>
    BY <1>0, <1>4 DEF WriteChunk, DownloadTypeOK
  <2>4. /\ Len(folder'[f]) = Len(folder[f]) + 1 /\ folder'[f][Len(folder[f]) + 1] = head
        /\ \A i \in 1..Len(folder[f]) : folder'[f][i] = folder[f][i]
    BY <2>1, <2>2, <2>3, AppendProperties
  <2>5. /\ NewDownloaded(f) \in Nat /\ NewDownloaded(f) <= downloaded[f] + 1
        /\ (NewDownloaded(f) = downloaded[f] + 1 \/ NewDownloaded(f) = total[f])
    BY <1>0, <2>1 DEF NewDownloaded, DownloadTypeOK
  <2>6. total'[f] = Size[want'[f]] /\ downloaded'[f] <= Len(folder'[f])
    BY <1>0, <2>1, <2>3, <2>4, <2>5 DEF Lengths
  <2> HIDE DEF tail
  <2>7. CASE downloaded[f] + Len(body[f]) >= total[f]
    <3>1. downloaded'[f] + Len(body'[f]) >= total'[f]
      BY <2>1, <2>2, <2>3, <2>5, <2>7
    <3> QED
      BY <2>3, <2>6, <3>1 DEF LengthOf
  <2>8. CASE Spoilt(f) \/ body[f] = <<Junk>>
    <3>1. Spoilt(f)'
      <4>1. CASE Spoilt(f)
        <5>1. PICK i \in 1..Len(folder[f]) : folder[f][i] = Junk
          BY <4>1 DEF Spoilt
        <5>2. i \in 1..Len(folder'[f]) /\ folder'[f][i] = Junk
          BY <2>1, <2>4, <5>1
        <5> QED
          BY <5>2 DEF Spoilt
      <4>2. CASE body[f] = <<Junk>>
        <5>1. head = Junk
          BY <4>2
        <5>2. Len(folder[f]) + 1 \in 1..Len(folder'[f])
          BY <2>1, <2>4
        <5> QED
          BY <2>4, <5>1, <5>2 DEF Spoilt
      <4> QED
        BY <2>8, <4>1, <4>2
    <3> QED
      BY <2>3, <2>6, <3>1 DEF LengthOf
  <2> QED
    BY <1>0, <2>1, <2>7, <2>8 DEF Lengths
<1>5. ASSUME NEW f \in Files, EndOfStream(f) \/ RequestFails(f) \/ StreamBreaks(f) PROVE LengthOf(f)'
  <2>1. phase[f] \in {"get", "range", "stream"} /\ UNCHANGED want
    BY <1>5 DEF EndOfStream, RequestFails, StreamBreaks
  <2>2. phase'[f] \in {"get", "failed", "done"}
    BY <1>0, <1>5 DEF EndOfStream, RequestFails, StreamBreaks, AttemptFails,
       AttemptSucceeds, DownloadTypeOK
  <2>3. phase'[f] = "done" => folder'[f] = Content(want[f]) \/ Spoilt(f)'
    <3> SUFFICES ASSUME phase'[f] = "done" PROVE folder'[f] = Content(want[f]) \/ Spoilt(f)'
      OBVIOUS
    <3>1. EndOfStream(f)
      BY <1>0, <1>5 DEF RequestFails, StreamBreaks, AttemptFails, DownloadTypeOK
    <3>2. folder' = folder /\ ~(downloaded[f] >= total[f] /\ ~ChecksumMatches(f))
      BY <1>0, <3>1 DEF EndOfStream, AttemptFails, DownloadTypeOK
    <3>3. body[f] = <<>> /\ phase[f] = "stream" /\ Len(<<>>) = 0 /\ <<>> # <<Junk>>
      BY <3>1, EmptySeq DEF EndOfStream
    <3>4. downloaded[f] >= total[f] \/ Spoilt(f)
      <4>1. downloaded[f] + Len(body[f]) >= total[f] \/ Spoilt(f) \/ body[f] = <<Junk>>
        BY <1>0, <3>3 DEF Lengths
      <4>2. downloaded[f] \in Nat /\ total[f] \in Nat
        BY <1>0 DEF DownloadTypeOK
      <4>3. body[f] # <<Junk>> /\ Len(body[f]) = 0
        BY <3>3
      <4> QED
        BY <4>1, <4>2, <4>3
    <3> QED
      BY <3>2, <3>4 DEF ChecksumMatches, Spoilt
  <2> QED
    BY <2>1, <2>2, <2>3 DEF LengthOf
<1>6. CASE ReportEta \/ ReportEtaWakes \/ ReporterGoesSilent \/ JoinAll \/ UNCHANGED vars
           \/ \E f \in Files, v \in Versions : Publish(f, v)
  BY <1>0, <1>6 DEF ReportEta, ReportEtaWakes, ReporterGoesSilent, JoinAll, vars, Publish, future,
     Lengths, Spoilt
<1>7. CASE Installed \/ NotInstalled \/ Kill
  BY <1>7 DEF Installed, NotInstalled, Kill, Forget, Lengths
<1>8. ASSUME NEW f \in Files, GoesSilent(f) PROVE Lengths'
  <2>1. /\ phase' = [phase EXCEPT ![f] = "silent"]
        /\ UNCHANGED <<folder, want, total, downloaded, body>>
    BY <1>8 DEF GoesSilent
  <2> QED
    BY <1>0, <2>1 DEF DownloadTypeOK, Lengths, Spoilt
<1> QED
  BY <1>0, <1>1, <1>2, <1>3, <1>4, <1>5, <1>6, <1>7, <1>8, LengthOfOthers DEF Next, DownloadFile

\* KInv holds in every state.
LEMMA KInvHolds ==
  ASSUME SizesStay
  PROVE  Spec => []KInv
<1>1. Init => KInv
  BY InitTyped, OffWhole DEF Init, KInv, SizesKept, Lengths
<1>2. KInv /\ [Next]_vars => KInv'
  BY NextTyped, UnderWayKept, SizesKeptKept, LengthsKept DEF KInv
<1> QED
  BY <1>1, <1>2, PTL DEF Spec

\* "not deleting the contents of destination folder here allows resuming partial
\* downloads" (download_manager.rs:177): a part once written is not fetched again,
\* whatever fails and whatever is killed, if a replaced file keeps its size.
THEOREM PartsAreKeptHolds ==
  ASSUME SizesStay
  PROVE  Spec => PartsAreKept
<1> DEFINE Keeps(f) ==
             /\ ranges /\ want # Idle
             /\ want[f] = link[f]
             /\ IsStrictPrefix(folder[f], Content(want[f]))
             => IsPrefix(folder[f], folder'[f])
<1>1. ASSUME KInv, Next, NEW f \in Files PROVE Keeps(f)
  <2> SUFFICES ASSUME ranges, want # Idle, want[f] = link[f], IsStrictPrefix(folder[f], Content(want[f]))
               PROVE  IsPrefix(folder[f], folder'[f])
    OBVIOUS
  <2>0. DownloadTypeOK /\ UnderWay /\ Lengths
    BY <1>1 DEF KInv, TInv
  <2>1. /\ want[f] \in Versions /\ folder[f] \in Seq(Part) /\ Len(folder[f]) \in Nat
        /\ Len(folder[f]) < Size[want[f]] /\ Size[want[f]] \in Nat
    BY <2>0, StrictPrefixIsShorter, ContentType, LenProperties DEF DownloadTypeOK
  <2>2. folder[f] # Content(want[f]) /\ ~Spoilt(f)
    BY <2>0, <2>1, SpoiltIsNoPrefix DEF IsStrictPrefix
  <2>3. CASE folder'[f] = folder[f]
    <3>1. \E x : x \in Part
      BY DEF Part
    <3> QED
      BY <2>1, <2>3, <3>1, PrefixOfAppend
  <2>4. CASE \E g \in Files : DownloadFile(g) \/ RequestFails(g) \/ StreamBreaks(g)
    <3>1. PICK g \in Files : DownloadFile(g) \/ RequestFails(g) \/ StreamBreaks(g)
      BY <2>4
    <3>2. CASE g # f
      BY <2>0, <2>3, <3>1, <3>2 DEF DownloadTypeOK, DownloadFile, Get, GetRange, WriteChunk, EndOfStream,
         RequestFails, StreamBreaks
    <3>3. CASE g = f /\ Get(f)
      BY <2>0, <2>1, <2>3, <3>3 DEF Get, OpenFile, DownloadTypeOK
    <3>4. CASE g = f /\ WriteChunk(f)
      <4>1. folder'[f] = Append(folder[f], Head(body[f])) /\ Head(body[f]) \in Part
        BY <2>0, <3>4, HeadTailProperties DEF WriteChunk, DownloadTypeOK
      <4> QED
        BY <2>1, <4>1, PrefixOfAppend
    <3>5. CASE g = f /\ EndOfStream(f)
      <4>1. total[f] = Size[want[f]] /\ downloaded[f] <= Len(folder[f])
        BY <2>0, <3>5 DEF EndOfStream, Lengths
      <4>2. ~(downloaded[f] >= total[f])
        BY <2>0, <2>1, <4>1 DEF DownloadTypeOK
      <4> QED
        BY <2>3, <3>5, <4>2 DEF EndOfStream
    <3>6. CASE g = f /\ (GetRange(f) \/ RequestFails(f) \/ StreamBreaks(f))
      BY <2>3, <3>6 DEF GetRange, RequestFails, StreamBreaks
    <3> QED
      BY <3>1, <3>2, <3>3, <3>4, <3>5, <3>6 DEF DownloadFile
  <2>5. CASE Installed
    BY <2>0, <2>2, <2>5 DEF Installed, UnderWay, Lengths
  <2>6. CASE DownloadComponents \/ ReportEta \/ ReportEtaWakes \/ ReporterGoesSilent \/ JoinAll
             \/ NotInstalled \/ Kill \/ (\E g \in Files : GoesSilent(g))
             \/ \E g \in Files, v \in Versions : Publish(g, v)
    BY <2>3, <2>6 DEF DownloadComponents, ReportEta, ReportEtaWakes, ReporterGoesSilent, JoinAll,
       NotInstalled, Kill, GoesSilent, Publish
  <2> QED
    BY <1>1, <2>4, <2>5, <2>6 DEF Next
<1>2. KInv /\ [Next]_vars => [\A f \in Files : Keeps(f)]_vars
  BY <1>1
<1> QED
  BY <1>2, KInvHolds, PTL DEF Spec, PartsAreKept
=============================================================================
