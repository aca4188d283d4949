------------------------------- MODULE Download -------------------------------
(***************************************************************************)
(* download_components and download of src/src/ota/download_manager.rs     *)
(* over download_file_with_callback of src/src/rest_request/mod.rs: all    *)
(* the files of a manifest are downloaded by concurrent futures of one     *)
(* executor, each with a bounded number of attempts; what an attempt wrote *)
(* stays in the download folder and the next one, of this process or of a  *)
(* later one, goes on from there.                                          *)
(*                                                                         *)
(* An attempt is two requests.  The first one gives the size and says      *)
(* whether ranges are supported; the second one asks for the range that is *)
(* missing, and its answer is appended whatever its status is.             *)
(*                                                                         *)
(* A version's content is the sequence of its numbered parts, so that a    *)
(* file put together from two versions, or with a part written twice, is   *)
(* told from a whole one, as its checksum would.  A file that is missing   *)
(* and an empty one are the same, as they are to the code.                 *)
(***************************************************************************)
EXTENDS Naturals, Sequences, FiniteSets
LOCAL INSTANCE SequencesExt

CONSTANTS
  Files,      \* the files of one download, all with different names
  Versions,   \* what the server may publish behind a file's link
  Size,       \* the number of parts of each version
  Attempts,   \* DOWNLOAD_ATTEMPTS
  Space,      \* the parts the disk has room for, without what must stay free
  NetFaults,  \* what the server and the network may do to an attempt
  Idle,       \* no download is under way
  Junk        \* a part of an error page

\* "kill"   the process is killed
\* "fail"   a request is not answered, or the first one answers with an error
\* "break"  an answer breaks off with an error
\* "whole"  a request for a range is answered with the whole file
\* "refuse" a request for a range is answered with an error page
\* "swap"   a file is replaced on the server while it is being downloaded
\* "silent" a connection goes silent: nothing comes any more, and no error either
ASSUME DownloadAssumption ==
  /\ IsFiniteSet(Files)
  /\ Size \in [Versions -> Nat \ {0}]
  /\ Attempts \in Nat \ {0}
  /\ Space \in Nat
  /\ NetFaults \subseteq {"kill", "fail", "break", "whole", "refuse", "swap", "silent"}
  /\ Idle \notin [Files -> Versions]
  /\ Junk \notin Versions \X Nat

VARIABLES
  folder,    \* folder[f]: the parts of f in the download folder
  want,      \* the version of each file the list asked for, or Idle
  phase,     \* where the future of each file is
  attempt,   \* attempt
  total,     \* total_size
  downloaded,\* downloaded
  body,      \* what is still to come of the answer
  count,     \* download_count, which keeps report_eta going
  reporter,  \* where report_eta is
  result,    \* what download_components returned, until it was made use of
  link,      \* the version behind each file's link
  ranges     \* the server supports ranges

future == <<phase, attempt, total, downloaded, body>>
vars == <<folder, want, future, count, reporter, result, link, ranges>>

Part == (Versions \X Nat) \cup {Junk}
Content(v) == [i \in 1..Size[v] |-> <<v, i>>]

Init ==
  /\ folder = [f \in Files |-> <<>>]
  /\ want = Idle
  /\ phase = [f \in Files |-> "off"]
  /\ attempt = [f \in Files |-> 1]
  /\ total = [f \in Files |-> 0]
  /\ downloaded = [f \in Files |-> 0]
  /\ body = [f \in Files |-> <<>>]
  /\ count = 0 /\ reporter = "over" /\ result = "none"
  /\ link \in [Files -> Versions]
  /\ ranges \in BOOLEAN

-----------------------------------------------------------------------------
(* download_components: the futures are made, then run together *)

Occupied == FoldFunction(+, 0, [f \in Files |-> Len(folder[f])])

\* get_file_size: the whole size, in the answer to a request for the first byte.
FileSize(f) == Size[link[f]]
Required == FoldFunction(+, 0, [f \in Files |-> FileSize(f)])

\* DiskSpaceVerifier::verify: the sizes are those of the whole files, whatever part of
\* them the folder has.
EnoughSpace == Space > Occupied + Required

\* Without the space run_once has an error, and asks again later.
DownloadComponents ==
  /\ want = Idle /\ EnoughSpace
  /\ want' = link
  /\ phase' = [f \in Files |-> "get"]
  /\ attempt' = [f \in Files |-> 1]
  /\ count' = Cardinality(Files)
  /\ reporter' = "check"
  /\ UNCHANGED <<folder, total, downloaded, body, result, link, ranges>>

\* An attempt ends with an error.
\* As a bug: a download that gives up is still counted as running.
AttemptFailsUncounted(f) ==
  /\ IF attempt[f] >= Attempts
     THEN phase' = [phase EXCEPT ![f] = "failed"] /\ UNCHANGED attempt
     ELSE /\ phase' = [phase EXCEPT ![f] = "get"]
          /\ attempt' = [attempt EXCEPT ![f] = @ + 1]
  /\ total' = [total EXCEPT ![f] = 0] /\ downloaded' = [downloaded EXCEPT ![f] = 0]
  /\ body' = [body EXCEPT ![f] = <<>>]
  /\ UNCHANGED count

AttemptFails(f) ==
  /\ IF attempt[f] >= Attempts
     THEN /\ phase' = [phase EXCEPT ![f] = "failed"]
          /\ count' = count - 1
          /\ UNCHANGED attempt
     ELSE /\ phase' = [phase EXCEPT ![f] = "get"]
          /\ attempt' = [attempt EXCEPT ![f] = @ + 1]
          /\ UNCHANGED count
  /\ total' = [total EXCEPT ![f] = 0] /\ downloaded' = [downloaded EXCEPT ![f] = 0]
  /\ body' = [body EXCEPT ![f] = <<>>]

AttemptSucceeds(f) ==
  /\ phase' = [phase EXCEPT ![f] = "done"]
  /\ count' = count - 1
  /\ total' = [total EXCEPT ![f] = 0] /\ downloaded' = [downloaded EXCEPT ![f] = 0]
  /\ body' = [body EXCEPT ![f] = <<>>]
  /\ UNCHANGED attempt

-----------------------------------------------------------------------------
(* download_file_with_callback *)

\* As a bug: the file is always created anew.
OpenAnew(f, size) == <<>>

\* A partial file is continued if ranges are supported, and thrown away if it
\* is not shorter than the whole.
OpenFile(f, size) ==
  IF ranges /\ Len(folder[f]) < size THEN folder[f] ELSE <<>>

\* The first request.  Without ranges its own answer is the file.
Get(f) ==
  /\ phase[f] = "get"
  /\ LET v == link[f]
         file == OpenFile(f, Size[v])
     IN  /\ folder' = [folder EXCEPT ![f] = file]
         /\ total' = [total EXCEPT ![f] = Size[v]]
         /\ downloaded' = [downloaded EXCEPT ![f] = Len(file)]
         /\ body' = [body EXCEPT ![f] = IF ranges THEN <<>> ELSE Content(v)]
  /\ phase' = [phase EXCEPT ![f] = IF ranges THEN "range" ELSE "stream"]
  /\ UNCHANGED <<want, attempt, count, reporter, result, link, ranges>>

\* What a server may answer to "bytes={start}-{total - 1}" of version v.
Requested(v, start, size) ==
  IF start < Size[v]
  THEN {SubSeq(Content(v), start + 1, IF size < Size[v] THEN size ELSE Size[v])}
  ELSE {<<Junk>>}
Answers(v, start, size) ==
  Requested(v, start, size)
    \cup (IF "whole" \in NetFaults THEN {Content(v)} ELSE {})
    \cup (IF "refuse" \in NetFaults THEN {<<Junk>>} ELSE {})

\* The second request.  Its status is not looked at.
GetRange(f) ==
  /\ phase[f] = "range"
  /\ \E answer \in Answers(link[f], downloaded[f], total[f]) :
       body' = [body EXCEPT ![f] = answer]
  /\ phase' = [phase EXCEPT ![f] = "stream"]
  /\ UNCHANGED <<folder, want, attempt, total, downloaded, count, reporter,
                 result, link, ranges>>

RequestFails(f) ==
  /\ "fail" \in NetFaults
  /\ phase[f] \in {"get", "range"}
  /\ AttemptFails(f)
  /\ UNCHANGED <<folder, want, reporter, result, link, ranges>>

\* As a bug: the count is not held below the size.
CountUp(f) == downloaded[f] + 1
NewDownloaded(f) == IF downloaded[f] < total[f] THEN downloaded[f] + 1 ELSE total[f]

WriteChunk(f) ==
  /\ phase[f] = "stream" /\ body[f] # <<>>
  /\ folder' = [folder EXCEPT ![f] = Append(@, Head(body[f]))]
  /\ body' = [body EXCEPT ![f] = Tail(@)]
  /\ downloaded' = [downloaded EXCEPT ![f] = NewDownloaded(f)]
  /\ UNCHANGED <<want, phase, attempt, total, count, reporter, result, link, ranges>>

StreamBreaks(f) ==
  /\ "break" \in NetFaults
  /\ phase[f] = "stream" /\ body[f] # <<>>
  /\ AttemptFails(f)
  /\ UNCHANGED <<folder, want, reporter, result, link, ranges>>

\* As a bug: the length is compared in place of the checksum.
LengthMatches(f) == Len(folder[f]) = total[f]
ChecksumMatches(f) == folder[f] = Content(want[f])

\* The checksum is compared only if as much was written as the size says.
EndOfStream(f) ==
  /\ phase[f] = "stream" /\ body[f] = <<>>
  /\ IF downloaded[f] >= total[f] /\ ~ChecksumMatches(f)
     THEN folder' = [folder EXCEPT ![f] = <<>>] /\ AttemptFails(f)
     ELSE AttemptSucceeds(f) /\ UNCHANGED folder
  /\ UNCHANGED <<want, reporter, result, link, ranges>>

\* The client has no timeout (rest_request/mod.rs:185): a request or a stream over a
\* connection that went silent is waited for until the process ends.
GoesSilent(f) ==
  /\ "silent" \in NetFaults
  /\ phase[f] \in {"get", "range"} \/ (phase[f] = "stream" /\ body[f] # <<>>)
  /\ phase' = [phase EXCEPT ![f] = "silent"]
  /\ UNCHANGED <<folder, want, attempt, total, downloaded, body, count, reporter,
                 result, link, ranges>>

-----------------------------------------------------------------------------
(* report_eta, and the end of download_components *)

\* While downloads run, a round puts the time left and then sleeps.
ReportEta ==
  /\ reporter = "check"
  /\ reporter' = IF count # 0 THEN "sleep" ELSE "over"
  /\ UNCHANGED <<folder, want, future, count, result, link, ranges>>

ReportEtaWakes ==
  /\ reporter = "sleep"
  /\ reporter' = "check"
  /\ UNCHANGED <<folder, want, future, count, result, link, ranges>>

\* Neither has the client of that put (mod.rs:149).
ReporterGoesSilent ==
  /\ "silent" \in NetFaults
  /\ reporter = "check" /\ count # 0
  /\ reporter' = "silent"
  /\ UNCHANGED <<folder, want, future, count, result, link, ranges>>

\* join_all: every download and the reporter are over.
JoinAll ==
  /\ want # Idle /\ result = "none"
  /\ \A f \in Files : phase[f] \in {"done", "failed"}
  /\ reporter = "over"
  /\ result' = IF \A f \in Files : phase[f] = "done" THEN "files" ELSE "error"
  /\ UNCHANGED <<folder, want, future, count, reporter, link, ranges>>

\* Back to the state in which run_once asks again.
Forget ==
  /\ want' = Idle /\ result' = "none"
  /\ phase' = [f \in Files |-> "off"]
  /\ attempt' = [f \in Files |-> 1]
  /\ total' = [f \in Files |-> 0]
  /\ downloaded' = [f \in Files |-> 0]
  /\ body' = [f \in Files |-> <<>>]
  /\ count' = 0 /\ reporter' = "over"

\* run_once clears the folder after a complete install, and only then.
Installed ==
  /\ result = "files"
  /\ folder' = [f \in Files |-> <<>>]
  /\ Forget
  /\ UNCHANGED <<link, ranges>>

NotInstalled ==
  /\ result \in {"files", "error"}
  /\ Forget
  /\ UNCHANGED <<folder, link, ranges>>

-----------------------------------------------------------------------------
(* Outside *)

Kill ==
  /\ "kill" \in NetFaults
  /\ want # Idle
  /\ Forget
  /\ UNCHANGED <<folder, link, ranges>>

Publish(f, v) ==
  /\ v # link[f]
  /\ want = Idle \/ "swap" \in NetFaults
  /\ link' = [link EXCEPT ![f] = v]
  /\ UNCHANGED <<folder, want, future, count, reporter, result, ranges>>

DownloadFile(f) == Get(f) \/ GetRange(f) \/ WriteChunk(f) \/ EndOfStream(f)

Next ==
  \/ DownloadComponents
  \/ \E f \in Files : DownloadFile(f)
  \/ \E f \in Files : RequestFails(f) \/ StreamBreaks(f) \/ GoesSilent(f)
  \/ ReportEta \/ ReportEtaWakes \/ ReporterGoesSilent
  \/ JoinAll
  \/ Installed \/ NotInstalled
  \/ Kill
  \/ \E f \in Files, v \in Versions : Publish(f, v)

Spec == Init /\ [][Next]_vars

\* join_all polls every future that can go on, and run_once asks again.  A future whose
\* connection went silent can not: it has no action of its own.
FairSpec ==
  /\ Spec
  /\ WF_vars(DownloadComponents) /\ WF_vars(JoinAll) /\ WF_vars(NotInstalled)
  /\ WF_vars(ReportEta) /\ WF_vars(ReportEtaWakes)
  /\ \A f \in Files : WF_vars(DownloadFile(f))

-----------------------------------------------------------------------------
(* Properties *)

\* Every variable has its type, and the progress reported for a file never
\* passes its size, whatever the server sends.
DownloadTypeOK ==
  /\ folder \in [Files -> Seq(Part)]
  /\ want \in [Files -> Versions] \cup {Idle}
  /\ phase \in [Files -> {"off", "get", "range", "stream", "silent", "done", "failed"}]
  /\ attempt \in [Files -> 1..Attempts]
  /\ total \in [Files -> Nat] /\ downloaded \in [Files -> Nat]
  /\ \A f \in Files : downloaded[f] <= total[f]
  /\ body \in [Files -> Seq(Part)]
  /\ count \in Nat
  /\ reporter \in {"check", "sleep", "silent", "over"}
  /\ result \in {"none", "files", "error"}
  /\ link \in [Files -> Versions] /\ ranges \in BOOLEAN

\* "Download was successful for {:?}" (download_manager.rs:280): what is given to
\* the installers has the content whose checksum the list gave.
DownloadedIsWhole ==
  result = "files" => \A f \in Files : folder[f] = Content(want[f])

\* The download manager keeps run_once's expectation: all the files asked for,
\* or an error.
VersionIn(f) == IF \E v \in Versions : folder[f] = Content(v)
                THEN CHOOSE v \in Versions : folder[f] = Content(v)
                ELSE Junk
Promise == INSTANCE VerifiedDownload WITH
  None <- Idle,
  asked <- want,
  handed <- IF result = "files" THEN [f \in Files |-> VersionIn(f)] ELSE Idle
KeepsPromise == Promise!Spec

\* "not deleting the contents of destination folder here allows resuming partial
\* downloads" (download_manager.rs:177): as long as the server supports ranges
\* and still publishes that version, a part once written is never fetched again,
\* over failed attempts, given up downloads and kills.
PartsAreKept ==
  [][\A f \in Files :
       /\ ranges /\ want # Idle
       /\ want[f] = link[f]
       /\ IsStrictPrefix(folder[f], Content(want[f]))
       => IsPrefix(folder[f], folder'[f])]_vars

Disturbance ==
  \/ \E f \in Files : RequestFails(f) \/ StreamBreaks(f) \/ GoesSilent(f)
  \/ ReporterGoesSilent
  \/ Kill /\ ~NotInstalled
  \/ \E f \in Files, v \in Versions : Publish(f, v)

\* A connection that went silent is being waited for.
Silent == reporter = "silent" \/ \E f \in Files : phase[f] = "silent"

\* Whatever is left in the folder by attempts, kills and replaced versions: once
\* the requests are answered and the links stay, every download is completed, with
\* two exceptions.  What is left may take the space the whole files are said to need:
\* it is never cleared away then, and every download is refused (download_manager.rs:177,
\* disk_space_verifier.rs:32-45).  And a connection may have gone silent before the
\* network was quiet: the clients have no timeout (rest_request/mod.rs:149, 185), and
\* join_all waits for it until the process is killed.
FilesArrive ==
  <>[][~Disturbance]_vars =>
    \/ []<>(result = "files")
    \/ <>[](want = Idle /\ ~EnoughSpace)
    \/ <>[]Silent

-----------------------------------------------------------------------------
(* What the code says of itself and does not do *)

\* "not deleting the contents of destination folder here allows resuming partial
\* downloads" (download_manager.rs:177): files that were admitted, and are still
\* those that are published, are admitted again after a kill or a failure.
ResumeIsAdmitted ==
  [][want # Idle /\ want = link /\ want' = Idle => EnoughSpace']_vars
=============================================================================
