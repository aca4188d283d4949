--------------------------- MODULE LogSubmissionMC ----------------------------
(* Two reporting threads, interchangeable: the properties name no thread. *)
EXTENDS LogSubmission, TLC

CONSTANTS t1, t2

TwoReporters == {t1, t2}
Interchangeable == Permutations(TwoReporters)
=============================================================================
