------------------------------- MODULE StartupMC -------------------------------
(* A configuration that keeps logs for less time than the default one, and a machine *)
(* west of UTC by a unit of the model's days. *)
EXTENDS Startup

ShortConfig == {[level |-> "error", retention |-> 0]}
West == -1
=============================================================================
