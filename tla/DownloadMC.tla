------------------------------ MODULE DownloadMC ------------------------------
(***************************************************************************)
(* The constants of the instances of Download that TLC checks.             *)
(***************************************************************************)
EXTENDS Download, TLC

CONSTANTS va, vb

TwoVersions == {va, vb}
SameSize == va :> 2 @@ vb :> 2
OtherSize == va :> 2 @@ vb :> 1
==============================================================================
