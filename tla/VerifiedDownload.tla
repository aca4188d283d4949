--------------------------- MODULE VerifiedDownload ---------------------------
(***************************************************************************)
(* What run_once relies on when it calls download_manager.run: it asks for *)
(* one version of each file and is handed either all the files, each with  *)
(* the content of the version asked for, or an error.  OTAManager's        *)
(* DownloadComponents and DownloadManagerFails are these two outcomes.     *)
(***************************************************************************)
CONSTANTS
  Files,     \* the files of one download
  Versions,  \* the versions a server may ask for
  None       \* nothing asked, or nothing handed over

VARIABLES
  asked,     \* the version wanted of each file, while a download is under way
  handed     \* the version of each file that is given to the installers

Init == asked = None /\ handed = None

Ask ==
  /\ asked = None
  /\ asked' \in [Files -> Versions]
  /\ UNCHANGED handed

HandOver ==
  /\ asked # None /\ handed = None
  /\ handed' = asked
  /\ UNCHANGED asked

\* An error, a kill, or the end of the install.
End ==
  /\ asked # None
  /\ asked' = None /\ handed' = None

Next == Ask \/ HandOver \/ End

Spec == Init /\ [][Next]_<<asked, handed>>
=============================================================================
