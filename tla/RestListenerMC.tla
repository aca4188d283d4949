---------------------------- MODULE RestListenerMC ----------------------------
(***************************************************************************)
(* The constants of the instances of RestListener that TLC checks.         *)
(***************************************************************************)
EXTENDS RestListener

CONSTANTS s1, bad, v1, v2, w1, w2

Named(url, version) == [is |-> "whole", url |-> url, version |-> version]

\* No body, credentials with each version, a url that cannot be parsed.
Bodies ==
  {Unreadable("none"), Named(s1, v1), Named(s1, v2), Named(bad, v1)}

\* Without the last.
ProperBodies == {Unreadable("none"), Named(s1, v1), Named(s1, v2)}
================================================================================
