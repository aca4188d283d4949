----------------------------- MODULE RestClientMC -----------------------------
(* Servers before "nodes/self/ota", before "api/v3" and of today. *)
EXTENDS RestClient

FieldGenerations ==
  {[apis |-> {"v1"}, ota |-> FALSE], [apis |-> {"v1"}, ota |-> TRUE],
   [apis |-> {"v1", "v3"}, ota |-> TRUE]}
=============================================================================
