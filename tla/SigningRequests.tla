--------------------------- MODULE SigningRequests ---------------------------
(* The identities of signing requests, shared by every component that names *)
(* one: the session registry, the durable ledger and the signing adapter.   *)

CONSTANT Requests

=============================================================================
