------------------------ MODULE MCManagementSigning ------------------------
(* Three requests over a ledger with room for two, up to two failing writes. *)
EXTENDS ManagementSigning

CONSTANTS r1, r2, r3

MCRequests == {r1, r2, r3}
=============================================================================
