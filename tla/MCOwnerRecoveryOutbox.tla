----------------------- MODULE MCOwnerRecoveryOutbox -----------------------
(* A small instance of OwnerRecoveryOutbox; see MCOwnerRecoveryOutbox.cfg.  *)
EXTENDS OwnerRecoveryOutbox
=============================================================================
