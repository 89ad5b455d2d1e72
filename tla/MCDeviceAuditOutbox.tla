------------------------ MODULE MCDeviceAuditOutbox ------------------------
(* Up to four events in batches of at most two, an outbox with room for     *)
(* three.                                                                   *)
EXTENDS DeviceAuditOutbox

=============================================================================
