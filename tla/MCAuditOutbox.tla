---------------------------- MODULE MCAuditOutbox ----------------------------
(* Instances of AuditOutbox for TLC. *)
EXTENDS AuditOutbox

CONSTANTS w1, w2
=============================================================================
