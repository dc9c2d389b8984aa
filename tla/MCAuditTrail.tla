---------------------------- MODULE MCAuditTrail ----------------------------
(* Two kinds over a vocab of one row, so that the second kind is refused,  *)
(* and a trail of two events.                                              *)
EXTENDS AuditTrail

CONSTANTS store, forget

MCKinds == {store, forget}
=============================================================================
