--------------------------- MODULE MCMemoryService ---------------------------
(* Two users, two predicates and one value.  MCSafeId gives each user a    *)
(* directory, MCSafeIdShared maps both ids to the same one.                *)
EXTENDS MemoryService

CONSTANTS alice, bob, p1, p2, v1, dirA, dirB

MCUids == {alice, bob}
MCPredicates == {p1, p2}
MCValues == {v1}
MCSafeId == [u \in MCUids |-> IF u = alice THEN dirA ELSE dirB]
MCSafeIdShared == [u \in MCUids |-> dirA]
=============================================================================
