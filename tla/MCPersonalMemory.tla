-------------------------- MODULE MCPersonalMemory --------------------------
(* Two predicates, one of them spelled in two ways, and one audit key over *)
(* shards of two; three values (one spelled in two ways) over two rows.    *)
EXTENDS PersonalMemory

CONSTANTS p1, P1, p2, a1, v1, V1, v2, store

MCKeys == {p1, P1, p2, a1}
MCAuditKeys == {a1}
MCValues == {v1, V1, v2, store}
MCUserValues == {v1, V1, v2}
MCFold == [k \in MCKeys |-> IF k = P1 THEN p1 ELSE k]
MCFoldValue == [v \in MCValues |-> IF v = V1 THEN v1 ELSE v]
=============================================================================
