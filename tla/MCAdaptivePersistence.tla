----------------------- MODULE MCAdaptivePersistence -----------------------
(* Three keys over shards of two and a vocab that two values fill.         *)
EXTENDS AdaptivePersistence

CONSTANTS k1, k2, k3, v1, v2

MCKeys == {k1, k2, k3}
MCValues == {v1, v2}
MCSeeds == {7, 42}
MCDefaultSeed == 42
=============================================================================
