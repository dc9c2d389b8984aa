-------------------------- MODULE MCAdaptiveMemory --------------------------
(* Three keys over shards of two, three values over a vocab of two rows:   *)
(* full shards, partly emptied shards and a full vocab all occur.          *)
EXTENDS AdaptiveMemory

CONSTANTS k1, k2, k3, v1, v2, v3

MCKeys == {k1, k2, k3}
MCValues == {v1, v2, v3}
=============================================================================
