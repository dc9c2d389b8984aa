--------------------------- MODULE MCDocumentMemory ---------------------------
EXTENDS DocumentMemory
CONSTANTS d1, d2, t1, t2, m1, m2, e1, e2, q1, q2, w1
MCDocIds == {d1, d2}
MCPieces == {[text |-> t1, embedding |-> e1], [text |-> t2, embedding |-> e2]}
MCMetadata == {m1, m2}
MCQueries == {q1, q2}
MCCosine == (q1 :> (e1 :> 2 @@ e2 :> 1)) @@ (q2 :> (e1 :> -1 @@ e2 :> -1))
MCDim == [x \in {e1, e2, q1, q2} |-> 8]
MCPreview == (t1 :> t1) @@ (t2 :> t2)
MCContains == (t1 :> {w1}) @@ (t2 :> {})
MCNonFinite == {}
MCFilters ==
  {NoFilter,
   [NoFilter EXCEPT !.docIds = {d2}],
   [NoFilter EXCEPT !.metadata = m1],
   [NoFilter EXCEPT !.needle = w1],
   [docIds |-> {d1}, metadata |-> m1, needle |-> Unset, minScore |-> 0]}
(* Lengths that differ, a long text and a NaN for the runs that ask.       *)
MixedDim == (e1 :> 8) @@ (e2 :> 4) @@ (q1 :> 8) @@ (q2 :> 8)
LongPreview == (t1 :> t1) @@ (t2 :> t1)
OneNonFinite == {e2}
=============================================================================
