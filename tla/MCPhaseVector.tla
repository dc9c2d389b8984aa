----------------------------- MODULE MCPhaseVector -----------------------------
EXTENDS PhaseVector
(* 3 is refused from a seed.  From a key the third phase of 3 bits, and    *)
(* the second of 5 bits, lie across two bytes.                             *)
MCSeedWidths == {1, 2, 3, 4, 8}
MCKeyWidths == {1, 3, 4, 5}
MCMaxDim == [k \in 1 .. 8 |-> <<3, 5, 4, 3, 3, 0, 0, 2>>[k]]
MCSamples ==
  [k \in 1 .. 8 |-> CASE k = 1 -> Signs
                      [] k = 2 -> {1, 3}
                      [] k = 3 -> {0, 5, 7}
                      [] k = 4 -> {0, 6, 15}
                      [] k = 5 -> {1, 21, 31}
                      [] k = 8 -> {1, 128, 255}
                      [] OTHER -> {}]
(* The cosine of phase j of 2^k, in thousandths.  For k = 5 and k = 8 a    *)
(* triangle stands for it: equal for j and -j, as a cosine is.             *)
Triangle(n) ==
  [j \in 0 .. n - 1 |->
     LET d == IF 2 * j > n THEN n - j ELSE j IN 1000 - (4000 * d) \div n]
MCCosOf ==
  [k \in 2 .. 8 |->
     CASE k = 2 -> [j \in 0 .. 3 |-> <<1000, 0, -1000, 0>>[j + 1]]
       [] k = 3 -> [j \in 0 .. 7 |->
            <<1000, 707, 0, -707, -1000, -707, 0, 707>>[j + 1]]
       [] k = 4 -> [j \in 0 .. 15 |->
            <<1000, 924, 707, 383, 0, -383, -707, -924,
              -1000, -924, -707, -383, 0, 383, 707, 924>>[j + 1]]
       [] OTHER -> Triangle(Pow2[k])]
=============================================================================
