----------------------------- MODULE SeqLemmas -----------------------------
(***************************************************************************)
(* Induction over the natural numbers and over finite sets, loops as       *)
(* recursive functions, FlattenSeq, and sums, for the proofs of this       *)
(* project.  Statements quantify over sets and functions instead of        *)
(* operators, so that they can be cited with ones defined on the spot.     *)
(***************************************************************************)
EXTENDS SequencesExt, Integers, WellFoundedInduction, SequenceTheorems, FiniteSetTheorems,
        TLAPS

(* Every non-empty set of natural numbers has a least element.             *)
LEMMA NatLeast ==
  ASSUME NEW T, T \subseteq Nat, T # {}
  PROVE  \E x \in T : \A y \in T : ~(y < x)
<1> DEFINE R == OpToRel(<, Nat)
<1>1. IsWellFoundedOn(R, Nat)
  BY NatLessThanWellFounded
<1>2. \A x, y \in Nat : y < x => <<y, x>> \in R
  BY DEF OpToRel
<1> HIDE DEF R
<1>3. PICK x \in T : \A y \in T : ~(<<y, x>> \in R)
  BY <1>1, WFMin, Zenon
<1>4. \A y \in T : ~(y < x)
  BY <1>2, <1>3
<1> QED BY <1>4

(* A set that holds 0 and the successor of each of its elements holds      *)
(* every natural number.                                                   *)
LEMMA SetInduction ==
  ASSUME NEW S, 0 \in S, \A n \in Nat : n \in S => n + 1 \in S
  PROVE  \A n \in Nat : n \in S
<1> SUFFICES ASSUME Nat \ S # {} PROVE FALSE
  OBVIOUS
<1>1. PICK x \in Nat \ S : \A y \in Nat \ S : ~(y < x)
  BY NatLeast
<1>2. x # 0 /\ x - 1 \in Nat
  BY <1>1
<1>3. x - 1 \in S
  BY <1>1, <1>2
<1>4. (x - 1) + 1 \in S
  BY <1>2, <1>3
<1> QED BY <1>1, <1>4

-----------------------------------------------------------------------------
(* The values after each round of a loop that starts from a and goes from  *)
(* x to g[i][x] in round i.                                                *)
Runs(n, S, a, g) ==
  {f \in [0 .. n -> S] : f[0] = a /\ \A i \in 1 .. n : f[i] = g[i][f[i - 1]]}

(* Such a loop has a value after every round.                              *)
LEMMA LoopExists ==
  ASSUME NEW n \in Nat, NEW S, NEW a \in S, NEW g \in [1 .. n -> [S -> S]]
  PROVE  Runs(n, S, a, g) # {}
<1> DEFINE Up(f, j) == f[0] = a /\ \A i \in 1 .. j : f[i] = g[i][f[i - 1]]
           Ok == {j \in Nat : j <= n => \E f \in [0 .. j -> S] : Up(f, j)}
<1>1. 0 \in Ok
  <2> DEFINE f == [i \in 0 .. 0 |-> a]
  <2>1. f \in [0 .. 0 -> S] /\ Up(f, 0)
    OBVIOUS
  <2> QED BY <2>1
<1>2. ASSUME NEW j \in Nat, j \in Ok PROVE j + 1 \in Ok
  <2> SUFFICES ASSUME j + 1 <= n
               PROVE  \E f \in [0 .. j + 1 -> S] : Up(f, j + 1)
    OBVIOUS
  <2>1. PICK f \in [0 .. j -> S] : Up(f, j)
    BY <1>2
  <2> DEFINE e == g[j + 1][f[j]]
             h == [i \in 0 .. j + 1 |-> IF i = j + 1 THEN e ELSE f[i]]
  <2>2. e \in S
    OBVIOUS
  <2> HIDE DEF e
  <2>3. h \in [0 .. j + 1 -> S]
    BY <2>2
  <2>4. h[0] = a
    BY <2>1
  <2>5. ASSUME NEW i \in 1 .. j + 1
        PROVE  h[i] = g[i][h[i - 1]]
    <3>1. CASE i = j + 1
      <4>1. h[i] = e /\ i - 1 = j /\ h[j] = f[j]
        BY <3>1
      <4> HIDE DEF h
      <4> QED BY <3>1, <4>1 DEF e
    <3>2. CASE i # j + 1
      <4>1. i \in 1 .. j /\ h[i] = f[i] /\ h[i - 1] = f[i - 1]
        BY <3>2
      <4> QED BY <2>1, <4>1
    <3> QED BY <3>1, <3>2
  <2> HIDE DEF h
  <2> QED BY <2>3, <2>4, <2>5
<1>3. n \in Ok
  <2> HIDE DEF Ok
  <2> QED BY <1>1, <1>2, SetInduction
<1> QED BY <1>3 DEF Runs

-----------------------------------------------------------------------------
(* FlattenSeq is the loop that appends one sequence after the other.       *)
LEMMA FlattenLoop ==
  ASSUME NEW T, NEW ss \in Seq(Seq(T))
  PROVE  \E f \in [0 .. Len(ss) -> Seq(T)] :
           /\ f[0] = <<>>
           /\ \A i \in 1 .. Len(ss) : f[i] = f[i - 1] \o ss[i]
           /\ FlattenSeq(ss) = f[Len(ss)]
<1> DEFINE n == Len(ss)
           g == [i \in 1 .. n |-> [t \in Seq(T) |-> t \o ss[i]]]
<1>0. n \in Nat /\ <<>> \in Seq(T) /\ \A i \in 1 .. n : ss[i] \in Seq(T)
  OBVIOUS
<1>1. g \in [1 .. n -> [Seq(T) -> Seq(T)]]
  BY <1>0
<1>2. PICK f \in [0 .. n -> Seq(T)] :
        f[0] = <<>> /\ \A i \in 1 .. n : f[i] = g[i][f[i - 1]]
  <2> DEFINE S == Seq(T)
             a == <<>>
  <2>1. n \in Nat /\ a \in S /\ g \in [1 .. n -> [S -> S]]
    BY <1>0, <1>1
  <2> HIDE DEF g, n, S, a
  <2>2. Runs(n, S, a, g) # {}
    BY <2>1, LoopExists
  <2> QED BY <2>2 DEF Runs, S, a
<1>3. \A i \in 1 .. n : f[i] = f[i - 1] \o ss[i]
  <2> TAKE i \in 1 .. n
  <2>1. f[i - 1] \in Seq(T)
    OBVIOUS
  <2> QED BY <1>2, <2>1
<1> HIDE DEF g
<1>4. CASE n = 0
  <2>1. FlattenSeq(ss) = ss /\ ss = <<>>
    BY <1>4 DEF FlattenSeq
  <2> QED BY <1>2, <1>3, <1>4, <2>1
<1>5. CASE n # 0
  <2> DEFINE Body(h, i) == IF i = 1 THEN ss[i] ELSE h[i - 1] \o ss[i]
             c == CHOOSE h : h = [i \in 1 .. n |-> Body(h, i)]
             p == [i \in 1 .. n |-> f[i]]
  <2>1. FlattenSeq(ss) = c[n]
    BY <1>5 DEF FlattenSeq
  <2>2. \A i \in 1 .. n : p[i] = Body(p, i)
    <3> TAKE i \in 1 .. n
    <3>1. CASE i = 1
      <4>1. 1 \in 1 .. n /\ 1 - 1 = 0
        BY <1>0, <1>5
      <4>2. f[1] = <<>> \o ss[1]
        BY <1>2, <1>3, <4>1
      <4> QED BY <1>0, <3>1, <4>1, <4>2, ConcatEmptySeq
    <3>2. CASE i # 1
      <4>1. i - 1 \in 1 .. n
        BY <3>2
      <4> QED BY <1>3, <3>2, <4>1
    <3> QED BY <3>1, <3>2
  <2>3. p = [i \in 1 .. n |-> Body(p, i)]
    <3>1. p = [i \in 1 .. n |-> p[i]]
      OBVIOUS
    <3> HIDE DEF Body, p
    <3> QED BY <2>2, <3>1
  <2>4. c = [i \in 1 .. n |-> Body(c, i)]
    <3> HIDE DEF Body, p
    <3> QED BY <2>3, Zenon
  <2> HIDE DEF c
  <2> DEFINE Ok == {i \in Nat : i \in 1 .. n => c[i] = f[i]}
  <2>5. 0 \in Ok
    OBVIOUS
  <2>6. ASSUME NEW i \in Nat, i \in Ok PROVE i + 1 \in Ok
    <3> SUFFICES ASSUME i + 1 \in 1 .. n PROVE c[i + 1] = f[i + 1]
      OBVIOUS
    <3>1. c[i + 1] = Body(c, i + 1)
      BY <2>4
    <3>2. CASE i = 0
      <4>1. c[1] = ss[1]
        BY <3>1, <3>2
      <4>2. 1 \in 1 .. n /\ 1 - 1 = 0
        BY <1>0, <1>5
      <4>3. f[1] = <<>> \o ss[1]
        BY <1>2, <1>3, <4>2
      <4> QED BY <1>0, <3>2, <4>1, <4>2, <4>3, ConcatEmptySeq
    <3>3. CASE i # 0
      <4>1. c[i] = f[i]
        BY <2>6, <3>3
      <4>2. (i + 1) - 1 = i /\ i + 1 # 1
        BY <3>3
      <4>3. c[i + 1] = c[i] \o ss[i + 1]
        BY <3>1, <4>2
      <4> QED BY <1>3, <4>1, <4>2, <4>3
    <3> QED BY <3>2, <3>3
  <2>7. n \in Ok
    <3> HIDE DEF Ok
    <3> QED BY <1>0, <2>5, <2>6, SetInduction
  <2>8. c[n] = f[n]
    BY <1>0, <1>5, <2>7
  <2> QED BY <1>2, <1>3, <2>1, <2>8
<1> QED BY <1>4, <1>5

(* Flattening yields a sequence of the elements' type.                     *)
LEMMA FlattenType ==
  ASSUME NEW T, NEW ss \in Seq(Seq(T))
  PROVE  FlattenSeq(ss) \in Seq(T)
<1>1. PICK f \in [0 .. Len(ss) -> Seq(T)] : FlattenSeq(ss) = f[Len(ss)]
  BY FlattenLoop
<1> QED BY <1>1

(* One more sequence at the end is appended to the flattened ones.         *)
LEMMA FlattenAppend ==
  ASSUME NEW T, NEW ss \in Seq(Seq(T)), NEW t \in Seq(T)
  PROVE  FlattenSeq(Append(ss, t)) = FlattenSeq(ss) \o t
<1> DEFINE n  == Len(ss)
           uu == Append(ss, t)
<1>1. PICK f \in [0 .. n -> Seq(T)] :
        /\ f[0] = <<>>
        /\ \A i \in 1 .. n : f[i] = f[i - 1] \o ss[i]
        /\ FlattenSeq(ss) = f[n]
  BY FlattenLoop
<1>2. /\ uu \in Seq(Seq(T)) /\ Len(uu) = n + 1 /\ n \in Nat
      /\ \A i \in 1 .. n : uu[i] = ss[i]
      /\ uu[n + 1] = t
  BY AppendProperties
<1> HIDE DEF uu
<1>3. PICK h \in [0 .. Len(uu) -> Seq(T)] :
        /\ h[0] = <<>>
        /\ \A i \in 1 .. Len(uu) : h[i] = h[i - 1] \o uu[i]
        /\ FlattenSeq(uu) = h[Len(uu)]
  BY <1>2, FlattenLoop
<1> HIDE DEF n
<1> DEFINE Ok == {i \in Nat : i <= n => h[i] = f[i]}
<1>4. 0 \in Ok
  BY <1>1, <1>3
<1>5. ASSUME NEW i \in Nat, i \in Ok PROVE i + 1 \in Ok
  <2> SUFFICES ASSUME i + 1 <= n PROVE h[i + 1] = f[i + 1]
    OBVIOUS
  <2>1. i + 1 \in 1 .. n /\ i + 1 \in 1 .. Len(uu) /\ (i + 1) - 1 = i
    BY <1>2
  <2>2. h[i + 1] = h[i] \o uu[i + 1] /\ f[i + 1] = f[i] \o ss[i + 1]
    BY <1>1, <1>3, <2>1
  <2>3. h[i] = f[i] /\ uu[i + 1] = ss[i + 1]
    BY <1>2, <1>5, <2>1
  <2> QED BY <2>2, <2>3
<1>6. n \in Ok
  <2> HIDE DEF Ok
  <2> QED BY <1>2, <1>4, <1>5, SetInduction
<1>7. h[n + 1] = h[n] \o t /\ h[n] = f[n]
  <2>1. n + 1 \in 1 .. Len(uu) /\ (n + 1) - 1 = n
    BY <1>2
  <2>2. h[n + 1] = h[n] \o t
    BY <1>2, <1>3, <2>1
  <2>3. h[n] = f[n]
    BY <1>2, <1>6
  <2> QED BY <2>2, <2>3
<1>8. FlattenSeq(uu) = FlattenSeq(ss) \o t
  BY <1>1, <1>2, <1>3, <1>7
<1> QED BY <1>8 DEF uu

(* Concatenating two sequences without repetitions and without a common    *)
(* element makes no repetition.                                            *)
LEMMA ConcatInjective ==
  ASSUME NEW T, NEW s \in Seq(T), NEW t \in Seq(T),
         IsInjective(s), IsInjective(t), Range(s) \cap Range(t) = {}
  PROVE  IsInjective(s \o t)
<1> DEFINE u == s \o t
           a == Len(s)
           b == Len(t)
<1>1. /\ a \in Nat /\ b \in Nat /\ DOMAIN s = 1 .. a /\ DOMAIN t = 1 .. b
      /\ DOMAIN u = 1 .. a + b
      /\ \A i \in 1 .. a : u[i] = s[i]
      /\ \A i \in a + 1 .. a + b : i - a \in 1 .. b /\ u[i] = t[i - a]
  <2>1. /\ u \in Seq(T) /\ Len(u) = a + b
        /\ \A i \in 1 .. a + b : u[i] = IF i <= a THEN s[i] ELSE t[i - a]
    BY ConcatProperties
  <2> HIDE DEF u
  <2> QED BY <2>1
<1>2. /\ \A i, j \in 1 .. a : s[i] = s[j] => i = j
      /\ \A i, j \in 1 .. b : t[i] = t[j] => i = j
  BY <1>1 DEF IsInjective
<1>3. \A i \in 1 .. a, j \in 1 .. b : s[i] # t[j]
  BY <1>1 DEF Range
<1> HIDE DEF u, a, b
<1>4. ASSUME NEW i \in 1 .. a + b, NEW j \in 1 .. a + b, u[i] = u[j]
      PROVE  i = j
  <2>1. CASE i \in 1 .. a /\ j \in 1 .. a
    BY <1>1, <1>2, <1>4, <2>1
  <2>2. CASE i \in a + 1 .. a + b /\ j \in a + 1 .. a + b
    <3>1. t[i - a] = t[j - a] /\ i - a \in 1 .. b /\ j - a \in 1 .. b
      BY <1>1, <1>4, <2>2
    <3>2. i - a = j - a
      BY <1>2, <3>1
    <3> QED BY <1>1, <3>2
  <2>3. CASE i \in 1 .. a /\ j \in a + 1 .. a + b
    BY <1>1, <1>3, <1>4, <2>3
  <2>4. CASE i \in a + 1 .. a + b /\ j \in 1 .. a
    BY <1>1, <1>3, <1>4, <2>4
  <2> QED BY <1>1, <2>1, <2>2, <2>3, <2>4
<1>5. IsInjective(u)
  BY <1>1, <1>4 DEF IsInjective
<1> QED BY <1>5 DEF u

(* What is flattened holds the elements of every part, each once when no   *)
(* part repeats one and no two parts share one.                            *)
LEMMA FlattenRange ==
  ASSUME NEW T, NEW ss \in Seq(Seq(T)),
         \A i \in DOMAIN ss : IsInjective(ss[i]),
         \A i, j \in DOMAIN ss : i # j => Range(ss[i]) \cap Range(ss[j]) = {}
  PROVE  /\ IsInjective(FlattenSeq(ss))
         /\ \A x : x \in Range(FlattenSeq(ss)) <=> \E i \in DOMAIN ss : x \in Range(ss[i])
<1> DEFINE n == Len(ss)
<1>1. PICK f \in [0 .. n -> Seq(T)] :
        /\ f[0] = <<>>
        /\ \A i \in 1 .. n : f[i] = f[i - 1] \o ss[i]
        /\ FlattenSeq(ss) = f[n]
  BY FlattenLoop
<1>2. n \in Nat /\ DOMAIN ss = 1 .. n /\ \A i \in 1 .. n : ss[i] \in Seq(T)
  OBVIOUS
<1> HIDE DEF n
<1> DEFINE Good(i) == /\ IsInjective(f[i])
                      /\ \A x : x \in Range(f[i]) <=> \E j \in 1 .. i : x \in Range(ss[j])
           Ok == {i \in Nat : i <= n => Good(i)}
<1>3. 0 \in Ok
  <2>1. IsInjective(<<>>) /\ Range(<<>>) = {}
    BY DEF IsInjective, Range
  <2>2. Good(0)
    BY <1>1, <2>1
  <2> QED BY <2>2
<1>4. ASSUME NEW i \in Nat, i \in Ok PROVE i + 1 \in Ok
  <2> SUFFICES ASSUME i + 1 <= n PROVE Good(i + 1)
    OBVIOUS
  <2>1. /\ i + 1 \in 1 .. n /\ (i + 1) - 1 = i /\ i \in 0 .. n
        /\ \A j \in 1 .. i : j \in 1 .. n /\ j # i + 1
    BY <1>2
  <2>2. f[i] \in Seq(T) /\ ss[i + 1] \in Seq(T) /\ f[i + 1] = f[i] \o ss[i + 1]
    BY <1>1, <1>2, <2>1
  <2>3. Good(i)
    BY <1>4, <2>1
  <2>4. Range(f[i]) \cap Range(ss[i + 1]) = {}
    <3> SUFFICES ASSUME NEW x \in Range(f[i]), x \in Range(ss[i + 1]) PROVE FALSE
      OBVIOUS
    <3>1. PICK j \in 1 .. i : x \in Range(ss[j])
      BY <2>3
    <3>2. j \in DOMAIN ss /\ i + 1 \in DOMAIN ss /\ j # i + 1
      BY <1>2, <2>1
    <3> QED BY <3>1, <3>2
  <2>5. IsInjective(f[i + 1])
    <3>1. IsInjective(ss[i + 1]) /\ IsInjective(f[i])
      BY <1>2, <2>1, <2>3
    <3> QED BY <2>2, <2>4, <3>1, ConcatInjective
  <2>6. Range(f[i + 1]) = Range(f[i]) \cup Range(ss[i + 1])
    BY <2>2, RangeConcatenation
  <2>7. \A j : j \in 1 .. i + 1 <=> j \in 1 .. i \/ j = i + 1
    OBVIOUS
  <2>8. \A x : x \in Range(f[i + 1]) <=> \E j \in 1 .. i + 1 : x \in Range(ss[j])
    <3>1. \A x : x \in Range(f[i]) <=> \E j \in 1 .. i : x \in Range(ss[j])
      BY <2>3
    <3> QED BY <2>6, <2>7, <3>1
  <2> QED BY <2>5, <2>8
<1>5. n \in Ok
  <2> HIDE DEF Ok
  <2> QED BY <1>2, <1>3, <1>4, SetInduction
<1>6. Good(n)
  BY <1>2, <1>5
<1> QED BY <1>1, <1>2, <1>6

(* Mapping the elements of every part maps the elements of what is         *)
(* flattened.                                                              *)
LEMMA FlattenMap ==
  ASSUME NEW T, NEW U, NEW ss \in Seq(Seq(T)), NEW tt \in Seq(Seq(U)),
         NEW G \in [T -> U], Len(tt) = Len(ss),
         \A i \in 1 .. Len(ss) : /\ Len(tt[i]) = Len(ss[i])
                                  /\ \A j \in 1 .. Len(ss[i]) : tt[i][j] = G[ss[i][j]]
  PROVE  /\ Len(FlattenSeq(tt)) = Len(FlattenSeq(ss))
         /\ \A j \in 1 .. Len(FlattenSeq(ss)) : FlattenSeq(tt)[j] = G[FlattenSeq(ss)[j]]
<1> DEFINE n == Len(ss)
<1>1. PICK f \in [0 .. n -> Seq(T)] :
        /\ f[0] = <<>>
        /\ \A i \in 1 .. n : f[i] = f[i - 1] \o ss[i]
        /\ FlattenSeq(ss) = f[n]
  BY FlattenLoop
<1>2. PICK h \in [0 .. Len(tt) -> Seq(U)] :
        /\ h[0] = <<>>
        /\ \A i \in 1 .. Len(tt) : h[i] = h[i - 1] \o tt[i]
        /\ FlattenSeq(tt) = h[Len(tt)]
  BY FlattenLoop
<1>3. /\ n \in Nat /\ Len(tt) = n
      /\ \A i \in 1 .. n : ss[i] \in Seq(T) /\ tt[i] \in Seq(U)
  OBVIOUS
<1>4. \A i \in 1 .. n : /\ Len(tt[i]) = Len(ss[i])
                        /\ \A j \in 1 .. Len(ss[i]) : tt[i][j] = G[ss[i][j]]
  OBVIOUS
<1> HIDE DEF n
<1> DEFINE Good(i) == /\ Len(h[i]) = Len(f[i])
                      /\ \A j \in 1 .. Len(f[i]) : h[i][j] = G[f[i][j]]
           Ok == {i \in Nat : i <= n => Good(i)}
<1>5. 0 \in Ok
  BY <1>1, <1>2
<1>6. ASSUME NEW i \in Nat, i \in Ok PROVE i + 1 \in Ok
  <2> SUFFICES ASSUME i + 1 <= n PROVE Good(i + 1)
    OBVIOUS
  <2> DEFINE s1 == f[i]
             s2 == ss[i + 1]
             t1 == h[i]
             t2 == tt[i + 1]
  <2>1. i + 1 \in 1 .. n /\ (i + 1) - 1 = i /\ i \in 0 .. n
    BY <1>3
  <2>2. f[i + 1] = s1 \o s2 /\ h[i + 1] = t1 \o t2
    BY <1>1, <1>2, <1>3, <2>1
  <2>3. /\ s1 \in Seq(T) /\ s2 \in Seq(T) /\ t1 \in Seq(U) /\ t2 \in Seq(U)
        /\ Len(t1) = Len(s1) /\ \A j \in 1 .. Len(s1) : t1[j] = G[s1[j]]
        /\ Len(t2) = Len(s2) /\ \A j \in 1 .. Len(s2) : t2[j] = G[s2[j]]
    <3>1. s1 \in Seq(T) /\ s2 \in Seq(T) /\ t1 \in Seq(U) /\ t2 \in Seq(U)
      BY <1>3, <2>1
    <3>2. Good(i)
      BY <1>6, <2>1
    <3> QED BY <1>4, <2>1, <3>1, <3>2
  <2> HIDE DEF s1, s2, t1, t2
  <2>4. /\ Len(s1 \o s2) = Len(s1) + Len(s2)
        /\ \A j \in 1 .. Len(s1) + Len(s2) :
             (s1 \o s2)[j] = IF j <= Len(s1) THEN s1[j] ELSE s2[j - Len(s1)]
    BY <2>3, ConcatProperties
  <2>5. /\ Len(t1 \o t2) = Len(t1) + Len(t2)
        /\ \A j \in 1 .. Len(t1) + Len(t2) :
             (t1 \o t2)[j] = IF j <= Len(t1) THEN t1[j] ELSE t2[j - Len(t1)]
    <3>1. t1 \in Seq(U) /\ t2 \in Seq(U)
      BY <2>3
    <3> QED BY ONLY <3>1, ConcatProperties
  <2>6. Len(s1) \in Nat /\ Len(s2) \in Nat
    BY <2>3
  <2>7. ASSUME NEW j \in 1 .. Len(s1) + Len(s2)
        PROVE  (t1 \o t2)[j] = G[(s1 \o s2)[j]]
    <3>1. CASE j <= Len(s1)
      BY <2>3, <2>4, <2>5, <2>6, <3>1
    <3>2. CASE ~(j <= Len(s1))
      <4>1. j - Len(s1) \in 1 .. Len(s2)
        BY <2>6, <3>2
      <4>2. (t1 \o t2)[j] = t2[j - Len(s1)] /\ (s1 \o s2)[j] = s2[j - Len(s1)]
        BY <2>3, <2>4, <2>5, <2>6, <3>2
      <4> QED BY <2>3, <4>1, <4>2
    <3> QED BY <3>1, <3>2
  <2> QED BY <2>2, <2>3, <2>4, <2>5, <2>7
<1>7. n \in Ok
  <2> HIDE DEF Ok
  <2> QED BY <1>3, <1>5, <1>6, SetInduction
<1>8. Good(n)
  BY <1>3, <1>7
<1> QED BY <1>1, <1>2, <1>3, <1>8

(* An element appended to the last part is appended to what is flattened.  *)
LEMMA FlattenLast ==
  ASSUME NEW T, NEW ss \in Seq(Seq(T)), Len(ss) # 0, NEW x \in T
  PROVE  FlattenSeq([ss EXCEPT ![Len(ss)] = Append(@, x)]) = Append(FlattenSeq(ss), x)
<1> DEFINE n     == Len(ss)
           front == [i \in 1 .. n - 1 |-> ss[i]]
           last  == ss[n]
           tt    == [ss EXCEPT ![n] = Append(@, x)]
<1>1. /\ n \in Nat /\ n >= 1 /\ DOMAIN ss = 1 .. n
      /\ \A i \in 1 .. n : ss[i] \in Seq(T)
  OBVIOUS
<1> HIDE DEF n
<1>2. last \in Seq(T) /\ Append(last, x) \in Seq(T) /\ <<x>> \in Seq(T)
  BY <1>1
<1>3. front \in Seq(Seq(T)) /\ Len(front) = n - 1
  BY <1>1
<1>4. ASSUME NEW t \in Seq(T), NEW uu, DOMAIN uu = 1 .. n, uu = [i \in 1 .. n |-> uu[i]],
             \A i \in 1 .. n - 1 : uu[i] = ss[i], uu[n] = t
      PROVE  uu = Append(front, t)
  <2> DEFINE vv == Append(front, t)
  <2>1. /\ vv \in Seq(Seq(T)) /\ Len(vv) = n
        /\ \A i \in 1 .. n - 1 : vv[i] = front[i]
        /\ vv[n] = t
    <3>1. Len(front) + 1 = n
      BY <1>1, <1>3
    <3> HIDE DEF front
    <3> QED BY <1>3, <1>4, <3>1, AppendProperties
  <2>2. \A i \in 1 .. n : vv[i] = uu[i]
    <3>1. \A i \in 1 .. n - 1 : front[i] = ss[i]
      OBVIOUS
    <3>2. \A i \in 1 .. n : i \in 1 .. n - 1 \/ i = n
      BY <1>1
    <3> HIDE DEF vv, front
    <3> QED BY <1>4, <2>1, <3>1, <3>2
  <2>3. DOMAIN vv = 1 .. n /\ vv = [i \in 1 .. n |-> vv[i]]
    <3> HIDE DEF vv
    <3> QED BY <2>1
  <2> HIDE DEF vv
  <2>4. uu = vv
    BY <1>4, <2>2, <2>3
  <2> QED BY <2>4 DEF vv
<1>5. ss = Append(front, last)
  <2>1. ss = [i \in 1 .. n |-> ss[i]]
    BY <1>1
  <2> HIDE DEF front, last
  <2> QED BY <1>1, <1>2, <1>4, <2>1 DEF last
<1>6. tt = Append(front, Append(last, x))
  <2>1. /\ DOMAIN tt = 1 .. n /\ tt[n] = Append(last, x)
        /\ tt = [i \in 1 .. n |-> tt[i]]
        /\ \A i \in 1 .. n - 1 : tt[i] = ss[i]
    <3>1. ss = [i \in 1 .. n |-> ss[i]]
      BY <1>1
    <3>2. tt = [i \in 1 .. n |-> IF i = n THEN Append(last, x) ELSE ss[i]]
      BY <1>1, <3>1
    <3>3. n \in 1 .. n /\ \A i \in 1 .. n - 1 : i \in 1 .. n /\ i # n
      BY <1>1
    <3> HIDE DEF tt, last
    <3> QED BY <3>2, <3>3
  <2> HIDE DEF front, last, tt
  <2> QED BY <1>2, <1>4, <2>1
<1> HIDE DEF front, last
<1>7. /\ FlattenSeq(ss) = FlattenSeq(front) \o last
      /\ FlattenSeq(tt) = FlattenSeq(front) \o Append(last, x)
  <2>1. FlattenSeq(Append(front, last)) = FlattenSeq(front) \o last
    BY <1>2, <1>3, FlattenAppend
  <2>2. FlattenSeq(Append(front, Append(last, x))) = FlattenSeq(front) \o Append(last, x)
    BY <1>2, <1>3, FlattenAppend
  <2> HIDE DEF tt
  <2> QED BY <1>5, <1>6, <2>1, <2>2
<1>8. FlattenSeq(front) \in Seq(T)
  BY <1>3, FlattenType
<1>9. FlattenSeq(front) \o Append(last, x) = Append(FlattenSeq(front) \o last, x)
  <2> DEFINE f == FlattenSeq(front)
  <2>1. f \in Seq(T) /\ last \in Seq(T) /\ <<x>> \in Seq(T)
    BY <1>2, <1>8
  <2> HIDE DEF f
  <2>2. f \o last \in Seq(T)
    BY <2>1, ConcatProperties
  <2>3. Append(last, x) = last \o <<x>> /\ Append(f \o last, x) = (f \o last) \o <<x>>
    BY <2>1, <2>2, AppendIsConcat
  <2>4. (f \o last) \o <<x>> = f \o (last \o <<x>>)
    BY ONLY <2>1, ConcatAssociative
  <2> QED BY <2>3, <2>4 DEF f
<1>10. FlattenSeq(tt) = Append(FlattenSeq(ss), x)
  <2> HIDE DEF tt
  <2> QED BY <1>7, <1>9
<1> QED BY <1>10 DEF tt, n

-----------------------------------------------------------------------------
(* Sums                                                                    *)

(* A property of all finite sets by their size                             *)
LEMMA SizeInduction ==
  ASSUME NEW D, IsFiniteSet(D), NEW P,
         \A s \in SUBSET D :
           (\A r \in SUBSET D : Cardinality(r) < Cardinality(s) => r \in P) => s \in P
  PROVE  SUBSET D \subseteq P
<1> DEFINE Ok == {n \in Nat : \A s \in SUBSET D : Cardinality(s) < n => s \in P}
<1>0. \A s \in SUBSET D : Cardinality(s) \in Nat
  BY FS_Subset, FS_CardinalityType
<1>1. 0 \in Ok
  BY <1>0
<1>2. ASSUME NEW n \in Nat, n \in Ok PROVE n + 1 \in Ok
  <2> SUFFICES ASSUME NEW s \in SUBSET D, Cardinality(s) < n + 1 PROVE s \in P
    OBVIOUS
  <2>1. ASSUME NEW r \in SUBSET D, Cardinality(r) < Cardinality(s) PROVE r \in P
    <3>1. Cardinality(r) < n
      BY <1>0, <2>1
    <3> QED BY <1>2, <3>1
  <2> QED BY <2>1
<1>3. \A n \in Nat : n \in Ok
  <2> HIDE DEF Ok
  <2> QED BY <1>1, <1>2, SetInduction
<1> SUFFICES ASSUME NEW s \in SUBSET D PROVE s \in P
  OBVIOUS
<1>4. Cardinality(s) + 1 \in Nat /\ Cardinality(s) < Cardinality(s) + 1
  BY <1>0
<1> QED BY <1>3, <1>4

(* SumFunction takes one element after the other.                          *)
LEMMA SumLoop ==
  ASSUME NEW D, IsFiniteSet(D), NEW f \in [D -> Nat]
  PROVE  \E sum : /\ sum = [s \in SUBSET D |->
                             IF s = {} THEN 0
                             ELSE f[CHOOSE x \in s : TRUE] + sum[s \ {CHOOSE x \in s : TRUE}]]
                  /\ SumFunction(f) = sum[D]
<1> DEFINE AnyOf(s) == CHOOSE x \in s : TRUE
           Body(g, s) == IF s = {} THEN 0 ELSE f[AnyOf(s)] + g[s \ {AnyOf(s)}]
           Small(n) == {s \in SUBSET D : Cardinality(s) <= n}
           Ok == {n \in Nat : \E g : g = [s \in Small(n) |-> Body(g, s)]}
<1>0. \A s \in SUBSET D : IsFiniteSet(s) /\ Cardinality(s) \in Nat
  BY FS_Subset, FS_CardinalityType
<1>1. 0 \in Ok
  <2> DEFINE g == [s \in Small(0) |-> 0]
  <2>1. \A s \in Small(0) : s = {}
    BY <1>0, FS_EmptySet
  <2>2. g = [s \in Small(0) |-> Body(g, s)]
    BY <2>1
  <2> HIDE DEF Body, g
  <2>3. \E h : h = [s \in Small(0) |-> Body(h, s)]
    BY <2>2
  <2> QED BY <2>3
<1>2. ASSUME NEW n \in Nat, n \in Ok PROVE n + 1 \in Ok
  <2>1. PICK g : g = [s \in Small(n) |-> Body(g, s)]
    BY <1>2
  <2> DEFINE h == [s \in Small(n + 1) |-> Body(g, s)]
  <2>2. \A s \in Small(n + 1) : s # {} => AnyOf(s) \in s /\ s \ {AnyOf(s)} \in Small(n)
    <3> SUFFICES ASSUME NEW s \in Small(n + 1), s # {}
                 PROVE  AnyOf(s) \in s /\ s \ {AnyOf(s)} \in Small(n)
      OBVIOUS
    <3>1. AnyOf(s) \in s
      OBVIOUS
    <3>2. Cardinality(s \ {AnyOf(s)}) = Cardinality(s) - 1
      BY <1>0, <3>1, FS_RemoveElement
    <3>3. Cardinality(s) \in Nat /\ Cardinality(s) <= n + 1 /\ s \ {AnyOf(s)} \in SUBSET D
      BY <1>0
    <3> HIDE DEF AnyOf
    <3> QED BY <3>1, <3>2, <3>3
  <2>3. \A s \in Small(n) : s \in Small(n + 1)
    BY <1>0
  <2>4. \A s \in Small(n) : g[s] = Body(g, s)
    BY <2>1
  <2>5. \A s \in Small(n + 1) : h[s] = Body(g, s)
    OBVIOUS
  <2>6. DOMAIN h = Small(n + 1) /\ h = [s \in Small(n + 1) |-> h[s]]
    OBVIOUS
  <2> HIDE DEF h, AnyOf, Small
  <2>7. \A s \in Small(n + 1) : Body(g, s) = Body(h, s)
    BY <2>2, <2>3, <2>4, <2>5
  <2> HIDE DEF Body
  <2>8. h = [s \in Small(n + 1) |-> Body(h, s)]
    BY <2>5, <2>6, <2>7
  <2>9. \E k : k = [s \in Small(n + 1) |-> Body(k, s)]
    BY <2>8
  <2> QED BY <2>9
<1>3. Cardinality(D) \in Ok
  <2> HIDE DEF Ok
  <2>1. Cardinality(D) \in Nat
    BY <1>0
  <2> QED BY <1>1, <1>2, <2>1, SetInduction
<1>4. Small(Cardinality(D)) = SUBSET D
  BY FS_Subset
<1>5. \E g : g = [s \in SUBSET D |-> Body(g, s)]
  BY <1>3, <1>4
<1> DEFINE sum == CHOOSE g : g = [s \in SUBSET D |-> Body(g, s)]
<1>6. sum = [s \in SUBSET D |-> Body(sum, s)]
  <2> HIDE DEF Body
  <2> QED BY <1>5, Zenon
<1>7. SumFunction(f) = sum[D]
  <2>1. DOMAIN f = D
    OBVIOUS
  <2> QED BY <2>1 DEF SumFunction, SumFunctionOnSet, FoldFunctionOnSet, MapThenFoldSet
<1> HIDE DEF sum
<1> QED BY <1>6, <1>7

AddsUp(sum, D, f) ==
  /\ sum[{}] = 0
  /\ \A s \in SUBSET D : \A x \in s : sum[s] = f[x] + sum[s \ {x}]

(* and comes to the same sum in whatever order it takes them.              *)
LEMMA SumAnyOrder ==
  ASSUME NEW D, IsFiniteSet(D), NEW f \in [D -> Nat]
  PROVE  \E sum \in [SUBSET D -> Nat] :
           /\ SumFunction(f) = sum[D]
           /\ AddsUp(sum, D, f)
<1>1. PICK sum : /\ sum = [s \in SUBSET D |->
                             IF s = {} THEN 0
                             ELSE f[CHOOSE x \in s : TRUE] + sum[s \ {CHOOSE x \in s : TRUE}]]
                 /\ SumFunction(f) = sum[D]
  BY SumLoop
<1> DEFINE AnyOf(s) == CHOOSE x \in s : TRUE
<1>2. /\ sum[{}] = 0
      /\ \A s \in SUBSET D : s # {} => sum[s] = f[AnyOf(s)] + sum[s \ {AnyOf(s)}]
  <2>1. {} \in SUBSET D
    OBVIOUS
  <2> QED BY <1>1, <2>1
<1>3. \A s \in SUBSET D : s # {} => AnyOf(s) \in s
  OBVIOUS
<1>4. \A s \in SUBSET D : IsFiniteSet(s) /\ Cardinality(s) \in Nat
  BY FS_Subset, FS_CardinalityType
<1>5. ASSUME NEW s \in SUBSET D, NEW x \in s
      PROVE  s \ {x} \in SUBSET D /\ Cardinality(s \ {x}) < Cardinality(s)
  BY <1>4, FS_RemoveElement
<1>6. DOMAIN sum = SUBSET D
  BY <1>1
<1> HIDE DEF AnyOf
<1> DEFINE P == {s \in SUBSET D : /\ sum[s] \in Nat
                                  /\ \A x \in s : sum[s] = f[x] + sum[s \ {x}]}
<1>7. ASSUME NEW s \in SUBSET D,
             \A r \in SUBSET D : Cardinality(r) < Cardinality(s) => r \in P
      PROVE  s \in P
  <2>1. CASE s = {}
    BY <1>2, <2>1
  <2>2. CASE s # {}
    <3> DEFINE a == AnyOf(s)
    <3>1. a \in s /\ sum[s] = f[a] + sum[s \ {a}]
      BY <1>2, <1>3, <2>2
    <3> HIDE DEF a
    <3>2. \A x \in s : s \ {x} \in P /\ f[x] \in Nat
      BY <1>5, <1>7
    <3>3. sum[s] \in Nat
      BY <3>1, <3>2
    <3>4. ASSUME NEW x \in s, x # a PROVE sum[s] = f[x] + sum[s \ {x}]
      <4>1. x \in s \ {a} /\ a \in s \ {x}
        BY <3>1, <3>4
      <4>2. /\ sum[s \ {a}] = f[x] + sum[(s \ {a}) \ {x}]
            /\ sum[s \ {x}] = f[a] + sum[(s \ {x}) \ {a}]
        BY <3>1, <3>2, <4>1
      <4>3. (s \ {a}) \ {x} = (s \ {x}) \ {a}
        OBVIOUS
      <4>4. sum[(s \ {a}) \ {x}] \in Nat
        <5>1. (s \ {a}) \ {x} \in SUBSET D
          OBVIOUS
        <5>2. Cardinality((s \ {a}) \ {x}) < Cardinality(s)
          <6>1. /\ Cardinality((s \ {a}) \ {x}) < Cardinality(s \ {a})
                /\ Cardinality(s \ {a}) < Cardinality(s)
            BY <1>5, <3>1, <4>1
          <6> QED BY <1>4, <5>1, <6>1
        <5> QED BY <1>7, <5>1, <5>2
      <4>5. f[x] \in Nat /\ f[a] \in Nat
        BY <3>1, <3>2
      <4>6. sum[s] = f[a] + (f[x] + sum[(s \ {a}) \ {x}])
        BY <3>1, <4>2
      <4>7. sum[s \ {x}] = f[a] + sum[(s \ {a}) \ {x}]
        BY <4>2, <4>3
      <4> QED BY <4>4, <4>5, <4>6, <4>7
    <3> QED BY <3>1, <3>3, <3>4
  <2> QED BY <2>1, <2>2
<1>8. SUBSET D \subseteq P
  <2> HIDE DEF P
  <2> QED BY <1>7, SizeInduction
<1>9. sum \in [SUBSET D -> Nat]
  BY <1>1, <1>6, <1>8
<1> QED BY <1>1, <1>2, <1>8, <1>9 DEF AddsUp

LEMMA SumType ==
  ASSUME NEW D, IsFiniteSet(D), NEW f \in [D -> Nat]
  PROVE  SumFunction(f) \in Nat
<1>1. PICK sum \in [SUBSET D -> Nat] : SumFunction(f) = sum[D]
  BY SumAnyOrder
<1> QED BY <1>1

(* Two functions that differ in one place                                  *)
LEMMA SumExcept ==
  ASSUME NEW D, IsFiniteSet(D), NEW f \in [D -> Nat], NEW g \in [D -> Nat], NEW x \in D,
         \A y \in D \ {x} : f[y] = g[y]
  PROVE  SumFunction(f) \in Nat /\ SumFunction(g) \in Nat
         /\ SumFunction(f) + g[x] = SumFunction(g) + f[x]
<1>1. PICK sf \in [SUBSET D -> Nat] :
           /\ SumFunction(f) = sf[D]
           /\ AddsUp(sf, D, f)
  BY SumAnyOrder
<1>2. PICK sg \in [SUBSET D -> Nat] :
           /\ SumFunction(g) = sg[D]
           /\ AddsUp(sg, D, g)
  BY SumAnyOrder
<1> DEFINE P == {s \in SUBSET D : x \notin s => sf[s] = sg[s]}
<1>3. ASSUME NEW s \in SUBSET D,
             \A r \in SUBSET D : Cardinality(r) < Cardinality(s) => r \in P
      PROVE  s \in P
  <2>1. CASE s = {}
    BY <1>1, <1>2, <2>1 DEF AddsUp
  <2>2. CASE s # {} /\ x \notin s
    <3>1. PICK y \in s : TRUE
      BY <2>2
    <3>2. IsFiniteSet(s) /\ Cardinality(s) \in Nat
      BY FS_Subset, FS_CardinalityType
    <3>3. s \ {y} \in SUBSET D /\ Cardinality(s \ {y}) < Cardinality(s)
      <4>1. Cardinality(s \ {y}) = Cardinality(s) - 1
        BY <3>1, <3>2, FS_RemoveElement
      <4> QED BY <3>2, <4>1
    <3>4. sf[s \ {y}] = sg[s \ {y}]
      BY <1>3, <2>2, <3>3
    <3>5. f[y] = g[y]
      BY <2>2
    <3>6. sf[s] = sg[s]
      BY <1>1, <1>2, <3>4, <3>5 DEF AddsUp
    <3> QED BY <3>6
  <2> QED BY <2>1, <2>2
<1>4. SUBSET D \subseteq P
  <2> HIDE DEF P
  <2> QED BY <1>3, SizeInduction
<1>5. sf[D \ {x}] = sg[D \ {x}] /\ sf[D \ {x}] \in Nat
  BY <1>4
<1>6. sf[D] = f[x] + sf[D \ {x}] /\ sg[D] = g[x] + sg[D \ {x}]
  BY <1>1, <1>2 DEF AddsUp
<1>7. f[x] \in Nat /\ g[x] \in Nat
  OBVIOUS
<1> QED BY <1>1, <1>2, <1>5, <1>6, <1>7

(* and one that is zero everywhere                                         *)
LEMMA SumOfZeros ==
  ASSUME NEW D, IsFiniteSet(D), NEW f, f = [x \in D |-> 0]
  PROVE  SumFunction(f) = 0
<1>0. f \in [D -> Nat]
  OBVIOUS
<1>1. PICK sum \in [SUBSET D -> Nat] :
           /\ SumFunction(f) = sum[D]
           /\ AddsUp(sum, D, f)
  BY <1>0, SumAnyOrder
<1> DEFINE P == {s \in SUBSET D : sum[s] = 0}
<1>2. ASSUME NEW s \in SUBSET D,
             \A r \in SUBSET D : Cardinality(r) < Cardinality(s) => r \in P
      PROVE  s \in P
  <2>1. CASE s = {}
    BY <1>1, <2>1 DEF AddsUp
  <2>2. CASE s # {}
    <3>1. PICK y \in s : TRUE
      BY <2>2
    <3>2. IsFiniteSet(s) /\ Cardinality(s) \in Nat
      BY FS_Subset, FS_CardinalityType
    <3>3. s \ {y} \in SUBSET D /\ Cardinality(s \ {y}) < Cardinality(s)
      <4>1. Cardinality(s \ {y}) = Cardinality(s) - 1
        BY <3>1, <3>2, FS_RemoveElement
      <4> QED BY <3>2, <4>1
    <3> QED BY <1>1, <1>2, <3>3 DEF AddsUp
  <2> QED BY <2>1, <2>2
<1>3. SUBSET D \subseteq P
  <2> HIDE DEF P
  <2> QED BY <1>2, SizeInduction
<1> QED BY <1>1, <1>3

(* Induction over sequences                                                *)
LEMMA SeqInduction ==
  ASSUME NEW T, NEW P, <<>> \in P,
         \A s \in Seq(T), x \in T : s \in P => Append(s, x) \in P
  PROVE  Seq(T) \subseteq P
<1> DEFINE Ok == {n \in Nat : \A s \in Seq(T) : Len(s) = n => s \in P}
<1>1. 0 \in Ok
  BY EmptySeq
<1>2. ASSUME NEW n \in Nat, n \in Ok PROVE n + 1 \in Ok
  <2> SUFFICES ASSUME NEW s \in Seq(T), Len(s) = n + 1 PROVE s \in P
    OBVIOUS
  <2> DEFINE t == [i \in 1 .. n |-> s[i]]
  <2>1. t \in Seq(T) /\ Len(t) = n /\ s[n + 1] \in T
    OBVIOUS
  <2>2. Append(t, s[n + 1]) \in Seq(T) /\ Len(Append(t, s[n + 1])) = Len(s)
        /\ \A i \in 1 .. Len(s) : Append(t, s[n + 1])[i] = s[i]
    <3>1. \A i \in 1 .. n : t[i] = s[i]
      OBVIOUS
    <3> HIDE DEF t
    <3>2. \A i \in 1 .. Len(s) : i \in 1 .. n \/ i = n + 1
      OBVIOUS
    <3> QED BY <2>1, <3>1, <3>2, AppendProperties
  <2>3. t \in P
    BY <1>2, <2>1
  <2> HIDE DEF t
  <2>4. s = Append(t, s[n + 1])
    BY <2>2, SeqEqual
  <2> QED BY <2>1, <2>3, <2>4
<1>3. \A n \in Nat : n \in Ok
  <2> HIDE DEF Ok
  <2> QED BY <1>1, <1>2, SetInduction
<1> QED BY <1>3

(* The smaller of two numbers                                              *)
LEMMA MinOfTwo ==
  ASSUME NEW a \in Int, NEW b \in Int
  PROVE  Min({a, b}) = IF a <= b THEN a ELSE b
<1> DEFINE m == IF a <= b THEN a ELSE b
<1>1. m \in {a, b} /\ \A y \in {a, b} : m <= y
  OBVIOUS
<1>2. \A x \in {a, b} : (\A y \in {a, b} : x <= y) => x = m
  OBVIOUS
<1> HIDE DEF m
<1>3. Min({a, b}) = m
  BY <1>1, <1>2 DEF Min
<1> QED BY <1>3 DEF m
=============================================================================
