----------------------------- MODULE AdaptiveOps_proofs -----------------------------
(***************************************************************************)
(* Every method keeps the value of an AdaptiveMemory coherent, and what    *)
(* retrieve decodes afterwards is what the method says.  The invariant is  *)
(* taken apart into what it says of each shard (ShardInv), of the routing  *)
(* map and of the vocab, because a method disturbs one shard at most.      *)
(***************************************************************************)
EXTENDS AdaptiveOps, SeqLemmas, FiniteSetTheorems, SequenceTheorems

(* The function Retain is defined by is the loop of Vec::retain: what is   *)
(* kept of each prefix is what was kept of the one before, and maybe one.  *)
LEMMA RetainLoop ==
  ASSUME NEW S, NEW s \in Seq(S), NEW key
  PROVE  \E f : /\ f = [i \in 0 .. Len(s) |->
                          IF i = 0 THEN <<>>
                          ELSE IF s[i] # key THEN Append(f[i - 1], s[i])
                               ELSE f[i - 1]]
                /\ Retain(s, key) = f[Len(s)]
<1> DEFINE Body(f, i) == IF i = 0 THEN <<>>
                         ELSE IF s[i] # key THEN Append(f[i - 1], s[i]) ELSE f[i - 1]
           Ok == {n \in Nat : \E f : f = [i \in 0 .. n |-> Body(f, i)]}
<1>1. 0 \in Ok
  <2> DEFINE f == [i \in 0 .. 0 |-> <<>>]
  <2>1. f = [i \in 0 .. 0 |-> Body(f, i)]
    OBVIOUS
  <2> QED BY <2>1
<1>2. ASSUME NEW n \in Nat, n \in Ok PROVE n + 1 \in Ok
  <2>1. PICK f : f = [i \in 0 .. n |-> Body(f, i)]
    BY <1>2
  <2> DEFINE g == [i \in 0 .. n + 1 |->
                     IF i <= n THEN f[i]
                     ELSE IF s[i] # key THEN Append(f[i - 1], s[i]) ELSE f[i - 1]]
  <2>2. \A i \in 0 .. n : g[i] = f[i]
    OBVIOUS
  <2>3. \A i \in 0 .. n : f[i] = Body(f, i)
    BY <2>1
  <2>4. \A i \in 0 .. n : Body(f, i) = Body(g, i)
    BY <2>2
  <2>5. g[n + 1] = Body(g, n + 1)
    BY <2>2
  <2>6. DOMAIN g = 0 .. n + 1 /\ g = [i \in 0 .. n + 1 |-> g[i]]
    OBVIOUS
  <2>7. \A i \in 0 .. n + 1 : i \in 0 .. n \/ i = n + 1
    OBVIOUS
  <2> HIDE DEF Body, g
  <2>8. \A i \in 0 .. n + 1 : g[i] = Body(g, i)
    BY <2>2, <2>3, <2>4, <2>5, <2>7
  <2>9. g = [i \in 0 .. n + 1 |-> Body(g, i)]
    BY <2>6, <2>8
  <2>10. \E h : h = [i \in 0 .. n + 1 |-> Body(h, i)]
    BY <2>9
  <2> QED BY <2>10
<1>3. Len(s) \in Ok
  <2> HIDE DEF Ok
  <2> QED BY <1>1, <1>2, SetInduction
<1>4. \E f : f = [i \in 0 .. Len(s) |-> Body(f, i)]
  BY <1>3
<1> DEFINE h == CHOOSE f : f = [i \in 0 .. Len(s) |-> Body(f, i)]
<1>5. h = [i \in 0 .. Len(s) |-> Body(h, i)]
  <2> HIDE DEF Body
  <2> QED BY <1>4, Zenon
<1>6. Retain(s, key) = h[Len(s)]
  BY DEF Retain
<1> HIDE DEF h
<1> QED BY <1>5, <1>6

(* Retain removes exactly the key from a vector without repetitions, which *)
(* does not grow.                                                          *)
LEMMA RetainProperties ==
  ASSUME NEW S, NEW s \in Seq(S), IsInjective(s), NEW key
  PROVE  /\ Retain(s, key) \in Seq(S)
         /\ IsInjective(Retain(s, key))
         /\ Range(Retain(s, key)) = Range(s) \ {key}
         /\ Len(Retain(s, key)) <= Len(s)
<1>1. PICK f : /\ f = [i \in 0 .. Len(s) |->
                          IF i = 0 THEN <<>>
                          ELSE IF s[i] # key THEN Append(f[i - 1], s[i])
                               ELSE f[i - 1]]
               /\ Retain(s, key) = f[Len(s)]
  BY RetainLoop
<1> DEFINE First(i) == {s[j] : j \in 1 .. i} \ {key}
           Ok == {n \in Nat : n <= Len(s) =>
                    /\ f[n] \in Seq(S)
                    /\ IsInjective(f[n])
                    /\ Range(f[n]) = First(n)
                    /\ Len(f[n]) <= n}
<1>2. 0 \in Ok
  <2>1. f[0] = <<>>
    BY <1>1
  <2>2. <<>> \in Seq(S) /\ Len(<<>>) = 0 /\ DOMAIN <<>> = {}
    OBVIOUS
  <2>3. IsInjective(<<>>)
    BY <2>2 DEF IsInjective
  <2>4. Range(<<>>) = {} /\ First(0) = {}
    BY <2>2 DEF Range
  <2>5. /\ f[0] \in Seq(S)
        /\ IsInjective(f[0])
        /\ Range(f[0]) = First(0)
        /\ Len(f[0]) <= 0
    BY <2>1, <2>2, <2>3, <2>4
  <2> HIDE DEF First
  <2> QED BY <2>5
<1>3. ASSUME NEW n \in Nat, n \in Ok PROVE n + 1 \in Ok
  <2> SUFFICES ASSUME n + 1 <= Len(s)
               PROVE  /\ f[n + 1] \in Seq(S)
                      /\ IsInjective(f[n + 1])
                      /\ Range(f[n + 1]) = First(n + 1)
                      /\ Len(f[n + 1]) <= n + 1
    OBVIOUS
  <2> DEFINE t == f[n]
             e == s[n + 1]
  <2>0. /\ t \in Seq(S)
        /\ IsInjective(t)
        /\ Range(t) = First(n)
        /\ Len(t) <= n
    BY <1>3
  <2>1. f[n + 1] = IF e # key THEN Append(t, e) ELSE t
    <3>1. n + 1 \in 0 .. Len(s) /\ n + 1 # 0 /\ (n + 1) - 1 = n
      OBVIOUS
    <3> QED BY <1>1, <3>1
  <2>2. e \in S /\ First(n + 1) = IF e # key THEN First(n) \cup {e} ELSE First(n)
    OBVIOUS
  <2>3. \A j \in 1 .. n : s[j] # e
    BY DEF IsInjective
  <2> HIDE DEF e, t
  <2>4. CASE e = key
    <3>1. f[n + 1] = t /\ First(n + 1) = First(n)
      BY <2>1, <2>2, <2>4
    <3>2. Len(t) <= n + 1
      BY <2>0
    <3> HIDE DEF First
    <3> QED BY <2>0, <3>1, <3>2
  <2>5. CASE e # key
    <3>1. /\ f[n + 1] = Append(t, e)
          /\ Len(f[n + 1]) = Len(t) + 1
          /\ DOMAIN f[n + 1] = 1 .. (Len(t) + 1)
          /\ \A j \in 1 .. Len(t) : f[n + 1][j] = t[j]
          /\ f[n + 1][Len(t) + 1] = e
          /\ f[n + 1] \in Seq(S)
      BY <2>0, <2>1, <2>2, <2>5
    <3>2. Range(f[n + 1]) = Range(t) \cup {e}
      BY <3>1, <2>0, SMTT(30) DEF Range
    <3>3. e \notin Range(t)
      BY <2>0, <2>3
    <3>4. IsInjective(f[n + 1])
      BY <3>1, <3>3, <2>0 DEF IsInjective, Range
    <3>5. Range(f[n + 1]) = First(n + 1)
      BY <3>2, <2>0, <2>2, <2>5
    <3>6. Len(f[n + 1]) <= n + 1
      BY <3>1, <2>0
    <3> QED BY <3>1, <3>4, <3>5, <3>6
  <2> QED BY <2>4, <2>5
<1>4. Len(s) \in Ok
  <2> HIDE DEF Ok
  <2> QED BY <1>2, <1>3, SetInduction
<1>5. First(Len(s)) = Range(s) \ {key}
  BY DEF Range
<1> QED BY <1>1, <1>4, <1>5

-----------------------------------------------------------------------------
(* What holds of one shard, when n rows of the vocab are registered.       *)
ShardInv(sh, n) ==
  /\ sh \in ShardType
  /\ IsInjective(sh.keys)
  /\ \A k \in Keys : k \in Range(sh.keys) <=> sh.k2v[k] # Absent
  /\ \A k \in Keys, r \in Rows :
       sh.memory[k][r] = IF sh.k2v[k] = r THEN 1 ELSE 0
  /\ Len(sh.keys) <= ShardCapacity \/ Len(sh.keys) <= 1
  /\ \A k \in Keys : sh.k2v[k] < n

(* Shard::new.                                                             *)
LEMMA EmptyShardInv ==
  ASSUME NEW n \in Nat
  PROVE  ShardInv(EmptyShard, n)
<1>1. <<>> \in Seq(Keys) /\ Len(<<>>) = 0 /\ DOMAIN <<>> = {}
  OBVIOUS
<1>2. EmptyShard \in ShardType
  BY <1>1 DEF EmptyShard, ShardType
<1>3. IsInjective(EmptyShard.keys) /\ Range(EmptyShard.keys) = {}
  BY <1>1 DEF EmptyShard, IsInjective, Range
<1>4. /\ \A k \in Keys : EmptyShard.k2v[k] = Absent
      /\ \A k \in Keys, r \in Rows : EmptyShard.memory[k][r] = 0
      /\ Len(EmptyShard.keys) = 0
  BY <1>1 DEF EmptyShard
<1>5. Absent \notin Rows /\ Absent < n
  BY VocabCapAssumption DEF Absent, Rows
<1> QED BY <1>2, <1>3, <1>4, <1>5 DEF ShardInv

(* Subtracting the old bind and adding the new one leaves exactly the new  *)
(* fact of the key in the superposition.                                   *)
LEMMA ShardOverwrittenInv ==
  ASSUME NEW n \in Nat, NEW sh, ShardInv(sh, n), NEW key \in Keys,
         sh.k2v[key] # Absent, NEW row \in Rows, row < n
  PROVE  /\ ShardInv(ShardOverwritten(sh, key, row), n)
         /\ \A k \in Keys : ShardOverwritten(sh, key, row).k2v[k] # Absent
                              <=> sh.k2v[k] # Absent
<1> DEFINE new == ShardOverwritten(sh, key, row)
           old == sh.k2v[key]
<1>1. /\ sh \in ShardType
      /\ sh.k2v \in [Keys -> Rows \cup {Absent}]
      /\ sh.memory \in [Keys -> [Rows -> Int]]
      /\ sh.keys \in Seq(Keys)
      /\ old \in Rows
  BY DEF ShardInv, ShardType
<1>2. Absent \notin Rows
  BY VocabCapAssumption DEF Absent, Rows
<1>3. /\ new.keys = sh.keys
      /\ new.k2v = [sh.k2v EXCEPT ![key] = row]
      /\ new.memory = Plus(Minus(sh.memory, key, old), key, row)
      /\ new = [keys |-> new.keys, k2v |-> new.k2v, memory |-> new.memory]
  BY <1>1 DEF ShardOverwritten, ShardType
<1>4. /\ new.memory \in [Keys -> [Rows -> Int]]
      /\ \A k \in Keys, r \in Rows :
           new.memory[k][r] =
             IF k # key THEN sh.memory[k][r]
             ELSE sh.memory[k][r] - (IF r = old THEN 1 ELSE 0)
                                  + (IF r = row THEN 1 ELSE 0)
  <2>1. sh.memory \in [Keys -> [Rows -> Int]]
    BY <1>1
  <2>2. ASSUME NEW m \in [Keys -> [Rows -> Int]], NEW r \in Rows
        PROVE  /\ Minus(m, key, r) \in [Keys -> [Rows -> Int]]
               /\ Plus(m, key, r) \in [Keys -> [Rows -> Int]]
               /\ \A k \in Keys, q \in Rows :
                    /\ Minus(m, key, r)[k][q] =
                         IF k = key /\ q = r THEN m[k][q] - 1 ELSE m[k][q]
                    /\ Plus(m, key, r)[k][q] =
                         IF k = key /\ q = r THEN m[k][q] + 1 ELSE m[k][q]
    BY <1>1, <2>2, SMTT(30) DEF Plus, Minus
  <2>3. old \in Rows /\ row \in Rows
    BY <1>1
  <2> DEFINE less == Minus(sh.memory, key, old)
  <2>4. /\ less \in [Keys -> [Rows -> Int]]
        /\ \A k \in Keys, q \in Rows :
             less[k][q] = IF k = key /\ q = old THEN sh.memory[k][q] - 1
                                                ELSE sh.memory[k][q]
    BY <2>1, <2>2, <2>3
  <2> HIDE DEF less
  <2>5. /\ Plus(less, key, row) \in [Keys -> [Rows -> Int]]
        /\ \A k \in Keys, q \in Rows :
             Plus(less, key, row)[k][q] =
               IF k = key /\ q = row THEN less[k][q] + 1 ELSE less[k][q]
    BY <2>2, <2>3, <2>4
  <2>6. new.memory = Plus(less, key, row)
    BY <1>3 DEF less
  <2> QED BY <2>1, <2>4, <2>5, <2>6
<1>5. \A k \in Keys, r \in Rows :
        new.memory[k][r] = IF new.k2v[k] = r THEN 1 ELSE 0
  <2>1. /\ new.k2v[key] = row
        /\ \A k \in Keys \ {key} : new.k2v[k] = sh.k2v[k]
    BY <1>1, <1>3
  <2>2. \A k \in Keys, r \in Rows : sh.memory[k][r] = IF sh.k2v[k] = r THEN 1 ELSE 0
    BY DEF ShardInv
  <2> HIDE DEF new
  <2>3. ASSUME NEW k \in Keys, NEW r \in Rows
        PROVE  new.memory[k][r] = IF new.k2v[k] = r THEN 1 ELSE 0
    <3>1. CASE k = key
      BY <1>4, <2>1, <2>2, <3>1
    <3>2. CASE k # key
      BY <1>4, <2>1, <2>2, <3>2
    <3> QED BY <3>1, <3>2
  <2> QED BY <2>3
<1>6. new \in ShardType
  <2>1. new.k2v \in [Keys -> Rows \cup {Absent}]
    BY <1>1, <1>3
  <2> HIDE DEF new
  <2> QED BY <1>1, <1>3, <1>4, <2>1 DEF ShardType
<1>7. \A k \in Keys : /\ new.k2v[k] < n
                      /\ new.k2v[k] # Absent <=> sh.k2v[k] # Absent
  BY <1>1, <1>2, <1>3 DEF ShardInv
<1> QED BY <1>3, <1>5, <1>6, <1>7 DEF ShardInv

(* Adding a bind for a key the shard does not hold, when it has room.      *)
LEMMA ShardExtendedInv ==
  ASSUME NEW n \in Nat, NEW sh, ShardInv(sh, n), NEW key \in Keys,
         sh.k2v[key] = Absent, NEW row \in Rows, row < n,
         Len(sh.keys) < ShardCapacity \/ sh.keys = <<>>
  PROVE  /\ ShardInv(ShardExtended(sh, key, row), n)
         /\ \A k \in Keys : ShardExtended(sh, key, row).k2v[k] # Absent
                              <=> k = key \/ sh.k2v[k] # Absent
<1> DEFINE new == ShardExtended(sh, key, row)
<1>1. /\ sh \in ShardType
      /\ sh.k2v \in [Keys -> Rows \cup {Absent}]
      /\ sh.memory \in [Keys -> [Rows -> Int]]
      /\ sh.keys \in Seq(Keys)
  BY DEF ShardInv, ShardType
<1>2. Absent \notin Rows
  BY VocabCapAssumption DEF Absent, Rows
<1>3. /\ new.keys = Append(sh.keys, key)
      /\ new.k2v = [sh.k2v EXCEPT ![key] = row]
      /\ new.memory = Plus(sh.memory, key, row)
      /\ new = [keys |-> new.keys, k2v |-> new.k2v, memory |-> new.memory]
  BY <1>1 DEF ShardExtended, ShardType
<1>4. /\ new.memory \in [Keys -> [Rows -> Int]]
      /\ \A k \in Keys, r \in Rows :
           new.memory[k][r] =
             IF k # key THEN sh.memory[k][r]
             ELSE sh.memory[k][r] + (IF r = row THEN 1 ELSE 0)
  BY <1>1, <1>3 DEF Plus
<1>5. \A k \in Keys, r \in Rows :
        new.memory[k][r] = IF new.k2v[k] = r THEN 1 ELSE 0
  BY <1>1, <1>2, <1>3, <1>4 DEF ShardInv
<1>6. /\ new.keys \in Seq(Keys)
      /\ Len(new.keys) = Len(sh.keys) + 1
      /\ DOMAIN new.keys = 1 .. Len(sh.keys) + 1
      /\ DOMAIN sh.keys = 1 .. Len(sh.keys)
      /\ \A j \in 1 .. Len(sh.keys) : new.keys[j] = sh.keys[j]
      /\ new.keys[Len(sh.keys) + 1] = key
  BY <1>1, <1>3
<1>7. Range(new.keys) = Range(sh.keys) \cup {key}
  BY <1>6, SMTT(30) DEF Range
<1>8. key \notin Range(sh.keys)
  BY DEF ShardInv
<1>9. IsInjective(new.keys)
  <2>1. \A j \in 1 .. Len(sh.keys) : sh.keys[j] # key
    BY <1>8, <1>6 DEF Range
  <2>2. IsInjective(sh.keys)
    BY DEF ShardInv
  <2> DEFINE L == Len(sh.keys)
             t == new.keys
  <2>3. /\ L \in Nat
        /\ DOMAIN t = 1 .. L + 1
        /\ \A j \in 1 .. L : t[j] = sh.keys[j]
        /\ t[L + 1] = key
    BY <1>1, <1>6
  <2>4. \A a, b \in 1 .. L : sh.keys[a] = sh.keys[b] => a = b
    BY <1>6, <2>2 DEF IsInjective
  <2> HIDE DEF new, L, t
  <2>5. ASSUME NEW a \in 1 .. L + 1, NEW b \in 1 .. L + 1, t[a] = t[b]
        PROVE  a = b
    <3>1. CASE a \in 1 .. L /\ b \in 1 .. L
      BY <2>3, <2>4, <2>5, <3>1
    <3>2. CASE a = L + 1 \/ b = L + 1
      BY <2>1, <2>3, <2>5, <3>2 DEF L
    <3> QED BY <2>3, <3>1, <3>2
  <2>6. IsInjective(t)
    BY <2>3, <2>5 DEF IsInjective
  <2> QED BY <2>6 DEF t
<1>10. new \in ShardType
  <2>1. new.k2v \in [Keys -> Rows \cup {Absent}]
    BY <1>1, <1>3
  <2> HIDE DEF new
  <2> QED BY <1>3, <1>4, <1>6, <2>1 DEF ShardType
<1>11. \A k \in Keys : /\ new.k2v[k] < n
                       /\ new.k2v[k] # Absent <=> k = key \/ sh.k2v[k] # Absent
  BY <1>1, <1>2, <1>3 DEF ShardInv
<1>12. Len(new.keys) <= ShardCapacity \/ Len(new.keys) <= 1
  BY <1>1, <1>6, ShardCapacityAssumption
<1>13. \A k \in Keys : k \in Range(new.keys) <=> new.k2v[k] # Absent
  BY <1>7, <1>11 DEF ShardInv
<1> HIDE DEF new
<1>14. ShardInv(new, n)
  BY <1>5, <1>9, <1>10, <1>11, <1>12, <1>13 DEF ShardInv
<1> QED BY <1>11, <1>14 DEF new

(* Algebraic forget: subtracting the bind of the row in k2v removes the    *)
(* key from the superposition and from the books, and nothing else.        *)
LEMMA ShardWithoutInv ==
  ASSUME NEW n \in Nat, NEW sh, ShardInv(sh, n), NEW key \in Keys,
         sh.k2v[key] # Absent
  PROVE  /\ ShardInv(ShardWithout(sh, key), n)
         /\ \A k \in Keys : ShardWithout(sh, key).k2v[k] # Absent
                              <=> k # key /\ sh.k2v[k] # Absent
<1> DEFINE new == ShardWithout(sh, key)
           old == sh.k2v[key]
<1>1. /\ sh \in ShardType
      /\ sh.k2v \in [Keys -> Rows \cup {Absent}]
      /\ sh.memory \in [Keys -> [Rows -> Int]]
      /\ sh.keys \in Seq(Keys)
      /\ old \in Rows
  BY DEF ShardInv, ShardType
<1>2. Absent \notin Rows /\ Absent < n
  BY VocabCapAssumption DEF Absent, Rows
<1>3. /\ new.keys = Retain(sh.keys, key)
      /\ new.k2v = [sh.k2v EXCEPT ![key] = Absent]
      /\ new.memory = Minus(sh.memory, key, old)
      /\ new = [keys |-> new.keys, k2v |-> new.k2v, memory |-> new.memory]
  BY <1>1 DEF ShardWithout, ShardType
<1>4. /\ new.memory \in [Keys -> [Rows -> Int]]
      /\ \A k \in Keys, r \in Rows :
           new.memory[k][r] =
             IF k # key THEN sh.memory[k][r]
             ELSE sh.memory[k][r] - (IF r = old THEN 1 ELSE 0)
  BY <1>1, <1>3 DEF Minus
<1>5. \A k \in Keys, r \in Rows :
        new.memory[k][r] = IF new.k2v[k] = r THEN 1 ELSE 0
  BY <1>1, <1>2, <1>3, <1>4 DEF ShardInv
<1>6. /\ new.keys \in Seq(Keys)
      /\ IsInjective(new.keys)
      /\ Range(new.keys) = Range(sh.keys) \ {key}
      /\ Len(new.keys) <= Len(sh.keys)
  BY <1>1, <1>3, RetainProperties DEF ShardInv
<1>7. new \in ShardType
  <2>1. new.k2v \in [Keys -> Rows \cup {Absent}]
    BY <1>1, <1>3
  <2> HIDE DEF new
  <2> QED BY <1>1, <1>3, <1>4, <1>6, <2>1 DEF ShardType
<1>8. \A k \in Keys : /\ new.k2v[k] < n
                      /\ new.k2v[k] # Absent <=> k # key /\ sh.k2v[k] # Absent
  BY <1>1, <1>2, <1>3 DEF ShardInv
<1>9. Len(new.keys) <= ShardCapacity \/ Len(new.keys) <= 1
  <2>1. Len(new.keys) \in Nat /\ Len(sh.keys) \in Nat
    BY <1>1, <1>6
  <2>2. Len(sh.keys) <= ShardCapacity \/ Len(sh.keys) <= 1
    BY DEF ShardInv
  <2> HIDE DEF new
  <2> QED BY <1>6, <2>1, <2>2, ShardCapacityAssumption
<1>10. \A k \in Keys : k \in Range(new.keys) <=> new.k2v[k] # Absent
  BY <1>6, <1>8 DEF ShardInv
<1> HIDE DEF new
<1>11. ShardInv(new, n)
  BY <1>5, <1>6, <1>7, <1>8, <1>9, <1>10 DEF ShardInv
<1> QED BY <1>8, <1>11 DEF new

-----------------------------------------------------------------------------
(* The invariant regrouped: one conjunct per shard, and the routing alone. *)
VocabOK(m) ==
  /\ Len(m.vocabKeys) <= VocabCap
  /\ \A v \in Values, r \in Rows :
       m.vocabIndex[v] = r <=> (r < Len(m.vocabKeys) /\ m.vocabKeys[r + 1] = v)

Routed(m) ==
  \A k \in Keys :
    /\ m.keyToShard[k] \in 0 .. Len(m.shards)
    /\ \A i \in DOMAIN m.shards :
         m.keyToShard[k] = i <=> m.shards[i].k2v[k] # Absent

ByShard(m) ==
  /\ m \in MemoryType
  /\ VocabOK(m)
  /\ Routed(m)
  /\ \A i \in DOMAIN m.shards : ShardInv(m.shards[i], Len(m.vocabKeys))
  /\ Counted(m)

(* Coherent, with what it says of each shard collected in ShardInv.        *)
LEMMA CoherentByShard ==
  ASSUME NEW m
  PROVE  Coherent(m) <=> ByShard(m)
<1>1. ASSUME m \in MemoryType
      PROVE  \A i \in DOMAIN m.shards : m.shards[i] \in ShardType
  BY <1>1 DEF MemoryType
<1>2. ASSUME Coherent(m) PROVE ByShard(m)
  <2>1. m \in MemoryType /\ VocabOK(m) /\ Counted(m)
    BY <1>2 DEF Coherent, VocabIndexed, VocabOK
  <2>2. Routed(m)
    BY <1>2 DEF Coherent, Routing, Routed
  <2>3. ASSUME NEW i \in DOMAIN m.shards
        PROVE  ShardInv(m.shards[i], Len(m.vocabKeys))
    <3>1. m.shards[i] \in ShardType
      BY <1>1, <2>1
    <3>2. \A k \in Keys : k \in Range(m.shards[i].keys)
                            <=> m.shards[i].k2v[k] # Absent
      BY <1>2 DEF Coherent, Routing
    <3> QED BY <1>2, <3>1, <3>2 DEF Coherent, DistinctKeys, Superposition,
                                    LoadBounded, VocabIndexed, ShardInv
  <2> QED BY <2>1, <2>2, <2>3 DEF ByShard
<1>3. ASSUME ByShard(m) PROVE Coherent(m)
  <2>1. m \in MemoryType /\ VocabOK(m) /\ Counted(m) /\ Routed(m)
    BY <1>3 DEF ByShard
  <2>2. Routing(m)
    BY <1>3 DEF ByShard, Routed, Routing, ShardInv
  <2>3. DistinctKeys(m) /\ Superposition(m) /\ LoadBounded(m)
    BY <1>3 DEF ByShard, ShardInv, DistinctKeys, Superposition, LoadBounded
  <2>4. VocabIndexed(m)
    BY <1>3 DEF ByShard, ShardInv, VocabOK, VocabIndexed
  <2> QED BY <2>1, <2>2, <2>3, <2>4 DEF Coherent
<1> QED BY <1>2, <1>3

(* AdaptiveMemory::new.                                                    *)
LEMMA NewMemoryCoherent == Coherent(NewMemory)
<1>1. /\ NewMemory.shards = <<>> /\ NewMemory.vocabKeys = <<>>
      /\ DOMAIN NewMemory.shards = {} /\ Len(NewMemory.vocabKeys) = 0
      /\ Len(NewMemory.shards) = 0
  BY DEF NewMemory
<1>2. NewMemory \in MemoryType
  BY DEF NewMemory, MemoryType, NoShard
<1>3. VocabOK(NewMemory)
  <2>1. Absent \notin Rows /\ \A r \in Rows : ~(r < 0)
    BY VocabCapAssumption DEF Absent, Rows
  <2>2. \A v \in Values : NewMemory.vocabIndex[v] = Absent
    BY DEF NewMemory
  <2> QED BY <1>1, <2>1, <2>2, VocabCapAssumption DEF VocabOK
<1>4. \A k \in Keys : NewMemory.keyToShard[k] = 0
  BY DEF NewMemory, NoShard
<1>5. Counted(NewMemory)
  <2>1. LiveKeys(NewMemory) = {}
    BY <1>4 DEF LiveKeys, NoShard
  <2>2. NewMemory.totalFacts = 0
    BY DEF NewMemory
  <2> QED BY <2>1, <2>2, FS_EmptySet DEF Counted
<1>6. Routed(NewMemory)
  BY <1>1, <1>4 DEF Routed
<1> QED BY <1>1, <1>2, <1>3, <1>5, <1>6, CoherentByShard DEF ByShard

(* Vocab::register keeps the index and the rows inverse to each other.     *)
LEMMA RegisteredCoherent ==
  ASSUME NEW m, Coherent(m), NEW value \in Values, CanRegister(m, value)
  PROVE  /\ Coherent(Registered(m, value))
         /\ Registered(m, value).vocabIndex[value] \in Rows
         /\ Registered(m, value).vocabIndex[value]
              < Len(Registered(m, value).vocabKeys)
         /\ Registered(m, value).keyToShard = m.keyToShard
         /\ Registered(m, value).shards = m.shards
<1> DEFINE new == Registered(m, value)
           n   == Len(m.vocabKeys)
<1>0. ByShard(m)
  BY CoherentByShard
<1>1. /\ m \in MemoryType
      /\ m.vocabKeys \in Seq(Values)
      /\ n \in Nat
      /\ m.vocabIndex \in [Values -> Rows \cup {Absent}]
  BY <1>0 DEF ByShard, MemoryType
<1>2. Absent \notin Rows
  BY VocabCapAssumption DEF Absent, Rows
<1>3. CASE m.vocabIndex[value] # Absent
  <2>1. new = m
    BY <1>3 DEF Registered
  <2>2. m.vocabIndex[value] \in Rows
    BY <1>1, <1>3
  <2>3. m.vocabIndex[value] < n
    BY <1>0, <2>2 DEF ByShard, VocabOK
  <2> HIDE DEF new, n
  <2>4. Coherent(new) /\ new.vocabIndex[value] \in Rows
    BY <2>1, <2>2
  <2> QED BY <2>1, <2>3, <2>4 DEF new, n
<1>4. CASE m.vocabIndex[value] = Absent
  <2>1. n < VocabCap
    BY <1>4 DEF CanRegister
  <2>2. n \in Rows
    BY <1>1, <2>1, VocabCapAssumption DEF Rows
  <2>3. /\ new.vocabKeys = Append(m.vocabKeys, value)
        /\ new.vocabIndex = [m.vocabIndex EXCEPT ![value] = n]
        /\ new.shards = m.shards
        /\ new.keyToShard = m.keyToShard
        /\ new.totalFacts = m.totalFacts
        /\ new = [m EXCEPT !.vocabIndex = new.vocabIndex,
                           !.vocabKeys = new.vocabKeys]
    BY <1>1, <1>4 DEF Registered, MemoryType
  <2>4. /\ Len(new.vocabKeys) = n + 1
        /\ \A j \in 1 .. n : new.vocabKeys[j] = m.vocabKeys[j]
        /\ new.vocabKeys[n + 1] = value
        /\ new.vocabKeys \in Seq(Values)
    BY <1>1, <2>3, AppendProperties
  <2>11. new.vocabIndex \in [Values -> Rows \cup {Absent}]
    BY <1>1, <2>2, <2>3
  <2> HIDE DEF new
  <2>12. new \in MemoryType
    BY <1>1, <2>3, <2>4, <2>11 DEF MemoryType
  <2>5. VocabOK(new)
    <3>1. Len(new.vocabKeys) <= VocabCap
      BY <1>1, <2>1, <2>4, VocabCapAssumption
    <3>2. ASSUME NEW v \in Values, NEW r \in Rows
          PROVE  new.vocabIndex[v] = r
                   <=> (r < Len(new.vocabKeys) /\ new.vocabKeys[r + 1] = v)
      <4>1. m.vocabIndex[v] = r <=> (r < n /\ m.vocabKeys[r + 1] = v)
        BY <1>0 DEF ByShard, VocabOK
      <4>2. r \in Nat
        BY VocabCapAssumption DEF Rows
      <4>3. CASE r < n
        <5>1. r + 1 \in 1 .. n /\ new.vocabKeys[r + 1] = m.vocabKeys[r + 1]
          BY <1>1, <4>2, <4>3, <2>4
        <5>2. m.vocabIndex[value] # r
          BY <1>2, <1>4
        <5>3. v # value => new.vocabIndex[v] = m.vocabIndex[v]
          BY <1>1, <2>3
        <5>4. new.vocabIndex[value] = n
          BY <1>1, <2>3
        <5>5. m.vocabKeys[r + 1] # value
          BY <1>0, <4>3, <5>2 DEF ByShard, VocabOK
        <5> QED BY <1>1, <2>4, <4>1, <4>2, <4>3, <5>1, <5>3, <5>4, <5>5
      <4>4. CASE r = n
        <5>1. new.vocabKeys[r + 1] = value /\ r < Len(new.vocabKeys)
          BY <1>1, <2>4, <4>4
        <5>2. new.vocabIndex[value] = r
          BY <1>1, <2>3, <4>4
        <5>3. v # value => new.vocabIndex[v] # r
          BY <1>1, <2>3, <4>1, <4>4
        <5> QED BY <5>1, <5>2, <5>3
      <4>5. CASE r > n
        <5>1. ~(r < Len(new.vocabKeys))
          BY <1>1, <2>4, <4>2, <4>5
        <5>2. new.vocabIndex[v] # r
          BY <1>1, <2>3, <4>1, <4>2, <4>5
        <5> QED BY <5>1, <5>2
      <4> QED BY <1>1, <4>2, <4>3, <4>4, <4>5
    <3> QED BY <3>1, <3>2 DEF VocabOK
  <2>6. Routed(new)
    BY <1>0, <2>3 DEF ByShard, Routed
  <2>7. Counted(new)
    BY <1>0, <2>3 DEF ByShard, Counted, LiveKeys
  <2>8. ASSUME NEW i \in DOMAIN new.shards
        PROVE  ShardInv(new.shards[i], Len(new.vocabKeys))
    <3>1. ShardInv(m.shards[i], n)
      BY <1>0, <2>3 DEF ByShard
    <3>2. \A k \in Keys : m.shards[i].k2v[k] \in Rows \cup {Absent}
      BY <3>1 DEF ShardInv, ShardType
    <3>3. \A k \in Keys : m.shards[i].k2v[k] < n + 1
      <4>1. Rows \cup {Absent} \subseteq Int
        BY VocabCapAssumption DEF Rows, Absent
      <4>2. \A k \in Keys : m.shards[i].k2v[k] < n
        BY <3>1 DEF ShardInv
      <4>3. \A a \in Int : a < n => a < n + 1
        BY <1>1
      <4> HIDE DEF n
      <4> QED BY <3>2, <4>1, <4>2, <4>3
    <3> QED BY <2>3, <2>4, <3>1, <3>3 DEF ShardInv
  <2>9. new.vocabIndex[value] = n /\ n < Len(new.vocabKeys)
    BY <1>1, <2>3, <2>4
  <2>10. Coherent(new)
    BY <2>12, <2>5, <2>6, <2>7, <2>8, CoherentByShard DEF ByShard
  <2> QED BY <2>2, <2>3, <2>9, <2>10 DEF new
<1> QED BY <1>3, <1>4

(* A key overwritten in the shard that owns it.                            *)
LEMMA OverwrittenCoherent ==
  ASSUME NEW m, Coherent(m), NEW key \in Keys, m.keyToShard[key] # NoShard,
         NEW row \in Rows, row < Len(m.vocabKeys)
  PROVE  Coherent(Overwritten(m, key, row))
<1> DEFINE new == Overwritten(m, key, row)
           n   == Len(m.vocabKeys)
           i   == m.keyToShard[key]
           sh  == ShardOverwritten(m.shards[i], key, row)
<1>0. ByShard(m)
  BY CoherentByShard
<1>1. /\ m \in MemoryType
      /\ m.shards \in Seq(ShardType)
      /\ n \in Nat
  BY <1>0 DEF ByShard, MemoryType
<1>2. i \in 1 .. Len(m.shards) /\ i \in DOMAIN m.shards
  BY <1>0, <1>1 DEF ByShard, Routed, NoShard
<1>3. m.shards[i].k2v[key] # Absent /\ ShardInv(m.shards[i], n)
  BY <1>0, <1>2 DEF ByShard, Routed
<1>4. /\ ShardInv(sh, n)
      /\ \A k \in Keys : sh.k2v[k] # Absent <=> m.shards[i].k2v[k] # Absent
  BY <1>1, <1>3, ShardOverwrittenInv
<1> HIDE DEF sh
<1>5. sh \in ShardType
  BY <1>4 DEF ShardInv
<1>6. /\ new.shards = [m.shards EXCEPT ![i] = sh]
      /\ new.vocabKeys = m.vocabKeys
      /\ new.vocabIndex = m.vocabIndex
      /\ new.keyToShard = m.keyToShard
      /\ new.totalFacts = m.totalFacts
      /\ new = [m EXCEPT !.shards = new.shards]
  BY <1>1 DEF Overwritten, MemoryType, sh
<1> HIDE DEF new, i
<1>7. /\ new.shards \in Seq(ShardType)
      /\ Len(new.shards) = Len(m.shards)
      /\ DOMAIN new.shards = DOMAIN m.shards
      /\ \A j \in DOMAIN m.shards :
           new.shards[j] = IF j = i THEN sh ELSE m.shards[j]
  BY <1>1, <1>2, <1>5, <1>6, ExceptSeq
<1>8. new \in MemoryType
  BY <1>1, <1>6, <1>7 DEF MemoryType
<1>9. VocabOK(new) /\ Counted(new)
  BY <1>0, <1>6 DEF ByShard, VocabOK, Counted, LiveKeys
<1>10. Routed(new)
  BY <1>0, <1>4, <1>6, <1>7 DEF ByShard, Routed
<1>11. \A j \in DOMAIN new.shards : ShardInv(new.shards[j], Len(new.vocabKeys))
  BY <1>0, <1>4, <1>6, <1>7 DEF ByShard
<1>12. Coherent(new)
  BY <1>8, <1>9, <1>10, <1>11, CoherentByShard DEF ByShard
<1> QED BY <1>12 DEF new

(* A shard opened when the last one is full leaves room at the end.        *)
LEMMA WithRoomCoherent ==
  ASSUME NEW m, Coherent(m)
  PROVE  /\ Coherent(WithRoom(m))
         /\ WithRoom(m).keyToShard = m.keyToShard
         /\ WithRoom(m).vocabKeys = m.vocabKeys
         /\ Len(WithRoom(m).shards) \in DOMAIN WithRoom(m).shards
         /\ LET keys == WithRoom(m).shards[Len(WithRoom(m).shards)].keys
            IN  Len(keys) < ShardCapacity \/ keys = <<>>
<1> DEFINE new == WithRoom(m)
           n   == Len(m.vocabKeys)
<1>0. ByShard(m)
  BY CoherentByShard
<1>1. /\ m \in MemoryType
      /\ m.shards \in Seq(ShardType)
      /\ n \in Nat
  BY <1>0 DEF ByShard, MemoryType
<1>2. CASE ~NeedsShard(m)
  <2>1. new = m
    BY <1>2 DEF WithRoom
  <2>2. Len(m.shards) \in DOMAIN m.shards
    BY <1>1, <1>2 DEF NeedsShard
  <2>3. m.shards[Len(m.shards)].keys \in Seq(Keys)
    <3>1. m.shards[Len(m.shards)] \in ShardType
      BY <1>1, <2>2
    <3> QED BY <3>1 DEF ShardType
  <2>4. Len(m.shards[Len(m.shards)].keys) < ShardCapacity
    BY <1>2, <2>3, ShardCapacityAssumption DEF NeedsShard
  <2> QED BY <2>1, <2>2, <2>4
<1>3. CASE NeedsShard(m)
  <2>1. EmptyShard \in ShardType /\ ShardInv(EmptyShard, n)
    BY <1>1, EmptyShardInv DEF ShardInv
  <2>2. /\ new.shards = Append(m.shards, EmptyShard)
        /\ new.vocabKeys = m.vocabKeys
        /\ new.vocabIndex = m.vocabIndex
        /\ new.keyToShard = m.keyToShard
        /\ new.totalFacts = m.totalFacts
        /\ new = [m EXCEPT !.shards = new.shards]
    BY <1>1, <1>3 DEF WithRoom, MemoryType
  <2> HIDE DEF new
  <2>3. /\ new.shards \in Seq(ShardType)
        /\ Len(new.shards) = Len(m.shards) + 1
        /\ DOMAIN new.shards = 1 .. Len(m.shards) + 1
        /\ DOMAIN m.shards = 1 .. Len(m.shards)
        /\ \A j \in DOMAIN m.shards : new.shards[j] = m.shards[j]
        /\ new.shards[Len(m.shards) + 1] = EmptyShard
    BY <1>1, <2>1, <2>2, AppendProperties
  <2>4. new \in MemoryType
    BY <1>1, <2>2, <2>3 DEF MemoryType
  <2>5. VocabOK(new) /\ Counted(new)
    BY <1>0, <2>2 DEF ByShard, VocabOK, Counted, LiveKeys
  <2>6. Routed(new)
    <3> SUFFICES ASSUME NEW k \in Keys
                 PROVE  /\ new.keyToShard[k] \in 0 .. Len(new.shards)
                        /\ \A j \in DOMAIN new.shards :
                             new.keyToShard[k] = j <=> new.shards[j].k2v[k] # Absent
      BY DEF Routed
    <3>1. /\ m.keyToShard[k] \in 0 .. Len(m.shards)
          /\ \A j \in DOMAIN m.shards :
               m.keyToShard[k] = j <=> m.shards[j].k2v[k] # Absent
      BY <1>0 DEF ByShard, Routed
    <3>2. EmptyShard.k2v[k] = Absent
      BY DEF EmptyShard
    <3>3. Len(m.shards) \in Nat
      BY <1>1
    <3> QED BY <2>2, <2>3, <3>1, <3>2, <3>3
  <2>7. \A j \in DOMAIN new.shards : ShardInv(new.shards[j], Len(new.vocabKeys))
    <3>1. Len(m.shards) \in Nat
      BY <1>1
    <3> QED BY <1>0, <2>1, <2>2, <2>3, <3>1 DEF ByShard
  <2>8. Coherent(new)
    BY <2>4, <2>5, <2>6, <2>7, CoherentByShard DEF ByShard
  <2>9. EmptyShard.keys = <<>>
    BY DEF EmptyShard
  <2>10. Len(m.shards) \in Nat
    BY <1>1
  <2> QED BY <2>2, <2>3, <2>8, <2>9, <2>10 DEF new
<1> QED BY <1>2, <1>3

(* A new key added to a last shard with room.                              *)
LEMMA PlacedCoherent ==
  ASSUME NEW m, Coherent(m), NEW key \in Keys, m.keyToShard[key] = NoShard,
         NEW row \in Rows, row < Len(m.vocabKeys),
         Len(m.shards) \in DOMAIN m.shards,
         \/ Len(m.shards[Len(m.shards)].keys) < ShardCapacity
         \/ m.shards[Len(m.shards)].keys = <<>>
  PROVE  Coherent(Placed(m, key, row))
<1> DEFINE new == Placed(m, key, row)
           n   == Len(m.vocabKeys)
           i   == Len(m.shards)
           sh  == ShardExtended(m.shards[i], key, row)
<1>0. ByShard(m)
  BY CoherentByShard
<1>1. /\ m \in MemoryType
      /\ m.shards \in Seq(ShardType)
      /\ m.keyToShard \in [Keys -> Nat]
      /\ m.totalFacts \in Int
      /\ n \in Nat
  BY <1>0 DEF ByShard, MemoryType
<1>2. i \in 1 .. Len(m.shards) /\ i \in Nat /\ i # NoShard
  BY <1>1 DEF NoShard
<1>3. m.shards[i].k2v[key] = Absent /\ ShardInv(m.shards[i], n)
  BY <1>0, <1>2 DEF ByShard, Routed
<1>4. /\ ShardInv(sh, n)
      /\ \A k \in Keys : sh.k2v[k] # Absent
                           <=> k = key \/ m.shards[i].k2v[k] # Absent
  BY <1>1, <1>3, ShardExtendedInv
<1> HIDE DEF sh
<1>5. sh \in ShardType
  BY <1>4 DEF ShardInv
<1>6. /\ new.shards = [m.shards EXCEPT ![i] = sh]
      /\ new.vocabKeys = m.vocabKeys
      /\ new.vocabIndex = m.vocabIndex
      /\ new.keyToShard = [m.keyToShard EXCEPT ![key] = i]
      /\ new.totalFacts = m.totalFacts + 1
      /\ new = [m EXCEPT !.shards = new.shards,
                         !.keyToShard = new.keyToShard,
                         !.totalFacts = new.totalFacts]
  BY <1>1 DEF Placed, MemoryType, sh
<1> HIDE DEF new
<1>7. /\ new.shards \in Seq(ShardType)
      /\ Len(new.shards) = Len(m.shards)
      /\ DOMAIN new.shards = DOMAIN m.shards
      /\ DOMAIN m.shards = 1 .. Len(m.shards)
      /\ \A j \in DOMAIN m.shards :
           new.shards[j] = IF j = i THEN sh ELSE m.shards[j]
  BY <1>1, <1>2, <1>5, <1>6, ExceptSeq
<1>8. new \in MemoryType
  <2>1. new.keyToShard \in [Keys -> Nat] /\ new.totalFacts \in Int
    BY <1>1, <1>2, <1>6
  <2> QED BY <1>1, <1>6, <1>7, <2>1 DEF MemoryType
<1>9. VocabOK(new)
  BY <1>0, <1>6 DEF ByShard, VocabOK
<1>10. Counted(new)
  <2>1. LiveKeys(new) = LiveKeys(m) \cup {key}
    BY <1>1, <1>2, <1>6 DEF LiveKeys
  <2>2. key \notin LiveKeys(m)
    BY DEF LiveKeys
  <2> QED BY <1>0, <1>6, <2>1, <2>2, FS_AddElement DEF ByShard, Counted
<1>11. Routed(new)
  <2> SUFFICES ASSUME NEW k \in Keys
               PROVE  /\ new.keyToShard[k] \in 0 .. Len(new.shards)
                      /\ \A j \in DOMAIN new.shards :
                           new.keyToShard[k] = j <=> new.shards[j].k2v[k] # Absent
    BY DEF Routed
  <2>1. /\ m.keyToShard[k] \in 0 .. Len(m.shards)
        /\ \A j \in DOMAIN m.shards :
             m.keyToShard[k] = j <=> m.shards[j].k2v[k] # Absent
    BY <1>0 DEF ByShard, Routed
  <2>2. CASE k = key
    <3>1. new.keyToShard[k] = i
      BY <1>1, <1>6, <2>2
    <3>2. \A j \in DOMAIN m.shards : m.shards[j].k2v[k] = Absent
      BY <1>7, <2>1, <2>2 DEF NoShard
    <3> HIDE DEF i
    <3> QED BY <1>2, <1>4, <1>7, <2>2, <3>1, <3>2
  <2>3. CASE k # key
    <3>1. new.keyToShard[k] = m.keyToShard[k]
      BY <1>1, <1>6, <2>3
    <3> HIDE DEF i
    <3> QED BY <1>2, <1>4, <1>7, <2>1, <2>3, <3>1
  <2> QED BY <2>2, <2>3
<1>12. \A j \in DOMAIN new.shards : ShardInv(new.shards[j], Len(new.vocabKeys))
  BY <1>0, <1>4, <1>6, <1>7 DEF ByShard
<1>13. Coherent(new)
  BY <1>8, <1>9, <1>10, <1>11, <1>12, CoherentByShard DEF ByShard
<1> QED BY <1>13 DEF new

(* AdaptiveMemory::store, for a value the vocab can take.                  *)
LEMMA StoredCoherent ==
  ASSUME NEW m, Coherent(m), NEW key \in Keys, NEW value \in Values,
         CanRegister(m, value)
  PROVE  Coherent(Stored(m, key, value))
<1> DEFINE reg == Registered(m, value)
           row == reg.vocabIndex[value]
<1>1. /\ Coherent(reg)
      /\ row \in Rows
      /\ row < Len(reg.vocabKeys)
      /\ reg.keyToShard = m.keyToShard
  BY RegisteredCoherent
<1> HIDE DEF reg, row
<1>2. CASE m.keyToShard[key] # NoShard
  <2>1. Stored(m, key, value) = Overwritten(reg, key, row)
    BY <1>2 DEF Stored, reg, row
  <2> QED BY <1>1, <1>2, <2>1, OverwrittenCoherent
<1>3. CASE m.keyToShard[key] = NoShard
  <2> DEFINE w == WithRoom(reg)
  <2>1. Stored(m, key, value) = Placed(w, key, row)
    BY <1>3 DEF Stored, reg, row
  <2>2. /\ Coherent(w)
        /\ w.keyToShard = reg.keyToShard
        /\ w.vocabKeys = reg.vocabKeys
        /\ Len(w.shards) \in DOMAIN w.shards
        /\ \/ Len(w.shards[Len(w.shards)].keys) < ShardCapacity
           \/ w.shards[Len(w.shards)].keys = <<>>
    BY <1>1, WithRoomCoherent
  <2> HIDE DEF w
  <2>3. Coherent(Placed(w, key, row))
    BY <1>1, <1>3, <2>2, PlacedCoherent
  <2> QED BY <2>1, <2>3
<1> QED BY <1>2, <1>3

(* AdaptiveMemory::forget, for a key that holds a fact.                    *)
LEMMA ForgottenCoherent ==
  ASSUME NEW m, Coherent(m), NEW key \in Keys, Holds(m, key)
  PROVE  Coherent(Forgotten(m, key))
<1> DEFINE new == Forgotten(m, key)
           n   == Len(m.vocabKeys)
           i   == m.keyToShard[key]
           sh  == ShardWithout(m.shards[i], key)
<1>0. ByShard(m)
  BY CoherentByShard
<1>1. /\ m \in MemoryType
      /\ m.shards \in Seq(ShardType)
      /\ m.keyToShard \in [Keys -> Nat]
      /\ m.totalFacts \in Int
      /\ n \in Nat
  BY <1>0 DEF ByShard, MemoryType
<1>2. /\ i \in 1 .. Len(m.shards) /\ i \in DOMAIN m.shards
      /\ i \in Nat /\ i # NoShard
  BY <1>0, <1>1 DEF ByShard, Routed, NoShard, Holds
<1>3. m.shards[i].k2v[key] # Absent /\ ShardInv(m.shards[i], n)
  BY <1>0, <1>2 DEF ByShard, Routed
<1>4. /\ ShardInv(sh, n)
      /\ \A k \in Keys : sh.k2v[k] # Absent
                           <=> k # key /\ m.shards[i].k2v[k] # Absent
  BY <1>1, <1>3, ShardWithoutInv
<1> HIDE DEF sh
<1>5. sh \in ShardType
  BY <1>4 DEF ShardInv
<1>6. /\ new.shards = [m.shards EXCEPT ![i] = sh]
      /\ new.vocabKeys = m.vocabKeys
      /\ new.vocabIndex = m.vocabIndex
      /\ new.keyToShard = [m.keyToShard EXCEPT ![key] = NoShard]
      /\ new.totalFacts = m.totalFacts - 1
      /\ new = [m EXCEPT !.shards = new.shards,
                         !.keyToShard = new.keyToShard,
                         !.totalFacts = new.totalFacts]
  BY <1>1 DEF Forgotten, MemoryType, sh
<1> HIDE DEF new
<1>7. /\ new.shards \in Seq(ShardType)
      /\ Len(new.shards) = Len(m.shards)
      /\ DOMAIN new.shards = DOMAIN m.shards
      /\ DOMAIN m.shards = 1 .. Len(m.shards)
      /\ \A j \in DOMAIN m.shards :
           new.shards[j] = IF j = i THEN sh ELSE m.shards[j]
  BY <1>1, <1>2, <1>5, <1>6, ExceptSeq
<1>8. new \in MemoryType
  <2>1. new.keyToShard \in [Keys -> Nat] /\ new.totalFacts \in Int
    BY <1>1, <1>6 DEF NoShard
  <2> QED BY <1>1, <1>6, <1>7, <2>1 DEF MemoryType
<1>9. VocabOK(new)
  BY <1>0, <1>6 DEF ByShard, VocabOK
<1>10. Counted(new)
  <2>1. LiveKeys(new) = LiveKeys(m) \ {key}
    BY <1>1, <1>2, <1>6 DEF LiveKeys
  <2>2. key \in LiveKeys(m)
    BY <1>2 DEF LiveKeys
  <2> QED BY <1>0, <1>6, <2>1, <2>2, FS_RemoveElement DEF ByShard, Counted
<1>11. Routed(new)
  <2> SUFFICES ASSUME NEW k \in Keys
               PROVE  /\ new.keyToShard[k] \in 0 .. Len(new.shards)
                      /\ \A j \in DOMAIN new.shards :
                           new.keyToShard[k] = j <=> new.shards[j].k2v[k] # Absent
    BY DEF Routed
  <2>1. /\ m.keyToShard[k] \in 0 .. Len(m.shards)
        /\ \A j \in DOMAIN m.shards :
             m.keyToShard[k] = j <=> m.shards[j].k2v[k] # Absent
    BY <1>0 DEF ByShard, Routed
  <2>2. CASE k = key
    <3>1. new.keyToShard[k] = 0
      BY <1>1, <1>6, <2>2 DEF NoShard
    <3>2. \A j \in DOMAIN m.shards : j # i => m.shards[j].k2v[k] = Absent
      BY <2>1, <2>2
    <3>3. \A j \in DOMAIN m.shards : j # 0
      BY <1>7
    <3>4. Len(m.shards) \in Nat
      BY <1>1
    <3> HIDE DEF i
    <3> QED BY <1>2, <1>4, <1>7, <2>2, <3>1, <3>2, <3>3, <3>4
  <2>3. CASE k # key
    <3>1. new.keyToShard[k] = m.keyToShard[k]
      BY <1>1, <1>6, <2>3
    <3> HIDE DEF i
    <3> QED BY <1>2, <1>4, <1>7, <2>1, <2>3, <3>1
  <2> QED BY <2>2, <2>3
<1>12. \A j \in DOMAIN new.shards : ShardInv(new.shards[j], Len(new.vocabKeys))
  BY <1>0, <1>4, <1>6, <1>7 DEF ByShard
<1>13. Coherent(new)
  BY <1>8, <1>9, <1>10, <1>11, <1>12, CoherentByShard DEF ByShard
<1> QED BY <1>13 DEF new

-----------------------------------------------------------------------------
(* What a coherent memory says of the types of one of its shards.          *)
LEMMA ShardTypes ==
  ASSUME NEW m \in MemoryType, NEW i \in DOMAIN m.shards
  PROVE  /\ m.shards[i] \in ShardType
         /\ m.shards[i].keys \in Seq(Keys)
         /\ m.shards[i].k2v \in [Keys -> Rows \cup {Absent}]
         /\ i \in 1 .. Len(m.shards)
<1>1. m.shards \in Seq(ShardType)
  BY DEF MemoryType
<1>2. m.shards[i] \in ShardType /\ i \in 1 .. Len(m.shards)
  BY <1>1
<1> QED BY <1>2 DEF ShardType

(* The fact a key holds according to the books, k2v and key_to_shard.      *)
Content(m, k) ==
  IF m.keyToShard[k] = NoShard
  THEN NotFound
  ELSE m.vocabKeys[m.shards[m.keyToShard[k]].k2v[k] + 1]

(* A key that is routed has a registered row.                              *)
LEMMA RowOfLiveKey ==
  ASSUME NEW m, Coherent(m), NEW k \in Keys, m.keyToShard[k] # NoShard
  PROVE  /\ m.keyToShard[k] \in DOMAIN m.shards
         /\ m.shards[m.keyToShard[k]].k2v[k] \in 0 .. Len(m.vocabKeys) - 1
         /\ m.shards[m.keyToShard[k]].k2v[k] \in Rows
         /\ k \in Range(m.shards[m.keyToShard[k]].keys)
         /\ m.vocabKeys[m.shards[m.keyToShard[k]].k2v[k] + 1] \in Values
<1> DEFINE i == m.keyToShard[k]
           n == Len(m.vocabKeys)
<1>0. ByShard(m)
  BY CoherentByShard
<1>1. m.shards \in Seq(ShardType) /\ m.vocabKeys \in Seq(Values) /\ n \in Nat
  BY <1>0 DEF ByShard, MemoryType
<1>2. i \in DOMAIN m.shards
  BY <1>0, <1>1 DEF ByShard, Routed, NoShard
<1>3. m.shards[i].k2v[k] # Absent /\ ShardInv(m.shards[i], n)
  BY <1>0, <1>2 DEF ByShard, Routed
<1>4. m.shards[i].k2v[k] \in Rows /\ m.shards[i].k2v[k] < n
  BY <1>3 DEF ShardInv, ShardType
<1>5. m.shards[i].k2v[k] \in Nat
  BY <1>4, VocabCapAssumption DEF Rows
<1>6. k \in Range(m.shards[i].keys)
  BY <1>3 DEF ShardInv
<1> HIDE DEF i, n
<1>7. m.shards[i].k2v[k] \in 0 .. n - 1 /\ m.shards[i].k2v[k] + 1 \in 1 .. n
  BY <1>1, <1>4, <1>5
<1>8. m.vocabKeys[m.shards[i].k2v[k] + 1] \in Values
  BY <1>1, <1>7, SMTT(30) DEF n
<1> QED BY <1>2, <1>4, <1>6, <1>7, <1>8 DEF i, n

(* Decoding reads the books back out of M: in an exact superposition the   *)
(* row nearest to what is unbound is the row the key was bound with.       *)
LEMMA RetrievedIsContent ==
  ASSUME NEW m, Coherent(m), NEW k \in Keys
  PROVE  Retrieved(m, k) = Content(m, k)
<1>1. CASE m.keyToShard[k] = NoShard
  BY <1>1 DEF Retrieved, Decoded, Content
<1>2. CASE m.keyToShard[k] # NoShard
  <2> DEFINE i   == m.keyToShard[k]
             sh  == m.shards[i]
             n   == Len(m.vocabKeys)
             row == sh.k2v[k]
  <2>1. /\ i \in DOMAIN m.shards
        /\ row \in 0 .. n - 1
        /\ k \in Range(sh.keys)
    BY <1>2, RowOfLiveKey
  <2>2. n \in Nat /\ n <= VocabCap
    BY DEF Coherent, MemoryType, VocabIndexed
  <2>3. 0 .. n - 1 \subseteq Rows
    BY <2>2, VocabCapAssumption DEF Rows
  <2>4. \A r \in 0 .. n - 1 : sh.memory[k][r] = IF r = row THEN 1 ELSE 0
    BY <2>1, <2>3 DEF Coherent, Superposition
  <2> HIDE DEF row, sh, n, i
  <2>5. \A r \in 0 .. n - 1 :
          (\A q \in 0 .. n - 1 : \/ sh.memory[k][r] > sh.memory[k][q]
                                 \/ sh.memory[k][r] = sh.memory[k][q] /\ r <= q)
            <=> r = row
    <3> TAKE r \in 0 .. n - 1
    <3>1. sh.memory[k][row] = 1
      BY <2>1, <2>4
    <3>2. CASE r = row
      <4>1. \A q \in 0 .. n - 1 : sh.memory[k][q] = IF q = row THEN 1 ELSE 0
        BY <2>4
      <4> QED BY <3>1, <3>2, <4>1
    <3>3. CASE r # row
      <4>1. sh.memory[k][r] = 0
        BY <2>4, <3>3
      <4>2. ~(0 > 1) /\ ~(0 = 1)
        OBVIOUS
      <4> QED BY <2>1, <3>1, <3>3, <4>1, <4>2
    <3> QED BY <3>2, <3>3
  <2>6. Nearest(m, sh, k) = row
    BY <2>1, <2>5 DEF Nearest, n
  <2> QED BY <1>2, <2>1, <2>6 DEF Retrieved, Decoded, Content, i, sh, row
<1> QED BY <1>1, <1>2

(* Registering a value changes what no key decodes to.                     *)
LEMMA RegisteredContent ==
  ASSUME NEW m, Coherent(m), NEW value \in Values, CanRegister(m, value)
  PROVE  /\ \A k \in Keys : Content(Registered(m, value), k) = Content(m, k)
         /\ Registered(m, value).vocabKeys[Registered(m, value).vocabIndex[value] + 1]
              = value
         /\ Known(Registered(m, value)) = Known(m) \cup {value}
<1> DEFINE new == Registered(m, value)
           n   == Len(m.vocabKeys)
<1>1. /\ m.vocabKeys \in Seq(Values) /\ n \in Nat
      /\ m.vocabIndex \in [Values -> Rows \cup {Absent}]
      /\ m \in MemoryType
  BY DEF Coherent, MemoryType
<1>2. Coherent(new) /\ new.vocabIndex[value] \in Rows
  BY RegisteredCoherent
<1>3. /\ new.vocabIndex[value] < Len(new.vocabKeys)
      /\ new.vocabKeys[new.vocabIndex[value] + 1] = value
  BY <1>2 DEF Coherent, VocabIndexed
<1>4. CASE m.vocabIndex[value] # Absent
  <2>1. new = m
    BY <1>4 DEF Registered
  <2>2. new.vocabIndex[value] + 1 \in DOMAIN m.vocabKeys
    BY <1>1, <1>2, <1>3, <2>1, VocabCapAssumption DEF Rows
  <2>3. value \in Known(m)
    BY <1>3, <2>1, <2>2 DEF Known, Range
  <2> QED BY <1>3, <2>1, <2>3
<1>5. CASE m.vocabIndex[value] = Absent
  <2>1. /\ new.vocabKeys = Append(m.vocabKeys, value)
        /\ new.shards = m.shards
        /\ new.keyToShard = m.keyToShard
    BY <1>1, <1>5 DEF Registered, MemoryType
  <2> HIDE DEF new
  <2>2. /\ Len(new.vocabKeys) = n + 1
        /\ DOMAIN new.vocabKeys = 1 .. n + 1
        /\ DOMAIN m.vocabKeys = 1 .. n
        /\ \A j \in 1 .. n : new.vocabKeys[j] = m.vocabKeys[j]
        /\ new.vocabKeys[n + 1] = value
    BY <1>1, <2>1, AppendProperties
  <2>3. Known(new) = Known(m) \cup {value}
    <3>1. Known(new) = {new.vocabKeys[j] : j \in 1 .. n + 1}
      BY <2>2 DEF Known, Range
    <3>2. Known(m) = {m.vocabKeys[j] : j \in 1 .. n}
      BY <2>2 DEF Known, Range
    <3>3. \A j \in 1 .. n + 1 : j \in 1 .. n \/ j = n + 1
      BY <1>1
    <3>4. (1 .. n) \subseteq 1 .. n + 1 /\ n + 1 \in 1 .. n + 1
      BY <1>1
    <3> HIDE DEF n
    <3> QED BY <2>2, <3>1, <3>2, <3>3, <3>4
  <2>4. ASSUME NEW k \in Keys, m.keyToShard[k] # NoShard
        PROVE  Content(new, k) = Content(m, k)
    <3>1. m.shards[m.keyToShard[k]].k2v[k] \in 0 .. n - 1
      BY <2>4, RowOfLiveKey
    <3>2. \A x \in 0 .. n - 1 : x + 1 \in 1 .. n
      BY <1>1
    <3>3. m.shards[m.keyToShard[k]].k2v[k] + 1 \in 1 .. n
      BY <3>1, <3>2
    <3> QED BY <2>1, <2>2, <2>4, <3>3 DEF Content
  <2>5. ASSUME NEW k \in Keys, m.keyToShard[k] = NoShard
        PROVE  Content(new, k) = Content(m, k)
    BY <2>1, <2>5 DEF Content
  <2> QED BY <1>3, <2>3, <2>4, <2>5 DEF new
<1> QED BY <1>4, <1>5

(* store changes the fact of its key and of no other key.                  *)
LEMMA StoredContent ==
  ASSUME NEW m, Coherent(m), NEW key \in Keys, NEW value \in Values,
         CanRegister(m, value)
  PROVE  /\ \A k \in Keys : Content(Stored(m, key, value), k) =
                              IF k = key THEN value ELSE Content(m, k)
         /\ Known(Stored(m, key, value)) = Known(m) \cup {value}
         /\ Stored(m, key, value).vocabKeys = Registered(m, value).vocabKeys
         /\ \A k \in Keys : Stored(m, key, value).keyToShard[k] =
              IF k = key /\ m.keyToShard[key] = NoShard
              THEN Len(Stored(m, key, value).shards)
              ELSE m.keyToShard[k]
<1> DEFINE reg == Registered(m, value)
           row == reg.vocabIndex[value]
           new == Stored(m, key, value)
<1>1. /\ Coherent(reg)
      /\ row \in Rows
      /\ row < Len(reg.vocabKeys)
      /\ reg.keyToShard = m.keyToShard
  BY RegisteredCoherent
<1>2. /\ \A k \in Keys : Content(reg, k) = Content(m, k)
      /\ reg.vocabKeys[row + 1] = value
      /\ Known(reg) = Known(m) \cup {value}
  BY RegisteredContent
<1> HIDE DEF reg, row
<1>3. CASE m.keyToShard[key] # NoShard
  <2> DEFINE i == m.keyToShard[key]
  <2>1. new = Overwritten(reg, key, row)
    BY <1>3 DEF Stored, reg, row
  <2>2. reg \in MemoryType /\ i \in DOMAIN reg.shards
    BY <1>1, <1>3, RowOfLiveKey DEF Coherent
  <2>3. /\ new.keyToShard = m.keyToShard
        /\ new.vocabKeys = reg.vocabKeys
        /\ new.shards = [reg.shards EXCEPT
                           ![i] = ShardOverwritten(reg.shards[i], key, row)]
    BY <1>1, <2>1, <2>2 DEF Overwritten, MemoryType
  <2> HIDE DEF new
  <2>4. /\ reg.shards[i].k2v \in [Keys -> Rows \cup {Absent}]
        /\ new.shards[i] = ShardOverwritten(reg.shards[i], key, row)
        /\ \A j \in DOMAIN reg.shards : j # i => new.shards[j] = reg.shards[j]
    <3> HIDE DEF i
    <3>1. reg.shards \in Seq(ShardType)
      BY <2>2 DEF MemoryType
    <3> QED BY <2>2, <2>3, <3>1, ShardTypes
  <2>5. /\ new.shards[i].k2v[key] = row
        /\ \A k \in Keys \ {key} : new.shards[i].k2v[k] = reg.shards[i].k2v[k]
        /\ \A j \in DOMAIN reg.shards : j # i => new.shards[j] = reg.shards[j]
    <3> HIDE DEF i
    <3> QED BY <2>4 DEF ShardOverwritten
  <2>6. Content(new, key) = value
    BY <1>2, <1>3, <2>3, <2>5 DEF Content
  <2>7. ASSUME NEW k \in Keys, k # key
        PROVE  Content(new, k) = Content(m, k)
    <3>1. CASE m.keyToShard[k] = NoShard
      BY <2>3, <3>1 DEF Content
    <3>2. CASE m.keyToShard[k] # NoShard
      <4>1. m.keyToShard[k] \in DOMAIN reg.shards
        BY <1>1, <3>2, RowOfLiveKey
      <4>2. new.shards[m.keyToShard[k]].k2v[k] = reg.shards[m.keyToShard[k]].k2v[k]
        BY <2>5, <2>7, <4>1
      <4>3. Content(new, k) = Content(reg, k)
        BY <1>1, <2>3, <4>2 DEF Content
      <4> QED BY <1>2, <4>3
    <3> QED BY <3>1, <3>2
  <2>8. Known(new) = Known(reg)
    BY <2>3 DEF Known
  <2> QED BY <1>2, <1>3, <2>3, <2>6, <2>7, <2>8 DEF new, reg
<1>4. CASE m.keyToShard[key] = NoShard
  <2> DEFINE w == WithRoom(reg)
             i == Len(w.shards)
  <2>1. new = Placed(w, key, row)
    BY <1>4 DEF Stored, reg, row
  <2>2. /\ Coherent(w)
        /\ w.keyToShard = m.keyToShard
        /\ w.vocabKeys = reg.vocabKeys
        /\ i \in DOMAIN w.shards
    BY <1>1, WithRoomCoherent
  <2>3. \A j \in DOMAIN reg.shards : w.shards[j] = reg.shards[j]
    <3>1. reg.shards \in Seq(ShardType)
      BY <1>1 DEF Coherent, MemoryType
    <3>2. CASE NeedsShard(reg)
      <4>1. w.shards = Append(reg.shards, EmptyShard)
        BY <1>1, <3>2 DEF WithRoom, Coherent, MemoryType
      <4>2. EmptyShard \in ShardType
        BY EmptyShardInv DEF ShardInv
      <4> QED BY <3>1, <4>1, <4>2, AppendProperties
    <3>3. CASE ~NeedsShard(reg)
      BY <3>3 DEF WithRoom
    <3> QED BY <3>2, <3>3
  <2> HIDE DEF w
  <2>4. /\ w \in MemoryType
        /\ w.keyToShard \in [Keys -> Nat]
        /\ w.shards \in Seq(ShardType)
    BY <2>2 DEF Coherent, MemoryType
  <2>5. /\ new.keyToShard = [w.keyToShard EXCEPT ![key] = i]
        /\ new.vocabKeys = reg.vocabKeys
        /\ new.shards = [w.shards EXCEPT
                           ![i] = ShardExtended(w.shards[i], key, row)]
    BY <2>1, <2>2, <2>4 DEF Placed, MemoryType
  <2>6. Len(new.shards) = i
    BY <2>4, <2>5
  <2> HIDE DEF new
  <2>7. w.shards[i].k2v \in [Keys -> Rows \cup {Absent}]
    BY <2>2, <2>4, ShardTypes
  <2>8. i # NoShard
    BY <2>2, <2>4 DEF NoShard
  <2>9. /\ new.shards[i].k2v[key] = row
        /\ \A k \in Keys \ {key} : new.shards[i].k2v[k] = w.shards[i].k2v[k]
        /\ \A j \in DOMAIN w.shards : j # i => new.shards[j] = w.shards[j]
        /\ new.keyToShard[key] = i
        /\ \A k \in Keys \ {key} : new.keyToShard[k] = m.keyToShard[k]
    BY <2>2, <2>4, <2>5, <2>7 DEF ShardExtended
  <2>10. Content(new, key) = value
    BY <1>2, <2>5, <2>8, <2>9 DEF Content
  <2>11. ASSUME NEW k \in Keys, k # key
         PROVE  Content(new, k) = Content(m, k)
    <3>1. new.keyToShard[k] = m.keyToShard[k]
      BY <2>9, <2>11
    <3>2. CASE m.keyToShard[k] = NoShard
      BY <3>1, <3>2 DEF Content
    <3>3. CASE m.keyToShard[k] # NoShard
      <4> DEFINE j == m.keyToShard[k]
      <4>1. j \in DOMAIN reg.shards
        BY <1>1, <3>3, RowOfLiveKey
      <4>2. j \in DOMAIN w.shards
        BY <2>2, <3>3, RowOfLiveKey
      <4>3. new.shards[j].k2v[k] = w.shards[j].k2v[k]
        BY <2>9, <2>11, <4>2
      <4>4. new.shards[j].k2v[k] = reg.shards[j].k2v[k]
        BY <2>3, <4>1, <4>3
      <4>5. Content(new, k) = Content(reg, k)
        BY <1>1, <2>5, <3>1, <4>4 DEF Content
      <4> QED BY <1>2, <4>5
    <3> QED BY <3>2, <3>3
  <2>12. Known(new) = Known(reg)
    BY <2>5 DEF Known
  <2> QED BY <1>2, <1>4, <2>5, <2>6, <2>9, <2>10, <2>11, <2>12 DEF new, reg
<1> QED BY <1>3, <1>4

(* forget removes the fact of its key and of no other key.                 *)
LEMMA ForgottenContent ==
  ASSUME NEW m, Coherent(m), NEW key \in Keys, Holds(m, key)
  PROVE  /\ \A k \in Keys : Content(Forgotten(m, key), k) =
                              IF k = key THEN NotFound ELSE Content(m, k)
         /\ Forgotten(m, key).vocabKeys = m.vocabKeys
         /\ \A k \in Keys : Forgotten(m, key).keyToShard[k] =
              IF k = key THEN NoShard ELSE m.keyToShard[k]
<1> DEFINE i   == m.keyToShard[key]
           new == Forgotten(m, key)
<1>1. m.keyToShard[key] # NoShard
  BY DEF Holds
<1>2. /\ m \in MemoryType
      /\ m.keyToShard \in [Keys -> Nat]
      /\ i \in DOMAIN m.shards
  BY <1>1, RowOfLiveKey DEF Coherent, MemoryType
<1>3. /\ new.keyToShard = [m.keyToShard EXCEPT ![key] = NoShard]
      /\ new.vocabKeys = m.vocabKeys
      /\ new.shards = [m.shards EXCEPT ![i] = ShardWithout(m.shards[i], key)]
  BY <1>2 DEF Forgotten, MemoryType
<1> HIDE DEF new
<1>4. /\ m.shards[i].k2v \in [Keys -> Rows \cup {Absent}]
      /\ new.shards[i] = ShardWithout(m.shards[i], key)
      /\ \A j \in DOMAIN m.shards : j # i => new.shards[j] = m.shards[j]
  <2> HIDE DEF i
  <2>1. m.shards \in Seq(ShardType)
    BY <1>2 DEF MemoryType
  <2> QED BY <1>2, <1>3, <2>1, ShardTypes
<1>5. /\ \A k \in Keys \ {key} : new.shards[i].k2v[k] = m.shards[i].k2v[k]
      /\ \A j \in DOMAIN m.shards : j # i => new.shards[j] = m.shards[j]
      /\ new.keyToShard[key] = NoShard
      /\ \A k \in Keys \ {key} : new.keyToShard[k] = m.keyToShard[k]
  <2> HIDE DEF i
  <2>1. \A k \in Keys \ {key} : new.shards[i].k2v[k] = m.shards[i].k2v[k]
    BY <1>4 DEF ShardWithout
  <2> QED BY <1>2, <1>3, <1>4, <2>1
<1>6. Content(new, key) = NotFound
  BY <1>5 DEF Content
<1>7. ASSUME NEW k \in Keys, k # key
      PROVE  Content(new, k) = Content(m, k)
  <2>1. new.keyToShard[k] = m.keyToShard[k]
    BY <1>5, <1>7
  <2>2. CASE m.keyToShard[k] = NoShard
    BY <2>1, <2>2 DEF Content
  <2>3. CASE m.keyToShard[k] # NoShard
    <3>1. m.keyToShard[k] \in DOMAIN m.shards
      BY <2>3, RowOfLiveKey
    <3>2. new.shards[m.keyToShard[k]].k2v[k] = m.shards[m.keyToShard[k]].k2v[k]
      BY <1>5, <1>7, <3>1
    <3> QED BY <1>3, <2>1, <3>2 DEF Content
  <2> QED BY <2>2, <2>3
<1> QED BY <1>3, <1>5, <1>6, <1>7 DEF new

-----------------------------------------------------------------------------
(* The registered values are as many as the rows in use.                   *)
LEMMA KnownCount ==
  ASSUME NEW m, Coherent(m)
  PROVE  /\ IsFiniteSet(Known(m))
         /\ Cardinality(Known(m)) = Len(m.vocabKeys)
         /\ \A v \in Values : v \in Known(m) <=> m.vocabIndex[v] # Absent
<1> DEFINE n == Len(m.vocabKeys)
<1>1. /\ m.vocabKeys \in Seq(Values) /\ n \in Nat /\ n <= VocabCap
      /\ m.vocabIndex \in [Values -> Rows \cup {Absent}]
      /\ DOMAIN m.vocabKeys = 1 .. n
  BY DEF Coherent, MemoryType, VocabIndexed
<1>2. ASSUME NEW a \in 1 .. n
      PROVE  m.vocabIndex[m.vocabKeys[a]] = a - 1
  <2>1. a - 1 \in Rows /\ a - 1 < n /\ (a - 1) + 1 = a
    BY <1>1, VocabCapAssumption DEF Rows
  <2>2. m.vocabKeys[a] \in Values
    BY <1>1
  <2> QED BY <2>1, <2>2 DEF Coherent, VocabIndexed
<1>3. m.vocabKeys \in Bijection(1 .. n, Known(m))
  <2>1. IsInjective(m.vocabKeys)
    <3> SUFFICES ASSUME NEW a \in 1 .. n, NEW b \in 1 .. n,
                        m.vocabKeys[a] = m.vocabKeys[b]
                 PROVE  a = b
      BY <1>1 DEF IsInjective
    <3>1. a - 1 = b - 1
      BY <1>2
    <3> QED BY <3>1
  <2>2. m.vocabKeys \in [1 .. n -> Known(m)]
    BY <1>1 DEF Known, Range
  <2>3. \A v \in Known(m) : \E a \in 1 .. n : m.vocabKeys[a] = v
    BY <1>1 DEF Known, Range
  <2> QED BY <2>1, <2>2, <2>3 DEF Bijection, Injection, Surjection
<1>4. IsFiniteSet(Known(m)) /\ Cardinality(Known(m)) = n
  <2>1. IsFiniteSet(1 .. n) /\ Cardinality(1 .. n) = n
    BY <1>1, FS_Interval
  <2>2. ExistsBijection(1 .. n, Known(m))
    BY <1>3 DEF ExistsBijection
  <2> QED BY <2>1, <2>2, FS_Bijection
<1>5. ASSUME NEW v \in Values, m.vocabIndex[v] # Absent
      PROVE  v \in Known(m)
  <2>1. m.vocabIndex[v] \in Rows
    BY <1>1, <1>5
  <2>2. m.vocabIndex[v] < n /\ m.vocabKeys[m.vocabIndex[v] + 1] = v
    BY <2>1 DEF Coherent, VocabIndexed
  <2>3. m.vocabIndex[v] + 1 \in 1 .. n
    BY <1>1, <2>1, <2>2, VocabCapAssumption DEF Rows
  <2> QED BY <1>1, <2>2, <2>3 DEF Known, Range
<1>6. ASSUME NEW v \in Values, v \in Known(m)
      PROVE  m.vocabIndex[v] # Absent
  <2>1. PICK a \in 1 .. n : m.vocabKeys[a] = v
    BY <1>1, <1>6 DEF Known, Range
  <2>2. m.vocabIndex[v] = a - 1
    BY <1>2, <2>1
  <2> QED BY <2>2 DEF Absent
<1> QED BY <1>4, <1>5, <1>6

(* register refuses a value exactly when it is new and VocabCap values     *)
(* are known already.                                                      *)
LEMMA CanRegisterIsRoom ==
  ASSUME NEW m, Coherent(m), NEW v \in Values
  PROVE  CanRegister(m, v) <=> v \in Known(m) \/ Cardinality(Known(m)) < VocabCap
BY KnownCount DEF CanRegister

-----------------------------------------------------------------------------
(* The keys of all facts, shard after shard, each shard in store order.    *)
ShardKeys(m) == [i \in DOMAIN m.shards |-> m.shards[i].keys]
FactKeys(m) == FlattenSeq(ShardKeys(m))

(* Every shard but the last is full.                                       *)
Full(m) == \A i \in 1 .. Len(m.shards) - 1 : Len(m.shards[i].keys) >= ShardCapacity

(* The keys vectors of the shards, as a sequence of sequences.             *)
LEMMA ShardKeysType ==
  ASSUME NEW m \in MemoryType
  PROVE  /\ ShardKeys(m) \in Seq(Seq(Keys))
         /\ Len(ShardKeys(m)) = Len(m.shards)
         /\ \A i \in 1 .. Len(m.shards) : ShardKeys(m)[i] = m.shards[i].keys
         /\ FactKeys(m) \in Seq(Keys)
<1>1. m.shards \in Seq(ShardType) /\ Len(m.shards) \in Nat
  BY DEF MemoryType
<1>2. \A i \in 1 .. Len(m.shards) : m.shards[i].keys \in Seq(Keys)
  BY <1>1, ShardTypes
<1>3. /\ ShardKeys(m) \in Seq(Seq(Keys))
      /\ Len(ShardKeys(m)) = Len(m.shards)
      /\ \A i \in 1 .. Len(m.shards) : ShardKeys(m)[i] = m.shards[i].keys
  BY <1>1, <1>2 DEF ShardKeys
<1> QED BY <1>3, FlattenType DEF FactKeys

(* Each live key is in one shard, once, and no other key is in any.        *)
LEMMA FactKeysLive ==
  ASSUME NEW m, Coherent(m)
  PROVE  /\ FactKeys(m) \in Seq(Keys)
         /\ IsInjective(FactKeys(m))
         /\ Range(FactKeys(m)) = LiveKeys(m)
<1> DEFINE n == Len(m.shards)
           ss == ShardKeys(m)
<1>1. /\ m \in MemoryType /\ n \in Nat /\ DOMAIN m.shards = 1 .. n
      /\ m.keyToShard \in [Keys -> Nat]
  BY DEF Coherent, MemoryType
<1>2. /\ ss \in Seq(Seq(Keys)) /\ Len(ss) = n /\ DOMAIN ss = 1 .. n
      /\ \A i \in 1 .. n : ss[i] = m.shards[i].keys
      /\ FactKeys(m) \in Seq(Keys)
  BY <1>1, ShardKeysType
<1>3. \A i \in 1 .. n : Range(ss[i]) \subseteq Keys
  BY <1>2, RangeOfSeq
<1>4. \A k \in Keys, i \in 1 .. n : k \in Range(ss[i]) <=> m.keyToShard[k] = i
  <2>1. \A k \in Keys, i \in DOMAIN m.shards :
          k \in Range(m.shards[i].keys) <=> m.keyToShard[k] = i
    BY <1>1 DEF Coherent, Routing
  <2> HIDE DEF ss, n
  <2> QED BY <1>1, <1>2, <2>1
<1>5. \A i \in 1 .. n : IsInjective(ss[i])
  BY <1>1, <1>2 DEF Coherent, DistinctKeys
<1> HIDE DEF ss, n
<1>6. \A i, j \in 1 .. n : i # j => Range(ss[i]) \cap Range(ss[j]) = {}
  BY <1>3, <1>4
<1>7. /\ IsInjective(FlattenSeq(ss))
      /\ \A x : x \in Range(FlattenSeq(ss)) <=> \E i \in 1 .. n : x \in Range(ss[i])
  BY <1>2, <1>5, <1>6, FlattenRange
<1>8. \A k \in Keys : m.keyToShard[k] # NoShard <=> m.keyToShard[k] \in 1 .. n
  BY <1>1 DEF Coherent, Routing, NoShard, n
<1>9. Range(FactKeys(m)) = LiveKeys(m)
  BY <1>3, <1>4, <1>7, <1>8 DEF FactKeys, LiveKeys, ss
<1> QED BY <1>2, <1>7, <1>9 DEF FactKeys, ss

(* A new fact comes after all others, and a shard is opened only when the  *)
(* last one is full.                                                       *)
LEMMA StoredAppends ==
  ASSUME NEW m, Coherent(m), NEW key \in Keys, NEW value \in Values,
         CanRegister(m, value), m.keyToShard[key] = NoShard
  PROVE  /\ FactKeys(Stored(m, key, value)) = Append(FactKeys(m), key)
         /\ Full(m) => Full(Stored(m, key, value))
<1> DEFINE reg == Registered(m, value)
           row == reg.vocabIndex[value]
           w   == WithRoom(reg)
           i   == Len(w.shards)
           new == Stored(m, key, value)
           n   == Len(m.shards)
           ss  == ShardKeys(m)
           tt  == ShardKeys(new)
<1>1. /\ Coherent(reg) /\ row \in Rows
      /\ reg.shards = m.shards /\ reg.keyToShard = m.keyToShard
  BY RegisteredCoherent
<1>2. new = Placed(w, key, row)
  BY DEF Stored
<1>3. Coherent(w) /\ i \in DOMAIN w.shards
  BY <1>1, WithRoomCoherent
<1>4. /\ m \in MemoryType /\ reg \in MemoryType /\ w \in MemoryType
      /\ m.shards \in Seq(ShardType) /\ w.shards \in Seq(ShardType)
      /\ n \in Nat /\ DOMAIN m.shards = 1 .. n
  BY <1>1, <1>3 DEF Coherent, MemoryType
<1>5. Coherent(new)
  BY StoredCoherent
<1> HIDE DEF reg, row
<1>6. /\ new.shards = [w.shards EXCEPT ![i] = ShardExtended(w.shards[i], key, row)]
      /\ new \in MemoryType
  BY <1>2, <1>3, <1>4, <1>5 DEF Placed, MemoryType, Coherent
<1> HIDE DEF w, new
<1>7. /\ ss \in Seq(Seq(Keys)) /\ Len(ss) = n
      /\ \A j \in 1 .. n : ss[j] = m.shards[j].keys
      /\ tt \in Seq(Seq(Keys)) /\ Len(tt) = Len(new.shards)
      /\ \A j \in 1 .. Len(new.shards) : tt[j] = new.shards[j].keys
  BY <1>4, <1>6, ShardKeysType
<1>8. /\ Len(new.shards) = i
      /\ new.shards[i].keys = Append(w.shards[i].keys, key)
      /\ \A j \in 1 .. i - 1 : new.shards[j] = w.shards[j]
  <2> DEFINE sh == ShardExtended(w.shards[i], key, row)
             ws == w.shards
             ns == new.shards
  <2>1. sh.keys = Append(w.shards[i].keys, key)
    BY DEF ShardExtended
  <2>2. ws \in Seq(ShardType) /\ i = Len(ws) /\ i \in DOMAIN ws /\ ns = [ws EXCEPT ![i] = sh]
    BY <1>3, <1>4, <1>6
  <2> HIDE DEF sh, ws, ns, i
  <2>3. Len(ns) = i /\ ns[i] = sh /\ \A j \in 1 .. i - 1 : ns[j] = ws[j]
    BY <2>2
  <2> QED BY <2>1, <2>3 DEF ns, ws
<1> HIDE DEF ss, tt
<1>9. CASE NeedsShard(m)
  <2>1. w.shards = Append(m.shards, EmptyShard)
    BY <1>1, <1>4, <1>9 DEF w, WithRoom, NeedsShard, MemoryType
  <2>2. EmptyShard \in ShardType /\ EmptyShard.keys = <<>>
    BY EmptyShardInv DEF ShardInv, EmptyShard
  <2>3. /\ i = n + 1
        /\ w.shards[i].keys = <<>>
        /\ \A j \in 1 .. n : w.shards[j] = m.shards[j]
    BY <1>4, <2>1, <2>2, AppendProperties
  <2>4. Append(<<>>, key) = <<key>> /\ <<key>> \in Seq(Keys)
    OBVIOUS
  <2>5. Len(tt) = n + 1 /\ tt[n + 1] = <<key>> /\ \A j \in 1 .. n : tt[j] = ss[j]
    <3>1. Len(new.shards) = n + 1 /\ n + 1 \in 1 .. n + 1
      BY <1>4, <1>8, <2>3
    <3>2. \A j \in 1 .. n : j \in 1 .. n + 1 /\ j \in 1 .. i - 1
      BY <1>4, <2>3
    <3> HIDE DEF n, i
    <3>3. \A j \in 1 .. n : new.shards[j] = m.shards[j]
      BY <1>8, <2>3, <3>2
    <3>4. tt[n + 1] = new.shards[n + 1].keys
      BY <1>7, <3>1
    <3>5. new.shards[n + 1].keys = <<key>>
      BY <1>8, <2>3, <2>4
    <3>6. \A j \in 1 .. n : tt[j] = m.shards[j].keys
      BY <1>7, <2>3, <3>1, <3>2, <3>3
    <3> QED BY <1>7, <3>1, <3>4, <3>5, <3>6
  <2>6. tt = Append(ss, <<key>>)
    <3> DEFINE uu == Append(ss, <<key>>)
    <3>1. /\ uu \in Seq(Seq(Keys)) /\ Len(uu) = n + 1 /\ uu[n + 1] = <<key>>
          /\ \A j \in 1 .. n : uu[j] = ss[j]
      BY <1>7, <2>4, AppendProperties
    <3> HIDE DEF uu
    <3>2. \A j \in 1 .. n + 1 : j \in 1 .. n \/ j = n + 1
      BY <1>4
    <3>3. \A j \in 1 .. Len(tt) : tt[j] = uu[j]
      BY <2>5, <3>1, <3>2
    <3>4. tt = uu
      BY <1>7, <2>5, <3>1, <3>3, SeqEqual
    <3> QED BY <3>4 DEF uu
  <2>7. FlattenSeq(tt) = FlattenSeq(ss) \o <<key>>
    BY <1>7, <2>4, <2>6, FlattenAppend
  <2>8. FlattenSeq(tt) = Append(FlattenSeq(ss), key)
    BY <1>7, <2>7, FlattenType, AppendIsConcat
  <2>9. ASSUME Full(m) PROVE Full(new)
    <3> SUFFICES ASSUME NEW j \in 1 .. i - 1
                 PROVE  Len(new.shards[j].keys) >= ShardCapacity
      BY <1>8 DEF Full
    <3>1. new.shards[j] = m.shards[j] /\ j \in 1 .. n
      BY <1>4, <1>8, <2>3
    <3>2. CASE j = n
      BY <1>4, <1>9, <3>1, <3>2 DEF NeedsShard
    <3>3. CASE j # n
      BY <1>4, <2>9, <3>1, <3>3 DEF Full
    <3> QED BY <3>2, <3>3
  <2> QED BY <2>8, <2>9 DEF FactKeys, ss, tt, new
<1>10. CASE ~NeedsShard(m)
  <2>1. w = reg
    BY <1>1, <1>10 DEF w, WithRoom, NeedsShard
  <2>2. w.shards = m.shards /\ i = n /\ n # 0
    BY <1>1, <1>4, <1>10, <2>1 DEF NeedsShard
  <2>3. Len(tt) = n /\ tt[n] = Append(ss[n], key) /\ \A j \in 1 .. n - 1 : tt[j] = ss[j]
    <3>1. Len(new.shards) = n /\ n \in 1 .. n
      BY <1>4, <1>8, <2>2
    <3>2. \A j \in 1 .. n - 1 : j \in 1 .. n
      BY <1>4
    <3> HIDE DEF n, i
    <3>3. \A j \in 1 .. n - 1 : new.shards[j] = m.shards[j]
      BY <1>8, <2>2
    <3>4. new.shards[n].keys = Append(m.shards[n].keys, key)
      BY <1>8, <2>2
    <3> QED BY <1>7, <3>1, <3>2, <3>3, <3>4
  <2>4. tt = [ss EXCEPT ![Len(ss)] = Append(@, key)]
    <3>1. /\ ss = [j \in 1 .. n |-> ss[j]]
          /\ tt = [j \in 1 .. n |-> tt[j]]
      BY <1>7, <2>3
    <3>2. \A j \in 1 .. n : j \in 1 .. n - 1 \/ j = n
      BY <1>4
    <3>3. \A j \in 1 .. n : tt[j] = IF j = n THEN Append(ss[n], key) ELSE ss[j]
      BY <2>3, <3>2
    <3>4. tt = [j \in 1 .. n |-> IF j = n THEN Append(ss[n], key) ELSE ss[j]]
      BY <3>1, <3>3
    <3> QED BY <1>7, <3>1, <3>4
  <2>5. FlattenSeq(tt) = Append(FlattenSeq(ss), key)
    BY <1>7, <2>2, <2>4, FlattenLast
  <2>6. ASSUME Full(m) PROVE Full(new)
    BY <1>4, <1>8, <2>2, <2>6 DEF Full
  <2> QED BY <2>5, <2>6 DEF FactKeys, ss, tt, new
<1> QED BY <1>9, <1>10
=============================================================================
