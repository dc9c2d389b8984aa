----------------------- MODULE PersonalMemory_proofs ------------------------
(***************************************************************************)
(* The theorems about PersonalMemory.  The schema, the export and the      *)
(* erasure speak of the facts that the memory underneath holds, so they    *)
(* rest on what AdaptiveOps_proofs proves of store, forget and retrieve;   *)
(* what is added here is the loops of ingest and forget_all.               *)
(***************************************************************************)
EXTENDS PersonalMemory, AdaptiveOps_proofs

(* What the schema of a memory m promises.                                 *)
Covers(m, s) ==
  \A p \in Predicates :
    /\ IsInjective(s[p])
    /\ Range(s[p]) \subseteq Known(m)
    /\ Retrieved(m, p) # NotFound => Retrieved(m, p) \in Range(s[p])

(* A message under way: the memory and the schema stay in step.            *)
Progress ==
  {pm \in [mem    : MemoryType,
           schema : [Predicates -> Seq(Values)],
           stored : Seq(Facts),
           ok     : BOOLEAN] : Coherent(pm.mem) /\ Covers(pm.mem, pm.schema)}

(* A fact names a predicate of the user, and a value, in lower case.       *)
LEMMA FactType ==
  ASSUME NEW fact \in Facts
  PROVE  /\ fact.predicate \in Predicates /\ fact.predicate \in Keys
         /\ fact.obj \in Values
<1>1. PICK p \in Predicates, v \in UserValues : fact = NewFact(p, v)
  BY DEF Facts
<1>2. fact.predicate = Fold[p] /\ fact.obj = FoldValue[v]
  BY <1>1 DEF NewFact
<1>3. p \in Keys /\ p \notin AuditKeys /\ v \in Values
  BY FoldAssumption DEF Predicates
<1>4. Fold[p] \in Keys /\ Fold[p] \notin AuditKeys /\ FoldValue[v] \in Values
  BY <1>3, FoldAssumption
<1> QED BY <1>2, <1>4 DEF Predicates

(* A key answers NotFound exactly when it is not routed to a shard.        *)
LEMMA FoundIsRouted ==
  ASSUME NEW m, Coherent(m), NEW k \in Keys
  PROVE  /\ Retrieved(m, k) # NotFound <=> m.keyToShard[k] # NoShard
         /\ Retrieved(m, k) # NotFound => Retrieved(m, k) \in Values
         /\ Holds(m, k) <=> m.keyToShard[k] # NoShard
<1>1. Retrieved(m, k) = Content(m, k)
  BY RetrievedIsContent
<1>2. CASE m.keyToShard[k] = NoShard
  BY <1>1, <1>2 DEF Content, Holds
<1>3. CASE m.keyToShard[k] # NoShard
  <2>1. /\ m.shards[m.keyToShard[k]].k2v[k] \in Rows
        /\ m.vocabKeys[m.shards[m.keyToShard[k]].k2v[k] + 1] \in Values
    BY <1>3, RowOfLiveKey
  <2>2. Absent \notin Rows
    BY VocabCapAssumption DEF Absent, Rows
  <2>3. Content(m, k) \in Values
    BY <1>3, <2>1 DEF Content
  <2>4. Holds(m, k)
    BY <1>3, <2>1, <2>2 DEF Holds
  <2> QED BY <1>1, <1>3, <2>3, <2>4, NotFoundAssumption
<1> QED BY <1>2, <1>3

-----------------------------------------------------------------------------
(* store_fact adds the value to the schema exactly when it stores it, so   *)
(* the schema goes on covering the facts, once each.                       *)
LEMMA StoredFactKeeps ==
  ASSUME NEW pm \in Progress, NEW fact \in Facts
  PROVE  StoredFact(pm, fact) \in Progress
<1> DEFINE key == fact.predicate
           v   == fact.obj
           s   == pm.schema
           new == Stored(pm.mem, key, v)
           t   == [s EXCEPT ![key] = IF v \in Range(@) THEN @ ELSE Append(@, v)]
<1>1. /\ pm.mem \in MemoryType /\ s \in [Predicates -> Seq(Values)]
      /\ pm.stored \in Seq(Facts) /\ pm.ok \in BOOLEAN
      /\ Coherent(pm.mem) /\ Covers(pm.mem, s)
  BY DEF Progress
<1>2. key \in Predicates /\ key \in Keys /\ v \in Values
  BY FactType
<1>3. CASE pm.ok /\ CanRegister(pm.mem, v)
  <2>1. StoredFact(pm, fact) =
          [mem |-> new, schema |-> t, stored |-> Append(pm.stored, fact), ok |-> TRUE]
    BY <1>3 DEF StoredFact
  <2>2. Coherent(new) /\ new \in MemoryType
    <3>1. Coherent(new)
      BY <1>1, <1>2, <1>3, StoredCoherent
    <3> QED BY <3>1 DEF Coherent
  <2>3. Append(pm.stored, fact) \in Seq(Facts)
    BY <1>1
  <2>4. /\ \A k \in Keys : Content(new, k) = IF k = key THEN v ELSE Content(pm.mem, k)
        /\ Known(new) = Known(pm.mem) \cup {v}
    BY <1>1, <1>2, <1>3, StoredContent
  <2> HIDE DEF new, t, key, v, s
  <2>5. \A p \in Predicates : p # key => t[p] = s[p]
    BY <1>1, <1>2 DEF t
  <2>6. t[key] = IF v \in Range(s[key]) THEN s[key] ELSE Append(s[key], v)
    BY <1>1, <1>2 DEF t
  <2>7. /\ t[key] \in Seq(Values) /\ IsInjective(t[key])
        /\ Range(t[key]) = Range(s[key]) \cup {v}
    <3>1. s[key] \in Seq(Values) /\ IsInjective(s[key])
      BY <1>1, <1>2 DEF Covers
    <3>2. CASE v \in Range(s[key])
      BY <2>6, <3>1, <3>2
    <3>3. CASE v \notin Range(s[key])
      <4> DEFINE u == s[key]
                 w == Append(u, v)
      <4>1. /\ w \in Seq(Values) /\ Len(w) = Len(u) + 1 /\ Len(u) \in Nat
            /\ DOMAIN w = 1 .. Len(u) + 1 /\ DOMAIN u = 1 .. Len(u)
            /\ \A j \in 1 .. Len(u) : w[j] = u[j]
            /\ w[Len(u) + 1] = v
        BY <1>2, <3>1
      <4> HIDE DEF w, u
      <4>2. Range(w) = Range(u) \cup {v}
        BY <4>1 DEF Range
      <4>3. \A j \in 1 .. Len(u) : u[j] # v
        BY <3>3, <4>1 DEF Range, u
      <4>4. IsInjective(w)
        <5>1. \A i, j \in 1 .. Len(u) : u[i] = u[j] => i = j
          BY <3>1, <4>1 DEF IsInjective, u
        <5>2. \A i \in 1 .. Len(u) + 1 : i \in 1 .. Len(u) \/ i = Len(u) + 1
          BY <4>1
        <5>3. \A i, j \in 1 .. Len(u) + 1 : w[i] = w[j] => i = j
          BY <4>1, <4>3, <5>1, <5>2
        <5> QED BY <4>1, <5>3 DEF IsInjective
      <4>5. t[key] = w
        BY <2>6, <3>3 DEF u, w
      <4>6. Range(t[key]) = Range(s[key]) \cup {v}
        BY <4>2, <4>5 DEF u
      <4> QED BY <4>1, <4>4, <4>5, <4>6
    <3> QED BY <3>2, <3>3
  <2>8. t \in [Predicates -> Seq(Values)]
    <3>1. t = [p \in Predicates |-> t[p]]
      BY <1>1 DEF t
    <3>2. \A p \in Predicates : t[p] \in Seq(Values)
      BY <1>1, <2>5, <2>7
    <3> QED BY <3>1, <3>2
  <2>9. Covers(new, t)
    <3> SUFFICES ASSUME NEW p \in Predicates
                 PROVE  /\ IsInjective(t[p])
                        /\ Range(t[p]) \subseteq Known(new)
                        /\ Retrieved(new, p) # NotFound
                             => Retrieved(new, p) \in Range(t[p])
      BY DEF Covers
    <3>1. p \in Keys
      BY DEF Predicates
    <3>2. /\ Retrieved(new, p) = Content(new, p)
          /\ Retrieved(pm.mem, p) = Content(pm.mem, p)
      BY <1>1, <2>2, <3>1, RetrievedIsContent
    <3>3. /\ IsInjective(s[p]) /\ Range(s[p]) \subseteq Known(pm.mem)
          /\ Retrieved(pm.mem, p) # NotFound => Retrieved(pm.mem, p) \in Range(s[p])
      BY <1>1 DEF Covers
    <3>4. CASE p = key
      BY <2>4, <2>7, <3>1, <3>2, <3>3, <3>4
    <3>5. CASE p # key
      BY <2>4, <2>5, <3>1, <3>2, <3>3, <3>5
    <3> QED BY <3>4, <3>5
  <2> QED BY <2>1, <2>2, <2>3, <2>8, <2>9 DEF Progress
<1>4. CASE ~(pm.ok /\ CanRegister(pm.mem, v))
  <2>1. StoredFact(pm, fact) =
          [mem |-> pm.mem, schema |-> s, stored |-> pm.stored, ok |-> FALSE]
    <3>1. StoredFact(pm, fact) = [pm EXCEPT !.ok = FALSE]
      BY <1>4 DEF StoredFact
    <3>2. pm = [mem |-> pm.mem, schema |-> s, stored |-> pm.stored, ok |-> pm.ok]
      BY DEF Progress
    <3> QED BY <3>1, <3>2
  <2> QED BY <1>1, <2>1 DEF Progress
<1> QED BY <1>3, <1>4

(* The loop of ingest, unrolled.                                           *)
LEMMA AllStoredLoop ==
  ASSUME NEW pm \in Progress, NEW facts \in Seq(Facts)
  PROVE  \E r \in [0 .. Len(facts) -> Progress] :
           /\ r[0] = pm
           /\ \A i \in 1 .. Len(facts) : r[i] = StoredFact(r[i - 1], facts[i])
           /\ AllStored(pm, facts) = r[Len(facts)]
<1> DEFINE n == Len(facts)
           g == [i \in 1 .. n |-> [acc \in Progress |-> StoredFact(acc, facts[i])]]
           Body(f, i) == IF i = 0 THEN pm ELSE StoredFact(f[i - 1], facts[i])
           c == CHOOSE f : f = [i \in 0 .. n |-> Body(f, i)]
<1>1. n \in Nat /\ \A i \in 1 .. n : facts[i] \in Facts
  OBVIOUS
<1>2. AllStored(pm, facts) = c[n]
  BY DEF AllStored
<1> HIDE DEF n
<1>3. \A i \in 1 .. n, acc \in Progress : g[i][acc] = StoredFact(acc, facts[i])
  OBVIOUS
<1>4. g \in [1 .. n -> [Progress -> Progress]]
  BY <1>1, StoredFactKeeps
<1> HIDE DEF g
<1>5. PICK p \in Runs(n, Progress, pm, g) : TRUE
  BY <1>1, <1>4, LoopExists
<1>6. /\ p \in [0 .. n -> Progress] /\ p[0] = pm
      /\ \A i \in 1 .. n : i - 1 \in 0 .. n /\ p[i] = g[i][p[i - 1]]
  BY <1>1, <1>5 DEF Runs
<1>7. \A i \in 1 .. n : p[i] = StoredFact(p[i - 1], facts[i])
  BY <1>3, <1>6
<1>8. c = [i \in 0 .. n |-> Body(c, i)]
  <2>1. \A i \in 0 .. n : p[i] = Body(p, i)
    <3> TAKE i \in 0 .. n
    <3>1. CASE i = 0
      BY <1>6, <3>1
    <3>2. CASE i # 0
      <4>1. i \in 1 .. n
        BY <1>1, <3>2
      <4> QED BY <1>7, <3>2, <4>1
    <3> QED BY <3>1, <3>2
  <2>2. p = [i \in 0 .. n |-> p[i]]
    BY <1>6
  <2> HIDE DEF Body
  <2>3. p = [i \in 0 .. n |-> Body(p, i)]
    BY <2>1, <2>2
  <2> QED BY <2>3, Zenon
<1> HIDE DEF c
<1>9. c[0] = pm /\ \A i \in 1 .. n : c[i] = StoredFact(c[i - 1], facts[i])
  <2>1. c[0] = Body(c, 0)
    <3> HIDE DEF Body
    <3> QED BY <1>1, <1>8
  <2>2. ASSUME NEW i \in 1 .. n PROVE c[i] = StoredFact(c[i - 1], facts[i])
    <3>1. i \in 0 .. n /\ i # 0
      BY <1>1
    <3>2. c[i] = Body(c, i)
      <4> HIDE DEF Body
      <4> QED BY <1>8, <3>1
    <3> QED BY <3>1, <3>2
  <2> QED BY <2>1, <2>2
<1>10. \A i \in 0 .. n : c[i] \in Progress
  <2> DEFINE Ok == {i \in Nat : i <= n => c[i] \in Progress}
  <2>1. 0 \in Ok
    BY <1>9
  <2>2. ASSUME NEW i \in Nat, i \in Ok PROVE i + 1 \in Ok
    <3> SUFFICES ASSUME i + 1 <= n PROVE c[i + 1] \in Progress
      OBVIOUS
    <3>1. i + 1 \in 1 .. n /\ (i + 1) - 1 = i /\ c[i] \in Progress
      BY <1>1, <2>2
    <3> QED BY <1>1, <1>9, <3>1, StoredFactKeeps
  <2> HIDE DEF Ok
  <2>3. \A i \in Nat : i \in Ok
    BY <2>1, <2>2, SetInduction
  <2> QED BY <1>1, <2>3 DEF Ok
<1>11. c \in [0 .. n -> Progress]
  <2> HIDE DEF Body
  <2> QED BY <1>8, <1>10
<1> QED BY <1>2, <1>9, <1>11 DEF n
-----------------------------------------------------------------------------
(* The loop that collects the keys of forget_all, unrolled.                *)
LEMMA ErasedKeysLoop ==
  ASSUME NEW m, Coherent(m)
  PROVE  \E f \in [0 .. Len(FactKeys(m)) -> Seq(Keys)] :
           /\ f[0] = <<>>
           /\ \A i \in 1 .. Len(FactKeys(m)) :
                f[i] = IF HasPrefix(FactKeys(m)[i])
                       THEN Append(f[i - 1], FactKeys(m)[i]) ELSE f[i - 1]
           /\ ErasedKeys(m) = f[Len(FactKeys(m))]
<1> DEFINE s == DecodedKeys(m)
           n == Len(s)
           Step(t, i) == IF HasPrefix(s[i]) THEN Append(t, s[i]) ELSE t
           g == [i \in 1 .. n |-> [t \in Seq(Keys) |-> Step(t, i)]]
           Body(f, i) == IF i = 0 THEN <<>>
                         ELSE IF HasPrefix(s[i]) THEN Append(f[i - 1], s[i])
                              ELSE f[i - 1]
           c == CHOOSE f : f = [i \in 0 .. n |-> Body(f, i)]
<1>1. s = FactKeys(m) /\ s \in Seq(Keys)
  <2>1. s = FactKeys(m)
    BY DEF DecodedKeys, FactKeys, ShardKeys
  <2> QED BY <2>1, FactKeysLive
<1>2. n \in Nat /\ \A i \in 1 .. n : s[i] \in Keys
  BY <1>1
<1>3. ErasedKeys(m) = c[n]
  BY DEF ErasedKeys
<1> HIDE DEF s, n
<1>4. \A i \in 1 .. n, t \in Seq(Keys) : g[i][t] = Step(t, i)
  OBVIOUS
<1>5. g \in [1 .. n -> [Seq(Keys) -> Seq(Keys)]]
  <2>1. \A i \in 1 .. n, t \in Seq(Keys) : Step(t, i) \in Seq(Keys)
    BY <1>2
  <2> HIDE DEF Step
  <2> QED BY <2>1
<1> HIDE DEF g
<1>6. PICK p \in Runs(n, Seq(Keys), <<>>, g) : TRUE
  <2>1. <<>> \in Seq(Keys)
    OBVIOUS
  <2> QED BY <1>2, <1>5, <2>1, LoopExists
<1>7. /\ p \in [0 .. n -> Seq(Keys)] /\ p[0] = <<>>
      /\ \A i \in 1 .. n : i - 1 \in 0 .. n /\ p[i] = g[i][p[i - 1]]
  <2>1. /\ p \in [0 .. n -> Seq(Keys)] /\ p[0] = <<>>
        /\ \A i \in 1 .. n : p[i] = g[i][p[i - 1]]
    BY <1>6 DEF Runs
  <2>2. \A i \in 1 .. n : i - 1 \in 0 .. n
    BY <1>2
  <2> QED BY <2>1, <2>2
<1>8. \A i \in 1 .. n : p[i] = Step(p[i - 1], i)
  BY <1>4, <1>7
<1>9. c = [i \in 0 .. n |-> Body(c, i)]
  <2>1. \A i \in 0 .. n : p[i] = Body(p, i)
    <3> TAKE i \in 0 .. n
    <3>1. CASE i = 0
      BY <1>7, <3>1
    <3>2. CASE i # 0
      <4>1. i \in 1 .. n
        BY <1>2, <3>2
      <4> QED BY <1>8, <3>2, <4>1
    <3> QED BY <3>1, <3>2
  <2>2. p = [i \in 0 .. n |-> p[i]]
    BY <1>7
  <2> HIDE DEF Body
  <2>3. p = [i \in 0 .. n |-> Body(p, i)]
    BY <2>1, <2>2
  <2> QED BY <2>3, Zenon
<1> HIDE DEF c
<1>10. c[0] = <<>> /\ \A i \in 1 .. n : c[i] = Step(c[i - 1], i)
  <2>1. c[0] = Body(c, 0)
    <3> HIDE DEF Body
    <3> QED BY <1>2, <1>9
  <2>2. ASSUME NEW i \in 1 .. n PROVE c[i] = Step(c[i - 1], i)
    <3>1. i \in 0 .. n /\ i # 0
      BY <1>2
    <3>2. c[i] = Body(c, i)
      <4> HIDE DEF Body
      <4> QED BY <1>9, <3>1
    <3> QED BY <3>1, <3>2
  <2> QED BY <2>1, <2>2
<1>11. \A i \in 0 .. n : c[i] \in Seq(Keys)
  <2> DEFINE Ok == {i \in Nat : i <= n => c[i] \in Seq(Keys)}
  <2>1. 0 \in Ok
    <3>1. <<>> \in Seq(Keys)
      OBVIOUS
    <3> QED BY <1>10, <3>1
  <2>2. ASSUME NEW i \in Nat, i \in Ok PROVE i + 1 \in Ok
    <3> SUFFICES ASSUME i + 1 <= n PROVE c[i + 1] \in Seq(Keys)
      OBVIOUS
    <3>1. i + 1 \in 1 .. n /\ (i + 1) - 1 = i /\ c[i] \in Seq(Keys)
      BY <1>2, <2>2
    <3>2. c[i + 1] = Step(c[i], i + 1)
      <4> HIDE DEF Step
      <4> QED BY <1>10, <3>1
    <3> QED BY <1>2, <3>1, <3>2
  <2> HIDE DEF Ok
  <2>3. \A i \in Nat : i \in Ok
    BY <2>1, <2>2, SetInduction
  <2> QED BY <1>2, <2>3 DEF Ok
<1>12. c \in [0 .. n -> Seq(Keys)]
  <2> HIDE DEF Body
  <2> QED BY <1>9, <1>11
<1>13. n = Len(FactKeys(m))
  BY <1>1 DEF n
<1> QED BY <1>1, <1>3, <1>10, <1>12, <1>13

(* forget_all collects every key of the user that is held, once.           *)
LEMMA ErasedKeysAreUsers ==
  ASSUME NEW m, Coherent(m)
  PROVE  /\ ErasedKeys(m) \in Seq(Keys)
         /\ IsInjective(ErasedKeys(m))
         /\ Range(ErasedKeys(m)) = LiveKeys(m) \cap Predicates
<1> DEFINE s == FactKeys(m)
<1>1. /\ s \in Seq(Keys) /\ IsInjective(s) /\ Range(s) = LiveKeys(m)
      /\ Len(s) \in Nat
  BY FactKeysLive
<1>2. PICK f \in [0 .. Len(s) -> Seq(Keys)] :
        /\ f[0] = <<>>
        /\ \A i \in 1 .. Len(s) :
             f[i] = IF HasPrefix(s[i]) THEN Append(f[i - 1], s[i]) ELSE f[i - 1]
        /\ ErasedKeys(m) = f[Len(s)]
  BY ErasedKeysLoop
<1> HIDE DEF s
<1> DEFINE First(i) == {s[j] : j \in 1 .. i} \cap Predicates
           Ok == {i \in Nat : i <= Len(s) =>
                    /\ f[i] \in Seq(Keys)
                    /\ IsInjective(f[i])
                    /\ Range(f[i]) = First(i)}
<1>3. 0 \in Ok
  <2>1. <<>> \in Seq(Keys) /\ DOMAIN <<>> = {}
    OBVIOUS
  <2>2. IsInjective(<<>>)
    BY <2>1 DEF IsInjective
  <2>3. Range(<<>>) = {} /\ First(0) = {}
    BY <2>1 DEF Range
  <2> HIDE DEF First
  <2> QED BY <1>2, <2>1, <2>2, <2>3
<1>4. ASSUME NEW n \in Nat, n \in Ok PROVE n + 1 \in Ok
  <2> SUFFICES ASSUME n + 1 <= Len(s)
               PROVE  /\ f[n + 1] \in Seq(Keys)
                      /\ IsInjective(f[n + 1])
                      /\ Range(f[n + 1]) = First(n + 1)
    OBVIOUS
  <2> DEFINE t == f[n]
             e == s[n + 1]
  <2>1. /\ t \in Seq(Keys) /\ IsInjective(t) /\ Range(t) = First(n)
        /\ n + 1 \in 1 .. Len(s) /\ (n + 1) - 1 = n
    BY <1>1, <1>4
  <2>2. f[n + 1] = IF HasPrefix(e) THEN Append(t, e) ELSE t
    BY <1>2, <2>1
  <2>3. e \in Keys /\ \A j \in 1 .. n : j \in 1 .. Len(s) /\ s[j] # e
    BY <1>1, <2>1 DEF IsInjective
  <2>4. First(n + 1) = IF HasPrefix(e) THEN First(n) \cup {e} ELSE First(n)
    <3>1. \A j \in 1 .. n + 1 : j \in 1 .. n \/ j = n + 1
      OBVIOUS
    <3>2. \A j \in 1 .. n : j \in 1 .. n + 1
      OBVIOUS
    <3>3. n + 1 \in 1 .. n + 1
      OBVIOUS
    <3>4. HasPrefix(e) <=> e \in Predicates
      BY <2>3 DEF HasPrefix, Predicates
    <3> QED BY <3>1, <3>2, <3>3, <3>4
  <2>5. \A x \in First(n) : x # e
    BY <2>3
  <2> HIDE DEF First, t, e
  <2>6. CASE HasPrefix(e)
    <3>1. /\ f[n + 1] = Append(t, e)
          /\ DOMAIN f[n + 1] = 1 .. (Len(t) + 1) /\ Len(t) \in Nat
          /\ DOMAIN t = 1 .. Len(t)
          /\ \A j \in 1 .. Len(t) : f[n + 1][j] = t[j]
          /\ f[n + 1][Len(t) + 1] = e
          /\ f[n + 1] \in Seq(Keys)
      BY <2>1, <2>2, <2>3, <2>6
    <3>2. Range(f[n + 1]) = Range(t) \cup {e}
      BY <3>1, SMTT(30) DEF Range
    <3>3. \A j \in 1 .. Len(t) : t[j] # e
      BY <2>1, <2>5, <3>1 DEF Range
    <3>4. IsInjective(f[n + 1])
      BY <2>1, <3>1, <3>3 DEF IsInjective
    <3> QED BY <2>1, <2>4, <2>6, <3>1, <3>2, <3>4
  <2>7. CASE ~HasPrefix(e)
    BY <2>1, <2>2, <2>4, <2>7
  <2> QED BY <2>6, <2>7
<1>5. Len(s) \in Ok
  <2> HIDE DEF Ok
  <2> QED BY <1>1, <1>3, <1>4, SetInduction
<1>6. First(Len(s)) = LiveKeys(m) \cap Predicates
  <2>1. {s[j] : j \in 1 .. Len(s)} = Range(s)
    BY <1>1 DEF Range
  <2> QED BY <1>1, <2>1
<1> QED BY <1>1, <1>2, <1>5, <1>6

-----------------------------------------------------------------------------
(* A memory in which some keys were forgotten, with their number.          *)
Erasing == {acc \in [mem : MemoryType, count : Nat] : Coherent(acc.mem)}

(* The loop that forgets the collected keys, unrolled.                     *)
LEMMA ErasedLoop ==
  ASSUME NEW m, Coherent(m)
  PROVE  \E r \in [0 .. Len(ErasedKeys(m)) -> Erasing] :
           /\ r[0] = [mem |-> m, count |-> 0]
           /\ \A i \in 1 .. Len(ErasedKeys(m)) :
                r[i] = ForgetCounted(r[i - 1], ErasedKeys(m)[i])
           /\ Erased(m) = r[Len(ErasedKeys(m))]
<1> DEFINE s == ErasedKeys(m)
           n == Len(s)
           a == [mem |-> m, count |-> 0]
           g == [i \in 1 .. n |-> [acc \in Erasing |-> ForgetCounted(acc, s[i])]]
           Body(f, i) == IF i = 0 THEN [mem |-> m, count |-> 0]
                         ELSE ForgetCounted(f[i - 1], s[i])
           c == CHOOSE f : f = [i \in 0 .. n |-> Body(f, i)]
<1>1. n \in Nat /\ \A i \in 1 .. n : s[i] \in Keys
  BY ErasedKeysAreUsers
<1>2. Erased(m) = c[n]
  BY DEF Erased
<1>3. a \in Erasing
  BY DEF Erasing, Coherent
<1> HIDE DEF n, s
<1>4. ASSUME NEW acc \in Erasing, NEW key \in Keys
      PROVE  ForgetCounted(acc, key) \in Erasing
  <2>1. acc.mem \in MemoryType /\ acc.count \in Nat /\ Coherent(acc.mem)
    BY DEF Erasing
  <2>2. CASE Holds(acc.mem, key)
    <3>1. Coherent(Forgotten(acc.mem, key))
      BY <2>1, <2>2, ForgottenCoherent
    <3>2. Forgotten(acc.mem, key) \in MemoryType
      BY <3>1 DEF Coherent
    <3>3. ForgetCounted(acc, key) =
            [mem |-> Forgotten(acc.mem, key), count |-> acc.count + 1]
      BY <2>2 DEF ForgetCounted
    <3> QED BY <2>1, <3>1, <3>2, <3>3 DEF Erasing
  <2>3. CASE ~Holds(acc.mem, key)
    BY <2>3 DEF ForgetCounted
  <2> QED BY <2>2, <2>3
<1>5. \A i \in 1 .. n, acc \in Erasing : g[i][acc] = ForgetCounted(acc, s[i])
  OBVIOUS
<1>6. g \in [1 .. n -> [Erasing -> Erasing]]
  BY <1>1, <1>4
<1> HIDE DEF g
<1>7. PICK p \in Runs(n, Erasing, a, g) : TRUE
  <2> HIDE DEF a
  <2> QED BY <1>1, <1>3, <1>6, LoopExists
<1>8. /\ p \in [0 .. n -> Erasing] /\ p[0] = a
      /\ \A i \in 1 .. n : i - 1 \in 0 .. n /\ p[i] = g[i][p[i - 1]]
  BY <1>1, <1>7 DEF Runs
<1>9. \A i \in 1 .. n : p[i] = ForgetCounted(p[i - 1], s[i])
  BY <1>5, <1>8
<1>10. c = [i \in 0 .. n |-> Body(c, i)]
  <2>1. \A i \in 0 .. n : p[i] = Body(p, i)
    <3> TAKE i \in 0 .. n
    <3>1. CASE i = 0
      BY <1>8, <3>1
    <3>2. CASE i # 0
      <4>1. i \in 1 .. n
        BY <1>1, <3>2
      <4> QED BY <1>9, <3>2, <4>1
    <3> QED BY <3>1, <3>2
  <2>2. p = [i \in 0 .. n |-> p[i]]
    BY <1>8
  <2> HIDE DEF Body
  <2>3. p = [i \in 0 .. n |-> Body(p, i)]
    BY <2>1, <2>2
  <2> QED BY <2>3, Zenon
<1> HIDE DEF c
<1>11. c[0] = a /\ \A i \in 1 .. n : c[i] = ForgetCounted(c[i - 1], s[i])
  <2>1. c[0] = Body(c, 0)
    <3> HIDE DEF Body
    <3> QED BY <1>1, <1>10
  <2>2. ASSUME NEW i \in 1 .. n PROVE c[i] = ForgetCounted(c[i - 1], s[i])
    <3>1. i \in 0 .. n /\ i # 0
      BY <1>1
    <3>2. c[i] = Body(c, i)
      <4> HIDE DEF Body
      <4> QED BY <1>10, <3>1
    <3> QED BY <3>1, <3>2
  <2> QED BY <2>1, <2>2
<1>12. \A i \in 0 .. n : c[i] \in Erasing
  <2> DEFINE Ok == {i \in Nat : i <= n => c[i] \in Erasing}
  <2>1. 0 \in Ok
    BY <1>3, <1>11
  <2>2. ASSUME NEW i \in Nat, i \in Ok PROVE i + 1 \in Ok
    <3> SUFFICES ASSUME i + 1 <= n PROVE c[i + 1] \in Erasing
      OBVIOUS
    <3>1. i + 1 \in 1 .. n /\ (i + 1) - 1 = i /\ c[i] \in Erasing
      BY <1>1, <2>2
    <3> QED BY <1>1, <1>4, <1>11, <3>1
  <2> HIDE DEF Ok
  <2>3. \A i \in Nat : i \in Ok
    BY <2>1, <2>2, SetInduction
  <2> QED BY <1>1, <2>3 DEF Ok
<1>13. c \in [0 .. n -> Erasing]
  <2> HIDE DEF Body
  <2> QED BY <1>10, <1>12
<1> QED BY <1>2, <1>11, <1>13 DEF n, s

(* forget_all leaves the facts of the others as they are and none of the   *)
(* user's, and counts the user's.                                          *)
LEMMA ErasedContent ==
  ASSUME NEW m, Coherent(m)
  PROVE  /\ Coherent(Erased(m).mem)
         /\ Erased(m).mem.vocabKeys = m.vocabKeys
         /\ \A k \in Keys : Content(Erased(m).mem, k) =
              IF k \in AuditKeys THEN Content(m, k) ELSE NotFound
         /\ \A k \in Keys : Erased(m).mem.keyToShard[k] =
              IF k \in AuditKeys THEN m.keyToShard[k] ELSE NoShard
         /\ Erased(m).count = Len(ErasedKeys(m))
<1> DEFINE s == ErasedKeys(m)
           n == Len(s)
           Gone(i) == {s[j] : j \in 1 .. i}
<1>1. /\ s \in Seq(Keys) /\ IsInjective(s) /\ n \in Nat
      /\ Range(s) = LiveKeys(m) \cap Predicates
  BY ErasedKeysAreUsers
<1>2. PICK r \in [0 .. n -> Erasing] :
        /\ r[0] = [mem |-> m, count |-> 0]
        /\ \A i \in 1 .. n : r[i] = ForgetCounted(r[i - 1], s[i])
        /\ Erased(m) = r[n]
  BY ErasedLoop
<1> HIDE DEF s
<1>3. n = Len(s) /\ DOMAIN s = 1 .. n
  BY <1>1
<1> HIDE DEF n
<1> DEFINE Good(i) ==
             /\ r[i].count = i
             /\ r[i].mem.vocabKeys = m.vocabKeys
             /\ \A k \in Keys : Content(r[i].mem, k) =
                  IF k \in Gone(i) THEN NotFound ELSE Content(m, k)
             /\ \A k \in Keys : r[i].mem.keyToShard[k] =
                  IF k \in Gone(i) THEN NoShard ELSE m.keyToShard[k]
           Ok == {i \in Nat : i <= n => Good(i)}
<1>4. 0 \in Ok
  <2>1. r[0].mem = m /\ r[0].count = 0 /\ Gone(0) = {}
    BY <1>2
  <2> HIDE DEF Gone
  <2> QED BY <2>1
<1>5. ASSUME NEW i \in Nat, i \in Ok PROVE i + 1 \in Ok
  <2> SUFFICES ASSUME i + 1 <= n PROVE Good(i + 1)
    OBVIOUS
  <2> DEFINE a == r[i].mem
             k == s[i + 1]
  <2>1. /\ i \in 0 .. n /\ i + 1 \in 1 .. n /\ (i + 1) - 1 = i /\ Good(i)
        /\ r[i] \in Erasing /\ Coherent(a) /\ r[i].count = i
    <3>1. i \in 0 .. n /\ i + 1 \in 1 .. n /\ (i + 1) - 1 = i
      BY <1>1
    <3>2. Good(i)
      BY <1>5, <3>1
    <3>3. r[i] \in Erasing
      BY <1>2, <3>1
    <3> QED BY <3>1, <3>2, <3>3 DEF Erasing
  <2>2. k \in Keys /\ k \in LiveKeys(m)
    <3>1. k \in Range(s)
      BY <1>3, <2>1 DEF Range
    <3> QED BY <1>1, <3>1 DEF LiveKeys
  <2>3. k \notin Gone(i)
    <3>1. \A j \in 1 .. i : j \in 1 .. n /\ j # i + 1
      BY <1>1
    <3> QED BY <1>1, <1>3, <2>1, <3>1 DEF IsInjective
  <2>4. Gone(i + 1) = Gone(i) \cup {k}
    <3>1. \A j \in 1 .. i + 1 : j \in 1 .. i \/ j = i + 1
      OBVIOUS
    <3>2. \A j \in 1 .. i : j \in 1 .. i + 1
      OBVIOUS
    <3>3. i + 1 \in 1 .. i + 1
      OBVIOUS
    <3> QED BY <3>1, <3>2, <3>3
  <2> HIDE DEF Gone, k, a
  <2>5. a.keyToShard[k] # NoShard
    BY <2>1, <2>2, <2>3 DEF LiveKeys, a
  <2>6. Holds(a, k)
    BY <2>1, <2>2, <2>5, FoundIsRouted
  <2>7. r[i + 1] = [mem |-> Forgotten(a, k), count |-> i + 1]
    <3>1. r[i + 1] = ForgetCounted(r[i], k)
      BY <1>2, <2>1 DEF k
    <3> QED BY <2>1, <2>6, <3>1 DEF ForgetCounted, a
  <2>8. /\ \A q \in Keys : Content(Forgotten(a, k), q) =
                             IF q = k THEN NotFound ELSE Content(a, q)
        /\ Forgotten(a, k).vocabKeys = a.vocabKeys
        /\ \A q \in Keys : Forgotten(a, k).keyToShard[q] =
             IF q = k THEN NoShard ELSE a.keyToShard[q]
    BY <2>1, <2>2, <2>6, ForgottenContent
  <2>9. /\ r[i + 1].mem = Forgotten(a, k) /\ r[i + 1].count = i + 1
        /\ a.vocabKeys = m.vocabKeys
        /\ \A q \in Keys : Content(a, q) =
             IF q \in Gone(i) THEN NotFound ELSE Content(m, q)
        /\ \A q \in Keys : a.keyToShard[q] =
             IF q \in Gone(i) THEN NoShard ELSE m.keyToShard[q]
    BY <2>1, <2>7 DEF a
  <2> QED BY <2>4, <2>8, <2>9
<1>6. n \in Ok
  <2> HIDE DEF Ok
  <2> QED BY <1>1, <1>4, <1>5, SetInduction
<1>7. Good(n)
  BY <1>1, <1>6
<1>8. Gone(n) = LiveKeys(m) \cap Predicates
  BY <1>1, <1>3 DEF Range
<1>9. \A k \in Keys : k \in Predicates <=> k \notin AuditKeys
  BY DEF Predicates
<1>10. \A k \in Keys : k \notin LiveKeys(m) =>
         m.keyToShard[k] = NoShard /\ Content(m, k) = NotFound
  BY DEF LiveKeys, Content
<1>11. Coherent(Erased(m).mem)
  BY <1>1, <1>2 DEF Erasing
<1> HIDE DEF Gone
<1> QED BY <1>2, <1>3, <1>7, <1>8, <1>9, <1>10, <1>11 DEF s
-----------------------------------------------------------------------------
(* The inductive invariant.  Nothing of it can be left out: the schema     *)
(* covers the facts only in a coherent memory, and the last export is      *)
(* right only as long as no call changes the memory after it.              *)
IInv ==
  /\ TypeOK
  /\ SchemaCoversFacts
  /\ ExportAgreesWithRecall

(* Covers is SchemaCoversFacts, its memory and schema being arguments.      *)
LEMMA CoversIsSchema == SchemaCoversFacts <=> Covers(mem, schema)
BY DEF SchemaCoversFacts, Covers

(* A message starts from the memory and the schema as they are.            *)
LEMMA HereProgress ==
  ASSUME IInv
  PROVE  Here \in Progress
<1>1. Coherent(mem) /\ schema \in [Predicates -> Seq(Values)] /\ Covers(mem, schema)
  BY CoversIsSchema DEF IInv, TypeOK
<1>2. mem \in MemoryType
  BY <1>1 DEF Coherent
<1>3. <<>> \in Seq(Facts)
  OBVIOUS
<1> QED BY <1>1, <1>2, <1>3 DEF Here, Progress

(* A message of n facts is a sequence of them.                             *)
LEMMA FactsAreSeq ==
  ASSUME NEW n \in Nat, NEW facts \in [1 .. n -> Facts]
  PROVE  facts \in Seq(Facts) /\ Len(facts) = n
OBVIOUS

(* A message leaves the memory and the schema in step, fail or not.        *)
LEMMA AllStoredProgress ==
  ASSUME NEW pm \in Progress, NEW facts \in Seq(Facts)
  PROVE  AllStored(pm, facts) \in Progress
<1>1. PICK r \in [0 .. Len(facts) -> Progress] : AllStored(pm, facts) = r[Len(facts)]
  BY AllStoredLoop
<1>2. Len(facts) \in 0 .. Len(facts)
  OBVIOUS
<1> QED BY <1>1, <1>2

(* What a call that stores facts makes of the invariant.                   *)
LEMMA BecomesKeeps ==
  ASSUME NEW pm \in Progress, Becomes(pm)
  PROVE  TypeOK' /\ SchemaCoversFacts'
<1>1. /\ Coherent(pm.mem) /\ pm.schema \in [Predicates -> Seq(Values)]
      /\ Covers(pm.mem, pm.schema)
  BY DEF Progress
<1>2. mem' = pm.mem /\ schema' = pm.schema
  BY DEF Becomes
<1> QED BY <1>1, <1>2 DEF TypeOK, SchemaCoversFacts, Covers

(* The first state satisfies the invariant.                                *)
LEMMA InitIInv == Init => IInv
<1> SUFFICES ASSUME Init PROVE IInv
  OBVIOUS
<1>1. /\ mem = NewMemory /\ schema = [p \in Predicates |-> <<>>]
      /\ call = [op |-> "new"]
  BY DEF Init
<1>2. Coherent(mem)
  BY <1>1, NewMemoryCoherent
<1>3. <<>> \in Seq(Values) /\ DOMAIN <<>> = {}
  OBVIOUS
<1>4. TypeOK
  BY <1>1, <1>2, <1>3 DEF TypeOK
<1>5. SchemaCoversFacts
  <2>1. IsInjective(<<>>) /\ Range(<<>>) = {}
    BY <1>3 DEF IsInjective, Range
  <2>2. \A p \in Predicates : p \in Keys /\ mem.keyToShard[p] = NoShard
    BY <1>1 DEF Predicates, NewMemory
  <2>3. \A p \in Predicates : Retrieved(mem, p) = NotFound
    BY <2>2 DEF Retrieved
  <2> QED BY <1>1, <2>1, <2>3 DEF SchemaCoversFacts
<1>6. ExportAgreesWithRecall
  BY <1>1 DEF ExportAgreesWithRecall
<1> QED BY <1>4, <1>5, <1>6 DEF IInv

(* The keys that the shards decode, the user's among them, are the ones    *)
(* that recall answers.                                                    *)
LEMMA AllFactsAreRecalled ==
  ASSUME NEW m, Coherent(m)
  PROVE  AllFacts(m) = [p \in {q \in Predicates : Retrieved(m, q) # NotFound}
                          |-> Retrieved(m, p)]
<1>1. Range(DecodedKeys(m)) = LiveKeys(m)
  BY FactKeysLive DEF DecodedKeys, FactKeys, ShardKeys
<1>2. {key \in Range(DecodedKeys(m)) : HasPrefix(key)} =
        {q \in Predicates : Retrieved(m, q) # NotFound}
  BY <1>1, FoundIsRouted DEF LiveKeys, HasPrefix, Predicates
<1>3. ASSUME NEW k \in Predicates, Retrieved(m, k) # NotFound
      PROVE  LET last == m.shards[Max(Listing(m, k))]
             IN  m.vocabKeys[Decoded(m, last)[k] + 1] = Retrieved(m, k)
  <2> DEFINE own == m.keyToShard[k]
  <2>1. k \in Keys /\ own # NoShard
    BY <1>3, FoundIsRouted DEF Predicates
  <2>2. own \in DOMAIN m.shards /\ own \in Nat
    BY <2>1, RowOfLiveKey DEF Coherent, MemoryType
  <2>3. \A i \in DOMAIN m.shards : k \in Range(m.shards[i].keys) <=> own = i
    BY <2>1 DEF Coherent, Routing
  <2>4. \A i \in DOMAIN m.shards :
          DOMAIN Decoded(m, m.shards[i]) = Range(m.shards[i].keys)
    BY DEF Decoded
  <2> HIDE DEF own
  <2>5. Listing(m, k) = {own}
    BY <2>2, <2>3, <2>4 DEF Listing
  <2>6. Max({own}) = own
    BY <2>2 DEF Max
  <2>7. k \in DOMAIN Decoded(m, m.shards[own])
    BY <2>2, <2>3, <2>4
  <2>8. Retrieved(m, k) = m.vocabKeys[Decoded(m, m.shards[own])[k] + 1]
    BY <2>1, <2>7 DEF Retrieved, own
  <2> QED BY <2>5, <2>6, <2>8
<1> QED BY <1>2, <1>3 DEF AllFacts

(* So does every step from a state that satisfies it.                      *)
LEMMA NextIInv == IInv /\ [Next]_vars => IInv'
<1> SUFFICES ASSUME IInv, [Next]_vars PROVE IInv'
  OBVIOUS
<1>1. Coherent(mem) /\ TypeOK /\ SchemaCoversFacts /\ Here \in Progress
  BY HereProgress DEF IInv, TypeOK
<1>2. ASSUME NEW p \in Predicates, NEW v \in UserValues, StoreFact(p, v)
      PROVE  IInv'
  <2> DEFINE pm == StoredFact(Here, NewFact(p, v))
  <2>1. NewFact(p, v) \in Facts
    BY DEF Facts
  <2>2. pm \in Progress
    BY <1>1, <2>1, StoredFactKeeps
  <2>3. Becomes(pm) /\ call'.op = "store_fact"
    BY <1>2 DEF StoreFact
  <2> HIDE DEF pm
  <2>4. ExportAgreesWithRecall'
    BY <2>3 DEF ExportAgreesWithRecall
  <2> QED BY <2>2, <2>3, <2>4, BecomesKeeps DEF IInv
<1>3. ASSUME NEW n \in 0 .. MaxFacts, NEW facts \in [1 .. n -> Facts], Ingest(facts)
      PROVE  IInv'
  <2> DEFINE pm == AllStored(Here, facts)
  <2>1. facts \in Seq(Facts)
    BY FactsAreSeq, MaxFactsAssumption
  <2>2. pm \in Progress
    BY <1>1, <2>1, AllStoredProgress
  <2>3. Becomes(pm) /\ call'.op = "ingest"
    BY <1>3 DEF Ingest
  <2> HIDE DEF pm
  <2>4. ExportAgreesWithRecall'
    BY <2>3 DEF ExportAgreesWithRecall
  <2> QED BY <2>2, <2>3, <2>4, BecomesKeeps DEF IInv
<1>4. ASSUME NEW p \in Predicates, Recall(p)
      PROVE  IInv'
  <2>1. mem' = mem /\ schema' = schema /\ call'.op = "recall"
    BY <1>4 DEF Recall
  <2>2. TypeOK' /\ SchemaCoversFacts'
    BY <1>1, <2>1 DEF TypeOK, SchemaCoversFacts
  <2> QED BY <2>1, <2>2 DEF IInv, ExportAgreesWithRecall
<1>5. ASSUME Export
      PROVE  IInv'
  <2>1. mem' = mem /\ schema' = schema /\ call'.reply = AllFacts(mem)
    BY <1>5 DEF Export
  <2>2. TypeOK' /\ SchemaCoversFacts'
    BY <1>1, <2>1 DEF TypeOK, SchemaCoversFacts
  <2>3. ExportAgreesWithRecall'
    BY <1>1, <2>1, AllFactsAreRecalled DEF ExportAgreesWithRecall
  <2> QED BY <2>2, <2>3 DEF IInv
<1>6. ASSUME NEW p \in Predicates, Forget(p)
      PROVE  IInv'
  <2>1. /\ mem' = IF Holds(mem, p) THEN Forgotten(mem, p) ELSE mem
        /\ schema' = schema /\ call'.op = "forget"
    BY <1>6 DEF Forget
  <2>2. p \in Keys
    BY DEF Predicates
  <2>3. Coherent(mem') /\ mem'.vocabKeys = mem.vocabKeys
        /\ \A k \in Keys : Content(mem', k) = Content(mem, k) \/ Content(mem', k) = NotFound
    <3>1. CASE Holds(mem, p)
      BY <1>1, <2>1, <2>2, <3>1, ForgottenCoherent, ForgottenContent
    <3>2. CASE ~Holds(mem, p)
      BY <1>1, <2>1, <3>2
    <3> QED BY <3>1, <3>2
  <2>4. TypeOK'
    BY <1>1, <2>1, <2>3 DEF TypeOK
  <2>5. SchemaCoversFacts'
    BY <1>1, <2>1, <2>3, RetrievedIsContent DEF SchemaCoversFacts, Known, Predicates
  <2> QED BY <2>1, <2>4, <2>5 DEF IInv, ExportAgreesWithRecall
<1>7. ASSUME ForgetAll
      PROVE  IInv'
  <2>1. mem' = Erased(mem).mem /\ schema' = schema /\ call'.op = "forget_all"
    BY <1>7 DEF ForgetAll
  <2>2. Coherent(mem') /\ mem'.vocabKeys = mem.vocabKeys
        /\ \A k \in Keys : Content(mem', k) = Content(mem, k) \/ Content(mem', k) = NotFound
    BY <1>1, <2>1, ErasedContent
  <2>3. TypeOK'
    BY <1>1, <2>1, <2>2 DEF TypeOK
  <2>4. SchemaCoversFacts'
    BY <1>1, <2>1, <2>2, RetrievedIsContent DEF SchemaCoversFacts, Known, Predicates
  <2> QED BY <2>1, <2>3, <2>4 DEF IInv, ExportAgreesWithRecall
<1>8. ASSUME NEW k \in AuditKeys, RecordAudit(k)
      PROVE  IInv'
  <2> DEFINE new == Stored(mem, k, AuditKind)
  <2>1. /\ CanRegister(mem, AuditKind) /\ mem' = new /\ schema' = schema
        /\ call'.op = "record"
    BY <1>8 DEF RecordAudit, Becomes, Here
  <2>2. k \in Keys /\ AuditKind \in Values
    BY FoldAssumption
  <2>3. Coherent(mem')
    BY <1>1, <2>1, <2>2, StoredCoherent
  <2>4. /\ \A q \in Predicates : Content(mem', q) = Content(mem, q)
        /\ Known(mem) \subseteq Known(mem')
    <3>1. \A q \in Predicates : q \in Keys /\ q # k
      BY DEF Predicates
    <3> HIDE DEF new
    <3>2. /\ \A q \in Keys : Content(new, q) = IF q = k THEN AuditKind ELSE Content(mem, q)
          /\ Known(new) = Known(mem) \cup {AuditKind}
      BY <1>1, <2>1, <2>2, StoredContent DEF new
    <3> QED BY <2>1, <3>1, <3>2
  <2> HIDE DEF new
  <2>5. TypeOK'
    BY <1>1, <2>1, <2>3 DEF TypeOK
  <2>6. SchemaCoversFacts'
    <3> SUFFICES ASSUME NEW p \in Predicates
                 PROVE  /\ IsInjective(schema'[p])
                        /\ Range(schema'[p]) \subseteq Known(mem')
                        /\ Retrieved(mem', p) # NotFound
                             => Retrieved(mem', p) \in Range(schema'[p])
      BY DEF SchemaCoversFacts
    <3>1. Retrieved(mem', p) = Retrieved(mem, p)
      BY <1>1, <2>3, <2>4, RetrievedIsContent DEF Predicates
    <3> QED BY <1>1, <2>1, <2>4, <3>1 DEF SchemaCoversFacts
  <2> QED BY <2>1, <2>5, <2>6 DEF IInv, ExportAgreesWithRecall
<1>9. CASE UNCHANGED vars
  BY <1>9 DEF vars, IInv, TypeOK, SchemaCoversFacts, ExportAgreesWithRecall
<1> QED BY <1>2, <1>3, <1>4, <1>5, <1>6, <1>7, <1>8, <1>9 DEF Next

(* The invariant holds in every reachable state.                           *)
LEMMA AlwaysIInv == Spec => []IInv
BY InitIInv, NextIInv, PTL DEF Spec

(* However facts are told, recorded, forgotten and erased, the memory      *)
(* under the schema stays coherent.                                        *)
THEOREM PersonalTypeCorrect == Spec => []TypeOK
BY AlwaysIInv, PTL DEF IInv

(* The schema lists, once each, the value of every fact that is held, and  *)
(* never one that the vocab refused.                                       *)
THEOREM SchemaAlwaysCovers == Spec => []SchemaCoversFacts
BY AlwaysIInv, PTL DEF IInv

(* What an export returns is what recall answers, key by key.              *)
THEOREM ExportAlwaysAgrees == Spec => []ExportAgreesWithRecall
BY AlwaysIInv, PTL DEF IInv
-----------------------------------------------------------------------------
(* The two calls that the action properties speak of leave their name.     *)
LEMMA CallsByName ==
  ASSUME Next
  PROVE  /\ call'.op = "forget_all" => ForgetAll
         /\ call'.op = "ingest" =>
              \E n \in 0 .. MaxFacts : \E facts \in [1 .. n -> Facts] : Ingest(facts)
         /\ call'.op = "store_fact" =>
              \E p \in Predicates, v \in UserValues : StoreFact(p, v)
<1>1. ASSUME NEW p \in Predicates, NEW v \in UserValues, StoreFact(p, v)
      PROVE  call'.op = "store_fact"
  BY <1>1 DEF StoreFact
<1>2. ASSUME NEW n \in 0 .. MaxFacts, NEW facts \in [1 .. n -> Facts], Ingest(facts)
      PROVE  call'.op = "ingest"
  BY <1>2 DEF Ingest
<1>3. ASSUME NEW p \in Predicates, Recall(p)
      PROVE  call'.op = "recall"
  BY <1>3 DEF Recall
<1>4. ASSUME Export
      PROVE  call'.op = "all_facts"
  BY <1>4 DEF Export
<1>5. ASSUME NEW p \in Predicates, Forget(p)
      PROVE  call'.op = "forget"
  BY <1>5 DEF Forget
<1>6. ASSUME ForgetAll
      PROVE  call'.op = "forget_all"
  BY <1>6 DEF ForgetAll
<1>7. ASSUME NEW k \in AuditKeys, RecordAudit(k)
      PROVE  call'.op = "record"
  BY <1>7 DEF RecordAudit
<1> QED BY <1>1, <1>2, <1>3, <1>4, <1>5, <1>6, <1>7 DEF Next

(* A sequence without repetitions is as long as its range has elements.    *)
LEMMA InjectiveCount ==
  ASSUME NEW S, NEW s \in Seq(S), IsInjective(s)
  PROVE  Cardinality(Range(s)) = Len(s)
<1>1. Len(s) \in Nat /\ DOMAIN s = 1 .. Len(s)
  OBVIOUS
<1>2. s \in Bijection(1 .. Len(s), Range(s))
  <2>1. s \in [1 .. Len(s) -> Range(s)]
    BY <1>1 DEF Range
  <2>2. \A x \in Range(s) : \E i \in 1 .. Len(s) : s[i] = x
    BY <1>1 DEF Range
  <2> QED BY <1>1, <2>1, <2>2 DEF Bijection, Injection, Surjection, IsInjective
<1>3. IsFiniteSet(1 .. Len(s)) /\ Cardinality(1 .. Len(s)) = Len(s)
  BY <1>1, FS_Interval
<1>4. ExistsBijection(1 .. Len(s), Range(s))
  BY <1>2 DEF ExistsBijection
<1> QED BY <1>3, <1>4, FS_Bijection

(* In a coherent memory a key that is not routed has no bind in any M.     *)
LEMMA NothingLeft ==
  ASSUME NEW m, Coherent(m), NEW k \in Keys, m.keyToShard[k] = NoShard
  PROVE  \A i \in DOMAIN m.shards, r \in Rows : m.shards[i].memory[k][r] = 0
<1> TAKE i \in DOMAIN m.shards, r \in Rows
<1>1. m \in MemoryType /\ Routing(m) /\ Superposition(m)
  BY DEF Coherent
<1>2. i # NoShard
  BY <1>1, ShardTypes DEF NoShard
<1>3. m.shards[i].k2v[k] = Absent
  BY <1>1, <1>2 DEF Routing
<1>4. r # Absent
  BY VocabCapAssumption DEF Rows, Absent
<1> QED BY <1>1, <1>3, <1>4 DEF Superposition

(* forget_all finds every fact of the user in every shard, counts each     *)
(* once, leaves no bind of any of them in an M, and touches no record of   *)
(* the audit trail.                                                        *)
THEOREM ForgetAllAlwaysErases == Spec => ForgetAllErases
<1> DEFINE A == call'.op = "forget_all" =>
                  /\ Contents(mem') =
                       [k \in Keys |-> IF k \in AuditKeys THEN Contents(mem)[k]
                                       ELSE NotFound]
                  /\ call'.reply = Cardinality({p \in Predicates : Contents(mem)[p] # NotFound})
                  /\ \A i \in DOMAIN mem'.shards, p \in Predicates, r \in Rows :
                       mem'.shards[i].memory[p][r] = 0
<1>1. IInv /\ [Next]_vars => [A]_vars
  <2> SUFFICES ASSUME IInv, Next, call'.op = "forget_all" PROVE A
    OBVIOUS
  <2>1. ForgetAll
    BY CallsByName
  <2> DEFINE new == Erased(mem).mem
  <2>2. mem' = new /\ call'.reply = Erased(mem).count
    BY <2>1 DEF ForgetAll
  <2>3. Coherent(mem)
    BY DEF IInv, TypeOK
  <2>4. /\ Coherent(new)
        /\ \A k \in Keys : Content(new, k) =
             IF k \in AuditKeys THEN Content(mem, k) ELSE NotFound
        /\ \A k \in Keys : new.keyToShard[k] =
             IF k \in AuditKeys THEN mem.keyToShard[k] ELSE NoShard
        /\ Erased(mem).count = Len(ErasedKeys(mem))
    BY <2>3, ErasedContent
  <2> HIDE DEF new
  <2>5. \A k \in Keys : /\ Contents(mem)[k] = Content(mem, k)
                        /\ Retrieved(new, k) = Content(new, k)
    BY <2>3, <2>4, RetrievedIsContent DEF Contents
  <2>6. Contents(mem') = [k \in Keys |-> IF k \in AuditKeys THEN Contents(mem)[k]
                                         ELSE NotFound]
    BY <2>2, <2>4, <2>5 DEF Contents
  <2>7. {p \in Predicates : Contents(mem)[p] # NotFound} = LiveKeys(mem) \cap Predicates
    <3>1. \A p \in Predicates : p \in Keys
      BY DEF Predicates
    <3>2. \A p \in Predicates : Contents(mem)[p] # NotFound <=> p \in LiveKeys(mem)
      BY <2>3, <3>1, FoundIsRouted DEF Contents, LiveKeys
    <3> QED BY <3>2
  <2>8. Cardinality(LiveKeys(mem) \cap Predicates) = Len(ErasedKeys(mem))
    <3>1. /\ ErasedKeys(mem) \in Seq(Keys) /\ IsInjective(ErasedKeys(mem))
          /\ Range(ErasedKeys(mem)) = LiveKeys(mem) \cap Predicates
      BY <2>3, ErasedKeysAreUsers
    <3> QED BY <3>1, InjectiveCount
  <2>9. \A i \in DOMAIN new.shards, p \in Predicates, r \in Rows :
          new.shards[i].memory[p][r] = 0
    <3> TAKE i \in DOMAIN new.shards, p \in Predicates, r \in Rows
    <3>1. p \in Keys /\ p \notin AuditKeys
      BY DEF Predicates
    <3>2. new.keyToShard[p] = NoShard
      BY <2>4, <3>1
    <3> QED BY <2>4, <3>1, <3>2, NothingLeft
  <2> QED BY <2>2, <2>4, <2>6, <2>7, <2>8, <2>9
<1> QED BY <1>1, AlwaysIInv, PTL DEF Spec, ForgetAllErases

-----------------------------------------------------------------------------
(* The value of the last of the first n facts about k, if there is one.    *)
Mine(facts, n, k) == {i \in 1 .. n : facts[i].predicate = k}
Latest(mine) == CHOOSE i \in mine : \A j \in mine : j <= i
LastTold(m, facts, n, k) ==
  IF Mine(facts, n, k) = {} THEN Content(m, k)
  ELSE facts[Latest(Mine(facts, n, k))].obj

(* One more fact about k decides what k holds, and about no other key.     *)
LEMMA LastToldNext ==
  ASSUME NEW m, NEW facts \in Seq(Facts), NEW n \in Nat, n + 1 <= Len(facts),
         NEW k \in Keys
  PROVE  LastTold(m, facts, n + 1, k) =
           IF facts[n + 1].predicate = k THEN facts[n + 1].obj
           ELSE LastTold(m, facts, n, k)
<1>1. \A i \in 1 .. n + 1 : i \in 1 .. n \/ i = n + 1
  OBVIOUS
<1>2. (\A i \in 1 .. n : i \in 1 .. n + 1) /\ n + 1 \in 1 .. n + 1
  OBVIOUS
<1>3. CASE facts[n + 1].predicate = k
  <2> DEFINE T == Mine(facts, n + 1, k)
  <2>1. n + 1 \in T /\ \A j \in T : j \in Nat /\ j <= n + 1
    BY <1>2, <1>3 DEF Mine
  <2>2. Latest(T) \in T /\ \A j \in T : j <= Latest(T)
    <3> HIDE DEF T
    <3> QED BY <2>1 DEF Latest
  <2>3. Latest(T) = n + 1 /\ T # {}
    <3> HIDE DEF T
    <3> QED BY <2>1, <2>2
  <2>4. LastTold(m, facts, n + 1, k) = facts[n + 1].obj
    BY <2>3 DEF LastTold
  <2> QED BY <1>3, <2>4
<1>4. CASE facts[n + 1].predicate # k
  <2>1. Mine(facts, n + 1, k) = Mine(facts, n, k)
    BY <1>1, <1>2, <1>4 DEF Mine
  <2>2. LastTold(m, facts, n + 1, k) = LastTold(m, facts, n, k)
    BY <2>1, Zenon DEF LastTold
  <2> QED BY <1>4, <2>2
<1> QED BY <1>3, <1>4

(* A message stores a prefix of its facts, all of them unless a value did  *)
(* not fit.                                                                *)
LEMMA AllStoredPrefix ==
  ASSUME NEW pm \in Progress, pm.ok, NEW facts \in Seq(Facts)
  PROVE  LET out == AllStored(pm, facts)
         IN  \E n \in 0 .. Len(facts) :
               /\ n = Len(facts) <=> out.ok
               /\ ~out.ok => facts[n + 1].obj \notin Known(out.mem)
               /\ \A k \in Keys : Content(out.mem, k) = LastTold(pm.mem, facts, n, k)
<1> DEFINE N == Len(facts)
<1>1. N \in Nat /\ \A i \in 1 .. N : facts[i] \in Facts
  OBVIOUS
<1>2. PICK r \in [0 .. N -> Progress] :
        /\ r[0] = pm
        /\ \A i \in 1 .. N : r[i] = StoredFact(r[i - 1], facts[i])
        /\ AllStored(pm, facts) = r[N]
  BY AllStoredLoop
<1> DEFINE Upto(i, n) ==
             /\ n = i <=> r[i].ok
             /\ ~r[i].ok => facts[n + 1].obj \notin Known(r[i].mem)
             /\ \A k \in Keys : Content(r[i].mem, k) = LastTold(pm.mem, facts, n, k)
           Ok == {i \in Nat : i <= N => \E n \in 0 .. i : Upto(i, n)}
<1> HIDE DEF N
<1>3. 0 \in Ok
  <2>1. \A k \in Keys : LastTold(pm.mem, facts, 0, k) = Content(pm.mem, k)
    BY DEF LastTold, Mine
  <2>2. r[0].ok /\ r[0].mem = pm.mem
    BY <1>2
  <2>3. Upto(0, 0)
    BY <2>1, <2>2
  <2> HIDE DEF Upto
  <2>4. 0 \in 0 .. 0
    OBVIOUS
  <2> QED BY <2>3, <2>4
<1>4. ASSUME NEW i \in Nat, i \in Ok PROVE i + 1 \in Ok
  <2> SUFFICES ASSUME i + 1 <= N PROVE \E n \in 0 .. i + 1 : Upto(i + 1, n)
    OBVIOUS
  <2> DEFINE acc  == r[i]
             fact == facts[i + 1]
  <2>1. /\ i \in 0 .. N /\ i + 1 \in 1 .. N /\ (i + 1) - 1 = i /\ i <= N
        /\ acc \in Progress /\ fact \in Facts
    BY <1>1, <1>2
  <2>2. PICK n \in 0 .. i : Upto(i, n)
    BY <1>4, <2>1
  <2>3. r[i + 1] = StoredFact(acc, fact)
    BY <1>2, <2>1
  <2>4. /\ Coherent(acc.mem) /\ acc.ok \in BOOLEAN
        /\ fact.predicate \in Keys /\ fact.obj \in Values
    BY <2>1, FactType DEF Progress
  <2>5. n \in 0 .. i + 1 /\ n # i + 1
    OBVIOUS
  <2>6. CASE acc.ok /\ CanRegister(acc.mem, fact.obj)
    <3>1. r[i + 1].ok /\ r[i + 1].mem = Stored(acc.mem, fact.predicate, fact.obj)
      BY <2>3, <2>6 DEF StoredFact
    <3>2. n = i
      BY <2>2, <2>6
    <3>3. \A k \in Keys : Content(acc.mem, k) = LastTold(pm.mem, facts, i, k)
      BY <2>2, <3>2
    <3>4. \A k \in Keys : Content(r[i + 1].mem, k) =
                            IF k = fact.predicate THEN fact.obj ELSE Content(acc.mem, k)
      BY <2>4, <2>6, <3>1, StoredContent
    <3>5. \A k \in Keys : LastTold(pm.mem, facts, i + 1, k) =
                            IF fact.predicate = k THEN fact.obj
                            ELSE LastTold(pm.mem, facts, i, k)
      BY <2>1, LastToldNext DEF N
    <3>6. \A k \in Keys : Content(r[i + 1].mem, k) = LastTold(pm.mem, facts, i + 1, k)
      BY <3>3, <3>4, <3>5
    <3>7. Upto(i + 1, i + 1)
      BY <3>1, <3>6
    <3> HIDE DEF Upto
    <3>8. i + 1 \in 0 .. i + 1
      OBVIOUS
    <3> QED BY <3>7, <3>8
  <2>7. CASE ~(acc.ok /\ CanRegister(acc.mem, fact.obj))
    <3>1. r[i + 1] = [acc EXCEPT !.ok = FALSE]
      BY <2>3, <2>7 DEF StoredFact
    <3>2. ~r[i + 1].ok /\ r[i + 1].mem = acc.mem
      BY <2>1, <3>1 DEF Progress
    <3>3. facts[n + 1].obj \notin Known(acc.mem)
      <4>1. CASE acc.ok
        <5>1. n = i /\ ~CanRegister(acc.mem, fact.obj)
          BY <2>2, <2>7, <4>1
        <5>2. fact.obj \notin Known(acc.mem)
          BY <2>4, <5>1, CanRegisterIsRoom
        <5> QED BY <5>1, <5>2
      <4>2. CASE ~acc.ok
        BY <2>2, <4>2
      <4> QED BY <4>1, <4>2
    <3>4. Upto(i + 1, n)
      BY <2>2, <2>5, <3>2, <3>3
    <3> HIDE DEF Upto
    <3> QED BY <2>5, <3>4
  <2> QED BY <2>6, <2>7
<1>5. N \in Ok
  <2> HIDE DEF Ok
  <2> QED BY <1>1, <1>3, <1>4, SetInduction
<1>6. PICK n \in 0 .. N : Upto(N, n)
  BY <1>1, <1>5
<1> QED BY <1>2, <1>6 DEF N

(* Storing one fact is storing a message of one.                           *)
LEMMA OneStored ==
  ASSUME NEW pm \in Progress, NEW fact \in Facts
  PROVE  AllStored(pm, <<fact>>) = StoredFact(pm, fact)
<1>1. <<fact>> \in Seq(Facts) /\ Len(<<fact>>) = 1 /\ <<fact>>[1] = fact
  OBVIOUS
<1>2. PICK r \in [0 .. Len(<<fact>>) -> Progress] :
        /\ r[0] = pm
        /\ \A i \in 1 .. Len(<<fact>>) : r[i] = StoredFact(r[i - 1], <<fact>>[i])
        /\ AllStored(pm, <<fact>>) = r[Len(<<fact>>)]
  BY <1>1, AllStoredLoop
<1>3. 1 \in 1 .. 1 /\ 1 - 1 = 0
  OBVIOUS
<1> QED BY <1>1, <1>2, <1>3

(* Both calls that tell facts store them in a loop of store_fact.          *)
LEMMA ToldIsStored ==
  ASSUME IInv, Next, call'.op \in {"ingest", "store_fact"}
  PROVE  LET out == AllStored(Here, Told(call'))
         IN  Told(call') \in Seq(Facts) /\ mem' = out.mem /\ call'.ok = out.ok
<1>1. CASE call'.op = "ingest"
  <2>1. PICK n \in 0 .. MaxFacts : \E facts \in [1 .. n -> Facts] : Ingest(facts)
    BY <1>1, CallsByName
  <2>2. PICK facts \in [1 .. n -> Facts] : Ingest(facts)
    BY <2>1
  <2>3. facts \in Seq(Facts)
    BY FactsAreSeq, MaxFactsAssumption
  <2>4. /\ mem' = AllStored(Here, facts).mem /\ call'.facts = facts
        /\ call'.ok = AllStored(Here, facts).ok
    BY <2>2 DEF Ingest, Becomes
  <2> QED BY <1>1, <2>3, <2>4 DEF Told
<1>2. CASE call'.op = "store_fact"
  <2>1. PICK p \in Predicates, v \in UserValues : StoreFact(p, v)
    BY <1>2, CallsByName
  <2> DEFINE fact == NewFact(p, v)
  <2>2. fact \in Facts
    BY DEF Facts
  <2>3. Here \in Progress
    BY HereProgress DEF IInv, TypeOK
  <2>4. /\ mem' = StoredFact(Here, fact).mem /\ call'.ok = StoredFact(Here, fact).ok
        /\ call'.name = p /\ call'.value = v
    BY <2>1 DEF StoreFact, Becomes
  <2>5. Told(call') = <<fact>>
    BY <1>2, <2>4 DEF Told
  <2> HIDE DEF fact
  <2>6. <<fact>> \in Seq(Facts)
    BY <2>2
  <2>7. AllStored(Here, <<fact>>) = StoredFact(Here, fact)
    BY <2>2, <2>3, OneStored
  <2> QED BY <2>4, <2>5, <2>6, <2>7
<1> QED BY <1>1, <1>2

(* A message that fails leaves exactly the facts before the one that did   *)
(* not fit, and of two facts about the same predicate the later one.       *)
THEOREM IngestAlwaysStoresPrefix == Spec => IngestStoresPrefix
<1> DEFINE A == call'.op \in {"ingest", "store_fact"} =>
        LET told == Told(call')
        IN  \E n \in 0 .. Len(told) :
              /\ n = Len(told) <=> call'.ok
              /\ ~call'.ok => told[n + 1].obj \notin Known(mem')
              /\ \A k \in Keys :
                   LET mine == {i \in 1 .. n : told[i].predicate = k}
                   IN  Contents(mem')[k] =
                         IF mine = {} THEN Contents(mem)[k]
                         ELSE told[CHOOSE i \in mine : \A j \in mine : j <= i].obj
<1>1. IInv /\ [Next]_vars => [A]_vars
  <2> SUFFICES ASSUME IInv, Next, call'.op \in {"ingest", "store_fact"} PROVE A
    OBVIOUS
  <2> DEFINE facts == Told(call')
             out   == AllStored(Here, facts)
  <2>4. facts \in Seq(Facts) /\ mem' = out.mem /\ call'.ok = out.ok
    BY ToldIsStored
  <2> HIDE DEF facts
  <2>5. Here \in Progress /\ Here.ok /\ Here.mem = mem /\ Coherent(mem)
    BY HereProgress DEF Here, IInv, TypeOK
  <2>6. Coherent(out.mem)
    <3>1. out \in Progress
      BY <2>4, <2>5, AllStoredProgress
    <3> QED BY <3>1 DEF Progress
  <2>7. PICK n \in 0 .. Len(facts) :
          /\ n = Len(facts) <=> out.ok
          /\ ~out.ok => facts[n + 1].obj \notin Known(out.mem)
          /\ \A k \in Keys : Content(out.mem, k) = LastTold(mem, facts, n, k)
    BY <2>4, <2>5, AllStoredPrefix
  <2> HIDE DEF out
  <2>8. ASSUME NEW k \in Keys
        PROVE  LET mine == {i \in 1 .. n : facts[i].predicate = k}
               IN  Contents(mem')[k] =
                     IF mine = {} THEN Contents(mem)[k]
                     ELSE facts[CHOOSE i \in mine : \A j \in mine : j <= i].obj
    <3>1. Contents(mem')[k] = Content(out.mem, k) /\ Contents(mem)[k] = Content(mem, k)
      BY <2>4, <2>5, <2>6, RetrievedIsContent DEF Contents
    <3>2. Mine(facts, n, k) = {i \in 1 .. n : facts[i].predicate = k}
      BY DEF Mine
    <3>3. Content(out.mem, k) = LastTold(mem, facts, n, k)
      BY <2>7
    <3>4. LastTold(mem, facts, n, k) =
            IF Mine(facts, n, k) = {} THEN Content(mem, k)
            ELSE facts[CHOOSE i \in Mine(facts, n, k) :
                         \A j \in Mine(facts, n, k) : j <= i].obj
      BY DEF LastTold, Latest
    <3> QED BY <3>1, <3>2, <3>3, <3>4
  <2>9. /\ n = Len(facts) <=> call'.ok
        /\ ~call'.ok => facts[n + 1].obj \notin Known(mem')
        /\ n \in 0 .. Len(facts)
    BY <2>4, <2>7
  <2> DEFINE Left(q) ==
               /\ q = Len(facts) <=> call'.ok
               /\ ~call'.ok => facts[q + 1].obj \notin Known(mem')
               /\ \A k \in Keys :
                    LET mine == {i \in 1 .. q : facts[i].predicate = k}
                    IN  Contents(mem')[k] =
                          IF mine = {} THEN Contents(mem)[k]
                          ELSE facts[CHOOSE i \in mine : \A j \in mine : j <= i].obj
  <2>10. Left(n)
    BY <2>8, <2>9
  <2> HIDE DEF Left
  <2>11. \E q \in 0 .. Len(facts) : Left(q)
    BY <2>9, <2>10
  <2> QED BY <2>11, Zenon DEF Left, facts
<1> QED BY <1>1, AlwaysIInv, PTL DEF Spec, IngestStoresPrefix
=============================================================================
