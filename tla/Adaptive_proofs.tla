--------------------------- MODULE Adaptive_proofs ---------------------------
(***************************************************************************)
(* AdaptiveMemory and AdaptivePersistence, for any sets of keys, values    *)
(* and secrets and any capacities.                                         *)
(*                                                                         *)
(* Calls: the safety properties and the refinement of FactBank.  The       *)
(* inductive invariant is Coherent: the named properties cannot be proved  *)
(* one by one, because what a call subtracts from M is read from k2v,      *)
(* found through key_to_shard, and is a row only while the vocab index     *)
(* agrees.                                                                 *)
(*                                                                         *)
(* Saving and loading: the inductive invariant adds to PersistTypeOK that  *)
(* what was saved was coherent and that a complete file is its snapshot.   *)
(* The argument is about the loop of from_snapshot: after i pairs the      *)
(* memory holds the first i facts, in that order, and knows no other       *)
(* value, so that the vocab, which had a row for each of them before, has  *)
(* room for the next.                                                      *)
(***************************************************************************)
EXTENDS AdaptiveMemory, AdaptivePersistence, AdaptiveOps_proofs

-----------------------------------------------------------------------------
(* AdaptiveMemory                                                          *)

(* Every call, and every stutter, keeps the memory coherent.               *)
LEMMA NextCoherent ==
  ASSUME Coherent(mem), [Next]_vars
  PROVE  Coherent(mem')
<1>1. ASSUME NEW key \in Keys, NEW value \in Values, Store(key, value)
      PROVE  Coherent(mem')
  BY <1>1, StoredCoherent DEF Store
<1>2. ASSUME NEW value \in Values, StoreVocabFull(value)
      PROVE  Coherent(mem')
  BY <1>2 DEF StoreVocabFull
<1>3. ASSUME NEW key \in Keys, Forget(key)
      PROVE  Coherent(mem')
  BY <1>3, ForgottenCoherent DEF Forget
<1>4. ASSUME NEW key \in Keys, ForgetUnknown(key)
      PROVE  Coherent(mem')
  BY <1>4 DEF ForgetUnknown
<1>5. ASSUME NEW key \in Keys, Retrieve(key)
      PROVE  Coherent(mem')
  BY <1>5 DEF Retrieve
<1>6. CASE UNCHANGED vars
  BY <1>6 DEF vars
<1> QED BY <1>1, <1>2, <1>3, <1>4, <1>5, <1>6 DEF Next

(* After every sequence of calls the memory is coherent.                   *)
THEOREM AlwaysCoherent == Spec => []Coherent(mem)
<1>1. Init => Coherent(mem)
  BY NewMemoryCoherent DEF Init
<1>2. Coherent(mem) /\ [Next]_vars => Coherent(mem)'
  BY NextCoherent
<1> QED BY <1>1, <1>2, PTL DEF Spec

(* TypeOK: what a call returns is one of the declared replies, and         *)
(* retrieve never reads past the registered rows.                          *)
THEOREM TypeCorrect == Spec => []TypeOK
<1>1. Init => TypeOK
  BY NewMemoryCoherent DEF Init, TypeOK, Coherent
<1>2. TypeOK /\ Coherent(mem) /\ Coherent(mem)' /\ [Next]_vars => TypeOK'
  <2> SUFFICES ASSUME TypeOK, Coherent(mem), Coherent(mem'), [Next]_vars
               PROVE  TypeOK'
    OBVIOUS
  <2>1. mem' \in MemoryType
    BY DEF Coherent
  <2>2. ASSUME NEW key \in Keys, Retrieve(key)
        PROVE  reply' \in Values \cup {NotFound}
    <3>1. reply' = Content(mem, key)
      BY <2>2, RetrievedIsContent DEF Retrieve
    <3>2. Content(mem, key) \in Values \cup {NotFound}
      BY RowOfLiveKey DEF Content
    <3> QED BY <3>1, <3>2
  <2> QED BY <2>1, <2>2 DEF TypeOK, Next, vars, Store, StoreVocabFull,
                            Forget, ForgetUnknown
<1> QED BY <1>1, <1>2, AlwaysCoherent, PTL DEF Spec

(* Each M is exactly the superposition of the live facts of its shard:     *)
(* overwriting and forgetting leave no residual.                           *)
THEOREM NoResidualAlways == Spec => []NoResidual
<1>1. Coherent(mem) => NoResidual
  BY DEF Coherent, NoResidual
<1> QED BY <1>1, AlwaysCoherent, PTL

(* Routing map, keys vectors, k2v maps, total_facts and the vocab's index  *)
(* always agree.                                                           *)
THEOREM BooksAlways == Spec => []BooksAgree
<1>1. Coherent(mem) => BooksAgree
  BY DEF Coherent, BooksAgree
<1> QED BY <1>1, AlwaysCoherent, PTL

(* No shard is ever loaded beyond its capacity.                            *)
THEOREM LoadAlways == Spec => []ShardLoadBounded
<1>1. Coherent(mem) => ShardLoadBounded
  BY DEF Coherent, ShardLoadBounded
<1> QED BY <1>1, AlwaysCoherent, PTL

-----------------------------------------------------------------------------
(* Registering never disturbs a row that is in use.                        *)
LEMMA RegisteredKeepsRows ==
  ASSUME NEW m, Coherent(m), NEW value \in Values
  PROVE  \A r \in DOMAIN m.vocabKeys :
           /\ r \in DOMAIN Registered(m, value).vocabKeys
           /\ Registered(m, value).vocabKeys[r] = m.vocabKeys[r]
<1>1. m.vocabKeys \in Seq(Values) /\ m \in MemoryType
  BY DEF Coherent, MemoryType
<1>2. CASE m.vocabIndex[value] # Absent
  BY <1>2 DEF Registered
<1>3. CASE m.vocabIndex[value] = Absent
  <2>1. Registered(m, value).vocabKeys = Append(m.vocabKeys, value)
    BY <1>1, <1>3 DEF Registered, MemoryType
  <2> QED BY <1>1, <2>1, AppendProperties
<1> QED BY <1>2, <1>3

(* A registered row keeps its value, and a live key stays in its shard.    *)
THEOREM StableAlways == Spec => StableRowsAndPlaces
<1> DEFINE Stable ==
      /\ \A r \in DOMAIN mem.vocabKeys :
           r \in DOMAIN mem'.vocabKeys /\ mem'.vocabKeys[r] = mem.vocabKeys[r]
      /\ \A key \in LiveKeys(mem) \cap LiveKeys(mem') :
           mem'.keyToShard[key] = mem.keyToShard[key]
<1>1. Coherent(mem) /\ [Next]_vars => [Stable]_vars
  <2> SUFFICES ASSUME Coherent(mem), Next PROVE Stable
    OBVIOUS
  <2>1. ASSUME NEW key \in Keys, NEW value \in Values, Store(key, value)
        PROVE  Stable
    <3>1. CanRegister(mem, value) /\ mem' = Stored(mem, key, value)
      BY <2>1 DEF Store
    <3>2. /\ mem'.vocabKeys = Registered(mem, value).vocabKeys
          /\ \A k \in Keys : k # key \/ mem.keyToShard[key] # NoShard
               => mem'.keyToShard[k] = mem.keyToShard[k]
      BY <3>1, StoredContent
    <3> QED BY <3>2, RegisteredKeepsRows DEF LiveKeys
  <2>2. ASSUME NEW key \in Keys, Forget(key)
        PROVE  Stable
    <3>1. /\ mem'.vocabKeys = mem.vocabKeys
          /\ \A k \in Keys : mem'.keyToShard[k] =
               IF k = key THEN NoShard ELSE mem.keyToShard[k]
      BY <2>2, ForgottenContent DEF Forget
    <3> QED BY <3>1 DEF LiveKeys
  <2>3. ASSUME UNCHANGED mem PROVE Stable
    BY <2>3 DEF LiveKeys
  <2> QED BY <2>1, <2>2, <2>3 DEF Next, StoreVocabFull, ForgetUnknown, Retrieve
<1> QED BY <1>1, AlwaysCoherent, PTL DEF Spec, StableRowsAndPlaces

-----------------------------------------------------------------------------
(* The instance of FiniteSets inside Bank counts as this module's does.    *)
LEMMA SameCardinality ==
  ASSUME NEW S
  PROVE  Bank!Cardinality(S) = Cardinality(S)
BY DEF Bank!Cardinality, Cardinality

(* What retrieve decodes behaves as the dictionary FactBank specifies.     *)
THEOREM Refinement == Spec => ImplementsFactBank
<1> DEFINE facts == [k \in Keys |-> Retrieved(mem, k)]
<1>1. Init => Bank!Init
  <2> SUFFICES ASSUME Init PROVE Bank!Init
    OBVIOUS
  <2>1. \A k \in Keys : Retrieved(mem, k) = NotFound
    BY DEF Init, NewMemory, Retrieved
  <2>2. Known(mem) = {}
    BY DEF Init, NewMemory, Known, Range
  <2> QED BY <2>1, <2>2 DEF Bank!Init, Init
<1>2. Coherent(mem) /\ Coherent(mem)' /\ [Next]_vars => [Bank!Next]_(Bank!vars)
  <2> SUFFICES ASSUME Coherent(mem), Coherent(mem'), [Next]_vars
               PROVE  [Bank!Next]_(Bank!vars)
    OBVIOUS
  <2>0. /\ \A k \in Keys : Retrieved(mem, k) = Content(mem, k)
        /\ \A k \in Keys : Retrieved(mem', k) = Content(mem', k)
    BY RetrievedIsContent
  <2>1. ASSUME NEW key \in Keys, NEW value \in Values, Store(key, value)
        PROVE  Bank!Put(key, value)
    <3>1. CanRegister(mem, value) /\ mem' = Stored(mem, key, value)
      BY <2>1 DEF Store
    <3>2. \A k \in Keys : Retrieved(mem', k) =
                            IF k = key THEN value ELSE Retrieved(mem, k)
      BY <2>0, <3>1, StoredContent
    <3>3. [k \in Keys |-> Retrieved(mem', k)] = [facts EXCEPT ![key] = value]
      BY <3>2
    <3>4. Known(mem') = Known(mem) \cup {value}
      BY <3>1, StoredContent
    <3>5. value \in Known(mem) \/ Cardinality(Known(mem)) < VocabCap
      BY <3>1, CanRegisterIsRoom
    <3>6. reply' = "stored"
      BY <2>1 DEF Store
    <3> QED BY <3>3, <3>4, <3>5, <3>6, SameCardinality DEF Bank!Put
  <2>2. ASSUME NEW value \in Values, StoreVocabFull(value)
        PROVE  Bank!PutRejected(value)
    <3>1. value \notin Known(mem) /\ ~(Cardinality(Known(mem)) < VocabCap)
      BY <2>2, CanRegisterIsRoom DEF StoreVocabFull
    <3>2. Cardinality(Known(mem)) \in Nat
      <4>1. mem.vocabKeys \in Seq(Values)
        BY DEF Coherent, MemoryType
      <4>2. Cardinality(Known(mem)) = Len(mem.vocabKeys)
        BY KnownCount
      <4> QED BY <4>1, <4>2
    <3>3. Cardinality(Known(mem)) >= VocabCap
      BY <3>1, <3>2, VocabCapAssumption
    <3> QED BY <2>2, <3>1, <3>3, SameCardinality DEF Bank!PutRejected, StoreVocabFull
  <2>3. ASSUME NEW key \in Keys, Forget(key)
        PROVE  Bank!Erase(key)
    <3>1. Holds(mem, key) /\ mem' = Forgotten(mem, key) /\ reply' = "forgotten"
      BY <2>3 DEF Forget
    <3>2. \A k \in Keys : Retrieved(mem', k) =
                            IF k = key THEN NotFound ELSE Retrieved(mem, k)
      BY <2>0, <3>1, ForgottenContent
    <3>3. [k \in Keys |-> Retrieved(mem', k)] = [facts EXCEPT ![key] = NotFound]
      BY <3>2
    <3>4. Known(mem') = Known(mem)
      BY <3>1, ForgottenContent DEF Known
    <3>5. mem.keyToShard[key] # NoShard
      BY <3>1 DEF Holds
    <3>6. Retrieved(mem, key) # NotFound
      <4>1. Content(mem, key) \in Values
        BY <2>0, <3>5, RowOfLiveKey DEF Content
      <4> QED BY <2>0, <4>1, RowOfLiveKey, NotFoundAssumption
    <3> QED BY <3>1, <3>3, <3>4, <3>6 DEF Bank!Erase
  <2>4. ASSUME NEW key \in Keys, ForgetUnknown(key)
        PROVE  Bank!Erase(key)
    <3>1. ~Holds(mem, key) /\ mem' = mem /\ reply' = "absent"
      BY <2>4 DEF ForgetUnknown
    <3>2. mem.keyToShard[key] = NoShard
      <4> SUFFICES ASSUME mem.keyToShard[key] # NoShard PROVE FALSE
        OBVIOUS
      <4>1. mem.shards[mem.keyToShard[key]].k2v[key] \in Rows
        BY RowOfLiveKey
      <4>2. Absent \notin Rows
        BY VocabCapAssumption DEF Absent, Rows
      <4> QED BY <3>1, <4>1, <4>2 DEF Holds
    <3>3. Retrieved(mem, key) = NotFound
      BY <3>2 DEF Retrieved
    <3>4. [k \in Keys |-> Retrieved(mem', k)] = [facts EXCEPT ![key] = NotFound]
      BY <3>1, <3>3
    <3> QED BY <3>1, <3>3, <3>4 DEF Bank!Erase
  <2>5. ASSUME NEW key \in Keys, Retrieve(key)
        PROVE  Bank!Lookup(key)
    BY <2>5 DEF Retrieve, Bank!Lookup
  <2>6. CASE UNCHANGED vars
    BY <2>6 DEF vars, Bank!vars
  <2> QED BY <2>1, <2>2, <2>3, <2>4, <2>5, <2>6 DEF Next, Bank!Next
<1> QED BY <1>1, <1>2, AlwaysCoherent, PTL DEF Spec, ImplementsFactBank, Bank!Spec

-----------------------------------------------------------------------------
(* AdaptivePersistence                                                     *)

(* A shard that has a row for each of its keys is saved key by key.        *)
LEMMA ShardPairsOfHeld ==
  ASSUME NEW sh, sh.keys \in Seq(Keys),
         \A j \in 1 .. Len(sh.keys) : sh.k2v[sh.keys[j]] \in Rows
  PROVE  /\ ShardPairs(sh) \in Seq(Keys \X Rows)
         /\ Len(ShardPairs(sh)) = Len(sh.keys)
         /\ \A j \in 1 .. Len(sh.keys) :
              ShardPairs(sh)[j] = <<sh.keys[j], sh.k2v[sh.keys[j]]>>
<1> DEFINE n == Len(sh.keys)
           S == Seq(Keys \X Rows)
           e == [j \in 1 .. n |-> <<sh.keys[j], sh.k2v[sh.keys[j]]>>]
           g == [j \in 1 .. n |-> [t \in S |-> Append(t, e[j])]]
           a == <<>>
           Body(f, j) == IF j = 0 THEN <<>>
                         ELSE IF sh.k2v[sh.keys[j]] # Absent
                         THEN Append(f[j - 1], <<sh.keys[j], sh.k2v[sh.keys[j]]>>)
                         ELSE f[j - 1]
           c == CHOOSE f : f = [j \in 0 .. n |-> Body(f, j)]
<1>1. n \in Nat /\ a \in S
  OBVIOUS
<1>2. \A j \in 1 .. n : /\ sh.keys[j] \in Keys /\ sh.k2v[sh.keys[j]] \in Rows
                        /\ sh.k2v[sh.keys[j]] # Absent
  BY VocabCapAssumption DEF Absent, Rows
<1>3. ShardPairs(sh) = c[n]
  BY DEF ShardPairs
<1>4. \A j \in 1 .. n : /\ e[j] = <<sh.keys[j], sh.k2v[sh.keys[j]]>>
                        /\ e[j] \in Keys \X Rows
  BY <1>2
<1> HIDE DEF n, e
<1>5. g \in [1 .. n -> [S -> S]]
  BY <1>4
<1>6. PICK p \in Runs(n, S, a, g) : TRUE
  <2> HIDE DEF g, S, a
  <2> QED BY <1>1, <1>5, LoopExists
<1>7. /\ p \in [0 .. n -> S] /\ p[0] = <<>>
      /\ \A j \in 1 .. n : p[j] = Append(p[j - 1], e[j])
  <2>1. /\ p \in [0 .. n -> S] /\ p[0] = <<>>
        /\ \A j \in 1 .. n : p[j] = g[j][p[j - 1]]
    BY <1>6 DEF Runs
  <2>2. \A j \in 1 .. n : j - 1 \in 0 .. n
    BY <1>1
  <2> HIDE DEF S
  <2>3. \A j \in 1 .. n : p[j - 1] \in S
    BY <2>1, <2>2
  <2>4. \A j \in 1 .. n, t \in S : g[j][t] = Append(t, e[j])
    OBVIOUS
  <2> HIDE DEF g
  <2> QED BY <2>1, <2>3, <2>4
<1>8. c = [j \in 0 .. n |-> Body(c, j)]
  <2>1. \A j \in 0 .. n : p[j] = Body(p, j)
    <3> TAKE j \in 0 .. n
    <3>1. CASE j = 0
      BY <1>7, <3>1
    <3>2. CASE j # 0
      <4>1. j \in 1 .. n
        BY <1>1, <3>2
      <4> QED BY <1>2, <1>4, <1>7, <3>2, <4>1
    <3> QED BY <3>1, <3>2
  <2>2. p = [j \in 0 .. n |-> p[j]]
    BY <1>7
  <2> HIDE DEF Body
  <2>3. p = [j \in 0 .. n |-> Body(p, j)]
    BY <2>1, <2>2
  <2> QED BY <2>3, Zenon
<1> HIDE DEF c, S
<1> DEFINE Good(j) == /\ c[j] \in Seq(Keys \X Rows)
                      /\ Len(c[j]) = j
                      /\ \A i \in 1 .. j : c[j][i] = e[i]
           Ok == {j \in Nat : j <= n => Good(j)}
<1>9. 0 \in Ok
  <2>1. c[0] = <<>>
    BY <1>1, <1>8
  <2>2. Good(0)
    BY <2>1
  <2> QED BY <2>2
<1>10. ASSUME NEW j \in Nat, j \in Ok PROVE j + 1 \in Ok
  <2> SUFFICES ASSUME j + 1 <= n PROVE Good(j + 1)
    OBVIOUS
  <2>1. j + 1 \in 1 .. n /\ j + 1 \in 0 .. n /\ (j + 1) - 1 = j /\ j + 1 # 0
    BY <1>1
  <2>2. c[j + 1] = Append(c[j], e[j + 1])
    BY <1>2, <1>4, <1>8, <2>1
  <2>3. Good(j) /\ e[j + 1] \in Keys \X Rows
    BY <1>1, <1>4, <1>10, <2>1
  <2>4. \A i \in 1 .. j + 1 : i \in 1 .. j \/ i = j + 1
    OBVIOUS
  <2> QED BY <2>2, <2>3, <2>4, AppendProperties
<1>11. n \in Ok
  <2> HIDE DEF Ok
  <2> QED BY <1>1, <1>9, <1>10, SetInduction
<1>12. Good(n)
  BY <1>1, <1>11
<1> QED BY <1>3, <1>4, <1>12 DEF n

(* The row of the vocab that a key's fact refers to.                       *)
RowOf(m, k) == m.shards[m.keyToShard[k]].k2v[k]

(* What is written is, shard after shard, each fact's key with its row.    *)
LEMMA SnapshotPairs ==
  ASSUME NEW m, Coherent(m)
  PROVE  /\ Snapshot(m) \in Snapshots
         /\ Len(FlattenSeq(Snapshot(m).shards)) = Len(FactKeys(m))
         /\ \A j \in 1 .. Len(FactKeys(m)) :
              FlattenSeq(Snapshot(m).shards)[j] =
                <<FactKeys(m)[j], RowOf(m, FactKeys(m)[j])>>
<1> DEFINE n  == Len(m.shards)
           ss == ShardKeys(m)
           tt == Snapshot(m).shards
           U  == Keys \X Int
           G  == [k \in Keys |->
                   <<k, IF m.keyToShard[k] # NoShard THEN RowOf(m, k) ELSE 0>>]
<1>1. /\ m \in MemoryType /\ n \in Nat /\ m.vocabKeys \in Seq(Values)
      /\ DOMAIN m.shards = 1 .. n /\ ByShard(m)
  BY CoherentByShard DEF Coherent, MemoryType
<1>2. /\ ss \in Seq(Seq(Keys)) /\ Len(ss) = n
      /\ \A i \in 1 .. n : ss[i] = m.shards[i].keys
  BY <1>1, ShardKeysType
<1>3. tt = [i \in 1 .. n |-> ShardPairs(m.shards[i])]
  BY <1>1 DEF Snapshot
<1>4. Rows \subseteq Int
  BY VocabCapAssumption DEF Rows
<1>5. ASSUME NEW k \in Keys, m.keyToShard[k] # NoShard
      PROVE  RowOf(m, k) \in Rows
  BY <1>5, RowOfLiveKey DEF RowOf
<1>6. G \in [Keys -> U]
  <2>1. \A k \in Keys : (IF m.keyToShard[k] # NoShard THEN RowOf(m, k) ELSE 0) \in Int
    <3> TAKE k \in Keys
    <3>1. CASE m.keyToShard[k] # NoShard
      BY <1>4, <1>5, <3>1
    <3>2. CASE m.keyToShard[k] = NoShard
      BY <3>2
    <3> QED BY <3>1, <3>2
  <2> QED BY <2>1
<1> HIDE DEF n, ss, tt, G
<1>7. ASSUME NEW i \in 1 .. n
      PROVE  /\ tt[i] \in Seq(Keys \X Rows)
             /\ Len(tt[i]) = Len(ss[i])
             /\ \A j \in 1 .. Len(ss[i]) : tt[i][j] = G[ss[i][j]]
  <2> DEFINE sh == m.shards[i]
  <2>1. sh.keys \in Seq(Keys) /\ ss[i] = sh.keys /\ tt[i] = ShardPairs(sh)
    BY <1>1, <1>2, <1>3, ShardTypes
  <2>2. ASSUME NEW j \in 1 .. Len(sh.keys)
        PROVE  /\ sh.k2v[sh.keys[j]] \in Rows
               /\ G[sh.keys[j]] = <<sh.keys[j], sh.k2v[sh.keys[j]]>>
    <3>1. sh.keys[j] \in Keys /\ sh.keys[j] \in Range(sh.keys)
      BY <2>1 DEF Range
    <3>2. m.keyToShard[sh.keys[j]] = i
      BY <1>1, <3>1 DEF Coherent, Routing
    <3>3. i # NoShard
      BY <1>1 DEF NoShard
    <3> QED BY <1>5, <3>1, <3>2, <3>3 DEF RowOf, G
  <2> HIDE DEF sh
  <2>3. /\ ShardPairs(sh) \in Seq(Keys \X Rows)
        /\ Len(ShardPairs(sh)) = Len(sh.keys)
        /\ \A j \in 1 .. Len(sh.keys) :
             ShardPairs(sh)[j] = <<sh.keys[j], sh.k2v[sh.keys[j]]>>
    BY <2>1, <2>2, ShardPairsOfHeld
  <2> QED BY <2>1, <2>2, <2>3
<1>8. tt \in Seq(Seq(Keys \X Rows)) /\ Len(tt) = n
  BY <1>1, <1>3, <1>7
<1>9. Snapshot(m) \in Snapshots
  BY <1>1, <1>8 DEF Snapshot, Snapshots, tt
<1>10. tt \in Seq(Seq(U))
  <2>1. Keys \X Rows \subseteq U
    BY <1>4
  <2>2. Seq(Keys \X Rows) \subseteq Seq(U)
    BY <2>1, SeqMonotonic
  <2>3. Seq(Seq(Keys \X Rows)) \subseteq Seq(Seq(U))
    BY <2>2, SeqMonotonic
  <2>4. tt \in Seq(Seq(Keys \X Rows))
    BY <1>8
  <2> QED BY ONLY <2>3, <2>4
<1> HIDE DEF U
<1>11. /\ Len(FlattenSeq(tt)) = Len(FlattenSeq(ss))
       /\ \A j \in 1 .. Len(FlattenSeq(ss)) : FlattenSeq(tt)[j] = G[FlattenSeq(ss)[j]]
  <2>1. \A i \in 1 .. Len(ss) : /\ Len(tt[i]) = Len(ss[i])
                                 /\ \A j \in 1 .. Len(ss[i]) : tt[i][j] = G[ss[i][j]]
    BY <1>2, <1>7
  <2>2. Len(tt) = Len(ss) /\ ss \in Seq(Seq(Keys))
    BY <1>2, <1>8
  <2> QED BY ONLY <1>6, <1>10, <2>1, <2>2, FlattenMap, SMTT(30)
<1>12. \A j \in 1 .. Len(FactKeys(m)) :
         G[FactKeys(m)[j]] = <<FactKeys(m)[j], RowOf(m, FactKeys(m)[j])>>
  <2> TAKE j \in 1 .. Len(FactKeys(m))
  <2>1. FactKeys(m) \in Seq(Keys) /\ Range(FactKeys(m)) = LiveKeys(m)
    BY FactKeysLive
  <2>2. FactKeys(m)[j] \in Keys /\ FactKeys(m)[j] \in LiveKeys(m)
    BY <2>1 DEF Range
  <2> QED BY <2>2 DEF G, LiveKeys
<1> QED BY <1>9, <1>11, <1>12 DEF FactKeys, ss, tt

-----------------------------------------------------------------------------
(* The accumulators of the replay.                                         *)
Accs == {acc \in [ok : BOOLEAN, mem : MemoryType] : Coherent(acc.mem)}
Fresh == [ok |-> TRUE, mem |-> NewMemory]

(* Storing a pair of a file, or refusing it, keeps the memory coherent.    *)
LEMMA ReplayStepCoherent ==
  ASSUME NEW vocabKeys \in Seq(Values), NEW acc \in Accs, NEW pair \in Keys \X Rows
  PROVE  ReplayStep(acc, pair, vocabKeys) \in Accs
<1> DEFINE v == vocabKeys[pair[2] + 1]
           G == /\ acc.ok
                /\ pair[2] + 1 \in DOMAIN vocabKeys
                /\ CanRegister(acc.mem, v)
<1>1. /\ acc \in [ok : BOOLEAN, mem : MemoryType]
      /\ Coherent(acc.mem) /\ pair[1] \in Keys
  BY DEF Accs
<1>2. CASE G
  <2>1. v \in Values
    BY <1>2
  <2>2. ReplayStep(acc, pair, vocabKeys) = [ok |-> TRUE, mem |-> Stored(acc.mem, pair[1], v)]
    BY <1>2 DEF ReplayStep
  <2>3. Coherent(Stored(acc.mem, pair[1], v))
    BY <1>1, <1>2, <2>1, StoredCoherent
  <2>4. Stored(acc.mem, pair[1], v) \in MemoryType
    BY <2>3 DEF Coherent
  <2> QED BY <2>2, <2>3, <2>4 DEF Accs
<1>3. CASE ~G
  <2>1. ReplayStep(acc, pair, vocabKeys) = [ok |-> FALSE, mem |-> acc.mem]
    BY <1>3 DEF ReplayStep
  <2> QED BY <1>1, <2>1 DEF Accs
<1> QED BY <1>2, <1>3

(* The loop of from_snapshot, unrolled.                                    *)
LEMMA ReplayLoop ==
  ASSUME NEW snap \in Snapshots
  PROVE  LET pairs == FlattenSeq(snap.shards)
         IN  \E r \in [0 .. Len(pairs) -> Accs] :
               /\ r[0] = Fresh
               /\ \A i \in 1 .. Len(pairs) :
                    r[i] = ReplayStep(r[i - 1], pairs[i], snap.vocabKeys)
               /\ Replayed(snap) = r[Len(pairs)]
<1> DEFINE P  == FlattenSeq(snap.shards)
           n  == Len(P)
           vk == snap.vocabKeys
           g  == [i \in 1 .. n |-> [acc \in Accs |-> ReplayStep(acc, P[i], vk)]]
           Body(f, i) == IF i = 0 THEN [ok |-> TRUE, mem |-> NewMemory]
                         ELSE ReplayStep(f[i - 1], P[i], vk)
           c  == CHOOSE f : f = [i \in 0 .. n |-> Body(f, i)]
<1>1. vk \in Seq(Values) /\ snap.shards \in Seq(Seq(Keys \X Rows))
  BY DEF Snapshots
<1>2. P \in Seq(Keys \X Rows)
  BY <1>1, FlattenType
<1>3. n \in Nat /\ \A i \in 1 .. n : P[i] \in Keys \X Rows
  BY <1>2
<1>4. Replayed(snap) = c[n]
  BY DEF Replayed
<1>5. Fresh \in Accs
  BY NewMemoryCoherent DEF Accs, Fresh, Coherent
<1> HIDE DEF P, n, vk
<1>6. \A i \in 1 .. n, acc \in Accs : g[i][acc] = ReplayStep(acc, P[i], vk)
  OBVIOUS
<1>7. g \in [1 .. n -> [Accs -> Accs]]
  BY <1>1, <1>3, ReplayStepCoherent
<1> HIDE DEF g
<1>8. PICK p \in Runs(n, Accs, Fresh, g) : TRUE
  BY <1>3, <1>5, <1>7, LoopExists
<1>9. /\ p \in [0 .. n -> Accs] /\ p[0] = Fresh
      /\ \A i \in 1 .. n : i - 1 \in 0 .. n /\ p[i] = g[i][p[i - 1]]
  BY <1>3, <1>8 DEF Runs
<1>10. \A i \in 1 .. n : p[i] = ReplayStep(p[i - 1], P[i], vk)
  BY <1>6, <1>9
<1>11. c = [i \in 0 .. n |-> Body(c, i)]
  <2>1. \A i \in 0 .. n : p[i] = Body(p, i)
    <3> TAKE i \in 0 .. n
    <3>1. CASE i = 0
      BY <1>9, <3>1 DEF Fresh
    <3>2. CASE i # 0
      <4>1. i \in 1 .. n
        BY <1>3, <3>2
      <4> QED BY <1>10, <3>2, <4>1
    <3> QED BY <3>1, <3>2
  <2>2. p = [i \in 0 .. n |-> p[i]]
    BY <1>9
  <2> HIDE DEF Body
  <2>3. p = [i \in 0 .. n |-> Body(p, i)]
    BY <2>1, <2>2
  <2> QED BY <2>3, Zenon
<1> HIDE DEF c
<1>12. c[0] = Fresh /\ \A i \in 1 .. n : c[i] = ReplayStep(c[i - 1], P[i], vk)
  <2>1. c[0] = Body(c, 0)
    <3> HIDE DEF Body
    <3> QED BY <1>3, <1>11
  <2>2. ASSUME NEW i \in 1 .. n PROVE c[i] = ReplayStep(c[i - 1], P[i], vk)
    <3>1. i \in 0 .. n /\ i # 0
      BY <1>3
    <3>2. c[i] = Body(c, i)
      <4> HIDE DEF Body
      <4> QED BY <1>11, <3>1
    <3> QED BY <3>1, <3>2
  <2> QED BY <2>1, <2>2 DEF Fresh
<1>13. \A i \in 0 .. n : c[i] = p[i]
  <2> DEFINE Ok == {i \in Nat : i <= n => c[i] = p[i]}
  <2>1. 0 \in Ok
    BY <1>9, <1>12
  <2>2. ASSUME NEW i \in Nat, i \in Ok PROVE i + 1 \in Ok
    <3> SUFFICES ASSUME i + 1 <= n PROVE c[i + 1] = p[i + 1]
      OBVIOUS
    <3>1. i + 1 \in 1 .. n /\ (i + 1) - 1 = i /\ c[i] = p[i]
      BY <1>3, <2>2
    <3> QED BY <1>10, <1>12, <3>1
  <2> HIDE DEF Ok
  <2>3. \A i \in Nat : i \in Ok
    BY <2>1, <2>2, SetInduction
  <2> QED BY <1>3, <2>3 DEF Ok
<1>14. c[n] = p[n]
  BY <1>3, <1>13
<1> QED BY <1>4, <1>9, <1>10, <1>14 DEF P, n, vk

-----------------------------------------------------------------------------
(* The values a memory knows of one that was coherent always fit again.    *)
LEMMA RoomForKnown ==
  ASSUME NEW m, Coherent(m), NEW a, Coherent(a), Known(a) \subseteq Known(m),
         NEW v \in Known(m)
  PROVE  v \in Values /\ CanRegister(a, v)
<1>1. /\ m.vocabKeys \in Seq(Values) /\ Len(m.vocabKeys) <= VocabCap
      /\ Len(m.vocabKeys) \in Nat
  BY DEF Coherent, MemoryType, VocabIndexed
<1>2. v \in Values
  BY <1>1, RangeOfSeq DEF Known
<1>3. IsFiniteSet(Known(m)) /\ Cardinality(Known(m)) <= VocabCap
  BY <1>1, KnownCount
<1>4. CASE v \in Known(a)
  BY <1>2, <1>4, CanRegisterIsRoom
<1>5. CASE v \notin Known(a)
  <2>1. /\ IsFiniteSet(Known(a))
        /\ Cardinality(Known(a)) <= Cardinality(Known(m))
        /\ Cardinality(Known(a)) = Cardinality(Known(m)) => Known(a) = Known(m)
    BY <1>3, FS_Subset
  <2>2. Cardinality(Known(a)) \in Nat /\ Cardinality(Known(m)) \in Nat
    BY <1>3, <2>1, FS_CardinalityType
  <2>3. Cardinality(Known(a)) < VocabCap
    BY <1>3, <1>5, <2>1, <2>2, VocabCapAssumption
  <2> QED BY <1>2, <2>3, CanRegisterIsRoom
<1> QED BY <1>2, <1>4, <1>5

(* What a memory holds after the first i facts of m were stored again.     *)
HoldsFirst(acc, m, i) ==
  /\ acc.ok
  /\ Coherent(acc.mem)
  /\ Len(FactKeys(acc.mem)) = i
  /\ \A j \in 1 .. i : FactKeys(acc.mem)[j] = FactKeys(m)[j]
  /\ \A j \in 1 .. i : Content(acc.mem, FactKeys(m)[j]) = Content(m, FactKeys(m)[j])
  /\ \A v : v \in Known(acc.mem) <=> \E j \in 1 .. i : v = Content(m, FactKeys(m)[j])
  /\ Full(acc.mem)

(* Each step of the replay of a snapshot stores the next fact.             *)
LEMMA ReplayStoresNext ==
  ASSUME NEW m, Coherent(m), NEW i \in Nat, i + 1 <= Len(FactKeys(m)),
         NEW acc \in Accs, HoldsFirst(acc, m, i)
  PROVE  LET key  == FactKeys(m)[i + 1]
             next == ReplayStep(acc, FlattenSeq(Snapshot(m).shards)[i + 1], m.vocabKeys)
         IN  /\ next = [ok  |-> TRUE, mem |-> Stored(acc.mem, key, Content(m, key))]
             /\ HoldsFirst(next, m, i + 1)
<1> DEFINE F    == FactKeys(m)
           key  == F[i + 1]
           v    == Content(m, key)
           pair == FlattenSeq(Snapshot(m).shards)[i + 1]
           next == ReplayStep(acc, pair, m.vocabKeys)
           a    == acc.mem
           new  == Stored(a, key, v)
<1>1. /\ F \in Seq(Keys) /\ IsInjective(F) /\ Range(F) = LiveKeys(m)
      /\ Len(F) \in Nat /\ i + 1 \in 1 .. Len(F)
  BY FactKeysLive
<1>2. /\ m.vocabKeys \in Seq(Values) /\ DOMAIN m.vocabKeys = 1 .. Len(m.vocabKeys)
      /\ Len(m.vocabKeys) \in Nat
  BY DEF Coherent, MemoryType
<1>3. pair = <<key, RowOf(m, key)>>
  BY <1>1, SnapshotPairs
<1> HIDE DEF F
<1>4. \A j \in 1 .. Len(F) : F[j] \in Keys /\ m.keyToShard[F[j]] # NoShard
  <2> TAKE j \in 1 .. Len(F)
  <2>1. F[j] \in Range(F)
    BY <1>1 DEF Range
  <2> QED BY <1>1, <2>1 DEF LiveKeys
<1>5. ASSUME NEW j \in 1 .. Len(F)
      PROVE  /\ RowOf(m, F[j]) + 1 \in DOMAIN m.vocabKeys
             /\ Content(m, F[j]) = m.vocabKeys[RowOf(m, F[j]) + 1]
             /\ Content(m, F[j]) \in Known(m)
  <2>1. F[j] \in Keys /\ m.keyToShard[F[j]] # NoShard
    BY <1>4
  <2>2. RowOf(m, F[j]) \in 0 .. Len(m.vocabKeys) - 1
    BY <2>1, RowOfLiveKey DEF RowOf
  <2>3. RowOf(m, F[j]) + 1 \in DOMAIN m.vocabKeys
    BY <1>2, <2>2
  <2>4. Content(m, F[j]) = m.vocabKeys[RowOf(m, F[j]) + 1]
    BY <2>1 DEF Content, RowOf
  <2> QED BY <2>3, <2>4 DEF Known, Range
<1>6. /\ acc.ok /\ Coherent(a) /\ Len(FactKeys(a)) = i
      /\ \A j \in 1 .. i : FactKeys(a)[j] = F[j]
      /\ \A j \in 1 .. i : Content(a, F[j]) = Content(m, F[j])
      /\ \A w : w \in Known(a) <=> \E j \in 1 .. i : w = Content(m, F[j])
      /\ Full(a)
  BY DEF HoldsFirst, F
<1>7. \A j \in 1 .. i : j \in 1 .. Len(F) /\ j # i + 1
  BY <1>1
<1>8. Known(a) \subseteq Known(m)
  BY <1>5, <1>6, <1>7
<1>9. key \in Keys /\ v \in Values /\ CanRegister(a, v)
  <2>1. v \in Known(m)
    BY <1>1, <1>5
  <2> HIDE DEF v, key, a
  <2>2. v \in Values /\ CanRegister(a, v)
    BY <1>6, <1>8, <2>1, RoomForKnown
  <2> QED BY <1>1, <1>4, <2>2 DEF key
<1>10. next = [ok |-> TRUE, mem |-> new]
  <2>1. /\ pair[1] = key /\ pair[2] + 1 \in DOMAIN m.vocabKeys
        /\ m.vocabKeys[pair[2] + 1] = v
    BY <1>1, <1>3, <1>5
  <2> HIDE DEF pair, key, v, a, new
  <2> QED BY <1>6, <1>9, <2>1 DEF ReplayStep, a, new
<1>11. a.keyToShard[key] = NoShard
  <2> SUFFICES ASSUME a.keyToShard[key] # NoShard PROVE FALSE
    OBVIOUS
  <2>1. key \in Range(FactKeys(a)) /\ FactKeys(a) \in Seq(Keys)
    BY <1>6, <1>9, FactKeysLive DEF LiveKeys
  <2>2. PICK j \in 1 .. i : FactKeys(a)[j] = key
    BY <1>6, <2>1 DEF Range
  <2>3. F[j] = F[i + 1] /\ j \in 1 .. Len(F) /\ j # i + 1
    BY <1>6, <1>7, <2>2
  <2> QED BY <1>1, <2>3 DEF IsInjective
<1> HIDE DEF key, v, a, pair, new
<1>12. /\ Coherent(new)
       /\ FactKeys(new) = Append(FactKeys(a), key)
       /\ Full(new)
       /\ \A k \in Keys : Content(new, k) = IF k = key THEN v ELSE Content(a, k)
       /\ Known(new) = Known(a) \cup {v}
  BY <1>6, <1>9, <1>11, StoredCoherent, StoredAppends, StoredContent DEF new
<1>13. \A j : j \in 1 .. i + 1 <=> j \in 1 .. i \/ j = i + 1
  OBVIOUS
<1>14. /\ Len(FactKeys(new)) = i + 1
       /\ \A j \in 1 .. i + 1 : FactKeys(new)[j] = F[j]
  <2>1. FactKeys(a) \in Seq(Keys)
    BY <1>6, FactKeysLive
  <2> QED BY <1>6, <1>9, <1>12, <1>13, <2>1, AppendProperties DEF key
<1>15. \A j \in 1 .. i + 1 : Content(new, F[j]) = Content(m, F[j])
  <2> TAKE j \in 1 .. i + 1
  <2>1. CASE j = i + 1
    BY <1>9, <1>12, <2>1 DEF key, v
  <2>2. CASE j \in 1 .. i
    <3>1. F[j] \in Keys
      BY <1>4, <1>7, <2>2
    <3>2. F[j] # key
      BY <1>1, <1>7, <2>2 DEF key, IsInjective
    <3> QED BY <1>6, <1>12, <2>2, <3>1, <3>2
  <2> QED BY <1>13, <2>1, <2>2
<1>16. \A w : w \in Known(new) <=> \E j \in 1 .. i + 1 : w = Content(m, F[j])
  BY <1>6, <1>12, <1>13 DEF v, key
<1>17. HoldsFirst([ok |-> TRUE, mem |-> new], m, i + 1)
  BY <1>12, <1>14, <1>15, <1>16 DEF HoldsFirst, F
<1> QED BY <1>10, <1>17 DEF new, key, v, a, F, pair

(* No fact is stored yet.                                                  *)
LEMMA FreshHoldsNone ==
  ASSUME NEW m
  PROVE  HoldsFirst(Fresh, m, 0)
<1>1. Coherent(NewMemory) /\ NewMemory \in MemoryType
  BY NewMemoryCoherent DEF Coherent
<1>2. NewMemory.shards = <<>> /\ NewMemory.vocabKeys = <<>>
  BY DEF NewMemory
<1>3. Len(FactKeys(NewMemory)) = 0
  <2>1. Len(ShardKeys(NewMemory)) = 0
    BY <1>1, <1>2, ShardKeysType
  <2> QED BY <2>1 DEF FactKeys, FlattenSeq
<1>4. Known(NewMemory) = {}
  BY <1>2 DEF Known, Range
<1>5. Full(NewMemory)
  BY <1>2 DEF Full
<1> QED BY <1>1, <1>3, <1>4, <1>5 DEF HoldsFirst, Fresh

(* Loading a snapshot stores its facts, all of them, one after the other.  *)
LEMMA ReplayOfSnapshot ==
  ASSUME NEW m, Coherent(m)
  PROVE  LET keys == FactKeys(m)
         IN  \E r \in [0 .. Len(keys) -> Accs] :
               /\ r[0] = Fresh
               /\ \A i \in 1 .. Len(keys) :
                    r[i] = [ok  |-> TRUE,
                            mem |-> Stored(r[i - 1].mem, keys[i], Content(m, keys[i]))]
               /\ Replayed(Snapshot(m)) = r[Len(keys)]
               /\ HoldsFirst(r[Len(keys)], m, Len(keys))
<1> DEFINE F == FactKeys(m)
           n == Len(F)
           P == FlattenSeq(Snapshot(m).shards)
<1>1. Snapshot(m) \in Snapshots /\ Len(P) = n
  BY SnapshotPairs
<1>2. n \in Nat
  BY FactKeysLive
<1>3. Snapshot(m).vocabKeys = m.vocabKeys
  BY DEF Snapshot
<1>4. PICK r \in [0 .. n -> Accs] :
        /\ r[0] = Fresh
        /\ \A i \in 1 .. n : r[i] = ReplayStep(r[i - 1], P[i], m.vocabKeys)
        /\ Replayed(Snapshot(m)) = r[n]
  BY <1>1, <1>3, ReplayLoop
<1> HIDE DEF n, P
<1> DEFINE Ok == {i \in Nat : i <= n => HoldsFirst(r[i], m, i)}
<1>5. ASSUME NEW i \in Nat, i + 1 <= n, HoldsFirst(r[i], m, i)
      PROVE  /\ r[i + 1] = [ok  |-> TRUE,
                            mem |-> Stored(r[i].mem, F[i + 1], Content(m, F[i + 1]))]
             /\ HoldsFirst(r[i + 1], m, i + 1)
  <2>1. i + 1 \in 1 .. n /\ (i + 1) - 1 = i /\ r[i] \in Accs
    BY <1>2, <1>4, <1>5
  <2>2. r[i + 1] = ReplayStep(r[i], P[i + 1], m.vocabKeys)
    BY <1>4, <2>1
  <2> QED BY <1>5, <2>1, <2>2, ReplayStoresNext DEF n, P
<1>6. 0 \in Ok
  BY <1>4, FreshHoldsNone
<1>7. ASSUME NEW i \in Nat, i \in Ok PROVE i + 1 \in Ok
  <2> SUFFICES ASSUME i + 1 <= n PROVE HoldsFirst(r[i + 1], m, i + 1)
    OBVIOUS
  <2>1. HoldsFirst(r[i], m, i)
    BY <1>2, <1>7
  <2> QED BY <1>5, <2>1
<1>8. \A i \in Nat : i <= n => HoldsFirst(r[i], m, i)
  <2> HIDE DEF Ok
  <2>1. \A i \in Nat : i \in Ok
    BY <1>6, <1>7, SetInduction
  <2> QED BY <2>1 DEF Ok
<1>9. \A i \in 1 .. n :
        r[i] = [ok |-> TRUE, mem |-> Stored(r[i - 1].mem, F[i], Content(m, F[i]))]
  <2> TAKE i \in 1 .. n
  <2>1. i - 1 \in Nat /\ (i - 1) + 1 = i /\ i - 1 <= n
    BY <1>2
  <2>2. HoldsFirst(r[i - 1], m, i - 1)
    BY <1>8, <2>1
  <2> QED BY <1>5, <2>1, <2>2
<1>10. HoldsFirst(r[n], m, n)
  BY <1>2, <1>8
<1> QED BY <1>4, <1>9, <1>10 DEF n

(* What is loaded holds the same facts in the same order, with no gaps.    *)
LEMMA LoadedMemory ==
  ASSUME NEW m, Coherent(m)
  PROVE  LET once == Replayed(Snapshot(m)).mem
         IN  /\ Replayed(Snapshot(m)) = [ok |-> TRUE, mem |-> once]
             /\ Coherent(once)
             /\ FactKeys(once) = FactKeys(m)
             /\ LiveKeys(once) = LiveKeys(m)
             /\ \A k \in Keys : Content(once, k) = Content(m, k)
             /\ Known(once) = {Content(m, k) : k \in LiveKeys(m)}
             /\ Full(once)
<1> DEFINE F    == FactKeys(m)
           n    == Len(F)
           all  == Replayed(Snapshot(m))
           once == all.mem
<1>1. all \in Accs /\ HoldsFirst(all, m, n)
  <2>1. n \in Nat
    BY FactKeysLive
  <2>2. PICK r \in [0 .. n -> Accs] :
          all = r[n] /\ HoldsFirst(r[n], m, n)
    BY ReplayOfSnapshot
  <2> QED BY <2>1, <2>2
<1>2. F \in Seq(Keys) /\ Range(F) = LiveKeys(m)
  BY FactKeysLive
<1> HIDE DEF all
<1>3. all = [ok |-> TRUE, mem |-> once]
  <2>1. all \in [ok : BOOLEAN, mem : MemoryType] /\ all.ok = TRUE
    BY <1>1 DEF Accs, HoldsFirst
  <2> QED BY <2>1
<1>4. Coherent(once) /\ Full(once)
  BY <1>1 DEF HoldsFirst
<1>5. FactKeys(once) \in Seq(Keys) /\ Range(FactKeys(once)) = LiveKeys(once)
  BY <1>4, FactKeysLive
<1>6. FactKeys(once) = F
  BY <1>1, <1>2, <1>5, SeqEqual DEF HoldsFirst
<1>7. LiveKeys(once) = LiveKeys(m)
  BY <1>2, <1>5, <1>6
<1>8. \A k \in LiveKeys(m) : \E j \in 1 .. n : F[j] = k
  BY <1>2 DEF Range
<1>9. \A j \in 1 .. n : F[j] \in LiveKeys(m)
  BY <1>2 DEF Range
<1>10. ASSUME NEW k \in Keys
       PROVE  Content(once, k) = Content(m, k)
  <2>1. CASE k \in LiveKeys(m)
    BY <1>1, <1>8, <2>1 DEF HoldsFirst
  <2>2. CASE k \notin LiveKeys(m)
    BY <1>7, <2>2 DEF LiveKeys, Content
  <2> QED BY <2>1, <2>2
<1>11. Known(once) = {Content(m, k) : k \in LiveKeys(m)}
  BY <1>1, <1>8, <1>9 DEF HoldsFirst
<1> QED BY <1>3, <1>4, <1>6, <1>7, <1>10, <1>11 DEF all

(* Loading what was loaded and saved again repeats the same stores.        *)
LEMMA LoadedTwice ==
  ASSUME NEW m, Coherent(m)
  PROVE  LET once == Replayed(Snapshot(m)).mem
         IN  Replayed(Snapshot(once)) = [ok |-> TRUE, mem |-> once]
<1> DEFINE F    == FactKeys(m)
           n    == Len(F)
           once == Replayed(Snapshot(m)).mem
<1>1. /\ Replayed(Snapshot(m)) = [ok |-> TRUE, mem |-> once]
      /\ Coherent(once)
      /\ FactKeys(once) = F
      /\ \A k \in Keys : Content(once, k) = Content(m, k)
  BY LoadedMemory
<1>2. F \in Seq(Keys) /\ n \in Nat /\ \A i \in 1 .. n : F[i] \in Keys
  BY FactKeysLive
<1>3. PICK r \in [0 .. n -> Accs] :
        /\ r[0] = Fresh
        /\ \A i \in 1 .. n :
             r[i] = [ok |-> TRUE, mem |-> Stored(r[i - 1].mem, F[i], Content(m, F[i]))]
        /\ Replayed(Snapshot(m)) = r[n]
  BY ReplayOfSnapshot
<1> HIDE DEF once, F, n
<1>4. PICK q \in [0 .. n -> Accs] :
        /\ q[0] = Fresh
        /\ \A i \in 1 .. n :
             q[i] = [ok |-> TRUE, mem |-> Stored(q[i - 1].mem, F[i], Content(once, F[i]))]
        /\ Replayed(Snapshot(once)) = q[n]
  BY <1>1, ReplayOfSnapshot DEF n
<1>5. \A i \in 1 .. n : Content(once, F[i]) = Content(m, F[i])
  BY <1>1, <1>2
<1> DEFINE Ok == {i \in Nat : i <= n => q[i] = r[i]}
<1>6. 0 \in Ok
  BY <1>3, <1>4
<1>7. ASSUME NEW i \in Nat, i \in Ok PROVE i + 1 \in Ok
  <2> SUFFICES ASSUME i + 1 <= n PROVE q[i + 1] = r[i + 1]
    OBVIOUS
  <2>1. i + 1 \in 1 .. n /\ (i + 1) - 1 = i /\ q[i] = r[i]
    BY <1>2, <1>7
  <2> QED BY <1>3, <1>4, <1>5, <2>1
<1>8. n \in Ok
  <2> HIDE DEF Ok
  <2> QED BY <1>2, <1>6, <1>7, SetInduction
<1>9. q[n] = r[n]
  BY <1>2, <1>8
<1>10. Replayed(Snapshot(once)) = [ok |-> TRUE, mem |-> once]
  BY <1>1, <1>3, <1>4, <1>9
<1> QED BY <1>10 DEF once

-----------------------------------------------------------------------------
(* The inductive invariant.                                                *)
IInv ==
  /\ PersistTypeOK
  /\ Coherent(saved.mem)
  /\ IsSnapshot(disk) => disk.snap = Snapshot(saved.mem)

(* It holds of a new memory that was never saved.                          *)
LEMMA InitIInv == PersistInit => IInv
<1> SUFFICES ASSUME PersistInit PROVE IInv
  OBVIOUS
<1>1. Coherent(NewMemory) /\ NewMemory \in MemoryType
  BY NewMemoryCoherent DEF Coherent
<1>2. ~IsSnapshot(disk)
  BY DEF PersistInit, IsSnapshot
<1>3. 0 \in 0 .. MaxCalls
  BY MaxCallsAssumption
<1> QED BY <1>1, <1>2, <1>3 DEF PersistInit, IInv, PersistTypeOK

(* Every step keeps it: a save writes the snapshot of a coherent memory,   *)
(* a crash in the middle leaves no file that loads, or the old one.        *)
LEMMA NextIInv == IInv /\ [PersistNext]_persistVars => IInv'
<1> SUFFICES ASSUME IInv, [PersistNext]_persistVars PROVE IInv'
  OBVIOUS
<1>0. /\ PersistTypeOK /\ Coherent(live) /\ Coherent(saved.mem)
      /\ calls \in Nat /\ MaxCalls \in Nat
  BY MaxCallsAssumption DEF IInv, PersistTypeOK
<1>1. ASSUME NEW key \in Keys, NEW value \in Values, StoreCall(key, value)
      PROVE  IInv'
  <2>1. Coherent(live')
    BY <1>0, <1>1, StoredCoherent DEF StoreCall
  <2>2. calls' \in 0 .. MaxCalls
    BY <1>0, <1>1 DEF StoreCall
  <2> QED BY <1>1, <2>1, <2>2 DEF StoreCall, IInv, PersistTypeOK, IsSnapshot
<1>2. ASSUME NEW key \in Keys, ForgetCall(key)
      PROVE  IInv'
  <2>1. Coherent(live')
    BY <1>0, <1>2, ForgottenCoherent DEF ForgetCall
  <2>2. calls' \in 0 .. MaxCalls
    BY <1>0, <1>2 DEF ForgetCall
  <2> QED BY <1>2, <2>1, <2>2 DEF ForgetCall, IInv, PersistTypeOK, IsSnapshot
<1>3. ASSUME NEW secret \in SecretsOf(backend), Save(secret)
      PROVE  IInv'
  <2>1. Snapshot(live) \in Snapshots /\ live \in MemoryType
    BY <1>0, SnapshotPairs DEF Coherent
  <2>2. /\ disk' = [snap |-> Snapshot(live), secret |-> secret]
        /\ saved' = [mem |-> live, seed |-> seed]
        /\ UNCHANGED <<running, live, seed, backend, calls>>
    BY <1>3 DEF Save
  <2>3. disk' \in [snap : Snapshots, secret : SecretsOf(backend')]
    BY <1>3, <2>1, <2>2
  <2>4. saved' \in [mem : MemoryType, seed : Seeds]
    BY <1>0, <2>1, <2>2 DEF PersistTypeOK
  <2>5. PersistTypeOK'
    BY <1>0, <2>2, <2>3, <2>4 DEF PersistTypeOK
  <2>6. Coherent(saved.mem)' /\ (disk.snap = Snapshot(saved.mem))'
    BY <1>0, <2>2
  <2> QED BY <2>5, <2>6 DEF IInv
<1>4. ASSUME NEW secret \in SecretsOf(backend), Load(secret)
      PROVE  IInv'
  <2>1. disk.snap = Snapshot(saved.mem)
    BY <1>4 DEF Load, IInv
  <2>2. Coherent(live')
    BY <1>0, <1>4, <2>1, LoadedMemory DEF Load
  <2>3. seed' \in Seeds
    BY <1>4, <2>1, SeedAssumption DEF Load, Snapshot
  <2> QED BY <1>4, <2>2, <2>3 DEF Load, IInv, PersistTypeOK, IsSnapshot
<1>5. ASSUME Crash
      PROVE  IInv'
  BY <1>5 DEF Crash, IInv, PersistTypeOK, IsSnapshot
<1>6. ASSUME CrashInSave
      PROVE  IInv'
  <2>1. disk' = disk \/ disk' = Torn
    BY <1>6 DEF CrashInSave, AfterCrash
  <2>2. IsSnapshot(disk') => disk' = disk
    BY <2>1 DEF IsSnapshot
  <2> QED BY <1>6, <2>2 DEF CrashInSave, IInv, PersistTypeOK, IsSnapshot
<1>7. CASE UNCHANGED persistVars
  BY <1>7 DEF persistVars, IInv, PersistTypeOK, IsSnapshot
<1> QED BY <1>1, <1>2, <1>3, <1>4, <1>5, <1>6, <1>7 DEF PersistNext

(* The invariant holds in every reachable state.                           *)
LEMMA AlwaysIInv == PersistSpec => []IInv
BY InitIInv, NextIInv, PTL DEF PersistSpec

(* Whatever was stored, saved, lost in a crash and loaded, the memory is   *)
(* coherent and a file that is not damaged is a well-formed snapshot.      *)
THEOREM PersistenceTypeCorrect == PersistSpec => []PersistTypeOK
<1>1. IInv => PersistTypeOK
  BY DEF IInv
<1> QED BY <1>1, AlwaysIInv, PTL

(* A load brings back exactly what the last completed save wrote.          *)
THEOREM LoadRestoresAlways == PersistSpec => LoadRestoresSaved
<1> DEFINE Restores == ~running /\ running' => Contents(live') = Contents(saved.mem)
<1>1. IInv /\ [PersistNext]_persistVars => [Restores]_persistVars
  <2> SUFFICES ASSUME IInv, PersistNext, ~running, running'
               PROVE  Contents(live') = Contents(saved.mem)
    OBVIOUS
  <2>1. PICK secret \in SecretsOf(backend) : Load(secret)
    BY DEF PersistNext, StoreCall, ForgetCall, Save, Crash, CrashInSave
  <2>2. disk.snap = Snapshot(saved.mem) /\ live' = Replayed(disk.snap).mem
    BY <2>1 DEF Load, IInv
  <2>3. Coherent(saved.mem)
    BY DEF IInv
  <2>4. Coherent(live') /\ \A k \in Keys : Content(live', k) = Content(saved.mem, k)
    BY <2>2, <2>3, LoadedMemory
  <2>5. \A k \in Keys : Retrieved(live', k) = Retrieved(saved.mem, k)
    BY <2>3, <2>4, RetrievedIsContent
  <2> QED BY <2>5 DEF Contents
<1> QED BY <1>1, AlwaysIInv, PTL DEF PersistSpec, LoadRestoresSaved

(* A complete file always loads, what is loaded is packed, and saving and  *)
(* loading it again changes nothing.                                       *)
THEOREM ReloadAlwaysStable == PersistSpec => []ReloadIsStable
<1>1. IInv => ReloadIsStable
  <2> SUFFICES ASSUME IInv, IsSnapshot(disk)
               PROVE  LET once == Replayed(disk.snap).mem
                      IN  /\ Replayed(disk.snap).ok
                          /\ Packed(once)
                          /\ Replayed(Snapshot(once)) = [ok |-> TRUE, mem |-> once]
    BY DEF ReloadIsStable
  <2> DEFINE m    == saved.mem
             once == Replayed(Snapshot(m)).mem
  <2>1. disk.snap = Snapshot(m) /\ Coherent(m)
    BY DEF IInv
  <2> HIDE DEF m
  <2>2. /\ Replayed(Snapshot(m)) = [ok |-> TRUE, mem |-> once]
        /\ Coherent(once)
        /\ LiveKeys(once) = LiveKeys(m)
        /\ \A k \in Keys : Content(once, k) = Content(m, k)
        /\ Known(once) = {Content(m, k) : k \in LiveKeys(m)}
        /\ Full(once)
    BY <2>1, LoadedMemory
  <2>3. Replayed(Snapshot(once)) = [ok |-> TRUE, mem |-> once]
    BY <2>1, LoadedTwice
  <2> HIDE DEF once
  <2>4. \A k \in LiveKeys(once) : Contents(once)[k] = Content(m, k)
    BY <2>2, RetrievedIsContent DEF Contents, LiveKeys
  <2>5. Packed(once)
    BY <2>2, <2>4 DEF Packed, Full
  <2>6. Replayed(Snapshot(m)).ok
    BY <2>2
  <2> QED BY <2>1, <2>3, <2>5, <2>6 DEF once
<1> QED BY <1>1, AlwaysIInv, PTL

=============================================================================
