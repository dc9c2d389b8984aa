---------------------------- MODULE AdaptiveOps ----------------------------
(***************************************************************************)
(* The value of an AdaptiveMemory (src/src/adaptive.rs) and of the Vocab   *)
(* inside it (src/src/vocab.rs), and what each method makes of that value. *)
(*                                                                         *)
(* The tensor M of a shard is a sum of bind(role(key), row(idx)) vectors.  *)
(* Roles and rows are pseudo-random, so binds of different pairs are taken *)
(* to be linearly independent: M is the function that counts how often     *)
(* bind(key, idx) is in the sum.  Adding a bind adds one, subtracting it   *)
(* takes one away, and unbinding with a role reads off that key's row of   *)
(* counts.  Cross-talk noise and float32 rounding are left out.            *)
(***************************************************************************)
EXTENDS Integers, Sequences, FiniteSets, Functions

CONSTANTS
  Keys,           \* keys of facts
  Values,         \* value strings
  NotFound,       \* Option::None of retrieve
  VocabCap,       \* rows of the vocab tensor
  ShardCapacity   \* facts per shard before a new shard is opened

ASSUME VocabCapAssumption == VocabCap \in Nat
ASSUME ShardCapacityAssumption == ShardCapacity \in Nat
ASSUME NotFoundAssumption == NotFound \notin Values

Absent == -1                  \* no entry in k2v, or in the vocab index
NoShard == 0                  \* no entry in key_to_shard; shards count from 1
Rows == 0 .. (VocabCap - 1)   \* row numbers of the vocab tensor

ShardType ==
  [keys   : Seq(Keys),                        \* in store order
   k2v    : [Keys -> Rows \cup {Absent}],
   memory : [Keys -> [Rows -> Int]]]          \* M = sum of binds

MemoryType ==
  [vocabKeys  : Seq(Values),                  \* row r holds vocabKeys[r + 1]
   vocabIndex : [Values -> Rows \cup {Absent}],
   shards     : Seq(ShardType),
   keyToShard : [Keys -> Nat],
   totalFacts : Int]

EmptyShard ==
  [keys   |-> <<>>,
   k2v    |-> [k \in Keys |-> Absent],
   memory |-> [k \in Keys |-> [r \in Rows |-> 0]]]

NewMemory ==
  [vocabKeys  |-> <<>>,
   vocabIndex |-> [v \in Values |-> Absent],
   shards     |-> <<>>,
   keyToShard |-> [k \in Keys |-> NoShard],
   totalFacts |-> 0]

-----------------------------------------------------------------------------
(* Seeded faults.  Each is a plausible slip in one of the definitions      *)
(* below; a property is worth its run when one of them breaks it.          *)

CanRegisterOneTooMany(m, value) ==
  m.vocabIndex[value] # Absent \/ Len(m.vocabKeys) <= VocabCap

MinusForgotten(M, key, row) == M

NeedsShardOneTooLate(m) ==
  \/ m.shards = <<>>
  \/ Len(m.shards[Len(m.shards)].keys) > ShardCapacity

(* The bank is updated but the new row is not recorded in k2v.             *)
ShardOverwrittenStaleRow(sh, key, row) ==
  LET old == sh.k2v[key]
  IN  [sh EXCEPT !.memory[key][row] = @ + 1,
                 !.memory[key][old] = IF old = row THEN @ ELSE @ - 1]

(* A forget that does not count, as if the key had been absent.            *)
ForgottenUncounted(m, key) ==
  LET i  == m.keyToShard[key]
      sh == m.shards[i]
  IN  [m EXCEPT !.shards[i] =
                  [keys   |-> SelectSeq(sh.keys, LAMBDA k : k # key),
                   k2v    |-> [sh.k2v EXCEPT ![key] = Absent],
                   memory |-> [sh.memory EXCEPT ![key][sh.k2v[key]] = @ - 1]],
                !.keyToShard[key] = NoShard]

(* An overwrite goes to the last shard, as a new fact does, and the owner  *)
(* keeps what it had.                                                      *)
OverwrittenInLastShard(m, key, row) ==
  LET last == Len(m.shards)
      sh   == m.shards[last]
  IN  [m EXCEPT !.shards[last] = [keys   |-> Append(sh.keys, key),
                                  k2v    |-> [sh.k2v EXCEPT ![key] = row],
                                  memory |-> [sh.memory EXCEPT ![key][row] = @ + 1]],
                !.keyToShard[key] = last]

(* A forget that also gives the last row of the vocab back.                *)
ForgottenWithItsRow(m, key) ==
  LET bare == ForgottenUncounted(m, key)
      row  == m.shards[m.keyToShard[key]].k2v[key]
  IN  IF row + 1 # Len(m.vocabKeys)
      THEN [bare EXCEPT !.totalFacts = @ - 1]
      ELSE [bare EXCEPT !.totalFacts = @ - 1,
                        !.vocabIndex[m.vocabKeys[row + 1]] = Absent,
                        !.vocabKeys = SubSeq(@, 1, row)]

-----------------------------------------------------------------------------
(* Vocab::register                                                         *)

Known(m) == Range(m.vocabKeys)

CanRegister(m, value) ==
  m.vocabIndex[value] # Absent \/ Len(m.vocabKeys) < VocabCap

Registered(m, value) ==
  IF m.vocabIndex[value] # Absent
  THEN m
  ELSE [m EXCEPT !.vocabIndex[value] = Len(m.vocabKeys),
                 !.vocabKeys = Append(@, value)]

-----------------------------------------------------------------------------
(* AdaptiveMemory::store                                                   *)

Plus(M, key, row)  == [M EXCEPT ![key][row] = @ + 1]
Minus(M, key, row) == [M EXCEPT ![key][row] = @ - 1]

(* The last shard has no room, or there is no shard yet.                   *)
NeedsShard(m) ==
  \/ m.shards = <<>>
  \/ Len(m.shards[Len(m.shards)].keys) >= ShardCapacity

WithRoom(m) ==
  IF NeedsShard(m)
  THEN [m EXCEPT !.shards = Append(@, EmptyShard)]
  ELSE m

ShardOverwritten(sh, key, row) ==
  LET old     == sh.k2v[key]
      cleared == IF old # Absent THEN Minus(sh.memory, key, old) ELSE sh.memory
  IN  [keys   |-> sh.keys,
       k2v    |-> [sh.k2v EXCEPT ![key] = row],
       memory |-> Plus(cleared, key, row)]

(* The key stays in the shard that owns it.                                *)
Overwritten(m, key, row) ==
  [m EXCEPT !.shards[m.keyToShard[key]] = ShardOverwritten(@, key, row)]

ShardExtended(sh, key, row) ==
  [keys   |-> Append(sh.keys, key),
   k2v    |-> [sh.k2v EXCEPT ![key] = row],
   memory |-> Plus(sh.memory, key, row)]

Placed(m, key, row) ==
  [m EXCEPT !.shards[Len(m.shards)] = ShardExtended(@, key, row),
            !.keyToShard[key] = Len(m.shards),
            !.totalFacts = @ + 1]

Stored(m, key, value) ==
  LET reg == Registered(m, value)
      row == reg.vocabIndex[value]
  IN  IF m.keyToShard[key] # NoShard
      THEN Overwritten(reg, key, row)
      ELSE Placed(WithRoom(reg), key, row)

-----------------------------------------------------------------------------
(* AdaptiveMemory::forget                                                  *)

(* Vec::retain(|k| k != key), as its loop: f[i] is what is kept of the     *)
(* first i elements.                                                       *)
Retain(s, key) ==
  LET f[i \in 0 .. Len(s)] ==
        IF i = 0 THEN <<>>
        ELSE IF s[i] # key THEN Append(f[i - 1], s[i]) ELSE f[i - 1]
  IN  f[Len(s)]

ShardWithout(sh, key) ==
  [keys   |-> Retain(sh.keys, key),
   k2v    |-> [sh.k2v EXCEPT ![key] = Absent],
   memory |-> Minus(sh.memory, key, sh.k2v[key])]

(* Both early returns of forget: the key is not routed, or its shard has   *)
(* no row for it.                                                          *)
Holds(m, key) ==
  /\ m.keyToShard[key] # NoShard
  /\ m.shards[m.keyToShard[key]].k2v[key] # Absent

Forgotten(m, key) ==
  [m EXCEPT !.shards[m.keyToShard[key]] = ShardWithout(@, key),
            !.keyToShard[key] = NoShard,
            !.totalFacts = @ - 1]

-----------------------------------------------------------------------------
(* decode_shard_amp, Vocab::nearest and AdaptiveMemory::retrieve           *)

(* The registered row with the highest count for the key; the scan keeps   *)
(* the first of equals.  Read from M, never from k2v.                      *)
Nearest(m, sh, key) ==
  CHOOSE r \in 0 .. (Len(m.vocabKeys) - 1) :
    \A q \in 0 .. (Len(m.vocabKeys) - 1) :
      \/ sh.memory[key][r] > sh.memory[key][q]
      \/ sh.memory[key][r] = sh.memory[key][q] /\ r <= q

(* The predictions of one shard, for the keys it lists, from its own M.    *)
(* Subtracting the other facts changes none of them: there is no noise.    *)
Decoded(m, sh) == [k \in Range(sh.keys) |-> Nearest(m, sh, k)]

Retrieved(m, key) ==
  IF m.keyToShard[key] = NoShard
  THEN NotFound
  ELSE LET preds == Decoded(m, m.shards[m.keyToShard[key]])
       IN  IF key \in DOMAIN preds THEN m.vocabKeys[preds[key] + 1] ELSE NotFound
-----------------------------------------------------------------------------
(* What is true of the value between two calls.                            *)

(* key_to_shard, the keys vectors and the k2v maps agree: a key is in at   *)
(* most one shard, once, and retrieve and forget find it where store put   *)
(* it, whatever was overwritten or forgotten in between.                   *)
Routing(m) ==
  \A key \in Keys :
    /\ m.keyToShard[key] \in 0 .. Len(m.shards)
    /\ \A i \in DOMAIN m.shards :
         /\ m.keyToShard[key] = i <=> m.shards[i].k2v[key] # Absent
         /\ m.keyToShard[key] = i <=> key \in Range(m.shards[i].keys)

DistinctKeys(m) ==
  \A i \in DOMAIN m.shards : IsInjective(m.shards[i].keys)

(* Each M is exactly the superposition of the facts its shard holds now.   *)
Superposition(m) ==
  \A i \in DOMAIN m.shards, key \in Keys, r \in Rows :
    m.shards[i].memory[key][r] = IF m.shards[i].k2v[key] = r THEN 1 ELSE 0

(* With capacity 0 a fresh shard still takes one fact.                     *)
LoadBounded(m) ==
  \A i \in DOMAIN m.shards :
    Len(m.shards[i].keys) <= ShardCapacity \/ Len(m.shards[i].keys) <= 1

LiveKeys(m) == {key \in Keys : m.keyToShard[key] # NoShard}

(* The vocab index and the vector of values are inverse to each other, and *)
(* every row a fact refers to is registered.                               *)
VocabIndexed(m) ==
  /\ Len(m.vocabKeys) <= VocabCap
  /\ \A v \in Values, r \in Rows :
       m.vocabIndex[v] = r <=> (r < Len(m.vocabKeys) /\ m.vocabKeys[r + 1] = v)
  /\ \A i \in DOMAIN m.shards, key \in Keys :
       m.shards[i].k2v[key] < Len(m.vocabKeys)

(* total_facts is counted up and down separately from the maps.            *)
Counted(m) ==
  /\ IsFiniteSet(LiveKeys(m))
  /\ m.totalFacts = Cardinality(LiveKeys(m))

Coherent(m) ==
  /\ m \in MemoryType
  /\ Routing(m)
  /\ DistinctKeys(m)
  /\ Superposition(m)
  /\ LoadBounded(m)
  /\ VocabIndexed(m)
  /\ Counted(m)
=============================================================================
