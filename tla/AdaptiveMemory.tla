--------------------------- MODULE AdaptiveMemory ---------------------------
(***************************************************************************)
(* AdaptiveMemory (src/src/adaptive.rs) as a state machine: one action per *)
(* method, each the whole method body.  The methods run to completion one  *)
(* at a time: &mut self, and a Mutex around the service that owns them.    *)
(***************************************************************************)
EXTENDS AdaptiveOps

CONSTANT MaxShards   \* bound of the model: no shard is opened beyond it

VARIABLES
  mem,     \* the AdaptiveMemory value
  reply    \* what the last call returned

vars == <<mem, reply>>

Init ==
  /\ mem = NewMemory
  /\ reply = NotFound

Store(key, value) ==
  /\ CanRegister(mem, value)
  /\ Len(Stored(mem, key, value).shards) <= MaxShards
  /\ mem' = Stored(mem, key, value)
  /\ reply' = "stored"

(* register fails before anything else is touched.                         *)
StoreVocabFull(value) ==
  /\ ~CanRegister(mem, value)
  /\ reply' = "vocab_full"
  /\ UNCHANGED mem

Forget(key) ==
  /\ Holds(mem, key)
  /\ mem' = Forgotten(mem, key)
  /\ reply' = "forgotten"

ForgetUnknown(key) ==
  /\ ~Holds(mem, key)
  /\ reply' = "absent"
  /\ UNCHANGED mem

Retrieve(key) ==
  /\ reply' = Retrieved(mem, key)
  /\ UNCHANGED mem

Next ==
  \/ \E key \in Keys, value \in Values : Store(key, value)
  \/ \E value \in Values : StoreVocabFull(value)
  \/ \E key \in Keys : Forget(key)
  \/ \E key \in Keys : ForgetUnknown(key)
  \/ \E key \in Keys : Retrieve(key)

Spec == Init /\ [][Next]_vars

-----------------------------------------------------------------------------
(* Every field has the shape the struct declares; rows stay inside the     *)
(* vocab tensor.                                                           *)
TypeOK ==
  /\ mem \in MemoryType
  /\ reply \in Values \cup {NotFound, "stored", "vocab_full", "forgotten", "absent"}

(* The books that are kept apart agree, whatever was overwritten or        *)
(* forgotten in between.  A key is in at most one shard, once, and         *)
(* key_to_shard and k2v lead to it; total_facts, counted up and down on    *)
(* its own, is the number of keys that hold a fact and never runs below    *)
(* zero; the vocab's index and rows agree, so that row() and key_at()      *)
(* answer for every fact.                                                  *)
BooksAgree ==
  Routing(mem) /\ DistinctKeys(mem) /\ Counted(mem) /\ VocabIndexed(mem)

(* Algebraic forget and overwrite: nothing of an overwritten or forgotten  *)
(* fact is left in the sum M of a shard, and nothing of a live one is      *)
(* missing.                                                                *)
NoResidual == Superposition(mem)

(* No shard is filled beyond the capacity that bounds its cross-talk       *)
(* noise, also after forgets have opened gaps.                             *)
ShardLoadBounded == LoadBounded(mem)

(* Other facts depend on a row for as long as they live: a registered row  *)
(* keeps its value for ever, and no call moves a live key to another       *)
(* shard.                                                                  *)
StableRowsAndPlaces ==
  [][ /\ \A r \in DOMAIN mem.vocabKeys :
           r \in DOMAIN mem'.vocabKeys /\ mem'.vocabKeys[r] = mem.vocabKeys[r]
      /\ \A key \in LiveKeys(mem) \cap LiveKeys(mem') :
           mem'.keyToShard[key] = mem.keyToShard[key] ]_vars

-----------------------------------------------------------------------------
(* What retrieve decodes out of the superpositions behaves like a          *)
(* dictionary: reads see the last write, an overwrite replaces exactly one *)
(* fact, a forget removes exactly one, and only registering a new value    *)
(* beyond VocabCap is refused.                                             *)
Bank == INSTANCE FactBank WITH
  facts <- [key \in Keys |-> Retrieved(mem, key)],
  known <- Known(mem)

ImplementsFactBank == Bank!Spec

-----------------------------------------------------------------------------
(* The comment in forget (src/src/adaptive.rs:329): a store after a forget *)
(* reuses the freed slot, so a new key opens a shard only when every shard *)
(* is full.                                                                *)
FreedSlotReused ==
  [][ Len(mem'.shards) > Len(mem.shards) =>
        \A i \in DOMAIN mem.shards :
          Len(mem.shards[i].keys) >= ShardCapacity ]_vars
=============================================================================
