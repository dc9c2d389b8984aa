------------------------ MODULE AdaptivePersistence ------------------------
(***************************************************************************)
(* Saving and loading an AdaptiveMemory (src/src/persistence.rs).  The     *)
(* file holds no tensor: the vocab rows come back from a seed, and every M *)
(* is recomputed by storing the saved pairs again, one after the other.    *)
(* The plaintext and sealed backends write the file in place with          *)
(* fs::write, which truncates it first.  redb writes the same snapshot,    *)
(* with a flag that says whether it is encrypted, in one transaction.      *)
(***************************************************************************)
EXTENDS AdaptiveOps, SequencesExt

CONSTANTS
  Seeds,          \* vocab seeds a memory may be created with
  DefaultSeed,    \* ADAPTIVE_SEED_DEFAULT
  NoFile,         \* nothing was ever saved
  Torn,           \* a file cut short by a crash
  Backends,       \* of "plain", "sealed" and "redb"
  Secrets,        \* keys a file may be encrypted with
  NoSecret,       \* no key
  MaxCalls        \* bound of the model: calls to store and forget

ASSUME SeedAssumption == DefaultSeed \in Seeds
ASSUME SecretAssumption == NoSecret \notin Secrets
ASSUME MaxCallsAssumption == MaxCalls \in Nat

VARIABLES
  running,    \* the process is up
  live,        \* its AdaptiveMemory
  seed,       \* the seed its vocab tensor was drawn with
  backend,    \* the save_state and load_state in use
  disk,       \* NoFile, Torn, or the snapshot in the file and its secret
  saved,      \* history: what the last completed save wrote, with its seed
  calls       \* store and forget calls so far

persistVars == <<running, live, seed, backend, disk, saved, calls>>

-----------------------------------------------------------------------------
(* Seeded faults.                                                          *)

(* vocab_keys collected in another order than that of the rows.            *)
SnapshotVocabReversed(m) ==
  [vocabSeed |-> DefaultSeed,
   vocabKeys |-> Reverse(m.vocabKeys),
   shards    |-> [i \in DOMAIN m.shards |->
                    [j \in DOMAIN m.shards[i].keys |->
                       LET key == m.shards[i].keys[j]
                       IN  <<key, m.shards[i].k2v[key]>>]]]

(* The row number of the file is bound as it is, and nothing registered.   *)
ReplayStepByRow(acc, pair, vocabKeys) ==
  [acc EXCEPT !.mem = Placed(WithRoom(@), pair[1], pair[2])]

(* Every value of the file is registered, not only those of live facts.    *)
ReplayStepRegisteringAll(acc, pair, vocabKeys) ==
  [ok  |-> acc.ok,
   mem |-> Stored(FoldLeft(Registered, acc.mem, vocabKeys),
                  pair[1], vocabKeys[pair[2] + 1])]

-----------------------------------------------------------------------------
(* AdaptiveMemory::build_snapshot and _shard_pairs_impl                    *)

(* The loop over the keys of a shard, which skips a key without a row.     *)
ShardPairs(sh) ==
  LET f[j \in 0 .. Len(sh.keys)] ==
        IF j = 0 THEN <<>>
        ELSE IF sh.k2v[sh.keys[j]] # Absent
        THEN Append(f[j - 1], <<sh.keys[j], sh.k2v[sh.keys[j]]>>)
        ELSE f[j - 1]
  IN  f[Len(sh.keys)]

Snapshot(m) ==
  [vocabSeed |-> DefaultSeed,
   vocabKeys |-> m.vocabKeys,
   shards    |-> [i \in DOMAIN m.shards |-> ShardPairs(m.shards[i])]]

(* AdaptiveMemory::from_snapshot: a row outside vocab_keys, or a store     *)
(* that fails, makes the whole load fail.                                  *)
ReplayStep(acc, pair, vocabKeys) ==
  IF /\ acc.ok
     /\ pair[2] + 1 \in DOMAIN vocabKeys
     /\ CanRegister(acc.mem, vocabKeys[pair[2] + 1])
  THEN [ok |-> TRUE, mem |-> Stored(acc.mem, pair[1], vocabKeys[pair[2] + 1])]
  ELSE [ok |-> FALSE, mem |-> acc.mem]

Replayed(snap) ==
  LET pairs == FlattenSeq(snap.shards)
      r[i \in 0 .. Len(pairs)] ==
        IF i = 0 THEN [ok |-> TRUE, mem |-> NewMemory]
        ELSE ReplayStep(r[i - 1], pairs[i], snap.vocabKeys)
  IN  r[Len(pairs)]

-----------------------------------------------------------------------------
(* The keys a call may pass: Option in redb                                *)
SecretsOf(b) ==
  CASE b = "plain"  -> {NoSecret}
    [] b = "sealed" -> Secrets
    [] b = "redb"   -> Secrets \cup {NoSecret}

(* A key is ignored when the flag in the store says it is not encrypted.   *)
Opens(file, secret) ==
  \/ file.secret = secret
  \/ backend = "redb" /\ file.secret = NoSecret

(* fs::write truncates its file; a transaction that does not commit leaves *)
(* the store as it was.                                                    *)
AfterCrash(file) == IF backend = "redb" THEN file ELSE Torn

IsSnapshot(d) == d \notin {NoFile, Torn}

PersistInit ==
  /\ running = TRUE
  /\ live = NewMemory
  /\ seed \in Seeds
  /\ backend \in Backends
  /\ disk = NoFile
  /\ saved = [mem |-> live, seed |-> seed]
  /\ calls = 0

StoreCall(key, value) ==
  /\ running
  /\ calls < MaxCalls
  /\ CanRegister(live, value)
  /\ live' = Stored(live, key, value)
  /\ calls' = calls + 1
  /\ UNCHANGED <<running, seed, backend, disk, saved>>

ForgetCall(key) ==
  /\ running
  /\ calls < MaxCalls
  /\ Holds(live, key)
  /\ live' = Forgotten(live, key)
  /\ calls' = calls + 1
  /\ UNCHANGED <<running, seed, backend, disk, saved>>

(* save_state, save_state_sealed, save_state_redb                          *)
Save(secret) ==
  /\ running
  /\ disk' = [snap |-> Snapshot(live), secret |-> secret]
  /\ saved' = [mem |-> live, seed |-> seed]
  /\ UNCHANGED <<running, live, seed, backend, calls>>

(* The process ends without saving, or between two saves.                  *)
Crash ==
  /\ running
  /\ running' = FALSE
  /\ UNCHANGED <<live, seed, backend, disk, saved, calls>>

(* A crash before the last byte, or the commit                             *)
CrashInSave ==
  /\ running
  /\ disk' = AfterCrash(disk)
  /\ running' = FALSE
  /\ UNCHANGED <<live, seed, backend, saved, calls>>

(* load_state, load_state_sealed, load_state_redb in a new process         *)
Load(secret) ==
  /\ ~running
  /\ IsSnapshot(disk)
  /\ Opens(disk, secret)
  /\ Replayed(disk.snap).ok
  /\ live' = Replayed(disk.snap).mem
  /\ seed' = disk.snap.vocabSeed
  /\ running' = TRUE
  /\ UNCHANGED <<backend, disk, saved, calls>>

PersistNext ==
  \/ \E key \in Keys, value \in Values : StoreCall(key, value)
  \/ \E key \in Keys : ForgetCall(key)
  \/ \E secret \in SecretsOf(backend) : Save(secret) \/ Load(secret)
  \/ Crash
  \/ CrashInSave

PersistSpec == PersistInit /\ [][PersistNext]_persistVars

-----------------------------------------------------------------------------
Snapshots ==
  [vocabSeed : {DefaultSeed},
   vocabKeys : Seq(Values),
   shards    : Seq(Seq(Keys \X Rows))]

(* The file holds what AdaptiveSnapshot declares, or is damaged.  The      *)
(* memory is coherent also when it was rebuilt from a file: the replayed   *)
(* superpositions, maps, counters and vocab agree.                         *)
PersistTypeOK ==
  /\ running \in BOOLEAN
  /\ Coherent(live)
  /\ seed \in Seeds
  /\ backend \in Backends
  /\ IsSnapshot(disk) => disk \in [snap : Snapshots, secret : SecretsOf(backend)]
  /\ saved \in [mem : MemoryType, seed : Seeds]
  /\ calls \in 0 .. MaxCalls

Contents(m) == [key \in Keys |-> Retrieved(m, key)]

(* A restart brings back exactly the facts of the last completed save:     *)
(* nothing forgotten before it, nothing stored after it.                   *)
LoadRestoresSaved ==
  [][ ~running /\ running' => Contents(live') = Contents(saved.mem) ]_persistVars

(* Every shard but the last is full, and only values of live facts keep a  *)
(* row of the vocab.                                                       *)
Packed(m) ==
  /\ \A i \in 1 .. (Len(m.shards) - 1) : Len(m.shards[i].keys) >= ShardCapacity
  /\ Known(m) = {Contents(m)[key] : key \in LiveKeys(m)}

(* A complete file can always be loaded: the replay never runs out of      *)
(* vocab rows and never meets a row number without a value.  It packs the  *)
(* facts once and for all: to save the result and load that again changes  *)
(* nothing, not the partition into shards, not one row number.             *)
ReloadIsStable ==
  IsSnapshot(disk) =>
    LET once == Replayed(disk.snap).mem
    IN  /\ Replayed(disk.snap).ok
        /\ Packed(once)
        /\ Replayed(Snapshot(once)) = [ok |-> TRUE, mem |-> once]

-----------------------------------------------------------------------------
(* "vocab re-registers lazily in the same order, preserving indices"       *)
(* (src/src/persistence.rs:111).                                           *)
IndicesPreserved ==
  [][ ~running /\ running' =>
        \A key \in LiveKeys(live') :
          live'.shards[live'.keyToShard[key]].k2v[key] =
            saved.mem.shards[saved.mem.keyToShard[key]].k2v[key] ]_persistVars

(* "preserves both the shard partitioning and the within-shard store       *)
(* order" (src/src/persistence.rs:66).                                     *)
PartitioningPreserved ==
  [][ ~running /\ running' =>
        \A key \in LiveKeys(live') :
          live'.keyToShard[key] = saved.mem.keyToShard[key] ]_persistVars

(* "Save the seed, recompute on load" (src/src/persistence.rs:7).          *)
SeedRestored ==
  [][ ~running /\ running' => seed' = saved.seed ]_persistVars
=============================================================================
