--------------------------- MODULE PersonalMemory ---------------------------
(***************************************************************************)
(* PersonalMemory (src/src/personal.rs): one user's facts, with a schema   *)
(* of the values seen per predicate, on top of an AdaptiveMemory that the  *)
(* audit trail (src/src/audit.rs) writes into as well.                     *)
(*                                                                         *)
(* A key is the predicate of a fact about the subject "user", as spelled,  *)
(* or the key of an audit record.  The latter lacks the prefix "uid|" that *)
(* personal.rs filters by.  Fact::new folds the case of what it is given;  *)
(* recall and forget build the key from the spelling of the caller.        *)
(***************************************************************************)
EXTENDS AdaptiveOps, SequencesExt

CONSTANTS
  AuditKeys,       \* keys "uid_audit_.._..|audit_kind"
  Fold,            \* to_lowercase, on keys
  FoldValue,       \* to_lowercase, on values
  AuditKind,       \* the value an audit record stores
  UserValues,      \* the values the user's facts are drawn from
  MaxFacts,        \* bound of the model: facts extracted from one message
  MaxShards        \* bound of the model: no shard is opened beyond it

ASSUME FoldAssumption ==
  /\ AuditKeys \subseteq Keys
  /\ AuditKind \in Values /\ UserValues \subseteq Values
  /\ Fold \in [Keys -> Keys] /\ \A k \in Keys : Fold[Fold[k]] = Fold[k]
  /\ \A k \in Keys : Fold[k] \in AuditKeys <=> k \in AuditKeys
  /\ FoldValue \in [Values -> Values]
  /\ \A v \in Values : FoldValue[FoldValue[v]] = FoldValue[v]
ASSUME MaxFactsAssumption == MaxFacts \in Nat

Predicates == Keys \ AuditKeys

VARIABLES
  mem,      \* the AdaptiveMemory, mp
  schema,   \* predicate -> the values seen, in the order first seen
  call      \* the last call: what was asked and what it returned

vars == <<mem, schema, call>>

(* Fact::new                                                               *)
NewFact(p, v) == [predicate |-> Fold[p], obj |-> FoldValue[v]]
Facts == {NewFact(p, v) : p \in Predicates, v \in UserValues}

-----------------------------------------------------------------------------
(* Seeded faults.                                                          *)

(* The schema is updated although the store may fail.                      *)
StoredFactSchemaFirst(pm, fact) ==
  LET seen == [pm.schema EXCEPT ![fact.predicate] = Append(@, fact.obj)]
  IN  IF CanRegister(pm.mem, fact.obj)
      THEN [mem    |-> Stored(pm.mem, fact.predicate, fact.obj),
            schema |-> IF fact.obj \in Range(pm.schema[fact.predicate])
                       THEN pm.schema ELSE seen,
            stored |-> Append(pm.stored, fact),
            ok     |-> pm.ok]
      ELSE [pm EXCEPT !.schema = seen, !.ok = FALSE]

(* A fact that does not fit is skipped instead of ending the message.      *)
StoredFactSkipping(pm, fact) ==
  IF CanRegister(pm.mem, fact.obj)
  THEN [mem    |-> Stored(pm.mem, fact.predicate, fact.obj),
        schema |-> [pm.schema EXCEPT ![fact.predicate] =
                      IF fact.obj \in Range(@) THEN @ ELSE Append(@, fact.obj)],
        stored |-> Append(pm.stored, fact),
        ok     |-> pm.ok]
  ELSE [pm EXCEPT !.ok = FALSE]

(* The vocab is not asked whether it has a row left.                       *)
StoredFactUnchecked(pm, fact) ==
  [pm EXCEPT !.mem = Stored(@, fact.predicate, fact.obj),
             !.stored = Append(@, fact)]

(* Only the first shard is searched.                                       *)
DecodedFirstShard(m) == IF m.shards = <<>> THEN <<>> ELSE m.shards[1].keys

-----------------------------------------------------------------------------
(* store_fact, in a message that may already have failed                   *)
StoredFact(pm, fact) ==
  IF pm.ok /\ CanRegister(pm.mem, fact.obj)
  THEN [mem    |-> Stored(pm.mem, fact.predicate, fact.obj),
        schema |-> [pm.schema EXCEPT ![fact.predicate] =
                      IF fact.obj \in Range(@) THEN @ ELSE Append(@, fact.obj)],
        stored |-> Append(pm.stored, fact),
        ok     |-> TRUE]
  ELSE [pm EXCEPT !.ok = FALSE]

(* The keys decode_shard_amp answers for, shard after shard.               *)
DecodedKeys(m) == FlattenSeq([i \in DOMAIN m.shards |-> m.shards[i].keys])

(* k.starts_with(&prefix)                                                  *)
HasPrefix(k) == k \notin AuditKeys

(* all_facts: the shards are decoded one after the other, without a look   *)
(* at key_to_shard, and what a later one has for a key replaces what an    *)
(* earlier one had.                                                        *)
Listing(m, key) == {i \in DOMAIN m.shards : key \in DOMAIN Decoded(m, m.shards[i])}

AllFacts(m) ==
  [k \in {key \in Range(DecodedKeys(m)) : HasPrefix(key)} |->
     LET last == m.shards[Max(Listing(m, k))]
     IN  m.vocabKeys[Decoded(m, last)[k] + 1]]

(* forget_all: the keys are collected before the first one is forgotten,   *)
(* and a key counts when forget finds it.                                  *)
ErasedKeys(m) ==
  LET keys == DecodedKeys(m)
      f[i \in 0 .. Len(keys)] ==
        IF i = 0 THEN <<>>
        ELSE IF HasPrefix(keys[i]) THEN Append(f[i - 1], keys[i]) ELSE f[i - 1]
  IN  f[Len(keys)]

ForgetCounted(acc, key) ==
  IF Holds(acc.mem, key)
  THEN [mem |-> Forgotten(acc.mem, key), count |-> acc.count + 1]
  ELSE acc

Erased(m) ==
  LET keys == ErasedKeys(m)
      f[i \in 0 .. Len(keys)] ==
        IF i = 0 THEN [mem |-> m, count |-> 0]
        ELSE ForgetCounted(f[i - 1], keys[i])
  IN  f[Len(keys)]

-----------------------------------------------------------------------------
Init ==
  /\ mem = NewMemory
  /\ schema = [p \in Predicates |-> <<>>]
  /\ call = [op |-> "new"]

Here == [mem |-> mem, schema |-> schema, stored |-> <<>>, ok |-> TRUE]

Becomes(pm) ==
  /\ Len(pm.mem.shards) <= MaxShards
  /\ mem' = pm.mem
  /\ schema' = pm.schema

(* The tool and the binding that store one fact spell it as their caller.  *)
StoreFact(p, v) ==
  LET pm == StoredFact(Here, NewFact(p, v))
  IN  /\ Becomes(pm)
      /\ call' = [op |-> "store_fact", name |-> p, value |-> v, ok |-> pm.ok]

(* store_fact on one fact after the other.                                 *)
AllStored(pm, facts) ==
  LET f[i \in 0 .. Len(facts)] ==
        IF i = 0 THEN pm ELSE StoredFact(f[i - 1], facts[i])
  IN  f[Len(facts)]

(* The facts before one that fails stay stored; the caller gets the error  *)
(* and none of the facts.                                                  *)
Ingest(facts) ==
  LET pm == AllStored(Here, facts)
  IN  /\ Becomes(pm)
      /\ call' = [op    |-> "ingest", facts |-> facts, ok |-> pm.ok,
                  reply |-> IF pm.ok THEN pm.stored ELSE <<>>]

Recall(p) ==
  /\ call' = [op |-> "recall", name |-> p, reply |-> Retrieved(mem, p)]
  /\ UNCHANGED <<mem, schema>>

Export ==
  /\ call' = [op |-> "all_facts", reply |-> AllFacts(mem)]
  /\ UNCHANGED <<mem, schema>>

Forget(p) ==
  /\ mem' = IF Holds(mem, p) THEN Forgotten(mem, p) ELSE mem
  /\ call' = [op |-> "forget", name |-> p, reply |-> Holds(mem, p)]
  /\ UNCHANGED schema

(* The schema keeps the values of the facts that are erased.               *)
ForgetAll ==
  /\ mem' = Erased(mem).mem
  /\ call' = [op |-> "forget_all", reply |-> Erased(mem).count]
  /\ UNCHANGED schema

(* AuditTrail::record with the user's own memory.                          *)
RecordAudit(k) ==
  /\ CanRegister(mem, AuditKind)
  /\ Becomes([Here EXCEPT !.mem = Stored(mem, k, AuditKind)])
  /\ call' = [op |-> "record"]

Next ==
  \/ \E p \in Predicates, v \in UserValues : StoreFact(p, v)
  \/ \E n \in 0 .. MaxFacts : \E facts \in [1 .. n -> Facts] : Ingest(facts)
  \/ \E p \in Predicates : Recall(p)
  \/ Export
  \/ \E p \in Predicates : Forget(p)
  \/ ForgetAll
  \/ \E k \in AuditKeys : RecordAudit(k)

Spec == Init /\ [][Next]_vars

-----------------------------------------------------------------------------
(* The fields have their types and the memory is coherent underneath.      *)
TypeOK ==
  /\ Coherent(mem)
  /\ schema \in [Predicates -> Seq(Values)]

(* The schema is the hint an extractor gets: it lists, once each, the      *)
(* value of every fact that is held, and none that was refused.            *)
SchemaCoversFacts ==
  \A p \in Predicates :
    /\ IsInjective(schema[p])
    /\ Range(schema[p]) \subseteq Known(mem)
    /\ Retrieved(mem, p) # NotFound => Retrieved(mem, p) \in Range(schema[p])

(* Export reads the shards, recall goes through key_to_shard.  Whatever    *)
(* was overwritten, forgotten and stored again in another shard, both give *)
(* the same keys and the same values, and no record of the audit trail.    *)
ExportAgreesWithRecall ==
  call.op = "all_facts" =>
    call.reply = [p \in {q \in Predicates : Retrieved(mem, q) # NotFound}
                    |-> Retrieved(mem, p)]

Contents(m) == [k \in Keys |-> Retrieved(m, k)]

(* The facts a call tells, as Fact::new makes them.                        *)
Told(c) == IF c.op = "ingest" THEN c.facts ELSE <<NewFact(c.name, c.value)>>

(* What a message leaves behind: the last of its facts for each key wins;  *)
(* when it fails, that holds of the facts before the first value for which *)
(* there was no vocab row, and the others leave no trace.  The same of     *)
(* store_fact, a message of one fact: however the caller spells predicate  *)
(* and value, the fact is found under the folded predicate, and replaces   *)
(* one that was stored under another spelling.                             *)
IngestStoresPrefix ==
  [][ call'.op \in {"ingest", "store_fact"} =>
        LET told == Told(call')
        IN  \E n \in 0 .. Len(told) :
              /\ n = Len(told) <=> call'.ok
              /\ ~call'.ok => told[n + 1].obj \notin Known(mem')
              /\ \A k \in Keys :
                   LET mine == {i \in 1 .. n : told[i].predicate = k}
                   IN  Contents(mem')[k] =
                         IF mine = {} THEN Contents(mem)[k]
                         ELSE told[CHOOSE i \in mine : \A j \in mine : j <= i].obj
    ]_vars

(* forget_all finds every fact of the user in every shard, counts each     *)
(* once, leaves nothing of it in any M, and leaves the audit records.      *)
ForgetAllErases ==
  [][ call'.op = "forget_all" =>
        /\ Contents(mem') =
             [k \in Keys |-> IF k \in AuditKeys THEN Contents(mem)[k] ELSE NotFound]
        /\ call'.reply = Cardinality({p \in Predicates : Contents(mem)[p] # NotFound})
        /\ \A i \in DOMAIN mem'.shards, p \in Predicates, r \in Rows :
             mem'.shards[i].memory[p][r] = 0 ]_vars

-----------------------------------------------------------------------------
(* "Look up a stored fact by predicate. Returns null if missing."          *)
(* (src/src/mcp_server.rs:149): after a successful store_fact, a recall    *)
(* with the same predicate finds the value.                                *)
RecallFindsStored ==
  call.op = "store_fact" /\ call.ok =>
    Retrieved(mem, call.name) = FoldValue[call.value]

(* "Returns the facts that were stored (after dedup against schema)."      *)
(* (src/src/personal.rs:41): ingest does not report a fact whose value the *)
(* schema had for its predicate.                                           *)
IngestReportsNew ==
  [][ call'.op = "ingest" =>
        \A i \in DOMAIN call'.reply :
          call'.reply[i].obj \notin Range(schema[call'.reply[i].predicate]) ]_vars

(* "GDPR-style total erasure: forget every fact stored for this user."     *)
(* (src/src/personal.rs:107): no value of the user's facts is left in the  *)
(* schema, which export and save write out.                                *)
TotalErasure ==
  call.op = "forget_all" => \A p \in Predicates : schema[p] = <<>>
=============================================================================
