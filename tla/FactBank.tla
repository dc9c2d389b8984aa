------------------------------ MODULE FactBank ------------------------------
(***************************************************************************)
(* What an AdaptiveMemory promises to its callers: a dictionary from keys  *)
(* to values ("same semantics as a HashMap insert", src/src/adaptive.rs),  *)
(* together with the set of values it has ever been asked to hold, which   *)
(* is limited to VocabCap and never shrinks.  Nothing here mentions        *)
(* shards, rows or superpositions: AdaptiveMemory implements this module.  *)
(***************************************************************************)
EXTENDS Naturals, FiniteSets

CONSTANTS
  Keys,       \* fact keys
  Values,     \* value strings
  NotFound,   \* what a lookup of a key that holds nothing returns
  VocabCap    \* how many distinct values may ever be registered

VARIABLES
  facts,      \* the value each key holds, NotFound when it holds none
  known,      \* the values registered so far
  reply       \* what the last call returned

vars == <<facts, known, reply>>

Replies == Values \cup {NotFound, "stored", "vocab_full", "forgotten", "absent"}

TypeOK ==
  /\ facts \in [Keys -> Values \cup {NotFound}]
  /\ known \in SUBSET Values
  /\ reply \in Replies

Init ==
  /\ facts = [k \in Keys |-> NotFound]
  /\ known = {}
  /\ reply = NotFound

Put(k, v) ==
  /\ v \in known \/ Cardinality(known) < VocabCap
  /\ facts' = [facts EXCEPT ![k] = v]
  /\ known' = known \cup {v}
  /\ reply' = "stored"

(* A value that does not fit changes nothing, not even the old fact.       *)
PutRejected(v) ==
  /\ v \notin known
  /\ Cardinality(known) >= VocabCap
  /\ reply' = "vocab_full"
  /\ UNCHANGED <<facts, known>>

Erase(k) ==
  /\ facts' = [facts EXCEPT ![k] = NotFound]
  /\ reply' = IF facts[k] = NotFound THEN "absent" ELSE "forgotten"
  /\ UNCHANGED known

Lookup(k) ==
  /\ reply' = facts[k]
  /\ UNCHANGED <<facts, known>>

Next ==
  \/ \E k \in Keys, v \in Values : Put(k, v)
  \/ \E v \in Values : PutRejected(v)
  \/ \E k \in Keys : Erase(k)
  \/ \E k \in Keys : Lookup(k)

Spec == Init /\ [][Next]_vars
=============================================================================
