------------------------------- MODULE FfiEngine -------------------------------
(***************************************************************************)
(* MemoryPlant (src/src/ffi.rs), the object the bindings share between     *)
(* threads, and the files it is opened from: a mutex around the            *)
(* MemoryService, another around the DocumentMemory.  A call holds one of  *)
(* them at a time; a save takes the first, lets go of it, and takes the    *)
(* second.                                                                 *)
(*                                                                         *)
(* A change of a store gives its parts a new stamp, and a file is the      *)
(* stamp and the key it was written with.  What the calls do to a store is *)
(* modelled in PersonalMemory, MemoryService and DocumentMemory.           *)
(***************************************************************************)
EXTENDS Naturals, Sequences, FiniteSets

CONSTANTS
  Threads,
  Keys,          \* of 32 bytes
  BadKey,        \* of another length
  NoKey,         \* of a plaintext file
  Free,          \* a mutex nobody holds
  None,          \* no such file; nothing saved
  MaxCalls,      \* bound of the model: calls of all threads
  MaxOpens       \* bound of the model: engines constructed

ASSUME BoundsAssumption ==
  MaxCalls \in Nat /\ MaxOpens \in Nat /\ Free \notin Threads /\ {BadKey, NoKey} \cap Keys = {}

VARIABLES
  up,         \* whether there is an engine
  memory,     \* the stamps of its parts, and whether it has the user
  lock,       \* who holds the mutex of each store
  poisoned,   \* the mutexes a thread panicked under
  pc,         \* per thread: idle, or waiting for or holding a mutex
  call,       \* per thread: its operation, key, and the memory it began with
  todo,       \* per thread: the files its save has yet to write
  disk,       \* per format, the files
  saved,      \* history: per format, the last save that returned Ok, until
              \* another writes there that does not build on it
  disturbed,  \* history: the threads in a save that was written over so
  descends,   \* history: the formats whose last save the memory comes from
  opened,     \* history: the last stamp when the engine was constructed
  stamp, calls, opens

files == <<disk, saved, disturbed>>
vars == <<up, memory, lock, poisoned, pc, call, todo, files, descends, opened, stamp,
          calls, opens>>

Stores == {"facts", "docs"}
Parts == {"bank", "schema", "docs"}
Files == Parts \cup {"service"}
Formats == {"plain", "sealed"}
Saves == {"save", "saveSealed"}
Operations == {"fact", "forgetUser", "ingest", "doc"} \cup Saves
Format(o) == IF o = "save" THEN "plain" ELSE "sealed"
KeysOf(f) == IF f = "plain" THEN {NoKey} ELSE Keys \cup {BadKey}

Memories == [bank : Nat, schema : Nat, docs : Nat, user : BOOLEAN]
Contents == [stamp : Nat, key : Keys \cup {NoKey, None}, user : BOOLEAN]
Calls == [op : Operations, key : Keys \cup {NoKey}, began : Memories]
SavedStates == [key : Keys \cup {NoKey}, memory : Memories]

ASSUME NoneAssumption ==
  /\ BadKey # NoKey
  /\ None \notin Keys \cup {NoKey}
  /\ None \notin Contents
  /\ None \notin Calls
  /\ None \notin SavedStates

Fresh == [bank |-> 0, schema |-> 0, docs |-> 0, user |-> FALSE]
Content(n, k, u) == [stamp |-> n, key |-> k, user |-> u]
Torn == Content(0, None, FALSE)

-----------------------------------------------------------------------------
(* Seeded faults.                                                          *)
(* The snapshot is taken when the call begins, not under the mutex.        *)
SnapshotAtBegin(t) == call[t].began
(* The documents are left to a later save.                                 *)
AfterNothing(o, s) == "idle"
(* A panic keeps the mutex.                                                *)
KeptByPanic(t, s) == t

-----------------------------------------------------------------------------
(* The mutex a call takes first, and what follows its release              *)
First(o) == IF o = "doc" THEN "docs" ELSE "facts"
After(o, s) == IF o \in Saves /\ s = "facts" THEN "wait" ELSE "idle"
ReleasedByPanic(t, s) == Free

(* What a save writes, in its order: the user's files, then the service's  *)
Order(s) ==
  CASE s = "docs"                  -> <<"docs">>
    [] s = "facts" /\ memory.user  -> <<"bank", "schema", "service">>
    [] s = "facts" /\ ~memory.user -> <<"service">>

Snapshot(t) == memory

Written(t, file) ==
  Content(Snapshot(t)[IF file = "service" THEN "bank" ELSE file], call[t].key, memory.user)

-----------------------------------------------------------------------------
(* The constructors.  A file opens under the key it was sealed with; a     *)
(* user whose files are missing is skipped.                                *)
OpensWith(f, k, file) == disk[f][file] # None /\ disk[f][file].key = k

HasState(f) == disk[f]["service"] # None
HasUser(f) ==
  /\ HasState(f)
  /\ disk[f]["service"].user
  /\ disk[f][IF f = "plain" THEN "bank" ELSE "schema"] # None

Loads(f, k) ==
  /\ k # BadKey
  /\ HasState(f) => OpensWith(f, k, "service")
  /\ HasUser(f) => OpensWith(f, k, "schema") /\ OpensWith(f, k, "bank")
  /\ disk[f]["docs"] # None => OpensWith(f, k, "docs")

Loaded(f) ==
  LET facts(part) == IF HasUser(f) THEN disk[f][part].stamp
                     ELSE IF HasState(f) THEN disk[f]["service"].stamp ELSE 0
  IN  [bank |-> facts("bank"), schema |-> facts("schema"), user |-> HasUser(f),
       docs |-> IF disk[f]["docs"] = None THEN 0 ELSE disk[f]["docs"].stamp]

-----------------------------------------------------------------------------
Init ==
  /\ up = FALSE
  /\ memory = Fresh
  /\ lock = [s \in Stores |-> Free]
  /\ poisoned = {}
  /\ pc = [t \in Threads |-> <<"idle", "facts">>]
  /\ call = [t \in Threads |-> None]
  /\ todo = [t \in Threads |-> <<>>]
  /\ disk = [f \in Formats |-> [file \in Files |-> None]]
  /\ saved = [f \in Formats |-> None]
  /\ disturbed = {}
  /\ descends = {}
  /\ opened = 0
  /\ stamp = 0
  /\ calls = 0
  /\ opens = 0

Construct(m, from) ==
  /\ ~up
  /\ opens < MaxOpens
  /\ opens' = opens + 1
  /\ up' = TRUE
  /\ memory' = m
  /\ descends' = from
  /\ opened' = stamp
  /\ poisoned' = {}
  /\ UNCHANGED <<lock, pc, call, todo, files, stamp, calls>>

New == Construct(Fresh, {})

(* load_or_create, load_or_create_sealed                                   *)
Open(f, k) == Loads(f, k) /\ Construct(Loaded(f), {f})

OpenFails(f, k) ==
  /\ ~up
  /\ opens < MaxOpens
  /\ ~Loads(f, k)
  /\ opens' = opens + 1
  /\ UNCHANGED <<up, memory, lock, poisoned, pc, call, todo, files, descends, opened, stamp,
                 calls>>

-----------------------------------------------------------------------------
At(t, where, s) == pc[t] = <<where, s>>
Idle(t) == pc[t][1] = "idle"
Saving(t) == ~Idle(t) /\ call[t].op \in Saves

MayCall(t) == up /\ Idle(t) /\ calls < MaxCalls

Begin(t, o, k) ==
  /\ MayCall(t)
  /\ calls' = calls + 1
  /\ call' = [call EXCEPT ![t] = [op |-> o, key |-> k,
                                  began |-> IF o \in Saves THEN memory ELSE Fresh]]
  /\ pc' = [pc EXCEPT ![t] = <<"wait", First(o)>>]
  /\ disturbed' = disturbed \ {t}
  /\ UNCHANGED <<up, memory, lock, poisoned, todo, disk, saved, descends, opened, stamp, opens>>

(* key32, or chunks and embeddings that differ in number: an error before  *)
(* any mutex is taken                                                      *)
Refuse(t) ==
  /\ MayCall(t)
  /\ calls' = calls + 1
  /\ UNCHANGED <<up, memory, lock, poisoned, pc, call, todo, files, descends, opened, stamp,
                 opens>>

(* lock().unwrap()                                                         *)
Lock(t, s) ==
  /\ At(t, "wait", s)
  /\ lock[s] = Free
  /\ s \notin poisoned
  /\ lock' = [lock EXCEPT ![s] = t]
  /\ pc' = [pc EXCEPT ![t] = <<"hold", s>>]
  /\ todo' = [todo EXCEPT ![t] = IF Saving(t) THEN Order(s) ELSE <<>>]
  /\ UNCHANGED <<up, memory, poisoned, call, files, descends, opened, stamp, calls, opens>>

Return(t) ==
  /\ pc' = [pc EXCEPT ![t] = <<"idle", "facts">>]
  /\ call' = [call EXCEPT ![t] = None]
  /\ todo' = [todo EXCEPT ![t] = <<>>]

(* unwrap panics on a mutex that another panic poisoned.                   *)
LockPoisoned(t, s) ==
  /\ At(t, "wait", s)
  /\ lock[s] = Free
  /\ s \in poisoned
  /\ Return(t)
  /\ UNCHANGED <<up, memory, lock, poisoned, files, descends, opened, stamp, calls, opens>>

(* The guard is dropped at the end of the call.                            *)
Finish(t, s) ==
  /\ At(t, "hold", s)
  /\ lock' = [lock EXCEPT ![s] = Free]
  /\ Return(t)
  /\ UNCHANGED <<up, opened, calls, opens>>

Changed(s, user) ==
  LET n == stamp + 1
  IN  IF s = "docs" THEN [memory EXCEPT !.docs = n]
      ELSE [memory EXCEPT !.bank = n, !.schema = n, !.user = user]

Change(t, s) ==
  /\ Finish(t, s)
  /\ ~Saving(t)
  /\ call[t].op = "forgetUser" => memory.user
  /\ memory' = IF s = "docs" THEN Changed(s, memory.user)
               ELSE Changed(s, call[t].op # "forgetUser")
  /\ stamp' = stamp + 1
  /\ UNCHANGED <<poisoned, files, descends>>

(* A refused call, or a search; svc.user creates the user all the same.    *)
NoChange(t, s) ==
  /\ Finish(t, s)
  /\ ~Saving(t)
  /\ call[t].op = "forgetUser" => ~memory.user
  /\ memory' = [memory EXCEPT !.user = @ \/ call[t].op \in {"fact", "ingest"}]
  /\ UNCHANGED <<poisoned, stamp, files, descends>>

(* Fact::new cuts a source inside a character.                             *)
IngestPanics(t) ==
  /\ At(t, "hold", "facts")
  /\ call[t].op = "ingest"
  /\ memory' = [memory EXCEPT !.user = TRUE]
  /\ poisoned' = poisoned \cup {"facts"}
  /\ lock' = [lock EXCEPT !["facts"] = ReleasedByPanic(t, "facts")]
  /\ Return(t)
  /\ UNCHANGED <<up, files, descends, opened, stamp, calls, opens>>

-----------------------------------------------------------------------------
(* A file is written, or cut short: what that does to the last save, and   *)
(* to the saves that are under way                                         *)
Put(t, file, content) ==
  LET f == Format(call[t].op)
      clash(k) == content = Torn \/ k # content.key
  IN  /\ disk' = [disk EXCEPT ![f][file] = content]
      /\ saved' = [saved EXCEPT ![f] =
           IF @ # None /\ (clash(@.key) \/ f \notin descends) THEN None ELSE @]
      /\ disturbed' = disturbed \cup
           {u \in Threads \ {t} : Saving(u) /\ Format(call[u].op) = f /\ clash(call[u].key)}

WriteFile(t) ==
  /\ todo[t] # <<>>
  /\ Put(t, Head(todo[t]), Written(t, Head(todo[t])))
  /\ todo' = [todo EXCEPT ![t] = Tail(@)]
  /\ UNCHANGED <<up, memory, lock, poisoned, pc, call, descends, opened, stamp, calls, opens>>

(* Everything is written: on to the other mutex, or the call returns Ok.   *)
WrittenOut(t, s) ==
  /\ At(t, "hold", s)
  /\ Saving(t)
  /\ todo[t] = <<>>
  /\ lock' = [lock EXCEPT ![s] = Free]
  /\ LET f == Format(call[t].op)
     IN  IF After(call[t].op, s) = "wait"
         THEN /\ pc' = [pc EXCEPT ![t] = <<"wait", "docs">>]
              /\ UNCHANGED <<call, todo, saved, descends>>
         ELSE /\ Return(t)
              /\ IF t \in disturbed THEN UNCHANGED <<saved, descends>>
                 ELSE /\ saved' = [saved EXCEPT ![f] = [key |-> call[t].key,
                                                        memory |-> call[t].began]]
                      /\ descends' = descends \cup {f}
  /\ UNCHANGED <<up, memory, poisoned, disk, disturbed, opened, stamp, calls, opens>>

(* An error before the next file is opened, or while it is written: the    *)
(* rest, and the documents, are not saved.                                 *)
WriteFails(t, s) ==
  /\ todo[t] # <<>>
  /\ Finish(t, s)
  /\ Put(t, Head(todo[t]), Torn) \/ UNCHANGED files
  /\ UNCHANGED <<memory, poisoned, descends, stamp>>

(* The engine is dropped, or its process killed: the files being written   *)
(* may be cut short.                                                       *)
Stop ==
  /\ up
  /\ up' = FALSE
  /\ memory' = Fresh
  /\ lock' = [s \in Stores |-> Free]
  /\ pc' = [t \in Threads |-> <<"idle", "facts">>]
  /\ call' = [t \in Threads |-> None]
  /\ todo' = [t \in Threads |-> <<>>]
  /\ \E cut \in SUBSET {t \in Threads : todo[t] # <<>>} :
       LET hit(f) == {Head(todo[t]) : t \in {u \in cut : Format(call[u].op) = f}}
       IN  /\ disk' = [f \in Formats |->
                         [file \in Files |-> IF file \in hit(f) THEN Torn ELSE disk[f][file]]]
           /\ saved' = [f \in Formats |-> IF hit(f) # {} THEN None ELSE saved[f]]
  /\ UNCHANGED <<poisoned, disturbed, descends, opened, stamp, calls, opens>>

-----------------------------------------------------------------------------
Step(t) ==
  \/ \E s \in Stores : Lock(t, s) \/ LockPoisoned(t, s)
  \/ \E s \in Stores : Change(t, s) \/ NoChange(t, s)
  \/ IngestPanics(t)
  \/ WriteFile(t)
  \/ \E s \in Stores : WrittenOut(t, s) \/ WriteFails(t, s)

Next ==
  \/ New
  \/ \E f \in Formats : \E k \in KeysOf(f) : Open(f, k) \/ OpenFails(f, k)
  \/ \E t \in Threads, o \in Operations \ {"saveSealed"} : Begin(t, o, NoKey)
  \/ \E t \in Threads, k \in Keys : Begin(t, "saveSealed", k)
  \/ \E t \in Threads : Refuse(t)
  \/ \E t \in Threads : Step(t)
  \/ Stop

(* Every thread in a call is scheduled, and the calls are finitely many:   *)
(* the mutexes need not be fair.                                           *)
Spec == Init /\ [][Next]_vars /\ \A t \in Threads : WF_vars(Step(t))

-----------------------------------------------------------------------------
Stamps == [bank : 0 .. stamp, schema : 0 .. stamp, docs : 0 .. stamp, user : BOOLEAN]

(* A mutex is held by the thread that is in the code it guards.            *)
TypeOK ==
  /\ memory \in Stamps
  /\ poisoned \subseteq Stores
  /\ pc \in [Threads -> {"idle", "wait", "hold"} \X Stores]
  /\ \A t \in Threads : call[t] = None <=> Idle(t)
  /\ \A s \in Stores, t \in Threads : lock[s] = t <=> At(t, "hold", s)

(* What a save that returned Ok wrote can be opened again, with its key    *)
(* only, and has every change that any thread's call had made before the   *)
(* save began.  Calls and saves of other threads do not undo that, nor     *)
(* does a crash between two files of a later save of the same engine, or   *)
(* of one opened from it, with the same key.  A save with another key, or  *)
(* one cut short inside a file, does.                                      *)
SavedStateOpens ==
  /\ TypeOK
  /\ \A f \in Formats : saved[f] # None =>
       /\ \A k \in KeysOf(f) : Loads(f, k) <=> k = saved[f].key
       /\ \A part \in Parts : Loaded(f)[part] >= saved[f].memory[part]

(* Two saves to one path may interleave between the stores: still no file  *)
(* goes back to an older state of the same engine.                         *)
FilesNeverGoBack ==
  [][ \A f \in Formats, file \in Files :
        LET old == disk[f][file]
            new == disk'[f][file]
        IN  old # None /\ new # Torn => old.stamp <= opened \/ new.stamp >= old.stamp ]_vars

(* Every call returns, after a panic of another thread too.                *)
EveryCallReturns ==
  \A t \in Threads : ~Idle(t) ~> Idle(t)

-----------------------------------------------------------------------------
(* "the whole on-disk footprint [...] is sealed; no plaintext touches      *)
(* disk" (src/src/ffi.rs:210-212): after a sealed save, and with no other  *)
(* save running, no file holds the plaintext of an earlier one.            *)
SealedFootprint ==
  /\ saved["sealed"] # None
  /\ \A t \in Threads : Idle(t)
  => \A file \in Files : disk["plain"][file] = None
=============================================================================
