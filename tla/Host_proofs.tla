----------------------------- MODULE Host_proofs -----------------------------
(***************************************************************************)
(* The two ways in: FfiEngine, for any number of threads, keys, calls and  *)
(* engines (the mutexes exclude, what a save wrote opens again, and no     *)
(* file goes back), and McpServer (what the client gets, in which order,   *)
(* and what a session leaves to the next one).                             *)
(***************************************************************************)
EXTENDS FfiEngine, McpServer, SeqLemmas

-----------------------------------------------------------------------------
(* FfiEngine                                                               *)

(* Variables keep their types.                                             *)
Typed ==
  /\ up \in BOOLEAN
  /\ stamp \in Nat
  /\ opened \in Nat
  /\ memory \in Memories
  /\ \A p \in Parts : memory[p] <= stamp
  /\ poisoned \subseteq Stores
  /\ pc \in [Threads -> {"idle", "wait", "hold"} \X Stores]
  /\ lock \in [Stores -> Threads \cup {Free}]
  /\ call \in [Threads -> Calls \cup {None}]
  /\ todo \in [Threads -> Seq(Files)]
  /\ disk \in [Formats -> [Files -> Contents \cup {None}]]
  /\ saved \in [Formats -> SavedStates \cup {None}]
  /\ disturbed \subseteq Threads
  /\ descends \subseteq Formats

(* A mutex is held by the thread that is in the code it guards, a call is  *)
(* at a mutex its operation takes, and nobody is when the engine is gone.  *)
AtItsMutex(t) ==
  /\ call[t] = None <=> Idle(t)
  /\ Idle(t) => todo[t] = <<>>
  /\ ~Idle(t) =>
       /\ up
       /\ pc[t][2] = "facts" => call[t].op # "doc"
       /\ pc[t][2] = "docs" => call[t].op \in {"doc"} \cup Saves
       /\ call[t].op = "save" => call[t].key = NoKey
       /\ call[t].op = "saveSealed" => call[t].key \in Keys
  /\ (~Saving(t) \/ pc[t][1] # "hold") => todo[t] = <<>>

Exclusive == \A s \in Stores, t \in Threads : lock[s] = t <=> At(t, "hold", s)

(* A memory without the user has one state of its facts.                   *)
Uniform == ~memory.user => memory.bank = memory.schema

PartOf(file) == IF file = "service" THEN "bank" ELSE file

(* What a thread in a save has written under the mutex it holds            *)
IsWritten(t, file) ==
  LET c == disk[Format(call[t].op)][file]
  IN  /\ c # None
      /\ c.key = call[t].key
      /\ c.stamp = memory[PartOf(file)]
      /\ file = "service" => c.user = memory.user

FactsLeft(t) ==
  IF memory.user
  THEN \/ todo[t] = <<"bank", "schema", "service">>
       \/ todo[t] = <<"schema", "service">> /\ IsWritten(t, "bank")
       \/ todo[t] = <<"service">> /\ IsWritten(t, "bank") /\ IsWritten(t, "schema")
       \/ /\ todo[t] = <<>>
          /\ \A file \in {"bank", "schema", "service"} : IsWritten(t, file)
  ELSE \/ todo[t] = <<"service">>
       \/ todo[t] = <<>> /\ IsWritten(t, "service")

DocsLeft(t) ==
  \/ todo[t] = <<"docs">>
  \/ todo[t] = <<>> /\ IsWritten(t, "docs")

(* The files of the facts, and the one of the documents, open under k and  *)
(* have what m had.                                                        *)
FactsOpen(f, k, m) ==
  /\ OpensWith(f, k, "service")
  /\ IF disk[f]["service"].user
     THEN \A part \in {"bank", "schema"} :
            OpensWith(f, k, part) /\ disk[f][part].stamp >= m[part]
     ELSE \A part \in {"bank", "schema"} : disk[f]["service"].stamp >= m[part]

DocsOpen(f, k, m) == OpensWith(f, k, "docs") /\ disk[f]["docs"].stamp >= m.docs

(* A save that is under way: its snapshot is not newer than the memory,    *)
(* and what it wrote stands unless it was disturbed.                       *)
SaveOnItsWay(t) ==
  Saving(t) =>
    /\ \A p \in Parts : call[t].began[p] <= memory[p]
    /\ At(t, "hold", "facts") => FactsLeft(t)
    /\ At(t, "hold", "docs") => DocsLeft(t)
    /\ pc[t][2] = "docs" /\ t \notin disturbed =>
         FactsOpen(Format(call[t].op), call[t].key, call[t].began)

(* What the last save wrote is there, and the memory that comes from it    *)
(* has it, too.                                                            *)
SavedStands(f) ==
  saved[f] # None =>
    /\ saved[f].key \in KeysOf(f) \ {BadKey}
    /\ FactsOpen(f, saved[f].key, saved[f].memory)
    /\ DocsOpen(f, saved[f].key, saved[f].memory)
    /\ up /\ f \in descends => \A p \in Parts : saved[f].memory[p] <= memory[p]

(* A file is not newer than the memory it was written from.                *)
FileBehind(f, file) ==
  disk[f][file] # None =>
    /\ disk[f][file].stamp <= stamp
    /\ up => \/ disk[f][file].stamp <= opened
             \/ disk[f][file].stamp <= memory[PartOf(file)]

IInv ==
  /\ Typed
  /\ Exclusive
  /\ Uniform
  /\ \A t \in Threads : AtItsMutex(t) /\ SaveOnItsWay(t)
  /\ \A f \in Formats : SavedStands(f)
  /\ \A f \in Formats, file \in Files : FileBehind(f, file)

-----------------------------------------------------------------------------
(* A thread that a step leaves alone stays as it was.                      *)
LEMMA Bystander ==
  ASSUME NEW u \in Threads, up' = up,
         pc'[u] = pc[u], call'[u] = call[u], todo'[u] = todo[u],
         AtItsMutex(u)
  PROVE  AtItsMutex(u)'
BY DEF AtItsMutex, Idle, Saving

(* So does its save, if the step touches neither memory nor disk.          *)
LEMMA SaveUntouched ==
  ASSUME NEW u \in Threads,
         pc'[u] = pc[u], call'[u] = call[u], todo'[u] = todo[u],
         memory' = memory, disk' = disk, u \in disturbed => u \in disturbed',
         SaveOnItsWay(u)
  PROVE  SaveOnItsWay(u)'
BY DEF SaveOnItsWay, Idle, Saving, At, FactsLeft, DocsLeft, IsWritten, FactsOpen, OpensWith

(* A thread that is idle has nothing to keep.                              *)
LEMMA Returned ==
  ASSUME NEW t \in Threads, Typed, Return(t)
  PROVE  /\ pc' \in [Threads -> {"idle", "wait", "hold"} \X Stores]
         /\ call' \in [Threads -> Calls \cup {None}]
         /\ todo' \in [Threads -> Seq(Files)]
         /\ AtItsMutex(t)' /\ SaveOnItsWay(t)'
         /\ pc'[t] = <<"idle", "facts">>
         /\ \A u \in Threads \ {t} :
              pc'[u] = pc[u] /\ call'[u] = call[u] /\ todo'[u] = todo[u]
<1>1. /\ pc' = [pc EXCEPT ![t] = <<"idle", "facts">>]
      /\ call' = [call EXCEPT ![t] = None]
      /\ todo' = [todo EXCEPT ![t] = <<>>]
  BY DEF Return
<1>2. /\ pc \in [Threads -> {"idle", "wait", "hold"} \X Stores]
      /\ call \in [Threads -> Calls \cup {None}]
      /\ todo \in [Threads -> Seq(Files)]
  BY DEF Typed
<1>3. <<"idle", "facts">> \in {"idle", "wait", "hold"} \X Stores  BY DEF Stores
<1>4. <<>> \in Seq(Files)  OBVIOUS
<1>5. /\ pc'[t] = <<"idle", "facts">>
      /\ call'[t] = None
      /\ todo'[t] = <<>>
      /\ \A u \in Threads \ {t} :
           pc'[u] = pc[u] /\ call'[u] = call[u] /\ todo'[u] = todo[u]
  BY <1>1, <1>2
<1>6. AtItsMutex(t)' /\ SaveOnItsWay(t)'
  BY <1>5 DEF AtItsMutex, SaveOnItsWay, Idle, Saving
<1> QED BY <1>1, <1>2, <1>3, <1>4, <1>5, <1>6

(* The first state satisfies the invariant.                                *)
LEMMA InitIInv == Init => IInv
<1> SUFFICES ASSUME Init PROVE IInv  OBVIOUS
<1> USE DEF Init
<1>1. Typed
  <2>1. memory \in Memories /\ \A p \in Parts : memory[p] <= stamp
    BY DEF Fresh, Memories, Parts
  <2>2. pc \in [Threads -> {"idle", "wait", "hold"} \X Stores]
    BY DEF Stores
  <2>3. disk \in [Formats -> [Files -> Contents \cup {None}]]
    BY Zenon
  <2>4. todo \in [Threads -> Seq(Files)]
    BY DEF Files
  <2> QED BY <2>1, <2>2, <2>3, <2>4 DEF Typed
<1>2. Exclusive  BY BoundsAssumption DEF Exclusive, At
<1>3. Uniform  BY DEF Uniform, Fresh
<1>4. \A t \in Threads : AtItsMutex(t) /\ SaveOnItsWay(t)
  BY DEF AtItsMutex, SaveOnItsWay, Idle, Saving
<1>5. \A f \in Formats : SavedStands(f)  BY DEF SavedStands
<1>6. \A f \in Formats, file \in Files : FileBehind(f, file)  BY DEF FileBehind
<1> QED BY <1>1, <1>2, <1>3, <1>4, <1>5, <1>6 DEF IInv

-----------------------------------------------------------------------------
(* What a save that stands wrote can be opened, with its key only, and has *)
(* what was to be saved.                                                   *)
LEMMA StandsOpens ==
  ASSUME IInv, NEW f \in Formats, saved[f] # None
  PROVE  /\ \A k \in KeysOf(f) : Loads(f, k) <=> k = saved[f].key
         /\ \A part \in Parts : Loaded(f)[part] >= saved[f].memory[part]
<1>1. /\ saved[f].key \in KeysOf(f) \ {BadKey}
      /\ FactsOpen(f, saved[f].key, saved[f].memory)
      /\ DocsOpen(f, saved[f].key, saved[f].memory)
  BY DEF IInv, SavedStands
<1>2. HasState(f) /\ (HasUser(f) <=> disk[f]["service"].user)
  BY <1>1 DEF HasState, HasUser, FactsOpen, OpensWith
<1>3. \A k \in KeysOf(f) : Loads(f, k) <=> k = saved[f].key
  BY <1>1, <1>2 DEF Loads, FactsOpen, DocsOpen, OpensWith
<1>4. \A part \in Parts : Loaded(f)[part] >= saved[f].memory[part]
  BY <1>1, <1>2 DEF Loaded, Parts, FactsOpen, DocsOpen, OpensWith
<1> QED BY <1>3, <1>4

(* What a constructor loads are stamps that were given out.                *)
LEMMA LoadedFits ==
  ASSUME IInv, NEW f \in Formats, NEW k, Loads(f, k)
  PROVE  /\ Loaded(f) \in Memories
         /\ \A p \in Parts : Loaded(f)[p] <= stamp
         /\ ~Loaded(f).user => Loaded(f).bank = Loaded(f).schema
<1>1. ASSUME NEW file \in Files, disk[f][file] # None
      PROVE  disk[f][file].stamp \in Nat /\ disk[f][file].stamp <= stamp
  BY <1>1 DEF IInv, Typed, FileBehind, Contents
<1>2. stamp \in Nat  BY DEF IInv, Typed
<1> DEFINE factsAt(part) == IF HasUser(f) THEN disk[f][part].stamp
                          ELSE IF HasState(f) THEN disk[f]["service"].stamp ELSE 0
           d == IF disk[f]["docs"] = None THEN 0 ELSE disk[f]["docs"].stamp
<1>3. \A part \in {"bank", "schema"} : factsAt(part) \in Nat /\ factsAt(part) <= stamp
  BY <1>1, <1>2 DEF Loads, OpensWith, HasState, Files, Parts
<1>4. d \in Nat /\ d <= stamp
  BY <1>1, <1>2 DEF Files, Parts
<1>5. ~HasUser(f) => factsAt("bank") = factsAt("schema")
  OBVIOUS
<1>6. HasUser(f) \in BOOLEAN
  BY DEF HasUser, HasState
<1>7. Loaded(f) = [bank |-> factsAt("bank"), schema |-> factsAt("schema"),
                   user |-> HasUser(f), docs |-> d]
  BY DEF Loaded
<1> HIDE DEF factsAt, d
<1> QED BY <1>3, <1>4, <1>5, <1>6, <1>7 DEF Memories, Parts

-----------------------------------------------------------------------------
(* A constructor that starts from loaded stamps, or from none, keeps the   *)
(* invariant if the formats it comes from have no more in their last save. *)
LEMMA ConstructKeeps ==
  ASSUME IInv, NEW m \in Memories, NEW from \in SUBSET Formats, Construct(m, from),
         \A p \in Parts : m[p] <= stamp,
         ~m.user => m.bank = m.schema,
         \A f \in from : saved[f] # None =>
           \A p \in Parts : saved[f].memory[p] <= m[p]
  PROVE  IInv'
<1>1. /\ up' = TRUE /\ ~up /\ memory' = m /\ descends' = from /\ opened' = stamp
      /\ poisoned' = {} /\ stamp' = stamp
      /\ lock' = lock /\ pc' = pc /\ call' = call /\ todo' = todo
      /\ disk' = disk /\ saved' = saved /\ disturbed' = disturbed
  BY DEF Construct, files
<1>2. \A t \in Threads : Idle(t)
  BY <1>1 DEF IInv, AtItsMutex
<1>3. Typed'
  BY <1>1 DEF IInv, Typed
<1>4. Exclusive'
  BY <1>1 DEF IInv, Exclusive, At
<1>5. Uniform'
  BY <1>1 DEF Uniform
<1>6. ASSUME NEW t \in Threads PROVE AtItsMutex(t)' /\ SaveOnItsWay(t)'
  BY <1>1, <1>2 DEF IInv, AtItsMutex, SaveOnItsWay, Saving, Idle
<1>7. ASSUME NEW f \in Formats PROVE SavedStands(f)'
  BY <1>1 DEF IInv, SavedStands, FactsOpen, DocsOpen, OpensWith
<1>8. ASSUME NEW f \in Formats, NEW file \in Files PROVE FileBehind(f, file)'
  BY <1>1 DEF IInv, FileBehind
<1> QED BY <1>3, <1>4, <1>5, <1>6, <1>7, <1>8 DEF IInv

(* A new engine starts from nothing.                                       *)
LEMMA NewKeeps ==
  ASSUME IInv, New
  PROVE  IInv'
<1>1. Fresh \in Memories /\ (\A p \in Parts : Fresh[p] <= stamp) /\ Fresh.bank = Fresh.schema
  BY DEF IInv, Typed, Fresh, Memories, Parts
<1>2. Construct(Fresh, {})
  BY DEF New
<1> HIDE DEF Fresh
<1> QED BY <1>1, <1>2, ConstructKeeps

(* What is opened has what the last save was to save.                      *)
LEMMA OpenKeeps ==
  ASSUME IInv, NEW f \in Formats, NEW k, Open(f, k)
  PROVE  IInv'
<1>1. Loads(f, k) /\ Construct(Loaded(f), {f})
  BY DEF Open
<1>2. /\ Loaded(f) \in Memories
      /\ \A p \in Parts : Loaded(f)[p] <= stamp
      /\ ~Loaded(f).user => Loaded(f).bank = Loaded(f).schema
  BY <1>1, LoadedFits
<1>3. saved[f] # None => \A p \in Parts : saved[f].memory[p] <= Loaded(f)[p]
  <2> SUFFICES ASSUME saved[f] # None, NEW p \in Parts
               PROVE  saved[f].memory[p] <= Loaded(f)[p]
    OBVIOUS
  <2>1. Loaded(f)[p] >= saved[f].memory[p]
    BY StandsOpens
  <2>2. Loaded(f)[p] \in Nat
    BY <1>2 DEF Memories, Parts
  <2>3. saved[f].memory[p] \in Nat
    BY DEF IInv, Typed, SavedStates, Memories, Parts
  <2> QED BY <2>1, <2>2, <2>3
<1> HIDE DEF Loaded
<1> QED BY <1>1, <1>2, <1>3, ConstructKeeps

-----------------------------------------------------------------------------
(* A step that changes neither memory nor files, of one thread at most,    *)
(* has to answer for that thread alone.                                    *)
LEMMA QuietStep ==
  ASSUME IInv, NEW t \in Threads,
         up' = up, memory' = memory, stamp' = stamp, opened' = opened,
         poisoned' = poisoned, disk' = disk, saved' = saved, descends' = descends,
         disturbed' \in {disturbed, disturbed \ {t}},
         pc' \in [Threads -> {"idle", "wait", "hold"} \X Stores],
         call' \in [Threads -> Calls \cup {None}],
         todo' \in [Threads -> Seq(Files)],
         lock' \in [Stores -> Threads \cup {Free}],
         \A u \in Threads \ {t} :
           pc'[u] = pc[u] /\ call'[u] = call[u] /\ todo'[u] = todo[u],
         AtItsMutex(t)', SaveOnItsWay(t)', Exclusive'
  PROVE  IInv'
<1>1. Typed'
  BY DEF IInv, Typed
<1>2. Uniform'
  BY DEF IInv, Uniform
<1>3. ASSUME NEW u \in Threads PROVE AtItsMutex(u)' /\ SaveOnItsWay(u)'
  <2>1. CASE u = t
    BY <2>1
  <2>2. CASE u # t
    BY <2>2, Bystander, SaveUntouched DEF IInv
  <2> QED BY <2>1, <2>2
<1>4. ASSUME NEW f \in Formats PROVE SavedStands(f)'
  BY DEF IInv, SavedStands, FactsOpen, DocsOpen, OpensWith
<1>5. ASSUME NEW f \in Formats, NEW file \in Files PROVE FileBehind(f, file)'
  BY DEF IInv, FileBehind
<1> QED BY <1>1, <1>2, <1>3, <1>4, <1>5 DEF IInv

(* A call starts, and waits for the mutex of its first store.              *)
LEMMA BeginKeeps ==
  ASSUME IInv, NEW t \in Threads, NEW o \in Operations, NEW k \in Keys \cup {NoKey},
         o = "save" => k = NoKey, o = "saveSealed" => k \in Keys, Begin(t, o, k)
  PROVE  IInv'
<1> DEFINE c == [op |-> o, key |-> k, began |-> IF o \in Saves THEN memory ELSE Fresh]
           w == <<"wait", First(o)>>
<1>0. Typed
  BY DEF IInv
<1>1. /\ up /\ Idle(t)
      /\ call' = [call EXCEPT ![t] = c]
      /\ pc' = [pc EXCEPT ![t] = w]
      /\ disturbed' = disturbed \ {t}
      /\ up' = up /\ memory' = memory /\ lock' = lock /\ poisoned' = poisoned
      /\ todo' = todo /\ disk' = disk /\ saved' = saved /\ descends' = descends
      /\ opened' = opened /\ stamp' = stamp
  BY DEF Begin, MayCall
<1>2. c \in Calls
  BY <1>0 DEF Typed, Calls, Fresh, Memories
<1>3. c # None
  BY <1>2, NoneAssumption
<1>4. w \in {"idle", "wait", "hold"} \X Stores /\ w[1] = "wait" /\ w[2] = First(o)
  BY DEF First, Stores
<1>5. c.op = o /\ c.key = k /\ (o \in Saves => c.began = memory)
  OBVIOUS
<1> HIDE DEF c, w
<1>6. /\ pc' \in [Threads -> {"idle", "wait", "hold"} \X Stores]
      /\ call' \in [Threads -> Calls \cup {None}]
      /\ call'[t] = c /\ pc'[t] = w
      /\ \A u \in Threads \ {t} :
           pc'[u] = pc[u] /\ call'[u] = call[u] /\ todo'[u] = todo[u]
  BY <1>0, <1>1, <1>2, <1>4 DEF Typed
<1>7. todo[t] = <<>>
  BY <1>1 DEF IInv, AtItsMutex
<1>8. AtItsMutex(t)'
  BY <1>1, <1>3, <1>4, <1>5, <1>6, <1>7 DEF AtItsMutex, Idle, First, Saves, Saving
<1>9. SaveOnItsWay(t)'
  <2>1. \A p \in Parts : memory[p] <= memory[p]
    BY <1>0 DEF Typed, Memories, Parts
  <2> QED BY <1>1, <1>4, <1>5, <1>6, <2>1
          DEF SaveOnItsWay, Saving, Idle, At, First, Saves, Parts
<1>10. Exclusive'
  <2>1. ASSUME NEW s \in Stores PROVE ~At(t, "hold", s) /\ ~At(t, "hold", s)'
    BY <1>1, <1>4, <1>6 DEF At, Idle
  <2> QED BY <1>1, <1>6, <2>1 DEF IInv, Exclusive, At
<1> QED BY <1>0, <1>1, <1>6, <1>8, <1>9, <1>10, QuietStep DEF Typed

(* A call gets its mutex; a save then has the files of that store ahead of *)
(* it.                                                                     *)
LEMMA LockKeeps ==
  ASSUME IInv, NEW t \in Threads, NEW s \in Stores, Lock(t, s)
  PROVE  IInv'
<1>0. Typed
  BY DEF IInv
<1> DEFINE h == <<"hold", s>>
           z == IF Saving(t) THEN Order(s) ELSE <<>>
<1>1. /\ At(t, "wait", s) /\ lock[s] = Free
      /\ lock' = [lock EXCEPT ![s] = t]
      /\ pc' = [pc EXCEPT ![t] = h]
      /\ todo' = [todo EXCEPT ![t] = z]
      /\ up' = up /\ memory' = memory /\ poisoned' = poisoned /\ call' = call
      /\ disk' = disk /\ saved' = saved /\ disturbed' = disturbed /\ descends' = descends
      /\ opened' = opened /\ stamp' = stamp
  BY DEF Lock, files
<1>2. memory.user \in BOOLEAN
  BY <1>0 DEF Typed, Memories
<1>3. Order("docs") = <<"docs">>
  BY DEF Order
<1>4. Order("facts") = IF memory.user THEN <<"bank", "schema", "service">> ELSE <<"service">>
  BY <1>2 DEF Order
<1>5. Order(s) \in Seq(Files)
  <2>1. <<"docs">> \in Seq(Files) /\ <<"service">> \in Seq(Files)
    BY DEF Files, Parts
  <2>2. <<"bank", "schema", "service">> \in Seq(Files)
    BY DEF Files, Parts
  <2> QED BY <1>3, <1>4, <2>1, <2>2 DEF Stores
<1>6. h \in {"idle", "wait", "hold"} \X Stores /\ h[1] = "hold" /\ h[2] = s
  BY DEF Stores
<1>7. pc[t][1] = "wait" /\ pc[t][2] = s
  BY <1>1 DEF At
<1> HIDE DEF h, Order
<1>8. /\ pc' \in [Threads -> {"idle", "wait", "hold"} \X Stores]
      /\ todo' \in [Threads -> Seq(Files)]
      /\ lock' \in [Stores -> Threads \cup {Free}]
      /\ todo'[t] = z /\ pc'[t] = h
      /\ \A u \in Threads \ {t} : pc'[u] = pc[u] /\ todo'[u] = todo[u]
  BY <1>0, <1>1, <1>5, <1>6 DEF Typed
<1>9. Saving(t)' <=> Saving(t)
  BY <1>1, <1>6, <1>7, <1>8 DEF Saving, Idle
<1>10. AtItsMutex(t)'
  BY <1>1, <1>6, <1>7, <1>8, <1>9 DEF IInv, AtItsMutex, Idle
<1>11. SaveOnItsWay(t)'
  <2> SUFFICES ASSUME Saving(t) PROVE SaveOnItsWay(t)'
    BY <1>9 DEF SaveOnItsWay
  <2>1. SaveOnItsWay(t)
    BY DEF IInv
  <2>2. CASE s = "facts"
    <3>1. FactsLeft(t)'
      BY <1>1, <1>4, <1>8, <2>2 DEF FactsLeft
    <3> QED BY <1>1, <1>6, <1>8, <2>1, <2>2, <3>1 DEF SaveOnItsWay, At
  <2>3. CASE s = "docs"
    <3>1. DocsLeft(t)'
      BY <1>1, <1>3, <1>8, <2>3 DEF DocsLeft
    <3> QED BY <1>1, <1>6, <1>7, <1>8, <2>1, <2>3, <3>1
            DEF SaveOnItsWay, At, FactsOpen, OpensWith
  <2> QED BY <2>2, <2>3 DEF Stores
<1>12. Exclusive'
  <2> SUFFICES ASSUME NEW r \in Stores, NEW u \in Threads
               PROVE  lock'[r] = u <=> At(u, "hold", r)'
    BY DEF Exclusive
  <2>1. lock[r] = u <=> At(u, "hold", r)
    BY DEF IInv, Exclusive
  <2>2. CASE u = t
    <3>1. At(u, "hold", r)' <=> r = s
      BY <1>6, <1>8, <2>2 DEF At, h
    <3>2. ~At(u, "hold", r)
      BY <1>7, <2>2 DEF At
    <3> QED BY <1>0, <1>1, <2>1, <2>2, <3>1, <3>2 DEF Typed
  <2>3. CASE u # t
    BY <1>0, <1>1, <1>8, <2>1, <2>3, BoundsAssumption DEF Typed, At
  <2> QED BY <2>2, <2>3
<1> QED BY <1>0, <1>1, <1>8, <1>10, <1>11, <1>12, QuietStep DEF Typed

-----------------------------------------------------------------------------
(* One thread at a time is in the code a mutex guards.                     *)
LEMMA OneHolder ==
  ASSUME IInv, NEW s \in Stores, NEW t \in Threads, NEW u \in Threads,
         At(t, "hold", s), At(u, "hold", s)
  PROVE  u = t
BY DEF IInv, Exclusive

(* A thread that lets go of a mutex leaves it to the others.               *)
LEMMA Released ==
  ASSUME IInv, NEW t \in Threads, NEW s \in Stores, At(t, "hold", s),
         lock' = [lock EXCEPT ![s] = Free],
         pc'[t][1] # "hold",
         \A u \in Threads \ {t} : pc'[u] = pc[u]
  PROVE  lock' \in [Stores -> Threads \cup {Free}] /\ Exclusive'
<1>1. lock \in [Stores -> Threads \cup {Free}] /\ Free \notin Threads
  BY BoundsAssumption DEF IInv, Typed
<1>2. ASSUME NEW r \in Stores, NEW u \in Threads
      PROVE  lock'[r] = u <=> At(u, "hold", r)'
  <2>1. lock[r] = u <=> At(u, "hold", r)
    BY DEF IInv, Exclusive
  <2>2. lock[s] = t
    BY DEF IInv, Exclusive
  <2>3. CASE u = t
    <3>1. ~At(u, "hold", r)'
      BY <2>3 DEF At
    <3>2. r # s => lock[r] # t
      BY <2>1, <2>3 DEF At
    <3> QED BY <1>1, <2>3, <3>1, <3>2
  <2>4. CASE u # t
    BY <1>1, <2>1, <2>2, <2>4 DEF At
  <2> QED BY <2>3, <2>4
<1> QED BY <1>1, <1>2 DEF Exclusive

(* A call that finds the mutex poisoned panics, without having held it.    *)
LEMMA LockPoisonedKeeps ==
  ASSUME IInv, NEW t \in Threads, NEW s \in Stores, LockPoisoned(t, s)
  PROVE  IInv'
<1>1. /\ At(t, "wait", s) /\ Return(t)
      /\ up' = up /\ memory' = memory /\ poisoned' = poisoned /\ lock' = lock
      /\ disk' = disk /\ saved' = saved /\ disturbed' = disturbed /\ descends' = descends
      /\ opened' = opened /\ stamp' = stamp
  BY DEF LockPoisoned, files
<1>2. Typed
  BY DEF IInv
<1>3. /\ pc' \in [Threads -> {"idle", "wait", "hold"} \X Stores]
      /\ call' \in [Threads -> Calls \cup {None}]
      /\ todo' \in [Threads -> Seq(Files)]
      /\ AtItsMutex(t)' /\ SaveOnItsWay(t)'
      /\ pc'[t] = <<"idle", "facts">>
      /\ \A u \in Threads \ {t} :
           pc'[u] = pc[u] /\ call'[u] = call[u] /\ todo'[u] = todo[u]
  BY <1>1, <1>2, Returned
<1>4. Exclusive'
  <2>1. \A r \in Stores : ~At(t, "hold", r) /\ ~At(t, "hold", r)'
    BY <1>1, <1>3 DEF At
  <2>2. \A u \in Threads \ {t}, r \in Stores : At(u, "hold", r)' <=> At(u, "hold", r)
    BY <1>3 DEF At
  <2>3. \A u \in Threads, r \in Stores : At(u, "hold", r)' <=> At(u, "hold", r)
    BY <2>1, <2>2
  <2> QED BY <1>1, <2>3 DEF IInv, Exclusive
<1> QED BY <1>1, <1>2, <1>3, <1>4, QuietStep DEF Typed

(* A call that was refused, and a constructor that failed, change nothing. *)
LEMMA NothingKeeps ==
  ASSUME IInv,
         UNCHANGED <<up, memory, lock, poisoned, pc, call, todo, files, descends, opened, stamp>>
  PROVE  IInv'
<1>1. /\ up' = up /\ memory' = memory /\ poisoned' = poisoned /\ lock' = lock
      /\ pc' = pc /\ call' = call /\ todo' = todo
      /\ disk' = disk /\ saved' = saved /\ disturbed' = disturbed /\ descends' = descends
      /\ opened' = opened /\ stamp' = stamp
  BY DEF files
<1>2. Typed' /\ Exclusive' /\ Uniform'
  BY <1>1 DEF IInv, Typed, Exclusive, Uniform, At
<1>3. ASSUME NEW u \in Threads PROVE AtItsMutex(u)' /\ SaveOnItsWay(u)'
  BY <1>1, Bystander, SaveUntouched DEF IInv
<1>4. ASSUME NEW f \in Formats PROVE SavedStands(f)'
  BY <1>1 DEF IInv, SavedStands, FactsOpen, DocsOpen, OpensWith
<1>5. ASSUME NEW f \in Formats, NEW file \in Files PROVE FileBehind(f, file)'
  BY <1>1 DEF IInv, FileBehind
<1> QED BY <1>2, <1>3, <1>4, <1>5 DEF IInv

-----------------------------------------------------------------------------
(* A call that changes what its mutex guards, upwards, and returns.  What  *)
(* the saves of the other threads wrote stays as the memory is, since the  *)
(* mutex they hold is the other one.                                       *)
LEMMA MemoryStep ==
  ASSUME IInv, NEW t \in Threads, NEW s \in Stores, At(t, "hold", s), Return(t),
         lock' = [lock EXCEPT ![s] = Free],
         memory' \in Memories, stamp' \in Nat, stamp <= stamp', poisoned' \subseteq Stores,
         \A p \in Parts : memory[p] <= memory'[p] /\ memory'[p] <= stamp',
         s = "facts" => memory'.docs = memory.docs,
         s = "docs" => /\ memory'.bank = memory.bank
                       /\ memory'.schema = memory.schema
                       /\ memory'.user = memory.user,
         Uniform', up' = up, opened' = opened,
         disk' = disk, saved' = saved, disturbed' = disturbed, descends' = descends
  PROVE  IInv'
<1>1. Typed
  BY DEF IInv
<1>2. /\ pc' \in [Threads -> {"idle", "wait", "hold"} \X Stores]
      /\ call' \in [Threads -> Calls \cup {None}]
      /\ todo' \in [Threads -> Seq(Files)]
      /\ AtItsMutex(t)' /\ SaveOnItsWay(t)'
      /\ pc'[t] = <<"idle", "facts">>
      /\ \A u \in Threads \ {t} :
           pc'[u] = pc[u] /\ call'[u] = call[u] /\ todo'[u] = todo[u]
  BY <1>1, Returned
<1>3. lock' \in [Stores -> Threads \cup {Free}] /\ Exclusive'
  <2>1. pc'[t][1] # "hold"
    BY <1>2
  <2> QED BY <1>2, <2>1, Released
<1>4. Typed'
  BY <1>1, <1>2, <1>3 DEF Typed
<1>5. ASSUME NEW p \in Parts, NEW n \in Nat, n <= memory[p]
      PROVE  n <= memory'[p]
  <2>1. memory[p] \in Nat /\ memory'[p] \in Nat
    BY <1>1 DEF Typed, Memories, Parts
  <2> QED BY <1>5, <2>1
<1>6. ASSUME NEW u \in Threads \ {t} PROVE AtItsMutex(u)' /\ SaveOnItsWay(u)'
  <2>1. /\ pc'[u] = pc[u] /\ call'[u] = call[u] /\ todo'[u] = todo[u]
        /\ AtItsMutex(u) /\ SaveOnItsWay(u)
    BY <1>2 DEF IInv
  <2>2. AtItsMutex(u)'
    BY <2>1, Bystander
  <2>3. SaveOnItsWay(u)'
    <3> SUFFICES ASSUME Saving(u)' PROVE SaveOnItsWay(u)'
      BY DEF SaveOnItsWay
    <3>1. Saving(u)
      BY <2>1 DEF Saving, Idle
    <3>2. \A p \in Parts : call'[u].began[p] <= memory'[p]
      <4> TAKE p \in Parts
      <4>1. call[u].began[p] \in Nat
        BY <1>1, <2>1, <3>1 DEF Typed, AtItsMutex, Saving, Calls, Memories, Parts
      <4>2. call[u].began[p] <= memory[p]
        BY <2>1, <3>1 DEF SaveOnItsWay
      <4> QED BY <1>5, <2>1, <4>1, <4>2
    <3>3. At(u, "hold", "facts")' => FactsLeft(u)'
      <4> SUFFICES ASSUME At(u, "hold", "facts")' PROVE FactsLeft(u)'
        OBVIOUS
      <4>1. At(u, "hold", "facts")
        BY <2>1 DEF At
      <4>2. s = "docs"
        BY <4>1, OneHolder DEF Stores
      <4>3. FactsLeft(u)
        BY <2>1, <3>1, <4>1 DEF SaveOnItsWay
      <4>4. \A file \in {"bank", "schema", "service"} : IsWritten(u, file) => IsWritten(u, file)'
        BY <2>1, <4>2 DEF IsWritten, PartOf
      <4> QED BY <2>1, <4>2, <4>3, <4>4 DEF FactsLeft
    <3>4. At(u, "hold", "docs")' => DocsLeft(u)'
      <4> SUFFICES ASSUME At(u, "hold", "docs")' PROVE DocsLeft(u)'
        OBVIOUS
      <4>1. At(u, "hold", "docs")
        BY <2>1 DEF At
      <4>2. s = "facts"
        BY <4>1, OneHolder DEF Stores
      <4> QED BY <2>1, <3>1, <4>1, <4>2 DEF SaveOnItsWay, DocsLeft, IsWritten, PartOf
    <3>5. pc'[u][2] = "docs" /\ u \notin disturbed' =>
            FactsOpen(Format(call[u].op), call[u].key, call[u].began)'
      BY <2>1, <3>1 DEF SaveOnItsWay, FactsOpen, OpensWith
    <3> QED BY <2>1, <3>2, <3>3, <3>4, <3>5 DEF SaveOnItsWay
  <2> QED BY <2>2, <2>3
<1>7. ASSUME NEW f \in Formats PROVE SavedStands(f)'
  <2> SUFFICES ASSUME saved[f] # None PROVE SavedStands(f)'
    BY DEF SavedStands
  <2>1. SavedStands(f)
    BY DEF IInv
  <2>2. \A p \in Parts : saved[f].memory[p] \in Nat
    BY <1>1 DEF Typed, SavedStates, Memories, Parts
  <2>3. up /\ f \in descends => \A p \in Parts : saved[f].memory[p] <= memory'[p]
    BY <1>5, <2>1, <2>2 DEF SavedStands
  <2> QED BY <2>1, <2>3 DEF SavedStands, FactsOpen, DocsOpen, OpensWith
<1>8. ASSUME NEW f \in Formats, NEW file \in Files PROVE FileBehind(f, file)'
  <2> SUFFICES ASSUME disk[f][file] # None PROVE FileBehind(f, file)'
    BY DEF FileBehind
  <2>1. FileBehind(f, file)
    BY DEF IInv
  <2>2. disk[f][file].stamp \in Nat /\ stamp \in Nat
    BY <1>1 DEF Typed, Contents
  <2>3. PartOf(file) \in Parts
    BY DEF PartOf, Files, Parts
  <2>4. disk[f][file].stamp <= stamp'
    BY <2>1, <2>2 DEF FileBehind
  <2>5. disk[f][file].stamp <= memory[PartOf(file)] =>
          disk[f][file].stamp <= memory'[PartOf(file)]
    BY <1>5, <2>2, <2>3
  <2> QED BY <2>1, <2>4, <2>5 DEF FileBehind
<1> QED BY <1>2, <1>3, <1>4, <1>6, <1>7, <1>8 DEF IInv

(* A call that changes a store: only upwards, and with the mutex of it.    *)
LEMMA ChangeKeeps ==
  ASSUME IInv, NEW t \in Threads, NEW s \in Stores, Change(t, s)
  PROVE  IInv'
<1>1. /\ At(t, "hold", s) /\ Return(t) /\ lock' = [lock EXCEPT ![s] = Free]
      /\ stamp' = stamp + 1 /\ poisoned' = poisoned /\ up' = up /\ opened' = opened
      /\ disk' = disk /\ saved' = saved /\ disturbed' = disturbed /\ descends' = descends
  BY DEF Change, Finish, files
<1>2. /\ memory \in Memories /\ stamp \in Nat /\ poisoned \subseteq Stores
      /\ \A p \in Parts : memory[p] <= stamp
      /\ ~memory.user => memory.bank = memory.schema
  BY DEF IInv, Typed, Uniform
<1>3. memory = [bank |-> memory.bank, schema |-> memory.schema, docs |-> memory.docs,
                user |-> memory.user]
  BY <1>2 DEF Memories
<1> DEFINE n == stamp + 1
           gone == call[t].op = "forgetUser"
<1>4. /\ n \in Nat /\ stamp <= n
      /\ \A p \in Parts : memory[p] \in Nat /\ memory[p] <= n
  BY <1>2 DEF Memories, Parts
<1>5. memory.user \in BOOLEAN
  BY <1>2 DEF Memories
<1>6. CASE s = "docs"
  <2>1. memory' = [bank |-> memory.bank, schema |-> memory.schema, docs |-> n,
                   user |-> memory.user]
    BY <1>3, <1>6 DEF Change, Changed
  <2> HIDE DEF n
  <2>2. memory' \in Memories
    BY <1>4, <1>5, <2>1 DEF Memories, Parts
  <2>3. \A p \in Parts : memory[p] <= memory'[p] /\ memory'[p] <= n
    BY <1>4, <2>1 DEF Parts
  <2>4. Uniform'
    BY <1>2, <2>1 DEF Uniform
  <2> QED BY <1>1, <1>2, <1>4, <1>6, <2>1, <2>2, <2>3, <2>4, MemoryStep DEF n
<1>7. CASE s = "facts"
  <2>1. memory' = [bank |-> n, schema |-> n, docs |-> memory.docs, user |-> ~gone]
    BY <1>3, <1>7 DEF Change, Changed
  <2> HIDE DEF n, gone
  <2>2. memory' \in Memories
    BY <1>4, <2>1 DEF Memories, Parts
  <2>3. \A p \in Parts : memory[p] <= memory'[p] /\ memory'[p] <= n
    BY <1>4, <2>1 DEF Parts
  <2>4. Uniform'
    BY <2>1 DEF Uniform
  <2> QED BY <1>1, <1>2, <1>4, <1>7, <2>1, <2>2, <2>3, <2>4, MemoryStep DEF n
<1> QED BY <1>6, <1>7 DEF Stores

(* The user may have been created; nothing else has changed.               *)
LEMMA UserStep ==
  ASSUME IInv, NEW t \in Threads, NEW s \in Stores, At(t, "hold", s), Return(t),
         lock' = [lock EXCEPT ![s] = Free], NEW b \in BOOLEAN,
         memory' = [memory EXCEPT !.user = b],
         memory.user => b, s = "docs" => b = memory.user,
         stamp' = stamp, poisoned' \subseteq Stores, up' = up, opened' = opened,
         disk' = disk, saved' = saved, disturbed' = disturbed, descends' = descends
  PROVE  IInv'
<1>1. /\ memory \in Memories /\ stamp \in Nat
      /\ \A p \in Parts : memory[p] <= stamp
      /\ ~memory.user => memory.bank = memory.schema
  BY DEF IInv, Typed, Uniform
<1>2. memory' = [bank |-> memory.bank, schema |-> memory.schema, docs |-> memory.docs,
                 user |-> b]
  BY <1>1 DEF Memories
<1>3. \A p \in Parts : memory[p] \in Nat
  BY <1>1 DEF Memories, Parts
<1>4. memory' \in Memories
  BY <1>2, <1>3 DEF Memories, Parts
<1>5. \A p \in Parts : memory[p] <= memory'[p] /\ memory'[p] <= stamp
  <2>1. \A p \in Parts : memory'[p] = memory[p]
    BY <1>2 DEF Parts
  <2> QED BY <1>1, <1>3, <2>1
<1>6. Uniform'
  BY <1>1, <1>2 DEF Uniform
<1>7. stamp' \in Nat /\ stamp <= stamp'
  BY <1>1
<1> QED BY <1>1, <1>2, <1>4, <1>5, <1>6, <1>7, MemoryStep

(* A call that finds nothing to change, but may create the user.           *)
LEMMA NoChangeKeeps ==
  ASSUME IInv, NEW t \in Threads, NEW s \in Stores, NoChange(t, s)
  PROVE  IInv'
<1> DEFINE b == memory.user \/ call[t].op \in {"fact", "ingest"}
<1>1. /\ At(t, "hold", s) /\ Return(t) /\ lock' = [lock EXCEPT ![s] = Free]
      /\ stamp' = stamp /\ poisoned' = poisoned /\ up' = up /\ opened' = opened
      /\ disk' = disk /\ saved' = saved /\ disturbed' = disturbed /\ descends' = descends
  BY DEF NoChange, Finish, files
<1>2. memory' = [memory EXCEPT !.user = b]
  BY DEF NoChange
<1>3. poisoned \subseteq Stores /\ memory.user \in BOOLEAN
  BY DEF IInv, Typed, Memories
<1>4. s = "docs" => call[t].op \notin {"fact", "ingest"}
  BY <1>1 DEF IInv, AtItsMutex, At, Idle, Saves
<1>5. b \in BOOLEAN /\ (memory.user => b) /\ (s = "docs" => b = memory.user)
  BY <1>3, <1>4
<1> HIDE DEF b
<1> QED BY <1>1, <1>2, <1>3, <1>5, UserStep

(* A message that panics: the user has been created, and the mutex is      *)
(* poisoned.                                                               *)
LEMMA IngestPanicsKeeps ==
  ASSUME IInv, NEW t \in Threads, IngestPanics(t)
  PROVE  IInv'
<1>1. /\ At(t, "hold", "facts") /\ Return(t) /\ lock' = [lock EXCEPT !["facts"] = Free]
      /\ memory' = [memory EXCEPT !.user = TRUE]
      /\ stamp' = stamp /\ poisoned' = poisoned \cup {"facts"} /\ up' = up /\ opened' = opened
      /\ disk' = disk /\ saved' = saved /\ disturbed' = disturbed /\ descends' = descends
  BY DEF IngestPanics, ReleasedByPanic, files
<1>2. poisoned' \subseteq Stores /\ "facts" \in Stores
  BY <1>1 DEF IInv, Typed, Stores
<1> QED BY <1>1, <1>2, UserStep

-----------------------------------------------------------------------------
(* A save that has written everything goes on to the documents, or returns *)
(* Ok; then, unless it was disturbed, what it wrote is the last save.      *)
LEMMA OnToDocsKeeps ==
  ASSUME IInv, NEW t \in Threads, WrittenOut(t, "facts")
  PROVE  IInv'
<1>0. Typed
  BY DEF IInv
<1> DEFINE w == <<"wait", "docs">>
<1>1. /\ At(t, "hold", "facts") /\ Saving(t) /\ todo[t] = <<>>
      /\ lock' = [lock EXCEPT !["facts"] = Free]
      /\ call' = call /\ todo' = todo
      /\ pc' = [pc EXCEPT ![t] = w]
      /\ saved' = saved /\ descends' = descends
      /\ up' = up /\ memory' = memory /\ poisoned' = poisoned
      /\ disk' = disk /\ disturbed' = disturbed
      /\ opened' = opened /\ stamp' = stamp
  BY DEF WrittenOut, After, Saving
<1>2. w \in {"idle", "wait", "hold"} \X Stores /\ w[1] = "wait" /\ w[2] = "docs"
  BY DEF Stores
<1> HIDE DEF w
<1>3. /\ pc' \in [Threads -> {"idle", "wait", "hold"} \X Stores]
      /\ pc'[t] = w
      /\ \A u \in Threads \ {t} : pc'[u] = pc[u]
  BY <1>0, <1>1, <1>2 DEF Typed
<1>4. pc'[t][1] = "wait" /\ pc'[t][2] = "docs"
  BY <1>2, <1>3
<1>5. lock' \in [Stores -> Threads \cup {Free}] /\ Exclusive'
  <2>1. pc'[t][1] # "hold" /\ "facts" \in Stores
    BY <1>4 DEF Stores
  <2> QED BY <1>1, <1>3, <2>1, Released
<1>6. pc[t][1] = "hold" /\ ~Idle(t) /\ ~Idle(t)' /\ Saving(t)'
  BY <1>1, <1>4 DEF At, Idle, Saving
<1>7. AtItsMutex(t)'
  BY <1>1, <1>4, <1>6 DEF IInv, AtItsMutex, Saving
<1>8. SaveOnItsWay(t)'
  <2>1. FactsLeft(t) /\ \A p \in Parts : call[t].began[p] <= memory[p]
    BY <1>1 DEF IInv, SaveOnItsWay
  <2>2. IsWritten(t, "service") /\
        (memory.user => IsWritten(t, "bank") /\ IsWritten(t, "schema"))
    BY <1>1, <2>1 DEF FactsLeft
  <2> DEFINE f == Format(call[t].op)
  <2>3. FactsOpen(f, call[t].key, call[t].began)
    <3>1. /\ OpensWith(f, call[t].key, "service")
          /\ disk[f]["service"].stamp = memory.bank
          /\ disk[f]["service"].user = memory.user
      BY <2>2 DEF IsWritten, OpensWith, PartOf
    <3>2. \A p \in Parts : memory[p] \in Nat /\ call[t].began[p] \in Nat
      BY <1>0, <1>1 DEF Typed, Memories, Parts, Calls, IInv, AtItsMutex, Saving
    <3>3. CASE memory.user
      <4>1. \A part \in {"bank", "schema"} :
              OpensWith(f, call[t].key, part) /\ disk[f][part].stamp = memory[part]
        BY <2>2, <3>3 DEF IsWritten, OpensWith, PartOf
      <4> HIDE DEF f
      <4> QED BY <2>1, <3>1, <3>2, <3>3, <4>1 DEF FactsOpen, Parts
    <3>4. CASE ~memory.user
      <4>1. memory.bank = memory.schema
        BY <3>4 DEF IInv, Uniform
      <4> HIDE DEF f
      <4> QED BY <2>1, <3>1, <3>2, <3>4, <4>1 DEF FactsOpen, Parts
    <3> QED BY <3>3, <3>4
  <2> QED BY <1>1, <1>4, <2>1, <2>3 DEF SaveOnItsWay, At, FactsOpen, OpensWith
<1> QED BY <1>0, <1>1, <1>3, <1>5, <1>7, <1>8, QuietStep DEF Typed

(* A save that ends with the documents returns Ok. Unless it was           *)
(* disturbed, it becomes the last save of its format.                      *)
LEMMA ReturnsOkKeeps ==
  ASSUME IInv, NEW t \in Threads, WrittenOut(t, "docs")
  PROVE  IInv'
<1> DEFINE f == Format(call[t].op)
           new == [key |-> call[t].key, memory |-> call[t].began]
<1>0. Typed
  BY DEF IInv
<1>1. /\ At(t, "hold", "docs") /\ Saving(t) /\ todo[t] = <<>> /\ Return(t)
      /\ lock' = [lock EXCEPT !["docs"] = Free]
      /\ up' = up /\ memory' = memory /\ poisoned' = poisoned
      /\ disk' = disk /\ disturbed' = disturbed
      /\ opened' = opened /\ stamp' = stamp
      /\ IF t \in disturbed THEN saved' = saved /\ descends' = descends
         ELSE /\ saved' = [saved EXCEPT ![f] = new]
              /\ descends' = descends \cup {f}
  BY DEF WrittenOut, After
<1>2. /\ pc' \in [Threads -> {"idle", "wait", "hold"} \X Stores]
      /\ call' \in [Threads -> Calls \cup {None}]
      /\ todo' \in [Threads -> Seq(Files)]
      /\ AtItsMutex(t)' /\ SaveOnItsWay(t)'
      /\ pc'[t] = <<"idle", "facts">>
      /\ \A u \in Threads \ {t} :
           pc'[u] = pc[u] /\ call'[u] = call[u] /\ todo'[u] = todo[u]
  BY <1>0, <1>1, Returned
<1>3. lock' \in [Stores -> Threads \cup {Free}] /\ Exclusive'
  <2>1. pc'[t][1] # "hold" /\ "docs" \in Stores
    BY <1>2 DEF Stores
  <2> QED BY <1>1, <1>2, <2>1, Released
<1>4. call[t] \in Calls /\ f \in Formats
  BY <1>0, <1>1 DEF Typed, IInv, AtItsMutex, Saving, Format, Formats
<1>5. new \in SavedStates /\ new # None
  BY <1>4, NoneAssumption DEF Calls, SavedStates
<1>6. new.key = call[t].key /\ new.memory = call[t].began
  OBVIOUS
<1> HIDE DEF new
<1>7. saved' \in [Formats -> SavedStates \cup {None}] /\ descends' \subseteq Formats
  <2>1. saved \in [Formats -> SavedStates \cup {None}] /\ descends \subseteq Formats
    BY <1>0 DEF Typed
  <2>2. [saved EXCEPT ![f] = new] \in [Formats -> SavedStates \cup {None}]
    BY <1>5, <2>1
  <2>3. saved' = saved \/ saved' = [saved EXCEPT ![f] = new]
    BY <1>1
  <2>4. descends' = descends \/ descends' = descends \cup {f}
    BY <1>1
  <2>5. saved' \in [Formats -> SavedStates \cup {None}]
    BY <2>1, <2>2, <2>3
  <2> QED BY <1>4, <2>1, <2>4, <2>5
<1>8. Typed' /\ Uniform'
  BY <1>0, <1>1, <1>2, <1>3, <1>7 DEF IInv, Typed, Uniform
<1>9. ASSUME NEW u \in Threads PROVE AtItsMutex(u)' /\ SaveOnItsWay(u)'
  <2>1. CASE u = t
    BY <1>2, <2>1
  <2>2. CASE u # t
    BY <1>1, <1>2, <2>2, Bystander, SaveUntouched DEF IInv
  <2> QED BY <2>1, <2>2
<1>10. ASSUME NEW g \in Formats PROVE SavedStands(g)'
  <2>1. SavedStands(g)
    BY DEF IInv
  <2>2. CASE t \in disturbed
    BY <1>1, <2>1, <2>2 DEF SavedStands, FactsOpen, DocsOpen, OpensWith
  <2>3. CASE t \notin disturbed /\ g # f
    <3>1. saved'[g] = saved[g] /\ (g \in descends' <=> g \in descends)
      BY <1>0, <1>1, <2>3 DEF Typed
    <3> QED BY <1>1, <2>1, <3>1 DEF SavedStands, FactsOpen, DocsOpen, OpensWith
  <2>4. CASE t \notin disturbed /\ g = f
    <3> DEFINE k == call[t].key
               m == call[t].began
    <3>1. saved'[g] = new
      BY <1>0, <1>1, <1>4, <2>4 DEF Typed
    <3>2. FactsOpen(f, k, m) /\ DocsLeft(t) /\ \A p \in Parts : m[p] <= memory[p]
      BY <1>1, <2>4 DEF IInv, SaveOnItsWay, At
    <3>3. DocsOpen(f, k, m)
      <4>1. IsWritten(t, "docs")
        BY <1>1, <3>2 DEF DocsLeft
      <4>2. memory.docs \in Nat /\ m.docs \in Nat /\ m.docs <= memory.docs
        BY <1>0, <1>4, <3>2 DEF Typed, Calls, Memories, Parts
      <4> HIDE DEF m
      <4> QED BY <4>1, <4>2 DEF IsWritten, PartOf, DocsOpen, OpensWith
    <3>4. k \in KeysOf(f) \ {BadKey}
      <4>1. call[t].op = "save" \/ call[t].op = "saveSealed"
        BY <1>1 DEF Saving, Saves
      <4>2. call[t].op = "save" => k = NoKey
        BY <1>1 DEF IInv, AtItsMutex, Saving
      <4>3. call[t].op = "saveSealed" => k \in Keys
        BY <1>1 DEF IInv, AtItsMutex, Saving
      <4> HIDE DEF k
      <4> QED BY <4>1, <4>2, <4>3, BoundsAssumption, NoneAssumption DEF KeysOf, Format
    <3> HIDE DEF f
    <3> QED BY <1>1, <1>6, <2>4, <3>1, <3>2, <3>3, <3>4
            DEF SavedStands, FactsOpen, DocsOpen, OpensWith
  <2> QED BY <2>2, <2>3, <2>4
<1>11. ASSUME NEW g \in Formats, NEW file \in Files PROVE FileBehind(g, file)'
  BY <1>1 DEF IInv, FileBehind
<1> QED BY <1>3, <1>8, <1>9, <1>10, <1>11 DEF IInv

-----------------------------------------------------------------------------
(* What a save writes next, and what it has written before                 *)
LEMMA NextFile ==
  ASSUME IInv, NEW t \in Threads, todo[t] # <<>>
  PROVE  /\ Saving(t) /\ up
         /\ \/ /\ At(t, "hold", "docs")
               /\ Head(todo[t]) = "docs" /\ Tail(todo[t]) = <<>>
            \/ /\ At(t, "hold", "facts") /\ memory.user
               /\ Head(todo[t]) = "bank" /\ Tail(todo[t]) = <<"schema", "service">>
            \/ /\ At(t, "hold", "facts") /\ memory.user /\ IsWritten(t, "bank")
               /\ Head(todo[t]) = "schema" /\ Tail(todo[t]) = <<"service">>
            \/ /\ At(t, "hold", "facts") /\ memory.user
               /\ IsWritten(t, "bank") /\ IsWritten(t, "schema")
               /\ Head(todo[t]) = "service" /\ Tail(todo[t]) = <<>>
            \/ /\ At(t, "hold", "facts") /\ ~memory.user
               /\ Head(todo[t]) = "service" /\ Tail(todo[t]) = <<>>
<1>1. Saving(t) /\ pc[t][1] = "hold" /\ up
  BY DEF IInv, AtItsMutex, Saving
<1>2. pc[t] \in {"idle", "wait", "hold"} \X Stores
  BY DEF IInv, Typed
<1>3. At(t, "hold", "docs") \/ At(t, "hold", "facts")
  BY <1>1, <1>2 DEF At, Stores
<1>4. CASE At(t, "hold", "docs")
  <2>1. todo[t] = <<"docs">>
    BY <1>1, <1>4 DEF IInv, SaveOnItsWay, DocsLeft
  <2> QED BY <1>1, <1>4, <2>1
<1>5. CASE At(t, "hold", "facts")
  <2>1. FactsLeft(t)
    BY <1>1, <1>5 DEF IInv, SaveOnItsWay
  <2>2. CASE memory.user /\ todo[t] = <<"bank", "schema", "service">>
    BY <1>1, <1>5, <2>2
  <2>3. CASE memory.user /\ todo[t] = <<"schema", "service">> /\ IsWritten(t, "bank")
    BY <1>1, <1>5, <2>3
  <2>4. CASE /\ memory.user /\ todo[t] = <<"service">>
             /\ IsWritten(t, "bank") /\ IsWritten(t, "schema")
    BY <1>1, <1>5, <2>4
  <2>5. CASE ~memory.user /\ todo[t] = <<"service">>
    BY <1>1, <1>5, <2>5
  <2> QED BY <2>1, <2>2, <2>3, <2>4, <2>5 DEF FactsLeft
<1> QED BY <1>3, <1>4, <1>5

(* What it writes is what it is to write.                                  *)
LEMMA WrittenIs ==
  ASSUME IInv, NEW t \in Threads, todo[t] # <<>>, NEW c, c = Written(t, Head(todo[t]))
  PROVE  /\ c \in Contents /\ c # None /\ c # Torn
         /\ c.key = call[t].key
         /\ c.stamp = memory[PartOf(Head(todo[t]))]
         /\ c.user = memory.user
         /\ call[t] \in Calls /\ Format(call[t].op) \in Formats
<1> DEFINE file == Head(todo[t])
<1>1. c = [stamp |-> memory[PartOf(file)], key |-> call[t].key, user |-> memory.user]
  BY DEF Written, Content, Snapshot, PartOf
<1>2. call[t] \in Calls
  BY NextFile DEF IInv, Typed, AtItsMutex, Saving
<1>3. file \in Files
  BY NextFile DEF Files, Parts
<1>4. PartOf(file) \in Parts
  BY <1>3 DEF PartOf, Files, Parts
<1> HIDE DEF file
<1>5. memory[PartOf(file)] \in Nat /\ memory.user \in BOOLEAN
  BY <1>4 DEF IInv, Typed, Memories, Parts
<1>6. call[t].key \in Keys \cup {NoKey}
  BY <1>2 DEF Calls
<1>7. c \in Contents /\ c # None
  BY <1>1, <1>5, <1>6, NoneAssumption DEF Contents
<1>8. c # Torn
  BY <1>1, <1>6, NoneAssumption DEF Torn, Content
<1> QED BY <1>1, <1>2, <1>7, <1>8 DEF file, Format, Formats

(* What a save writes leaves what another one wrote with the same key      *)
(* open, with all that it was to save.                                     *)
LEMMA GoodWrite ==
  ASSUME IInv, NEW t \in Threads, todo[t] # <<>>,
         disk' = [disk EXCEPT ![Format(call[t].op)][Head(todo[t])] =
                    Written(t, Head(todo[t]))],
         NEW m \in Memories, \A p \in Parts : m[p] <= memory[p],
         NEW f, f = Format(call[t].op), NEW k, k = call[t].key
  PROVE  /\ FactsOpen(f, k, m) => FactsOpen(f, k, m)'
         /\ DocsOpen(f, k, m) => DocsOpen(f, k, m)'
<1>1. PICK c : c = Written(t, Head(todo[t]))
  OBVIOUS
<1>2. PICK file : file = Head(todo[t])
  OBVIOUS
<1>3. /\ c # None /\ c.key = k /\ c.stamp = memory[PartOf(file)] /\ c.user = memory.user
      /\ f \in Formats
  BY <1>1, <1>2, WrittenIs
<1>4. file \in Files
  BY <1>2, NextFile DEF Files, Parts
<1>5. /\ disk'[f][file] = c
      /\ \A x \in Files \ {file} : disk'[f][x] = disk[f][x]
  BY <1>1, <1>2, <1>3, <1>4 DEF IInv, Typed
<1>6. /\ m.bank <= memory.bank /\ m.schema <= memory.schema /\ m.docs <= memory.docs
      /\ m.bank \in Nat /\ m.schema \in Nat /\ m.docs \in Nat
      /\ memory.bank \in Nat /\ memory.schema \in Nat /\ memory.docs \in Nat
      /\ memory.user \in BOOLEAN
      /\ ~memory.user => memory.bank = memory.schema
  BY DEF Parts, Memories, IInv, Typed, Uniform
<1>7. {"bank", "schema", "docs", "service"} = Files
  BY DEF Files, Parts
<1>8. CASE file = "docs"
  <2>1. disk'[f]["docs"] = c /\ c.stamp >= m.docs
    BY <1>3, <1>5, <1>6, <1>8 DEF PartOf
  <2>2. /\ disk'[f]["bank"] = disk[f]["bank"] /\ disk'[f]["schema"] = disk[f]["schema"]
        /\ disk'[f]["service"] = disk[f]["service"]
    BY <1>5, <1>7, <1>8
  <2> QED BY <1>3, <2>1, <2>2 DEF FactsOpen, DocsOpen, OpensWith
<1>9. CASE file = "bank"
  <2>1. disk'[f]["bank"] = c /\ c.stamp >= m.bank
    BY <1>3, <1>5, <1>6, <1>9 DEF PartOf
  <2>2. /\ disk'[f]["docs"] = disk[f]["docs"] /\ disk'[f]["schema"] = disk[f]["schema"]
        /\ disk'[f]["service"] = disk[f]["service"]
    BY <1>5, <1>7, <1>9
  <2> QED BY <1>3, <2>1, <2>2 DEF FactsOpen, DocsOpen, OpensWith
<1>10. CASE file = "schema"
  <2>1. disk'[f]["schema"] = c /\ c.stamp >= m.schema
    BY <1>3, <1>5, <1>6, <1>10 DEF PartOf
  <2>2. /\ disk'[f]["docs"] = disk[f]["docs"] /\ disk'[f]["bank"] = disk[f]["bank"]
        /\ disk'[f]["service"] = disk[f]["service"]
    BY <1>5, <1>7, <1>10
  <2> QED BY <1>3, <2>1, <2>2 DEF FactsOpen, DocsOpen, OpensWith
<1>11. CASE file = "service"
  <2>1. disk'[f]["service"] = c /\ c.stamp = memory.bank
    BY <1>3, <1>5, <1>11 DEF PartOf
  <2>2. /\ disk'[f]["docs"] = disk[f]["docs"] /\ disk'[f]["bank"] = disk[f]["bank"]
        /\ disk'[f]["schema"] = disk[f]["schema"]
    BY <1>5, <1>7, <1>11
  <2>3. DocsOpen(f, k, m) => DocsOpen(f, k, m)'
    BY <2>2 DEF DocsOpen, OpensWith
  <2>4. CASE memory.user
    <3>1. IsWritten(t, "bank") /\ IsWritten(t, "schema")
      BY <1>2, <1>11, <2>4, NextFile
    <3>2. \A part \in {"bank", "schema"} :
            OpensWith(f, k, part)' /\ disk'[f][part].stamp = memory[part]
      BY <2>2, <3>1 DEF IsWritten, PartOf, OpensWith
    <3> QED BY <1>3, <1>6, <2>1, <2>3, <2>4, <3>2 DEF FactsOpen, OpensWith
  <2>5. CASE ~memory.user
    BY <1>3, <1>6, <2>1, <2>3, <2>5 DEF FactsOpen, OpensWith
  <2> QED BY <2>4, <2>5
<1> QED BY <1>4, <1>7, <1>8, <1>9, <1>10, <1>11

(* A file that is written, or cut short, by a save that holds its mutex:   *)
(* the files, the last saves and the saves of the others are in order.     *)
DiskInOrder(t) ==
  /\ disk \in [Formats -> [Files -> Contents \cup {None}]]
  /\ saved \in [Formats -> SavedStates \cup {None}]
  /\ disturbed \subseteq Threads
  /\ \A u \in Threads \ {t} : AtItsMutex(u) /\ SaveOnItsWay(u)
  /\ \A f \in Formats : SavedStands(f)
  /\ \A f \in Formats, file \in Files : FileBehind(f, file)

(* A file that is put on the disk by a save, whole or torn, keeps the disk *)
(* in order.                                                               *)
LEMMA PutKeeps ==
  ASSUME IInv, NEW t \in Threads, todo[t] # <<>>,
         NEW c \in {Written(t, Head(todo[t])), Torn}, Put(t, Head(todo[t]), c),
         up' = up, memory' = memory, stamp' = stamp, opened' = opened,
         descends' = descends,
         \A u \in Threads \ {t} :
           pc'[u] = pc[u] /\ call'[u] = call[u] /\ todo'[u] = todo[u]
  PROVE  DiskInOrder(t)'
<1>1. PICK f : f = Format(call[t].op)
  OBVIOUS
<1>2. PICK file : file = Head(todo[t])
  OBVIOUS
<1>3. PICK c0 : c0 = c
  OBVIOUS
<1>4. Typed /\ up
  BY NextFile DEF IInv
<1>5. /\ call[t] \in Calls /\ f \in Formats
      /\ c = Written(t, Head(todo[t])) =>
           /\ c \in Contents /\ c # None /\ c # Torn
           /\ c.key = call[t].key /\ c.stamp = memory[PartOf(file)]
  <2>1. PICK w : w = Written(t, Head(todo[t]))
    OBVIOUS
  <2> QED BY <1>1, <1>2, <2>1, WrittenIs
<1>6. Torn \in Contents /\ Torn.stamp = 0 /\ Torn # None
  <2>1. Torn \in Contents /\ Torn.stamp = 0
    BY DEF Torn, Content, Contents
  <2> HIDE DEF Torn
  <2> QED BY <2>1, NoneAssumption
<1>7. file \in Files /\ PartOf(file) \in Parts
  BY <1>2, NextFile DEF Files, Parts, PartOf
<1>8. c \in Contents /\ c # None
  BY <1>5, <1>6
<1> DEFINE Clash(k) == c = Torn \/ k # c.key
<1>9. /\ disk' = [disk EXCEPT ![f][file] = c]
      /\ saved' = [saved EXCEPT ![f] =
                     IF saved[f] # None /\ (Clash(saved[f].key) \/ f \notin descends)
                     THEN None ELSE saved[f]]
      /\ disturbed' = disturbed \cup
           {u \in Threads \ {t} : Saving(u) /\ Format(call[u].op) = f /\ Clash(call[u].key)}
  BY <1>1, <1>2, <1>4 DEF Put, Typed
<1>10. /\ disk' \in [Formats -> [Files -> Contents \cup {None}]]
       /\ disk'[f][file] = c
       /\ \A g \in Formats, x \in Files :
            g # f \/ x # file => disk'[g][x] = disk[g][x]
  BY <1>4, <1>5, <1>7, <1>8, <1>9 DEF Typed
<1>11. /\ saved' \in [Formats -> SavedStates \cup {None}]
       /\ \A g \in Formats : saved'[g] # None =>
            /\ saved'[g] = saved[g] /\ saved[g] # None
            /\ g = f => ~Clash(saved[g].key) /\ f \in descends
  BY <1>4, <1>5, <1>9 DEF Typed
<1>12. disturbed' \subseteq Threads
  BY <1>4, <1>9 DEF Typed
<1> HIDE DEF Clash
<1>13. ASSUME NEW m \in Memories, \A p \in Parts : m[p] <= memory[p],
              NEW k, ~Clash(k)
       PROVE  /\ FactsOpen(f, k, m) => FactsOpen(f, k, m)'
              /\ DocsOpen(f, k, m) => DocsOpen(f, k, m)'
  <2>1. c = Written(t, Head(todo[t])) /\ k = call[t].key
    BY <1>5, <1>13 DEF Clash
  <2> QED BY <1>1, <1>2, <1>9, <1>13, <2>1, GoodWrite
<1>14. ASSUME NEW u \in Threads \ {t} PROVE AtItsMutex(u)' /\ SaveOnItsWay(u)'
  <2>1. /\ pc'[u] = pc[u] /\ call'[u] = call[u] /\ todo'[u] = todo[u]
        /\ AtItsMutex(u) /\ SaveOnItsWay(u)
    BY DEF IInv
  <2>2. AtItsMutex(u)'
    BY <2>1, Bystander
  <2>3. SaveOnItsWay(u)'
    <3> SUFFICES ASSUME Saving(u)' PROVE SaveOnItsWay(u)'
      BY DEF SaveOnItsWay
    <3>1. Saving(u)
      BY <2>1 DEF Saving, Idle
    <3>2. \A p \in Parts : call[u].began[p] <= memory[p]
      BY <2>1, <3>1 DEF SaveOnItsWay
    <3>3. call[u] \in Calls /\ Format(call[u].op) \in Formats
      BY <1>4, <2>1, <3>1 DEF Typed, AtItsMutex, Saving, Format, Formats
    <3>4. At(u, "hold", "facts")' => FactsLeft(u)'
      <4> SUFFICES ASSUME At(u, "hold", "facts")' PROVE FactsLeft(u)'
        OBVIOUS
      <4>1. At(u, "hold", "facts")
        BY <2>1 DEF At
      <4>2. file = "docs"
        BY <1>2, <4>1, NextFile, OneHolder DEF Stores
      <4>3. FactsLeft(u)
        BY <2>1, <3>1, <4>1 DEF SaveOnItsWay
      <4>4. \A x \in {"bank", "schema", "service"} : IsWritten(u, x) => IsWritten(u, x)'
        <5> TAKE x \in {"bank", "schema", "service"}
        <5>1. disk'[Format(call[u].op)][x] = disk[Format(call[u].op)][x]
          BY <1>10, <3>3, <4>2 DEF Files, Parts
        <5> QED BY <2>1, <5>1 DEF IsWritten, PartOf
      <4> QED BY <2>1, <4>3, <4>4 DEF FactsLeft
    <3>5. At(u, "hold", "docs")' => DocsLeft(u)'
      <4> SUFFICES ASSUME At(u, "hold", "docs")' PROVE DocsLeft(u)'
        OBVIOUS
      <4>1. At(u, "hold", "docs")
        BY <2>1 DEF At
      <4>2. file # "docs"
        BY <1>2, <4>1, NextFile, OneHolder DEF Stores
      <4>3. DocsLeft(u)
        BY <2>1, <3>1, <4>1 DEF SaveOnItsWay
      <4>4. disk'[Format(call[u].op)]["docs"] = disk[Format(call[u].op)]["docs"]
        BY <1>10, <3>3, <4>2 DEF Files, Parts
      <4> QED BY <2>1, <4>3, <4>4 DEF DocsLeft, IsWritten, PartOf
    <3>6. pc[u][2] = "docs" /\ u \notin disturbed' =>
            FactsOpen(Format(call[u].op), call[u].key, call[u].began)'
      <4> SUFFICES ASSUME pc[u][2] = "docs", u \notin disturbed'
                   PROVE  FactsOpen(Format(call[u].op), call[u].key, call[u].began)'
        OBVIOUS
      <4>1. u \notin disturbed
        BY <1>9
      <4>2. PICK m : m = call[u].began
        OBVIOUS
      <4>3. PICK k : k = call[u].key
        OBVIOUS
      <4>4. PICK g : g = Format(call[u].op)
        OBVIOUS
      <4>5. FactsOpen(g, k, m) /\ m \in Memories /\ g \in Formats
        BY <2>1, <3>1, <3>3, <4>1, <4>2, <4>3, <4>4 DEF SaveOnItsWay, Calls
      <4>6. FactsOpen(g, k, m)'
        <5>1. CASE g = f
          <6>1. ~Clash(k)
            BY <1>9, <3>1, <4>3, <4>4, <5>1 DEF Clash
          <6> QED BY <1>13, <3>2, <4>2, <4>5, <5>1, <6>1
        <5>2. CASE g # f
          BY <1>10, <4>5, <5>2 DEF FactsOpen, OpensWith, Files, Parts
        <5> QED BY <5>1, <5>2
      <4> QED BY <2>1, <4>2, <4>3, <4>4, <4>6 DEF FactsOpen, OpensWith
    <3> QED BY <2>1, <3>2, <3>4, <3>5, <3>6 DEF SaveOnItsWay, FactsOpen, OpensWith
  <2> QED BY <2>2, <2>3
<1>15. ASSUME NEW g \in Formats PROVE SavedStands(g)'
  <2> SUFFICES ASSUME saved'[g] # None PROVE SavedStands(g)'
    BY DEF SavedStands
  <2>1. saved'[g] = saved[g] /\ saved[g] # None
    BY <1>11
  <2>2. SavedStands(g)
    BY DEF IInv
  <2>3. PICK m : m = saved[g].memory
    OBVIOUS
  <2>4. PICK k : k = saved[g].key
    OBVIOUS
  <2>5. FactsOpen(g, k, m) /\ DocsOpen(g, k, m) /\ m \in Memories
    BY <1>4, <2>1, <2>2, <2>3, <2>4 DEF SavedStands, Typed, SavedStates
  <2>6. FactsOpen(g, k, m)' /\ DocsOpen(g, k, m)'
    <3>1. CASE g = f
      <4>1. ~Clash(k) /\ f \in descends
        BY <1>11, <2>4, <3>1
      <4>2. \A p \in Parts : m[p] <= memory[p]
        BY <1>4, <2>1, <2>2, <2>3, <3>1, <4>1 DEF SavedStands
      <4> QED BY <1>13, <2>5, <3>1, <4>1, <4>2
    <3>2. CASE g # f
      BY <1>10, <2>5, <3>2 DEF FactsOpen, DocsOpen, OpensWith, Files, Parts
    <3> QED BY <3>1, <3>2
  <2> QED BY <2>1, <2>2, <2>3, <2>4, <2>6 DEF SavedStands, FactsOpen, DocsOpen, OpensWith
<1>16. ASSUME NEW g \in Formats, NEW x \in Files PROVE FileBehind(g, x)'
  <2>1. CASE g = f /\ x = file
    <3>1. c.stamp = 0 \/ c.stamp = memory[PartOf(file)]
      BY <1>5, <1>6
    <3>2. memory[PartOf(file)] \in Nat /\ memory[PartOf(file)] <= stamp
          /\ stamp \in Nat /\ opened \in Nat
      BY <1>4, <1>7 DEF Typed, Memories, Parts
    <3> QED BY <1>10, <2>1, <3>1, <3>2 DEF FileBehind
  <2>2. CASE g # f \/ x # file
    BY <1>10, <2>2 DEF IInv, FileBehind
  <2> QED BY <2>1, <2>2
<1> QED BY <1>10, <1>11, <1>12, <1>14, <1>15, <1>16 DEF DiskInOrder

(* A save writes its next file and goes on to the one after it.            *)
LEMMA WriteFileKeeps ==
  ASSUME IInv, NEW t \in Threads, WriteFile(t)
  PROVE  IInv'
<1>1. PICK c : c = Written(t, Head(todo[t]))
  OBVIOUS
<1>2. PICK file : file = Head(todo[t])
  OBVIOUS
<1>3. PICK f : f = Format(call[t].op)
  OBVIOUS
<1>4. /\ todo[t] # <<>> /\ Put(t, Head(todo[t]), c)
      /\ todo' = [todo EXCEPT ![t] = Tail(todo[t])]
      /\ up' = up /\ memory' = memory /\ lock' = lock /\ poisoned' = poisoned
      /\ pc' = pc /\ call' = call /\ descends' = descends /\ opened' = opened
      /\ stamp' = stamp
  BY <1>1 DEF WriteFile
<1>5. Typed
  BY DEF IInv
<1>6. /\ todo' \in [Threads -> Seq(Files)] /\ todo'[t] = Tail(todo[t])
      /\ \A u \in Threads \ {t} :
           pc'[u] = pc[u] /\ call'[u] = call[u] /\ todo'[u] = todo[u]
  BY <1>4, <1>5 DEF Typed
<1>7. DiskInOrder(t)'
  BY <1>1, <1>4, <1>6, PutKeeps
<1>8. Typed' /\ Exclusive' /\ Uniform'
  BY <1>4, <1>5, <1>6, <1>7 DEF IInv, Typed, DiskInOrder, Exclusive, Uniform, At
<1>9. AtItsMutex(t)'
  <2>1. Saving(t) /\ pc[t][1] = "hold" /\ ~Idle(t)
    BY <1>4 DEF IInv, AtItsMutex, Saving
  <2> QED BY <1>4, <2>1 DEF IInv, AtItsMutex, Idle, Saving
<1>10. /\ c # None /\ c.key = call[t].key /\ c.stamp = memory[PartOf(file)]
       /\ c.user = memory.user /\ f \in Formats
  BY <1>1, <1>2, <1>3, <1>4, WrittenIs
<1>11. file \in Files
  BY <1>2, <1>4, NextFile DEF Files, Parts
<1>12. /\ disk'[f][file] = c
       /\ \A x \in Files \ {file} : disk'[f][x] = disk[f][x]
  <2>1. disk' = [disk EXCEPT ![f][file] = c]
    BY <1>2, <1>3, <1>4 DEF Put
  <2> QED BY <1>5, <1>10, <1>11, <2>1 DEF Typed
<1>13. IsWritten(t, file)'
  <2>1. IsWritten(t, file)' <=>
          /\ disk'[f][file] # None /\ disk'[f][file].key = call[t].key
          /\ disk'[f][file].stamp = memory[PartOf(file)]
          /\ file = "service" => disk'[f][file].user = memory.user
    BY <1>3, <1>4 DEF IsWritten
  <2> QED BY <1>10, <1>12, <2>1
<1>14. ASSUME NEW x \in Files \ {file}, IsWritten(t, x)
       PROVE  IsWritten(t, x)'
  BY <1>3, <1>4, <1>12, <1>14 DEF IsWritten
<1>15. SaveOnItsWay(t)'
  <2>1. Saving(t) /\ SaveOnItsWay(t)
    BY <1>4, NextFile DEF IInv
  <2>2. \A p \in Parts : call'[t].began[p] <= memory'[p]
    BY <1>4, <2>1 DEF SaveOnItsWay
  <2>3. {"bank", "schema", "docs", "service"} = Files
    BY DEF Files, Parts
  <2>4. CASE At(t, "hold", "docs")
    <3>1. file = "docs" /\ todo'[t] = <<>>
      BY <1>2, <1>4, <1>6, <2>4, NextFile DEF At
    <3>2. DocsLeft(t)'
      BY <1>13, <3>1 DEF DocsLeft
    <3>3. t \notin disturbed' =>
            FactsOpen(Format(call[t].op), call[t].key, call[t].began)'
      <4> SUFFICES ASSUME t \notin disturbed'
                   PROVE  FactsOpen(Format(call[t].op), call[t].key, call[t].began)'
        OBVIOUS
      <4>1. t \notin disturbed
        BY <1>4 DEF Put
      <4>2. FactsOpen(f, call[t].key, call[t].began)
        BY <1>3, <2>1, <2>4, <4>1 DEF SaveOnItsWay, At
      <4>3. \A x \in {"bank", "schema", "service"} : disk'[f][x] = disk[f][x]
        BY <1>12, <2>3, <3>1
      <4> QED BY <1>3, <1>4, <4>2, <4>3 DEF FactsOpen, OpensWith
    <3> QED BY <1>4, <2>2, <2>4, <3>2, <3>3 DEF SaveOnItsWay, At, FactsOpen, OpensWith
  <2>5. CASE At(t, "hold", "facts")
    <3>1. \/ /\ memory.user /\ file = "bank" /\ todo'[t] = <<"schema", "service">>
          \/ /\ memory.user /\ IsWritten(t, "bank")
             /\ file = "schema" /\ todo'[t] = <<"service">>
          \/ /\ memory.user /\ IsWritten(t, "bank") /\ IsWritten(t, "schema")
             /\ file = "service" /\ todo'[t] = <<>>
          \/ ~memory.user /\ file = "service" /\ todo'[t] = <<>>
      BY <1>2, <1>4, <1>6, <2>5, NextFile DEF At
    <3>2. FactsLeft(t)'
      BY <1>4, <1>13, <1>14, <2>3, <3>1 DEF FactsLeft
    <3> QED BY <1>4, <2>2, <2>5, <3>2 DEF SaveOnItsWay, At
  <2> QED BY <1>4, <2>4, <2>5, NextFile
<1> QED BY <1>7, <1>8, <1>9, <1>15 DEF IInv, DiskInOrder

(* A write that fails ends the save with an error; the file may be torn.   *)
LEMMA WriteFailsKeeps ==
  ASSUME IInv, NEW t \in Threads, NEW s \in Stores, WriteFails(t, s)
  PROVE  IInv'
<1>1. /\ todo[t] # <<>> /\ At(t, "hold", s) /\ Return(t)
      /\ lock' = [lock EXCEPT ![s] = Free]
      /\ up' = up /\ opened' = opened /\ memory' = memory /\ poisoned' = poisoned
      /\ descends' = descends /\ stamp' = stamp
      /\ Put(t, Head(todo[t]), Torn) \/ UNCHANGED files
  BY DEF WriteFails, Finish
<1>2. Typed
  BY DEF IInv
<1>3. /\ pc' \in [Threads -> {"idle", "wait", "hold"} \X Stores]
      /\ call' \in [Threads -> Calls \cup {None}]
      /\ todo' \in [Threads -> Seq(Files)]
      /\ AtItsMutex(t)' /\ SaveOnItsWay(t)'
      /\ pc'[t] = <<"idle", "facts">>
      /\ \A u \in Threads \ {t} :
           pc'[u] = pc[u] /\ call'[u] = call[u] /\ todo'[u] = todo[u]
  BY <1>1, <1>2, Returned
<1>4. lock' \in [Stores -> Threads \cup {Free}] /\ Exclusive'
  <2>1. pc'[t][1] # "hold"
    BY <1>3
  <2> QED BY <1>1, <1>3, <2>1, Released
<1>5. CASE Put(t, Head(todo[t]), Torn)
  <2>1. PICK c : c = Torn
    OBVIOUS
  <2>2. DiskInOrder(t)'
    BY <1>1, <1>3, <1>5, <2>1, PutKeeps
  <2>3. Typed' /\ Uniform'
    BY <1>1, <1>2, <1>3, <1>4, <2>2 DEF IInv, Typed, DiskInOrder, Uniform
  <2> QED BY <1>3, <1>4, <2>2, <2>3 DEF IInv, DiskInOrder
<1>6. CASE UNCHANGED files
  <2>1. disk' = disk /\ saved' = saved /\ disturbed' = disturbed
    BY <1>6 DEF files
  <2> QED BY <1>1, <1>2, <1>3, <1>4, <2>1, QuietStep DEF Typed
<1> QED BY <1>1, <1>5, <1>6

(* When the engine is gone, nobody is in a call, and a file that was being *)
(* written may be cut short.                                               *)
LEMMA StopKeeps ==
  ASSUME IInv, Stop
  PROVE  IInv'
<1>1. PICK cut \in SUBSET {t \in Threads : todo[t] # <<>>} :
        LET hit(f) == {Head(todo[t]) : t \in {u \in cut : Format(call[u].op) = f}}
        IN  /\ disk' = [f \in Formats |->
                          [file \in Files |-> IF file \in hit(f) THEN Torn ELSE disk[f][file]]]
            /\ saved' = [f \in Formats |-> IF hit(f) # {} THEN None ELSE saved[f]]
  BY DEF Stop
<1>2. /\ up' = FALSE /\ memory' = Fresh
      /\ lock' = [s \in Stores |-> Free]
      /\ pc' = [t \in Threads |-> <<"idle", "facts">>]
      /\ call' = [t \in Threads |-> None]
      /\ todo' = [t \in Threads |-> <<>>]
      /\ poisoned' = poisoned /\ disturbed' = disturbed /\ descends' = descends
      /\ opened' = opened /\ stamp' = stamp
  BY DEF Stop
<1> DEFINE hit(f) == {Head(todo[t]) : t \in {u \in cut : Format(call[u].op) = f}}
<1>3. /\ disk' = [f \in Formats |->
                    [file \in Files |-> IF file \in hit(f) THEN Torn ELSE disk[f][file]]]
      /\ saved' = [f \in Formats |-> IF hit(f) # {} THEN None ELSE saved[f]]
  BY <1>1
<1> HIDE DEF hit
<1>4. Typed
  BY DEF IInv
<1>5. Torn \in Contents /\ Torn.stamp = 0
  BY DEF Torn, Content, Contents
<1> HIDE DEF Torn
<1>6. ASSUME NEW f \in Formats, NEW file \in Files
      PROVE  /\ disk'[f][file] \in {Torn, disk[f][file]}
             /\ saved'[f] # None => saved'[f] = saved[f] /\ disk'[f][file] = disk[f][file]
             /\ disk'[f][file] \in Contents \cup {None}
  BY <1>3, <1>4, <1>5 DEF Typed
<1>7. Typed'
  <2>1. memory' \in Memories /\ \A p \in Parts : memory'[p] <= stamp
    BY <1>2, <1>4 DEF Fresh, Memories, Parts, Typed
  <2>2. pc' \in [Threads -> {"idle", "wait", "hold"} \X Stores]
    BY <1>2 DEF Stores
  <2>3. todo' \in [Threads -> Seq(Files)]
    BY <1>2 DEF Files
  <2>4. disk' \in [Formats -> [Files -> Contents \cup {None}]]
    <3> DEFINE row(f) == [file \in Files |-> IF file \in hit(f) THEN Torn ELSE disk[f][file]]
    <3>1. ASSUME NEW f \in Formats PROVE row(f) \in [Files -> Contents \cup {None}]
      BY <1>4, <1>5 DEF Typed
    <3>2. disk' = [f \in Formats |-> row(f)]
      BY <1>3
    <3> HIDE DEF row
    <3> QED BY <3>1, <3>2
  <2>5. saved' \in [Formats -> SavedStates \cup {None}]
    BY <1>3, <1>4 DEF Typed
  <2> QED BY <1>2, <1>4, <2>1, <2>2, <2>3, <2>4, <2>5 DEF Typed
<1>8. Exclusive'
  BY <1>2, BoundsAssumption DEF Exclusive, At
<1>9. Uniform'
  BY <1>2 DEF Uniform, Fresh
<1>10. ASSUME NEW t \in Threads PROVE AtItsMutex(t)' /\ SaveOnItsWay(t)'
  BY <1>2 DEF AtItsMutex, SaveOnItsWay, Idle, Saving
<1>11. ASSUME NEW f \in Formats PROVE SavedStands(f)'
  <2> SUFFICES ASSUME saved'[f] # None PROVE SavedStands(f)'
    BY DEF SavedStands
  <2>1. {"bank", "schema", "docs", "service"} = Files
    BY DEF Files, Parts
  <2>2. saved'[f] = saved[f] /\ \A file \in Files : disk'[f][file] = disk[f][file]
    BY <1>6, <2>1
  <2>3. SavedStands(f)
    BY DEF IInv
  <2> QED BY <1>2, <2>1, <2>2, <2>3 DEF SavedStands, FactsOpen, DocsOpen, OpensWith
<1>12. ASSUME NEW f \in Formats, NEW file \in Files PROVE FileBehind(f, file)'
  <2>1. disk'[f][file] = Torn \/ disk'[f][file] = disk[f][file]
    BY <1>6
  <2>2. 0 <= stamp
    BY <1>4 DEF Typed
  <2> QED BY <1>2, <1>5, <2>1, <2>2 DEF IInv, FileBehind
<1> QED BY <1>7, <1>8, <1>9, <1>10, <1>11, <1>12 DEF IInv

-----------------------------------------------------------------------------
(* Every step keeps the invariant.                                         *)
LEMMA NextIInv == IInv /\ [Next]_vars => IInv'
<1> SUFFICES ASSUME IInv, [Next]_vars PROVE IInv'
  OBVIOUS
<1>1. CASE New  BY <1>1, NewKeeps
<1>2. ASSUME NEW f \in Formats, NEW k \in KeysOf(f), Open(f, k) PROVE IInv'
  BY <1>2, OpenKeeps
<1>3. ASSUME NEW f \in Formats, NEW k \in KeysOf(f), OpenFails(f, k) PROVE IInv'
  BY <1>3, NothingKeeps DEF OpenFails
<1>4. ASSUME NEW t \in Threads, NEW o \in Operations \ {"saveSealed"}, Begin(t, o, NoKey)
      PROVE  IInv'
  BY <1>4, BeginKeeps
<1>5. ASSUME NEW t \in Threads, NEW k \in Keys, Begin(t, "saveSealed", k) PROVE IInv'
  <2>1. "saveSealed" \in Operations /\ "saveSealed" # "save"
    BY DEF Operations, Saves
  <2> QED BY <1>5, <2>1, BeginKeeps
<1>6. ASSUME NEW t \in Threads, Refuse(t) PROVE IInv'
  BY <1>6, NothingKeeps DEF Refuse
<1>7. ASSUME NEW t \in Threads, Step(t) PROVE IInv'
  <2>1. ASSUME NEW s \in Stores, WrittenOut(t, s) PROVE IInv'
    BY <2>1, OnToDocsKeeps, ReturnsOkKeeps DEF Stores
  <2> QED BY <1>7, <2>1, LockKeeps, LockPoisonedKeeps, ChangeKeeps, NoChangeKeeps,
             IngestPanicsKeeps, WriteFileKeeps, WriteFailsKeeps DEF Step
<1>8. CASE Stop  BY <1>8, StopKeeps
<1>9. CASE UNCHANGED vars
  BY <1>9, NothingKeeps DEF vars, files
<1> QED BY <1>1, <1>2, <1>3, <1>4, <1>5, <1>6, <1>7, <1>8, <1>9 DEF Next

(* The invariant holds in every reachable state.                           *)
LEMMA AlwaysIInv == Spec => []IInv
BY InitIInv, NextIInv, PTL DEF Spec

(* With any number of threads, keys, calls and engines, what a save that   *)
(* returned Ok wrote opens with its key and no other, and has every change *)
(* that was made before the save began.                                    *)
THEOREM SavedStateAlwaysOpens == Spec => []SavedStateOpens
<1>1. IInv => SavedStateOpens
  <2> SUFFICES ASSUME IInv PROVE SavedStateOpens
    OBVIOUS
  <2>1. TypeOK
    <3>1. memory \in Stamps
      BY DEF IInv, Typed, Memories, Parts, Stamps
    <3> QED BY <3>1 DEF IInv, Typed, TypeOK, AtItsMutex, Exclusive
  <2> QED BY <2>1, StandsOpens DEF SavedStateOpens
<1> QED BY <1>1, AlwaysIInv, PTL

(* Although a save lets go of one mutex before it takes the other, and     *)
(* other saves to the same path come in between, no file of an engine goes *)
(* back to an older state.                                                 *)
THEOREM FilesNeverReturn == Spec => FilesNeverGoBack
<1> DEFINE Kept(f, file) == disk'[f][file] \in {disk[f][file], Torn}
           Newer(f, file) ==
             disk[f][file] # None =>
               \/ disk[f][file].stamp <= opened
               \/ disk'[f][file].stamp >= disk[f][file].stamp
           Goes == \A f \in Formats, file \in Files :
                     LET old == disk[f][file]
                         new == disk'[f][file]
                     IN  old # None /\ new # Torn =>
                           old.stamp <= opened \/ new.stamp >= old.stamp
<1>1. IInv /\ [Next]_vars => [Goes]_vars
  <2> SUFFICES ASSUME IInv, Next PROVE Goes
    BY DEF Goes
  <2>1. \A f \in Formats, file \in Files : disk[f][file] # None =>
          disk[f][file].stamp \in Nat
    BY DEF IInv, Typed, Contents
  <2>2. ASSUME NEW f \in Formats, NEW file \in Files, NEW t \in Threads, WriteFile(t)
        PROVE  Kept(f, file) \/ Newer(f, file)
    <3>1. PICK c : c = Written(t, Head(todo[t]))
      OBVIOUS
    <3>2. todo[t] # <<>> /\ up
          /\ disk' = [disk EXCEPT ![Format(call[t].op)][Head(todo[t])] = c]
      BY <2>2, <3>1, NextFile DEF WriteFile, Put
    <3>3. c.stamp = memory[PartOf(Head(todo[t]))]
      BY <3>1, <3>2, WrittenIs
    <3>4. Head(todo[t]) \in Files /\ Format(call[t].op) \in Formats
      BY <3>2, NextFile DEF Files, Parts, Format, Formats
    <3>5. CASE f = Format(call[t].op) /\ file = Head(todo[t])
      <4>1. disk'[f][file] = c
        BY <3>2, <3>4, <3>5 DEF IInv, Typed
      <4>2. memory[PartOf(file)] \in Nat
        BY DEF IInv, Typed, Memories, PartOf, Files, Parts
      <4>3. Newer(f, file)
        BY <2>1, <3>2, <3>3, <3>5, <4>1, <4>2 DEF IInv, FileBehind
      <4> QED BY <4>3
    <3>6. CASE f # Format(call[t].op) \/ file # Head(todo[t])
      BY <3>2, <3>4, <3>6 DEF IInv, Typed
    <3> QED BY <3>5, <3>6
  <2>3. ASSUME NEW f \in Formats, NEW file \in Files, NEW t \in Threads,
               NEW s \in Stores, WriteFails(t, s)
        PROVE  Kept(f, file)
    <3>1. CASE Put(t, Head(todo[t]), Torn)
      <4> HIDE DEF Torn
      <4> QED BY <3>1 DEF Put, IInv, Typed
    <3>2. CASE UNCHANGED files
      BY <3>2 DEF files
    <3> QED BY <2>3, <3>1, <3>2 DEF WriteFails
  <2>4. ASSUME NEW f \in Formats, NEW file \in Files, Stop
        PROVE  Kept(f, file)
    <3> HIDE DEF Torn
    <3> QED BY <2>4 DEF Stop
  <2>5. \/ disk' = disk
        \/ \E t \in Threads : WriteFile(t)
        \/ \E t \in Threads, s \in Stores : WriteFails(t, s)
        \/ Stop
    BY DEF Next, New, Open, OpenFails, Construct, Begin, Refuse, Step, Lock, LockPoisoned,
           Change, NoChange, IngestPanics, WrittenOut, files
  <2>6. \A f \in Formats, file \in Files : Kept(f, file) \/ Newer(f, file)
    <3>1. disk' = disk => \A f \in Formats, file \in Files : Kept(f, file)
      OBVIOUS
    <3> HIDE DEF Kept, Newer
    <3> QED BY <2>2, <2>3, <2>4, <2>5, <3>1
  <2> HIDE DEF Torn
  <2> QED BY <2>1, <2>6
<1> QED BY <1>1, AlwaysIInv, PTL DEF Spec, FilesNeverGoBack, Goes

-----------------------------------------------------------------------------
(* McpServer                                                               *)

(* The response being written is that to the last line read.               *)
PendingOK ==
  loop = "writing" =>
    /\ response.id = next /\ next >= 1 /\ Request(sent[next])
    /\ \A i \in DOMAIN out : out[i].id < next
    /\ sent[next].kind = "recall" =>
         response.result = ValueAt(sent[next].predicate, next)

(* The memory is what the lines read so far have made of it.               *)
MemoryOK == \A p \in Predicates : facts[p] = ValueAt(p, next + 1)

McpInv ==
  /\ AnsweredInOrder
  /\ sent \in Seq(Lines) /\ Len(sent) <= MaxLines
  /\ out \in Seq(Responses)
  /\ PendingOK
  /\ MemoryOK
  /\ RecallSeesLinesBefore
  /\ loop = "saved" => stateFile = facts

-----------------------------------------------------------------------------
(* The value that a predicate has before a line                            *)

(* A bounded set of numbers has a greatest element.                        *)
LEMMA Greatest ==
  ASSUME NEW n \in Nat, NEW W \in SUBSET (1 .. n), W # {}
  PROVE  \E i \in W : \A j \in W : j <= i
<1> DEFINE T == {n - i : i \in W}
<1>1. T \subseteq Nat
  OBVIOUS
<1>6. T # {}
  <2>1. PICK i \in W : TRUE
    OBVIOUS
  <2>2. n - i \in T
    BY <2>1
  <2> QED BY <2>2
<1> HIDE DEF T
<1>2. PICK x \in T : \A y \in T : ~(y < x)
  BY <1>1, <1>6, NatLeast
<1>3. PICK i \in W : x = n - i
  BY DEF T
<1>4. \A j \in W : ~(n - j < n - i)
  BY <1>2, <1>3 DEF T
<1>5. \A j \in W : j <= i
  BY <1>4
<1> QED BY <1>5

(* The last writer before line n, and what it has left                     *)
LastWriter(p, n) == CHOOSE i \in Writers(p, n) : \A j \in Writers(p, n) : j <= i
LeftBy(line) == IF line.kind = "store" THEN line.value ELSE NotFound

LEMMA LastWriterIs ==
  ASSUME NEW p, NEW n \in Nat, Writers(p, n) # {}
  PROVE  /\ LastWriter(p, n) \in Writers(p, n)
         /\ \A j \in Writers(p, n) : j <= LastWriter(p, n)
         /\ LastWriter(p, n) \in 1 .. n - 1
         /\ ValueAt(p, n) = LeftBy(sent[LastWriter(p, n)])
<1>1. Writers(p, n) \subseteq 1 .. n - 1
  BY DEF Writers
<1>2. \E i \in Writers(p, n) : \A j \in Writers(p, n) : j <= i
  <2>1. n - 1 \in Nat
    BY <1>1
  <2> QED BY <1>1, <2>1, Greatest
<1>3. /\ LastWriter(p, n) \in Writers(p, n)
      /\ \A j \in Writers(p, n) : j <= LastWriter(p, n)
  BY <1>2 DEF LastWriter
<1> QED BY <1>1, <1>3 DEF ValueAt, LastWriter, LeftBy

(* It depends on the lines before that one alone.                          *)
LEMMA ValueOfPrefix ==
  ASSUME NEW p, NEW n \in Nat, UNCHANGED loaded,
         \A i \in 1 .. n - 1 : sent'[i] = sent[i]
  PROVE  ValueAt(p, n)' = ValueAt(p, n)
<1>1. Writers(p, n)' = Writers(p, n)
  BY DEF Writers
<1>2. CASE Writers(p, n) = {}
  BY <1>1, <1>2 DEF ValueAt
<1>3. CASE Writers(p, n) # {}
  <2>1. LastWriter(p, n)' = LastWriter(p, n)
    BY <1>1 DEF LastWriter
  <2>2. ValueAt(p, n) = LeftBy(sent[LastWriter(p, n)]) /\ LastWriter(p, n) \in 1 .. n - 1
    BY <1>3, LastWriterIs
  <2>3. ValueAt(p, n)' = LeftBy(sent'[LastWriter(p, n)])
    BY <1>1, <1>3, <2>1 DEF ValueAt, LastWriter, LeftBy
  <2> QED BY <2>2, <2>3
<1> QED BY <1>2, <1>3

(* One line more.                                                          *)
LEMMA ValueAfterLine ==
  ASSUME NEW p, NEW n \in Nat
  PROVE  ValueAt(p, n + 2) =
           IF sent[n + 1].kind \in {"store", "forget"} /\ sent[n + 1].predicate = p
           THEN LeftBy(sent[n + 1]) ELSE ValueAt(p, n + 1)
<1>1. CASE sent[n + 1].kind \in {"store", "forget"} /\ sent[n + 1].predicate = p
  <2>1. n + 1 \in Writers(p, n + 2)
    BY <1>1 DEF Writers
  <2>2. /\ LastWriter(p, n + 2) \in 1 .. (n + 2) - 1 /\ n + 1 <= LastWriter(p, n + 2)
        /\ ValueAt(p, n + 2) = LeftBy(sent[LastWriter(p, n + 2)])
    BY <2>1, LastWriterIs
  <2>3. LastWriter(p, n + 2) = n + 1
    BY <2>2
  <2>4. ValueAt(p, n + 2) = LeftBy(sent[n + 1])
    BY <2>2, <2>3
  <2> QED BY <1>1, <2>4, Zenon
<1>2. CASE ~(sent[n + 1].kind \in {"store", "forget"} /\ sent[n + 1].predicate = p)
  <2>1. Writers(p, n + 2) = Writers(p, n + 1)
    <3>1. \A i : i \in 1 .. (n + 2) - 1 <=> i \in 1 .. (n + 1) - 1 \/ i = n + 1
      OBVIOUS
    <3> QED BY <1>2, <3>1 DEF Writers
  <2>2. ValueAt(p, n + 2) = ValueAt(p, n + 1)
    <3>1. CASE Writers(p, n + 1) = {}
      BY <2>1, <3>1 DEF ValueAt
    <3>2. CASE Writers(p, n + 1) # {}
      <4>1. LastWriter(p, n + 2) = LastWriter(p, n + 1)
        BY <2>1 DEF LastWriter
      <4>2. n + 1 \in Nat /\ n + 2 \in Nat
        OBVIOUS
      <4> QED BY <2>1, <3>2, <4>1, <4>2, LastWriterIs
    <3> QED BY <3>1, <3>2
  <2> QED BY <1>2, <2>2, Zenon
<1> QED BY <1>1, <1>2

(* The effect of a line on the memory, a predicate at a time               *)
LEMMA EffectOfLine ==
  ASSUME NEW f \in McpMemories, NEW line \in Lines
  PROVE  /\ Effect(f, line) \in McpMemories
         /\ \A p \in Predicates :
              Effect(f, line)[p] =
                IF line.kind \in {"store", "forget"} /\ line.predicate = p
                THEN LeftBy(line) ELSE f[p]
         /\ Result(f, line) \in Results
         /\ line.kind = "recall" => line.predicate \in Predicates /\ Result(f, line) = f[line.predicate]
<1>1. CASE line.kind = "store"
  <2>1. line.predicate \in Predicates /\ line.value \in Values
    BY <1>1 DEF Lines
  <2>2. Effect(f, line) = [f EXCEPT ![line.predicate] = line.value] /\ Result(f, line) = "ok"
    BY <1>1 DEF Effect, Result
  <2> QED BY <1>1, <2>1, <2>2 DEF McpMemories, LeftBy, Results
<1>2. CASE line.kind = "forget"
  <2>1. line.predicate \in Predicates
    BY <1>2 DEF Lines
  <2>2. /\ Effect(f, line) = [f EXCEPT ![line.predicate] = NotFound]
        /\ Result(f, line) \in {"absent", "removed"}
    BY <1>2 DEF Effect, Result
  <2> QED BY <1>2, <2>1, <2>2 DEF McpMemories, LeftBy, Results
<1>3. CASE line.kind \notin {"store", "forget"}
  <2>1. Effect(f, line) = f
    BY <1>3 DEF Effect
  <2>2. line.kind = "recall" => line.predicate \in Predicates /\ Result(f, line) = f[line.predicate]
    BY DEF Lines, Result
  <2>3. line.kind # "recall" => Result(f, line) \in {"error", "ok"}
    BY <1>3 DEF Result
  <2> QED BY <1>3, <2>1, <2>2, <2>3 DEF McpMemories, Results
<1> QED BY <1>1, <1>2, <1>3

-----------------------------------------------------------------------------
(* The inductive invariant                                                 *)
LEMMA McpInitInv == McpInit => McpInv
<1> SUFFICES ASSUME McpInit PROVE McpInv
  OBVIOUS
<1>1. facts \in McpMemories /\ stateFile = facts /\ loaded = facts /\ out = <<>> /\ sent = <<>> /\ next = 0
      /\ loop = "reading" /\ response = Nothing
  BY DEF McpInit, McpMemories
<1>2. AnsweredInOrder
  BY <1>1 DEF AnsweredInOrder, McpTypeOK
<1>3. MemoryOK
  BY <1>1 DEF MemoryOK, ValueAt, Writers
<1>4. MaxLines \in Nat
  BY McpBoundsAssumption
<1> QED BY <1>1, <1>2, <1>3, <1>4 DEF McpInv, PendingOK, RecallSeesLinesBefore

(* What the lines, the counter and the memory say is left alone.           *)
LEMMA ServerStops ==
  ASSUME McpInv, UNCHANGED <<sent, next, response, out, facts, loaded>>,
         loop' \in Ended, loop \notin Ended, stateFile' \in {stateFile, facts}, loop' = "saved" => stateFile' = facts
  PROVE  McpInv'
<1>1. AnsweredInOrder'
  BY DEF McpInv, AnsweredInOrder, HasResponse, McpTypeOK, Ended, Responses, Results, McpMemories
<1>2. \A p, n : ValueAt(p, n)' = ValueAt(p, n)
  BY DEF ValueAt, Writers
<1>3. MemoryOK'
  BY <1>2 DEF McpInv, MemoryOK
<1>4. RecallSeesLinesBefore'
  BY <1>2 DEF McpInv, RecallSeesLinesBefore
<1>5. PendingOK'
  BY DEF PendingOK, Ended
<1> QED BY <1>1, <1>3, <1>4, <1>5 DEF McpInv, Lines, Responses, Results

LEMMA SendKeeps ==
  ASSUME McpInv, NEW line \in Lines, Send(line)
  PROVE  McpInv'
<1>1. /\ sent' = Append(sent, line) /\ Len(sent) < MaxLines
      /\ UNCHANGED <<next, loop, response, out, facts, stateFile, loaded>>
  BY DEF Send
<1>2. /\ sent \in Seq(Lines) /\ next \in 0 .. Len(sent) /\ Len(sent) \in Nat /\ MaxLines \in Nat
      /\ \A i \in DOMAIN out : out[i].id \in 1 .. next
  BY McpBoundsAssumption DEF McpInv, AnsweredInOrder, McpTypeOK
<1>3. /\ sent' \in Seq(Lines) /\ Len(sent') = Len(sent) + 1
      /\ \A i \in 1 .. Len(sent) : sent'[i] = sent[i]
  BY <1>1, <1>2, AppendProperties
<1>4. \A i \in 1 .. next : sent'[i] = sent[i]
  BY <1>2, <1>3
<1>5. \A p : \A n \in 0 .. next + 1 : ValueAt(p, n)' = ValueAt(p, n)
  <2> TAKE p
  <2> TAKE n \in 0 .. next + 1
  <2>1. n \in Nat /\ \A i \in 1 .. n - 1 : i \in 1 .. next
    BY <1>2
  <2> QED BY <1>1, <1>4, <2>1, ValueOfPrefix
<1>6. AnsweredInOrder'
  BY <1>1, <1>2, <1>3, <1>4 DEF McpInv, AnsweredInOrder, HasResponse, McpTypeOK, Ended, Responses, Results, McpMemories
<1>7. MemoryOK'
  BY <1>1, <1>2, <1>5 DEF McpInv, MemoryOK
<1>8. RecallSeesLinesBefore'
  <2>1. \A i \in DOMAIN out : sent'[out[i].id] = sent[out[i].id] /\ out[i].id \in 0 .. next + 1
    BY <1>2, <1>4
  <2> QED BY <1>1, <1>5, <2>1 DEF McpInv, RecallSeesLinesBefore
<1>9. PendingOK'
  <2> SUFFICES ASSUME loop' = "writing" PROVE PendingOK'
    BY DEF PendingOK
  <2>1. next \in 1 .. next /\ next \in 0 .. next + 1
    BY <1>1, <1>2 DEF McpInv, PendingOK
  <2> QED BY <1>1, <1>4, <1>5, <2>1 DEF McpInv, PendingOK
<1>10. Len(sent') <= MaxLines
  BY <1>1, <1>2, <1>3
<1>11. out' \in Seq(Responses)
  BY <1>1 DEF McpInv, Responses, Results
<1>12. sent' \in Seq(Lines)'
  BY <1>3 DEF Lines
<1>13. out' \in Seq(Responses)'
  BY <1>11 DEF Responses, Results
<1> QED BY <1>1, <1>6, <1>7, <1>8, <1>9, <1>10, <1>12, <1>13 DEF McpInv

(* The early returns of handle_request leave the requests.                 *)
LEMMA AnsweredIsRequest ==
  ASSUME NEW line \in Lines
  PROVE  Answered(line) <=> Request(line)
BY DEF Answered, Request, Lines

LEMMA HandleKeeps ==
  ASSUME McpInv, Handle
  PROVE  McpInv'
<1>1. /\ loop = "reading" /\ next < Len(sent) /\ next' = next + 1 /\ facts' = Effect(facts, Line)
      /\ UNCHANGED <<sent, out, stateFile, loaded>>
      /\ IF Answered(Line)
         THEN loop' = "writing" /\ response' = [id |-> next + 1, result |-> Result(facts, Line)]
         ELSE UNCHANGED <<loop, response>>
  BY DEF Handle, HasLine, pipes
<1>2. /\ sent \in Seq(Lines) /\ next \in 0 .. Len(sent) /\ Len(sent) \in Nat /\ Len(sent) <= MaxLines
      /\ MaxLines \in Nat /\ facts \in McpMemories
      /\ \A i \in DOMAIN out : out[i].id \in 1 .. next
  BY McpBoundsAssumption DEF McpInv, AnsweredInOrder, McpTypeOK
<1>3. Line = sent[next + 1] /\ Line \in Lines /\ next + 1 \in 1 .. MaxLines
  BY <1>1, <1>2 DEF Line
<1>12. Answered(Line) <=> Request(Line)
  BY <1>3, AnsweredIsRequest
<1>4. /\ Effect(facts, Line) \in McpMemories
      /\ \A p \in Predicates :
           Effect(facts, Line)[p] =
             IF Line.kind \in {"store", "forget"} /\ Line.predicate = p
             THEN LeftBy(Line) ELSE facts[p]
      /\ Result(facts, Line) \in Results
      /\ Line.kind = "recall" =>
           Line.predicate \in Predicates /\ Result(facts, Line) = facts[Line.predicate]
  BY <1>2, <1>3, EffectOfLine
<1>5. \A p, n : ValueAt(p, n)' = ValueAt(p, n)
  BY <1>1 DEF ValueAt, Writers
<1>6. [id |-> next + 1, result |-> Result(facts, Line)] \in Responses
  BY <1>3, <1>4 DEF Responses
<1>7. AnsweredInOrder'
  <2>1. McpTypeOK'
    BY <1>1, <1>2, <1>4, <1>6 DEF McpInv, AnsweredInOrder, HasResponse, McpTypeOK, Ended, Responses, Results, McpMemories
  <2>2. \A n \in 1 .. next + 1 : n \in 1 .. next \/ n = next + 1
    BY <1>2
  <2>3. \A i \in DOMAIN out : out[i].id \in 1 .. next + 1 /\ Request(sent[out[i].id])
    BY <1>2 DEF McpInv, AnsweredInOrder
  <2>4. \A n \in 1 .. next + 1 :
          Request(sent[n]) /\ ~(\E i \in DOMAIN out : out[i].id = n)
            => n = next + 1 /\ loop' # "reading"
    BY <1>1, <1>3, <1>12, <2>2 DEF McpInv, AnsweredInOrder, HasResponse
  <2> QED BY <1>1, <2>1, <2>3, <2>4 DEF McpInv, AnsweredInOrder, HasResponse
<1>8. MemoryOK'
  <2> SUFFICES ASSUME NEW p \in Predicates PROVE facts'[p] = ValueAt(p, (next + 1) + 1)
    BY <1>1, <1>5 DEF MemoryOK
  <2>1. (next + 1) + 1 = next + 2
    BY <1>2
  <2>2. facts[p] = ValueAt(p, next + 1)
    BY DEF McpInv, MemoryOK
  <2> QED BY <1>1, <1>2, <1>3, <1>4, <2>1, <2>2, ValueAfterLine
<1>9. RecallSeesLinesBefore'
  BY <1>1, <1>5 DEF McpInv, RecallSeesLinesBefore
<1>10. PendingOK'
  <2> SUFFICES ASSUME loop' = "writing" PROVE PendingOK'
    BY DEF PendingOK
  <2>1. Answered(Line) /\ response' = [id |-> next + 1, result |-> Result(facts, Line)]
    BY <1>1
  <2>2. response'.id = next + 1 /\ response'.result = Result(facts, Line)
    BY <2>1
  <2>3. \A i \in DOMAIN out : out[i].id < next + 1
    BY <1>2
  <2>4. Line.kind = "recall" => response'.result = ValueAt(Line.predicate, next + 1)
    BY <1>4, <2>2 DEF McpInv, MemoryOK
  <2> QED BY <1>1, <1>2, <1>3, <1>5, <1>12, <2>1, <2>2, <2>3, <2>4 DEF PendingOK
<1>11. loop' # "saved"
  BY <1>1
<1> QED BY <1>1, <1>2, <1>7, <1>8, <1>9, <1>10, <1>11 DEF McpInv, Lines, Responses, Results

LEMMA WriteKeeps ==
  ASSUME McpInv, Write
  PROVE  McpInv'
<1>1. /\ loop = "writing" /\ out' = Append(out, response) /\ response' = Nothing /\ loop' = "reading"
      /\ UNCHANGED <<sent, next, facts, stateFile, loaded>>
  BY DEF Write, pipes
<1>2. /\ out \in Seq(Responses) /\ response \in Responses
      /\ response.id = next /\ next >= 1 /\ Request(sent[next])
      /\ \A i \in DOMAIN out : out[i].id < next
      /\ sent[next].kind = "recall" => response.result = ValueAt(sent[next].predicate, next)
      /\ next \in Nat
  BY <1>1 DEF McpInv, PendingOK, AnsweredInOrder, McpTypeOK
<1> DEFINE m == Len(out)
<1>3. /\ out' \in Seq(Responses) /\ m \in Nat /\ DOMAIN out = 1 .. m /\ DOMAIN out' = 1 .. m + 1
      /\ \A i \in 1 .. m : out'[i] = out[i]
      /\ out'[m + 1] = response
  BY <1>1, <1>2
<1> HIDE DEF m
<1>4. \A i \in DOMAIN out' : i \in DOMAIN out \/ i = m + 1
  BY <1>3
<1>5. McpTypeOK'
  BY <1>1, <1>3 DEF McpInv, AnsweredInOrder, HasResponse, McpTypeOK, Ended, Responses, Results, McpMemories
<1>6. \A i \in DOMAIN out' : out'[i].id \in 1 .. next /\ Request(sent[out'[i].id])
  BY <1>2, <1>3, <1>4 DEF McpInv, AnsweredInOrder
<1>7. \A i, j \in DOMAIN out' : i < j => out'[i].id < out'[j].id
  <2> SUFFICES ASSUME NEW i \in DOMAIN out', NEW j \in DOMAIN out', i < j
               PROVE  out'[i].id < out'[j].id
    OBVIOUS
  <2>1. i \in DOMAIN out
    BY <1>3
  <2>2. CASE j \in DOMAIN out
    BY <1>3, <2>1, <2>2 DEF McpInv, AnsweredInOrder
  <2>3. CASE j = m + 1
    BY <1>2, <1>3, <2>1, <2>3
  <2> QED BY <1>4, <2>2, <2>3
<1>8. \A n \in 1 .. next : Request(sent[n]) => \E i \in DOMAIN out' : out'[i].id = n
  <2> SUFFICES ASSUME NEW n \in 1 .. next, Request(sent[n])
               PROVE  \E i \in DOMAIN out' : out'[i].id = n
    OBVIOUS
  <2>1. CASE \E i \in DOMAIN out : out[i].id = n
    BY <1>3, <2>1
  <2>2. CASE n = next
    <3>1. m + 1 \in DOMAIN out' /\ out'[m + 1].id = n
      BY <1>2, <1>3, <2>2
    <3> QED BY <3>1
  <2> QED BY <2>1, <2>2 DEF McpInv, AnsweredInOrder, HasResponse
<1>9. AnsweredInOrder'
  BY <1>1, <1>5, <1>6, <1>7, <1>8 DEF AnsweredInOrder, HasResponse
<1>10. \A p, n : ValueAt(p, n)' = ValueAt(p, n)
  BY <1>1 DEF ValueAt, Writers
<1>11. RecallSeesLinesBefore'
  <2> SUFFICES ASSUME NEW i \in DOMAIN out', sent[out'[i].id].kind = "recall"
               PROVE  out'[i].result = ValueAt(sent[out'[i].id].predicate, out'[i].id)
    BY <1>1, <1>10 DEF RecallSeesLinesBefore
  <2>1. CASE i \in DOMAIN out
    BY <1>3, <2>1 DEF McpInv, RecallSeesLinesBefore
  <2>2. CASE i = m + 1
    BY <1>2, <1>3, <2>2
  <2> QED BY <1>4, <2>1, <2>2
<1>12. MemoryOK' /\ PendingOK'
  BY <1>1, <1>10 DEF McpInv, MemoryOK, PendingOK
<1> QED BY <1>1, <1>3, <1>9, <1>11, <1>12 DEF McpInv, Lines, Responses, Results

LEMMA RestartKeeps ==
  ASSUME McpInv, Restart
  PROVE  McpInv'
<1>1. /\ sent' = <<>> /\ next' = 0 /\ loop' = "reading" /\ response' = Nothing /\ out' = <<>>
      /\ facts' = stateFile /\ loaded' = stateFile /\ stateFile' = stateFile /\ stateFile \in McpMemories
  BY DEF Restart, Start, McpInv, AnsweredInOrder, McpTypeOK
<1>2. AnsweredInOrder'
  BY <1>1 DEF AnsweredInOrder, McpTypeOK, McpMemories
<1>3. MemoryOK'
  BY <1>1 DEF MemoryOK, ValueAt, Writers
<1>4. MaxLines \in Nat
  BY McpBoundsAssumption
<1> QED BY <1>1, <1>2, <1>3, <1>4 DEF McpInv, PendingOK, RecallSeesLinesBefore

LEMMA McpNextInv ==
  ASSUME McpInv, [McpNext]_mcpVars
  PROVE  McpInv'
<1>1. CASE UNCHANGED <<sent, next, loop, response, out, facts, stateFile, loaded>>
  <2>1. AnsweredInOrder'
    BY <1>1 DEF McpInv, AnsweredInOrder, HasResponse, McpTypeOK, Ended, Responses, Results, McpMemories
  <2>2. \A p, n : ValueAt(p, n)' = ValueAt(p, n)
    BY <1>1 DEF ValueAt, Writers
  <2>3. MemoryOK'
    BY <1>1, <2>2 DEF McpInv, MemoryOK
  <2>4. RecallSeesLinesBefore'
    BY <1>1, <2>2 DEF McpInv, RecallSeesLinesBefore
  <2>5. PendingOK'
    BY <1>1, <2>2 DEF McpInv, PendingOK
  <2> QED BY <1>1, <2>1, <2>3, <2>4, <2>5 DEF McpInv, Lines, Responses, Results
<1>2. CASE \E line \in Lines : Send(line)
  BY <1>2, SendKeeps
<1>3. CASE CloseStdin \/ CloseStdout
  BY <1>1, <1>3 DEF CloseStdin, CloseStdout
<1>4. CASE Handle
  BY <1>4, HandleKeeps
<1>5. CASE Write
  BY <1>5, WriteKeeps
<1>6. CASE WriteBroken \/ HandlePanics \/ Kill
  <2>1. /\ UNCHANGED <<sent, next, response, out, facts, loaded, stateFile>>
        /\ loop \notin Ended /\ loop' \in {"broken", "dead"}
    BY <1>6 DEF WriteBroken, HandlePanics, Kill, HasLine, pipes, Ended
  <2> QED BY <2>1, ServerStops DEF Ended
<1>7. CASE Shutdown
  <2>1. /\ UNCHANGED <<sent, next, response, out, facts, loaded>> /\ loop \notin Ended
        /\ \/ loop' = "saved" /\ stateFile' = facts
           \/ loop' = "unsaved" /\ stateFile' = stateFile
    BY <1>7 DEF Shutdown, LoopEnds, StateToSave, pipes, Ended
  <2> QED BY <2>1, ServerStops DEF Ended
<1>8. CASE Restart
  BY <1>8, RestartKeeps
<1> QED BY <1>1, <1>2, <1>3, <1>4, <1>5, <1>6, <1>7, <1>8 DEF McpNext, mcpVars

LEMMA AlwaysInv == McpSpec => []McpInv
<1>1. McpInv /\ [McpNext]_mcpVars => McpInv'
  BY McpNextInv
<1> QED BY <1>1, McpInitInv, PTL DEF McpSpec

(* Each request that the server has read gets one response, in the order   *)
(* of the lines, save the one whose response an end of the server cut off. *)
THEOREM AlwaysAnsweredInOrder == McpSpec => []AnsweredInOrder
<1>1. McpInv => AnsweredInOrder
  BY DEF McpInv
<1> QED BY <1>1, AlwaysInv, PTL

(* A recall returns what the lines before it left, however many lines the  *)
(* client had sent ahead.                                                  *)
THEOREM RecallAlwaysSeesLinesBefore == McpSpec => []RecallSeesLinesBefore
<1>1. McpInv => RecallSeesLinesBefore
  BY DEF McpInv
<1> QED BY <1>1, AlwaysInv, PTL

(* A session that was saved leaves the next one all of its changes.        *)
THEOREM SessionAlwaysSurvives == McpSpec => SessionSurvives
<1> DEFINE A == session' # session /\ loop = "saved" =>
                  \A p \in Predicates : facts'[p] = ValueAt(p, next + 1)
<1>1. McpInv /\ [McpNext]_mcpVars => [A]_mcpVars
  <2> SUFFICES ASSUME McpInv, McpNext, session' # session, loop = "saved"
               PROVE  \A p \in Predicates : facts'[p] = ValueAt(p, next + 1)
    OBVIOUS
  <2>1. Restart
    BY DEF McpNext, Send, CloseStdin, CloseStdout, Handle, Write, WriteBroken, HandlePanics, Shutdown, Kill
  <2>2. facts' = facts
    BY <2>1 DEF Restart, Start, McpInv
  <2> QED BY <2>2 DEF McpInv, MemoryOK
<1> QED BY <1>1, AlwaysInv, PTL DEF McpSpec, SessionSurvives

=============================================================================
