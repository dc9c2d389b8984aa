---------------------------- MODULE MemoryService ----------------------------
(***************************************************************************)
(* MemoryService (src/src/service.rs): the memories of many users, and the *)
(* directory tree they are saved to file by file (src/src/persistence.rs)  *)
(* and loaded from as a whole.                                             *)
(*                                                                         *)
(* A user's memory is kept at the level of FactBank: what each key holds.  *)
(* A key carries the id the PersonalMemory has, which after a load is the  *)
(* id in personal.json.  The sealed tree has the same files, encrypted,    *)
(* under other names; keys are modelled in FfiEngine, and audit.json, which *)
(* only the plaintext tree has, in AuditTrail.                             *)
(***************************************************************************)
EXTENDS Naturals, Sequences, SequencesExt, FiniteSets, Functions

CONSTANTS
  Uids,         \* user ids
  Predicates,
  Values,
  SafeId,       \* safe_id: the directory of a user id
  NotFound,     \* a key that holds nothing
  NoFile,       \* a file that was never written
  Torn,         \* a file cut short by a crash or a failed write
  MaxCalls      \* bound of the model: calls that change a memory

ASSUME SafeIdAssumption == DOMAIN SafeId = Uids

VARIABLES
  running,    \* the process is up
  sealed,     \* save_state_sealed and load_state_sealed are in use
  users,      \* MemoryService.users: user id -> PersonalMemory
  disk,       \* service.json, and adaptive.json and personal.json per directory
  todo,       \* the writes left in the save that is running
  saved,      \* history: users when the last save completed
  versions,   \* history: what each user held when some save began
  intact,     \* history: nothing was written since the last save completed
  calls       \* calls so far

vars == <<running, sealed, users, disk, todo, saved, versions, intact, calls>>

Dirs == Range(SafeId)
FactKeys == Uids \X Predicates
NewUser(uid) ==
  [userId |-> uid, facts |-> [k \in FactKeys |-> NotFound], schema |-> {}]

(* What the three kinds of file hold when they are written in full         *)
ServiceFiles == [ids : SUBSET Uids]
AdaptiveFiles == [facts : [FactKeys -> Values \cup {NotFound}]]
PersonalFiles == [userId : Uids, schema : SUBSET (Predicates \X Values)]

ASSUME FileAssumption ==
  /\ NoFile # Torn
  /\ {NoFile, Torn} \cap (ServiceFiles \cup AdaptiveFiles \cup PersonalFiles) = {}

-----------------------------------------------------------------------------
(* Seeded faults.                                                          *)
(* The list of users is written before their files.                        *)
ServiceFirst(order) ==
  <<[file |-> "service"]>> \o
  FlattenSeq([i \in DOMAIN order |->
    <<[file |-> "adaptive", uid |-> order[i]],
      [file |-> "personal", uid |-> order[i]]>>])
(* The schema is not restored.                                             *)
LoadedUnderUid(uid, dir) ==
  [userId |-> uid, facts |-> dir.adaptive.facts, schema |-> {}]
(* Facts are filed without the prefix of their user.                       *)
StoredWithoutPrefix(pm, p, v) ==
  [pm EXCEPT !.facts = [k \in FactKeys |-> IF k[2] = p THEN v ELSE @[k]],
             !.schema = @ \cup {<<p, v>>}]

-----------------------------------------------------------------------------
(* user: get or create.  Every call by user id goes through it, the ones   *)
(* that only look something up included.                                   *)
WithUser(us, uid) ==
  IF uid \in DOMAIN us THEN us
  ELSE [u \in DOMAIN us \cup {uid} |-> IF u = uid THEN NewUser(uid) ELSE us[u]]

(* remove_user                                                             *)
Removed(us, uid) == Restrict(us, DOMAIN us \ {uid})

(* PersonalMemory::store_fact, under the key of the memory's own id        *)
StoredFor(pm, p, v) ==
  [pm EXCEPT !.facts[<<pm.userId, p>>] = v, !.schema = @ \cup {<<p, v>>}]

ForgottenFor(pm, p) == [pm EXCEPT !.facts[<<pm.userId, p>>] = NotFound]

Recalled(us, uid, p) ==
  IF uid \in DOMAIN us THEN us[uid].facts[<<us[uid].userId, p>>] ELSE NotFound

(* save_state: the files of each user, service.json last.                  *)
Writes(order) ==
  FlattenSeq([i \in DOMAIN order |->
    <<[file |-> "adaptive", uid |-> order[i]],
      [file |-> "personal", uid |-> order[i]]>>])
  \o <<[file |-> "service"]>>

Written(us, d, w) ==
  CASE w.file = "service" ->
         [d EXCEPT !.service = [ids |-> DOMAIN us]]
    [] w.file = "adaptive" ->
         [d EXCEPT !.dirs[SafeId[w.uid]].adaptive = [facts |-> us[w.uid].facts]]
    [] w.file = "personal" ->
         [d EXCEPT !.dirs[SafeId[w.uid]].personal =
                     [userId |-> us[w.uid].userId, schema |-> us[w.uid].schema]]

Damaged(d, w) ==
  CASE w.file = "service"  -> [d EXCEPT !.service = Torn]
    [] w.file = "adaptive" -> [d EXCEPT !.dirs[SafeId[w.uid]].adaptive = Torn]
    [] w.file = "personal" -> [d EXCEPT !.dirs[SafeId[w.uid]].personal = Torn]

(* load_state, load_state_sealed: a listed user without a directory, or    *)
(* without a personal.json.enc, is skipped.                                *)
Skipped(dir) ==
  /\ dir.personal = NoFile
  /\ sealed \/ dir.adaptive = NoFile

ListedIds(d) ==
  IF d.service = NoFile THEN {}
  ELSE {uid \in d.service.ids : ~Skipped(d.dirs[SafeId[uid]])}

(* One damaged file of one user makes the load of the service fail.        *)
Loads(d) ==
  /\ d.service # Torn
  /\ \A uid \in ListedIds(d) :
       /\ d.dirs[SafeId[uid]].adaptive \notin {NoFile, Torn}
       /\ d.dirs[SafeId[uid]].personal \notin {NoFile, Torn}

LoadedUser(uid, dir) ==
  [userId |-> dir.personal.userId, facts |-> dir.adaptive.facts,
   schema |-> dir.personal.schema]

Loaded(d) == [uid \in ListedIds(d) |-> LoadedUser(uid, d.dirs[SafeId[uid]])]

-----------------------------------------------------------------------------
NoUsers == <<>>

Init ==
  /\ running = TRUE
  /\ sealed \in BOOLEAN
  /\ users = NoUsers
  /\ disk = [service |-> NoFile,
             dirs |-> [d \in Dirs |-> [adaptive |-> NoFile, personal |-> NoFile]]]
  /\ todo = <<>>
  /\ saved = NoUsers
  /\ versions = {}
  /\ intact = TRUE
  /\ calls = 0

(* A call holds the lock of the service, and so does a save.               *)
Called ==
  /\ running
  /\ todo = <<>>
  /\ calls < MaxCalls
  /\ calls' = calls + 1
  /\ UNCHANGED <<running, sealed, disk, todo, saved, versions, intact>>

StoreFact(uid, p, v) ==
  /\ Called
  /\ users' = [WithUser(users, uid) EXCEPT ![uid] = StoredFor(@, p, v)]

(* A recall, an export, or a store that the vocab refuses.                 *)
Touch(uid) ==
  /\ uid \notin DOMAIN users
  /\ Called
  /\ users' = WithUser(users, uid)

ForgetFact(uid, p) ==
  /\ Recalled(users, uid, p) # NotFound
  /\ Called
  /\ users' = [users EXCEPT ![uid] = ForgottenFor(@, p)]

RemoveUser(uid) ==
  /\ uid \in DOMAIN users
  /\ Called
  /\ users' = Removed(users, uid)

(* The order of the users is that of a HashMap.                            *)
BeginSave ==
  /\ running
  /\ todo = <<>>
  /\ \E order \in SetToSeqs(DOMAIN users) : todo' = Writes(order)
  /\ versions' = versions \cup {<<uid, users[uid].facts>> : uid \in DOMAIN users}
  /\ UNCHANGED <<running, sealed, users, disk, saved, intact, calls>>

WriteFile ==
  /\ running
  /\ todo # <<>>
  /\ disk' = Written(users, disk, Head(todo))
  /\ todo' = Tail(todo)
  /\ saved' = IF Tail(todo) = <<>> THEN users ELSE saved
  /\ intact' = (Tail(todo) = <<>>)
  /\ UNCHANGED <<running, sealed, users, versions, calls>>

(* fs::write truncates the file before it fails; save_state returns and    *)
(* leaves what it has written.                                             *)
WriteFails ==
  /\ running
  /\ todo # <<>>
  /\ disk' = Damaged(disk, Head(todo))
  /\ todo' = <<>>
  /\ intact' = FALSE
  /\ UNCHANGED <<running, sealed, users, saved, versions, calls>>

Crash ==
  /\ running
  /\ running' = FALSE
  /\ todo' = <<>>
  /\ UNCHANGED <<sealed, users, disk, saved, versions, intact, calls>>

CrashInWrite ==
  /\ running
  /\ todo # <<>>
  /\ disk' = Damaged(disk, Head(todo))
  /\ running' = FALSE
  /\ todo' = <<>>
  /\ intact' = FALSE
  /\ UNCHANGED <<sealed, users, saved, versions, calls>>

(* build_default_service, load_or_create(_sealed): load, or a new service  *)
(* when there is no service.json                                           *)
Load ==
  /\ ~running
  /\ Loads(disk)
  /\ users' = Loaded(disk)
  /\ running' = TRUE
  /\ UNCHANGED <<sealed, disk, todo, saved, versions, intact, calls>>

Next ==
  \/ \E uid \in Uids, p \in Predicates, v \in Values : StoreFact(uid, p, v)
  \/ \E uid \in Uids : Touch(uid)
  \/ \E uid \in Uids, p \in Predicates : ForgetFact(uid, p)
  \/ \E uid \in Uids : RemoveUser(uid)
  \/ BeginSave
  \/ WriteFile
  \/ WriteFails
  \/ Crash
  \/ CrashInWrite
  \/ Load

Spec == Init /\ [][Next]_vars

-----------------------------------------------------------------------------
Memories ==
  [userId : Uids,
   facts  : [FactKeys -> Values \cup {NotFound}],
   schema : SUBSET (Predicates \X Values)]

(* A user's entry is a memory that files every fact under its own id.      *)
TypeOK ==
  /\ DOMAIN users \subseteq Uids
  /\ \A uid \in DOMAIN users :
       /\ users[uid] \in Memories
       /\ \A k \in FactKeys : users[uid].facts[k] # NotFound => k[1] = uid

(* A completed save that nothing was written over brings back every user   *)
(* with all that was held, and nobody else.                                *)
LoadRestoresSaved ==
  [][ ~running /\ running' /\ intact => users' = saved ]_vars

(* A file that a load reads was cut short.                                 *)
ReadsTorn(d) ==
  \/ d.service = Torn
  \/ \E uid \in ListedIds(d) :
       Torn \in {d.dirs[SafeId[uid]].adaptive, d.dirs[SafeId[uid]].personal}

(* What does not load has such a file, and a save has been cut short since *)
(* the last one that completed.                                            *)
OpensUnlessCut == Loads(disk) \/ (ReadsTorn(disk) /\ ~intact)

(* Whatever save was interrupted, and wherever: the users that come back   *)
(* are those of the last save that completed, so that a user removed       *)
(* before it does not come back and one created after it is not half       *)
(* there; and a save may be torn apart between users but not within the    *)
(* facts of one: what a user holds the user held when some save began.     *)
(* One file that does not load keeps all users out.  Only one that was cut *)
(* short does, never a save that stopped between two files, and a save     *)
(* that completes leaves none.                                             *)
LoadsWholeUsers ==
  [][ /\ OpensUnlessCut'
      /\ ~running /\ running' =>
           /\ DOMAIN users' = DOMAIN saved
           /\ \A uid \in DOMAIN users' : <<uid, users'[uid].facts>> \in versions ]_vars

-----------------------------------------------------------------------------
(* "load the state previously written by save at path" (src/src/ffi.rs:103):*)
(* once a save has completed, the engine can always be opened again.       *)
SavedStateOpens == ~running => Loads(disk)

(* "GDPR Article 17 - drop a user entirely" (src/src/service.rs:73): when  *)
(* the next save completes without a user the last one had, no file holds  *)
(* a fact of that user.                                                    *)
RemovedFromDisk ==
  [][ \A uid \in DOMAIN saved \ DOMAIN saved', d \in Dirs :
        /\ disk'.dirs[d].adaptive \notin {NoFile, Torn} =>
             \A p \in Predicates : disk'.dirs[d].adaptive.facts[<<uid, p>>] = NotFound
        /\ disk'.dirs[d].personal \notin {NoFile, Torn} =>
             disk'.dirs[d].personal.userId # uid ]_vars

(* "Each user becomes a subdirectory" (src/src/service.rs:8): after a      *)
(* completed save and a load each user recalls their own facts.            *)
UsersKeptApart ==
  [][ ~running /\ running' /\ intact =>
        \A uid \in DOMAIN saved, p \in Predicates :
          Recalled(users', uid, p) = Recalled(saved, uid, p) ]_vars
=============================================================================
