--------------------------- MODULE Service_proofs ----------------------------
(***************************************************************************)
(* MemoryService, AuditTrail and Extraction: what a load of the service    *)
(* brings back, whatever save was cut short before it; what the ring, the  *)
(* counter, the bank and the two files of a user say of each other through *)
(* evictions, failed calls, crashes between and inside the files, and      *)
(* restarts; what the counters of an extractor add up to, and that it      *)
(* returns what was replied or matched.                                    *)
(***************************************************************************)
EXTENDS MemoryService, AuditTrail, Extraction, SeqLemmas, FiniteSetTheorems

-----------------------------------------------------------------------------
(* MemoryService                                                           *)

(* A memory that files every fact under the id uid, and that has that id.  *)
Own(uid, pm) ==
  /\ pm.userId = uid
  /\ \A k \in FactKeys : pm.facts[k] # NotFound => k[1] = uid

(* A map of finitely many users, each with a memory of their own           *)
UsersOK(us) ==
  /\ DOMAIN us \subseteq Uids /\ IsFiniteSet(DOMAIN us)
  /\ us \in [DOMAIN us -> Memories]
  /\ \A uid \in DOMAIN us : Own(uid, us[uid])

Broken == {NoFile, Torn}
Disks ==
  [service : ServiceFiles \cup Broken,
   dirs : [Dirs -> [adaptive : AdaptiveFiles \cup Broken,
                    personal : PersonalFiles \cup Broken]]]

(* The two files of a user's memory                                        *)
AdaptiveOf(us, uid) == [facts |-> us[uid].facts]
PersonalOf(us, uid) == [userId |-> us[uid].userId, schema |-> us[uid].schema]

(* What the directory of a user holds is the user's own, from some save.   *)
DirOK(uid, dir) ==
  /\ dir.adaptive \notin Broken =>
       /\ <<uid, dir.adaptive.facts>> \in versions
       /\ \A k \in FactKeys : dir.adaptive.facts[k] # NotFound => k[1] = uid
  /\ dir.personal \notin Broken => dir.personal.userId = uid

DirsOK == \A uid \in Uids : DirOK(uid, disk.dirs[SafeId[uid]])

(* The list of users, when it can be read, is that of the last save that   *)
(* completed, and both files of each of them are there in some form.       *)
ListOK ==
  /\ disk.service = NoFile => saved = NoUsers
  /\ disk.service \notin Broken => disk.service.ids = DOMAIN saved
  /\ \A uid \in DOMAIN saved :
       /\ disk.dirs[SafeId[uid]].adaptive # NoFile
       /\ disk.dirs[SafeId[uid]].personal # NoFile

(* Nothing was written since the last save completed.                      *)
IntactOK ==
  intact /\ disk.service # NoFile =>
    /\ disk.service # Torn
    /\ \A uid \in DOMAIN saved :
         /\ disk.dirs[SafeId[uid]].adaptive = AdaptiveOf(saved, uid)
         /\ disk.dirs[SafeId[uid]].personal = PersonalOf(saved, uid)

ServiceWrite == [file |-> "service"]
UserWrite(file, uid) == [file |-> file, uid |-> uid]
UserWrites == [file : {"adaptive", "personal"}, uid : DOMAIN users]

(* In a save each file of each user is written or is still to be, and      *)
(* service.json comes last.                                                *)
SaveOK ==
  todo # <<>> =>
    /\ running
    /\ todo[Len(todo)] = ServiceWrite
    /\ \A i \in 1 .. Len(todo) - 1 : todo[i] \in UserWrites
    /\ \A uid \in DOMAIN users :
         /\ <<uid, users[uid].facts>> \in versions
         /\ \/ \E i \in 1 .. Len(todo) : todo[i] = UserWrite("adaptive", uid)
            \/ disk.dirs[SafeId[uid]].adaptive = AdaptiveOf(users, uid)
         /\ \/ \E i \in 1 .. Len(todo) : todo[i] = UserWrite("personal", uid)
            \/ disk.dirs[SafeId[uid]].personal = PersonalOf(users, uid)

IInv ==
  /\ UsersOK(users) /\ UsersOK(saved)
  /\ running \in BOOLEAN /\ intact \in BOOLEAN
  /\ disk \in Disks
  /\ todo \in Seq([file : {"adaptive", "personal"}, uid : Uids] \cup {ServiceWrite})
  /\ DirsOK /\ ListOK /\ IntactOK /\ SaveOK


-----------------------------------------------------------------------------
(* The calls on the map of users                                           *)

(* A new memory is its user's own.                                         *)
LEMMA NewUserOwn ==
  ASSUME NEW uid \in Uids
  PROVE  NewUser(uid) \in Memories /\ Own(uid, NewUser(uid))
BY DEF NewUser, Memories, Own

(* Get or create adds a user at most, and changes no other.                *)
LEMMA WithUserOK ==
  ASSUME NEW us, NEW uid \in Uids, UsersOK(us)
  PROVE  UsersOK(WithUser(us, uid)) /\ uid \in DOMAIN WithUser(us, uid)
<1> DEFINE w == WithUser(us, uid)
<1>1. CASE uid \in DOMAIN us
  BY <1>1 DEF WithUser
<1>2. CASE uid \notin DOMAIN us
  <2>1. w = [u \in DOMAIN us \cup {uid} |-> IF u = uid THEN NewUser(uid) ELSE us[u]]
    BY <1>2 DEF WithUser
  <2>2. DOMAIN w = DOMAIN us \cup {uid} /\ w[uid] = NewUser(uid)
    BY <2>1
  <2>3. \A u \in DOMAIN us : w[u] = us[u]
    BY <1>2, <2>1
  <2>4. w \in [DOMAIN w -> Memories]
    BY <2>1, <2>2, NewUserOwn DEF UsersOK
  <2>5. IsFiniteSet(DOMAIN w)
    BY <2>2, FS_AddElement DEF UsersOK
  <2>6. \A u \in DOMAIN w : Own(u, w[u])
    BY <2>2, <2>3, NewUserOwn DEF UsersOK
  <2> HIDE DEF w
  <2>7. UsersOK(w) /\ uid \in DOMAIN w
    BY <2>2, <2>4, <2>5, <2>6 DEF UsersOK
  <2> QED BY <2>7 DEF w
<1> QED BY <1>1, <1>2

(* Replacing one user's memory by another of the same user.                *)
LEMMA ReplaceOK ==
  ASSUME NEW us, NEW uid \in DOMAIN us, NEW pm \in Memories, UsersOK(us), Own(uid, pm)
  PROVE  UsersOK([us EXCEPT ![uid] = pm])
<1> DEFINE w == [us EXCEPT ![uid] = pm]
<1>1. us \in [DOMAIN us -> Memories]
  BY DEF UsersOK
<1>2. DOMAIN w = DOMAIN us /\ w \in [DOMAIN w -> Memories]
  BY <1>1
<1>3. w[uid] = pm /\ \A u \in DOMAIN us : u # uid => w[u] = us[u]
  BY <1>1
<1> HIDE DEF w
<1>4. \A u \in DOMAIN w : Own(u, w[u])
  BY <1>2, <1>3 DEF UsersOK
<1>5. UsersOK(w)
  BY <1>2, <1>4 DEF UsersOK
<1> QED BY <1>5 DEF w

(* To store and to forget a fact keeps a memory its user's own.            *)
LEMMA StoredOwn ==
  ASSUME NEW uid \in Uids, NEW pm \in Memories, Own(uid, pm), NEW p \in Predicates, NEW v \in Values
  PROVE  StoredFor(pm, p, v) \in Memories /\ Own(uid, StoredFor(pm, p, v))
<1>1. <<pm.userId, p>> \in FactKeys /\ <<pm.userId, p>>[1] = uid
  BY DEF FactKeys, Memories, Own
<1>2. StoredFor(pm, p, v) =
        [userId |-> pm.userId, facts |-> [pm.facts EXCEPT ![<<pm.userId, p>>] = v],
         schema |-> pm.schema \cup {<<p, v>>}]
  <2> DEFINE f == [pm.facts EXCEPT ![<<pm.userId, p>>] = v]
  <2>1. pm = [userId |-> pm.userId, facts |-> pm.facts, schema |-> pm.schema]
    BY DEF Memories
  <2>2. [pm EXCEPT !.facts = f] = [userId |-> pm.userId, facts |-> f, schema |-> pm.schema]
    <3> HIDE DEF f
    <3> QED BY <2>1
  <2>3. StoredFor(pm, p, v) = [[pm EXCEPT !.facts = f] EXCEPT !.schema = pm.schema \cup {<<p, v>>}]
    BY <2>1, <2>2 DEF StoredFor
  <2> HIDE DEF f
  <2>4. StoredFor(pm, p, v) = [userId |-> pm.userId, facts |-> f, schema |-> pm.schema \cup {<<p, v>>}]
    BY <2>2, <2>3
  <2> QED BY <2>4 DEF f
<1>3. StoredFor(pm, p, v) \in Memories
  BY <1>1, <1>2 DEF Memories
<1>4. \A k \in FactKeys : k # <<pm.userId, p>> => StoredFor(pm, p, v).facts[k] = pm.facts[k]
  BY <1>2 DEF Memories
<1>5. StoredFor(pm, p, v).userId = uid
  BY <1>2 DEF Own
<1> QED BY <1>1, <1>3, <1>4, <1>5 DEF Own

LEMMA ForgottenOwn ==
  ASSUME NEW uid \in Uids, NEW pm \in Memories, Own(uid, pm), NEW p \in Predicates
  PROVE  ForgottenFor(pm, p) \in Memories /\ Own(uid, ForgottenFor(pm, p))
<1>1. <<pm.userId, p>> \in FactKeys
  BY DEF FactKeys, Memories
<1>2. ForgottenFor(pm, p) =
        [userId |-> pm.userId, facts |-> [pm.facts EXCEPT ![<<pm.userId, p>>] = NotFound],
         schema |-> pm.schema]
  BY DEF ForgottenFor, Memories
<1>3. ForgottenFor(pm, p) \in Memories
  BY <1>1, <1>2 DEF Memories
<1>4. \A k \in FactKeys :
        \/ ForgottenFor(pm, p).facts[k] = NotFound
        \/ ForgottenFor(pm, p).facts[k] = pm.facts[k]
  BY <1>2 DEF Memories
<1>5. ForgottenFor(pm, p).userId = uid
  BY <1>2 DEF Own
<1> QED BY <1>3, <1>4, <1>5 DEF Own

(* To remove a user leaves the others as they were.                        *)
LEMMA RemovedOK ==
  ASSUME NEW us, NEW uid, UsersOK(us)
  PROVE  UsersOK(Removed(us, uid))
<1> DEFINE w == Removed(us, uid)
<1>1. w = [u \in DOMAIN us \ {uid} |-> us[u]]
  BY DEF Removed, Restrict
<1>2. DOMAIN w = DOMAIN us \ {uid} /\ \A u \in DOMAIN w : w[u] = us[u]
  BY <1>1
<1>3. w \in [DOMAIN w -> Memories]
  BY <1>1 DEF UsersOK
<1>4. IsFiniteSet(DOMAIN w)
  BY <1>2, FS_RemoveElement DEF UsersOK
<1> HIDE DEF w
<1>5. UsersOK(w)
  BY <1>2, <1>3, <1>4 DEF UsersOK
<1> QED BY <1>5 DEF w

-----------------------------------------------------------------------------
(* The writes of a save                                                    *)

(* The order of the users holds every one of them.                         *)
LEMMA OrderCovers ==
  ASSUME NEW D, IsFiniteSet(D), NEW order \in SetToSeqs(D)
  PROVE  /\ order \in Seq(D)
         /\ \A d \in D : \E i \in DOMAIN order : order[i] = d
<1> DEFINE n == Cardinality(D)
<1>1. n \in Nat
  BY FS_CardinalityType
<1>2. order \in [1 .. n -> D] /\ \A i, j \in 1 .. n : i # j => order[i] # order[j]
  BY DEF SetToSeqs
<1>3. order \in Injection(1 .. n, D)
  BY <1>2 DEF Injection, IsInjective
<1>4. Cardinality(1 .. n) = n
  BY <1>1, FS_Interval
<1> HIDE DEF n
<1>5. order \in Surjection(1 .. n, D)
  BY <1>3, <1>4, FS_Injection DEF n
<1> QED BY <1>1, <1>2, <1>5 DEF Surjection

(* The files of each user, service.json last                               *)
LEMMA WritesShape ==
  ASSUME NEW D \in SUBSET Uids, IsFiniteSet(D), NEW order \in SetToSeqs(D)
  PROVE  LET ws == Writes(order)
         IN  /\ ws \in Seq([file : {"adaptive", "personal"}, uid : D] \cup {ServiceWrite})
             /\ ws # <<>> /\ ws[Len(ws)] = ServiceWrite
             /\ \A i \in 1 .. Len(ws) - 1 : ws[i] \in [file : {"adaptive", "personal"}, uid : D]
             /\ \A uid \in D :
                  /\ \E i \in 1 .. Len(ws) : ws[i] = UserWrite("adaptive", uid)
                  /\ \E i \in 1 .. Len(ws) : ws[i] = UserWrite("personal", uid)
<1> DEFINE T  == [file : {"adaptive", "personal"}, uid : D]
           a(i) == UserWrite("adaptive", order[i])
           b(i) == UserWrite("personal", order[i])
           ss == [i \in DOMAIN order |-> <<a(i), b(i)>>]
           f  == FlattenSeq(ss)
<1>1. order \in Seq(D) /\ \A d \in D : \E i \in DOMAIN order : order[i] = d
  BY OrderCovers
<1>2. \A i \in DOMAIN order : a(i) \in T /\ b(i) \in T /\ a(i) # b(i)
  BY <1>1 DEF UserWrite
<1>3. ss \in Seq(Seq(T)) /\ DOMAIN ss = DOMAIN order
  <2>1. \A i \in DOMAIN order : <<a(i), b(i)>> \in Seq(T)
    BY <1>2
  <2>2. order \in [1 .. Len(order) -> D] /\ Len(order) \in Nat
    BY <1>1
  <2> HIDE DEF a, b, T
  <2>3. ss \in [1 .. Len(order) -> Seq(T)]
    BY <2>1, <2>2
  <2> QED BY <2>2, <2>3
<1>4. \A i \in DOMAIN ss : IsInjective(ss[i]) /\ Range(ss[i]) = {a(i), b(i)}
  <2> TAKE i \in DOMAIN ss
  <2>1. ss[i] = <<a(i), b(i)>> /\ a(i) # b(i)
    BY <1>2, <1>3
  <2> HIDE DEF a, b, ss
  <2> QED BY <2>1 DEF IsInjective, Range
<1>5. \A i, j \in DOMAIN ss : i # j => Range(ss[i]) \cap Range(ss[j]) = {}
  <2>1. \A i, j \in DOMAIN order : i # j => order[i] # order[j]
    BY DEF SetToSeqs
  <2>2. \A i, j \in DOMAIN order : i # j => {a(i), b(i)} \cap {a(j), b(j)} = {}
    BY <2>1 DEF UserWrite
  <2> HIDE DEF a, b, ss
  <2> QED BY <1>3, <1>4, <2>2
<1> HIDE DEF ss, T
<1>6. /\ f \in Seq(T)
      /\ \A x : x \in Range(f) <=> \E i \in DOMAIN ss : x \in Range(ss[i])
  BY <1>3, <1>4, <1>5, FlattenType, FlattenRange
<1>7. Writes(order) = f \o <<ServiceWrite>>
  BY DEF Writes, ss, UserWrite, ServiceWrite
<1>8. Writes(order) = Append(f, ServiceWrite)
  <2> HIDE DEF f
  <2> DEFINE U == T \cup {ServiceWrite}
  <2>1. f \in Seq(U) /\ ServiceWrite \in U
    BY <1>6
  <2> HIDE DEF U
  <2> QED BY <1>7, <2>1, AppendIsConcat
<1> HIDE DEF f
<1> DEFINE ws == Append(f, ServiceWrite)
           n  == Len(f)
<1>9. /\ ws \in Seq(T \cup {ServiceWrite}) /\ n \in Nat /\ Len(ws) = n + 1
      /\ ws[n + 1] = ServiceWrite
      /\ \A i \in 1 .. n : ws[i] = f[i] /\ f[i] \in T
  BY <1>6
<1> HIDE DEF ws, n, a, b
<1>10. ASSUME NEW uid \in D
       PROVE  /\ \E i \in 1 .. Len(ws) : ws[i] = UserWrite("adaptive", uid)
              /\ \E i \in 1 .. Len(ws) : ws[i] = UserWrite("personal", uid)
  <2>1. PICK j \in DOMAIN order : order[j] = uid
    BY <1>1
  <2>2. a(j) = UserWrite("adaptive", uid) /\ b(j) = UserWrite("personal", uid)
    BY <2>1 DEF a, b
  <2>3. a(j) \in Range(f) /\ b(j) \in Range(f)
    BY <1>3, <1>4, <1>6
  <2>4. (\E i \in 1 .. n : f[i] = a(j)) /\ (\E i \in 1 .. n : f[i] = b(j))
    BY <1>6, <2>3 DEF Range, n
  <2> QED BY <1>9, <2>2, <2>4
<1>11. /\ ws \in Seq(T \cup {ServiceWrite})
       /\ ws # <<>> /\ ws[Len(ws)] = ServiceWrite
       /\ \A i \in 1 .. Len(ws) - 1 : ws[i] \in T
  BY <1>9
<1> QED BY <1>8, <1>10, <1>11 DEF ws, T

-----------------------------------------------------------------------------
(* The files                                                               *)

(* What is written in full is neither absent nor torn.                     *)
LEMMA WholeFiles ==
  /\ NoFile # Torn
  /\ \A f \in ServiceFiles \cup AdaptiveFiles \cup PersonalFiles : f \notin Broken
BY FileAssumption DEF Broken

LEMMA OwnFiles ==
  ASSUME NEW us, UsersOK(us), NEW uid \in DOMAIN us
  PROVE  /\ uid \in Uids
         /\ AdaptiveOf(us, uid) \in AdaptiveFiles /\ AdaptiveOf(us, uid) \notin Broken
         /\ PersonalOf(us, uid) \in PersonalFiles /\ PersonalOf(us, uid) \notin Broken
<1>1. uid \in Uids /\ us[uid] \in Memories
  BY DEF UsersOK
<1>2. AdaptiveOf(us, uid) \in AdaptiveFiles /\ PersonalOf(us, uid) \in PersonalFiles
  BY <1>1 DEF Memories, AdaptiveOf, PersonalOf, AdaptiveFiles, PersonalFiles
<1> QED BY <1>1, <1>2, WholeFiles

(* With a directory for each user, a file of one user is no other's.       *)
LEMMA SetAdaptive ==
  ASSUME IsInjective(SafeId), NEW d \in Disks, NEW uid \in Uids,
         NEW x \in AdaptiveFiles \cup Broken
  PROVE  LET e == [d EXCEPT !.dirs[SafeId[uid]].adaptive = x]
         IN  /\ e \in Disks /\ e.service = d.service
             /\ e.dirs[SafeId[uid]].adaptive = x
             /\ e.dirs[SafeId[uid]].personal = d.dirs[SafeId[uid]].personal
             /\ \A u \in Uids : u # uid => e.dirs[SafeId[u]] = d.dirs[SafeId[u]]
<1> DEFINE r == [d.dirs[SafeId[uid]] EXCEPT !.adaptive = x]
           e == [d EXCEPT !.dirs = [d.dirs EXCEPT ![SafeId[uid]] = r]]
           P == [adaptive : AdaptiveFiles \cup Broken, personal : PersonalFiles \cup Broken]
<1>1. /\ \A u \in Uids : SafeId[u] \in Dirs
      /\ \A u \in Uids : u # uid => SafeId[u] # SafeId[uid]
  BY SafeIdAssumption DEF Dirs, Range, IsInjective
<1>2. /\ d.service \in ServiceFiles \cup Broken /\ d.dirs \in [Dirs -> P]
      /\ d = [service |-> d.service, dirs |-> d.dirs]
  BY DEF Disks
<1>3. d.dirs[SafeId[uid]] \in P
  BY <1>1, <1>2
<1>4. r \in P /\ r.adaptive = x /\ r.personal = d.dirs[SafeId[uid]].personal
  BY <1>3
<1> HIDE DEF r, P
<1>5. e = [service |-> d.service, dirs |-> [d.dirs EXCEPT ![SafeId[uid]] = r]]
  <2> DEFINE g == [d.dirs EXCEPT ![SafeId[uid]] = r]
  <2> HIDE DEF g
  <2> QED BY <1>2 DEF g
<1>6. [d.dirs EXCEPT ![SafeId[uid]] = r] \in [Dirs -> P]
  BY <1>1, <1>2, <1>4
<1>7. e \in Disks
  BY <1>2, <1>5, <1>6 DEF Disks, P
<1>8. e.service = d.service /\ e.dirs[SafeId[uid]] = r
  BY <1>1, <1>2, <1>5
<1>9. \A u \in Uids : u # uid => e.dirs[SafeId[u]] = d.dirs[SafeId[u]]
  BY <1>1, <1>2, <1>5
<1> QED BY <1>4, <1>7, <1>8, <1>9 DEF r

LEMMA SetPersonal ==
  ASSUME IsInjective(SafeId), NEW d \in Disks, NEW uid \in Uids,
         NEW x \in PersonalFiles \cup Broken
  PROVE  LET e == [d EXCEPT !.dirs[SafeId[uid]].personal = x]
         IN  /\ e \in Disks /\ e.service = d.service
             /\ e.dirs[SafeId[uid]].personal = x
             /\ e.dirs[SafeId[uid]].adaptive = d.dirs[SafeId[uid]].adaptive
             /\ \A u \in Uids : u # uid => e.dirs[SafeId[u]] = d.dirs[SafeId[u]]
<1> DEFINE r == [d.dirs[SafeId[uid]] EXCEPT !.personal = x]
           e == [d EXCEPT !.dirs = [d.dirs EXCEPT ![SafeId[uid]] = r]]
           P == [adaptive : AdaptiveFiles \cup Broken, personal : PersonalFiles \cup Broken]
<1>1. /\ \A u \in Uids : SafeId[u] \in Dirs
      /\ \A u \in Uids : u # uid => SafeId[u] # SafeId[uid]
  BY SafeIdAssumption DEF Dirs, Range, IsInjective
<1>2. /\ d.service \in ServiceFiles \cup Broken /\ d.dirs \in [Dirs -> P]
      /\ d = [service |-> d.service, dirs |-> d.dirs]
  BY DEF Disks
<1>3. d.dirs[SafeId[uid]] \in P
  BY <1>1, <1>2
<1>4. r \in P /\ r.personal = x /\ r.adaptive = d.dirs[SafeId[uid]].adaptive
  BY <1>3
<1> HIDE DEF r, P
<1>5. e = [service |-> d.service, dirs |-> [d.dirs EXCEPT ![SafeId[uid]] = r]]
  <2> DEFINE g == [d.dirs EXCEPT ![SafeId[uid]] = r]
  <2> HIDE DEF g
  <2> QED BY <1>2 DEF g
<1>6. [d.dirs EXCEPT ![SafeId[uid]] = r] \in [Dirs -> P]
  BY <1>1, <1>2, <1>4
<1>7. e \in Disks
  BY <1>2, <1>5, <1>6 DEF Disks, P
<1>8. e.service = d.service /\ e.dirs[SafeId[uid]] = r
  BY <1>1, <1>2, <1>5
<1>9. \A u \in Uids : u # uid => e.dirs[SafeId[u]] = d.dirs[SafeId[u]]
  BY <1>1, <1>2, <1>5
<1> QED BY <1>4, <1>7, <1>8, <1>9 DEF r

LEMMA SetService ==
  ASSUME NEW d \in Disks, NEW x \in ServiceFiles \cup Broken
  PROVE  LET e == [d EXCEPT !.service = x]
         IN  e \in Disks /\ e.service = x /\ e.dirs = d.dirs
BY DEF Disks

(* A write of a user's file, whole or torn, puts that file there and       *)
(* leaves all others alone.                                                *)
LEMMA WrittenUser ==
  ASSUME IsInjective(SafeId), NEW d \in Disks, UsersOK(users), NEW w \in UserWrites
  PROVE  LET e == Written(users, d, w)
         IN  /\ e \in Disks /\ e.service = d.service
             /\ \A u \in Uids :
                  /\ e.dirs[SafeId[u]].adaptive =
                       IF w = UserWrite("adaptive", u) THEN AdaptiveOf(users, u)
                       ELSE d.dirs[SafeId[u]].adaptive
                  /\ e.dirs[SafeId[u]].personal =
                       IF w = UserWrite("personal", u) THEN PersonalOf(users, u)
                       ELSE d.dirs[SafeId[u]].personal
<1> DEFINE e == Written(users, d, w)
<1>1. w.uid \in DOMAIN users /\ w.uid \in Uids /\ w.file \in {"adaptive", "personal"}
  BY DEF UserWrites, UsersOK
<1>2. \A u : /\ w = UserWrite("adaptive", u) <=> (w.file = "adaptive" /\ w.uid = u)
             /\ w = UserWrite("personal", u) <=> (w.file = "personal" /\ w.uid = u)
  BY DEF UserWrites, UserWrite
<1>3. CASE w.file = "adaptive"
  <2> DEFINE x == AdaptiveOf(users, w.uid)
  <2>1. e = [d EXCEPT !.dirs[SafeId[w.uid]].adaptive = x]
    BY <1>3 DEF Written, AdaptiveOf
  <2>2. x \in AdaptiveFiles \cup Broken
    BY <1>1, OwnFiles
  <2> DEFINE g == [d EXCEPT !.dirs[SafeId[w.uid]].adaptive = x]
  <2> HIDE DEF x, e
  <2>3. /\ g \in Disks /\ g.service = d.service
        /\ g.dirs[SafeId[w.uid]].adaptive = x
        /\ g.dirs[SafeId[w.uid]].personal = d.dirs[SafeId[w.uid]].personal
        /\ \A u \in Uids : u # w.uid => g.dirs[SafeId[u]] = d.dirs[SafeId[u]]
    BY <1>1, <2>2, SetAdaptive, Zenon
  <2> HIDE DEF g
  <2> QED BY <1>2, <1>3, <2>3, <2>1 DEF e, x, g
<1>4. CASE w.file = "personal"
  <2> DEFINE x == PersonalOf(users, w.uid)
  <2>1. e = [d EXCEPT !.dirs[SafeId[w.uid]].personal = x]
    BY <1>4 DEF Written, PersonalOf
  <2>2. x \in PersonalFiles \cup Broken
    BY <1>1, OwnFiles
  <2> DEFINE g == [d EXCEPT !.dirs[SafeId[w.uid]].personal = x]
  <2> HIDE DEF x, e
  <2>3. /\ g \in Disks /\ g.service = d.service
        /\ g.dirs[SafeId[w.uid]].personal = x
        /\ g.dirs[SafeId[w.uid]].adaptive = d.dirs[SafeId[w.uid]].adaptive
        /\ \A u \in Uids : u # w.uid => g.dirs[SafeId[u]] = d.dirs[SafeId[u]]
    BY <1>1, <2>2, SetPersonal, Zenon
  <2> HIDE DEF g
  <2> QED BY <1>2, <1>4, <2>3, <2>1 DEF e, x, g
<1> QED BY <1>1, <1>3, <1>4

LEMMA DamagedUser ==
  ASSUME IsInjective(SafeId), NEW d \in Disks, UsersOK(users), NEW w \in UserWrites
  PROVE  LET e == Damaged(d, w)
         IN  /\ e \in Disks /\ e.service = d.service
             /\ \A u \in Uids :
                  /\ e.dirs[SafeId[u]].adaptive \in {Torn, d.dirs[SafeId[u]].adaptive}
                  /\ e.dirs[SafeId[u]].personal \in {Torn, d.dirs[SafeId[u]].personal}
<1> DEFINE e == Damaged(d, w)
<1>1. /\ w.uid \in Uids /\ w.file \in {"adaptive", "personal"}
      /\ Torn \in AdaptiveFiles \cup Broken /\ Torn \in PersonalFiles \cup Broken
  BY DEF UserWrites, UsersOK, Broken
<1>2. CASE w.file = "adaptive"
  <2>1. e = [d EXCEPT !.dirs[SafeId[w.uid]].adaptive = Torn]
    BY <1>2 DEF Damaged
  <2> DEFINE g == [d EXCEPT !.dirs[SafeId[w.uid]].adaptive = Torn]
  <2> HIDE DEF e
  <2>2. /\ g \in Disks /\ g.service = d.service
        /\ g.dirs[SafeId[w.uid]].adaptive = Torn
        /\ g.dirs[SafeId[w.uid]].personal = d.dirs[SafeId[w.uid]].personal
        /\ \A u \in Uids : u # w.uid => g.dirs[SafeId[u]] = d.dirs[SafeId[u]]
    BY <1>1, SetAdaptive, Zenon
  <2> HIDE DEF g
  <2> QED BY <2>1, <2>2 DEF e, g
<1>3. CASE w.file = "personal"
  <2>1. e = [d EXCEPT !.dirs[SafeId[w.uid]].personal = Torn]
    BY <1>3 DEF Damaged
  <2> DEFINE g == [d EXCEPT !.dirs[SafeId[w.uid]].personal = Torn]
  <2> HIDE DEF e
  <2>2. /\ g \in Disks /\ g.service = d.service
        /\ g.dirs[SafeId[w.uid]].personal = Torn
        /\ g.dirs[SafeId[w.uid]].adaptive = d.dirs[SafeId[w.uid]].adaptive
        /\ \A u \in Uids : u # w.uid => g.dirs[SafeId[u]] = d.dirs[SafeId[u]]
    BY <1>1, SetPersonal, Zenon
  <2> HIDE DEF g
  <2> QED BY <2>1, <2>2 DEF e, g
<1> QED BY <1>1, <1>2, <1>3

-----------------------------------------------------------------------------
(* The inductive invariant                                                 *)

LEMMA InitInv == Init => IInv
<1> SUFFICES ASSUME Init PROVE IInv
  OBVIOUS
<1>1. DOMAIN NoUsers = {} /\ NoUsers \in [{} -> Memories]
  BY DEF NoUsers
<1>2. UsersOK(NoUsers)
  BY <1>1, FS_EmptySet DEF UsersOK
<1>3. disk \in Disks /\ disk.service = NoFile
  BY DEF Init, Disks, Broken
<1>4. DirsOK
  BY SafeIdAssumption DEF Init, DirsOK, DirOK, Broken, Dirs, Range
<1>5. ListOK /\ IntactOK /\ SaveOK
  BY <1>1, <1>3 DEF Init, ListOK, IntactOK, SaveOK, Broken
<1> QED BY <1>2, <1>3, <1>4, <1>5 DEF Init, IInv

(* A call changes the map of users alone, and comes between saves.         *)
LEMMA CallKeeps ==
  ASSUME IInv, Called, UsersOK(users')
  PROVE  IInv'
<1>1. UNCHANGED <<running, sealed, disk, todo, saved, versions, intact>> /\ todo = <<>>
  BY DEF Called
<1>2. UsersOK(saved)'
  BY <1>1 DEF IInv, UsersOK, Own
<1>3. DirsOK'
  BY <1>1 DEF IInv, DirsOK, DirOK, Broken
<1>4. ListOK' /\ IntactOK' /\ SaveOK'
  BY <1>1 DEF IInv, ListOK, IntactOK, SaveOK, Broken, NoUsers, AdaptiveOf, PersonalOf
<1>5. UsersOK(users)'
  BY DEF UsersOK, Own
<1> QED BY <1>1, <1>2, <1>3, <1>4, <1>5 DEF IInv, Disks, Broken, ServiceWrite

LEMMA StoreFactKeeps ==
  ASSUME IInv, NEW uid \in Uids, NEW p \in Predicates, NEW v \in Values, StoreFact(uid, p, v)
  PROVE  IInv'
<1> DEFINE w == WithUser(users, uid)
<1>1. UsersOK(w) /\ uid \in DOMAIN w
  BY WithUserOK DEF IInv
<1>2. w[uid] \in Memories /\ Own(uid, w[uid])
  BY <1>1 DEF UsersOK
<1> HIDE DEF w
<1>3. UsersOK([w EXCEPT ![uid] = StoredFor(w[uid], p, v)])
  BY <1>1, <1>2, StoredOwn, ReplaceOK
<1>4. users' = [w EXCEPT ![uid] = StoredFor(w[uid], p, v)]
  BY DEF StoreFact, w
<1> QED BY <1>3, <1>4, CallKeeps DEF StoreFact

LEMMA TouchKeeps ==
  ASSUME IInv, NEW uid \in Uids, Touch(uid)
  PROVE  IInv'
BY WithUserOK, CallKeeps DEF Touch, IInv

LEMMA ForgetFactKeeps ==
  ASSUME IInv, NEW uid \in Uids, NEW p \in Predicates, ForgetFact(uid, p)
  PROVE  IInv'
<1>1. uid \in DOMAIN users
  BY DEF ForgetFact, Recalled
<1>2. UsersOK(users) /\ users[uid] \in Memories /\ Own(uid, users[uid])
  BY <1>1 DEF IInv, UsersOK
<1>3. UsersOK([users EXCEPT ![uid] = ForgottenFor(users[uid], p)])
  BY <1>1, <1>2, ForgottenOwn, ReplaceOK
<1> QED BY <1>3, CallKeeps DEF ForgetFact

LEMMA RemoveUserKeeps ==
  ASSUME IInv, NEW uid \in Uids, RemoveUser(uid)
  PROVE  IInv'
BY RemovedOK, CallKeeps DEF RemoveUser, IInv

LEMMA BeginSaveKeeps ==
  ASSUME IInv, BeginSave
  PROVE  IInv'
<1>1. /\ UNCHANGED <<running, sealed, users, disk, saved, intact>> /\ running
      /\ versions' = versions \cup {<<uid, users[uid].facts>> : uid \in DOMAIN users}
  BY DEF BeginSave
<1>2. PICK order \in SetToSeqs(DOMAIN users) : todo' = Writes(order)
  BY DEF BeginSave
<1> DEFINE T == [file : {"adaptive", "personal"}, uid : DOMAIN users]
           ws == Writes(order)
<1>3. DOMAIN users \in SUBSET Uids /\ IsFiniteSet(DOMAIN users)
  BY DEF IInv, UsersOK
<1>4. /\ ws \in Seq(T \cup {ServiceWrite})
      /\ ws # <<>> /\ ws[Len(ws)] = ServiceWrite
      /\ \A i \in 1 .. Len(ws) - 1 : ws[i] \in T
      /\ \A uid \in DOMAIN users :
           /\ \E i \in 1 .. Len(ws) : ws[i] = UserWrite("adaptive", uid)
           /\ \E i \in 1 .. Len(ws) : ws[i] = UserWrite("personal", uid)
  BY <1>3, WritesShape
<1> HIDE DEF ws
<1>5. T \subseteq [file : {"adaptive", "personal"}, uid : Uids]
  BY <1>3
<1>6. ws \in Seq([file : {"adaptive", "personal"}, uid : Uids] \cup {ServiceWrite})
  <2> DEFINE U == [file : {"adaptive", "personal"}, uid : Uids]
  <2> HIDE DEF T, U
  <2>1. T \cup {ServiceWrite} \subseteq U \cup {ServiceWrite}
    BY <1>5 DEF T, U
  <2>2. ws \in Seq(U \cup {ServiceWrite})
    BY <1>4, <2>1
  <2> QED BY <2>2 DEF U
<1>7. SaveOK'
  <2>1. \A uid \in DOMAIN users : <<uid, users[uid].facts>> \in versions'
    BY <1>1
  <2>2. UserWrites' = T
    BY <1>1 DEF UserWrites
  <2> HIDE DEF T
  <2> QED BY <1>1, <1>2, <1>4, <2>1, <2>2 DEF SaveOK, ws, ServiceWrite, UserWrite, AdaptiveOf, PersonalOf
<1>8. DirsOK'
  BY <1>1 DEF IInv, DirsOK, DirOK, Broken
<1>9. ListOK' /\ IntactOK'
  BY <1>1 DEF IInv, ListOK, IntactOK, Broken, NoUsers, AdaptiveOf, PersonalOf
<1>10. UsersOK(users)' /\ UsersOK(saved)'
  BY <1>1 DEF IInv, UsersOK, Own
<1>11. todo' = ws
  BY <1>2 DEF ws
<1> QED BY <1>1, <1>6, <1>7, <1>8, <1>9, <1>10, <1>11 DEF IInv, Disks, Broken, ServiceWrite

(* What is left of a save after its next write                             *)
LEMMA TodoParts ==
  ASSUME IInv, todo # <<>>
  PROVE  /\ Len(todo) \in Nat \ {0} /\ Len(Tail(todo)) = Len(todo) - 1
         /\ Head(todo) = todo[1]
         /\ \A i \in 1 .. Len(todo) - 1 : Tail(todo)[i] = todo[i + 1]
         /\ Tail(todo) \in Seq([file : {"adaptive", "personal"}, uid : Uids] \cup {ServiceWrite})
         /\ Tail(todo) = <<>> <=> Len(todo) = 1
<1> DEFINE U == [file : {"adaptive", "personal"}, uid : Uids] \cup {ServiceWrite}
<1>1. todo \in Seq(U)
  BY DEF IInv
<1> HIDE DEF U
<1>2. /\ Len(todo) \in Nat \ {0} /\ Len(Tail(todo)) = Len(todo) - 1
      /\ Head(todo) = todo[1] /\ Tail(todo) \in Seq(U)
      /\ \A i \in 1 .. Len(todo) - 1 : Tail(todo)[i] = todo[i + 1]
  BY <1>1
<1>3. Tail(todo) = <<>> <=> Len(Tail(todo)) = 0
  BY <1>2
<1> QED BY <1>2, <1>3 DEF U

(* The last write of a save is that of service.json.  All others are done. *)
LEMMA LastWriteKeeps ==
  ASSUME IInv, WriteFile, Tail(todo) = <<>>
  PROVE  IInv'
<1> DEFINE x == [ids |-> DOMAIN users]
<1>1. Len(todo) = 1 /\ Head(todo) = ServiceWrite /\ todo # <<>>
  BY TodoParts DEF WriteFile, IInv, SaveOK
<1>2. /\ UNCHANGED <<running, sealed, users, versions, calls>>
      /\ disk' = [disk EXCEPT !.service = x]
      /\ todo' = <<>> /\ saved' = users /\ intact' = TRUE
  <2>1. Head(todo).file = "service"
    BY <1>1 DEF ServiceWrite
  <2>2. Written(users, disk, Head(todo)) = [disk EXCEPT !.service = x]
    BY <2>1 DEF Written
  <2> QED BY <2>2 DEF WriteFile
<1>3. x \in ServiceFiles /\ x \notin Broken
  <2>1. x \in ServiceFiles
    BY DEF IInv, UsersOK, ServiceFiles
  <2> QED BY <2>1, WholeFiles
<1> HIDE DEF x
<1>4. disk' \in Disks /\ disk'.service = x /\ disk'.dirs = disk.dirs
  BY <1>2, <1>3, SetService DEF IInv
<1>5. \A uid \in DOMAIN users :
        /\ disk.dirs[SafeId[uid]].adaptive = AdaptiveOf(users, uid)
        /\ disk.dirs[SafeId[uid]].personal = PersonalOf(users, uid)
  <2>1. \A f \in {"adaptive", "personal"}, uid \in DOMAIN users : UserWrite(f, uid) # ServiceWrite
    <3>1. \A f, uid : UserWrite(f, uid).file = f
      BY DEF UserWrite
    <3>2. ServiceWrite.file = "service"
      BY DEF ServiceWrite
    <3> QED BY <3>1, <3>2
  <2>2. \A i \in 1 .. Len(todo) : todo[i] = ServiceWrite
    BY <1>1 DEF IInv, SaveOK
  <2> QED BY <1>1, <2>1, <2>2 DEF IInv, SaveOK
<1>6. \A uid \in DOMAIN users :
        AdaptiveOf(users, uid) # NoFile /\ PersonalOf(users, uid) # NoFile
  BY OwnFiles DEF IInv, Broken
<1>7. UsersOK(users)' /\ UsersOK(saved)'
  BY <1>2 DEF IInv, UsersOK, Own
<1>8. DirsOK'
  BY <1>2, <1>4 DEF IInv, DirsOK, DirOK, Broken
<1>9. ListOK'
  <2>1. disk'.service # NoFile /\ disk'.service.ids = DOMAIN saved'
    BY <1>2, <1>3, <1>4 DEF x, Broken
  <2>2. \A uid \in DOMAIN saved' :
           disk'.dirs[SafeId[uid]].adaptive # NoFile /\ disk'.dirs[SafeId[uid]].personal # NoFile
    BY <1>2, <1>4, <1>5, <1>6
  <2> QED BY <2>1, <2>2 DEF ListOK, NoUsers
<1>10. IntactOK'
  <2>1. disk'.service # Torn
    BY <1>3, <1>4 DEF Broken
  <2> QED BY <1>2, <1>4, <1>5, <2>1 DEF IntactOK, AdaptiveOf, PersonalOf
<1>11. SaveOK'
  BY <1>2 DEF SaveOK
<1>12. todo' \in Seq([file : {"adaptive", "personal"}, uid : Uids] \cup {ServiceWrite})
  BY <1>2
<1> QED BY <1>2, <1>4, <1>7, <1>8, <1>9, <1>10, <1>11, <1>12 DEF IInv, Disks, Broken, ServiceWrite

(* Any other write is of a user's file.                                    *)
LEMMA UserWriteKeeps ==
  ASSUME IsInjective(SafeId), IInv, WriteFile, Tail(todo) # <<>>
  PROVE  IInv'
<1> DEFINE w == Head(todo)
           t == Tail(todo)
<1>1. /\ todo # <<>> /\ running
      /\ UNCHANGED <<running, sealed, users, versions, calls>>
      /\ disk' = Written(users, disk, w)
      /\ todo' = t /\ saved' = saved /\ intact' = FALSE
  BY DEF WriteFile
<1>2. /\ Len(todo) \in Nat /\ Len(todo) > 1 /\ Len(t) = Len(todo) - 1 /\ w = todo[1]
      /\ \A i \in 1 .. Len(todo) - 1 : t[i] = todo[i + 1]
      /\ t \in Seq([file : {"adaptive", "personal"}, uid : Uids] \cup {ServiceWrite})
  BY <1>1, TodoParts
<1> HIDE DEF t
<1>3. w \in UserWrites
  BY <1>1, <1>2 DEF IInv, SaveOK
<1> HIDE DEF w
<1>4. /\ disk' \in Disks /\ disk'.service = disk.service
      /\ \A u \in Uids :
           /\ disk'.dirs[SafeId[u]].adaptive =
                IF w = UserWrite("adaptive", u) THEN AdaptiveOf(users, u)
                ELSE disk.dirs[SafeId[u]].adaptive
           /\ disk'.dirs[SafeId[u]].personal =
                IF w = UserWrite("personal", u) THEN PersonalOf(users, u)
                ELSE disk.dirs[SafeId[u]].personal
  BY <1>1, <1>3, WrittenUser DEF IInv
<1>5. \A u \in Uids :
        /\ w = UserWrite("adaptive", u) => u \in DOMAIN users
        /\ w = UserWrite("personal", u) => u \in DOMAIN users
  BY <1>3 DEF UserWrites, UserWrite
<1>6. \A uid \in DOMAIN users :
        /\ uid \in Uids
        /\ AdaptiveOf(users, uid) \notin Broken /\ PersonalOf(users, uid) \notin Broken
        /\ AdaptiveOf(users, uid).facts = users[uid].facts
        /\ PersonalOf(users, uid).userId = uid
        /\ \A k \in FactKeys : users[uid].facts[k] # NotFound => k[1] = uid
        /\ <<uid, users[uid].facts>> \in versions
  <2>1. \A uid \in DOMAIN users : Own(uid, users[uid]) /\ uid \in Uids
    BY DEF IInv, UsersOK
  <2>2. \A uid \in DOMAIN users : <<uid, users[uid].facts>> \in versions
    BY <1>1 DEF IInv, SaveOK
  <2>3. UsersOK(users)
    BY DEF IInv
  <2> QED BY <2>1, <2>2, <2>3, OwnFiles DEF Own, AdaptiveOf, PersonalOf
<1>7. UsersOK(users)' /\ UsersOK(saved)'
  BY <1>1 DEF IInv, UsersOK, Own
<1>8. DirsOK'
  <2> SUFFICES ASSUME NEW u \in Uids PROVE DirOK(u, disk.dirs[SafeId[u]])'
    BY DEF DirsOK
  <2>1. DirOK(u, disk.dirs[SafeId[u]])
    BY DEF IInv, DirsOK
  <2>2. ASSUME disk'.dirs[SafeId[u]].adaptive \notin Broken
        PROVE  LET f == disk'.dirs[SafeId[u]].adaptive.facts
               IN  <<u, f>> \in versions /\ \A k \in FactKeys : f[k] # NotFound => k[1] = u
    <3>1. CASE w = UserWrite("adaptive", u)
      <4>1. u \in DOMAIN users /\ disk'.dirs[SafeId[u]].adaptive = AdaptiveOf(users, u)
        BY <1>4, <1>5, <3>1
      <4>2. disk'.dirs[SafeId[u]].adaptive.facts = users[u].facts
        BY <1>6, <4>1
      <4> QED BY <1>6, <4>1, <4>2
    <3>2. CASE w # UserWrite("adaptive", u)
      <4>1. disk'.dirs[SafeId[u]].adaptive = disk.dirs[SafeId[u]].adaptive
        BY <1>4, <3>2
      <4> QED BY <2>1, <2>2, <4>1 DEF DirOK
    <3> QED BY <3>1, <3>2
  <2>3. disk'.dirs[SafeId[u]].personal \notin Broken => disk'.dirs[SafeId[u]].personal.userId = u
    BY <1>4, <1>5, <1>6, <2>1 DEF DirOK
  <2> QED BY <1>1, <2>2, <2>3 DEF DirOK, Broken
<1>9. ListOK'
  <2>1. \A uid \in DOMAIN saved :
          disk'.dirs[SafeId[uid]].adaptive # NoFile /\ disk'.dirs[SafeId[uid]].personal # NoFile
    <3> TAKE uid \in DOMAIN saved
    <3>1. /\ uid \in Uids
          /\ disk.dirs[SafeId[uid]].adaptive # NoFile /\ disk.dirs[SafeId[uid]].personal # NoFile
      BY DEF IInv, ListOK, UsersOK
    <3>2. \A u \in DOMAIN users : AdaptiveOf(users, u) # NoFile /\ PersonalOf(users, u) # NoFile
      BY <1>6 DEF Broken
    <3>3. disk'.dirs[SafeId[uid]].adaptive # NoFile
      BY <1>4, <1>5, <3>1, <3>2
    <3>4. disk'.dirs[SafeId[uid]].personal # NoFile
      BY <1>4, <1>5, <3>1, <3>2
    <3> QED BY <3>3, <3>4
  <2> QED BY <1>1, <1>4, <2>1 DEF IInv, ListOK, Broken, NoUsers
<1>10. IntactOK'
  BY <1>1 DEF IntactOK
<1>11. SaveOK'
  <2>1. t[Len(t)] = ServiceWrite
    BY <1>1, <1>2 DEF IInv, SaveOK
  <2>2. \A i \in 1 .. Len(t) - 1 : t[i] \in UserWrites
    <3> TAKE i \in 1 .. Len(t) - 1
    <3>1. i + 1 \in 1 .. Len(todo) - 1 /\ t[i] = todo[i + 1]
      BY <1>2
    <3> QED BY <1>1, <3>1 DEF IInv, SaveOK
  <2>3. ASSUME NEW uid \in DOMAIN users, NEW x,
               \E i \in 1 .. Len(todo) : todo[i] = x, x # w
        PROVE  \E i \in 1 .. Len(t) : t[i] = x
    <3>1. PICK i \in 1 .. Len(todo) : todo[i] = x
      BY <2>3
    <3>2. i # 1
      BY <1>2, <2>3, <3>1
    <3>3. i - 1 \in 1 .. Len(t) /\ i - 1 \in 1 .. Len(todo) - 1 /\ (i - 1) + 1 = i
      BY <1>2, <3>2
    <3>4. t[i - 1] = x
      BY <1>2, <3>1, <3>3
    <3> QED BY <3>3, <3>4
  <2>4. ASSUME NEW uid \in DOMAIN users
        PROVE  /\ \/ \E i \in 1 .. Len(t) : t[i] = UserWrite("adaptive", uid)
                  \/ disk'.dirs[SafeId[uid]].adaptive = AdaptiveOf(users, uid)
               /\ \/ \E i \in 1 .. Len(t) : t[i] = UserWrite("personal", uid)
                  \/ disk'.dirs[SafeId[uid]].personal = PersonalOf(users, uid)
    <3>1. /\ \/ \E i \in 1 .. Len(todo) : todo[i] = UserWrite("adaptive", uid)
             \/ disk.dirs[SafeId[uid]].adaptive = AdaptiveOf(users, uid)
          /\ \/ \E i \in 1 .. Len(todo) : todo[i] = UserWrite("personal", uid)
             \/ disk.dirs[SafeId[uid]].personal = PersonalOf(users, uid)
      BY <1>1 DEF IInv, SaveOK
    <3>2. \/ \E i \in 1 .. Len(t) : t[i] = UserWrite("adaptive", uid)
          \/ disk'.dirs[SafeId[uid]].adaptive = AdaptiveOf(users, uid)
      BY <1>4, <1>6, <2>3, <3>1
    <3>3. \/ \E i \in 1 .. Len(t) : t[i] = UserWrite("personal", uid)
          \/ disk'.dirs[SafeId[uid]].personal = PersonalOf(users, uid)
      BY <1>4, <1>6, <2>3, <3>1
    <3> QED BY <3>2, <3>3
  <2>5. UserWrites' = UserWrites
    BY <1>1 DEF UserWrites
  <2> QED BY <1>1, <1>6, <2>1, <2>2, <2>4, <2>5
      DEF SaveOK, ServiceWrite, UserWrite, AdaptiveOf, PersonalOf
<1> QED BY <1>1, <1>2, <1>4, <1>7, <1>8, <1>9, <1>10, <1>11 DEF IInv, Disks, Broken, ServiceWrite

(* A write that fails, or that a crash cuts short, leaves a torn file.     *)
LEMMA DamageKeeps ==
  ASSUME IsInjective(SafeId), IInv, todo # <<>>,
         disk' = Damaged(disk, Head(todo)), todo' = <<>>, intact' = FALSE,
         running' \in BOOLEAN, UNCHANGED <<users, saved, versions>>
  PROVE  IInv'
<1> DEFINE w == Head(todo)
<1>1. w \in UserWrites \/ w = ServiceWrite
  BY TodoParts DEF IInv, SaveOK
<1>2. /\ disk' \in Disks /\ disk'.service \in {Torn, disk.service}
      /\ \A u \in Uids :
           /\ disk'.dirs[SafeId[u]].adaptive \in {Torn, disk.dirs[SafeId[u]].adaptive}
           /\ disk'.dirs[SafeId[u]].personal \in {Torn, disk.dirs[SafeId[u]].personal}
  <2>1. CASE w \in UserWrites
    <3> HIDE DEF w
    <3>1. disk' = Damaged(disk, w)
      BY DEF w
    <3>2. disk \in Disks /\ UsersOK(users)
      BY DEF IInv
    <3> QED BY <2>1, <3>1, <3>2, DamagedUser
  <2>2. CASE w = ServiceWrite
    <3>1. disk' = [disk EXCEPT !.service = Torn]
      <4>1. w.file = "service"
        BY <2>2 DEF ServiceWrite
      <4>2. disk' = Damaged(disk, w)
        OBVIOUS
      <4> HIDE DEF w
      <4> QED BY <4>1, <4>2 DEF Damaged
    <3>2. Torn \in ServiceFiles \cup Broken
      BY DEF Broken
    <3> DEFINE e == [disk EXCEPT !.service = Torn]
    <3>3. disk \in Disks
      BY DEF IInv
    <3>4. e \in Disks /\ e.service = Torn /\ e.dirs = disk.dirs
      BY <3>2, <3>3, SetService, Zenon
    <3> HIDE DEF e
    <3> QED BY <3>1, <3>4 DEF e
  <2> QED BY <1>1, <2>1, <2>2
<1>3. UsersOK(users)' /\ UsersOK(saved)'
  BY DEF IInv, UsersOK, Own
<1>4. DirsOK'
  <2> SUFFICES ASSUME NEW u \in Uids PROVE DirOK(u, disk.dirs[SafeId[u]])'
    BY DEF DirsOK
  <2>1. DirOK(u, disk.dirs[SafeId[u]])
    BY DEF IInv, DirsOK
  <2>2. Torn \in Broken
    BY DEF Broken
  <2> QED BY <1>2, <2>1, <2>2 DEF DirOK, Broken
<1>5. ListOK'
  <2>1. \A uid \in DOMAIN saved :
          disk'.dirs[SafeId[uid]].adaptive # NoFile /\ disk'.dirs[SafeId[uid]].personal # NoFile
    <3> TAKE uid \in DOMAIN saved
    <3>1. /\ uid \in Uids
          /\ disk.dirs[SafeId[uid]].adaptive # NoFile /\ disk.dirs[SafeId[uid]].personal # NoFile
      BY DEF IInv, ListOK, UsersOK
    <3> QED BY <1>2, <3>1, WholeFiles
  <2>2. /\ disk'.service = NoFile => disk.service = NoFile
        /\ disk'.service \notin Broken => disk'.service = disk.service
    BY <1>2, WholeFiles DEF Broken
  <2> QED BY <2>1, <2>2 DEF IInv, ListOK, Broken, NoUsers
<1>6. IntactOK' /\ SaveOK'
  BY DEF IntactOK, SaveOK
<1>7. todo' \in Seq([file : {"adaptive", "personal"}, uid : Uids] \cup {ServiceWrite})
  OBVIOUS
<1> QED BY <1>2, <1>3, <1>4, <1>5, <1>6, <1>7 DEF IInv, Disks, Broken, ServiceWrite

LEMMA CrashKeeps ==
  ASSUME IInv, Crash
  PROVE  IInv'
<1>1. UNCHANGED <<sealed, users, disk, saved, versions, intact>> /\ running' = FALSE /\ todo' = <<>>
  BY DEF Crash
<1>2. UsersOK(users)' /\ UsersOK(saved)'
  BY <1>1 DEF IInv, UsersOK, Own
<1>3. DirsOK'
  BY <1>1 DEF IInv, DirsOK, DirOK, Broken
<1>4. ListOK' /\ IntactOK' /\ SaveOK'
  BY <1>1 DEF IInv, ListOK, IntactOK, SaveOK, Broken, NoUsers, AdaptiveOf, PersonalOf
<1>5. todo' \in Seq([file : {"adaptive", "personal"}, uid : Uids] \cup {ServiceWrite})
  BY <1>1
<1> QED BY <1>1, <1>2, <1>3, <1>4, <1>5 DEF IInv, Disks, Broken, ServiceWrite

-----------------------------------------------------------------------------
(* A load                                                                  *)

(* What a load yields: the users of the last save, each with a memory that *)
(* was theirs when some save began.                                        *)
LEMMA LoadYields ==
  ASSUME IInv, Loads(disk)
  PROVE  /\ ListedIds(disk) = DOMAIN saved
         /\ DOMAIN Loaded(disk) = DOMAIN saved
         /\ UsersOK(Loaded(disk))
         /\ \A uid \in DOMAIN saved : <<uid, Loaded(disk)[uid].facts>> \in versions
         /\ intact => Loaded(disk) = saved
<1> DEFINE Dir(uid) == disk.dirs[SafeId[uid]]
<1>1. disk.service # Torn
  BY DEF Loads
<1>2. DOMAIN saved \subseteq Uids /\ IsFiniteSet(DOMAIN saved) /\ saved = [u \in DOMAIN saved |-> saved[u]]
  BY DEF IInv, UsersOK
<1>3. ListedIds(disk) = DOMAIN saved
  <2>1. CASE disk.service = NoFile
    BY <2>1 DEF ListedIds, IInv, ListOK, NoUsers
  <2>2. CASE disk.service # NoFile
    <3>1. disk.service.ids = DOMAIN saved
      BY <1>1, <2>2 DEF IInv, ListOK, Broken
    <3>2. \A uid \in DOMAIN saved : ~Skipped(Dir(uid))
      BY DEF IInv, ListOK, Skipped
    <3> QED BY <2>2, <3>1, <3>2 DEF ListedIds
  <2> QED BY <2>1, <2>2
<1>4. /\ Loaded(disk) = [uid \in DOMAIN saved |-> LoadedUser(uid, Dir(uid))]
      /\ DOMAIN Loaded(disk) = DOMAIN saved
  BY <1>3 DEF Loaded
<1>5. ASSUME NEW uid \in DOMAIN saved
      PROVE  /\ LoadedUser(uid, Dir(uid)) \in Memories
             /\ Own(uid, LoadedUser(uid, Dir(uid)))
             /\ <<uid, LoadedUser(uid, Dir(uid)).facts>> \in versions
  <2>1. uid \in Uids /\ SafeId[uid] \in Dirs
    BY <1>2, SafeIdAssumption DEF Dirs, Range
  <2>2. Dir(uid).adaptive \notin Broken /\ Dir(uid).personal \notin Broken
    BY <1>3 DEF Loads, Broken
  <2>3. Dir(uid).adaptive \in AdaptiveFiles /\ Dir(uid).personal \in PersonalFiles
    BY <2>1, <2>2 DEF IInv, Disks
  <2>4. DirOK(uid, Dir(uid))
    BY <2>1 DEF IInv, DirsOK
  <2> HIDE DEF Dir
  <2>5. LoadedUser(uid, Dir(uid)) \in Memories
    BY <2>3 DEF LoadedUser, Memories, AdaptiveFiles, PersonalFiles
  <2>6. /\ LoadedUser(uid, Dir(uid)).facts = Dir(uid).adaptive.facts
        /\ LoadedUser(uid, Dir(uid)).userId = Dir(uid).personal.userId
    BY DEF LoadedUser
  <2> QED BY <2>2, <2>4, <2>5, <2>6 DEF DirOK, Own
<1>6. UsersOK(Loaded(disk))
  <2> DEFINE l == Loaded(disk)
  <2>1. \A uid \in DOMAIN saved : l[uid] = LoadedUser(uid, Dir(uid))
    BY <1>4
  <2>2. l \in [DOMAIN l -> Memories]
    BY <1>4, <1>5
  <2> QED BY <1>2, <1>4, <1>5, <2>1, <2>2 DEF UsersOK
<1>7. \A uid \in DOMAIN saved : <<uid, Loaded(disk)[uid].facts>> \in versions
  BY <1>4, <1>5
<1>8. ASSUME intact PROVE Loaded(disk) = saved
  <2>1. \A uid \in DOMAIN saved : saved[uid] \in Memories
    BY DEF IInv, UsersOK
  <2>2. CASE disk.service = NoFile
    BY <1>2, <1>4, <2>2 DEF IInv, ListOK, NoUsers
  <2>3. CASE disk.service # NoFile
    <3>1. \A uid \in DOMAIN saved :
            Dir(uid).adaptive = AdaptiveOf(saved, uid) /\ Dir(uid).personal = PersonalOf(saved, uid)
      BY <1>8, <2>3 DEF IInv, IntactOK
    <3>2. ASSUME NEW uid \in DOMAIN saved PROVE LoadedUser(uid, Dir(uid)) = saved[uid]
      <4> DEFINE pm == saved[uid]
      <4>1. pm = [userId |-> pm.userId, facts |-> pm.facts, schema |-> pm.schema]
        BY <2>1 DEF Memories
      <4>2. /\ Dir(uid).adaptive.facts = pm.facts
            /\ Dir(uid).personal.userId = pm.userId /\ Dir(uid).personal.schema = pm.schema
        <5>1. /\ AdaptiveOf(saved, uid).facts = pm.facts
              /\ PersonalOf(saved, uid).userId = pm.userId
              /\ PersonalOf(saved, uid).schema = pm.schema
          BY DEF AdaptiveOf, PersonalOf
        <5> HIDE DEF pm, Dir
        <5> QED BY <3>1, <5>1
      <4> HIDE DEF pm, Dir
      <4>3. LoadedUser(uid, Dir(uid)) = pm
        BY <4>1, <4>2 DEF LoadedUser
      <4> QED BY <4>3 DEF pm
    <3> QED BY <1>2, <1>4, <3>2
  <2> QED BY <2>2, <2>3
<1> QED BY <1>3, <1>4, <1>6, <1>7, <1>8

LEMMA LoadKeeps ==
  ASSUME IInv, Load
  PROVE  IInv'
<1>1. /\ UNCHANGED <<sealed, disk, todo, saved, versions, intact, calls>>
      /\ users' = Loaded(disk) /\ running' = TRUE /\ Loads(disk)
  BY DEF Load
<1>2. todo = <<>>
  BY DEF Load, IInv, SaveOK
<1>3. UsersOK(users)' /\ UsersOK(saved)'
  <2>1. UsersOK(users')
    BY <1>1, LoadYields
  <2> QED BY <1>1, <2>1 DEF IInv, UsersOK, Own
<1>4. DirsOK'
  BY <1>1 DEF IInv, DirsOK, DirOK, Broken
<1>5. ListOK' /\ IntactOK' /\ SaveOK'
  BY <1>1, <1>2 DEF IInv, ListOK, IntactOK, SaveOK, Broken, NoUsers, AdaptiveOf, PersonalOf
<1> QED BY <1>1, <1>3, <1>4, <1>5 DEF IInv, Disks, Broken, ServiceWrite

-----------------------------------------------------------------------------
LEMMA NextInv ==
  ASSUME IsInjective(SafeId), IInv, [Next]_vars
  PROVE  IInv'
<1>1. CASE UNCHANGED vars
  <2>1. UsersOK(users)' /\ UsersOK(saved)' /\ DirsOK'
    BY <1>1 DEF vars, IInv, UsersOK, Own, DirsOK, DirOK, Broken
  <2>2. ListOK' /\ IntactOK' /\ SaveOK'
    BY <1>1 DEF vars, IInv, ListOK, IntactOK, SaveOK, UserWrites, Broken, NoUsers, AdaptiveOf, PersonalOf,
       ServiceWrite, UserWrite
  <2> QED BY <1>1, <2>1, <2>2 DEF vars, IInv, Disks, Broken, ServiceWrite
<1>2. CASE \E uid \in Uids, p \in Predicates, v \in Values : StoreFact(uid, p, v)
  BY <1>2, StoreFactKeeps
<1>3. CASE \E uid \in Uids : Touch(uid)
  BY <1>3, TouchKeeps
<1>4. CASE \E uid \in Uids, p \in Predicates : ForgetFact(uid, p)
  BY <1>4, ForgetFactKeeps
<1>5. CASE \E uid \in Uids : RemoveUser(uid)
  BY <1>5, RemoveUserKeeps
<1>6. CASE BeginSave
  BY <1>6, BeginSaveKeeps
<1>7. CASE WriteFile
  BY <1>7, LastWriteKeeps, UserWriteKeeps
<1>8. CASE WriteFails
  BY <1>8, DamageKeeps DEF WriteFails, IInv
<1>9. CASE Crash
  BY <1>9, CrashKeeps
<1>10. CASE CrashInWrite
  BY <1>10, DamageKeeps DEF CrashInWrite
<1>11. CASE Load
  BY <1>11, LoadKeeps
<1> QED BY <1>1, <1>2, <1>3, <1>4, <1>5, <1>6, <1>7, <1>8, <1>9, <1>10, <1>11 DEF Next

LEMMA AlwaysInv ==
  ASSUME IsInjective(SafeId)
  PROVE  Spec => []IInv
<1>1. Init => IInv
  BY InitInv
<1>2. IInv /\ [Next]_vars => IInv'
  BY NextInv
<1> QED BY <1>1, <1>2, PTL DEF Spec

(* Where each user id has a directory of its own, the map of users has its *)
(* types, and every memory files its facts under its user's id, also after *)
(* a load of what an interrupted save left.                                *)
THEOREM ServiceTypeCorrect ==
  ASSUME IsInjective(SafeId)
  PROVE  Spec => []TypeOK
<1>1. IInv => TypeOK
  BY DEF IInv, UsersOK, Own, TypeOK
<1> QED BY <1>1, AlwaysInv, PTL

(* A completed save that nothing was written over is restored exactly.     *)
THEOREM ServiceLoadRestores ==
  ASSUME IsInjective(SafeId)
  PROVE  Spec => LoadRestoresSaved
<1>1. IInv /\ [Next]_vars => [~running /\ running' /\ intact => users' = saved]_vars
  <2> SUFFICES ASSUME IInv, Next, ~running, running', intact PROVE users' = saved
    OBVIOUS
  <2>1. Load
    BY DEF Next, StoreFact, Touch, ForgetFact, RemoveUser, Called, BeginSave, WriteFile,
       WriteFails, Crash, CrashInWrite
  <2> QED BY <2>1, LoadYields DEF Load
<1> QED BY <1>1, AlwaysInv, PTL DEF Spec, LoadRestoresSaved

(* Files are there from the first save that completes on, in some form: a  *)
(* load can fail on one that was cut short alone.                          *)
LEMMA CutFilesAlone ==
  ASSUME IsInjective(SafeId), IInv
  PROVE  OpensUnlessCut
<1> USE DEF OpensUnlessCut
<1>1. CASE disk.service = NoFile
  <2>1. ListedIds(disk) = {} /\ disk.service # Torn
    BY <1>1, FileAssumption DEF ListedIds
  <2> QED BY <2>1 DEF Loads
<1>2. CASE disk.service = Torn
  <2>1. ~intact
    BY <1>2, FileAssumption DEF IInv, IntactOK
  <2> QED BY <1>2, <2>1 DEF ReadsTorn
<1>3. CASE disk.service \notin Broken
  <2>1. ListedIds(disk) \subseteq DOMAIN saved
    BY <1>3 DEF ListedIds, Broken, IInv, ListOK
  <2>2. \A uid \in ListedIds(disk) :
          /\ disk.dirs[SafeId[uid]].adaptive # NoFile
          /\ disk.dirs[SafeId[uid]].personal # NoFile
    BY <2>1 DEF IInv, ListOK
  <2>3. CASE Loads(disk)
    BY <2>3
  <2>4. CASE ~Loads(disk)
    <3>1. PICK uid \in ListedIds(disk) :
            \/ disk.dirs[SafeId[uid]].adaptive = Torn
            \/ disk.dirs[SafeId[uid]].personal = Torn
      BY <1>3, <2>2, <2>4 DEF Loads, Broken
    <3>2. ReadsTorn(disk)
      BY <3>1 DEF ReadsTorn
    <3>3. ~intact
      <4> SUFFICES ASSUME intact PROVE FALSE
        BY DEF IInv
      <4>1. /\ disk.dirs[SafeId[uid]].adaptive = AdaptiveOf(saved, uid)
            /\ disk.dirs[SafeId[uid]].personal = PersonalOf(saved, uid)
            /\ uid \in DOMAIN saved /\ saved[uid] \in Memories
        BY <1>3, <2>1, <3>1 DEF IInv, IntactOK, UsersOK, Broken
      <4>2. AdaptiveOf(saved, uid) \in AdaptiveFiles /\ PersonalOf(saved, uid) \in PersonalFiles
        BY <4>1 DEF AdaptiveOf, PersonalOf, AdaptiveFiles, PersonalFiles, Memories
      <4> QED BY <3>1, <4>1, <4>2, FileAssumption
    <3> QED BY <3>2, <3>3
  <2> QED BY <2>3, <2>4
<1> QED BY <1>1, <1>2, <1>3 DEF Broken

(* Whatever save was interrupted, a load brings back the users of the last *)
(* save that completed, and of each a set of facts that a save began with; *)
(* and what does not load has a file that was cut short.                   *)
THEOREM ServiceLoadsWholeUsers ==
  ASSUME IsInjective(SafeId)
  PROVE  Spec => LoadsWholeUsers
<1> DEFINE A == ~running /\ running' =>
                  /\ DOMAIN users' = DOMAIN saved
                  /\ \A uid \in DOMAIN users' : <<uid, users'[uid].facts>> \in versions
<1>1. IInv /\ [Next]_vars => [A]_vars
  <2> SUFFICES ASSUME IInv, Next, ~running, running' PROVE A
    OBVIOUS
  <2>1. Load
    BY DEF Next, StoreFact, Touch, ForgetFact, RemoveUser, Called, BeginSave, WriteFile,
       WriteFails, Crash, CrashInWrite
  <2> QED BY <2>1, LoadYields DEF Load
<1>2. IInv => OpensUnlessCut
  BY CutFilesAlone
<1> QED BY <1>1, <1>2, AlwaysInv, PTL DEF Spec, LoadsWholeUsers

-----------------------------------------------------------------------------
(* AuditTrail                                                              *)

(* The last events of a log, as many as Capacity allows.                   *)
Recent(l) ==
  LET n == Min({Len(l), Capacity})
  IN  SubSeq(l, Len(l) - n + 1, Len(l))

(* A counter and the log it has numbered.                                  *)
Covers(l, c) ==
  /\ \A i \in DOMAIN l : l[i].id[2] <= c
  /\ \A i, j \in DOMAIN l : i < j => l[i].id[2] < l[j].id[2]

(* The events that went to both layers are in the bank.                    *)
Layered(ring, b) == \A i \in DOMAIN ring : ring[i].layered => ring[i] \in b

(* A bank whose kinds fit the vocab.                                       *)
Fits(kinds) == IsFiniteSet(kinds) /\ Cardinality(kinds) <= VocabCap

(* What a file of the trail holds: a trail as record and restore keep it.  *)
SavedTrail(file) ==
  /\ file.log \in Seq(Events)
  /\ file.events = Recent(file.log)
  /\ file.counter \in 0 .. MaxEvents
  /\ Covers(file.log, file.counter)

(* The files.  The file of the bank is written first, so it has every      *)
(* layered event of the file of the trail; and while the trail that was    *)
(* loaded from it runs on, the counter never falls behind it, so no new    *)
(* event overwrites one of those in the bank.                              *)
FilesOK ==
  /\ files = [adaptive |-> files.adaptive, audit |-> files.audit]
  /\ files.adaptive \subseteq Events /\ Fits(KindsOf(files.adaptive))
  /\ AuditFileLoads =>
       /\ SavedTrail(files.audit)
       /\ Layered(files.audit.events, files.adaptive)
       /\ up => /\ files.audit.counter <= counter
                     /\ Layered(files.audit.events, bank)
  /\ step = 2 => up /\ files.adaptive = bank

(* The ids.  As long as the clock goes forward only, each is behind the    *)
(* clock or, in the same millisecond, behind the counter.                  *)
IdsBehind ==
  /\ issued \in Seq((0 .. MaxClock) \X (1 .. MaxEvents))
  /\ ~setBack =>
       /\ IsInjective(issued)
       /\ \A i \in DOMAIN issued :
            /\ issued[i][1] <= clock
            /\ up /\ issued[i][1] = clock => issued[i][2] <= counter

AuditInv ==
  /\ AuditTypeOK
  /\ encrypted \in BOOLEAN /\ step \in {1, 2} /\ (encrypted => step = 1)
  /\ up \in BOOLEAN /\ setBack \in BOOLEAN
  /\ log \in Seq(Events) /\ inMemory = Recent(log)
  /\ CounterCoversLog
  /\ LayersAgree
  /\ FilesOK
  /\ IdsBehind
-----------------------------------------------------------------------------
(* The recent events, one by one.                                          *)
LEMMA RecentEvents ==
  ASSUME NEW l \in Seq(Events)
  PROVE  LET n == IF Len(l) <= Capacity THEN Len(l) ELSE Capacity
         IN  /\ n \in Nat /\ n <= Len(l) /\ n <= Capacity
             /\ Recent(l) \in Seq(Events)
             /\ Len(Recent(l)) = n
             /\ \A i \in 1 .. n : Recent(l)[i] = l[Len(l) - n + i]
<1> DEFINE n == IF Len(l) <= Capacity THEN Len(l) ELSE Capacity
           a == Len(l) - n + 1
<1>1. n \in Nat /\ n <= Len(l) /\ n <= Capacity /\ Len(l) \in Nat /\ Capacity \in Nat
  BY AuditAssumption
<1>2. Min({Len(l), Capacity}) = n
  BY <1>1, MinOfTwo
<1> HIDE DEF n
<1>3. Recent(l) = SubSeq(l, a, Len(l))
  BY <1>2 DEF Recent
<1>4. a \in Int /\ Len(l) \in Int /\ a >= 1 /\ Len(l) - a + 1 = n
  BY <1>1
<1>5. \A i \in a .. Len(l) : l[i] \in Events
  BY <1>1, <1>4
<1>6. \A i \in 1 .. n : a + i - 1 = Len(l) - n + i
  BY <1>1
<1> HIDE DEF a
<1>7. /\ SubSeq(l, a, Len(l)) \in Seq(Events)
      /\ Len(SubSeq(l, a, Len(l))) = IF a <= Len(l) THEN n ELSE 0
      /\ \A i \in 1 .. n : SubSeq(l, a, Len(l))[i] = l[a + i - 1]
  BY <1>4, <1>5, SubSeqProperties
<1>8. Len(SubSeq(l, a, Len(l))) = n
  BY <1>1, <1>4, <1>7
<1> QED BY <1>1, <1>3, <1>6, <1>7, <1>8 DEF n

(* One more event pushes the oldest one out when the ring is full.         *)
LEMMA PushedIsRecent ==
  ASSUME NEW l \in Seq(Events), NEW e \in Events
  PROVE  /\ Pushed(Recent(l), e) = Recent(Append(l, e))
         /\ \A i \in DOMAIN Recent(Append(l, e)) :
              \/ Recent(Append(l, e))[i] = e
              \/ \E j \in DOMAIN Recent(l) : Recent(Append(l, e))[i] = Recent(l)[j]
<1> DEFINE N == Len(l)
           C == Capacity
           r == Recent(l)
           k == Append(l, e)
           q == Recent(k)
<1>1. N \in Nat /\ C \in Nat /\ C # 0
  BY AuditAssumption
<1>2. /\ k \in Seq(Events) /\ Len(k) = N + 1 /\ k[N + 1] = e
      /\ \A i \in 1 .. N : k[i] = l[i]
  OBVIOUS
<1>3. /\ r \in Seq(Events) /\ Len(r) = IF N <= C THEN N ELSE C
      /\ \A i \in 1 .. Len(r) : r[i] = l[N - Len(r) + i]
  BY RecentEvents
<1> HIDE DEF k
<1>4. /\ q \in Seq(Events) /\ Len(q) = IF N + 1 <= C THEN N + 1 ELSE C
      /\ \A i \in 1 .. Len(q) : q[i] = k[(N + 1) - Len(q) + i]
  <2> HIDE DEF q
  <2>1. LET n == IF Len(k) <= Capacity THEN Len(k) ELSE Capacity
        IN  /\ Recent(k) \in Seq(Events)
            /\ Len(Recent(k)) = n
            /\ \A i \in 1 .. n : Recent(k)[i] = k[Len(k) - n + i]
    BY <1>2, RecentEvents
  <2> HIDE DEF N, C
  <2> QED BY <1>2, <2>1 DEF q, C
<1> HIDE DEF r, q, N, C
<1>5. CASE N < C
  <2>1. Len(r) = N /\ Len(q) = N + 1
    BY <1>1, <1>3, <1>4, <1>5
  <2>2. \A i \in 1 .. N : r[i] = l[i] /\ q[i] = l[i]
    <3> TAKE i \in 1 .. N
    <3>1. N - N + i = i /\ (N + 1) - (N + 1) + i = i /\ i \in 1 .. N + 1
      BY <1>1
    <3>2. r[i] = l[i]
      BY <1>3, <2>1, <3>1
    <3>3. q[i] = k[i]
      BY <1>4, <2>1, <3>1
    <3> QED BY <1>2, <3>2, <3>3
  <2>3. q[N + 1] = e
    <3>1. (N + 1) - (N + 1) + (N + 1) = N + 1 /\ N + 1 \in 1 .. N + 1
      BY <1>1
    <3>2. q[N + 1] = k[(N + 1) - Len(q) + (N + 1)]
      BY <1>4, <2>1, <3>1
    <3>3. (N + 1) - Len(q) + (N + 1) = N + 1
      BY <2>1, <3>1
    <3> QED BY <1>2, <3>2, <3>3
  <2>4. Pushed(r, e) = Append(r, e)
    BY <1>1, <1>5, <2>1 DEF Pushed, C
  <2>5. /\ Append(r, e) \in Seq(Events) /\ Len(Append(r, e)) = N + 1
        /\ \A i \in 1 .. N : Append(r, e)[i] = r[i]
        /\ Append(r, e)[N + 1] = e
    BY <1>3, <2>1, AppendProperties
  <2>6. \A i \in 1 .. N + 1 : i \in 1 .. N \/ i = N + 1
    BY <1>1
  <2>7. \A i \in 1 .. N + 1 : Append(r, e)[i] = q[i]
    BY <2>2, <2>3, <2>5, <2>6
  <2>8. Append(r, e) = q
    BY <1>4, <2>1, <2>5, <2>7, SeqEqual
  <2>9. DOMAIN q = 1 .. N + 1 /\ DOMAIN r = 1 .. N
    BY <1>3, <1>4, <2>1
  <2> QED BY <2>2, <2>3, <2>4, <2>6, <2>8, <2>9 DEF r, q, k
<1>6. CASE N >= C
  <2>1. Len(r) = C /\ Len(q) = C
    BY <1>1, <1>3, <1>4, <1>6
  <2> DEFINE t == Tail(r)
  <2>2. /\ t \in Seq(Events) /\ Len(t) = C - 1
        /\ \A i \in 1 .. C - 1 : t[i] = r[i + 1]
    <3>1. r # <<>>
      BY <1>1, <1>3, <2>1
    <3> QED BY <1>3, <2>1, <3>1, HeadTailProperties
  <2> HIDE DEF t
  <2>3. /\ Append(t, e) \in Seq(Events) /\ Len(Append(t, e)) = C
        /\ \A i \in 1 .. C - 1 : Append(t, e)[i] = t[i]
        /\ Append(t, e)[C] = e
    <3>1. (C - 1) + 1 = C
      BY <1>1
    <3> QED BY <2>2, <3>1, AppendProperties
  <2>4. \A i \in 1 .. C - 1 : i + 1 \in 1 .. C /\ q[i] = r[i + 1]
    <3> TAKE i \in 1 .. C - 1
    <3>1. /\ i \in 1 .. C /\ i + 1 \in 1 .. C
          /\ (N + 1) - C + i = N - C + (i + 1) /\ (N + 1) - C + i \in 1 .. N
      BY <1>1, <1>6
    <3>2. q[i] = k[(N + 1) - C + i] /\ r[i + 1] = l[N - C + (i + 1)]
      BY <1>3, <1>4, <2>1, <3>1
    <3> QED BY <1>2, <3>1, <3>2
  <2>5. q[C] = e
    <3>1. C \in 1 .. C /\ (N + 1) - C + C = N + 1
      BY <1>1
    <3> QED BY <1>2, <1>4, <2>1, <3>1
  <2>6. \A i \in 1 .. C : i \in 1 .. C - 1 \/ i = C
    BY <1>1
  <2>7. \A i \in 1 .. C : Append(t, e)[i] = q[i]
    BY <2>2, <2>3, <2>4, <2>5, <2>6
  <2>8. Append(t, e) = q
    BY <1>4, <2>1, <2>3, <2>7, SeqEqual
  <2>9. Pushed(r, e) = Append(t, e)
    BY <1>1, <2>1 DEF Pushed, t, C
  <2>10. DOMAIN q = 1 .. C /\ DOMAIN r = 1 .. C
    BY <1>3, <1>4, <2>1
  <2> QED BY <2>4, <2>5, <2>6, <2>8, <2>9, <2>10 DEF r, q, k
<1> QED BY <1>1, <1>5, <1>6

(* restore keeps every event of a file, because a ring was saved to it.    *)
LEMMA RestoredIsSaved ==
  ASSUME NEW snap, snap.events \in Seq(Events), Len(snap.events) <= Capacity
  PROVE  RestoredRing(snap) = snap.events
<1> DEFINE s == snap.events
           n == Len(s)
           Body(f, i) == IF i = 0 THEN <<>> ELSE Pushed(f[i - 1], s[i])
           c == CHOOSE f : f = [i \in 0 .. n |-> Body(f, i)]
           p == [i \in 0 .. n |-> SubSeq(s, 1, i)]
<1>1. /\ n \in Nat /\ n <= Capacity /\ Capacity \in Nat /\ s \in Seq(Events)
      /\ \A i \in 1 .. n : s[i] \in Events
  BY AuditAssumption
<1>2. RestoredRing(snap) = c[n]
  BY DEF RestoredRing
<1> HIDE DEF s, n
<1>3. ASSUME NEW i \in 0 .. n
      PROVE  /\ SubSeq(s, 1, i) \in Seq(Events) /\ Len(SubSeq(s, 1, i)) = i
             /\ \A j \in 1 .. i : SubSeq(s, 1, i)[j] = s[j]
  <2>1. 1 \in Int /\ i \in Int /\ i - 1 + 1 = i /\ (1 <= i \/ i = 0)
    OBVIOUS
  <2>2. \A j \in 1 .. i : s[j] \in Events /\ 1 + j - 1 = j
    BY <1>1
  <2>3. /\ SubSeq(s, 1, i) \in Seq(Events)
        /\ Len(SubSeq(s, 1, i)) = IF 1 <= i THEN i - 1 + 1 ELSE 0
        /\ \A j \in 1 .. i - 1 + 1 : SubSeq(s, 1, i)[j] = s[1 + j - 1]
    BY <2>1, <2>2, SubSeqProperties
  <2> QED BY <2>1, <2>2, <2>3
<1>4. \A i \in 1 .. n : Pushed(SubSeq(s, 1, i - 1), s[i]) = SubSeq(s, 1, i)
  <2> TAKE i \in 1 .. n
  <2> DEFINE a == SubSeq(s, 1, i - 1)
             b == SubSeq(s, 1, i)
  <2>1. i - 1 \in 0 .. n /\ i \in 0 .. n /\ i - 1 < Capacity /\ s[i] \in Events
        /\ (i - 1) + 1 = i
    BY <1>1
  <2>2. /\ a \in Seq(Events) /\ Len(a) = i - 1
        /\ \A j \in 1 .. i - 1 : a[j] = s[j]
    BY <1>3, <2>1
  <2>3. /\ b \in Seq(Events) /\ Len(b) = i
        /\ \A j \in 1 .. i : b[j] = s[j]
    BY <1>3, <2>1
  <2> HIDE DEF a, b
  <2>4. Pushed(a, s[i]) = Append(a, s[i])
    BY <1>1, <2>1, <2>2 DEF Pushed
  <2>5. /\ Append(a, s[i]) \in Seq(Events) /\ Len(Append(a, s[i])) = i
        /\ \A j \in 1 .. i - 1 : Append(a, s[i])[j] = a[j]
        /\ Append(a, s[i])[i] = s[i]
    BY <2>1, <2>2, AppendProperties
  <2>6. \A j \in 1 .. i : j \in 1 .. i - 1 \/ j = i
    OBVIOUS
  <2>7. \A j \in 1 .. i : Append(a, s[i])[j] = b[j]
    BY <2>2, <2>3, <2>5, <2>6
  <2>8. Append(a, s[i]) = b
    BY <2>3, <2>5, <2>7, SeqEqual
  <2> QED BY <2>4, <2>8 DEF a, b
<1>5. c = [i \in 0 .. n |-> Body(c, i)]
  <2>1. \A i \in 0 .. n : p[i] = Body(p, i)
    <3> TAKE i \in 0 .. n
    <3>1. CASE i = 0
      BY <3>1, SubSeqEmpty
    <3>2. CASE i # 0
      <4>1. i \in 1 .. n /\ i - 1 \in 0 .. n
        BY <1>1, <3>2
      <4> QED BY <1>4, <3>2, <4>1
    <3> QED BY <3>1, <3>2
  <2>2. p = [i \in 0 .. n |-> p[i]]
    OBVIOUS
  <2> HIDE DEF Body, p
  <2>3. p = [i \in 0 .. n |-> Body(p, i)]
    BY <2>1, <2>2
  <2> QED BY <2>3, Zenon
<1> HIDE DEF c
<1>6. c[0] = <<>> /\ \A i \in 1 .. n : c[i] = Pushed(c[i - 1], s[i])
  <2>1. c[0] = Body(c, 0)
    <3>1. 0 \in 0 .. n
      BY <1>1
    <3> HIDE DEF Body
    <3> QED BY <1>5, <3>1
  <2>2. ASSUME NEW i \in 1 .. n PROVE c[i] = Pushed(c[i - 1], s[i])
    <3>1. i \in 0 .. n /\ i # 0
      BY <1>1
    <3>2. c[i] = Body(c, i)
      <4> HIDE DEF Body
      <4> QED BY <1>5, <3>1
    <3> QED BY <3>1, <3>2
  <2> QED BY <2>1, <2>2
<1>7. c[n] = SubSeq(s, 1, n)
  <2> DEFINE Ok == {i \in Nat : i <= n => c[i] = SubSeq(s, 1, i)}
  <2>1. 0 \in Ok
    <3>1. SubSeq(s, 1, 0) = <<>>
      BY SubSeqEmpty
    <3> QED BY <1>6, <3>1
  <2>2. ASSUME NEW i \in Nat, i \in Ok PROVE i + 1 \in Ok
    <3> SUFFICES ASSUME i + 1 <= n PROVE c[i + 1] = SubSeq(s, 1, i + 1)
      OBVIOUS
    <3>1. i + 1 \in 1 .. n /\ (i + 1) - 1 = i /\ c[i] = SubSeq(s, 1, i)
      BY <1>1, <2>2
    <3> QED BY <1>4, <1>6, <3>1
  <2> HIDE DEF Ok
  <2>3. \A i \in Nat : i \in Ok
    BY <2>1, <2>2, SetInduction
  <2> QED BY <1>1, <2>3 DEF Ok
<1>8. SubSeq(s, 1, n) = s
  <2>1. n \in 0 .. n
    BY <1>1
  <2> QED BY <1>1, <1>3, <2>1, SeqEqual DEF n
<1> QED BY <1>2, <1>7, <1>8 DEF s
-----------------------------------------------------------------------------
(* The counter covers the recent events too.                               *)
LEMMA RecentCovered ==
  ASSUME NEW l \in Seq(Events), NEW c \in Nat, Covers(l, c)
  PROVE  \A i \in DOMAIN Recent(l) : /\ Recent(l)[i] \in Events
                                     /\ Recent(l)[i].id[2] <= c
<1> DEFINE n == IF Len(l) <= Capacity THEN Len(l) ELSE Capacity
<1>1. /\ n \in Nat /\ n <= Len(l) /\ Recent(l) \in Seq(Events)
      /\ Len(Recent(l)) = n /\ DOMAIN Recent(l) = 1 .. n
      /\ \A i \in 1 .. n : Recent(l)[i] = l[Len(l) - n + i]
  <2>1. DOMAIN Recent(l) = 1 .. Len(Recent(l))
    BY RecentEvents
  <2> QED BY <2>1, RecentEvents
<1> HIDE DEF n
<1>2. \A i \in 1 .. n : Len(l) - n + i \in DOMAIN l
  BY <1>1
<1> QED BY <1>1, <1>2 DEF Covers

(* An event with a new number takes no other event's place in the bank.    *)
LEMMA LayeredKept ==
  ASSUME NEW ring, NEW b, NEW e, Layered(ring, b),
         \A i \in DOMAIN ring : ring[i].id # e.id
  PROVE  Layered(ring, {x \in b : x.id # e.id} \cup {e})
BY DEF Layered

(* A call that is not about the trail leaves it, and the ids, as they are. *)
LEMMA SameTrail ==
  ASSUME AuditInv, UNCHANGED <<encrypted, counter, inMemory, bank, known, log, issued>>
  PROVE  /\ log' \in Seq(Events) /\ inMemory' = Recent(log)' /\ CounterCoversLog'
         /\ encrypted' \in BOOLEAN
         /\ clock' \in 0 .. MaxClock => AuditTypeOK'
<1>1. Recent(log)' = Recent(log)
  BY DEF Recent
<1>2. AuditTypeOK /\ log \in Seq(Events) /\ inMemory = Recent(log) /\ CounterCoversLog
      /\ encrypted \in BOOLEAN
  BY DEF AuditInv
<1>3. CounterCoversLog'
  BY <1>2 DEF CounterCoversLog
<1>4. clock' \in 0 .. MaxClock => AuditTypeOK'
  BY <1>2 DEF AuditTypeOK
<1> QED BY <1>1, <1>2, <1>3, <1>4

-----------------------------------------------------------------------------
(* The first state satisfies the invariant.                                *)
LEMMA InitIInv == AuditInit => AuditInv
<1> SUFFICES ASSUME AuditInit PROVE AuditInv
  OBVIOUS
<1>1. /\ encrypted \in BOOLEAN /\ up = TRUE /\ clock = 0 /\ counter = 0
      /\ inMemory = <<>> /\ bank = {} /\ known = {} /\ step = 1
      /\ setBack = FALSE /\ log = <<>> /\ issued = <<>>
      /\ files = [adaptive |-> {}, audit |-> NoTrail]
  BY DEF AuditInit
<1>2. <<>> \in Seq(Events) /\ Len(<<>>) = 0 /\ DOMAIN <<>> = {}
  OBVIOUS
<1>3. Fits({})
  BY FS_EmptySet, AuditAssumption DEF Fits
<1>4. KindsOf({}) = {}
  BY DEF KindsOf
<1>5. AuditTypeOK
  BY <1>1, <1>2, <1>3, <1>4, BoundAssumption DEF AuditTypeOK, Fits
<1>6. inMemory = Recent(log)
  <2>1. Recent(log) \in Seq(Events) /\ Len(Recent(log)) = 0
    <3>1. log \in Seq(Events) /\ Len(log) = 0 /\ 0 <= Capacity
      BY <1>1, <1>2, AuditAssumption
    <3> QED BY ONLY <3>1, RecentEvents
  <2> QED BY <1>1, <2>1
<1>7. CounterCoversLog
  BY <1>1, <1>2 DEF CounterCoversLog
<1>8. LayersAgree
  BY <1>1, <1>2 DEF LayersAgree
<1>9. FilesOK
  <2>1. ~AuditFileLoads
    BY <1>1 DEF AuditFileLoads
  <2> QED BY <1>1, <1>3, <1>4, <2>1 DEF FilesOK
<1>10. IdsBehind
  <2>1. <<>> \in Seq((0 .. MaxClock) \X (1 .. MaxEvents))
    OBVIOUS
  <2>2. IsInjective(<<>>)
    BY <1>2 DEF IsInjective
  <2> QED BY <1>1, <1>2, <2>1, <2>2 DEF IdsBehind
<1> QED BY <1>1, <1>2, <1>5, <1>6, <1>7, <1>8, <1>9, <1>10 DEF AuditInv

(* An event that is recorded: it gets the next number, pushes the oldest   *)
(* event out of a full ring, and takes the place of none in the bank.      *)
LEMMA RecordKeeps ==
  ASSUME AuditInv, NEW kind \in Kinds, NEW withMp \in BOOLEAN, Record(kind, withMp)
  PROVE  AuditInv'
<1> DEFINE e == [id |-> <<clock, counter + 1>>, kind |-> kind, layered |-> withMp]
<1>1. /\ up /\ step = 1 /\ counter < MaxEvents /\ NextCounter(counter) = counter + 1
      /\ withMp => kind \in known \/ Cardinality(known) < VocabCap
      /\ counter' = counter + 1
      /\ bank' = IF withMp THEN {x \in bank : x.id # e.id} \cup {e} ELSE bank
      /\ known' = IF withMp THEN known \cup {kind} ELSE known
      /\ inMemory' = Pushed(inMemory, e) /\ log' = Append(log, e)
      /\ issued' = Append(issued, e.id)
      /\ encrypted' = encrypted /\ setBack' = setBack /\ up' = up
      /\ clock' = clock /\ files' = files /\ step' = step
  BY DEF Record, Ready, NextCounter
<1>2. /\ AuditTypeOK /\ encrypted \in BOOLEAN /\ setBack \in BOOLEAN /\ up \in BOOLEAN
      /\ log \in Seq(Events) /\ inMemory = Recent(log)
      /\ CounterCoversLog /\ LayersAgree /\ FilesOK /\ IdsBehind
      /\ counter \in Nat /\ clock \in 0 .. MaxClock
  BY DEF AuditInv, AuditTypeOK
<1>3. e \in Events /\ e.id = <<clock, counter + 1>> /\ e.id[1] = clock
      /\ e.id[2] = counter + 1 /\ e.layered = withMp /\ e.kind = kind
  BY <1>1, <1>2, BoundAssumption DEF Events
<1> HIDE DEF e
<1>4. log' \in Seq(Events) /\ inMemory' = Recent(log')
  BY <1>1, <1>2, <1>3, PushedIsRecent
<1>5. CounterCoversLog'
  <2>1. /\ DOMAIN log' = 1 .. Len(log) + 1 /\ DOMAIN log = 1 .. Len(log)
        /\ \A i \in 1 .. Len(log) : log'[i] = log[i]
        /\ log'[Len(log) + 1] = e /\ Len(log) \in Nat
    BY <1>1, <1>2, <1>3
  <2>2. \A i \in 1 .. Len(log) : log[i].id[2] \in Nat
    <3>1. \A i \in 1 .. Len(log) : log[i] \in Events
      BY <1>2
    <3> QED BY <3>1 DEF Events
  <2>3. \A i \in 1 .. Len(log) : log[i].id[2] <= counter
    BY <1>2, <2>1 DEF CounterCoversLog
  <2>4. ASSUME NEW i \in DOMAIN log'
        PROVE  i \in 1 .. Len(log) \/ i = Len(log) + 1
    BY <2>1
  <2>5. \A i \in DOMAIN log' : log'[i].id[2] <= counter'
    <3> TAKE i \in DOMAIN log'
    <3>1. CASE i \in 1 .. Len(log)
      BY <1>1, <1>2, <2>1, <2>2, <2>3, <3>1
    <3>2. CASE i = Len(log) + 1
      BY <1>1, <1>2, <1>3, <2>1, <3>2
    <3> QED BY <2>4, <3>1, <3>2
  <2>6. \A i, j \in DOMAIN log' : i < j => log'[i].id[2] < log'[j].id[2]
    <3> TAKE i, j \in DOMAIN log'
    <3> SUFFICES ASSUME i < j PROVE log'[i].id[2] < log'[j].id[2]
      OBVIOUS
    <3>1. i \in 1 .. Len(log) /\ log'[i] = log[i]
      BY <2>1, <2>4
    <3>2. CASE j \in 1 .. Len(log)
      BY <1>2, <2>1, <3>1, <3>2 DEF CounterCoversLog
    <3>3. CASE j = Len(log) + 1
      BY <1>2, <1>3, <2>1, <2>2, <2>3, <3>1, <3>3
    <3> QED BY <2>4, <3>2, <3>3
  <2> QED BY <2>5, <2>6 DEF CounterCoversLog
<1>6. /\ bank' \subseteq Events /\ KindsOf(bank') \subseteq known'
      /\ IsFiniteSet(known') /\ Cardinality(known') <= VocabCap
  <2>1. /\ bank \subseteq Events /\ KindsOf(bank) \subseteq known
        /\ IsFiniteSet(known) /\ Cardinality(known) <= VocabCap
    BY <1>2 DEF AuditTypeOK
  <2>2. CASE withMp
    <3>1. /\ IsFiniteSet(known \cup {kind})
          /\ Cardinality(known \cup {kind}) =
               IF kind \in known THEN Cardinality(known) ELSE Cardinality(known) + 1
      BY <2>1, FS_AddElement
    <3>2. Cardinality(known) \in Nat
      BY <2>1, FS_CardinalityType
    <3>3. Cardinality(known \cup {kind}) <= VocabCap
      BY <1>1, <2>1, <2>2, <3>1, <3>2, AuditAssumption
    <3>4. KindsOf(bank') \subseteq known \cup {kind}
      BY <1>1, <1>3, <2>1, <2>2 DEF KindsOf
    <3>5. bank' \subseteq Events
      BY <1>1, <1>3, <2>1, <2>2
    <3> QED BY <1>1, <2>2, <3>1, <3>3, <3>4, <3>5
  <2>3. CASE ~withMp
    BY <1>1, <2>1, <2>3
  <2> QED BY <2>2, <2>3
<1>7. AuditTypeOK'
  <2>1. inMemory' \in Seq(Events)
    BY <1>4, RecentEvents
  <2>2. counter' \in 0 .. MaxEvents
    BY <1>1, <1>2, BoundAssumption
  <2> QED BY <1>1, <1>2, <1>6, <2>1, <2>2 DEF AuditTypeOK
<1>8. ASSUME NEW ring, Layered(ring, bank), NEW c \in Nat, c <= counter,
             \A i \in DOMAIN ring : ring[i] \in Events /\ ring[i].id[2] <= c
      PROVE  Layered(ring, bank')
  <2>1. \A i \in DOMAIN ring : ring[i].id[2] \in Nat
    BY <1>8 DEF Events
  <2>2. \A i \in DOMAIN ring : ring[i].id # e.id
    BY <1>2, <1>3, <1>8, <2>1
  <2>3. Layered(ring, {x \in bank : x.id # e.id} \cup {e})
    BY <1>8, <2>2, LayeredKept
  <2> QED BY <1>1, <1>8, <2>3
<1>9. LayersAgree'
  <2>1. Layered(inMemory, bank)
    BY <1>1, <1>2 DEF LayersAgree, Layered
  <2>2. \A i \in DOMAIN inMemory : inMemory[i] \in Events /\ inMemory[i].id[2] <= counter
    BY <1>2, RecentCovered DEF CounterCoversLog, Covers
  <2>3. Layered(inMemory, bank')
    BY <1>2, <1>8, <2>1, <2>2
  <2>4. \A i \in DOMAIN inMemory' :
          inMemory'[i] = e \/ \E j \in DOMAIN inMemory : inMemory'[i] = inMemory[j]
    BY <1>1, <1>2, <1>3, <1>4, PushedIsRecent
  <2>5. withMp => e \in bank'
    BY <1>1
  <2> QED BY <1>3, <2>3, <2>4, <2>5 DEF LayersAgree, Layered
<1>10. FilesOK'
  <2>1. AuditFileLoads' = AuditFileLoads
    BY <1>1 DEF AuditFileLoads
  <2>2. ASSUME AuditFileLoads
        PROVE  /\ files.audit.counter <= counter'
               /\ Layered(files.audit.events, bank')
    <3>1. /\ SavedTrail(files.audit) /\ files.audit.counter <= counter
          /\ Layered(files.audit.events, bank)
      BY <1>1, <1>2, <2>2 DEF FilesOK
    <3>2. files.audit.counter \in Nat
      BY <3>1 DEF SavedTrail
    <3>3. \A i \in DOMAIN files.audit.events :
            /\ files.audit.events[i] \in Events
            /\ files.audit.events[i].id[2] <= files.audit.counter
      BY <3>1, <3>2, RecentCovered DEF SavedTrail
    <3>4. Layered(files.audit.events, bank')
      BY <1>8, <3>1, <3>2, <3>3
    <3> QED BY <1>1, <1>2, <3>1, <3>2, <3>4
  <2> QED BY <1>1, <1>2, <2>1, <2>2 DEF FilesOK
<1>11. IdsBehind'
  <2> DEFINE Ids == (0 .. MaxClock) \X (1 .. MaxEvents)
             t == issued'
  <2>1. issued \in Seq(Ids) /\ e.id \in Ids
    BY <1>1, <1>2, <1>3, BoundAssumption DEF IdsBehind
  <2>2. /\ t \in Seq(Ids) /\ DOMAIN t = 1 .. Len(issued) + 1 /\ Len(issued) \in Nat
        /\ DOMAIN issued = 1 .. Len(issued)
        /\ \A i \in 1 .. Len(issued) : t[i] = issued[i]
        /\ t[Len(issued) + 1] = e.id
    <3> HIDE DEF Ids
    <3> QED BY <1>1, <2>1
  <2>3. ASSUME ~setBack
        PROVE  /\ IsInjective(t)
               /\ \A i \in DOMAIN t : /\ t[i][1] <= clock
                                      /\ t[i][1] = clock => t[i][2] <= counter + 1
    <3>1. /\ IsInjective(issued)
          /\ \A i \in DOMAIN issued : /\ issued[i][1] <= clock
                                      /\ issued[i][1] = clock => issued[i][2] <= counter
      BY <1>1, <1>2, <2>3 DEF IdsBehind
    <3>2. \A i \in DOMAIN issued : issued[i][2] \in Nat
      BY <2>1
    <3>3. \A i \in DOMAIN issued : issued[i] # e.id
      BY <1>2, <1>3, <3>1, <3>2
    <3>4. \A i \in DOMAIN t : i \in DOMAIN issued \/ i = Len(issued) + 1
      BY <2>2
    <3>5. IsInjective(t)
      BY <2>2, <3>1, <3>3, <3>4 DEF IsInjective
    <3>6. \A i \in DOMAIN t : /\ t[i][1] <= clock
                              /\ t[i][1] = clock => t[i][2] <= counter + 1
      <4> TAKE i \in DOMAIN t
      <4>1. CASE i \in DOMAIN issued
        <5>1. t[i] = issued[i]
          BY <2>2, <4>1
        <5>2. issued[i][1] <= clock /\ (issued[i][1] = clock => issued[i][2] <= counter)
          BY <3>1, <4>1
        <5>3. issued[i][2] \in Nat /\ counter \in Nat
          BY <1>2, <3>2, <4>1
        <5> QED BY <5>1, <5>2, <5>3
      <4>2. CASE i = Len(issued) + 1
        BY <1>2, <1>3, <2>2, <4>2
      <4> QED BY <3>4, <4>1, <4>2
    <3> QED BY <3>5, <3>6
  <2> QED BY <1>1, <2>2, <2>3 DEF IdsBehind
<1> QED BY <1>1, <1>2, <1>4, <1>5, <1>7, <1>9, <1>10, <1>11 DEF AuditInv
(* A file that is saved: the bank's while the bank has every layered event *)
(* of the older trail in the other file, the trail's while the bank in the *)
(* other file is the one it goes with.                                     *)
LEMMA SaveKeeps == AuditInv /\ SaveFile => AuditInv'
<1> SUFFICES ASSUME AuditInv, SaveFile PROVE AuditInv'
  OBVIOUS
<1>1. /\ up /\ files' = AuditWritten(SaveOrder[step])
      /\ step' = IF step = LastFile THEN 1 ELSE step + 1
      /\ encrypted' = encrypted /\ setBack' = setBack /\ up' = up /\ clock' = clock
      /\ counter' = counter /\ inMemory' = inMemory /\ bank' = bank /\ known' = known
      /\ log' = log /\ issued' = issued
  BY DEF SaveFile
<1>2. /\ AuditTypeOK /\ encrypted \in BOOLEAN /\ step \in {1, 2} /\ (encrypted => step = 1)
      /\ log \in Seq(Events) /\ inMemory = Recent(log)
      /\ CounterCoversLog /\ LayersAgree /\ FilesOK /\ IdsBehind
      /\ counter \in 0 .. MaxEvents
  BY DEF AuditInv, AuditTypeOK
<1>3. /\ log' \in Seq(Events) /\ inMemory' = Recent(log)' /\ CounterCoversLog'
      /\ AuditTypeOK'
  <2>1. clock' \in 0 .. MaxClock
    BY <1>1, <1>2 DEF AuditTypeOK
  <2> QED BY <1>1, <2>1, SameTrail
<1>4. LayersAgree' /\ IdsBehind'
  BY <1>1, <1>2 DEF LayersAgree, IdsBehind
<1>5. Layered(inMemory, bank)
  BY <1>1, <1>2 DEF LayersAgree, Layered
<1>6. /\ bank \subseteq Events /\ Fits(KindsOf(bank))
  <2>1. KindsOf(bank) \in SUBSET known /\ IsFiniteSet(known)
        /\ Cardinality(known) <= VocabCap /\ bank \subseteq Events
    BY <1>2 DEF AuditTypeOK
  <2>2. /\ IsFiniteSet(KindsOf(bank))
        /\ Cardinality(KindsOf(bank)) <= Cardinality(known)
    BY <2>1, FS_Subset
  <2>3. Cardinality(KindsOf(bank)) \in Nat /\ Cardinality(known) \in Nat
    BY <2>1, <2>2, FS_CardinalityType
  <2> QED BY <2>1, <2>2, <2>3, AuditAssumption DEF Fits
<1>7. CASE step = 1
  <2>1. files' = [files EXCEPT !.adaptive = bank]
    BY <1>1, <1>7 DEF AuditWritten, SaveOrder
  <2>2. /\ files = [adaptive |-> files.adaptive, audit |-> files.audit]
        /\ AuditFileLoads => /\ SavedTrail(files.audit)
                             /\ files.audit.counter <= counter
                             /\ Layered(files.audit.events, bank)
    BY <1>1, <1>2 DEF FilesOK
  <2>3. files' = [adaptive |-> bank, audit |-> files.audit]
    BY <2>1, <2>2
  <2>4. files'.adaptive = bank /\ files'.audit = files.audit
    BY <2>3
  <2>5. AuditFileLoads' = AuditFileLoads
    BY <2>4 DEF AuditFileLoads
  <2>6. FilesOK'
    BY <1>1, <1>6, <2>2, <2>3, <2>4, <2>5 DEF FilesOK
  <2>7. step' \in {1, 2} /\ (encrypted => step' = 1)
    BY <1>1, <1>7 DEF LastFile
  <2> QED BY <1>1, <1>2, <1>3, <1>4, <2>6, <2>7 DEF AuditInv
<1>8. CASE step = 2
  <2> DEFINE file == [events |-> inMemory, counter |-> counter, log |-> log]
  <2>1. files' = [files EXCEPT !.audit = file]
    BY <1>1, <1>8 DEF AuditWritten, SaveOrder, SavedEvents
  <2>2. /\ files = [adaptive |-> files.adaptive, audit |-> files.audit]
        /\ files.adaptive = bank
    BY <1>2, <1>8 DEF FilesOK
  <2>3. SavedTrail(file)
    BY <1>2 DEF SavedTrail, CounterCoversLog, Covers
  <2>4. files' = [adaptive |-> bank, audit |-> file]
    BY <2>1, <2>2
  <2>5. file.counter = counter /\ file.events = inMemory
    OBVIOUS
  <2> HIDE DEF file
  <2>6. files'.adaptive = bank /\ files'.audit = file
    BY <2>4
  <2>7. ~encrypted /\ LastFile = 2 /\ step' = 1
    <3>1. ~encrypted
      BY <1>2, <1>8
    <3>2. Len(SaveOrder) = 2
      BY DEF SaveOrder
    <3> QED BY <1>1, <1>8, <3>1, <3>2 DEF LastFile
  <2>8. FilesOK'
    BY <1>1, <1>2, <1>5, <1>6, <2>3, <2>4, <2>5, <2>6, <2>7 DEF FilesOK
  <2> QED BY <1>1, <1>2, <1>3, <1>4, <2>7, <2>8 DEF AuditInv
<1> QED BY <1>2, <1>7, <1>8

(* A restart finds the two files of a crash agreeing, and puts a new trail *)
(* in the place of one that is gone; the clock has moved on.               *)
LEMMA RestartKeeps == AuditInv /\ Restart => AuditInv'
<1> SUFFICES ASSUME AuditInv, Restart PROVE AuditInv'
  OBVIOUS
<1>1. /\ ~up /\ clock < MaxClock /\ clock' = clock + 1 /\ up' = TRUE
      /\ bank' = files.adaptive /\ known' = KindsOf(bank')
      /\ encrypted' = encrypted /\ setBack' = setBack /\ files' = files /\ step' = step
      /\ issued' = issued
  BY DEF Restart
<1>2. /\ clock \in 0 .. MaxClock /\ counter \in 0 .. MaxEvents
      /\ encrypted \in BOOLEAN /\ step \in {1, 2} /\ (encrypted => step = 1)
      /\ FilesOK /\ IdsBehind /\ setBack \in BOOLEAN
  BY DEF AuditInv, AuditTypeOK
<1>3. step = 1
  BY <1>1, <1>2 DEF FilesOK
<1>4. files.adaptive \subseteq Events /\ Fits(KindsOf(files.adaptive))
  BY <1>2 DEF FilesOK
<1>5. AuditFileLoads' = AuditFileLoads
  BY <1>1 DEF AuditFileLoads
<1>6. /\ log' \in Seq(Events) /\ inMemory' = Recent(log')
      /\ counter' \in 0 .. MaxEvents /\ Covers(log', counter')
      /\ Layered(inMemory', bank')
      /\ AuditFileLoads => /\ counter' = files.audit.counter
                           /\ inMemory' = files.audit.events
  <2>1. CASE AuditFileLoads
    <3> DEFINE file == files.audit
    <3>1. SavedTrail(file) /\ Layered(file.events, files.adaptive)
      BY <1>2, <2>1 DEF FilesOK
    <3>2. /\ inMemory' = RestoredRing(file) /\ log' = file.log
          /\ counter' = file.counter
      BY <2>1 DEF Restart, RestoredCounter
    <3> HIDE DEF file
    <3>3. /\ file.log \in Seq(Events) /\ file.events = Recent(file.log)
          /\ file.counter \in 0 .. MaxEvents /\ Covers(file.log, file.counter)
      BY <3>1 DEF SavedTrail
    <3>4. Recent(file.log) \in Seq(Events) /\ Len(Recent(file.log)) <= Capacity
      BY <3>3, RecentEvents
    <3>5. RestoredRing(file) = file.events
      BY <3>3, <3>4, RestoredIsSaved
    <3> QED BY <1>1, <3>1, <3>2, <3>3, <3>5 DEF file
  <2>2. CASE ~AuditFileLoads
    <3>1. inMemory' = <<>> /\ log' = <<>> /\ counter' = 0
      BY <2>2 DEF Restart
    <3>2. <<>> \in Seq(Events) /\ DOMAIN <<>> = {} /\ Len(<<>>) = 0
      OBVIOUS
    <3>3. Recent(log') \in Seq(Events) /\ Len(Recent(log')) = 0
      <4>1. log' \in Seq(Events) /\ Len(log') = 0 /\ 0 <= Capacity
        BY <3>1, <3>2, AuditAssumption
      <4> QED BY ONLY <4>1, RecentEvents
    <3>4. Recent(log') = <<>>
      BY <3>3
    <3>5. Covers(log', counter') /\ Layered(inMemory', bank')
      BY <3>1, <3>2 DEF Covers, Layered
    <3>6. counter' \in 0 .. MaxEvents
      BY <3>1, BoundAssumption
    <3> QED BY <2>2, <3>1, <3>2, <3>4, <3>5, <3>6
  <2> QED BY <2>1, <2>2
<1>7. AuditTypeOK'
  <2>1. inMemory' \in Seq(Events)
    BY <1>6, RecentEvents
  <2>2. clock' \in 0 .. MaxClock
    BY <1>1, <1>2, BoundAssumption
  <2> QED BY <1>1, <1>4, <1>6, <2>1, <2>2 DEF AuditTypeOK, Fits
<1>8. CounterCoversLog' /\ LayersAgree'
  BY <1>6 DEF CounterCoversLog, Covers, LayersAgree, Layered
<1>9. FilesOK'
  BY <1>1, <1>2, <1>3, <1>5, <1>6 DEF FilesOK, SavedTrail
<1>10. IdsBehind'
  <2>1. \A j \in DOMAIN issued : issued[j][1] \in Nat
    BY <1>2 DEF IdsBehind
  <2> QED BY <1>1, <1>2, <2>1 DEF IdsBehind
<1> QED BY <1>1, <1>2, <1>3, <1>6, <1>7, <1>8, <1>9, <1>10 DEF AuditInv

(* The steps that touch neither the trail nor a file, or cut a file short. *)
LEMMA OtherKeeps ==
  ASSUME AuditInv, Tick \/ ClockSetBack \/ RecordFails \/ AuditCrash \/ CrashInAuditFile
               \/ UNCHANGED auditVars
  PROVE  AuditInv'
<1>1. /\ AuditTypeOK /\ encrypted \in BOOLEAN /\ setBack \in BOOLEAN /\ up \in BOOLEAN
      /\ step \in {1, 2} /\ (encrypted => step = 1)
      /\ log \in Seq(Events) /\ inMemory = Recent(log)
      /\ CounterCoversLog /\ LayersAgree /\ FilesOK /\ IdsBehind
      /\ clock \in 0 .. MaxClock /\ counter \in 0 .. MaxEvents /\ MaxClock \in Nat
  BY BoundAssumption DEF AuditInv, AuditTypeOK
<1>2. \A j \in DOMAIN issued : issued[j][1] \in Nat /\ issued[j][2] \in Nat
  BY <1>1 DEF IdsBehind
<1>3. CASE Tick
  <2>1. /\ clock' = clock + 1 /\ clock < MaxClock
        /\ UNCHANGED <<encrypted, setBack, up, counter, inMemory, bank, known,
                       files, step, log, issued>>
    BY <1>3 DEF Tick
  <2>2. /\ log' \in Seq(Events) /\ inMemory' = Recent(log)' /\ CounterCoversLog'
        /\ AuditTypeOK'
    <3>1. clock' \in 0 .. MaxClock
      BY <1>1, <2>1
    <3> QED BY <2>1, <3>1, SameTrail
  <2>3. LayersAgree' /\ FilesOK'
    BY <1>1, <2>1 DEF LayersAgree, FilesOK, AuditFileLoads
  <2>4. IdsBehind'
    BY <1>1, <1>2, <2>1 DEF IdsBehind
  <2> QED BY <1>1, <2>1, <2>2, <2>3, <2>4 DEF AuditInv
<1>4. CASE ClockSetBack
  <2>1. /\ clock' = clock - 1 /\ clock > 0 /\ setBack' = TRUE
        /\ UNCHANGED <<encrypted, up, counter, inMemory, bank, known,
                       files, step, log, issued>>
    BY <1>4 DEF ClockSetBack
  <2>2. /\ log' \in Seq(Events) /\ inMemory' = Recent(log)' /\ CounterCoversLog'
        /\ AuditTypeOK'
    <3>1. clock' \in 0 .. MaxClock
      BY <1>1, <2>1
    <3> QED BY <2>1, <3>1, SameTrail
  <2>3. LayersAgree' /\ FilesOK'
    BY <1>1, <2>1 DEF LayersAgree, FilesOK, AuditFileLoads
  <2>4. IdsBehind'
    BY <1>1, <2>1 DEF IdsBehind
  <2> QED BY <1>1, <2>1, <2>2, <2>3, <2>4 DEF AuditInv
<1>5. CASE RecordFails
  <2>1. /\ counter' = counter + 1 /\ counter < MaxEvents /\ up
        /\ UNCHANGED <<encrypted, setBack, up, clock, inMemory, bank, known,
                       files, step, log, issued>>
    BY <1>5 DEF RecordFails, Ready, NextCounter
  <2>2. counter' \in 0 .. MaxEvents /\ MaxEvents \in Nat
    BY <1>1, <2>1, BoundAssumption
  <2>3. AuditTypeOK'
    BY <1>1, <2>1, <2>2 DEF AuditTypeOK
  <2>4. CounterCoversLog'
    <3>1. \A i \in DOMAIN log : log[i].id[2] <= counter + 1
      <4> TAKE i \in DOMAIN log
      <4>1. log[i] \in Events
        BY <1>1
      <4>2. log[i].id[2] \in Nat /\ log[i].id[2] <= counter
        BY <1>1, <4>1 DEF Events, CounterCoversLog
      <4> QED BY <1>1, <4>2
    <3> QED BY <1>1, <2>1, <3>1 DEF CounterCoversLog
  <2>5. inMemory' = Recent(log')
    BY <1>1, <2>1
  <2>6. LayersAgree'
    BY <1>1, <2>1 DEF LayersAgree
  <2>7. FilesOK'
    <3>1. AuditFileLoads' = AuditFileLoads
      BY <2>1 DEF AuditFileLoads
    <3>2. AuditFileLoads => files.audit.counter <= counter + 1
      <4> SUFFICES ASSUME AuditFileLoads PROVE files.audit.counter <= counter + 1
        OBVIOUS
      <4>1. files.audit.counter <= counter /\ files.audit.counter \in 0 .. MaxEvents
        BY <1>1, <2>1 DEF FilesOK, SavedTrail
      <4> QED BY <1>1, <2>2, <4>1
    <3> QED BY <1>1, <2>1, <3>1, <3>2 DEF FilesOK
  <2>8. IdsBehind'
    <3>1. \A j \in DOMAIN issued : issued[j][2] <= counter => issued[j][2] <= counter + 1
      BY <1>1, <1>2
    <3> QED BY <1>1, <2>1, <3>1 DEF IdsBehind
  <2> QED BY <1>1, <2>1, <2>3, <2>4, <2>5, <2>6, <2>7, <2>8 DEF AuditInv
<1>6. CASE AuditCrash
  <2>1. /\ up' = FALSE /\ step' = 1
        /\ UNCHANGED <<encrypted, setBack, clock, counter, inMemory, bank, known,
                       files, log, issued>>
    BY <1>6 DEF AuditCrash
  <2>2. /\ log' \in Seq(Events) /\ inMemory' = Recent(log)' /\ CounterCoversLog'
        /\ AuditTypeOK'
    BY <1>1, <2>1, SameTrail
  <2>3. LayersAgree' /\ FilesOK'
    BY <1>1, <2>1 DEF LayersAgree, FilesOK, AuditFileLoads
  <2>4. IdsBehind'
    BY <1>1, <2>1 DEF IdsBehind
  <2> QED BY <1>1, <2>1, <2>2, <2>3, <2>4 DEF AuditInv
<1>7. CASE CrashInAuditFile
  <2>1. /\ up' = FALSE /\ step' = 1 /\ files' = [files EXCEPT !.audit = CutShort]
        /\ UNCHANGED <<encrypted, setBack, clock, counter, inMemory, bank, known,
                       log, issued>>
    BY <1>7 DEF CrashInAuditFile
  <2>2. /\ log' \in Seq(Events) /\ inMemory' = Recent(log)' /\ CounterCoversLog'
        /\ AuditTypeOK'
    BY <1>1, <2>1, SameTrail
  <2>3. LayersAgree'
    BY <2>1 DEF LayersAgree
  <2>4. files' = [adaptive |-> files.adaptive, audit |-> CutShort]
    BY <1>1, <2>1 DEF FilesOK
  <2>5. files'.adaptive = files.adaptive /\ files'.audit = CutShort
    BY <2>4
  <2>6. ~AuditFileLoads'
    BY <2>5 DEF AuditFileLoads
  <2>7. FilesOK'
    BY <1>1, <2>1, <2>4, <2>5, <2>6 DEF FilesOK
  <2>8. IdsBehind'
    BY <1>1, <2>1 DEF IdsBehind
  <2> QED BY <1>1, <2>1, <2>2, <2>3, <2>7, <2>8 DEF AuditInv
<1>8. CASE UNCHANGED auditVars
  <2>1. UNCHANGED <<encrypted, setBack, up, clock, counter, inMemory, bank, known,
                    files, step, log, issued>>
    BY <1>8 DEF auditVars
  <2>2. /\ log' \in Seq(Events) /\ inMemory' = Recent(log)' /\ CounterCoversLog'
        /\ AuditTypeOK'
    BY <1>1, <2>1, SameTrail
  <2>3. LayersAgree' /\ FilesOK' /\ IdsBehind'
    BY <1>1, <2>1 DEF LayersAgree, FilesOK, AuditFileLoads, IdsBehind
  <2> QED BY <1>1, <2>1, <2>2, <2>3 DEF AuditInv
<1> QED BY <1>3, <1>4, <1>5, <1>6, <1>7, <1>8

(* So does every step from a state that satisfies it.                      *)
LEMMA NextIInv == AuditInv /\ [AuditNext]_auditVars => AuditInv'
BY RecordKeeps, SaveKeeps, RestartKeeps, OtherKeeps DEF AuditNext

(* The invariant holds in every reachable state.                           *)
LEMMA AlwaysIInv == AuditSpec => []AuditInv
BY InitIInv, NextIInv, PTL DEF AuditSpec

-----------------------------------------------------------------------------
(* Through evictions, failed calls and reloads the trail holds the most    *)
(* recent events of its log, in order.                                     *)
THEOREM TrailHoldsMostRecent == AuditSpec => []HoldsMostRecent
<1>1. AuditInv => HoldsMostRecent
  BY DEF AuditInv, HoldsMostRecent, Recent
<1> QED BY <1>1, AlwaysIInv, PTL

(* No trail numbers two events alike, not even after it was loaded.        *)
THEOREM CounterAlwaysCovers == AuditSpec => []CounterCoversLog
BY AlwaysIInv, PTL DEF AuditInv

(* What the trail shows as recorded in both layers is in the bank, also    *)
(* when a crash fell between the two files or inside the second.           *)
THEOREM LayersAlwaysAgree == AuditSpec => []LayersAgree
BY AlwaysIInv, PTL DEF AuditInv

(* No two events of a user ever have one id while the clock is not set     *)
(* back, although a restart may forget the counter.                        *)
THEOREM IdsAlwaysUnique == AuditSpec => []IdsUnique
<1>1. AuditInv => IdsUnique
  BY DEF AuditInv, IdsBehind, IdsUnique
<1> QED BY <1>1, AlwaysIInv, PTL

-----------------------------------------------------------------------------
(* Extraction                                                              *)

-----------------------------------------------------------------------------
(* The inductive invariant                                                 *)
AnyReply == UNION {Replies[m] : m \in Messages}

(* What a thread has added to a counter for the answer it is counting      *)
Paid(t, c) ==
  IF pc[t] = "counting" /\ c \notin toAdd[t] THEN Implied(server[t])[c] ELSE 0

ThreadsTyped ==
  /\ pc \in [Threads -> {"idle", "waiting", "counting", "stats"}]
  /\ DOMAIN message = Threads
  /\ DOMAIN server = Threads
  /\ DOMAIN toAdd = Threads
  /\ DOMAIN toRead = Threads
  /\ snapshot \in [Threads -> [Counters -> Nat]]
  /\ floor \in [Threads -> [Counters -> Nat]]
  /\ \A t \in Threads :
       /\ pc[t] = "waiting" => message[t] \in Messages
       /\ server[t] # Missing => server[t] \in AnyReply
       /\ pc[t] = "counting" =>
            /\ server[t] \in AnyReply /\ server[t].status = "ok"
            /\ toAdd[t] \subseteq Counts(server[t])

CountersTyped ==
  /\ total \in [Counters -> Nat]
  /\ answered \in [Counters -> Nat]
  /\ returned \in [Counters -> Nat]

SumsAgree ==
  \A c \in Counters :
    /\ total[c] + SumFunction([t \in Threads |-> Owed(t, c)]) = answered[c]
    /\ returned[c] + SumFunction([t \in Threads |-> Paid(t, c)]) = total[c]

ReadsAgree ==
  \A t \in Threads :
    /\ \A c \in Counters : floor[t][c] <= returned[c]
    /\ \A c \in Counters \ toRead[t] : snapshot[t][c] \in floor[t][c] .. answered[c]

ExtractInv == ThreadsTyped /\ CountersTyped /\ SumsAgree /\ ReadsAgree

-----------------------------------------------------------------------------
(* What an answer counts for is what is added for it.                      *)
LEMMA AmountsAre ==
  ASSUME NEW r \in AnyReply, r.status = "ok"
  PROVE  /\ Counts(r) \subseteq Counters
         /\ \A c \in Counters :
              /\ Implied(r)[c] \in Nat
              /\ c \in Counts(r) => Amount(r, c) = Implied(r)[c]
              /\ c \notin Counts(r) => Implied(r)[c] = 0
<1>1. r.usage = Missing \/ r.usage \in [Tokens -> Nat \cup {Missing}]
  BY UsageAssumption DEF AnyReply
<1>2. \A c \in Counters : c = "calls" \/ c \in Tokens
  BY DEF Counters
<1>3. "calls" \notin Tokens /\ "calls" \in Counters /\ Tokens \subseteq Counters
  BY DEF Tokens, Counters
<1>4. CASE r.usage = Missing
  <2>1. Counts(r) = {"calls"}
    BY <1>4 DEF Counts
  <2> QED BY <1>3, <1>4, <2>1 DEF Implied, Amount
<1>5. CASE r.usage # Missing
  <2>1. r.usage \in [Tokens -> Nat \cup {Missing}]
    BY <1>1, <1>5
  <2>2. Counts(r) = {"calls"} \cup {c \in Tokens : r.usage[c] # Missing}
    BY <1>5, <2>1 DEF Counts
  <2>3. \A c \in Tokens : r.usage[c] = Missing \/ r.usage[c] \in Nat
    BY <2>1
  <2> QED BY <1>2, <1>3, <1>5, <2>2, <2>3 DEF Implied, Amount
<1> QED BY <1>4, <1>5

LEMMA OwedAndPaid ==
  ASSUME ThreadsTyped, NEW t \in Threads, NEW c \in Counters
  PROVE  /\ Owed(t, c) \in Nat /\ Paid(t, c) \in Nat
         /\ pc[t] # "counting" => Owed(t, c) = 0 /\ Paid(t, c) = 0
         /\ pc[t] = "counting" =>
              /\ Implied(server[t])[c] \in Nat
              /\ c \in toAdd[t] => Owed(t, c) = Implied(server[t])[c] /\ Paid(t, c) = 0
              /\ c \notin toAdd[t] => Owed(t, c) = 0 /\ Paid(t, c) = Implied(server[t])[c]
<1>1. CASE pc[t] # "counting"
  BY <1>1 DEF Owed, Paid
<1>2. CASE pc[t] = "counting"
  <2>1. server[t] \in AnyReply /\ server[t].status = "ok" /\ toAdd[t] \subseteq Counts(server[t])
    BY <1>2 DEF ThreadsTyped
  <2> QED BY <1>2, <2>1, AmountsAre DEF Owed, Paid
<1> QED BY <1>1, <1>2

OwedAndPaidTyped ==
  \A t \in Threads, c \in Counters : Owed(t, c) \in Nat /\ Paid(t, c) \in Nat

LEMMA OwedAndPaidType == ThreadsTyped => OwedAndPaidTyped
  BY OwedAndPaid DEF OwedAndPaidTyped

OwedSum(c) == SumFunction([t \in Threads |-> Owed(t, c)])
PaidSum(c) == SumFunction([t \in Threads |-> Paid(t, c)])

LEMMA SumsType ==
  ASSUME ThreadsTyped, NEW c \in Counters
  PROVE  OwedSum(c) \in Nat /\ PaidSum(c) \in Nat
<1>1. /\ [t \in Threads |-> Owed(t, c)] \in [Threads -> Nat]
      /\ [t \in Threads |-> Paid(t, c)] \in [Threads -> Nat]
  BY OwedAndPaid
<1> QED BY <1>1, ThreadsAssumption, SumType DEF OwedSum, PaidSum

(* A step of one thread changes the sums by what it changes for the thread *)
LEMMA SumsOfAStep ==
  ASSUME ThreadsTyped, ThreadsTyped', NEW t \in Threads, NEW c \in Counters,
         \A u \in Threads \ {t} :
           pc'[u] = pc[u] /\ toAdd'[u] = toAdd[u] /\ server'[u] = server[u]
  PROVE  /\ OwedSum(c) \in Nat /\ OwedSum(c)' \in Nat
         /\ PaidSum(c) \in Nat /\ PaidSum(c)' \in Nat
         /\ OwedSum(c) + Owed(t, c)' = OwedSum(c)' + Owed(t, c)
         /\ PaidSum(c) + Paid(t, c)' = PaidSum(c)' + Paid(t, c)
<1> DEFINE f == [u \in Threads |-> Owed(u, c)]
           g == [u \in Threads |-> Owed(u, c)']
           p == [u \in Threads |-> Paid(u, c)]
           q == [u \in Threads |-> Paid(u, c)']
<1>1. OwedSum(c) = SumFunction(f) /\ PaidSum(c) = SumFunction(p)
  BY DEF OwedSum, PaidSum
<1>2. OwedSum(c)' = SumFunction(g) /\ PaidSum(c)' = SumFunction(q)
  BY DEF OwedSum, PaidSum
<1>3. \A u \in Threads : Owed(u, c) \in Nat /\ Paid(u, c) \in Nat
  BY OwedAndPaid
<1>4. \A u \in Threads : Owed(u, c)' \in Nat /\ Paid(u, c)' \in Nat
  <2>1. ThreadsTyped' => OwedAndPaidTyped'
    BY OwedAndPaidType, PTL
  <2> QED BY <2>1 DEF OwedAndPaidTyped
<1>5. f \in [Threads -> Nat] /\ g \in [Threads -> Nat]
      /\ p \in [Threads -> Nat] /\ q \in [Threads -> Nat]
  BY <1>3, <1>4
<1>6. \A u \in Threads \ {t} : f[u] = g[u] /\ p[u] = q[u]
  BY DEF Owed, Paid
<1>7. f[t] = Owed(t, c) /\ g[t] = Owed(t, c)' /\ p[t] = Paid(t, c) /\ q[t] = Paid(t, c)'
  OBVIOUS
<1> HIDE DEF f, g, p, q
<1>8. /\ SumFunction(f) \in Nat /\ SumFunction(g) \in Nat
      /\ SumFunction(f) + g[t] = SumFunction(g) + f[t]
  BY <1>5, <1>6, ThreadsAssumption, SumExcept
<1>9. /\ SumFunction(p) \in Nat /\ SumFunction(q) \in Nat
      /\ SumFunction(p) + q[t] = SumFunction(q) + p[t]
  BY <1>5, <1>6, ThreadsAssumption, SumExcept
<1> QED BY <1>1, <1>2, <1>7, <1>8, <1>9


LEMMA SumOfNothing ==
  ASSUME NEW c, \A t \in Threads : pc[t] # "counting"
  PROVE  OwedSum(c) = 0 /\ PaidSum(c) = 0
<1> DEFINE f == [t \in Threads |-> Owed(t, c)]
           p == [t \in Threads |-> Paid(t, c)]
<1>1. f = [t \in Threads |-> 0] /\ p = [t \in Threads |-> 0]
  BY DEF Owed, Paid
<1> HIDE DEF f, p
<1>2. SumFunction(f) = 0 /\ SumFunction(p) = 0
  BY <1>1, ThreadsAssumption, SumOfZeros
<1> QED BY <1>2 DEF OwedSum, PaidSum, f, p

LEMMA ExtractInitInv == ExtractInit => ExtractInv
<1> SUFFICES ASSUME ExtractInit PROVE ExtractInv
  OBVIOUS
<1>1. /\ Zero \in [Counters -> Nat] /\ \A c \in Counters : Zero[c] = 0
  BY DEF Zero
<1>2. ThreadsTyped /\ CountersTyped
  BY <1>1 DEF ExtractInit, ThreadsTyped, CountersTyped
<1>3. SumsAgree
  <2>1. \A t \in Threads : pc[t] # "counting"
    BY DEF ExtractInit
  <2>2. \A c \in Counters : OwedSum(c) = 0 /\ PaidSum(c) = 0
    BY <2>1, SumOfNothing
  <2>3. \A c \in Counters : total[c] = 0 /\ answered[c] = 0 /\ returned[c] = 0
    BY <1>1 DEF ExtractInit
  <2> QED BY <2>2, <2>3 DEF SumsAgree, OwedSum, PaidSum
<1>4. ReadsAgree
  BY <1>1 DEF ExtractInit, ReadsAgree
<1> QED BY <1>2, <1>3, <1>4 DEF ExtractInv

-----------------------------------------------------------------------------
(* A step of thread t keeps the sums when what it adds to the counters and *)
(* to the histories is what it owes and has paid less or more.             *)
LEMMA SumsKept ==
  ASSUME ExtractInv, ThreadsTyped', CountersTyped', NEW t \in Threads,
         \A u \in Threads \ {t} :
           pc'[u] = pc[u] /\ toAdd'[u] = toAdd[u] /\ server'[u] = server[u],
         \A c \in Counters :
           /\ total'[c] + Owed(t, c)' + answered[c] = total[c] + Owed(t, c) + answered'[c]
           /\ returned'[c] + Paid(t, c)' + total[c] = returned[c] + Paid(t, c) + total'[c]
  PROVE  SumsAgree'
<1>1. ThreadsTyped /\ CountersTyped /\ SumsAgree
  BY DEF ExtractInv
<1> SUFFICES ASSUME NEW c \in Counters
             PROVE  /\ total'[c] + OwedSum(c)' = answered'[c]
                    /\ returned'[c] + PaidSum(c)' = total'[c]
  BY DEF SumsAgree, OwedSum, PaidSum
<1>2. /\ OwedSum(c) \in Nat /\ OwedSum(c)' \in Nat
      /\ PaidSum(c) \in Nat /\ PaidSum(c)' \in Nat
      /\ OwedSum(c) + Owed(t, c)' = OwedSum(c)' + Owed(t, c)
      /\ PaidSum(c) + Paid(t, c)' = PaidSum(c)' + Paid(t, c)
  BY <1>1, SumsOfAStep
<1>3. total[c] + OwedSum(c) = answered[c] /\ returned[c] + PaidSum(c) = total[c]
  BY <1>1 DEF SumsAgree, OwedSum, PaidSum
<1>4. /\ total[c] \in Nat /\ answered[c] \in Nat /\ returned[c] \in Nat
      /\ total'[c] \in Nat /\ answered'[c] \in Nat /\ returned'[c] \in Nat
  BY <1>1 DEF CountersTyped
<1>5. Owed(t, c) \in Nat /\ Paid(t, c) \in Nat /\ Owed(t, c)' \in Nat /\ Paid(t, c)' \in Nat
  <2>1. ThreadsTyped' => OwedAndPaidTyped'
    BY OwedAndPaidType, PTL
  <2> QED BY <1>1, <2>1, OwedAndPaidType DEF OwedAndPaidTyped
<1>6. /\ total'[c] + Owed(t, c)' + answered[c] = total[c] + Owed(t, c) + answered'[c]
      /\ returned'[c] + Paid(t, c)' + total[c] = returned[c] + Paid(t, c) + total'[c]
  OBVIOUS
<1> QED BY <1>2, <1>3, <1>4, <1>5, <1>6

(* No counter is behind the calls that have returned, or ahead of the      *)
(* answers.                                                                *)
LEMMA CountersBetween ==
  ASSUME ExtractInv, NEW c \in Counters
  PROVE  /\ returned[c] \in Nat /\ total[c] \in Nat /\ answered[c] \in Nat
         /\ returned[c] <= total[c] /\ total[c] <= answered[c]
<1>1. returned[c] \in Nat /\ total[c] \in Nat /\ answered[c] \in Nat
  BY DEF ExtractInv, CountersTyped
<1>2. total[c] + OwedSum(c) = answered[c] /\ returned[c] + PaidSum(c) = total[c]
  BY DEF ExtractInv, SumsAgree, OwedSum, PaidSum
<1>3. OwedSum(c) \in Nat /\ PaidSum(c) \in Nat
  BY SumsType DEF ExtractInv
<1> QED BY <1>1, <1>2, <1>3

(* The histories only grow.                                                *)
LEMMA ReadsKept ==
  ASSUME ExtractInv, CountersTyped',
         UNCHANGED <<toRead, snapshot, floor>>,
         \A c \in Counters : returned[c] <= returned'[c] /\ answered[c] <= answered'[c]
  PROVE  ReadsAgree'
<1> SUFFICES ASSUME NEW t \in Threads
             PROVE  /\ \A c \in Counters : floor[t][c] <= returned'[c]
                    /\ \A c \in Counters \ toRead[t] :
                         snapshot[t][c] \in floor[t][c] .. answered'[c]
  BY DEF ReadsAgree
<1>1. \A c \in Counters : /\ floor[t][c] \in Nat /\ snapshot[t][c] \in Nat
                          /\ returned[c] \in Nat /\ answered[c] \in Nat
                          /\ returned'[c] \in Nat /\ answered'[c] \in Nat
  BY DEF ExtractInv, ThreadsTyped, CountersTyped
<1>2. /\ \A c \in Counters : floor[t][c] <= returned[c]
      /\ \A c \in Counters \ toRead[t] : snapshot[t][c] \in floor[t][c] .. answered[c]
  BY DEF ExtractInv, ReadsAgree
<1> QED BY <1>1, <1>2

(* A step of a thread that is not counting, before or after                *)
LEMMA NotCounting ==
  ASSUME ExtractInv, ThreadsTyped', NEW t \in Threads,
         \A u \in Threads \ {t} :
           pc'[u] = pc[u] /\ toAdd'[u] = toAdd[u] /\ server'[u] = server[u],
         pc[t] # "counting", pc'[t] # "counting",
         UNCHANGED <<total, answered, returned>>
  PROVE  CountersTyped' /\ SumsAgree'
<1>1. ThreadsTyped /\ CountersTyped
  BY DEF ExtractInv
<1>2. CountersTyped'
  BY <1>1 DEF CountersTyped
<1>3. ASSUME NEW c \in Counters
      PROVE  Owed(t, c) = 0 /\ Paid(t, c) = 0 /\ Owed(t, c)' = 0 /\ Paid(t, c)' = 0
  BY DEF Owed, Paid
<1>4. ASSUME NEW c \in Counters
      PROVE  /\ total'[c] + Owed(t, c)' + answered[c] = total[c] + Owed(t, c) + answered'[c]
             /\ returned'[c] + Paid(t, c)' + total[c] = returned[c] + Paid(t, c) + total'[c]
  <2>1. total[c] \in Nat /\ answered[c] \in Nat /\ returned[c] \in Nat
    BY <1>1 DEF CountersTyped
  <2> QED BY <1>3, <2>1
<1>5. SumsAgree'
  BY <1>2, <1>4, SumsKept
<1> QED BY <1>2, <1>5


-----------------------------------------------------------------------------
(* The actions                                                             *)
LEMMA SendInv ==
  ASSUME ExtractInv, NEW t \in Threads, NEW m \in Messages, Send(t, m)
  PROVE  ExtractInv'
<1>1. ThreadsTyped'
  BY DEF ExtractInv, ThreadsTyped, Send, MayBegin
<1>2. CountersTyped' /\ SumsAgree'
  BY <1>1, NotCounting DEF ExtractInv, ThreadsTyped, Send, MayBegin
<1>3. ReadsAgree'
  BY <1>2, CountersBetween, ReadsKept DEF Send
<1> QED BY <1>1, <1>2, <1>3 DEF ExtractInv

LEMMA RegexInv ==
  ASSUME ExtractInv, NEW t \in Threads, NEW m \in Messages, Regex(t, m)
  PROVE  ExtractInv'
<1>1. ThreadsTyped'
  BY DEF ExtractInv, ThreadsTyped, Regex, MayBegin
<1>2. CountersTyped' /\ SumsAgree'
  BY <1>1, NotCounting DEF Regex, MayBegin
<1>3. ReadsAgree'
  BY <1>2, CountersBetween, ReadsKept DEF Regex
<1> QED BY <1>1, <1>2, <1>3 DEF ExtractInv

LEMMA AnswerInv ==
  ASSUME ExtractInv, NEW t \in Threads, Answer(t)
  PROVE  ExtractInv'
<1>1. PICK reply \in Replies[message[t]] :
        /\ pc[t] = "waiting"
        /\ server' = [server EXCEPT ![t] = reply]
        /\ UNCHANGED <<provider, total, pc, message, toAdd, toRead, snapshot, result,
                       answered, returned, floor, begun>>
  BY DEF Answer
<1>2. ThreadsTyped'
  <2>1. reply \in AnyReply
    BY <1>1 DEF ExtractInv, ThreadsTyped, AnyReply
  <2> QED BY <1>1, <2>1 DEF ExtractInv, ThreadsTyped
<1>3. CountersTyped' /\ SumsAgree'
  BY <1>1, <1>2, NotCounting DEF ExtractInv, ThreadsTyped
<1>4. ReadsAgree'
  BY <1>1, <1>3, CountersBetween, ReadsKept
<1> QED BY <1>2, <1>3, <1>4 DEF ExtractInv

LEMMA GiveUpInv ==
  ASSUME ExtractInv, NEW t \in Threads, pc[t] = "waiting", GiveUp(t)
  PROVE  ExtractInv'
<1>1. ThreadsTyped'
  BY DEF ExtractInv, ThreadsTyped, GiveUp
<1>2. CountersTyped' /\ SumsAgree'
  BY <1>1, NotCounting DEF ExtractInv, ThreadsTyped, GiveUp
<1>3. ReadsAgree'
  BY <1>2, CountersBetween, ReadsKept DEF GiveUp
<1> QED BY <1>1, <1>2, <1>3 DEF ExtractInv

LEMMA ReceiveInv ==
  ASSUME ExtractInv, NEW t \in Threads, Receive(t)
  PROVE  ExtractInv'
<1> DEFINE r == server[t]
<1>1. /\ pc[t] = "waiting" /\ r \in AnyReply /\ r.status = "ok"
      /\ pc' = [pc EXCEPT ![t] = "counting"]
      /\ toAdd' = [toAdd EXCEPT ![t] = Counts(r)]
      /\ answered' = Plus(answered, Implied(r))
      /\ UNCHANGED <<total, message, server, toRead, snapshot, returned, floor>>
  BY DEF Receive, ExtractInv, ThreadsTyped
<1>2. ThreadsTyped'
  BY <1>1 DEF ExtractInv, ThreadsTyped
<1>3. \A c \in Counters : /\ Implied(r)[c] \in Nat
                          /\ c \notin Counts(r) => Implied(r)[c] = 0
                          /\ answered'[c] = answered[c] + Implied(r)[c]
  BY <1>1, AmountsAre DEF Plus
<1>4. CountersTyped'
  BY <1>1, <1>3 DEF ExtractInv, CountersTyped, Plus
<1>5. pc'[t] = "counting" /\ toAdd'[t] = Counts(r) /\ server'[t] = r
  BY <1>1 DEF ExtractInv, ThreadsTyped
<1> HIDE DEF r
<1>6. ASSUME NEW c \in Counters
      PROVE  /\ Owed(t, c) = 0 /\ Paid(t, c) = 0
             /\ Owed(t, c)' = Implied(r)[c] /\ Paid(t, c)' = 0
  <2>1. Owed(t, c) = 0 /\ Paid(t, c) = 0
    BY <1>1 DEF Owed, Paid
  <2>2. CASE c \in Counts(r)
    <3>1. Owed(t, c)' = Amount(r, c) /\ Paid(t, c)' = 0
      BY <1>5, <2>2 DEF Owed, Paid
    <3> QED BY <1>1, <2>1, <2>2, <3>1, AmountsAre
  <2>3. CASE c \notin Counts(r)
    <3>1. Owed(t, c)' = 0 /\ Paid(t, c)' = Implied(r)[c]
      BY <1>5, <2>3 DEF Owed, Paid
    <3> QED BY <1>3, <2>1, <2>3, <3>1
  <2> QED BY <2>2, <2>3
<1>7. SumsAgree'
  <2>1. ASSUME NEW c \in Counters
        PROVE  /\ total'[c] + Owed(t, c)' + answered[c] = total[c] + Owed(t, c) + answered'[c]
               /\ returned'[c] + Paid(t, c)' + total[c] = returned[c] + Paid(t, c) + total'[c]
    <3>1. total[c] \in Nat /\ answered[c] \in Nat /\ returned[c] \in Nat
      BY DEF ExtractInv, CountersTyped
    <3> QED BY <1>1, <1>3, <1>6, <3>1
  <2>2. \A u \in Threads \ {t} :
          pc'[u] = pc[u] /\ toAdd'[u] = toAdd[u] /\ server'[u] = server[u]
    BY <1>1 DEF ExtractInv, ThreadsTyped
  <2> QED BY <1>2, <1>4, <2>1, <2>2, SumsKept
<1>8. ReadsAgree'
  <2>1. \A c \in Counters : returned[c] <= returned'[c] /\ answered[c] <= answered'[c]
    BY <1>1, <1>3, CountersBetween
  <2> QED BY <1>1, <1>4, <2>1, ReadsKept
<1> QED BY <1>2, <1>4, <1>7, <1>8 DEF ExtractInv

LEMMA AddInv ==
  ASSUME ExtractInv, NEW t \in Threads, NEW b \in Counters, Add(t, b)
  PROVE  ExtractInv'
<1> DEFINE r == server[t]
<1>1. /\ pc[t] = "counting" /\ r \in AnyReply /\ r.status = "ok"
      /\ b \in toAdd[t] /\ toAdd[t] \subseteq Counts(r)
      /\ total' = [total EXCEPT ![b] = @ + Amount(r, b)]
      /\ toAdd' = [toAdd EXCEPT ![t] = @ \ {b}]
      /\ UNCHANGED <<pc, message, server, toRead, snapshot, answered, returned, floor>>
  BY DEF Add, ExtractInv, ThreadsTyped
<1>2. ThreadsTyped'
  BY <1>1 DEF ExtractInv, ThreadsTyped
<1>3. \A c \in Counters : /\ Implied(r)[c] \in Nat
                          /\ c \in Counts(r) => Amount(r, c) = Implied(r)[c]
  BY <1>1, AmountsAre
<1>4. /\ total'[b] = total[b] + Implied(r)[b]
      /\ \A c \in Counters \ {b} : total'[c] = total[c]
      /\ total' \in [Counters -> Nat]
  BY <1>1, <1>3 DEF ExtractInv, CountersTyped
<1>5. CountersTyped'
  BY <1>1, <1>4 DEF ExtractInv, CountersTyped
<1>6. pc'[t] = "counting" /\ toAdd'[t] = toAdd[t] \ {b} /\ server'[t] = r
  BY <1>1 DEF ExtractInv, ThreadsTyped
<1> HIDE DEF r
<1>7. ASSUME NEW c \in Counters \ {b}
      PROVE  Owed(t, c)' = Owed(t, c) /\ Paid(t, c)' = Paid(t, c)
  BY <1>1, <1>6 DEF Owed, Paid, r
<1>8. /\ Owed(t, b) = Implied(r)[b] /\ Paid(t, b) = 0
      /\ Owed(t, b)' = 0 /\ Paid(t, b)' = Implied(r)[b]
  <2>1. Owed(t, b) = Implied(r)[b] /\ Paid(t, b) = 0
    BY <1>1, <1>3 DEF Owed, Paid, r
  <2>2. Owed(t, b)' = 0 /\ Paid(t, b)' = Implied(r)[b]
    BY <1>6 DEF Owed, Paid
  <2> QED BY <2>1, <2>2
<1>9. SumsAgree'
  <2>1. ASSUME NEW c \in Counters
        PROVE  /\ total'[c] + Owed(t, c)' + answered[c] = total[c] + Owed(t, c) + answered'[c]
               /\ returned'[c] + Paid(t, c)' + total[c] = returned[c] + Paid(t, c) + total'[c]
    <3>1. total[c] \in Nat /\ answered[c] \in Nat /\ returned[c] \in Nat
      BY DEF ExtractInv, CountersTyped
    <3>2. answered'[c] = answered[c] /\ returned'[c] = returned[c]
      BY <1>1
    <3>3. CASE c = b
      BY <1>3, <1>4, <1>8, <3>1, <3>2, <3>3
    <3>4. CASE c # b
      <4>1. Owed(t, c) \in Nat /\ Paid(t, c) \in Nat
        BY OwedAndPaidType DEF OwedAndPaidTyped, ExtractInv
      <4>2. total'[c] = total[c] /\ Owed(t, c)' = Owed(t, c) /\ Paid(t, c)' = Paid(t, c)
        BY <1>4, <1>7, <3>4
      <4> QED BY <3>1, <3>2, <4>1, <4>2
    <3> QED BY <3>3, <3>4
  <2>2. \A u \in Threads \ {t} :
          pc'[u] = pc[u] /\ toAdd'[u] = toAdd[u] /\ server'[u] = server[u]
    BY <1>1 DEF ExtractInv, ThreadsTyped
  <2> QED BY <1>2, <1>5, <2>1, <2>2, SumsKept
<1>10. ReadsAgree'
  BY <1>1, <1>5, CountersBetween, ReadsKept
<1> QED BY <1>2, <1>5, <1>9, <1>10 DEF ExtractInv

LEMMA ParseInv ==
  ASSUME ExtractInv, NEW t \in Threads, Parse(t)
  PROVE  ExtractInv'
<1> DEFINE r == server[t]
<1>1. /\ pc[t] = "counting" /\ r \in AnyReply /\ r.status = "ok"
      /\ toAdd[t] = {}
      /\ pc' = [pc EXCEPT ![t] = "idle"]
      /\ server' = [server EXCEPT ![t] = Missing]
      /\ returned' = Plus(returned, Implied(r))
      /\ UNCHANGED <<total, message, toAdd, toRead, snapshot, answered, floor>>
  BY DEF Parse, Return, ExtractInv, ThreadsTyped
<1>2. ThreadsTyped'
  BY <1>1 DEF ExtractInv, ThreadsTyped
<1>3. \A c \in Counters : /\ Implied(r)[c] \in Nat
                          /\ returned'[c] = returned[c] + Implied(r)[c]
  BY <1>1, AmountsAre DEF Plus
<1>4. CountersTyped'
  BY <1>1, <1>3 DEF ExtractInv, CountersTyped, Plus
<1>5. pc'[t] = "idle"
  BY <1>1 DEF ExtractInv, ThreadsTyped
<1> HIDE DEF r
<1>6. ASSUME NEW c \in Counters
      PROVE  /\ Owed(t, c) = 0 /\ Paid(t, c) = Implied(r)[c]
             /\ Owed(t, c)' = 0 /\ Paid(t, c)' = 0
  BY <1>1, <1>5 DEF Owed, Paid, r
<1>7. SumsAgree'
  <2>1. ASSUME NEW c \in Counters
        PROVE  /\ total'[c] + Owed(t, c)' + answered[c] = total[c] + Owed(t, c) + answered'[c]
               /\ returned'[c] + Paid(t, c)' + total[c] = returned[c] + Paid(t, c) + total'[c]
    <3>1. total[c] \in Nat /\ answered[c] \in Nat /\ returned[c] \in Nat
      BY DEF ExtractInv, CountersTyped
    <3> QED BY <1>1, <1>3, <1>6, <3>1
  <2>2. \A u \in Threads \ {t} :
          pc'[u] = pc[u] /\ toAdd'[u] = toAdd[u] /\ server'[u] = server[u]
    BY <1>1 DEF ExtractInv, ThreadsTyped
  <2> QED BY <1>2, <1>4, <2>1, <2>2, SumsKept
<1>8. ReadsAgree'
  <2>1. \A c \in Counters : returned[c] <= returned'[c] /\ answered[c] <= answered'[c]
    BY <1>1, <1>3, CountersBetween
  <2> QED BY <1>1, <1>4, <2>1, ReadsKept
<1> QED BY <1>2, <1>4, <1>7, <1>8 DEF ExtractInv

LEMMA BeginStatsInv ==
  ASSUME ExtractInv, NEW t \in Threads, BeginStats(t)
  PROVE  ExtractInv'
<1>1. /\ pc[t] = "idle"
      /\ pc' = [pc EXCEPT ![t] = "stats"]
      /\ toRead' = [toRead EXCEPT ![t] = Counters]
      /\ floor' = [floor EXCEPT ![t] = returned]
      /\ UNCHANGED <<total, message, server, toAdd, snapshot, answered, returned>>
  BY DEF BeginStats, MayBegin
<1>2. ThreadsTyped'
  BY <1>1 DEF ExtractInv, ThreadsTyped, CountersTyped
<1>3. CountersTyped' /\ SumsAgree'
  BY <1>1, <1>2, NotCounting DEF ExtractInv, ThreadsTyped
<1>4. ReadsAgree'
  <2> SUFFICES ASSUME NEW u \in Threads
               PROVE  /\ \A c \in Counters : floor'[u][c] <= returned[c]
                      /\ \A c \in Counters \ toRead'[u] :
                           snapshot[u][c] \in floor'[u][c] .. answered[c]
    BY <1>1 DEF ReadsAgree
  <2>1. CASE u = t
    BY <1>1, <2>1, CountersBetween DEF ExtractInv, ThreadsTyped
  <2>2. CASE u # t
    BY <1>1, <2>2 DEF ExtractInv, ThreadsTyped, ReadsAgree
  <2> QED BY <2>1, <2>2
<1> QED BY <1>2, <1>3, <1>4 DEF ExtractInv

LEMMA ReadInv ==
  ASSUME ExtractInv, NEW t \in Threads, NEW b \in Counters, Read(t, b)
  PROVE  ExtractInv'
<1>1. /\ pc[t] = "stats" /\ b \in toRead[t]
      /\ snapshot' = [snapshot EXCEPT ![t][b] = total[b]]
      /\ toRead' = [toRead EXCEPT ![t] = @ \ {b}]
      /\ \E w \in {"idle", "stats"} : pc' = [pc EXCEPT ![t] = w]
      /\ UNCHANGED <<total, message, server, toAdd, answered, returned, floor>>
  <2>1. (IF toRead'[t] = {} THEN "idle" ELSE "stats") \in {"idle", "stats"}
    OBVIOUS
  <2> QED BY <2>1 DEF Read
<1>2. PICK w \in {"idle", "stats"} : pc' = [pc EXCEPT ![t] = w]
  BY <1>1
<1>3. ThreadsTyped'
  <2>1. snapshot' \in [Threads -> [Counters -> Nat]]
    BY <1>1, CountersBetween DEF ExtractInv, ThreadsTyped
  <2>2. pc' \in [Threads -> {"idle", "waiting", "counting", "stats"}]
    BY <1>2 DEF ExtractInv, ThreadsTyped
  <2>3. pc'[t] # "counting" /\ pc'[t] # "waiting" /\ \A u \in Threads \ {t} : pc'[u] = pc[u]
    BY <1>2 DEF ExtractInv, ThreadsTyped
  <2> QED BY <1>1, <2>1, <2>2, <2>3 DEF ExtractInv, ThreadsTyped
<1>4. CountersTyped' /\ SumsAgree'
  BY <1>1, <1>2, <1>3, NotCounting DEF ExtractInv, ThreadsTyped
<1>5. ReadsAgree'
  <2> SUFFICES ASSUME NEW u \in Threads
               PROVE  /\ \A c \in Counters : floor[u][c] <= returned[c]
                      /\ \A c \in Counters \ toRead'[u] :
                           snapshot'[u][c] \in floor[u][c] .. answered[c]
    BY <1>1 DEF ReadsAgree
  <2>1. /\ \A c \in Counters : floor[u][c] <= returned[c]
        /\ \A c \in Counters \ toRead[u] : snapshot[u][c] \in floor[u][c] .. answered[c]
    BY DEF ExtractInv, ReadsAgree
  <2>2. CASE u # t
    BY <1>1, <2>1, <2>2 DEF ExtractInv, ThreadsTyped
  <2>3. CASE u = t
    <3>1. toRead'[t] = toRead[t] \ {b} /\ snapshot'[t][b] = total[b]
          /\ \A c \in Counters \ {b} : snapshot'[t][c] = snapshot[t][c]
      BY <1>1 DEF ExtractInv, ThreadsTyped
    <3>2. total[b] \in floor[t][b] .. answered[b]
      <4>1. floor[t][b] \in Nat /\ floor[t][b] <= returned[b]
        BY <2>1, <2>3 DEF ExtractInv, ThreadsTyped
      <4> QED BY <4>1, CountersBetween
    <3> QED BY <2>1, <2>3, <3>1, <3>2
  <2> QED BY <2>2, <2>3
<1> QED BY <1>3, <1>4, <1>5 DEF ExtractInv

LEMMA ExtractNextInv ==
  ASSUME ExtractInv, [ExtractNext]_extractVars
  PROVE  ExtractInv'
<1>1. CASE UNCHANGED extractVars
  BY <1>1 DEF extractVars, ExtractInv, ThreadsTyped, CountersTyped, SumsAgree, ReadsAgree, Owed, Paid
<1>2. CASE ExtractNext
  <2>1. PICK t \in Threads :
          \/ \E m \in Messages : Send(t, m) \/ Regex(t, m)
          \/ BeginStats(t)
          \/ Answer(t)
          \/ Timeout(t)
          \/ ReceiveError(t)
          \/ Receive(t)
          \/ \E c \in Counters : Add(t, c) \/ Read(t, c)
          \/ Parse(t)
    BY <1>2 DEF ExtractNext
  <2>2. Timeout(t) \/ ReceiveError(t) => pc[t] = "waiting" /\ GiveUp(t)
    BY DEF Timeout, ReceiveError
  <2> QED BY <2>1, <2>2, SendInv, RegexInv, BeginStatsInv, AnswerInv, GiveUpInv, ReceiveInv,
             AddInv, ReadInv, ParseInv
<1> QED BY <1>1, <1>2

(* No addition is lost, and what stats() reads lies between the calls that *)
(* had returned when it began and the answers received.                    *)
THEOREM CountersAlwaysAddUp == ExtractSpec => []CountersAddUp
<1>1. ExtractInv /\ [ExtractNext]_extractVars => ExtractInv'
  BY ExtractNextInv
<1>2. ExtractInv => CountersAddUp
  BY DEF ExtractInv, ThreadsTyped, CountersTyped, SumsAgree, ReadsAgree, CountersAddUp
<1> QED BY <1>1, <1>2, ExtractInitInv, PTL DEF ExtractSpec

-----------------------------------------------------------------------------
(* The facts of an answer, and of a message                                *)

(* A set of places in a sequence has a last one.                           *)
LEMMA LastPlace ==
  ASSUME NEW n \in Nat, NEW S \in SUBSET (1 .. n), S # {}
  PROVE  Max(S) \in S /\ \A x \in S : x <= Max(S)
<1> DEFINE T == {n - x : x \in S}
<1>1. T \subseteq Nat /\ T # {}
  <2>1. \A x \in S : n - x \in Nat /\ n - x \in T
    OBVIOUS
  <2>2. \E x \in S : TRUE
    OBVIOUS
  <2> QED BY <2>1, <2>2
<1>2. PICK y \in T : \A z \in T : ~(z < y)
  BY <1>1, NatLeast
<1>3. PICK m \in S : y = n - m
  OBVIOUS
<1>4. \A x \in S : m >= x
  <2> SUFFICES ASSUME NEW x \in S PROVE m >= x
    OBVIOUS
  <2>1. n - x \in T /\ ~(n - x < n - m)
    BY <1>2, <1>3
  <2> QED BY <2>1
<1>5. Max(S) \in S /\ \A x \in S : Max(S) >= x
  <2> HIDE <1>2
  <2>1. \E k \in S : \A x \in S : k >= x
    BY <1>4
  <2> QED BY <2>1 DEF Max
<1> QED BY <1>5

(* What is cut off a text are fences: the others keep their order.         *)
LEMMA InnerIs ==
  ASSUME NEW raw \in Seq(Pieces)
  PROVE  \E o \in {0, 1} :
           /\ Inner(raw) \in Seq(Pieces)
           /\ \A i \in DOMAIN Inner(raw) : i + o \in DOMAIN raw /\ Inner(raw)[i] = raw[i + o]
           /\ \A k \in DOMAIN raw :
                raw[k].kind \notin {"fence", "fenceJson"} => k - o \in DOMAIN Inner(raw)
<1>1. CASE ~(raw # <<>> /\ raw[1].kind \in {"fence", "fenceJson"})
  <2>1. Inner(raw) = raw
    BY <1>1 DEF Inner
  <2> QED BY <2>1
<1>2. CASE raw # <<>> /\ raw[1].kind \in {"fence", "fenceJson"}
  <2> DEFINE S == {1} \cup {j \in DOMAIN raw : raw[j].kind # "fence"}
             last == Max(S)
  <2>1. Len(raw) \in Nat /\ DOMAIN raw = 1 .. Len(raw) /\ 1 \in DOMAIN raw
    BY <1>2, EmptySeq
  <2>2. S \in SUBSET (1 .. Len(raw)) /\ S # {}
    BY <2>1
  <2>3. last \in S /\ \A x \in S : x <= last
    <3> HIDE DEF S
    <3> QED BY <2>1, <2>2, LastPlace
  <2>4. last \in 1 .. Len(raw) /\ \A k \in DOMAIN raw : raw[k].kind # "fence" => k <= last
    BY <2>2, <2>3
  <2>5. Inner(raw) = SubSeq(raw, 2, last)
    BY <1>2 DEF Inner
  <2> HIDE DEF last, S
  <2>6. /\ SubSeq(raw, 2, last) \in Seq(Pieces)
        /\ Len(SubSeq(raw, 2, last)) = last - 1
        /\ \A i \in 1 .. last - 1 : SubSeq(raw, 2, last)[i] = raw[i + 1]
    BY <2>1, <2>4
  <2>7. DOMAIN Inner(raw) = 1 .. last - 1
    BY <2>4, <2>5, <2>6
  <2>8. \A i \in 1 .. last - 1 : i + 1 \in DOMAIN raw /\ Inner(raw)[i] = raw[i + 1]
    BY <2>1, <2>4, <2>5, <2>6
  <2>9. \A k \in DOMAIN raw :
          raw[k].kind \notin {"fence", "fenceJson"} => k - 1 \in 1 .. last - 1
    BY <1>2, <2>1, <2>4
  <2> QED BY <2>5, <2>6, <2>7, <2>8, <2>9
<1> QED BY <1>1, <1>2

(* The facts parsed are those of the one JSON value of the text.           *)
LEMMA ParsedIsSaid ==
  ASSUME NEW raw \in Seq(Pieces)
  PROVE  AsSaid(Parsed(raw), raw)
<1> DEFINE facts == Parsed(raw)
           json  == {j \in DOMAIN raw : raw[j].kind \in {"object", "list"}}
           said(j) == IF raw[j].items = Missing THEN <<>> ELSE FactsOf(raw[j].items)
           inner == Inner(raw)
           braced == {j \in DOMAIN inner : inner[j].kind \in {"braces", "object", "list"}}
           payload == Payload(inner)
<1> SUFFICES /\ facts # <<>> => \E j \in json : json = {j} /\ facts = said(j)
             /\ \A j \in json :
                  /\ raw[j].kind = "object"
                  /\ \A n \in DOMAIN raw \ {j} : raw[n].kind \in {"fence", "fenceJson", "prose"}
                  => facts = said(j)
  BY DEF AsSaid
<1>1. PICK o \in {0, 1} :
        /\ inner \in Seq(Pieces)
        /\ \A i \in DOMAIN inner : i + o \in DOMAIN raw /\ inner[i] = raw[i + o]
        /\ \A k \in DOMAIN raw :
             raw[k].kind \notin {"fence", "fenceJson"} => k - o \in DOMAIN inner
  BY InnerIs
<1> HIDE DEF inner
<1>2. /\ Len(inner) \in Nat /\ DOMAIN inner = 1 .. Len(inner)
      /\ Len(raw) \in Nat /\ DOMAIN raw = 1 .. Len(raw)
      /\ \A j \in DOMAIN inner : inner[j] \in Pieces
  BY <1>1
<1>3. facts = IF payload.kind # "object" \/ payload.items = Missing THEN <<>>
              ELSE FactsOf(payload.items)
  BY DEF Parsed, inner
<1>4. \A k \in json : k - o \in braced /\ inner[k - o] = raw[k] /\ inner[k - o].kind # "braces"
  <2> TAKE k \in json
  <2>1. raw[k].kind \in {"object", "list"} /\ raw[k].kind \notin {"fence", "fenceJson"}
    OBVIOUS
  <2>2. k - o \in DOMAIN inner
    BY <1>1, <2>1
  <2>3. (k - o) + o = k
    BY <1>2
  <2>4. inner[k - o] = raw[k]
    BY <1>1, <2>2, <2>3
  <2> QED BY <2>1, <2>2, <2>4
<1>5. \A j \in braced : inner[j].kind # "braces" => j + o \in json /\ raw[j + o] = inner[j]
  BY <1>1
<1>6. CASE Len(inner) = 1 /\ inner[1].kind \in {"object", "list"}
  <2>1. payload = inner[1]
    BY <1>6 DEF Payload
  <2>2. DOMAIN inner = {1} /\ braced = {1}
    BY <1>2, <1>6
  <2>3. 1 + o \in json /\ raw[1 + o] = inner[1]
    BY <1>5, <1>6, <2>2
  <2>4. \A k \in json : k = 1 + o
    <3> TAKE k \in json
    <3>1. k - o = 1
      BY <1>4, <2>2
    <3> QED BY <1>2, <3>1
  <2>5. json = {1 + o}
    BY <2>3, <2>4
  <2>6. facts # <<>> => facts = said(1 + o)
    BY <1>3, <2>1, <2>3
  <2>7. raw[1 + o].kind = "object" => facts = said(1 + o)
    BY <1>3, <2>1, <2>3
  <2> HIDE DEF facts, json, said
  <2>8. \A j \in json : raw[j].kind = "object" => facts = said(j)
    BY <2>4, <2>7
  <2>9. facts # <<>> => \E j \in json : json = {j} /\ facts = said(j)
    BY <2>3, <2>5, <2>6
  <2> QED BY <2>8, <2>9
<1>7. CASE /\ ~(Len(inner) = 1 /\ inner[1].kind \in {"object", "list"})
           /\ \E j \in braced : braced = {j} /\ inner[j].kind # "braces"
  <2>1. PICK b \in braced : braced = {b} /\ inner[b].kind # "braces"
    BY <1>7
  <2>2. payload = [inner[CHOOSE j \in braced : TRUE] EXCEPT !.kind = "object"]
    BY <1>7 DEF Payload
  <2>3. (CHOOSE j \in braced : TRUE) = b
    BY <2>1
  <2>4. payload = [inner[b] EXCEPT !.kind = "object"] /\ inner[b] \in Pieces
    BY <1>2, <2>2, <2>3
  <2>5. payload.kind = "object" /\ payload.items = inner[b].items
    BY <2>4 DEF Pieces
  <2>6. b + o \in json /\ raw[b + o] = inner[b]
    BY <1>5, <2>1
  <2>7. \A k \in json : k = b + o
    <3> TAKE k \in json
    <3>1. k - o = b
      BY <1>4, <2>1
    <3> QED BY <1>2, <3>1
  <2>8. json = {b + o}
    BY <2>6, <2>7
  <2>9. facts = said(b + o)
    BY <1>3, <2>5, <2>6
  <2> HIDE DEF facts, json, said
  <2> QED BY <2>6, <2>7, <2>8, <2>9
<1>8. CASE /\ ~(Len(inner) = 1 /\ inner[1].kind \in {"object", "list"})
           /\ ~(\E j \in braced : braced = {j} /\ inner[j].kind # "braces")
  <2>1. payload = [kind |-> "none", items |-> Missing]
    BY <1>8 DEF Payload
  <2>2. facts = <<>>
    BY <1>3, <2>1
  <2>3. ASSUME NEW j \in json, raw[j].kind = "object",
               \A n \in DOMAIN raw \ {j} : raw[n].kind \in {"fence", "fenceJson", "prose"}
        PROVE  FALSE
    <3>1. j - o \in braced /\ inner[j - o].kind # "braces"
      BY <1>4, <2>3
    <3>2. \A i \in braced : i = j - o
      <4> TAKE i \in braced
      <4>1. i + o \in DOMAIN raw /\ raw[i + o].kind \notin {"fence", "fenceJson", "prose"}
        BY <1>1
      <4>2. i + o = j
        BY <2>3, <4>1
      <4> QED BY <1>2, <4>2
    <3>3. braced = {j - o}
      BY <3>1, <3>2
    <3> QED BY <1>8, <3>1, <3>3
  <2> QED BY <2>2, <2>3
<1> HIDE DEF facts, json, said
<1> QED BY <1>6, <1>7, <1>8

(* Every state of a run of the extractors satisfies the invariant.         *)
LEMMA AlwaysExtractInv == ExtractSpec => []ExtractInv
<1>1. ExtractInv /\ [ExtractNext]_extractVars => ExtractInv'
  BY ExtractNextInv
<1> QED BY <1>1, ExtractInitInv, PTL DEF ExtractSpec

(* A result is of a thread.                                                *)
ResultsOK == DOMAIN result = Threads

LEMMA AlwaysResults == ExtractSpec => []ResultsOK
<1>1. ExtractInit => ResultsOK
  BY DEF ExtractInit, ResultsOK
<1>2. ResultsOK /\ [ExtractNext]_extractVars => ResultsOK'
  <2> SUFFICES ASSUME DOMAIN result = Threads, [ExtractNext]_extractVars
               PROVE  DOMAIN result' = Threads
    BY DEF ResultsOK
  <2>1. ASSUME NEW t, NEW v, result' = [result EXCEPT ![t] = v] PROVE DOMAIN result' = Threads
    BY <2>1
  <2>2. CASE UNCHANGED extractVars
    BY <2>2 DEF extractVars
  <2>3. CASE ExtractNext
    <3>1. PICK t \in Threads :
            \/ \E m \in Messages : Send(t, m) \/ Regex(t, m)
            \/ BeginStats(t) \/ Answer(t) \/ Timeout(t) \/ ReceiveError(t) \/ Receive(t)
            \/ \E c \in Counters : Add(t, c) \/ Read(t, c)
            \/ Parse(t)
      BY <2>3 DEF ExtractNext
    <3>2. CASE \E m \in Messages : Send(t, m) \/ Regex(t, m)
      BY <3>2, <2>1 DEF Send, Regex
    <3>3. CASE Timeout(t) \/ ReceiveError(t)
      BY <3>3, <2>1 DEF Timeout, ReceiveError, GiveUp
    <3>4. CASE Parse(t)
      BY <3>4, <2>1 DEF Parse, Return
    <3>5. CASE \/ BeginStats(t) \/ Answer(t) \/ Receive(t)
               \/ \E c \in Counters : Add(t, c) \/ Read(t, c)
      BY <3>5 DEF BeginStats, Answer, Receive, Add, Read
    <3> QED BY <3>1, <3>2, <3>3, <3>4, <3>5
  <2> QED BY <2>2, <2>3
<1> QED BY <1>1, <1>2, PTL DEF ExtractSpec

(* What an action makes of the results                                     *)
LEMMA ResultsOf ==
  ASSUME ExtractInv, ResultsOK, [ExtractNext]_extractVars, NEW t \in Threads,
         result'[t] # result[t]
  PROVE  /\ result'[t].how = "facts" =>
              /\ Parse(t)
              /\ result'[t].facts = Parsed(RawText(server[t]))
         /\ result'[t].how = "regex" =>
              /\ message'[t] \in Messages
              /\ result'[t].facts = RegexFacts(message'[t])
<1>1. ASSUME NEW u, NEW v, result' = [result EXCEPT ![u] = v]
      PROVE  u = t /\ result'[t] = v
  BY <1>1 DEF ResultsOK
<1>2. PICK u \in Threads :
        \/ \E m \in Messages : Send(u, m) \/ Regex(u, m)
        \/ BeginStats(u) \/ Answer(u) \/ Timeout(u) \/ ReceiveError(u) \/ Receive(u)
        \/ \E c \in Counters : Add(u, c) \/ Read(u, c)
        \/ Parse(u)
  BY DEF ExtractNext, extractVars
<1>3. CASE \E m \in Messages : Send(u, m)
  <2>1. result'[t] = NoResult
    BY <1>1, <1>3 DEF Send
  <2> QED BY <2>1 DEF NoResult
<1>4. CASE Timeout(u) \/ ReceiveError(u)
  <2>1. result'[t] = [NoResult EXCEPT !.how = "failed"]
    <3>1. result' = [result EXCEPT ![u] = [NoResult EXCEPT !.how = "failed"]]
      BY <1>4 DEF Timeout, ReceiveError, GiveUp
    <3> QED BY <1>1, <3>1
  <2> QED BY <2>1 DEF NoResult
<1>5. CASE Parse(u)
  <2> DEFINE facts == Parsed(RawText(server[u]))
             v == IF facts # <<>> /\ message[u] \in Awkward
                  THEN [how |-> "panic", facts |-> <<>>]
                  ELSE [how |-> "facts", facts |-> facts]
  <2>1. result' = [result EXCEPT ![u] = v]
    BY <1>5 DEF Parse, Return
  <2>2. u = t /\ result'[t] = v
    BY <1>1, <2>1
  <2>3. v.how # "regex" /\ (v.how = "facts" => v.facts = facts)
    OBVIOUS
  <2> HIDE DEF v
  <2> QED BY <1>5, <2>2, <2>3
<1>6. CASE \E m \in Messages : Regex(u, m)
  <2>1. PICK m \in Messages : Regex(u, m)
    BY <1>6
  <2>2. u = t /\ result'[t] = [how |-> "regex", facts |-> RegexFacts(m)]
    BY <1>1, <2>1 DEF Regex
  <2>3. message' = [message EXCEPT ![u] = m]
    BY <2>1 DEF Regex
  <2>4. message'[t] = m
    BY <2>2, <2>3 DEF ExtractInv, ThreadsTyped
  <2> QED BY <2>2, <2>4
<1>7. CASE \/ BeginStats(u) \/ Answer(u) \/ Receive(u)
           \/ \E c \in Counters : Add(u, c) \/ Read(u, c)
  BY <1>7 DEF BeginStats, Answer, Receive, Add, Read
<1>8. \/ \E m \in Messages : Send(u, m)
      \/ \E m \in Messages : Regex(u, m)
      \/ Timeout(u) \/ ReceiveError(u)
      \/ Parse(u)
      \/ BeginStats(u) \/ Answer(u) \/ Receive(u) \/ \E c \in Counters : Add(u, c) \/ Read(u, c)
  BY <1>2
<1> QED BY <1>3, <1>4, <1>5, <1>6, <1>7, <1>8

(* The text of an answer is a sequence of pieces.                          *)
LEMMA RawTextType ==
  ASSUME NEW r \in AnyReply
  PROVE  RawText(r) \in Seq(Pieces)
<1> DEFINE Part == [isText : BOOLEAN, pieces : Seq(Pieces)]
           texts == [j \in DOMAIN r.parts |->
                       IF r.parts[j].isText THEN r.parts[j].pieces ELSE <<>>]
<1>1. r.parts \in Seq(Part)
  BY PartsAssumption DEF AnyReply
<1>2. \A p \in Part : (IF p.isText THEN p.pieces ELSE <<>>) \in Seq(Pieces)
  OBVIOUS
<1> HIDE DEF Part
<1>3. /\ Len(r.parts) \in Nat /\ DOMAIN r.parts = 1 .. Len(r.parts)
      /\ \A j \in 1 .. Len(r.parts) : r.parts[j] \in Part
  BY <1>1
<1>4. \A j \in 1 .. Len(r.parts) : texts[j] \in Seq(Pieces)
  BY <1>2, <1>3
<1>5. texts \in Seq(Seq(Pieces))
  <2>1. texts \in [1 .. Len(r.parts) -> Seq(Pieces)]
    BY <1>3, <1>4
  <2> HIDE DEF texts
  <2> QED BY <1>3, <2>1
<1>6. TextBlocks(r) \in Seq(Pieces)
  BY <1>5, FlattenType DEF TextBlocks
<1>7. FirstChoice(r) \in Seq(Pieces)
  <2>1. CASE r.parts # <<>>
    <3>1. r.parts[1] \in Part
      BY <1>1, <1>3, <2>1, EmptySeq
    <3>2. (IF r.parts[1].isText THEN r.parts[1].pieces ELSE <<>>) \in Seq(Pieces)
      BY <1>2, <3>1
    <3> QED BY <2>1, <3>2 DEF FirstChoice
  <2>2. CASE r.parts = <<>>
    BY <2>2 DEF FirstChoice
  <2> QED BY <2>1, <2>2
<1> QED BY <1>6, <1>7 DEF RawText

(* An answer gives the facts of its one JSON object, or none.              *)
THEOREM FactsAlwaysAsReplied == ExtractSpec => FactsAsReplied
<1>1. ASSUME ExtractInv, ResultsOK, [ExtractNext]_extractVars,
             NEW t \in Threads, result'[t] # result[t], result'[t].how = "facts"
      PROVE  AsSaid(result'[t].facts, RawText(server[t]))
  <2>1. Parse(t) /\ result'[t].facts = Parsed(RawText(server[t]))
    BY <1>1, ResultsOf
  <2>2. server[t] \in AnyReply
    BY <1>1, <2>1 DEF Parse, ExtractInv, ThreadsTyped
  <2> QED BY <2>1, <2>2, RawTextType, ParsedIsSaid
<1>2. ExtractInv /\ ResultsOK /\ [ExtractNext]_extractVars =>
        \A t \in Threads :
          result'[t] # result[t] /\ result'[t].how = "facts" =>
            AsSaid(result'[t].facts, RawText(server[t]))
  BY <1>1
<1> QED BY <1>2, AlwaysExtractInv, AlwaysResults, PTL DEF ExtractSpec, FactsAsReplied

(* The facts of a message are a list, and their places the loop's.         *)
FactRecords == [subject : {User}, predicate : Range(Patterns), obj : Range(Fold)]

LEMMA CapturesType ==
  ASSUME NEW m \in Messages
  PROVE  Captures(m) \in Seq(FactRecords)
<1> DEFINE found == [j \in DOMAIN Patterns |->
             [n \in DOMAIN Matches[m][Patterns[j]] |->
                [subject |-> User, predicate |-> Patterns[j],
                 obj |-> Fold[Matches[m][Patterns[j]][n]]]]]
<1>1. DOMAIN Patterns = 1 .. 5
  BY DEF Patterns
<1>2. ASSUME NEW j \in DOMAIN Patterns PROVE found[j] \in Seq(FactRecords)
  <2> DEFINE w == Matches[m][Patterns[j]]
             e == [n \in DOMAIN w |->
                     [subject |-> User, predicate |-> Patterns[j], obj |-> Fold[w[n]]]]
  <2>1. w \in Seq(DOMAIN Fold)
    BY MatchesAssumption
  <2>2. Patterns[j] \in Range(Patterns)
    BY DEF Range
  <2>3. \A s \in DOMAIN Fold : Fold[s] \in Range(Fold)
    BY DEF Range
  <2>4. found[j] = e
    OBVIOUS
  <2> HIDE DEF w, found
  <2>5. /\ Len(w) \in Nat /\ DOMAIN w = 1 .. Len(w)
        /\ \A n \in 1 .. Len(w) : w[n] \in DOMAIN Fold
    BY <2>1
  <2>6. \A n \in 1 .. Len(w) : e[n] \in FactRecords
    BY <2>2, <2>3, <2>5 DEF FactRecords
  <2>7. e \in [1 .. Len(w) -> FactRecords]
    BY <2>5, <2>6
  <2> HIDE DEF e
  <2> QED BY <2>4, <2>5, <2>7
<1>3. found \in Seq(Seq(FactRecords))
  <2>1. found \in [1 .. 5 -> Seq(FactRecords)]
    BY <1>1, <1>2
  <2> HIDE DEF found
  <2>2. \A k \in Nat : found \in [1 .. k -> Seq(FactRecords)] => found \in Seq(Seq(FactRecords))
    OBVIOUS
  <2> QED BY <2>1, <2>2
<1> QED BY <1>3, FlattenType DEF Captures

(* The loop of extract, a capture at a time                                *)
LEMMA RegexLoop ==
  ASSUME NEW m \in Messages
  PROVE  LET found == Captures(m)
         IN  \E f : /\ f = [i \in 0 .. Len(found) |->
                             IF i = 0 THEN <<>>
                             ELSE IF \E j \in DOMAIN f[i - 1] : SameTag(f[i - 1][j], found[i])
                                  THEN f[i - 1] ELSE Append(f[i - 1], found[i])]
                    /\ RegexFacts(m) = f[Len(found)]
<1> DEFINE found == Captures(m)
           Step(s, x) == IF \E j \in DOMAIN s : SameTag(s[j], x) THEN s ELSE Append(s, x)
           Body(f, i) == IF i = 0 THEN <<>>
                         ELSE IF \E j \in DOMAIN f[i - 1] : SameTag(f[i - 1][j], found[i])
                              THEN f[i - 1] ELSE Append(f[i - 1], found[i])
           S == Seq(FactRecords)
           n == Len(found)
           a == <<>>
           g == [i \in 1 .. n |-> [s \in S |-> Step(s, found[i])]]
<1>1. found \in Seq(FactRecords)
  BY CapturesType
<1> HIDE DEF found
<1>2. n \in Nat /\ a \in S /\ \A i \in 1 .. n : found[i] \in FactRecords
  BY <1>1
<1>3. \A s \in S, x \in FactRecords : Step(s, x) \in S
  BY <1>1
<1>4. g \in [1 .. n -> [S -> S]]
  <2> HIDE DEF S, Step
  <2> QED BY <1>2, <1>3
<1> HIDE DEF g, S, n, a
<1>5. Runs(n, S, a, g) # {}
  BY <1>2, <1>4, LoopExists
<1>6. PICK f \in [0 .. n -> S] : f[0] = a /\ \A i \in 1 .. n : f[i] = g[i][f[i - 1]]
  BY <1>5 DEF Runs
<1>7. \A i \in 1 .. n : f[i] = Step(f[i - 1], found[i])
  <2> TAKE i \in 1 .. n
  <2>1. f[i - 1] \in S
    BY <1>2, <1>6
  <2> HIDE DEF Step
  <2> QED BY <1>6, <2>1 DEF g
<1>8. \A i \in 0 .. n : f[i] = Body(f, i)
  <2> TAKE i \in 0 .. n
  <2>1. CASE i = 0
    BY <1>6, <2>1 DEF a
  <2>2. CASE i # 0
    <3>1. i \in 1 .. n
      BY <1>2, <2>2
    <3>2. f[i] = Step(f[i - 1], found[i])
      BY <1>7, <3>1
    <3> QED BY <2>2, <3>2
  <2> QED BY <2>1, <2>2
<1>9. f = [i \in 0 .. n |-> Body(f, i)]
  <2> HIDE DEF Body
  <2> QED BY <1>6, <1>8
<1> DEFINE h == CHOOSE f_1 : f_1 = [i \in 0 .. n |-> Body(f_1, i)]
<1>10. h = [i \in 0 .. n |-> Body(h, i)]
  <2> HIDE DEF Body
  <2> QED BY <1>9, Zenon
<1>11. RegexFacts(m) = h[n]
  BY DEF RegexFacts, found, n
<1> HIDE DEF h
<1> QED BY <1>10, <1>11 DEF n, found

(* After i captures: each of them is among the facts, and each fact is the *)
(* first capture of its kind, later than those of the facts before it.     *)
LEMMA RegexOnce ==
  ASSUME NEW m \in Messages
  PROVE  OnceEach(RegexFacts(m), Captures(m))
<1> DEFINE found == Captures(m)
           n == Len(found)
<1>1. found \in Seq(FactRecords) /\ n \in Nat /\ DOMAIN found = 1 .. n
  BY CapturesType
<1>2. PICK f : /\ f = [i \in 0 .. n |->
                         IF i = 0 THEN <<>>
                         ELSE IF \E j \in DOMAIN f[i - 1] : SameTag(f[i - 1][j], found[i])
                              THEN f[i - 1] ELSE Append(f[i - 1], found[i])]
               /\ RegexFacts(m) = f[n]
  BY RegexLoop
<1> HIDE DEF found, n
<1> DEFINE Here(p, i, k) == /\ k \in 1 .. i /\ found[k] = p
                            /\ \A j \in 1 .. k - 1 : ~SameTag(found[j], p)
           Good(s, i) ==
             /\ s \in Seq(FactRecords)
             /\ \A j \in 1 .. i : \E p \in DOMAIN s : SameTag(s[p], found[j])
             /\ \E at \in [DOMAIN s -> 1 .. i] :
                  /\ \A p \in DOMAIN s : Here(s[p], i, at[p])
                  /\ \A p, q \in DOMAIN s : p < q => at[p] < at[q]
           Ok == {i \in Nat : i <= n => Good(f[i], i)}
<1>3. 0 \in Ok
  <2> DEFINE s == <<>>
             at == [p \in DOMAIN s |-> 0]
  <2>1. f[0] = s
    BY <1>1, <1>2
  <2>2. s \in Seq(FactRecords) /\ DOMAIN s = {}
    BY EmptySeq
  <2> HIDE DEF s
  <2>3. at \in [DOMAIN s -> 1 .. 0]
    BY <2>2
  <2>4. \A j \in 1 .. 0 : \E p \in DOMAIN s : SameTag(s[p], found[j])
    OBVIOUS
  <2> HIDE DEF at, Here
  <2>5. Good(s, 0)
    BY <2>2, <2>3, <2>4
  <2> HIDE DEF Good
  <2> QED BY <2>1, <2>5
<1>4. ASSUME NEW i \in Nat, i \in Ok PROVE i + 1 \in Ok
  <2> HIDE DEF Good
  <2> SUFFICES ASSUME i + 1 <= n PROVE Good(f[i + 1], i + 1)
    OBVIOUS
  <2> DEFINE s == f[i]
             x == found[i + 1]
  <2>1. Good(s, i)
    BY <1>1, <1>4
  <2> USE DEF Good
  <2>2. f[i + 1] = IF \E j \in DOMAIN s : SameTag(s[j], x) THEN s ELSE Append(s, x)
    <3>1. i + 1 \in 0 .. n /\ i + 1 # 0 /\ (i + 1) - 1 = i
      BY <1>1
    <3> QED BY <1>2, <3>1
  <2>3. x \in FactRecords
    BY <1>1
  <2> HIDE DEF s, x
  <2>4. /\ s \in Seq(FactRecords) /\ Len(s) \in Nat /\ DOMAIN s = 1 .. Len(s)
        /\ \A j \in 1 .. i : \E p \in DOMAIN s : SameTag(s[p], found[j])
    BY <2>1
  <2>5. PICK at \in [DOMAIN s -> 1 .. i] :
          /\ \A p \in DOMAIN s : Here(s[p], i, at[p])
          /\ \A p, q \in DOMAIN s : p < q => at[p] < at[q]
    BY <2>1
  <2>6. CASE \E j \in DOMAIN s : SameTag(s[j], x)
    <3>1. f[i + 1] = s
      BY <2>2, <2>6
    <3>2. \A j \in 1 .. i + 1 : \E p \in DOMAIN s : SameTag(s[p], found[j])
      <4> TAKE j \in 1 .. i + 1
      <4>1. j \in 1 .. i \/ j = i + 1
        OBVIOUS
      <4> QED BY <2>4, <2>6, <4>1 DEF x
    <3>3. at \in [DOMAIN s -> 1 .. i + 1]
      <4>1. 1 .. i \subseteq 1 .. i + 1
        OBVIOUS
      <4> QED BY <2>5, <4>1
    <3>4. \A p \in DOMAIN s : Here(s[p], i + 1, at[p])
      BY <2>5
    <3> HIDE DEF Here
    <3> QED BY <2>4, <2>5, <3>1, <3>2, <3>3, <3>4
  <2>7. CASE ~(\E j \in DOMAIN s : SameTag(s[j], x))
    <3> DEFINE r == Append(s, x)
               l == Len(s) + 1
               to == [p \in DOMAIN r |-> IF p = l THEN i + 1 ELSE at[p]]
    <3>1. f[i + 1] = r
      BY <2>2, <2>7
    <3>2. /\ r \in Seq(FactRecords) /\ DOMAIN r = 1 .. l /\ r[l] = x
          /\ \A p \in DOMAIN s : r[p] = s[p]
      BY <2>3, <2>4, AppendProperties
    <3>3. \A p \in DOMAIN r : p = l \/ p \in DOMAIN s
      BY <2>4, <3>2
    <3> HIDE DEF r
    <3>4. \A j \in 1 .. i + 1 : \E p \in DOMAIN r : SameTag(r[p], found[j])
      <4> TAKE j \in 1 .. i + 1
      <4>1. CASE j \in 1 .. i
        <5>1. PICK p \in DOMAIN s : SameTag(s[p], found[j])
          BY <2>4, <4>1
        <5>2. p \in DOMAIN r /\ r[p] = s[p]
          BY <2>4, <3>2
        <5> QED BY <5>1, <5>2
      <4>2. CASE j = i + 1
        <5>1. l \in DOMAIN r /\ SameTag(r[l], x)
          BY <2>4, <3>2 DEF SameTag
        <5> QED BY <4>2, <5>1 DEF x
      <4> QED BY <4>1, <4>2
    <3>5. \A j \in 1 .. i : ~SameTag(found[j], x)
      <4> SUFFICES ASSUME NEW j \in 1 .. i, SameTag(found[j], x) PROVE FALSE
        OBVIOUS
      <4>1. PICK p \in DOMAIN s : SameTag(s[p], found[j])
        BY <2>4
      <4> QED BY <2>7, <4>1 DEF SameTag
    <3>6. to \in [DOMAIN r -> 1 .. i + 1]
      BY <2>5, <3>3
    <3>7. \A p \in DOMAIN r : Here(r[p], i + 1, to[p])
      <4> TAKE p \in DOMAIN r
      <4>1. CASE p = l
        <5>1. to[p] = i + 1 /\ r[p] = x /\ found[i + 1] = x
          BY <3>2, <4>1 DEF x
        <5> QED BY <3>5, <5>1
      <4>2. CASE p # l
        <5>1. p \in DOMAIN s /\ to[p] = at[p] /\ r[p] = s[p]
          BY <3>2, <3>3, <4>2
        <5>2. Here(s[p], i, at[p])
          BY <2>5, <5>1
        <5> QED BY <5>1, <5>2
      <4> QED BY <4>1, <4>2
    <3>8. \A p, q \in DOMAIN r : p < q => to[p] < to[q]
      <4> TAKE p, q \in DOMAIN r
      <4> SUFFICES ASSUME p < q PROVE to[p] < to[q]
        OBVIOUS
      <4>1. p \in 1 .. l /\ q \in 1 .. l /\ l \in Nat
        BY <2>4, <3>2
      <4>5. p # l /\ p \in DOMAIN s
        BY <3>3, <4>1
      <4>6. to[p] = at[p] /\ at[p] \in 1 .. i
        BY <2>5, <4>5
      <4>2. CASE q = l
        BY <4>2, <4>6
      <4>3. CASE q # l
        <5>1. q \in DOMAIN s /\ to[q] = at[q]
          BY <3>3, <4>3
        <5> QED BY <2>5, <4>5, <4>6, <5>1
      <4> QED BY <4>2, <4>3
    <3> HIDE DEF to, Here
    <3> QED BY <3>1, <3>2, <3>4, <3>6, <3>7, <3>8
  <2> QED BY <2>6, <2>7
<1>5. Good(f[n], n)
  <2> HIDE DEF Good
  <2>1. \A i \in Nat : i \in Ok
    <3> HIDE DEF Ok
    <3> QED BY <1>3, <1>4, SetInduction
  <2> QED BY <1>1, <2>1
<1> DEFINE facts == RegexFacts(m)
<1>6. Good(facts, n)
  <2> HIDE DEF Good
  <2> QED BY <1>2, <1>5
<1> HIDE DEF facts
<1>7. PICK at \in [DOMAIN facts -> 1 .. n] :
        /\ \A p \in DOMAIN facts : Here(facts[p], n, at[p])
        /\ \A p, q \in DOMAIN facts : p < q => at[p] < at[q]
  BY <1>6
<1>8. \A g, h : SameFact(g, h) <=> SameTag(g, h)
  BY DEF SameFact, SameTag
<1> DEFINE First(g) == Min({j \in DOMAIN found : SameFact(found[j], g)})
<1>9. ASSUME NEW p \in DOMAIN facts PROVE First(facts[p]) = at[p]
  <2> DEFINE S == {j \in DOMAIN found : SameFact(found[j], facts[p])}
             k == at[p]
  <2>1. k \in 1 .. n /\ found[k] = facts[p] /\ \A j \in 1 .. k - 1 : ~SameTag(found[j], facts[p])
    BY <1>7
  <2>2. k \in S /\ S \subseteq 1 .. n
    BY <1>1, <1>8, <2>1 DEF SameTag
  <2>3. \A j \in S : k <= j
    <3> TAKE j \in S
    <3>1. j \in 1 .. n /\ SameTag(found[j], facts[p])
      BY <1>1, <1>8
    <3> QED BY <1>1, <2>1, <3>1
  <2> HIDE DEF S, k
  <2>4. \A j \in S : (\A y \in S : j <= y) => j = k
    <3> TAKE j \in S
    <3>1. j \in 1 .. n /\ k \in 1 .. n /\ k <= j
      BY <2>2, <2>3
    <3> QED BY <2>2, <3>1
  <2>5. Min(S) = k
    BY <2>2, <2>3, <2>4 DEF Min
  <2> QED BY <2>5 DEF S, k
<1>10. \A j \in DOMAIN found : \E p \in DOMAIN facts : SameFact(facts[p], found[j])
  BY <1>1, <1>6, <1>8
<1>11. \A p, q \in DOMAIN facts : p < q => First(facts[p]) < First(facts[q])
  <2> HIDE DEF First
  <2> QED BY <1>7, <1>9
<1> HIDE DEF First
<1> QED BY <1>10, <1>11 DEF OnceEach, First, facts, found

(* Offline, every captured pair of predicate and object is found once.     *)
THEOREM RegexFactsAlwaysOnce == ExtractSpec => RegexFactsOnce
<1>1. ASSUME ExtractInv, ResultsOK, [ExtractNext]_extractVars,
             NEW t \in Threads, result'[t] # result[t], result'[t].how = "regex"
      PROVE  OnceEach(result'[t].facts, Captures(message'[t]))
  <2>1. message'[t] \in Messages /\ result'[t].facts = RegexFacts(message'[t])
    BY <1>1, ResultsOf
  <2> QED BY <2>1, RegexOnce
<1>2. ExtractInv /\ ResultsOK /\ [ExtractNext]_extractVars =>
        \A t \in Threads :
          result'[t] # result[t] /\ result'[t].how = "regex" =>
            OnceEach(result'[t].facts, Captures(message'[t]))
  BY <1>1
<1> QED BY <1>2, AlwaysExtractInv, AlwaysResults, PTL DEF ExtractSpec, RegexFactsOnce
=============================================================================
