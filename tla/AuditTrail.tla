----------------------------- MODULE AuditTrail -----------------------------
(***************************************************************************)
(* AuditTrail (src/src/audit.rs) of one user, together with the memory the *)
(* same events are recorded in under their id, and with the two files of   *)
(* the user (src/src/persistence.rs, src/src/service.rs) both are saved    *)
(* to, one after the other, and loaded from after a restart.               *)
(*                                                                         *)
(* An event id is the pair of the wall clock in milliseconds and the       *)
(* counter.  The memory is a set of events, as AdaptiveMemory implements   *)
(* it; what is not about audit keys is left out of it.  The field layered  *)
(* of an event is history: record was given the memory (mp: Some(..)).     *)
(***************************************************************************)
EXTENDS Naturals, Sequences, FiniteSets, FiniteSetsExt, SequencesExt, Functions

CONSTANTS
  Kinds,        \* EventKind, and what as_str makes of it
  Capacity,     \* in_memory_capacity
  VocabCap,     \* how many kinds the memory has rows for
  NoTrail,       \* no trail was saved
  CutShort,     \* a file cut short by a crash
  MaxClock,     \* bound of the model: the latest millisecond
  MaxEvents     \* bound of the model: calls of record

ASSUME AuditAssumption ==
  /\ Capacity \in Nat \ {0}
  /\ VocabCap \in Nat
ASSUME BoundAssumption == MaxClock \in Nat /\ MaxEvents \in Nat

(* An event id is the time and the counter of the call.                    *)
Events ==
  [id : (0 .. MaxClock) \X (1 .. MaxEvents), kind : Kinds, layered : BOOLEAN]

VARIABLES
  encrypted,  \* the backend: TRUE for save_state_sealed, without audit.json
  up,         \* the process is up
  clock,      \* SystemTime::now in milliseconds
  counter,    \* AuditTrail.counter
  inMemory,   \* AuditTrail.in_memory
  bank,       \* the events recorded in the AdaptiveMemory
  known,      \* the kinds its vocab has a row for
  files,      \* adaptive.json, {} before the first save, and audit.json
  step,       \* which file a save in progress writes next; 1 when none is
  setBack,    \* history: SystemTime was set back
  log,        \* history: the events recorded in the trail that is loaded
  issued      \* history: every id record ever returned, in order

auditVars == <<encrypted, up, clock, counter, inMemory, bank, known, files, step,
          setBack, log, issued>>

KindsOf(events) == {e.kind : e \in events}

-----------------------------------------------------------------------------
(* Seeded faults.                                                          *)
SameCounter(c) == c
AuditFirst == <<"audit", "adaptive">>
CounterOfEvents(snap) == Len(snap.events)
NewestFirst(ring) == Reverse(ring)

-----------------------------------------------------------------------------
NextCounter(c) == c + 1

(* The oldest event makes room.                                            *)
Pushed(ring, event) ==
  IF Len(ring) >= Capacity THEN Append(Tail(ring), event) ELSE Append(ring, event)

(* save_state of the trail: recent() is newest first, reversed again.      *)
SavedEvents(ring) == ring

(* restore                                                                 *)
RestoredRing(snap) ==
  LET f[i \in 0 .. Len(snap.events)] ==
        IF i = 0 THEN <<>> ELSE Pushed(f[i - 1], snap.events[i])
  IN  f[Len(snap.events)]
RestoredCounter(snap) == snap.counter

SaveOrder == <<"adaptive", "audit">>

AuditWritten(file) ==
  IF file = "adaptive"
  THEN [files EXCEPT !.adaptive = bank]
  ELSE [files EXCEPT !.audit =
          [events |-> SavedEvents(inMemory), counter |-> counter, log |-> log]]

LastFile == IF encrypted THEN 1 ELSE Len(SaveOrder)

-----------------------------------------------------------------------------
AuditInit ==
  /\ encrypted \in BOOLEAN
  /\ up = TRUE
  /\ clock = 0
  /\ counter = 0
  /\ inMemory = <<>>
  /\ bank = {}
  /\ known = {}
  /\ files = [adaptive |-> {}, audit |-> NoTrail]
  /\ step = 1
  /\ setBack = FALSE
  /\ log = <<>>
  /\ issued = <<>>

Tick ==
  /\ clock < MaxClock
  /\ clock' = clock + 1
  /\ UNCHANGED <<encrypted, setBack, up, counter, inMemory, bank, known, files, step, log, issued>>

ClockSetBack ==
  /\ clock > 0
  /\ clock' = clock - 1
  /\ setBack' = TRUE
  /\ UNCHANGED <<encrypted, up, counter, inMemory, bank, known, files, step, log, issued>>

Ready == up /\ step = 1 /\ Len(issued) < MaxEvents /\ counter < MaxEvents

Record(kind, withMp) ==
  LET event == [id      |-> <<clock, NextCounter(counter)>>,
                kind    |-> kind,
                layered |-> withMp]
  IN  /\ Ready
      /\ withMp => kind \in known \/ Cardinality(known) < VocabCap
      /\ counter' = NextCounter(counter)
      /\ bank' = IF withMp
                 THEN {e \in bank : e.id # event.id} \cup {event}
                 ELSE bank
      /\ known' = IF withMp THEN known \cup {kind} ELSE known
      /\ inMemory' = Pushed(inMemory, event)
      /\ log' = Append(log, event)
      /\ issued' = Append(issued, event.id)
      /\ UNCHANGED <<encrypted, setBack, up, clock, files, step>>

(* The counter has moved on before the preview is cut, which panics inside *)
(* a character, and before the store, which may find the vocab full.       *)
RecordFails ==
  /\ Ready
  /\ counter' = NextCounter(counter)
  /\ UNCHANGED <<encrypted, setBack, up, clock, inMemory, bank, known, files, step, log, issued>>

(* One file of the user's directory; nothing else runs until the last.     *)
SaveFile ==
  /\ up
  /\ files' = AuditWritten(SaveOrder[step])
  /\ step' = IF step = LastFile THEN 1 ELSE step + 1
  /\ UNCHANGED <<encrypted, setBack, up, clock, counter, inMemory, bank, known, log, issued>>

AuditCrash ==
  /\ up
  /\ up' = FALSE
  /\ step' = 1
  /\ UNCHANGED <<encrypted, setBack, clock, counter, inMemory, bank, known, files, log, issued>>

(* fs::write truncates first.  (A torn adaptive.json is fatal to the load  *)
(* of the whole service.)                                                  *)
CrashInAuditFile ==
  /\ up
  /\ ~encrypted
  /\ SaveOrder[step] = "audit"
  /\ files' = [files EXCEPT !.audit = CutShort]
  /\ up' = FALSE
  /\ step' = 1
  /\ UNCHANGED <<encrypted, setBack, clock, counter, inMemory, bank, known, log, issued>>

AuditFileLoads == files.audit \notin {NoTrail, CutShort}

(* A restart takes a millisecond, and gives the vocab only the kinds of    *)
(* the events in the file back.  A trail that is missing or damaged is     *)
(* replaced by a new one (unwrap_or_default), a sealed one always.         *)
Restart ==
  /\ ~up
  /\ clock < MaxClock
  /\ clock' = clock + 1
  /\ up' = TRUE
  /\ bank' = files.adaptive
  /\ known' = KindsOf(bank')
  /\ IF AuditFileLoads
     THEN /\ inMemory' = RestoredRing(files.audit)
          /\ counter' = RestoredCounter(files.audit)
          /\ log' = files.audit.log
     ELSE /\ inMemory' = <<>>
          /\ counter' = 0
          /\ log' = <<>>
  /\ UNCHANGED <<encrypted, setBack, files, step, issued>>

AuditNext ==
  \/ Tick
  \/ ClockSetBack
  \/ \E kind \in Kinds, withMp \in BOOLEAN : Record(kind, withMp)
  \/ RecordFails
  \/ SaveFile
  \/ AuditCrash
  \/ CrashInAuditFile
  \/ Restart

AuditSpec == AuditInit /\ [][AuditNext]_auditVars

-----------------------------------------------------------------------------
AuditTypeOK ==
  /\ clock \in 0 .. MaxClock
  /\ counter \in 0 .. MaxEvents
  /\ inMemory \in Seq(Events)
  /\ bank \subseteq Events
  /\ KindsOf(bank) \subseteq known
  /\ IsFiniteSet(known) /\ Cardinality(known) <= VocabCap

(* The trail holds the most recent events of its log, as many as Capacity  *)
(* allows, oldest first, through evictions, failed calls and reloads.      *)
HoldsMostRecent ==
  /\ AuditTypeOK
  /\ LET n == Min({Len(log), Capacity})
     IN  inMemory = SubSeq(log, Len(log) - n + 1, Len(log))

(* The counter covers every event of the trail, those evicted from it      *)
(* included, so that a trail that was loaded never numbers an event twice. *)
CounterCoversLog ==
  /\ \A i \in DOMAIN log : log[i].id[2] <= counter
  /\ \A i, j \in DOMAIN log : i < j => log[i].id[2] < log[j].id[2]

(* "The same event-id is used as the HLB subject": what the trail shows of *)
(* an event recorded in both layers the memory can answer by its id, also  *)
(* after a crash between the two files.                                    *)
LayersAgree ==
  up =>
    \A i \in DOMAIN inMemory : inMemory[i].layered => inMemory[i] \in bank

(* "Event-id is unique across all calls (millisecond timestamp + monotone  *)
(* counter)" (src/src/audit.rs:10): also after crashes and sealed restarts *)
(* that lose the counter, but only as long as the clock does not go back.  *)
IdsUnique == ~setBack => IsInjective(issued)
=============================================================================
