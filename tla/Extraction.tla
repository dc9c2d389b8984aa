------------------------------- MODULE Extraction -------------------------------
(***************************************************************************)
(* From a message to facts: RegexExtractor and parse_facts_json            *)
(* (src/src/extractor.rs), and an extractor that asks a language model     *)
(* over HTTP (src/src/anthropic.rs, src/src/openai.rs), shared by threads. *)
(*                                                                         *)
(* The server is outside the program: it answers what and when it likes,   *)
(* or never.  What a model writes is a sequence of pieces: a fence, prose, *)
(* prose with braces in it or an object cut short, a JSON object, a list   *)
(* of one object.                                                          *)
(***************************************************************************)
EXTENDS Naturals, Sequences, SequencesExt, FiniteSets, FiniteSetsExt, Functions

CONSTANTS
  Threads,
  Providers,     \* "anthropic", "openai"
  Messages,      \* what a caller passes to extract
  Awkward,       \* messages that have no character boundary at byte 200
  Replies,       \* per message, what the server may answer
  Matches,       \* per message and pattern, what the expression captures
  Fold,          \* lower case, without the blanks around
  Empty, User,   \* the blank text and "user", as Fold leaves them
  Missing,       \* an absent field, or one of another type
  MaxBegun       \* bound of the model: calls begun by all threads

Tokens == {"tokensIn", "tokensOut"}
Counters == {"calls"} \cup Tokens

ASSUME ThreadsAssumption == IsFiniteSet(Threads)
ASSUME FoldAssumption == \A s \in DOMAIN Fold : Fold[Fold[s]] = Fold[s]
(* as_u64 on the fields of the usage: a number, or nothing                 *)
ASSUME UsageAssumption ==
  \A m \in Messages : \A reply \in Replies[m] :
    reply.status = "ok" =>
      reply.usage = Missing \/ reply.usage \in [Tokens -> Nat \cup {Missing}]

(* A text as pieces.  The items are those of the field "facts" of an       *)
(* object, or of the one object in a list.                                 *)
Items == [subject : DOMAIN Fold \cup {Missing}, predicate : DOMAIN Fold \cup {Missing},
          object : DOMAIN Fold \cup {Missing}]
Pieces == [kind : {"fence", "fenceJson", "prose", "braces", "object", "list"},
           items : {Missing} \cup Seq(Items)]
ASSUME PartsAssumption ==
  \A m \in Messages : \A reply \in Replies[m] :
    reply.parts \in Seq([isText : BOOLEAN, pieces : Seq(Pieces)])

VARIABLES
  provider,     \* which API the extractor talks to
  total,        \* its three counters
  pc,           \* per thread: what it is doing
  message,      \* per thread: the argument of its call
  server,       \* per thread: the answer on its connection, or Missing
  toAdd,        \* per thread: the counters it has not added to yet
  toRead,       \* per thread: the counters stats() has not read yet
  snapshot,     \* per thread: what stats() has read
  result,       \* per thread: what its last extraction returned
  answered,     \* history: the counters as the answers received imply
  returned,     \* history: the same, of the calls that have returned
  floor,        \* history: per thread, returned when its stats() began
  begun

extractVars == <<provider, total, pc, message, server, toAdd, toRead, snapshot, result,
          answered, returned, floor, begun>>

Zero == [c \in Counters |-> 0]

-----------------------------------------------------------------------------
(* Seeded faults.                                                          *)
(* Only a text that is one JSON value is accepted.                         *)
PayloadNoSalvage(inner) ==
  IF Len(inner) = 1 /\ inner[1].kind \in {"object", "list"} THEN inner[1]
  ELSE [kind |-> "none", items |-> Missing]
(* A call is counted where its usage is.                                   *)
CountsUsageOnly(reply) ==
  IF reply.usage = Missing THEN {}
  ELSE {"calls"} \cup {c \in DOMAIN reply.usage : reply.usage[c] # Missing}
(* A capture is a duplicate when an earlier one has its object.            *)
SameObject(f, g) == f.obj = g.obj

-----------------------------------------------------------------------------
(* parse_facts_json                                                        *)

(* strip_prefix, then trim_end_matches: all fences at the end              *)
Inner(raw) ==
  IF raw # <<>> /\ raw[1].kind \in {"fence", "fenceJson"}
  THEN SubSeq(raw, 2, Max({1} \cup {j \in DOMAIN raw : raw[j].kind # "fence"}))
  ELSE raw

(* The text as JSON, or else its part from the first brace to the last     *)
Payload(inner) ==
  LET braced == {j \in DOMAIN inner : inner[j].kind \in {"braces", "object", "list"}}
  IN  IF Len(inner) = 1 /\ inner[1].kind \in {"object", "list"}
      THEN inner[1]
      ELSE IF \E j \in braced : braced = {j} /\ inner[j].kind # "braces"
      THEN [inner[CHOOSE j \in braced : TRUE] EXCEPT !.kind = "object"]
      ELSE [kind |-> "none", items |-> Missing]

Complete(item) ==
  \A field \in {"predicate", "object"} :
    item[field] # Missing /\ Fold[item[field]] # Empty

AsFact(item) ==
  [subject   |-> IF item.subject = Missing THEN User ELSE Fold[item.subject],
   predicate |-> Fold[item.predicate],
   obj       |-> Fold[item.object]]

FactsOf(items) ==
  LET complete == SelectSeq(items, Complete)
  IN  [j \in DOMAIN complete |-> AsFact(complete[j])]

Parsed(raw) ==
  LET payload == Payload(Inner(raw))
  IN  IF payload.kind # "object" \/ payload.items = Missing THEN <<>>
      ELSE FactsOf(payload.items)

(* The text blocks of a message, or the content of the first choice        *)
TextBlocks(reply) ==
  FlattenSeq([j \in DOMAIN reply.parts |->
                IF reply.parts[j].isText THEN reply.parts[j].pieces ELSE <<>>])
FirstChoice(reply) ==
  IF reply.parts # <<>> /\ reply.parts[1].isText THEN reply.parts[1].pieces ELSE <<>>
RawText(reply) ==
  IF provider = "anthropic" THEN TextBlocks(reply) ELSE FirstChoice(reply)

-----------------------------------------------------------------------------
(* RegexExtractor: every capture of every pattern, the first of each kind  *)
Patterns == <<"works_as", "lives_in", "likes", "owns", "speaks">>
ASSUME MatchesAssumption ==
  \A m \in Messages : \A j \in DOMAIN Patterns : Matches[m][Patterns[j]] \in Seq(DOMAIN Fold)

SameTag(f, g) == f.predicate = g.predicate /\ f.obj = g.obj

Captures(m) ==
  FlattenSeq([j \in DOMAIN Patterns |->
    [n \in DOMAIN Matches[m][Patterns[j]] |->
       [subject |-> User, predicate |-> Patterns[j],
        obj |-> Fold[Matches[m][Patterns[j]][n]]]]])

RegexFacts(m) ==
  LET found == Captures(m)
      facts[i \in 0 .. Len(found)] ==
        IF i = 0 THEN <<>>
        ELSE IF \E j \in DOMAIN facts[i - 1] : SameTag(facts[i - 1][j], found[i])
             THEN facts[i - 1] ELSE Append(facts[i - 1], found[i])
  IN  facts[Len(found)]

-----------------------------------------------------------------------------
NoResult == [how |-> "none", facts |-> <<>>]

ExtractInit ==
  /\ provider \in Providers
  /\ total = Zero
  /\ pc = [t \in Threads |-> "idle"]
  /\ message \in [Threads -> {CHOOSE m \in Messages : TRUE}]
  /\ server = [t \in Threads |-> Missing]
  /\ toAdd = [t \in Threads |-> {}]
  /\ toRead = [t \in Threads |-> {}]
  /\ snapshot = [t \in Threads |-> Zero]
  /\ result = [t \in Threads |-> NoResult]
  /\ answered = Zero
  /\ returned = Zero
  /\ floor = [t \in Threads |-> Zero]
  /\ begun = 0

MayBegin(t) == pc[t] = "idle" /\ begun < MaxBegun

(* extract of an HTTP extractor: the request is sent.                      *)
Send(t, m) ==
  /\ MayBegin(t)
  /\ begun' = begun + 1
  /\ pc' = [pc EXCEPT ![t] = "waiting"]
  /\ message' = [message EXCEPT ![t] = m]
  /\ result' = [result EXCEPT ![t] = NoResult]
  /\ UNCHANGED <<provider, total, server, toAdd, toRead, snapshot, answered, returned, floor>>

(* External.                                                               *)
Answer(t) == \E reply \in Replies[message[t]] :
  /\ pc[t] = "waiting"
  /\ server[t] = Missing
  /\ server' = [server EXCEPT ![t] = reply]
  /\ UNCHANGED <<provider, total, pc, message, toAdd, toRead, snapshot, result,
                 answered, returned, floor, begun>>

(* call returns Err, and extract an empty list.                            *)
GiveUp(t) ==
  /\ pc' = [pc EXCEPT ![t] = "idle"]
  /\ server' = [server EXCEPT ![t] = Missing]
  /\ result' = [result EXCEPT ![t] = [NoResult EXCEPT !.how = "failed"]]
  /\ UNCHANGED <<provider, total, message, toAdd, toRead, snapshot, answered, returned,
                 floor, begun>>

(* timeout_global: also when an answer is under way, which is then lost.   *)
Timeout(t) ==
  /\ pc[t] = "waiting"
  /\ GiveUp(t)

(* An error status, or a body that is not JSON                             *)
ReceiveError(t) ==
  /\ pc[t] = "waiting"
  /\ server[t] # Missing
  /\ server[t].status = "error"
  /\ GiveUp(t)

Counts(reply) ==
  {"calls"} \cup (IF reply.usage = Missing THEN {}
                  ELSE {c \in DOMAIN reply.usage : reply.usage[c] # Missing})
Amount(reply, c) == IF c = "calls" THEN 1 ELSE reply.usage[c]
Implied(reply) ==
  [c \in Counters |-> IF c = "calls" THEN 1
                      ELSE IF reply.usage = Missing THEN 0
                      ELSE IF reply.usage[c] = Missing THEN 0 ELSE reply.usage[c]]
Plus(f, g) == [c \in Counters |-> f[c] + g[c]]

Receive(t) ==
  /\ pc[t] = "waiting"
  /\ server[t] # Missing
  /\ server[t].status = "ok"
  /\ pc' = [pc EXCEPT ![t] = "counting"]
  /\ toAdd' = [toAdd EXCEPT ![t] = Counts(server[t])]
  /\ answered' = Plus(answered, Implied(server[t]))
  /\ UNCHANGED <<provider, total, message, server, toRead, snapshot, result, returned,
                 floor, begun>>

(* fetch_add with Ordering::Relaxed: other threads may see the three in    *)
(* any order.                                                              *)
Add(t, c) ==
  /\ pc[t] = "counting"
  /\ c \in toAdd[t]
  /\ total' = [total EXCEPT ![c] = @ + Amount(server[t], c)]
  /\ toAdd' = [toAdd EXCEPT ![t] = @ \ {c}]
  /\ UNCHANGED <<provider, pc, message, server, toRead, snapshot, result, answered, returned,
                 floor, begun>>

(* The facts of a text, or the panic of Fact::new over an awkward source   *)
Return(t, facts, source) ==
  /\ pc' = [pc EXCEPT ![t] = "idle"]
  /\ result' = [result EXCEPT ![t] =
       IF facts # <<>> /\ source \in Awkward
       THEN [how |-> "panic", facts |-> <<>>]
       ELSE [how |-> "facts", facts |-> facts]]

Parse(t) ==
  /\ pc[t] = "counting"
  /\ toAdd[t] = {}
  /\ Return(t, Parsed(RawText(server[t])), message[t])
  /\ returned' = Plus(returned, Implied(server[t]))
  /\ server' = [server EXCEPT ![t] = Missing]
  /\ UNCHANGED <<provider, total, message, toAdd, toRead, snapshot, answered, floor, begun>>

(* extract of a RegexExtractor: the source is the match.  Only a word of   *)
(* some hundred letters makes it awkward: FfiEngine has that panic.        *)
Regex(t, m) ==
  /\ MayBegin(t)
  /\ begun' = begun + 1
  /\ message' = [message EXCEPT ![t] = m]
  /\ result' = [result EXCEPT ![t] = [how |-> "regex", facts |-> RegexFacts(m)]]
  /\ UNCHANGED <<provider, total, pc, server, toAdd, toRead, snapshot, answered, returned,
                 floor>>

(* stats: three loads, one after the other                                 *)
BeginStats(t) ==
  /\ MayBegin(t)
  /\ begun' = begun + 1
  /\ pc' = [pc EXCEPT ![t] = "stats"]
  /\ toRead' = [toRead EXCEPT ![t] = Counters]
  /\ floor' = [floor EXCEPT ![t] = returned]
  /\ UNCHANGED <<provider, total, message, server, toAdd, snapshot, result, answered, returned>>

Read(t, c) ==
  /\ pc[t] = "stats"
  /\ c \in toRead[t]
  /\ snapshot' = [snapshot EXCEPT ![t][c] = total[c]]
  /\ toRead' = [toRead EXCEPT ![t] = @ \ {c}]
  /\ pc' = [pc EXCEPT ![t] = IF toRead'[t] = {} THEN "idle" ELSE "stats"]
  /\ UNCHANGED <<provider, total, message, server, toAdd, result, answered, returned, floor,
                 begun>>

ExtractNext ==
  \E t \in Threads :
    \/ \E m \in Messages : Send(t, m) \/ Regex(t, m)
    \/ BeginStats(t)
    \/ Answer(t)
    \/ Timeout(t)
    \/ ReceiveError(t)
    \/ Receive(t)
    \/ \E c \in Counters : Add(t, c) \/ Read(t, c)
    \/ Parse(t)

ExtractSpec == ExtractInit /\ [][ExtractNext]_extractVars

-----------------------------------------------------------------------------
(* What a thread has still to add to a counter                             *)
Owed(t, c) ==
  IF pc[t] = "counting" /\ c \in toAdd[t] THEN Amount(server[t], c) ELSE 0

SameFact(f, g) == <<f.predicate, f.obj>> = <<g.predicate, g.obj>>

(* However the additions of several threads interleave, none is lost: each *)
(* counter and what is still to be added make up the answers received, a   *)
(* timed-out or refused request counting nothing.  What stats() reads, one *)
(* counter after the other, covers every extraction that had returned when *)
(* it began, and nothing that was not answered.                            *)
CountersAddUp ==
  /\ pc \in [Threads -> {"idle", "waiting", "counting", "stats"}]
  /\ total \in [Counters -> Nat]
  /\ \A c \in Counters :
       total[c] + SumFunction([t \in Threads |-> Owed(t, c)]) = answered[c]
  /\ \A t \in Threads : \A c \in Counters \ toRead[t] :
       snapshot[t][c] \in floor[t][c] .. answered[c]

(* The facts of the one JSON value in a text, or none: none when the text  *)
(* has two, and all of an object's when there is nothing but fences and    *)
(* prose around it.                                                        *)
AsSaid(facts, raw) ==
  LET json == {j \in DOMAIN raw : raw[j].kind \in {"object", "list"}}
      said(j) == IF raw[j].items = Missing THEN <<>> ELSE FactsOf(raw[j].items)
  IN  /\ facts # <<>> => \E j \in json : json = {j} /\ facts = said(j)
      /\ \A j \in json :
           /\ raw[j].kind = "object"
           /\ \A n \in DOMAIN raw \ {j} : raw[n].kind \in {"fence", "fenceJson", "prose"}
           => facts = said(j)

(* An answer gives all its facts or none.  None is invented or taken from  *)
(* two objects, and fences and prose around the one object, in one block   *)
(* or over several, lose none: the complete items come back in their       *)
(* order.                                                                  *)
FactsAsReplied ==
  [][ \A t \in Threads :
        result'[t] # result[t] /\ result'[t].how = "facts" =>
          AsSaid(result'[t].facts, RawText(server[t])) ]_extractVars

(* What was found, each pair of predicate and object once and in the order *)
(* of its first occurrence                                                 *)
OnceEach(facts, found) ==
  LET First(f) == Min({j \in DOMAIN found : SameFact(found[j], f)})
  IN  /\ \A j \in DOMAIN found : \E n \in DOMAIN facts : SameFact(facts[n], found[j])
      /\ \A m, n \in DOMAIN facts : m < n => First(facts[m]) < First(facts[n])

(* The offline extractor finds every captured pair of predicate and object *)
(* once, in the order in which they were captured first.                   *)
RegexFactsOnce ==
  [][ \A t \in Threads :
        result'[t] # result[t] /\ result'[t].how = "regex" =>
          OnceEach(result'[t].facts, Captures(message'[t])) ]_extractVars
=============================================================================
