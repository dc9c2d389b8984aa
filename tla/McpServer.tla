------------------------------- MODULE McpServer -------------------------------
(***************************************************************************)
(* The MCP server (src/src/mcp_server.rs): one thread that reads a line    *)
(* from stdin, handles it and writes the response to stdout before it      *)
(* reads the next, and saves the service when stdin ends.  The client has  *)
(* the other ends of both pipes, sends without waiting for responses, and  *)
(* may close either end at any time.                                       *)
(*                                                                         *)
(* The memory is one user's, per predicate, and a save is one step: see    *)
(* MemoryService for its files.  A line is what the server makes of it.    *)
(***************************************************************************)
EXTENDS Naturals, Sequences

CONSTANTS
  Predicates, Values,
  NotFound,
  Nothing,        \* no response is pending
  MaxLines,       \* bound of the model: lines of a session
  MaxSessions     \* bound of the model: runs of the server

ASSUME McpBoundsAssumption == {MaxLines, MaxSessions} \subseteq Nat \ {0}

VARIABLES
  sent,         \* lines of this session, read or not
  stdinOpen, stdoutOpen,   \* the client's ends of the pipes
  next,         \* lines read so far
  loop,         \* where the loop of run() is, or how it ended
  response,     \* the response handle_request returned
  out,          \* responses the client has
  facts,        \* the memory
  stateFile,
  loaded,       \* history: the memory the session started with
  session

mcpVars == <<sent, stdinOpen, stdoutOpen, next, loop, response, out, facts, stateFile,
          loaded, session>>

pipes == <<sent, stdinOpen, stdoutOpen>>
Ended == {"saved", "unsaved", "broken", "dead"}

(* A line: blank, or no JSON ("skipped"); not UTF-8 ("unreadable"); JSON   *)
(* that has no method which is a string, be it a response of the client or *)
(* a batch ("methodless"); the method notifications/initialized            *)
(* ("initialized"); a ping or a listing; a method or a tool nobody knows,  *)
(* or a call without its arguments ("refused"); a tool; a message with a   *)
(* fact whose source is cut inside a character ("cut").  Whatever is JSON  *)
(* may have an id, or lack one.                                            *)
Lines ==
  [kind : {"skipped", "unreadable"}, hasId : {FALSE}]
  \cup [kind : {"methodless", "initialized", "ping", "refused", "cut"}, hasId : BOOLEAN]
  \cup [kind : {"recall", "forget"}, hasId : BOOLEAN, predicate : Predicates]
  \cup [kind : {"store"}, hasId : BOOLEAN, predicate : Predicates, value : Values]

-----------------------------------------------------------------------------
(* Seeded faults.                                                          *)
(* A notification is dropped instead of executed.                          *)
EffectOfRequests(f, line) ==
  IF line.kind = "store" /\ line.hasId
  THEN [f EXCEPT ![line.predicate] = line.value]
  ELSE IF line.kind = "forget" /\ line.hasId
       THEN [f EXCEPT ![line.predicate] = NotFound]
       ELSE f
(* An error is not answered.                                               *)
AnsweredWhenOk(line) ==
  line.hasId /\ line.kind \notin {"methodless", "initialized", "refused"}
(* A notification is.                                                      *)
AnsweredAlways(line) == line.kind \notin {"skipped", "methodless", "initialized"}
(* The service is saved as it was loaded.                                  *)
StateLoaded == loaded

-----------------------------------------------------------------------------
(* tool_call_result on the memory                                          *)
Effect(f, line) ==
  CASE line.kind = "store"  -> [f EXCEPT ![line.predicate] = line.value]
    [] line.kind = "forget" -> [f EXCEPT ![line.predicate] = NotFound]
    [] OTHER -> f

Result(f, line) ==
  CASE line.kind = "recall" -> f[line.predicate]
    [] line.kind = "forget" -> IF f[line.predicate] = NotFound THEN "absent" ELSE "removed"
    [] line.kind = "refused" -> "error"
    [] OTHER -> "ok"

(* handle_request returns None before it looks at the id for a line        *)
(* without a method and for notifications/initialized, and after it has    *)
(* executed the line when there is no id.                                  *)
Answered(line) == line.kind \notin {"methodless", "initialized"} /\ line.hasId

(* What run() can go on from after reading it                              *)
Handles(line) == line.kind \notin {"unreadable", "cut"}

StateToSave == facts

-----------------------------------------------------------------------------
Start(memory) ==
  /\ sent' = <<>>
  /\ stdinOpen' = TRUE
  /\ stdoutOpen' = TRUE
  /\ next' = 0
  /\ loop' = "reading"
  /\ response' = Nothing
  /\ out' = <<>>
  /\ facts' = memory
  /\ loaded' = memory

McpInit ==
  /\ sent = <<>>
  /\ stdinOpen = TRUE
  /\ stdoutOpen = TRUE
  /\ next = 0
  /\ loop = "reading"
  /\ response = Nothing
  /\ out = <<>>
  /\ facts = [p \in Predicates |-> NotFound]
  /\ stateFile = facts
  /\ loaded = facts
  /\ session = 1

(* The client                                                              *)
Send(line) ==
  /\ stdinOpen
  /\ Len(sent) < MaxLines
  /\ sent' = Append(sent, line)
  /\ UNCHANGED <<stdinOpen, stdoutOpen, next, loop, response, out, facts, stateFile, loaded, session>>

CloseStdin ==
  /\ stdinOpen
  /\ stdinOpen' = FALSE
  /\ UNCHANGED <<sent, stdoutOpen, next, loop, response, out, facts, stateFile, loaded, session>>

CloseStdout ==
  /\ stdoutOpen
  /\ stdoutOpen' = FALSE
  /\ UNCHANGED <<sent, stdinOpen, next, loop, response, out, facts, stateFile, loaded, session>>

(* The server                                                              *)
HasLine == loop = "reading" /\ next < Len(sent)
Line == sent[next + 1]

Handle ==
  /\ HasLine
  /\ Handles(Line)
  /\ next' = next + 1
  /\ facts' = Effect(facts, Line)
  /\ IF Answered(Line)
     THEN /\ loop' = "writing"
          /\ response' = [id |-> next + 1, result |-> Result(facts, Line)]
     ELSE UNCHANGED <<loop, response>>
  /\ UNCHANGED <<pipes, out, stateFile, loaded, session>>

Write ==
  /\ loop = "writing"
  /\ stdoutOpen
  /\ out' = Append(out, response)
  /\ response' = Nothing
  /\ loop' = "reading"
  /\ UNCHANGED <<pipes, next, facts, stateFile, loaded, session>>

(* writeln returns an error and run() returns it.                          *)
WriteBroken ==
  /\ loop = "writing"
  /\ ~stdoutOpen
  /\ loop' = "broken"
  /\ UNCHANGED <<pipes, next, response, out, facts, stateFile, loaded, session>>

(* A panic unwinds the only thread.                                        *)
HandlePanics ==
  /\ HasLine
  /\ Line.kind = "cut"
  /\ loop' = "dead"
  /\ UNCHANGED <<pipes, next, response, out, facts, stateFile, loaded, session>>

(* EOF, or a line that read_line cannot read                               *)
LoopEnds ==
  /\ loop = "reading"
  /\ \/ next = Len(sent) /\ ~stdinOpen
     \/ next < Len(sent) /\ Line.kind = "unreadable"

(* Whether the save works or not, run() returns Ok.                        *)
Shutdown ==
  /\ LoopEnds
  /\ \/ loop' = "saved" /\ stateFile' = StateToSave
     \/ loop' = "unsaved" /\ UNCHANGED stateFile
  /\ UNCHANGED <<pipes, next, response, out, facts, loaded, session>>

Kill ==
  /\ loop \notin Ended
  /\ loop' = "dead"
  /\ UNCHANGED <<pipes, next, response, out, facts, stateFile, loaded, session>>

(* The client starts the server again.                                     *)
Restart ==
  /\ loop \in Ended
  /\ session < MaxSessions
  /\ session' = session + 1
  /\ Start(stateFile)
  /\ UNCHANGED stateFile

Server == Handle \/ Write \/ WriteBroken \/ HandlePanics \/ Shutdown

McpNext ==
  \/ \E line \in Lines : Send(line)
  \/ CloseStdin
  \/ CloseStdout
  \/ Handle
  \/ Write
  \/ WriteBroken
  \/ HandlePanics
  \/ Shutdown
  \/ Kill
  \/ Restart

(* The server keeps running while it can take a step.  The client need not *)
(* do anything, but it does not leave a full pipe unread for ever.         *)
McpSpec == McpInit /\ [][McpNext]_mcpVars /\ WF_mcpVars(Server)

-----------------------------------------------------------------------------
McpMemories == [Predicates -> Values \cup {NotFound}]
Results == Values \cup {NotFound} \cup {"absent", "removed", "ok", "error"}
Responses == [id : 1 .. MaxLines, result : Results]

McpTypeOK ==
  /\ next \in 0 .. Len(sent)
  /\ loop \in {"reading", "writing"} \cup Ended
  /\ response \in Responses \cup {Nothing}
  /\ loop = "writing" => response \in Responses
  /\ \A i \in DOMAIN out : out[i] \in Responses
  /\ {facts, stateFile, loaded} \subseteq McpMemories

(* What the server takes for a request: an id, whatever it is, and a       *)
(* method to dispatch, known or not.  A line with an id and no method, a   *)
(* batch, or notifications/initialized with an id is none: see IdsAnswered.*)
Request(line) ==
  /\ line.hasId
  /\ line.kind \in {"ping", "refused", "recall", "forget", "store", "cut"}

HasResponse(n) == \E i \in DOMAIN out : out[i].id = n

(* Of the lines read, the requests are answered: one response each, in the *)
(* order of the lines, errors included.  Nothing else is answered, be it a *)
(* notification that was executed or a line that was skipped, with an id   *)
(* or without.  Only the line read last may lack its response, in a server *)
(* that is writing it or that ended before it did.                         *)
AnsweredInOrder ==
  /\ McpTypeOK
  /\ \A i \in DOMAIN out : out[i].id \in 1 .. next /\ Request(sent[out[i].id])
  /\ \A i, j \in DOMAIN out : i < j => out[i].id < out[j].id
  /\ \A n \in 1 .. next :
       Request(sent[n]) /\ ~HasResponse(n) => n = next /\ loop # "reading"

(* The value a predicate has before line n, from the lines alone: that of  *)
(* the last line that stored or forgot it, with or without an id.          *)
Writers(p, n) ==
  {i \in 1 .. n - 1 : sent[i].kind \in {"store", "forget"} /\ sent[i].predicate = p}
ValueAt(p, n) ==
  IF Writers(p, n) = {} THEN loaded[p]
  ELSE LET last == sent[CHOOSE i \in Writers(p, n) : \A j \in Writers(p, n) : j <= i]
       IN IF last.kind = "store" THEN last.value ELSE NotFound

(* The client need not wait: however many lines it has sent ahead, what a  *)
(* recall returns is what the lines before it left.                        *)
RecallSeesLinesBefore ==
  \A i \in DOMAIN out :
    LET line == sent[out[i].id]
    IN line.kind = "recall" => out[i].result = ValueAt(line.predicate, out[i].id)

(* A session that ends with stdin and is saved leaves the next one all of  *)
(* its changes, those of lines still unread when stdin was closed too.     *)
SessionSurvives ==
  [][ session' # session /\ loop = "saved" =>
        \A p \in Predicates : facts'[p] = ValueAt(p, next + 1) ]_mcpVars

(* Every request is answered, unless the server ends first: no line before *)
(* it, skipped, executed without a response or refused, stops the loop.    *)
RequestsAnswered ==
  \A n \in 1 .. MaxLines :
    (n <= Len(sent) /\ Request(sent[n])) ~> (loop \in Ended \/ HasResponse(n))

-----------------------------------------------------------------------------
(* "Best-effort save on shutdown." (src/src/mcp_server.rs:77): a server    *)
(* that ends because its client has closed stdout has saved as well.       *)
SavedOnShutdown == loop = "broken" => stateFile = facts

(* "Notifications have no id and need no response."                        *)
(* (src/src/mcp_server.rs:89): hence a line with an id is no notification, *)
(* and has a response when the next line is read.                          *)
IdsAnswered ==
  \A n \in 1 .. next :
    sent[n].hasId /\ ~HasResponse(n) => n = next /\ loop # "reading"
=============================================================================
