----------------------------- MODULE AppServerClient -----------------------------
(***************************************************************************)
(* One conversation with the app-server: JSON-RPC over a WebSocket of its  *)
(* own.                                                                    *)
(*                                                                         *)
(* A job's, _run_codex_via_app_server_ws (codex_gateway.py:1269),          *)
(* initializes, resumes or starts a thread, starts a turn and reads until  *)
(* a turn/completed notification.  Every message it reads goes through     *)
(* process_message, which answers the requests of the server before the    *)
(* next message is read.  A handler's, _app_server_rpc (:872), initializes,*)
(* sends one request and closes the connection with its response; requests *)
(* of the server it answers with an error.  Both recognise a response by   *)
(* its id alone.                                                           *)
(*                                                                         *)
(* The app-server is not part of this repository.  It is modelled from     *)
(* what the client relies on and from protocol/: it serves requests in     *)
(* order, numbers its own requests independently of the client's, shows    *)
(* every turn of a thread and what it asks to all who have the thread open *)
(* (ServerRequestResolvedNotification.json), and ends a turn only when     *)
(* what it asked was answered.  The two directions are FIFO.               *)
(***************************************************************************)
EXTENDS Naturals, Sequences, FiniteSets

CONSTANTS
  ServerId,      \* the ids the server gives its own requests
  MaxForeign,    \* bound: turns of others that end on this thread
  MaxChatter     \* bound: other notifications under way

ASSUME ClientAssumption ==
  /\ ServerId \subseteq Nat \ {0}
  /\ MaxForeign \in Nat /\ MaxChatter \in Nat

VARIABLES
  call,          \* what is called: payload.kind or the method, and if there is a prompt
  pc,            \* what the client waits for
  awaited,       \* the id of the request it waits a response for
  nextId,        \* next_id
  threadKnown,   \* thread_id is not None
  turnCompleted, \* turn_completed
  answering,     \* the server request on_server_request is busy with
  toServer, toClient,
  turn,          \* the server: the turn this client started
  thread,        \* whether this client sees the thread, and was told that it opened
  asked,         \* ids of the requests it sent here that have no answer yet
  used, others,  \* ids it gave out; those among them of turns of others
  foreign        \* turns of others ended

clientVars == <<pc, awaited, nextId, threadKnown, turnCompleted, answering>>
serverVars == <<turn, thread, asked, used, others, foreign>>
vars == <<call, clientVars, serverVars, toServer, toClient>>

Nothing == [kind |-> "nothing", id |-> 0, body |-> "nothing"]
Msg(k, i, b) == [kind |-> k, id |-> i, body |-> b]

Waiting == {"initialize", "thread", "retry", "turn", "rpc"}
Over    == {"returned", "failed"}
Errors  == {"error", "capability"}

\* "thread/read" stands for the methods that change nothing here.
Method == {"thread/resume", "turn/start", "thread/read"}
Call   == [kind : {"new", "resume"}, prompt : BOOLEAN] \cup [kind : Method, prompt : {FALSE}]

\* What is asked for after initialize.
OpenCall == CASE call.kind = "resume" -> "resume_without_turns"
              [] call.kind = "new" -> "thread/start"
              [] OTHER -> call.kind

Init ==
  /\ call \in Call
  /\ pc = "initialize" /\ awaited = 1 /\ nextId = 2
  /\ threadKnown = FALSE /\ turnCompleted = FALSE /\ answering = Nothing
  /\ toServer = <<Msg("request", 1, "initialize")>> /\ toClient = <<>>
  /\ turn = "none" /\ thread = "closed"
  /\ asked = {} /\ used = {} /\ others = {} /\ foreign = 0

-----------------------------------------------------------------------------
(* The client.                                                             *)

\* Mutation: next_id is not incremented.
RequestSameId(l, body, before) ==
  /\ pc' = l
  /\ awaited' = nextId
  /\ nextId' = nextId
  /\ toServer' = Append(before, Msg("request", nextId, body))

\* The client goes on after a request with id nextId.
Request(l, body, before) ==
  /\ pc' = l
  /\ awaited' = nextId
  /\ nextId' = nextId + 1
  /\ toServer' = Append(before, Msg("request", nextId, body))

Stop(l, before) ==
  /\ pc' = l
  /\ toServer' = before
  /\ UNCHANGED <<awaited, nextId>>

\* A message that is taken for the response to initialize.
Initialized(m, before) ==
  IF m.body \in Errors THEN Stop("failed", before)
  ELSE Request(IF call.kind \in Method THEN "rpc" ELSE "thread", OpenCall,
               Append(before, Msg("note", 0, "initialized")))

\* The same for thread/start or thread/resume.  A server that does not know
\* excludeTurns is asked once more without it.  thread.id comes from the result,
\* or from a thread/started notification before it.
ThreadOpened(m, before) ==
  LET known == threadKnown \/ m.body = "ok"
      retry == m.body = "capability" /\ call.kind = "resume" /\ pc = "thread"
  IN  CASE retry -> Request("retry", "thread/resume", before) /\ UNCHANGED threadKnown
        [] ~retry /\ m.body \in Errors -> Stop("failed", before) /\ UNCHANGED threadKnown
        [] m.body \notin Errors ->
             /\ threadKnown' = known
             /\ IF ~known THEN Stop("failed", before)
                ELSE IF call.prompt THEN Request("turn", "turn/start", before)
                ELSE Stop("returned", before)

\* Mutation: an error is not looked at.
TurnStartedAnyway(m, before) ==
  Stop(IF turnCompleted' THEN "returned" ELSE "stream", before)

\* Mutation: the call returns with the response.
TurnNotAwaited(m, before) ==
  Stop(IF m.body \in Errors THEN "failed" ELSE "returned", before)

\* The same for turn/start; the loop that follows does not begin if a
\* turn/completed was seen.
TurnStarted(m, before) ==
  Stop(IF m.body \in Errors THEN "failed"
       ELSE IF turnCompleted' THEN "returned" ELSE "stream", before)

\* What follows process_message(m).  "before" is what was sent so far.
Dispatch(m, before) ==
  CASE pc \in Waiting /\ m.id = awaited ->
         \/ pc = "initialize" /\ Initialized(m, before) /\ UNCHANGED threadKnown
         \/ pc \in {"thread", "retry"} /\ ThreadOpened(m, before)
         \/ pc = "turn" /\ TurnStarted(m, before) /\ UNCHANGED threadKnown
    [] pc = "stream" ->
         /\ Stop(IF turnCompleted' THEN "returned" ELSE "stream", before)
         /\ UNCHANGED threadKnown
    [] OTHER ->
         /\ Stop(pc, before)
         /\ threadKnown' = (threadKnown \/ m.body = "thread/started")

\* recv and process_message.  A server request keeps the client busy until it
\* is answered.
Receive ==
  /\ call.kind \notin Method /\ pc \notin Over
  /\ answering = Nothing
  /\ toClient # <<>>
  /\ LET m == Head(toClient)
     IN  /\ turnCompleted' = (turnCompleted \/ m.body = "turn/completed")
         /\ IF m.kind = "request"
              THEN /\ answering' = m
                   /\ UNCHANGED <<pc, awaited, nextId, threadKnown, toServer>>
              ELSE /\ answering' = Nothing
                   /\ Dispatch(m, toServer)
  /\ toClient' = Tail(toClient)
  /\ UNCHANGED <<call, serverVars>>

\* Mutation: a request the gateway does not know is left without an answer.
AnswerSilently ==
  /\ answering # Nothing
  /\ answering' = Nothing
  /\ turnCompleted' = turnCompleted
  /\ Dispatch(answering, toServer)
  /\ UNCHANGED <<call, serverVars, toClient>>

\* The decision of the operator, the default decline, or error -32004 for a
\* request the gateway does not support.
Answer ==
  /\ answering # Nothing
  /\ answering' = Nothing
  /\ turnCompleted' = turnCompleted
  /\ Dispatch(answering, Append(toServer, Msg("response", answering.id, "answer")))
  /\ UNCHANGED <<call, serverVars, toClient>>

\* A message of the one-shot connection.  Before its initialize is answered it
\* overhears everything else, requests too.
ReceiveRpc ==
  /\ call.kind \in Method /\ pc \notin Over
  /\ toClient # <<>>
  /\ LET m == Head(toClient)
     IN  CASE m.id = awaited /\ pc = "initialize" -> Initialized(m, toServer)
           [] m.id = awaited /\ pc = "rpc" ->
                Stop(IF m.body \in Errors THEN "failed" ELSE "returned", toServer)
           [] m.id # awaited ->
                Stop(pc, IF m.kind = "request" /\ pc = "rpc"
                           THEN Append(toServer, Msg("response", m.id, "unsupported"))
                           ELSE toServer)
  /\ toClient' = Tail(toClient)
  /\ UNCHANGED <<threadKnown, turnCompleted, answering, call, serverVars>>

\* Mutation: only responses are awaited with a timeout.
TimedOutInWait ==
  /\ pc \in Waiting
  /\ answering = Nothing
  /\ toClient = <<>>
  /\ pc' = "failed"
  /\ UNCHANGED <<awaited, nextId, threadKnown, turnCompleted, answering,
                 call, serverVars, toServer, toClient>>

\* No message for APP_SERVER_TIMEOUT_SECONDS: 504.
TimedOut ==
  /\ pc \notin Over
  /\ answering = Nothing
  /\ toClient = <<>>
  /\ pc' = "failed"
  /\ UNCHANGED <<awaited, nextId, threadKnown, turnCompleted, answering,
                 call, serverVars, toServer, toClient>>

\* The connection breaks, or what comes is not JSON: 502, at the next recv, or when
\* the answer to a request is sent.
Broken ==
  /\ pc \notin Over
  /\ pc' = "failed"
  /\ answering' = Nothing
  /\ UNCHANGED <<awaited, nextId, threadKnown, turnCompleted,
                 call, serverVars, toServer, toClient>>

-----------------------------------------------------------------------------
(* The app-server, as seen on this connection.                             *)

Tell(m) == toClient' = Append(toClient, m)

Opens == {"resume_without_turns", "thread/resume", "thread/start"}

\* A thread that is resumed is shown to this client before the response is sent,
\* or with it.
Attach ==
  /\ toServer # <<>> /\ Head(toServer).body \in {"resume_without_turns", "thread/resume"}
  /\ thread = "closed" /\ thread' = "attached"
  /\ UNCHANGED <<call, clientVars, toServer, toClient, turn, asked, used, others, foreign>>

Accept(m) ==
  /\ IF m.body = "thread/start"
       THEN toClient' = toClient \o <<Msg("note", 0, "thread/started"), Msg("response", m.id, "ok")>>
       ELSE Tell(Msg("response", m.id, "ok"))
  /\ thread' = IF m.body \in Opens THEN "opened" ELSE thread
  /\ turn' = IF m.body = "turn/start" THEN "running" ELSE turn

\* Only resume_without_turns can hit the capability error.
Refuse(m) ==
  /\ \E b \in {"error"} \cup (IF m.body = "resume_without_turns" THEN {"capability"} ELSE {}) :
       Tell(Msg("response", m.id, b))
  /\ turn' = IF m.body = "turn/start" THEN "refused" ELSE turn
  /\ UNCHANGED thread

\* It serves the oldest message.
Serve ==
  /\ toServer # <<>>
  /\ LET m == Head(toServer)
     IN  /\ CASE m.kind = "request" -> (Accept(m) \/ Refuse(m)) /\ UNCHANGED asked
              [] m.kind = "response" -> asked' = asked \ {m.id} /\ UNCHANGED <<toClient, thread, turn>>
              [] m.kind = "note" -> UNCHANGED <<toClient, thread, turn, asked>>
  /\ toServer' = Tail(toServer)
  /\ UNCHANGED <<call, clientVars, used, others, foreign>>

EndTurn ==
  /\ turn = "running"
  /\ asked \subseteq others
  /\ turn' = "ended"
  /\ Tell(Msg("note", 0, "turn/completed"))
  /\ UNCHANGED <<call, clientVars, toServer, thread, asked, used, others, foreign>>

\* A turn that another connection started on the thread ends.
EndForeignTurn ==
  /\ thread # "closed"
  /\ foreign < MaxForeign
  /\ foreign' = foreign + 1
  /\ Tell(Msg("note", 0, "turn/completed"))
  /\ UNCHANGED <<call, clientVars, toServer, turn, thread, asked, used, others>>

Ask(i) ==
  /\ i \notin used
  /\ used' = used \cup {i}
  /\ asked' = asked \cup {i}
  /\ Tell(Msg("request", i, "ask"))
  /\ UNCHANGED <<call, clientVars, toServer, turn, thread, foreign>>

\* An approval, or a request the gateway does not know, of our turn.
AskClient(i) == turn = "running" /\ Ask(i) /\ UNCHANGED others

\* The same of a turn that another connection started on the thread.
AskForeign(i) ==
  /\ thread # "closed" /\ foreign < MaxForeign
  /\ Ask(i)
  /\ others' = others \cup {i}

\* The other connection answers it.
Resolve(i) ==
  /\ i \in asked \cap others
  /\ asked' = asked \ {i}
  /\ Tell(Msg("note", 0, "serverRequest/resolved"))
  /\ UNCHANGED <<call, clientVars, toServer, turn, thread, used, others, foreign>>

\* Progress of a turn, of which there may be any amount.
Chatter ==
  /\ Cardinality({k \in 1..Len(toClient) : toClient[k].body = "delta"}) < MaxChatter
  /\ Tell(Msg("note", 0, "delta"))
  /\ UNCHANGED <<call, clientVars, toServer, turn, thread, asked, used, others, foreign>>

Server ==
  \/ Serve \/ Attach \/ EndTurn \/ EndForeignTurn \/ Chatter
  \/ \E i \in ServerId : AskClient(i) \/ AskForeign(i) \/ Resolve(i)

-----------------------------------------------------------------------------

Next == (pc \notin Over /\ Server) \/ Receive \/ ReceiveRpc \/ Answer \/ TimedOut \/ Broken

Spec == Init /\ [][Next]_vars

(* The worker thread and the event loop run, the timer fires when nothing  *)
(* comes, and the operator answers.  Of the server nothing is assumed:     *)
(* neither that it serves or ends anything nor that it stops talking.      *)
FairSpec ==
  Spec /\ WF_vars(Receive) /\ WF_vars(ReceiveRpc) /\ WF_vars(Answer) /\ WF_vars(TimedOut)

-----------------------------------------------------------------------------
(* Properties.                                                             *)

Message ==
  [kind : {"request", "response", "note"}, id : Nat,
   body : {"initialize", "initialized", "turn/start", "thread/read", "ok", "error", "capability",
           "ask", "answer", "unsupported", "thread/started", "turn/completed",
           "serverRequest/resolved", "delta"} \cup Opens]

\* The conversation stays within the messages both sides know.
TypeOK ==
  /\ pc \in Waiting \cup {"stream"} \cup Over
  /\ call \in Call
  /\ awaited \in 1..4 /\ nextId \in 2..5 /\ awaited < nextId
  /\ threadKnown \in BOOLEAN /\ turnCompleted \in BOOLEAN
  /\ answering \in Message \cup {Nothing} /\ answering.kind \in {"nothing", "request"}
  /\ toServer \in Seq(Message) /\ toClient \in Seq(Message)
  /\ turn \in {"none", "running", "refused", "ended"}
  /\ thread \in {"closed", "attached", "opened"}
  /\ asked \cup others \subseteq used /\ used \subseteq ServerId
  /\ foreign \in 0..MaxForeign

OnTheWay(i) ==
  \/ \E k \in 1..Len(toClient) : toClient[k].kind = "request" /\ toClient[k].id = i
  \/ answering.kind = "request" /\ answering.id = i
  \/ \E k \in 1..Len(toServer) : toServer[k].kind = "response" /\ toServer[k].id = i

\* No request of the server gets lost: until its answer arrives it is on its way
\* to the client, being answered, or the answer is on its way, whatever else
\* the client was waiting for when it came, and whether it belongs to this call
\* or not (:1387-1394 calls process_message, :952-963).
RequestsAnswered == pc \notin Over => \A i \in asked : OnTheWay(i)

\* The server has done what the call returns or streams the result of.
Accepted ==
  /\ call.kind \in {"new", "resume", "thread/resume"} => thread = "opened"
  /\ call.prompt \/ call.kind = "turn/start" => turn \in {"running", "ended"}

\* A result is only returned for a thread that opened and a turn the server
\* accepted, and streaming only begins for one: errors, the retry and whatever
\* comes in between never pass for the response (:1391, :948), unless another
\* connection's turn asks under an id that the client uses as well.
AcceptedBeforeStream ==
  others \cap 1..awaited = {} /\ pc \in {"stream", "returned"} => Accepted

\* A silent or broken server never hangs a worker or a handler, given an operator
\* who answers: the call ends, unless the server sends messages for ever.  Each of
\* them starts the timeout anew (:1319, :918, :942), and none is set on the call.
CallEnds == <>(pc \in Over) \/ []<><<Server /\ toClient' # toClient>>_vars

\* "Continue until turn/completed" (:1507): the result of a prompt is returned
\* after the turn this call started has ended.
ReturnedAfterOwnTurn == call.prompt /\ pc = "returned" => turn = "ended"

\* It is so on a thread on which no turn of another connection ends: the response
\* to turn/start, its errors, requests and the messages in between never end the
\* call early (:1493-1510).
UndisturbedReturn == foreign = 0 => ReturnedAfterOwnTurn
=============================================================================
