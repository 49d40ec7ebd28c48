------------------------- MODULE AppServerClientProofs -------------------------
(***************************************************************************)
(* Proofs of the invariants of AppServerClient, for any ids the server     *)
(* uses and any number of other turns and notifications.  The order of the *)
(* messages under way matters little; what matters is which there are, so  *)
(* IInv speaks of the set of messages in each direction.  That a request   *)
(* of the server has at most one answer is a matter of how often a message *)
(* is under way (SingleInv).                                               *)
(***************************************************************************)
EXTENDS AppServerClient, SequenceTheorems, TLAPS

USE ClientAssumption

Msgs(s) == {s[k] : k \in 1..Len(s)}

LEMMA MsgsOfAppend ==
  ASSUME NEW s \in Seq(Message), NEW m \in Message
  PROVE  /\ Append(s, m) \in Seq(Message)
         /\ Msgs(Append(s, m)) = Msgs(s) \cup {m}
<1>1. /\ Len(s) \in Nat /\ Len(Append(s, m)) = Len(s) + 1
      /\ \A k \in 1..Len(s) : Append(s, m)[k] = s[k]
      /\ Append(s, m)[Len(s) + 1] = m
  BY AppendProperties, LenProperties
<1>2. \A k \in 1..Len(s) + 1 : k \in 1..Len(s) \/ k = Len(s) + 1
  BY <1>1
<1>3. \A k \in 1..Len(s) : k \in 1..Len(s) + 1
  BY <1>1
<1>4. Len(s) + 1 \in 1..Len(s) + 1
  BY <1>1
<1> QED BY <1>1, <1>2, <1>3, <1>4, AppendProperties DEF Msgs

LEMMA TwoAppended ==
  ASSUME NEW s \in Seq(Message), NEW a \in Message, NEW b \in Message
  PROVE  s \o <<a, b>> = Append(Append(s, a), b)
BY ConcatAssociative, AppendIsConcat

LEMMA MsgsOfTail ==
  ASSUME NEW s \in Seq(Message), s # <<>>
  PROVE  /\ Head(s) \in Message /\ Tail(s) \in Seq(Message)
         /\ Msgs(s) = {Head(s)} \cup Msgs(Tail(s))
         /\ Len(Tail(s)) = Len(s) - 1 /\ Len(s) \in Nat \ {0} /\ Head(s) = s[1]
         /\ \A k \in 1..Len(Tail(s)) : k + 1 \in 1..Len(s) /\ Tail(s)[k] = s[k + 1]
<1>1. /\ Head(s) \in Message /\ Tail(s) \in Seq(Message) /\ Len(s) \in Nat \ {0}
      /\ Len(Tail(s)) = Len(s) - 1 /\ Head(s) = s[1]
      /\ \A k \in 1..Len(Tail(s)) : Tail(s)[k] = s[k + 1]
  BY HeadTailProperties, LenProperties, EmptySeq, ElementOfSeq
<1>2. \A k \in 1..Len(Tail(s)) : k + 1 \in 1..Len(s)
  BY <1>1
<1>3. \A k \in 1..Len(s) : k = 1 \/ (k - 1 \in 1..Len(Tail(s)) /\ (k - 1) + 1 = k)
  BY <1>1
<1>4. 1 \in 1..Len(s)
  BY <1>1
<1>5. ASSUME NEW m \in Msgs(s) PROVE m = Head(s) \/ m \in Msgs(Tail(s))
  <2>1. PICK k \in 1..Len(s) : m = s[k]
    BY DEF Msgs
  <2>2. k = 1 \/ (k - 1 \in 1..Len(Tail(s)) /\ Tail(s)[k - 1] = s[k])
    BY <1>1, <1>3
  <2> QED BY <1>1, <2>1, <2>2 DEF Msgs
<1>6. Head(s) \in Msgs(s)
  BY <1>1, <1>4 DEF Msgs
<1>7. Msgs(Tail(s)) \subseteq Msgs(s)
  BY <1>1, <1>2 DEF Msgs
<1> QED BY <1>1, <1>2, <1>5, <1>6, <1>7

LEMMA MsgsIn ==
  ASSUME NEW s \in Seq(Message)
  PROVE  Msgs(s) \subseteq Message
BY ElementOfSeq, LenProperties DEF Msgs

Travels(i) ==
  \/ \E m \in Msgs(toClient) : m.kind = "request" /\ m.id = i
  \/ answering.kind = "request" /\ answering.id = i
  \/ \E m \in Msgs(toServer) : m.kind = "response" /\ m.id = i

LEMMA OnTheWayMsgs ==
  ASSUME NEW i
  PROVE  (OnTheWay(i) <=> Travels(i)) /\ (OnTheWay(i)' <=> Travels(i)')
BY DEF OnTheWay, Msgs, Travels

-----------------------------------------------------------------------------
(* The invariant.                                                          *)

\* The requests of the client are numbered one by one.
NumberInv ==
  /\ awaited = nextId - 1
  /\ pc = "initialize" => nextId = 2
  /\ pc \in {"thread", "rpc"} => nextId = 3
  /\ pc = "retry" => nextId = 4
  /\ call.kind \in Method => pc \in {"initialize", "rpc"} \cup Over /\ answering = Nothing
  /\ pc = "rpc" => call.kind \in Method
  /\ pc \in {"turn", "stream"} => call.prompt
  /\ pc \in Over => answering = Nothing

Expected(b) ==
  /\ pc = "initialize" => b = "initialize"
  /\ pc \in {"thread", "rpc"} => b = OpenCall
  /\ pc = "retry" => b = "thread/resume"
  /\ pc = "turn" => b = "turn/start"

\* A request under way is the one awaited, or an older one.
ToServerInv ==
  \A m \in Msgs(toServer) : m.kind = "request" =>
    m.id \in 1..awaited /\ (m.id = awaited => Expected(m.body))

TurnTaken == turn \in {"running", "ended"}

BeforeTurn ==
  pc \in {"initialize", "thread", "retry"} \/ ~(call.prompt \/ call.kind = "turn/start")

\* turn/start is sent once.
TurnInv ==
  /\ \A j, k \in 1..Len(toServer) :
       toServer[j].body = "turn/start" /\ toServer[k].body = "turn/start" => j = k
  /\ \A m \in Msgs(toServer) : m.body = "turn/start" => turn = "none"
  /\ BeforeTurn => turn = "none" /\ \A m \in Msgs(toServer) : m.body # "turn/start"

\* Before initialize is answered the server asks nothing.
StartInv ==
  pc = "initialize" =>
    /\ \A m \in Msgs(toServer) : m.body \notin Opens
    /\ thread = "closed" /\ asked = {} /\ others = {}

\* What the awaited response says when it is no error.
Done ==
  /\ pc \in {"thread", "retry"} => thread = "opened"
  /\ pc = "turn" => TurnTaken
  /\ pc = "rpc" => Accepted

Known(m) ==
  /\ m.kind = "note" => m.id = 0
  /\ m.kind = "response" => m.id \in 1..awaited
  /\ m.kind = "response" /\ m.id = awaited /\ m.body \notin Errors => Done
  /\ m.kind = "request" => m.id \in others \/ TurnTaken

ToClientInv ==
  /\ \A m \in Msgs(toClient) : Known(m)
  /\ answering.kind = "request" => Known(answering)

NoClash == others \cap 1..awaited = {}

AcceptInv ==
  NoClash => /\ pc \in {"turn", "stream"} => thread = "opened"
             /\ pc \in {"stream", "returned"} => Accepted

\* Without turns of others, turn/completed is about our turn.
CompletedInv ==
  /\ call.prompt /\ pc = "returned" => turnCompleted
  /\ foreign = 0 => /\ turnCompleted => turn = "ended"
                    /\ \A m \in Msgs(toClient) : m.body = "turn/completed" => turn = "ended"

IInv ==
  /\ TypeOK /\ NumberInv /\ ToServerInv /\ TurnInv /\ StartInv
  /\ ToClientInv /\ AcceptInv /\ CompletedInv /\ RequestsAnswered

\* The initial state.
LEMMA InitInv == Init => IInv
<1> SUFFICES ASSUME Init PROVE IInv
  OBVIOUS
<1> DEFINE m0 == Msg("request", 1, "initialize")
<1>1. m0 \in Message /\ m0.id = 1 /\ m0.kind = "request" /\ m0.body = "initialize"
  BY DEF Msg, Message
<1>2. toServer \in Seq(Message) /\ toServer = <<m0>> /\ Len(toServer) = 1 /\ toServer[1] = m0
  BY <1>1 DEF Init
<1>3. Msgs(toServer) = {m0}
  BY <1>2 DEF Msgs
<1>4. toClient \in Seq(Message) /\ Msgs(toClient) = {}
  BY EmptySeq DEF Init, Msgs
<1>5. TypeOK
  <2>1. answering = Nothing /\ Nothing.kind = "nothing"
    BY DEF Init, Nothing
  <2>2. foreign \in 0..MaxForeign
    BY DEF Init
  <2>3. threadKnown \in BOOLEAN /\ turnCompleted \in BOOLEAN
    BY DEF Init
  <2>4. pc \in Waiting /\ call \in Call /\ turn = "none" /\ thread = "closed"
    BY DEF Init, Waiting
  <2>5. awaited = 1 /\ nextId = 2
    BY DEF Init
  <2>6. asked \cup others \subseteq used /\ used \subseteq ServerId
    BY DEF Init
  <2> QED BY <1>2, <1>4, <2>1, <2>2, <2>3, <2>4, <2>5, <2>6 DEF TypeOK
<1>6. NumberInv
  BY DEF Init, NumberInv
<1>7. ToServerInv /\ StartInv
  BY <1>1, <1>3 DEF Init, ToServerInv, Expected, StartInv, Opens
<1>8. TurnInv
  BY <1>1, <1>2, <1>3 DEF Init, TurnInv
<1>9. ToClientInv /\ AcceptInv /\ CompletedInv /\ RequestsAnswered
  BY <1>4 DEF Init, ToClientInv, AcceptInv, CompletedInv, RequestsAnswered, Nothing
<1> QED BY <1>5, <1>6, <1>7, <1>8, <1>9 DEF IInv

-----------------------------------------------------------------------------
(* The steps of the client.                                                *)

\* What follows a message m when "before" was sent so far.
Asks(m, before) ==
  \/ /\ m.id = awaited /\ pc = "initialize"
     /\ Request(IF call.kind \in Method THEN "rpc" ELSE "thread", OpenCall,
                Append(before, Msg("note", 0, "initialized")))
  \/ pc = "thread" /\ Request("retry", "thread/resume", before)
  \/ /\ m.id = awaited /\ m.body \notin Errors
     /\ pc \in {"thread", "retry"} /\ call.prompt
     /\ Request("turn", "turn/start", before)

StopsAt(m, l) ==
  \/ l \in {pc, "failed"}
  \/ pc = "stream" /\ l = "returned" /\ turnCompleted'
  \/ /\ m.id = awaited /\ m.body \notin Errors
     /\ \/ pc \in {"thread", "retry"} /\ ~call.prompt /\ l = "returned"
        \/ pc = "turn" /\ (l = "stream" \/ (l = "returned" /\ turnCompleted'))
        \/ pc = "rpc" /\ l = "returned"

Moves(m, before) == Asks(m, before) \/ \E l : StopsAt(m, l) /\ Stop(l, before)

ClientStep(m, before) ==
  /\ pc \notin Over
  /\ m \in Message /\ Known(m)
  /\ Moves(m, before)
  /\ \/ before = toServer
     \/ \E i \in Nat, b \in {"answer", "unsupported"} :
          before = Append(toServer, Msg("response", i, b))
  /\ toClient' = toClient \/ (toClient # <<>> /\ toClient' = Tail(toClient))
  /\ answering' = Nothing
  /\ UNCHANGED <<call, serverVars>>

LEMMA DispatchMoves ==
  ASSUME NumberInv, threadKnown \in BOOLEAN, NEW m, NEW before, Dispatch(m, before),
         call.kind \notin Method, pc \notin Over
  PROVE  Moves(m, before) /\ threadKnown' \in BOOLEAN
<1> USE DEF Moves
<1>1. CASE pc \in Waiting /\ m.id = awaited
  <2>1. CASE pc = "initialize" /\ Initialized(m, before) /\ UNCHANGED threadKnown
    BY <1>1, <2>1 DEF Initialized, Asks, StopsAt
  <2>2. CASE pc \in {"thread", "retry"} /\ ThreadOpened(m, before)
    <3>1. CASE m.body = "capability" /\ call.kind = "resume" /\ pc = "thread"
      BY <2>2, <3>1 DEF ThreadOpened, Asks, Errors
    <3>2. CASE ~(m.body = "capability" /\ call.kind = "resume" /\ pc = "thread")
               /\ m.body \in Errors
      BY <2>2, <3>2 DEF ThreadOpened, StopsAt
    <3>3. CASE m.body \notin Errors
      <4>1. ~(m.body = "capability" /\ call.kind = "resume" /\ pc = "thread")
        BY <3>3 DEF Errors
      <4>2. threadKnown' = (threadKnown \/ m.body = "ok") /\ threadKnown' \in BOOLEAN
        BY <2>2, <3>3, <4>1 DEF ThreadOpened
      <4>3. \/ Stop("failed", before)
            \/ call.prompt /\ Request("turn", "turn/start", before)
            \/ ~call.prompt /\ Stop("returned", before)
        BY <2>2, <3>3, <4>1 DEF ThreadOpened
      <4> QED BY <1>1, <2>2, <3>3, <4>2, <4>3 DEF Asks, StopsAt
    <3> QED BY <3>1, <3>2, <3>3
  <2>3. CASE pc = "turn" /\ TurnStarted(m, before) /\ UNCHANGED threadKnown
    BY <1>1, <2>3 DEF TurnStarted, StopsAt
  <2> QED BY <1>1, <2>1, <2>2, <2>3 DEF Dispatch, Waiting
<1>2. CASE ~(pc \in Waiting /\ m.id = awaited) /\ pc = "stream"
  BY <1>2 DEF Dispatch, StopsAt
<1>3. CASE ~(pc \in Waiting /\ m.id = awaited) /\ pc # "stream"
  BY <1>3 DEF Dispatch, StopsAt
<1> QED BY <1>1, <1>2, <1>3

\* What was sent so far holds the requests it held before the message.
LEMMA SentSoFar ==
  ASSUME IInv, NEW m, NEW before, ClientStep(m, before)
  PROVE  /\ before \in Seq(Message) /\ Msgs(toServer) \subseteq Msgs(before)
         /\ \A x \in Msgs(before) : x \in Msgs(toServer) \/ (x.kind = "response"
              /\ x.body \notin Opens \cup {"turn/start"})
         /\ \A j, k \in 1..Len(before) :
              before[j].body = "turn/start" /\ before[k].body = "turn/start" => j = k
         /\ toClient' \in Seq(Message) /\ Msgs(toClient') \subseteq Msgs(toClient)
<1>1. toServer \in Seq(Message) /\ toClient \in Seq(Message)
  BY DEF IInv, TypeOK
<1>2. toClient' \in Seq(Message) /\ Msgs(toClient') \subseteq Msgs(toClient)
  BY <1>1, MsgsOfTail DEF ClientStep
<1>3. CASE before = toServer
  BY <1>1, <1>2, <1>3 DEF IInv, TurnInv
<1>4. ASSUME NEW i \in Nat, NEW b \in {"answer", "unsupported"},
             before = Append(toServer, Msg("response", i, b))
      PROVE  /\ before \in Seq(Message) /\ Msgs(toServer) \subseteq Msgs(before)
             /\ \A x \in Msgs(before) : x \in Msgs(toServer) \/ (x.kind = "response"
                  /\ x.body \notin Opens \cup {"turn/start"})
             /\ \A j, k \in 1..Len(before) :
                  before[j].body = "turn/start" /\ before[k].body = "turn/start" => j = k
  <2> DEFINE a == Msg("response", i, b)
  <2>1. a \in Message /\ a.kind = "response" /\ a.body \notin Opens \cup {"turn/start"}
    BY DEF Msg, Message, Opens
  <2>2. before \in Seq(Message) /\ Msgs(before) = Msgs(toServer) \cup {a}
    BY <1>1, <1>4, <2>1, MsgsOfAppend
  <2>3. /\ Len(toServer) \in Nat /\ Len(before) = Len(toServer) + 1
        /\ \A k \in 1..Len(toServer) : before[k] = toServer[k]
        /\ before[Len(toServer) + 1] = a
    BY <1>1, <1>4, <2>1, AppendProperties, LenProperties
  <2>4. \A k \in 1..Len(before) : before[k].body = "turn/start" =>
          k \in 1..Len(toServer) /\ toServer[k].body = "turn/start"
    BY <2>1, <2>3
  <2> QED BY <2>1, <2>2, <2>4 DEF IInv, TurnInv
<1> QED BY <1>2, <1>3, <1>4 DEF ClientStep

\* A message that is taken for the awaited response, and no error, is one, or
\* a request of a turn that was accepted before.
LEMMA Genuine ==
  ASSUME IInv, NoClash, NEW m \in Message, Known(m), m.id = awaited, m.body \notin Errors,
         pc \in Waiting \ {"initialize"}
  PROVE  Done
<1>1. awaited \in 1..4 /\ awaited # 0 /\ awaited \notin others /\ awaited \in 1..awaited
  BY DEF IInv, TypeOK, NoClash
<1>2. CASE m.kind = "response"
  BY <1>2 DEF Known
<1>3. CASE m.kind = "request"
  <2>1. TurnTaken /\ turn # "none"
    BY <1>1, <1>3 DEF Known, TurnTaken
  <2>2. ~BeforeTurn
    BY <2>1 DEF IInv, TurnInv
  <2>3. pc \notin {"thread", "retry"} /\ (call.prompt \/ call.kind = "turn/start")
    BY <2>2 DEF BeforeTurn
  <2>4. pc = "rpc" => call.kind = "turn/start"
    BY <2>3 DEF IInv, NumberInv, TypeOK, Call, Method
  <2> QED BY <2>1, <2>3, <2>4 DEF Done, Accepted, TurnTaken
<1>4. m.kind # "note"
  BY <1>1 DEF Known
<1> QED BY <1>2, <1>3, <1>4 DEF Message

LEMMA StopInv ==
  ASSUME IInv, NEW m, NEW before, ClientStep(m, before), NEW l, StopsAt(m, l), Stop(l, before)
  PROVE  /\ pc' \in Waiting \cup {"stream"} \cup Over
         /\ awaited' = awaited /\ nextId' = nextId /\ toServer' \in Seq(Message)
         /\ NumberInv' /\ ToServerInv' /\ TurnInv' /\ StartInv' /\ AcceptInv'
         /\ \A x \in Msgs(toClient') : Known(x)'
         /\ call.prompt /\ pc' = "returned" => turnCompleted'
<1> USE DEF IInv
<1>1. /\ pc' = l /\ toServer' = before /\ awaited' = awaited /\ nextId' = nextId
      /\ call' = call /\ turn' = turn /\ thread' = thread /\ asked' = asked
      /\ others' = others /\ used' = used /\ foreign' = foreign
  BY DEF Stop, ClientStep, serverVars
<1>2. pc \in Waiting \cup {"stream"} /\ l \in {pc, "failed", "stream", "returned"}
  BY DEF StopsAt, ClientStep, TypeOK
<1>3. l = pc \/ l \notin Waiting
  BY <1>2 DEF Waiting
<1>4. NumberInv'
  <2>1. l = "stream" => pc \in {"stream", "turn"}
    BY <1>2 DEF StopsAt, Waiting
  <2>2. call.kind \in Method => l \in {pc} \cup Over
    BY <1>2, <2>1 DEF NumberInv, Over
  <2> QED BY <1>1, <1>2, <1>3, <2>1, <2>2 DEF NumberInv, ClientStep, Waiting, Over
<1>5. ToServerInv'
  <2>1. ASSUME NEW x \in Msgs(toServer'), x.kind = "request"
        PROVE  x.id \in 1..awaited' /\ (x.id = awaited' => Expected(x.body)')
    <3>1. x \in Msgs(toServer)
      BY <1>1, <2>1, SentSoFar
    <3>2. x.id \in 1..awaited /\ (x.id = awaited => Expected(x.body))
      BY <2>1, <3>1 DEF ToServerInv
    <3> QED BY <1>1, <1>3, <3>2 DEF Expected, OpenCall, Waiting
  <2> QED BY <2>1 DEF ToServerInv
<1>6. TurnInv'
  <2>1. BeforeTurn' => BeforeTurn
    BY <1>1, <1>3 DEF BeforeTurn, Waiting
  <2>2. \A x \in Msgs(toServer') : x.body = "turn/start" => x \in Msgs(toServer)
    BY <1>1, SentSoFar
  <2>3. \A j, k \in 1..Len(before) :
              before[j].body = "turn/start" /\ before[k].body = "turn/start" => j = k
    BY SentSoFar
  <2> QED BY <1>1, <2>1, <2>2, <2>3 DEF TurnInv
<1>7. StartInv'
  <2>1. \A x \in Msgs(toServer') : x.body \in Opens => x \in Msgs(toServer)
    BY <1>1, SentSoFar
  <2> QED BY <1>1, <1>3, <2>1 DEF StartInv, Waiting
<1>8. \A x \in Msgs(toClient') : Known(x)'
  <2>1. Done => Done'
    BY <1>1, <1>3 DEF Done, TurnTaken, Accepted, Waiting
  <2>2. \A x \in Msgs(toClient') : Known(x)
    BY SentSoFar DEF ToClientInv
  <2> QED BY <1>1, <2>1, <2>2 DEF Known, TurnTaken
<1>9. AcceptInv'
  <2> SUFFICES ASSUME NoClash
               PROVE  /\ l \in {"turn", "stream"} => thread = "opened"
                      /\ l \in {"stream", "returned"} => Accepted
    BY <1>1 DEF AcceptInv, NoClash, Accepted
  <2>1. CASE l \in {pc, "failed"}
    BY <1>2, <2>1 DEF AcceptInv, Waiting, Over
  <2>2. CASE pc = "stream" /\ l = "returned"
    BY <2>2 DEF AcceptInv
  <2>3. CASE /\ m.id = awaited /\ m.body \notin Errors
             /\ pc \in {"thread", "retry", "turn", "rpc"}
             /\ pc \in {"thread", "retry"} => ~call.prompt /\ l = "returned"
             /\ pc = "rpc" => l = "returned"
             /\ pc = "turn" => l \in {"stream", "returned"}
    <3>1. Done
      BY <2>3, Genuine DEF ClientStep, Waiting
    <3>2. pc \in {"thread", "retry"} => Accepted
      BY <2>3, <3>1 DEF Done, Accepted, NumberInv, Method, Over
    <3>3. pc = "turn" => Accepted /\ thread = "opened"
      BY <3>1 DEF Done, Accepted, AcceptInv, TurnTaken
    <3>4. pc = "rpc" => Accepted
      BY <3>1 DEF Done
    <3> QED BY <2>3, <3>2, <3>3, <3>4
  <2> QED BY <2>1, <2>2, <2>3 DEF StopsAt
<1>10. call.prompt /\ pc' = "returned" => turnCompleted'
  <2>1. pc = "rpc" => ~call.prompt
    BY DEF NumberInv, TypeOK, Call, Method
  <2>2. pc # "returned"
    BY DEF ClientStep, Over
  <2> QED BY <1>1, <2>1, <2>2 DEF StopsAt
<1>11. toServer' \in Seq(Message)
  BY <1>1, SentSoFar
<1> QED BY <1>1, <1>2, <1>4, <1>5, <1>6, <1>7, <1>8, <1>9, <1>10, <1>11 DEF Over

\* A request is sent after what was sent before, under a new id.
LEMMA AskInv ==
  ASSUME IInv, NEW m, NEW before, ClientStep(m, before), Asks(m, before)
  PROVE  /\ pc' \in Waiting
         /\ awaited' \in 1..4 /\ nextId' \in 2..5 /\ toServer' \in Seq(Message)
         /\ NumberInv' /\ ToServerInv' /\ TurnInv' /\ StartInv' /\ AcceptInv'
         /\ \A x \in Msgs(toClient') : Known(x)'
         /\ Msgs(before) \subseteq Msgs(toServer')
<1> USE DEF IInv
<1>1. PICK l, body, b2 :
           /\ Request(l, body, b2)
           /\ l \in {"thread", "rpc", "retry", "turn"}
           /\ pc \in {"initialize", "thread", "retry"}
           /\ l = "turn" => /\ call.prompt /\ body = "turn/start" /\ pc \in {"thread", "retry"}
                            /\ m.id = awaited /\ m.body \notin Errors
           /\ l = "retry" => pc = "thread" /\ body = "thread/resume"
           /\ l \in {"thread", "rpc"} => pc = "initialize" /\ body = OpenCall
           /\ l = "rpc" <=> call.kind \in Method
           /\ \/ b2 = before
              \/ b2 = Append(before, Msg("note", 0, "initialized"))
  <2>1. CASE pc = "initialize"
    <3> DEFINE l0 == IF call.kind \in Method THEN "rpc" ELSE "thread"
    <3>1. Request(l0, OpenCall, Append(before, Msg("note", 0, "initialized")))
      BY <2>1 DEF Asks
    <3>2. (l0 = "rpc" <=> call.kind \in Method) /\ l0 \in {"rpc", "thread"}
      OBVIOUS
    <3> HIDE DEF l0
    <3> QED BY <2>1, <3>1, <3>2
  <2>2. CASE pc \in {"thread", "retry"}
    BY <2>2 DEF Asks, NumberInv, Over
  <2> QED BY <2>1, <2>2 DEF Asks
<1> DEFINE r == Msg("request", nextId, body)
           n == Msg("note", 0, "initialized")
<1>2. /\ pc' = l /\ awaited' = nextId /\ nextId' = nextId + 1 /\ toServer' = Append(b2, r)
      /\ call' = call /\ turn' = turn /\ thread' = thread
      /\ others' = others
  BY <1>1 DEF Request, ClientStep, serverVars
<1>3. /\ awaited = nextId - 1 /\ nextId \in 2..4 /\ awaited \in 1..3
      /\ l \in {"thread", "rpc"} => nextId = 2
      /\ l = "retry" => nextId = 3
  BY <1>1 DEF NumberInv, TypeOK
<1>4. /\ body \in {"turn/start", "thread/read"} \cup Opens
      /\ body = "turn/start" <=> l = "turn" \/ (l = "rpc" /\ call.kind = "turn/start")
  BY <1>1 DEF OpenCall, Opens, TypeOK, Call, Method
<1>5. r \in Message /\ r.kind = "request" /\ r.id = nextId /\ r.body = body
  BY <1>3, <1>4 DEF Msg, Message
<1>6. n \in Message /\ n.kind = "note" /\ n.body = "initialized"
  BY DEF Msg, Message
<1>7. before \in Seq(Message)
  BY SentSoFar
<1>8. /\ b2 \in Seq(Message) /\ Msgs(before) \subseteq Msgs(b2)
      /\ \A x \in Msgs(b2) : x \in Msgs(before) \/ x = n
  <2>1. CASE b2 = before
    BY <1>7, <2>1
  <2>2. CASE b2 = Append(before, n)
    BY <1>6, <1>7, <2>2, MsgsOfAppend
  <2> QED BY <1>1, <2>1, <2>2
<1>9. toServer' \in Seq(Message) /\ Msgs(toServer') = Msgs(b2) \cup {r}
  BY <1>2, <1>5, <1>8, MsgsOfAppend
<1>10. NumberInv'
  BY <1>1, <1>2, <1>3 DEF NumberInv, ClientStep, Over
<1>11. ToServerInv'
  <2>1. ASSUME NEW x \in Msgs(toServer'), x.kind = "request"
        PROVE  x.id \in 1..awaited' /\ (x.id = awaited' => Expected(x.body)')
    <3>1. CASE x = r
      BY <1>1, <1>2, <1>3, <1>5, <3>1 DEF Expected, OpenCall
    <3>2. CASE x # r
      <4>1. x \in Msgs(toServer)
        BY <1>6, <1>8, <1>9, <2>1, <3>2, SentSoFar
      <4>2. x.id \in 1..awaited
        BY <2>1, <4>1 DEF ToServerInv
      <4> QED BY <1>2, <1>3, <4>2
    <3> QED BY <3>1, <3>2
  <2> QED BY <2>1 DEF ToServerInv
<1>12. TurnInv'
  <2>1. BeforeTurn /\ turn = "none"
    BY <1>1 DEF BeforeTurn, TurnInv
  <2>2. \A x \in Msgs(b2) : x.body # "turn/start"
    BY <1>6, <1>8, <2>1, SentSoFar, Zenon DEF TurnInv, Opens
  <2>3. /\ Len(b2) \in Nat /\ Len(toServer') = Len(b2) + 1
        /\ \A k \in 1..Len(b2) : toServer'[k] = b2[k] /\ b2[k] \in Msgs(b2)
    BY <1>2, <1>5, <1>8, AppendProperties, LenProperties DEF Msgs
  <2>4. \A k \in 1..Len(toServer') : toServer'[k].body = "turn/start" => k = Len(b2) + 1
    BY <2>2, <2>3
  <2>5. BeforeTurn' => body # "turn/start"
    BY <1>1, <1>2, <1>4 DEF BeforeTurn
  <2> QED BY <1>2, <1>5, <1>9, <2>1, <2>2, <2>4, <2>5 DEF TurnInv
<1>13. StartInv'
  BY <1>1, <1>2 DEF StartInv
<1>14. \A x \in Msgs(toClient') : Known(x)'
  <2>1. \A x \in Msgs(toClient') : Known(x)
    BY SentSoFar DEF ToClientInv
  <2> QED BY <1>2, <1>3, <2>1 DEF Known, TurnTaken
<1>15. AcceptInv'
  <2> SUFFICES ASSUME NoClash', l = "turn"
               PROVE  thread = "opened"
    BY <1>1, <1>2 DEF AcceptInv
  <2>1. NoClash
    BY <1>2, <1>3 DEF NoClash
  <2>2. Done
    BY <1>1, <2>1, Genuine DEF ClientStep, Waiting
  <2> QED BY <1>1, <2>2 DEF Done
<1>16. awaited' \in 1..4 /\ nextId' \in 2..5
  BY <1>2, <1>3
<1> QED BY <1>1, <1>2, <1>8, <1>9, <1>10, <1>11, <1>12, <1>13, <1>14, <1>15, <1>16 DEF Waiting

LEMMA ClientStepInv ==
  ASSUME IInv, NEW m, NEW before, ClientStep(m, before)
  PROVE  /\ pc' \in Waiting \cup {"stream"} \cup Over
         /\ awaited' \in 1..4 /\ nextId' \in 2..5
         /\ toServer' \in Seq(Message) /\ toClient' \in Seq(Message)
         /\ Msgs(before) \subseteq Msgs(toServer')
         /\ Msgs(toClient') \subseteq Msgs(toClient)
         /\ NumberInv' /\ ToServerInv' /\ TurnInv' /\ StartInv' /\ AcceptInv'
         /\ \A x \in Msgs(toClient') : Known(x)'
         /\ call.prompt /\ pc' = "returned" => turnCompleted'
<1>1. CASE Asks(m, before)
  BY <1>1, AskInv, SentSoFar DEF Waiting
<1>2. ASSUME NEW l, StopsAt(m, l), Stop(l, before)
      PROVE  /\ pc' \in Waiting \cup {"stream"} \cup Over
             /\ awaited' \in 1..4 /\ nextId' \in 2..5
             /\ toServer' \in Seq(Message) /\ toClient' \in Seq(Message)
             /\ Msgs(before) \subseteq Msgs(toServer')
             /\ Msgs(toClient') \subseteq Msgs(toClient)
             /\ NumberInv' /\ ToServerInv' /\ TurnInv' /\ StartInv' /\ AcceptInv'
             /\ \A x \in Msgs(toClient') : Known(x)'
             /\ call.prompt /\ pc' = "returned" => turnCompleted'
  <2>1. toServer' = before
    BY <1>2 DEF Stop
  <2> QED BY <1>2, <2>1, StopInv, SentSoFar DEF IInv, TypeOK
<1> QED BY <1>1, <1>2 DEF ClientStep, Moves

\* What is left to show of a step in which the client reads or answers.
LEMMA ClientInv ==
  ASSUME IInv, NEW m, NEW before, ClientStep(m, before),
         threadKnown' \in BOOLEAN, turnCompleted' \in BOOLEAN,
         turnCompleted' => turnCompleted \/ (m \in Msgs(toClient) /\ m.body = "turn/completed"),
         pc' \notin Over => \A i \in asked : OnTheWay(i) => OnTheWay(i)'
  PROVE  IInv'
<1>1. TypeOK'
  <2>1. /\ call' = call /\ turn' = turn /\ thread' = thread /\ asked' = asked
        /\ others' = others /\ used' = used /\ foreign' = foreign
    BY DEF ClientStep, serverVars
  <2>2. awaited' < nextId'
    BY ClientStepInv DEF NumberInv
  <2>3. answering' = Nothing /\ answering'.kind \in {"nothing", "request"}
    BY DEF ClientStep, Nothing
  <2> QED BY <2>1, <2>2, <2>3, ClientStepInv DEF IInv, TypeOK
<1>2. ToClientInv'
  <2>1. answering'.kind # "request"
    BY DEF ClientStep, Nothing
  <2> QED BY <2>1, ClientStepInv DEF ToClientInv
<1>3. CompletedInv'
  <2>1. call' = call /\ turn' = turn /\ foreign' = foreign
    BY DEF ClientStep, serverVars
  <2> QED BY <2>1, ClientStepInv DEF IInv, CompletedInv
<1>4. RequestsAnswered'
  <2>1. asked' = asked /\ pc \notin Over
    BY DEF ClientStep, serverVars
  <2> QED BY <2>1 DEF IInv, RequestsAnswered
<1> QED BY <1>1, <1>2, <1>3, <1>4, ClientStepInv DEF IInv

LEMMA ReceiveInv == IInv /\ Receive => IInv'
<1> SUFFICES ASSUME IInv, Receive PROVE IInv'
  OBVIOUS
<1>1. PICK m : m = Head(toClient)
  OBVIOUS
<1>2. /\ toClient \in Seq(Message) /\ toClient # <<>> /\ toClient' = Tail(toClient)
      /\ m \in Message /\ toClient' \in Seq(Message)
      /\ Msgs(toClient) = {m} \cup Msgs(toClient')
  BY <1>1, MsgsOfTail DEF Receive, IInv, TypeOK
<1>3. Known(m)
  BY <1>2 DEF IInv, ToClientInv
<1>4. turnCompleted' = (turnCompleted \/ m.body = "turn/completed")
  BY <1>1 DEF Receive
<1>5. turnCompleted' \in BOOLEAN
  BY <1>4
<1>6. turnCompleted' => turnCompleted \/ (m \in Msgs(toClient) /\ m.body = "turn/completed")
  BY <1>2, <1>4
<1>7. call.kind \notin Method /\ pc \notin Over /\ answering = Nothing /\ call' = call
  BY DEF Receive
<1>8. CASE m.kind = "request"
  <2>1. /\ answering' = m /\ UNCHANGED <<pc, awaited, nextId, threadKnown, toServer>>
        /\ UNCHANGED <<call, turn, thread, asked, used, others, foreign>>
    BY <1>1, <1>8 DEF Receive, serverVars
  <2>2. TypeOK'
    BY <1>2, <1>5, <1>8, <2>1 DEF IInv, TypeOK
  <2>3. NumberInv' /\ ToServerInv' /\ StartInv' /\ AcceptInv'
    BY <1>7, <2>1 DEF IInv, NumberInv, ToServerInv, Expected, OpenCall, StartInv, AcceptInv, NoClash,
                      Accepted
  <2>4. TurnInv'
    BY <2>1 DEF IInv, TurnInv, BeforeTurn
  <2>5. ToClientInv'
    <3>1. \A x \in Msgs(toClient') : Known(x)
      BY <1>2 DEF IInv, ToClientInv
    <3>2. \A x : Known(x) => Known(x)'
      BY <2>1 DEF Known, Done, TurnTaken, Accepted
    <3> QED BY <1>3, <2>1, <3>1, <3>2 DEF ToClientInv
  <2>6. CompletedInv'
    BY <1>2, <1>6, <1>7, <2>1 DEF IInv, CompletedInv, Over
  <2>7. RequestsAnswered'
    <3>1. ASSUME NEW i \in asked PROVE OnTheWay(i)'
      <4>1. OnTheWay(i)
        BY <1>7, <3>1 DEF IInv, RequestsAnswered
      <4>2. /\ Msgs(toServer)' = Msgs(toServer) /\ Msgs(toClient)' = Msgs(toClient')
        BY <2>1
      <4>3. \/ \E x \in Msgs(toClient) : x.kind = "request" /\ x.id = i
            \/ \E x \in Msgs(toServer) : x.kind = "response" /\ x.id = i
        BY <1>7, <4>1, OnTheWayMsgs DEF Travels, Nothing
      <4>4. \/ \E x \in Msgs(toClient') : x.kind = "request" /\ x.id = i
            \/ m.kind = "request" /\ m.id = i
            \/ \E x \in Msgs(toServer) : x.kind = "response" /\ x.id = i
        BY <1>2, <4>3
      <4> QED BY <2>1, <4>2, <4>4, OnTheWayMsgs DEF Travels
    <3> QED BY <2>1, <3>1 DEF RequestsAnswered
  <2> QED BY <2>2, <2>3, <2>4, <2>5, <2>6, <2>7 DEF IInv
<1>9. CASE m.kind # "request"
  <2>1. PICK b : b = toServer
    OBVIOUS
  <2>2. /\ answering' = Nothing /\ Dispatch(m, b)
        /\ UNCHANGED <<call, turn, thread, asked, used, others, foreign>>
    BY <1>1, <1>9, <2>1 DEF Receive, serverVars
  <2>3. Moves(m, b) /\ threadKnown' \in BOOLEAN
    BY <1>7, <2>2, DispatchMoves DEF IInv, TypeOK
  <2>4. ClientStep(m, b)
    BY <1>2, <1>3, <1>7, <2>1, <2>2, <2>3 DEF ClientStep, serverVars
  <2>5. ASSUME NEW i \in asked, OnTheWay(i) PROVE OnTheWay(i)'
    <3>1. \/ \E x \in Msgs(toClient) : x.kind = "request" /\ x.id = i
          \/ \E x \in Msgs(toServer) : x.kind = "response" /\ x.id = i
      BY <1>7, <2>5, OnTheWayMsgs DEF Travels, Nothing
    <3>2. Msgs(toServer) \subseteq Msgs(toServer')
      BY <2>1, <2>4, ClientStepInv
    <3> QED BY <1>2, <1>9, <3>1, <3>2, OnTheWayMsgs DEF Travels
  <2> QED BY <1>5, <1>6, <2>2, <2>3, <2>4, <2>5, ClientInv
<1> QED BY <1>8, <1>9

\* The answer takes the place of the request.
LEMMA AnswerAppended ==
  ASSUME IInv, NEW m \in Message, NEW b \in {"answer", "unsupported"}
  PROVE  /\ \E i \in Nat, c \in {"answer", "unsupported"} :
              Append(toServer, Msg("response", m.id, b)) = Append(toServer, Msg("response", i, c))
         /\ Msg("response", m.id, b) \in Message
         /\ Msgs(Append(toServer, Msg("response", m.id, b)))
              = Msgs(toServer) \cup {Msg("response", m.id, b)}
<1>1. m.id \in Nat
  BY DEF Message
<1>2. Msg("response", m.id, b) \in Message
  BY <1>1 DEF Msg, Message
<1> QED BY <1>1, <1>2, MsgsOfAppend DEF IInv, TypeOK

LEMMA AnswerInv == IInv /\ Answer => IInv'
<1> SUFFICES ASSUME IInv, Answer PROVE IInv'
  OBVIOUS
<1>1. PICK m : m = answering
  OBVIOUS
<1>2. PICK b : b = Append(toServer, Msg("response", m.id, "answer"))
  OBVIOUS
<1>3. m # Nothing /\ m \in Message /\ m.kind = "request" /\ Known(m)
  BY <1>1 DEF Answer, IInv, TypeOK, ToClientInv, Nothing, Message
<1>4. /\ answering' = Nothing /\ turnCompleted' = turnCompleted /\ toClient' = toClient
      /\ Dispatch(m, b)
      /\ UNCHANGED <<call, turn, thread, asked, used, others, foreign>>
  BY <1>1, <1>2 DEF Answer, serverVars
<1>5. call.kind \notin Method
  BY <1>1, <1>3 DEF IInv, NumberInv
<1>6. CASE pc \notin Over
  <2>1. Moves(m, b) /\ threadKnown' \in BOOLEAN
    BY <1>4, <1>5, <1>6, DispatchMoves DEF IInv, TypeOK
  <2>2. ClientStep(m, b)
    BY <1>2, <1>3, <1>4, <1>5, <1>6, <2>1, AnswerAppended DEF ClientStep, serverVars
  <2>3. ASSUME NEW i \in asked, OnTheWay(i) PROVE OnTheWay(i)'
    <3>1. Msgs(b) = Msgs(toServer) \cup {Msg("response", m.id, "answer")}
      BY <1>2, <1>3, AnswerAppended
    <3>2. \/ \E x \in Msgs(toClient) : x.kind = "request" /\ x.id = i
          \/ \E x \in Msgs(b) : x.kind = "response" /\ x.id = i
      <4> DEFINE a == Msg("response", m.id, "answer")
      <4>1. a.kind = "response" /\ a.id = m.id /\ a \in Msgs(b) /\ Msgs(toServer) \subseteq Msgs(b)
        BY <3>1 DEF Msg
      <4>2. Travels(i)
        BY <2>3, OnTheWayMsgs
      <4> HIDE DEF a
      <4> QED BY <1>1, <4>1, <4>2 DEF Travels
    <3>3. Msgs(b) \subseteq Msgs(toServer')
      BY <2>2, ClientStepInv
    <3> QED BY <1>4, <3>2, <3>3, OnTheWayMsgs DEF Travels
  <2>4. turnCompleted' \in BOOLEAN
    BY <1>4 DEF IInv, TypeOK
  <2> QED BY <1>4, <2>1, <2>2, <2>3, <2>4, ClientInv
<1>7. pc \notin Over
  BY <1>1, <1>3 DEF IInv, NumberInv
<1> QED BY <1>6, <1>7

LEMMA ReceiveRpcInv == IInv /\ ReceiveRpc => IInv'
<1> SUFFICES ASSUME IInv, ReceiveRpc PROVE IInv'
  OBVIOUS
<1>1. PICK m : m = Head(toClient)
  OBVIOUS
<1>2. /\ toClient \in Seq(Message) /\ toClient # <<>> /\ toClient' = Tail(toClient)
      /\ m \in Message /\ Msgs(toClient) = {m} \cup Msgs(toClient')
  BY <1>1, MsgsOfTail DEF ReceiveRpc, IInv, TypeOK
<1>3. Known(m)
  BY <1>2 DEF IInv, ToClientInv
<1>4. /\ call.kind \in Method /\ pc \in {"initialize", "rpc"} /\ answering = Nothing
      /\ pc \notin Over
  BY DEF ReceiveRpc, IInv, NumberInv, Over
<1>5. /\ answering' = Nothing /\ turnCompleted' = turnCompleted /\ threadKnown' = threadKnown
      /\ UNCHANGED <<call, turn, thread, asked, used, others, foreign>>
  BY <1>4 DEF ReceiveRpc, serverVars
<1>6. PICK a \in {toServer, Append(toServer, Msg("response", m.id, "unsupported"))} :
        /\ Moves(m, a)
        /\ m.kind = "request" /\ pc = "rpc" /\ pc' \notin Over =>
             a = Append(toServer, Msg("response", m.id, "unsupported"))
  <2>1. CASE m.id = awaited /\ pc = "initialize"
    <3>1. Initialized(m, toServer)
      BY <1>1, <2>1 DEF ReceiveRpc
    <3> QED BY <2>1, <3>1 DEF Initialized, Moves, Asks, StopsAt
  <2>2. CASE m.id = awaited /\ pc = "rpc"
    <3>1. Stop(IF m.body \in Errors THEN "failed" ELSE "returned", toServer)
      BY <1>1, <2>2 DEF ReceiveRpc
    <3>2. Moves(m, toServer) /\ pc' \in Over
      BY <2>2, <3>1 DEF Moves, StopsAt, Stop, Over
    <3> QED BY <3>2
  <2>3. CASE m.id # awaited
    <3>1. Stop(pc, IF m.kind = "request" /\ pc = "rpc"
                     THEN Append(toServer, Msg("response", m.id, "unsupported")) ELSE toServer)
      BY <1>1, <2>3 DEF ReceiveRpc
    <3> QED BY <3>1 DEF Moves, StopsAt
  <2> QED BY <1>4, <2>1, <2>2, <2>3
<1>7. PICK b : b = a
  OBVIOUS
<1>8. ClientStep(m, b)
  BY <1>2, <1>3, <1>4, <1>5, <1>6, <1>7, AnswerAppended DEF ClientStep, serverVars
<1>9. ASSUME pc' \notin Over, NEW i \in asked, OnTheWay(i) PROVE OnTheWay(i)'
  <2>1. pc = "rpc"
    BY <1>4, <1>9 DEF IInv, StartInv
  <2>2. Msgs(toServer) \subseteq Msgs(b) /\ Msgs(b) \subseteq Msgs(toServer')
    BY <1>8, SentSoFar, ClientStepInv
  <2>3. CASE m.kind = "request" /\ m.id = i
    <3>1. Msg("response", m.id, "unsupported") \in Msgs(toServer')
      BY <1>2, <1>6, <1>7, <1>9, <2>1, <2>2, <2>3, AnswerAppended
    <3> QED BY <2>3, <3>1, OnTheWayMsgs DEF Travels, Msg
  <2>4. CASE ~(m.kind = "request" /\ m.id = i)
    BY <1>2, <1>4, <1>9, <2>2, <2>4, OnTheWayMsgs DEF Travels, Nothing
  <2> QED BY <2>3, <2>4
<1>10. turnCompleted' \in BOOLEAN /\ threadKnown' \in BOOLEAN
  BY <1>5 DEF IInv, TypeOK
<1> QED BY <1>5, <1>8, <1>9, <1>10, ClientInv

LEMMA EndInv == IInv /\ (TimedOut \/ Broken) => IInv'
<1> SUFFICES ASSUME IInv, TimedOut \/ Broken PROVE IInv'
  OBVIOUS
<1>1. /\ pc \notin Over /\ pc' = "failed" /\ answering' = Nothing
      /\ UNCHANGED <<awaited, nextId, threadKnown, turnCompleted, toServer, toClient, call>>
      /\ UNCHANGED <<turn, thread, asked, used, others, foreign>>
  BY DEF TimedOut, Broken, serverVars
<1>2. PICK m : m = Msg("note", 0, "delta")
  OBVIOUS
<1>3. m \in Message /\ Known(m)
  BY <1>2 DEF Msg, Message, Known
<1>4. PICK b : b = toServer
  OBVIOUS
<1>5. StopsAt(m, "failed") /\ Stop("failed", b)
  BY <1>1, <1>4 DEF StopsAt, Stop
<1>6. ClientStep(m, b)
  BY <1>1, <1>3, <1>4, <1>5 DEF ClientStep, Moves, serverVars
<1>7. turnCompleted' \in BOOLEAN /\ threadKnown' \in BOOLEAN /\ pc' \in Over
  BY <1>1 DEF IInv, TypeOK, Over
<1> QED BY <1>1, <1>6, <1>7, ClientInv

-----------------------------------------------------------------------------
(* The steps of the server.                                                *)

\* What the client holds is left alone.
LEMMA ServerFrame ==
  ASSUME UNCHANGED <<call, clientVars>>
  PROVE  /\ NumberInv => NumberInv'
         /\ BeforeTurn' <=> BeforeTurn
         /\ \A b : Expected(b)' <=> Expected(b)
BY DEF clientVars, NumberInv, BeforeTurn, Expected, OpenCall

\* The server only adds messages that the client will take for what they are.
LEMMA Told ==
  ASSUME NEW m \in Message, toClient \in Seq(Message), toClient' = Append(toClient, m)
  PROVE  toClient' \in Seq(Message) /\ Msgs(toClient') = Msgs(toClient) \cup {m}
BY MsgsOfAppend

\* Steps in which the server does not take a message of the client.
LEMMA TellInv ==
  ASSUME IInv, pc \notin Over, NEW m \in Message, Tell(m),
         UNCHANGED <<call, clientVars, toServer, thread>>,
         turn' = turn \/ (turn = "running" /\ turn' = "ended"),
         foreign' \in 0..MaxForeign, foreign <= foreign',
         used \subseteq used', used' \subseteq ServerId, others \subseteq others',
         asked' \cup others' \subseteq used',
         m.kind # "response", m.kind = "note" => m.id = 0,
         m.kind = "request" => m.id \in others' \/ TurnTaken,
         asked' \subseteq asked \cup (IF m.kind = "request" THEN {m.id} ELSE {}),
         pc = "initialize" => asked' = {} /\ others' = {},
         m.body = "turn/completed" => turn' = "ended" \/ foreign' # 0
  PROVE  IInv'
<1>1. /\ toClient' \in Seq(Message) /\ Msgs(toClient') = Msgs(toClient) \cup {m}
  BY Told DEF IInv, TypeOK, Tell
<1>2. /\ UNCHANGED <<pc, awaited, nextId, threadKnown, turnCompleted, answering>>
      /\ UNCHANGED <<call, toServer, thread>>
  BY DEF clientVars
<1>3. TurnTaken => TurnTaken'
  BY DEF TurnTaken
<1>4. TypeOK'
  BY <1>1, <1>2 DEF IInv, TypeOK
<1>5. NumberInv' /\ ToServerInv'
  BY <1>2, ServerFrame DEF IInv, ToServerInv
<1>6. TurnInv' /\ StartInv'
  <2>1. turn = "none" => turn' = "none"
    OBVIOUS
  <2> QED BY <1>2, <2>1, ServerFrame DEF IInv, TurnInv, StartInv
<1>7. Accepted => Accepted'
  BY <1>2, <1>3 DEF Accepted, TurnTaken
<1>8. ToClientInv'
  <2>1. Done => Done'
    BY <1>2, <1>3, <1>7 DEF Done
  <2>2. \A x : Known(x) => Known(x)'
    BY <1>2, <1>3, <2>1 DEF Known
  <2>3. Known(m)'
    BY <1>3 DEF Known
  <2> QED BY <1>1, <1>2, <2>2, <2>3 DEF IInv, ToClientInv
<1>9. AcceptInv'
  <2>1. NoClash' => NoClash
    BY <1>2 DEF NoClash
  <2> QED BY <1>2, <1>7, <2>1 DEF IInv, AcceptInv
<1>10. CompletedInv'
  <2>1. foreign' = 0 => foreign = 0
    BY DEF IInv, TypeOK
  <2>2. turn = "ended" => turn' = "ended"
    OBVIOUS
  <2> QED BY <1>1, <1>2, <2>1, <2>2 DEF IInv, CompletedInv
<1>11. RequestsAnswered'
  <2>1. ASSUME NEW i \in asked' PROVE OnTheWay(i)'
    <3>1. CASE i \in asked
      <4>1. Travels(i)
        BY <3>1, OnTheWayMsgs DEF IInv, RequestsAnswered
      <4> QED BY <1>1, <1>2, <4>1, OnTheWayMsgs DEF Travels
    <3>2. CASE i \notin asked
      BY <1>1, <2>1, <3>2, OnTheWayMsgs DEF Travels
    <3> QED BY <3>1, <3>2
  <2> QED BY <2>1 DEF RequestsAnswered
<1> QED BY <1>4, <1>5, <1>6, <1>8, <1>9, <1>10, <1>11 DEF IInv

LEMMA OtherServerSteps ==
  ASSUME IInv, pc \notin Over,
         \/ EndTurn \/ EndForeignTurn \/ Chatter
         \/ \E i \in ServerId : AskClient(i) \/ AskForeign(i) \/ Resolve(i)
  PROVE  IInv'
<1> USE DEF clientVars
<1>1. /\ foreign \in 0..MaxForeign /\ foreign \in Nat
      /\ asked \cup others \subseteq used /\ used \subseteq ServerId /\ foreign <= foreign
      /\ pc = "initialize" => asked = {} /\ others = {} /\ thread = "closed" /\ turn = "none"
  BY DEF IInv, TypeOK, StartInv, TurnInv, BeforeTurn
<1>2. CASE EndTurn
  <2>1. PICK m : m = Msg("note", 0, "turn/completed")
    OBVIOUS
  <2>2. m \in Message /\ m.kind = "note" /\ m.id = 0
    BY <2>1 DEF Msg, Message
  <2> QED BY <1>1, <1>2, <2>1, <2>2, TellInv DEF EndTurn
<1>3. CASE EndForeignTurn
  <2>1. PICK m : m = Msg("note", 0, "turn/completed")
    OBVIOUS
  <2>2. m \in Message /\ m.kind = "note" /\ m.id = 0
    BY <2>1 DEF Msg, Message
  <2>3. foreign' \in 0..MaxForeign /\ foreign' # 0 /\ foreign <= foreign'
    BY <1>1, <1>3 DEF EndForeignTurn
  <2> QED BY <1>1, <1>3, <2>1, <2>2, <2>3, TellInv DEF EndForeignTurn
<1>4. CASE Chatter
  <2>1. PICK m : m = Msg("note", 0, "delta")
    OBVIOUS
  <2>2. m \in Message /\ m.kind = "note" /\ m.id = 0 /\ m.body = "delta"
    BY <2>1 DEF Msg, Message
  <2> QED BY <1>1, <1>4, <2>1, <2>2, TellInv DEF Chatter
<1>5. ASSUME NEW i \in ServerId, AskClient(i) \/ AskForeign(i) PROVE IInv'
  <2>1. PICK m : m = Msg("request", i, "ask")
    OBVIOUS
  <2>2. m \in Message /\ m.kind = "request" /\ m.id = i /\ m.body = "ask"
    BY <2>1 DEF Msg, Message
  <2>3. /\ used' = used \cup {i} /\ asked' = asked \cup {i} /\ Tell(m)
        /\ UNCHANGED <<call, clientVars, toServer, turn, thread, foreign>>
    BY <1>5, <2>1 DEF AskClient, AskForeign, Ask
  <2>4. others \subseteq others' /\ others' \subseteq used' /\ (i \in others' \/ TurnTaken)
    BY <1>1, <1>5, <2>3 DEF AskClient, AskForeign, TurnTaken
  <2>5. pc # "initialize"
    BY <1>1, <1>5 DEF AskClient, AskForeign
  <2> QED BY <1>1, <2>2, <2>3, <2>4, <2>5, TellInv
<1>6. ASSUME NEW i \in ServerId, Resolve(i) PROVE IInv'
  <2>1. PICK m : m = Msg("note", 0, "serverRequest/resolved")
    OBVIOUS
  <2>2. m \in Message /\ m.kind = "note" /\ m.id = 0 /\ m.body = "serverRequest/resolved"
    BY <2>1 DEF Msg, Message
  <2> QED BY <1>1, <1>6, <2>1, <2>2, TellInv DEF Resolve
<1> QED BY <1>2, <1>3, <1>4, <1>5, <1>6

LEMMA AttachInv == IInv /\ Attach => IInv'
<1> SUFFICES ASSUME IInv, Attach PROVE IInv'
  OBVIOUS
<1>1. /\ UNCHANGED <<pc, awaited, nextId, threadKnown, turnCompleted, answering, call>>
      /\ UNCHANGED <<toServer, toClient, turn, asked, used, others, foreign>>
      /\ thread = "closed" /\ thread' = "attached"
  BY DEF Attach, clientVars
<1>2. pc # "initialize"
  <2>1. Head(toServer) \in Msgs(toServer)
    BY MsgsOfTail DEF Attach, IInv, TypeOK
  <2> QED BY <2>1 DEF Attach, IInv, StartInv, Opens
<1>3. (Done => Done') /\ (Accepted => Accepted')
  BY <1>1 DEF Done, Accepted, TurnTaken
<1>4. TypeOK'
  BY <1>1 DEF IInv, TypeOK
<1>5. NumberInv' /\ ToServerInv' /\ TurnInv' /\ StartInv'
  BY <1>1, <1>2 DEF IInv, NumberInv, ToServerInv, Expected, OpenCall, TurnInv, BeforeTurn, StartInv
<1>6. ToClientInv'
  <2>1. \A x : Known(x) => Known(x)'
    BY <1>1, <1>3 DEF Known, TurnTaken
  <2> QED BY <1>1, <2>1 DEF IInv, ToClientInv
<1>7. AcceptInv' /\ CompletedInv'
  BY <1>1, <1>3 DEF IInv, AcceptInv, NoClash, CompletedInv
<1>8. RequestsAnswered'
  BY <1>1 DEF IInv, RequestsAnswered, OnTheWay
<1> QED BY <1>4, <1>5, <1>6, <1>7, <1>8 DEF IInv

\* The messages of the client are served in order.
LEMMA Served ==
  ASSUME IInv, NEW m, m = Head(toServer), toServer # <<>>, toServer' = Tail(toServer),
         UNCHANGED <<call, clientVars>>, turn' = turn \/ m.body = "turn/start",
         others' = others, thread = "closed" /\ pc = "initialize" => thread' = "closed",
         asked' \subseteq asked
  PROVE  /\ m \in Message /\ m \in Msgs(toServer) /\ toServer' \in Seq(Message)
         /\ Msgs(toServer) = {m} \cup Msgs(toServer')
         /\ NumberInv' /\ ToServerInv' /\ TurnInv' /\ StartInv'
<1>1. /\ m \in Message /\ toServer' \in Seq(Message)
      /\ Msgs(toServer) = {m} \cup Msgs(toServer')
      /\ \A k \in 1..Len(toServer') : k + 1 \in 1..Len(toServer) /\ toServer'[k] = toServer[k + 1]
      /\ Len(toServer) \in Nat \ {0} /\ m = toServer[1] /\ Len(toServer') = Len(toServer) - 1
  BY MsgsOfTail DEF IInv, TypeOK
<1>2. UNCHANGED <<pc, awaited, nextId, answering, call>>
  BY DEF clientVars
<1>3. NumberInv' /\ ToServerInv'
  BY <1>1, <1>2, ServerFrame DEF IInv, ToServerInv
<1>4. StartInv'
  BY <1>1, <1>2 DEF IInv, StartInv
<1>5. TurnInv'
  <2>1. \A j, k \in 1..Len(toServer') :
          toServer'[j].body = "turn/start" /\ toServer'[k].body = "turn/start" => j = k
    <3>1. ASSUME NEW j \in 1..Len(toServer'), NEW k \in 1..Len(toServer'),
                 toServer'[j].body = "turn/start", toServer'[k].body = "turn/start"
          PROVE  j = k
      <4>1. j + 1 = k + 1
        BY <1>1, <3>1 DEF IInv, TurnInv
      <4> QED BY <4>1
    <3> QED BY <3>1
  <2>2. CASE m.body = "turn/start"
    <3>1. ASSUME NEW x \in Msgs(toServer'), x.body = "turn/start" PROVE FALSE
      <4>1. PICK k \in 1..Len(toServer') : x = toServer'[k]
        BY DEF Msgs
      <4>2. 1 \in 1..Len(toServer) /\ k + 1 \in 1..Len(toServer) /\ k + 1 # 1
        BY <1>1
      <4> QED BY <1>1, <2>2, <3>1, <4>1, <4>2 DEF IInv, TurnInv
    <3>2. ~BeforeTurn
      BY <1>1, <2>2 DEF IInv, TurnInv
    <3> QED BY <2>1, <3>1, <3>2, ServerFrame DEF TurnInv
  <2>3. CASE m.body # "turn/start"
    BY <1>1, <2>1, <2>3, ServerFrame DEF IInv, TurnInv
  <2> QED BY <2>2, <2>3
<1> QED BY <1>1, <1>3, <1>4, <1>5

LEMMA ServeNoRequest ==
  ASSUME IInv, NEW m, m = Head(toServer), m.kind # "request", Serve, pc \notin Over
  PROVE  IInv'
<1>1. /\ toServer # <<>> /\ toServer' = Tail(toServer) /\ UNCHANGED <<call, clientVars>>
      /\ UNCHANGED <<toClient, thread, turn, used, others, foreign>>
      /\ asked' = IF m.kind = "response" THEN asked \ {m.id} ELSE asked
  <2>1. m.kind \in {"request", "response", "note"}
    BY MsgsOfTail DEF Serve, IInv, TypeOK, Message
  <2> QED BY <2>1 DEF Serve
<1>2. /\ m \in Message /\ m \in Msgs(toServer) /\ toServer' \in Seq(Message)
      /\ Msgs(toServer) = {m} \cup Msgs(toServer')
      /\ NumberInv' /\ ToServerInv' /\ TurnInv' /\ StartInv'
  BY <1>1, Served
<1>3. UNCHANGED <<pc, awaited, nextId, threadKnown, turnCompleted, answering, call>>
  BY <1>1 DEF clientVars
<1>4. TypeOK'
  BY <1>1, <1>2, <1>3 DEF IInv, TypeOK
<1>5. ToClientInv' /\ AcceptInv' /\ CompletedInv'
  <2>1. \A x : Known(x) => Known(x)'
    BY <1>1, <1>3 DEF Known, Done, TurnTaken, Accepted
  <2> QED BY <1>1, <1>3, <2>1 DEF IInv, ToClientInv, AcceptInv, NoClash, Accepted, CompletedInv
<1>6. RequestsAnswered'
  <2>1. ASSUME NEW i \in asked' PROVE OnTheWay(i)'
    <3>1. i \in asked /\ ~(m.kind = "response" /\ m.id = i)
      BY <1>1, <2>1
    <3>2. Travels(i)
      BY <3>1, OnTheWayMsgs DEF IInv, RequestsAnswered
    <3> QED BY <1>1, <1>2, <1>3, <3>1, <3>2, OnTheWayMsgs DEF Travels
  <2> QED BY <2>1 DEF RequestsAnswered
<1> QED BY <1>2, <1>4, <1>5, <1>6 DEF IInv

LEMMA ServeRequest ==
  ASSUME IInv, NEW m, m = Head(toServer), m.kind = "request", Serve, pc \notin Over
  PROVE  IInv'
<1>1. /\ toServer # <<>> /\ toServer' = Tail(toServer) /\ UNCHANGED <<call, clientVars>>
      /\ UNCHANGED <<asked, used, others, foreign>>
      /\ Accept(m) \/ Refuse(m)
  BY DEF Serve
<1>2. UNCHANGED <<pc, awaited, nextId, threadKnown, turnCompleted, answering, call>>
  BY <1>1 DEF clientVars
<1>3. m \in Message /\ m \in Msgs(toServer)
  BY <1>1, MsgsOfTail DEF IInv, TypeOK
<1>4. m.id \in 1..awaited /\ (m.id = awaited => Expected(m.body)) /\ m.id \in Nat
  BY <1>3 DEF IInv, ToServerInv, Message
<1>5. /\ turn' = turn \/ m.body = "turn/start"
      /\ m.body = "turn/start" => turn = "none" /\ turn' \in {"running", "refused"}
      /\ thread' \in {thread, "opened"}
      /\ thread' # thread => m.body \in Opens
  BY <1>1, <1>3 DEF Accept, Refuse, IInv, TurnInv
<1>6. pc = "initialize" => thread' = thread
  BY <1>3, <1>5 DEF IInv, StartInv
<1>7. /\ toServer' \in Seq(Message) /\ Msgs(toServer) = {m} \cup Msgs(toServer')
      /\ NumberInv' /\ ToServerInv' /\ TurnInv' /\ StartInv'
  BY <1>1, <1>5, <1>6, Served
<1>8. (TurnTaken => TurnTaken') /\ (thread = "opened" => thread' = "opened")
  BY <1>5 DEF TurnTaken
<1>9. (Accepted => Accepted') /\ (Done => Done')
  BY <1>2, <1>8 DEF Accepted, Done, TurnTaken
<1>10. PICK b \in {"ok", "error", "capability"} : \E n \in Message :
          /\ b \notin Errors => Accept(m)
          /\ n.kind = "note" /\ n.id = 0 /\ n.body = "thread/started"
          /\ \/ toClient' = Append(toClient, Msg("response", m.id, b))
             \/ toClient' = Append(Append(toClient, n), Msg("response", m.id, b))
  <2> DEFINE n == Msg("note", 0, "thread/started")
  <2>1. n \in Message /\ n.kind = "note" /\ n.id = 0 /\ n.body = "thread/started"
    BY DEF Msg, Message, Opens
  <2>2. CASE Refuse(m)
    BY <2>1, <2>2 DEF Refuse, Tell, Errors
  <2>3. CASE Accept(m) /\ m.body # "thread/start"
    BY <2>1, <2>3 DEF Accept, Tell
  <2>4. CASE Accept(m) /\ m.body = "thread/start"
    <3>1. toClient' = toClient \o <<n, Msg("response", m.id, "ok")>>
      BY <2>4 DEF Accept
    <3>2. Msg("response", m.id, "ok") \in Message /\ toClient \in Seq(Message)
      BY <1>4 DEF Msg, Message, IInv, TypeOK
    <3>3. toClient' = Append(Append(toClient, n), Msg("response", m.id, "ok"))
      BY <2>1, <3>1, <3>2, TwoAppended
    <3> QED BY <2>1, <2>4, <3>3
  <2> QED BY <1>1, <2>2, <2>3, <2>4
<1>11. PICK n \in Message :
          /\ n.kind = "note" /\ n.id = 0 /\ n.body = "thread/started"
          /\ \/ toClient' = Append(toClient, Msg("response", m.id, b))
             \/ toClient' = Append(Append(toClient, n), Msg("response", m.id, b))
  BY <1>10
<1>12. PICK r : r = Msg("response", m.id, b)
  OBVIOUS
<1>13. r \in Message /\ r.kind = "response" /\ r.id = m.id /\ r.body = b
  BY <1>4, <1>12 DEF Msg, Message
<1>14. /\ toClient' \in Seq(Message)
       /\ Msgs(toClient) \cup {r} \subseteq Msgs(toClient')
       /\ Msgs(toClient') \subseteq Msgs(toClient) \cup {n, r}
  <2>1. toClient \in Seq(Message)
    BY DEF IInv, TypeOK
  <2>2. Append(toClient, n) \in Seq(Message) /\ Msgs(Append(toClient, n)) = Msgs(toClient) \cup {n}
    BY <2>1, MsgsOfAppend
  <2>3. CASE toClient' = Append(toClient, r)
    BY <1>13, <2>1, <2>3, MsgsOfAppend
  <2>4. CASE toClient' = Append(Append(toClient, n), r)
    BY <1>13, <2>2, <2>4, MsgsOfAppend
  <2> QED BY <1>11, <1>12, <2>3, <2>4
<1>15. TypeOK'
  <2>1. turn' \in {"none", "running", "refused", "ended"} /\ thread' \in {"closed", "attached", "opened"}
    BY <1>5 DEF IInv, TypeOK
  <2> QED BY <1>1, <1>2, <1>7, <1>14, <2>1 DEF IInv, TypeOK
<1>16. ToClientInv'
  <2>1. \A x : Known(x) => Known(x)'
    BY <1>1, <1>2, <1>8, <1>9 DEF Known
  <2>2. r.id = awaited /\ r.body \notin Errors => Done'
    <3>1. SUFFICES ASSUME m.id = awaited, Accept(m) PROVE Done'
      BY <1>10, <1>13
    <3>2. Expected(m.body) /\ call \in Call
      BY <1>4, <3>1 DEF IInv, TypeOK
    <3>3. /\ m.body \in Opens => thread' = "opened"
          /\ m.body = "turn/start" => turn' = "running"
      BY <3>1 DEF Accept
    <3>4. CASE pc \in {"thread", "retry"}
      <4>1. call.kind \notin Method
        BY <3>4 DEF IInv, NumberInv, Over
      <4>2. m.body \in Opens
        BY <3>2, <3>4, <4>1 DEF Expected, OpenCall, Opens, Call, Method
      <4> QED BY <1>2, <3>3, <3>4, <4>2 DEF Done
    <3>5. CASE pc = "turn"
      BY <1>2, <3>2, <3>3, <3>5 DEF Done, Expected, TurnTaken
    <3>6. CASE pc = "rpc"
      <4>1. call.kind \in Method /\ m.body = call.kind /\ ~call.prompt
        BY <3>2, <3>6 DEF IInv, NumberInv, Expected, OpenCall, Call, Method
      <4> QED BY <1>2, <3>3, <3>6, <4>1 DEF Done, Accepted, Opens, Method
    <3> QED BY <1>2, <3>4, <3>5, <3>6 DEF Done
  <2>3. Known(r)' /\ Known(n)'
    BY <1>2, <1>4, <1>11, <1>13, <2>2 DEF Known
  <2> QED BY <1>2, <1>14, <2>1, <2>3 DEF IInv, ToClientInv
<1>17. AcceptInv'
  BY <1>1, <1>2, <1>8, <1>9 DEF IInv, AcceptInv, NoClash
<1>18. CompletedInv'
  <2>1. turn = "ended" => turn' = "ended"
    BY <1>5
  <2>2. b # "turn/completed" /\ n.body # "turn/completed"
    BY <1>10, <1>11
  <2> QED BY <1>1, <1>2, <1>13, <1>14, <2>1, <2>2 DEF IInv, CompletedInv
<1>19. RequestsAnswered'
  <2>1. ASSUME NEW i \in asked' PROVE OnTheWay(i)'
    <3>1. Travels(i)
      BY <1>1, <2>1, OnTheWayMsgs DEF IInv, RequestsAnswered
    <3> QED BY <1>2, <1>7, <1>14, <3>1, OnTheWayMsgs DEF Travels
  <2> QED BY <2>1 DEF RequestsAnswered
<1> QED BY <1>7, <1>15, <1>16, <1>17, <1>18, <1>19 DEF IInv

-----------------------------------------------------------------------------
(* The theorems.                                                           *)

\* The conjunction of all the above holds in every reachable state.
THEOREM Invariant == Spec => []IInv
<1>1. IInv /\ [Next]_vars => IInv'
  <2> SUFFICES ASSUME IInv, [Next]_vars PROVE IInv'
    OBVIOUS
  <2>1. CASE pc \notin Over /\ Server
    <3>1. CASE Serve
      <4>1. PICK m : m = Head(toServer)
        OBVIOUS
      <4> QED BY <2>1, <3>1, <4>1, ServeRequest, ServeNoRequest
    <3> QED BY <2>1, <3>1, AttachInv, OtherServerSteps DEF Server
  <2>2. CASE Receive
    BY <2>2, ReceiveInv
  <2>3. CASE ReceiveRpc
    BY <2>3, ReceiveRpcInv
  <2>4. CASE Answer
    BY <2>4, AnswerInv
  <2>5. CASE TimedOut \/ Broken
    BY <2>5, EndInv
  <2>6. CASE UNCHANGED vars
    <3>1. /\ UNCHANGED <<pc, awaited, nextId, threadKnown, turnCompleted, answering, call>>
          /\ UNCHANGED <<toServer, toClient, turn, thread, asked, used, others, foreign>>
      BY <2>6 DEF vars, clientVars, serverVars
    <3>2. TypeOK' /\ NumberInv' /\ RequestsAnswered'
      BY <3>1 DEF IInv, TypeOK, NumberInv, RequestsAnswered, OnTheWay
    <3>3. ToServerInv' /\ TurnInv' /\ StartInv'
      BY <3>1 DEF IInv, ToServerInv, Expected, OpenCall, TurnInv, BeforeTurn, StartInv
    <3>4. ToClientInv' /\ AcceptInv' /\ CompletedInv'
      <4>1. \A x : Known(x) => Known(x)'
        BY <3>1 DEF Known, Done, TurnTaken, Accepted
      <4> QED BY <3>1, <4>1 DEF IInv, ToClientInv, AcceptInv, NoClash, Accepted, CompletedInv
    <3> QED BY <3>2, <3>3, <3>4 DEF IInv
  <2> QED BY <2>1, <2>2, <2>3, <2>4, <2>5, <2>6 DEF Next
<1> QED BY <1>1, InitInv, PTL DEF Spec

\* The conversation stays within its messages, and the client numbers its requests
\* one by one (:1304-1310).
THEOREM TypeCorrect == Spec => []TypeOK
<1>1. IInv => TypeOK
  BY DEF IInv
<1> QED BY <1>1, Invariant, PTL

\* No request of the server is lost, whatever the client waits for when it comes
\* (:1387-1394, :952-963).
THEOREM NoRequestLost == Spec => []RequestsAnswered
<1>1. IInv => RequestsAnswered
  BY DEF IInv
<1> QED BY <1>1, Invariant, PTL

\* Nothing but the server's consent passes for the response, as long as no other
\* turn's request bears the id of one of the client's (:1391, :948).
THEOREM OnlyAccepted == Spec => []AcceptedBeforeStream
<1>1. IInv => AcceptedBeforeStream
  BY DEF IInv, AcceptInv, NoClash, AcceptedBeforeStream
<1> QED BY <1>1, Invariant, PTL

\* Where no other turn ends, the call returns after its own turn (:1508-1510).
THEOREM ReturnAfterOwnTurn == Spec => []UndisturbedReturn
<1>1. IInv => UndisturbedReturn
  BY DEF IInv, CompletedInv, UndisturbedReturn, ReturnedAfterOwnTurn
<1> QED BY <1>1, Invariant, PTL

-----------------------------------------------------------------------------
(* A request of the server is in one place at a time.                      *)

\* The ids of the messages of kind k in s, and that none of them comes twice.
Ids(s, k) == {s[j].id : j \in {x \in 1..Len(s) : s[x].kind = k}}

Once(s, k) ==
  \A i, j \in 1..Len(s) : s[i].kind = k /\ s[j].kind = k /\ s[i].id = s[j].id => i = j

LEMMA OnceAppended ==
  ASSUME NEW s \in Seq(Message), NEW m \in Message, NEW k, Once(s, k),
         m.kind = k => m.id \notin Ids(s, k)
  PROVE  /\ Append(s, m) \in Seq(Message)
         /\ Once(Append(s, m), k)
         /\ m.kind = k => Ids(Append(s, m), k) = Ids(s, k) \cup {m.id}
         /\ m.kind # k => Ids(Append(s, m), k) = Ids(s, k)
<1> DEFINE t == Append(s, m)
<1>1. /\ t \in Seq(Message) /\ Len(s) \in Nat /\ Len(t) = Len(s) + 1
      /\ \A j \in 1..Len(s) : t[j] = s[j]
      /\ t[Len(s) + 1] = m
  BY AppendProperties, LenProperties
<1> HIDE DEF t
<1>2. \A j \in 1..Len(t) : j \in 1..Len(s) \/ j = Len(s) + 1
  BY <1>1
<1>3. \A j \in 1..Len(s) : j \in 1..Len(t) /\ j # Len(s) + 1
  BY <1>1
<1>4. Len(s) + 1 \in 1..Len(t)
  BY <1>1
<1>5. Once(t, k)
  <2> SUFFICES ASSUME NEW i \in 1..Len(t), NEW j \in 1..Len(t),
                      t[i].kind = k, t[j].kind = k, t[i].id = t[j].id
               PROVE  i = j
    BY DEF Once
  <2>1. CASE i \in 1..Len(s) /\ j \in 1..Len(s)
    BY <1>1, <2>1 DEF Once
  <2>2. CASE i = Len(s) + 1 /\ j \in 1..Len(s)
    BY <1>1, <2>2 DEF Ids
  <2>3. CASE j = Len(s) + 1 /\ i \in 1..Len(s)
    BY <1>1, <2>3 DEF Ids
  <2>4. QED
    BY <1>2, <2>1, <2>2, <2>3
<1>6. /\ m.kind = k => Ids(t, k) = Ids(s, k) \cup {m.id}
      /\ m.kind # k => Ids(t, k) = Ids(s, k)
  BY <1>1, <1>2, <1>3, <1>4 DEF Ids
<1>7. QED
  BY <1>1, <1>5, <1>6 DEF t

LEMMA OtherAppended ==
  ASSUME NEW s \in Seq(Message), NEW m \in Message, NEW k, Once(s, k), m.kind # k
  PROVE  /\ Append(s, m) \in Seq(Message)
         /\ Once(Append(s, m), k)
         /\ Ids(Append(s, m), k) = Ids(s, k)
BY OnceAppended

LEMMA OnceTaken ==
  ASSUME NEW s \in Seq(Message), s # <<>>, NEW k, Once(s, k)
  PROVE  /\ Tail(s) \in Seq(Message)
         /\ Once(Tail(s), k)
         /\ Ids(Tail(s), k) = Ids(s, k) \ (IF Head(s).kind = k THEN {Head(s).id} ELSE {})
         /\ Head(s).kind = k => Head(s).id \in Ids(s, k)
<1> DEFINE t == Tail(s)
<1>1. /\ t \in Seq(Message) /\ Len(s) \in Nat \ {0} /\ Len(t) = Len(s) - 1 /\ Head(s) = s[1]
      /\ \A j \in 1..Len(t) : j + 1 \in 1..Len(s) /\ t[j] = s[j + 1]
  BY MsgsOfTail
<1> HIDE DEF t
<1>2. \A j \in 1..Len(s) : j = 1 \/ (j - 1 \in 1..Len(t) /\ t[j - 1] = s[j])
  BY <1>1
<1>3. 1 \in 1..Len(s) /\ \A j \in 1..Len(t) : j + 1 # 1
  BY <1>1
<1>4. Once(t, k)
  <2> SUFFICES ASSUME NEW i \in 1..Len(t), NEW j \in 1..Len(t),
                      t[i].kind = k, t[j].kind = k, t[i].id = t[j].id
               PROVE  i = j
    BY DEF Once
  <2>1. i + 1 = j + 1
    BY <1>1 DEF Once
  <2>2. QED
    BY <2>1
<1>5. Ids(s, k) = Ids(t, k) \cup (IF Head(s).kind = k THEN {Head(s).id} ELSE {})
  <2>1. ASSUME NEW j \in 1..Len(s), s[j].kind = k
        PROVE  s[j].id \in Ids(t, k) \/ (Head(s).kind = k /\ s[j].id = Head(s).id)
    BY <1>1, <1>2, <2>1 DEF Ids
  <2>2. ASSUME NEW j \in 1..Len(t), t[j].kind = k PROVE t[j].id \in Ids(s, k)
    BY <1>1, <2>2 DEF Ids
  <2>3. Head(s).kind = k => Head(s).id \in Ids(s, k)
    BY <1>1, <1>3 DEF Ids
  <2>4. \A i \in Ids(s, k) : i \in Ids(t, k) \/ (Head(s).kind = k /\ i = Head(s).id)
    BY <2>1 DEF Ids
  <2>5. Ids(t, k) \subseteq Ids(s, k)
    BY <2>2 DEF Ids
  <2>6. QED
    BY <2>3, <2>4, <2>5
<1>6. Head(s).kind = k => Head(s).id \notin Ids(t, k)
  <2> SUFFICES ASSUME Head(s).kind = k, NEW j \in 1..Len(t), t[j].kind = k, t[j].id = Head(s).id
               PROVE  FALSE
    BY DEF Ids
  <2>1. j + 1 = 1
    BY <1>1, <1>3 DEF Once
  <2>2. QED
    BY <1>3, <2>1
<1>7. QED
  BY <1>1, <1>4, <1>5, <1>6 DEF t

\* The requests on their way to the client, with it, and answered.
Coming == Ids(toClient, "request")
Busy   == IF answering.kind = "request" THEN {answering.id} ELSE {}
Back   == Ids(toServer, "response")

Trip == Coming \cup Busy \cup Back

\* No request is under way in two copies, nor is its answer, nor are both.
SingleInv ==
  /\ Once(toClient, "request") /\ Once(toServer, "response")
  /\ Coming \cap Busy = {} /\ Coming \cap Back = {} /\ Busy \cap Back = {}
  /\ Trip \subseteq used

\* What the client sends of its own accord answers nothing.
LEMMA MovesAnswerNothing ==
  ASSUME TypeOK, NumberInv, NEW m, NEW before \in Seq(Message), Moves(m, before),
         Once(before, "response")
  PROVE  Once(toServer', "response") /\ Ids(toServer', "response") = Ids(before, "response")
<1>1. CASE Asks(m, before)
  <2>1. PICK l, body, b2 :
             /\ body \in {"turn/start", "thread/read"} \cup Opens
             /\ Request(l, body, b2)
             /\ b2 = before \/ b2 = Append(before, Msg("note", 0, "initialized"))
    <3>1. OpenCall \in {"turn/start", "thread/read"} \cup Opens
      BY DEF TypeOK, Call, Method, OpenCall, Opens
    <3>2. {"turn/start", "thread/resume"} \subseteq {"turn/start", "thread/read"} \cup Opens
      BY DEF Opens
    <3> DEFINE l0 == IF call.kind \in Method THEN "rpc" ELSE "thread"
    <3> HIDE DEF l0
    <3>3. CASE Request(l0, OpenCall, Append(before, Msg("note", 0, "initialized")))
      BY <3>1, <3>3
    <3>4. CASE Request("retry", "thread/resume", before) \/ Request("turn", "turn/start", before)
      BY <3>2, <3>4
    <3>5. QED
      BY <1>1, <3>3, <3>4 DEF Asks, l0
  <2>2. /\ Msg("request", nextId, body) \in Message /\ Msg("request", nextId, body).kind = "request"
        /\ Msg("note", 0, "initialized") \in Message /\ Msg("note", 0, "initialized").kind = "note"
    BY <2>1 DEF Msg, Message, TypeOK
  <2>3. b2 \in Seq(Message) /\ Once(b2, "response") /\ Ids(b2, "response") = Ids(before, "response")
    <3>1. PICK n \in Message : n = Msg("note", 0, "initialized") /\ n.kind # "response"
      BY <2>2
    <3>2. /\ Append(before, n) \in Seq(Message) /\ Once(Append(before, n), "response")
          /\ Ids(Append(before, n), "response") = Ids(before, "response")
      BY <3>1, OtherAppended
    <3>3. QED
      BY <2>1, <3>1, <3>2
  <2>4. toServer' = Append(b2, Msg("request", nextId, body))
    BY <2>1 DEF Request
  <2>5. QED
    BY <2>2, <2>3, <2>4, OtherAppended
<1>2. CASE \E l : Stop(l, before)
  BY <1>2 DEF Stop
<1>3. QED
  BY <1>1, <1>2 DEF Moves

\* What the server says without asking.
LEMMA ToldNoRequest ==
  ASSUME toClient \in Seq(Message), NEW m \in Message, m.kind # "request",
         toClient' = Append(toClient, m), Once(toClient, "request")
  PROVE  toClient' \in Seq(Message) /\ Once(toClient', "request") /\ Coming' = Coming
BY OtherAppended DEF Coming

\* One step takes no request back that was done with, and keeps the rest apart.
Fresh == \A i \in used : i \notin Trip => i \notin Trip'

LEMMA SingleReceive ==
  ASSUME IInv, SingleInv, Receive
  PROVE  SingleInv' /\ Fresh
<1>1. PICK m : m = Head(toClient)
  OBVIOUS
<1>2. /\ toClient \in Seq(Message) /\ toClient # <<>> /\ toClient' = Tail(toClient)
      /\ toServer \in Seq(Message) /\ m \in Message
  BY <1>1, MsgsOfTail DEF Receive, IInv, TypeOK
<1>3. /\ Once(toClient', "request")
      /\ Coming' = Coming \ (IF m.kind = "request" THEN {m.id} ELSE {})
      /\ m.kind = "request" => m.id \in Coming
  BY <1>1, <1>2, OnceTaken DEF SingleInv, Coming
<1>4. Busy = {} /\ used' = used
  BY DEF Receive, Busy, Nothing, serverVars
<1>5. CASE m.kind = "request"
  <2>1. answering' = m /\ toServer' = toServer
    BY <1>1, <1>5 DEF Receive
  <2>2. Busy' = {m.id} /\ Back' = Back
    BY <1>5, <2>1 DEF Busy, Back
  <2>3. QED
    BY <1>3, <1>4, <1>5, <2>1, <2>2 DEF SingleInv, Fresh, Trip
<1>6. CASE m.kind # "request"
  <2>1. PICK b : b = toServer
    OBVIOUS
  <2>2. answering' = Nothing /\ Dispatch(m, b) /\ call.kind \notin Method /\ pc \notin Over
    BY <1>1, <1>6, <2>1 DEF Receive
  <2>3. Moves(m, b)
    BY <2>2, DispatchMoves DEF IInv, TypeOK
  <2>4. Once(toServer', "response") /\ Back' = Back
    BY <1>2, <2>1, <2>3, MovesAnswerNothing DEF SingleInv, IInv, Back
  <2>5. Busy' = {}
    BY <2>2 DEF Busy, Nothing
  <2>6. QED
    BY <1>3, <1>4, <1>6, <2>4, <2>5 DEF SingleInv, Fresh, Trip
<1>7. QED
  BY <1>5, <1>6

LEMMA SingleAnswer ==
  ASSUME IInv, SingleInv, Answer
  PROVE  SingleInv' /\ Fresh
<1>1. PICK m : m = answering
  OBVIOUS
<1>2. PICK a : a = Msg("response", m.id, "answer")
  OBVIOUS
<1>3. m \in Message /\ m.kind = "request" /\ call.kind \notin Method /\ pc \notin Over
  BY <1>1 DEF Answer, IInv, TypeOK, NumberInv, Nothing, Message
<1>4. a \in Message /\ a.kind = "response" /\ a.id = m.id
  BY <1>2, <1>3 DEF Msg, Message
<1>5. PICK b : b = Append(toServer, a)
  OBVIOUS
<1>6. /\ answering' = Nothing /\ toClient' = toClient /\ used' = used /\ Dispatch(m, b)
  BY <1>1, <1>2, <1>5 DEF Answer, serverVars
<1>7. Busy = {m.id} /\ Busy' = {} /\ Coming' = Coming
  BY <1>1, <1>3, <1>6 DEF Busy, Nothing, Coming
<1>8. /\ b \in Seq(Message) /\ Once(b, "response") /\ Ids(b, "response") = Back \cup {m.id}
  <2>1. a.id \notin Ids(toServer, "response")
    BY <1>4, <1>7 DEF SingleInv, Back
  <2>2. QED
    BY <1>4, <1>5, <2>1, OnceAppended DEF SingleInv, IInv, TypeOK, Back
<1>9. Moves(m, b)
  BY <1>3, <1>6, DispatchMoves DEF IInv, TypeOK
<1>10. Once(toServer', "response") /\ Back' = Back \cup {m.id}
  BY <1>8, <1>9, MovesAnswerNothing DEF IInv, Back
<1>11. QED
  BY <1>6, <1>7, <1>10 DEF SingleInv, Fresh, Trip

LEMMA SingleRpc ==
  ASSUME IInv, SingleInv, ReceiveRpc
  PROVE  SingleInv' /\ Fresh
<1>1. PICK m : m = Head(toClient)
  OBVIOUS
<1>2. /\ toClient \in Seq(Message) /\ toClient # <<>> /\ toClient' = Tail(toClient)
      /\ toServer \in Seq(Message) /\ m \in Message
  BY <1>1, MsgsOfTail DEF ReceiveRpc, IInv, TypeOK
<1>3. /\ Once(toClient', "request")
      /\ Coming' = Coming \ (IF m.kind = "request" THEN {m.id} ELSE {})
      /\ m.kind = "request" => m.id \in Coming
  BY <1>1, <1>2, OnceTaken DEF SingleInv, Coming
<1>4. Busy' = Busy /\ used' = used /\ Busy = {}
  BY DEF ReceiveRpc, Busy, serverVars, IInv, NumberInv, Nothing
<1>5. PICK a : a = Msg("response", m.id, "unsupported")
  OBVIOUS
<1>6. a \in Message /\ a.kind = "response" /\ a.id = m.id
  BY <1>2, <1>5 DEF Msg, Message
<1>7. \/ toServer' = toServer
      \/ m.kind = "request" /\ toServer' = Append(toServer, a)
      \/ Moves(m, toServer)
  <2>1. CASE m.id = awaited /\ pc = "initialize"
    <3>1. Initialized(m, toServer)
      BY <1>1, <2>1 DEF ReceiveRpc
    <3>2. QED
      BY <2>1, <3>1 DEF Initialized, Moves, Asks, StopsAt
  <2>2. CASE ~(m.id = awaited /\ pc = "initialize")
    BY <1>1, <1>5, <2>2 DEF ReceiveRpc, IInv, NumberInv, Over, Stop
  <2>3. QED
    BY <2>1, <2>2
<1>8. CASE m.kind = "request" /\ toServer' = Append(toServer, a)
  <2>1. a.id \notin Ids(toServer, "response")
    BY <1>3, <1>6, <1>8 DEF SingleInv, Back
  <2>2. Once(toServer', "response") /\ Back' = Back \cup {m.id}
    BY <1>2, <1>6, <1>8, <2>1, OnceAppended DEF SingleInv, Back
  <2>3. QED
    BY <1>3, <1>4, <1>8, <2>2 DEF SingleInv, Fresh, Trip
<1>9. CASE toServer' = toServer \/ Moves(m, toServer)
  <2>1. Once(toServer', "response") /\ Back' = Back
    BY <1>2, <1>9, MovesAnswerNothing DEF SingleInv, IInv, Back
  <2>2. QED
    BY <1>3, <1>4, <2>1 DEF SingleInv, Fresh, Trip
<1>10. QED
  BY <1>7, <1>8, <1>9

\* The server takes its oldest message; only Ask puts a request under way.
LEMMA SingleServe ==
  ASSUME IInv, SingleInv, Serve
  PROVE  SingleInv' /\ Fresh
<1>1. PICK m : m = Head(toServer)
  OBVIOUS
<1>2. /\ toServer \in Seq(Message) /\ toServer # <<>> /\ toServer' = Tail(toServer)
      /\ toClient \in Seq(Message) /\ m \in Message
  BY <1>1, MsgsOfTail DEF Serve, IInv, TypeOK
<1>3. /\ Once(toServer', "response")
      /\ Back' = Back \ (IF m.kind = "response" THEN {m.id} ELSE {})
  BY <1>1, <1>2, OnceTaken DEF SingleInv, Back
<1>4. Busy' = Busy /\ used' = used
  BY DEF Serve, Busy, clientVars
<1>5. Once(toClient', "request") /\ Coming' = Coming
  <2>1. \/ toClient' = toClient
        \/ \E b \in {"ok", "error", "capability"} :
             \/ toClient' = Append(toClient, Msg("response", m.id, b))
             \/ toClient' = toClient \o <<Msg("note", 0, "thread/started"),
                                          Msg("response", m.id, b)>>
    <3>1. m.kind \in {"request", "response", "note"}
      BY <1>2 DEF Message
    <3>2. CASE m.kind # "request"
      BY <1>1, <3>1, <3>2 DEF Serve
    <3>3. CASE Accept(m) \/ Refuse(m)
      BY <3>3 DEF Accept, Refuse, Tell
    <3>4. QED
      BY <1>1, <3>2, <3>3 DEF Serve
  <2>2. CASE toClient' = toClient
    BY <2>2 DEF SingleInv, Coming
  <2>3. ASSUME NEW b \in {"ok", "error", "capability"}, NEW r, r = Msg("response", m.id, b),
               \/ toClient' = Append(toClient, r)
               \/ toClient' = toClient \o <<Msg("note", 0, "thread/started"), r>>
        PROVE  Once(toClient', "request") /\ Coming' = Coming
    <3>1. r \in Message /\ r.kind # "request"
      BY <1>2, <2>3 DEF Msg, Message
    <3>2. PICK n \in Message : n = Msg("note", 0, "thread/started") /\ n.kind # "request"
      <4>1. Msg("note", 0, "thread/started") \in Message /\ Msg("note", 0, "thread/started").kind # "request"
        BY DEF Msg, Message
      <4>2. QED
        BY <4>1
    <3>3. CASE toClient' = Append(toClient, r)
      BY <1>2, <3>1, <3>3, ToldNoRequest DEF SingleInv
    <3>4. CASE toClient' = toClient \o <<n, r>>
      <4>1. toClient' = Append(Append(toClient, n), r)
        BY <1>2, <3>1, <3>2, <3>4, TwoAppended
      <4>2. /\ Append(toClient, n) \in Seq(Message) /\ Once(Append(toClient, n), "request")
            /\ Ids(Append(toClient, n), "request") = Coming
        BY <1>2, <3>2, OtherAppended DEF SingleInv, Coming
      <4>3. QED
        BY <3>1, <4>1, <4>2, OtherAppended DEF Coming
    <3>5. QED
      BY <2>3, <3>2, <3>3, <3>4
  <2>4. QED
    BY <2>1, <2>2, <2>3
<1>6. QED
  BY <1>3, <1>4, <1>5 DEF SingleInv, Fresh, Trip

LEMMA SingleServer ==
  ASSUME IInv, SingleInv,
         \/ Attach \/ EndTurn \/ EndForeignTurn \/ Chatter
         \/ \E i \in ServerId : AskClient(i) \/ AskForeign(i) \/ Resolve(i)
  PROVE  SingleInv' /\ Fresh
<1>1. toClient \in Seq(Message) /\ Busy' = Busy /\ Back' = Back /\ toServer' = toServer
  BY DEF IInv, TypeOK, Attach, EndTurn, EndForeignTurn, Chatter, AskClient, AskForeign, Ask,
         Resolve, clientVars, Busy, Back
<1>2. ASSUME NEW b \in {"turn/completed", "delta", "serverRequest/resolved"},
             Tell(Msg("note", 0, b)), used' = used
      PROVE  SingleInv' /\ Fresh
  <2>1. PICK n \in Message : n = Msg("note", 0, b) /\ n.kind # "request"
    <3>1. Msg("note", 0, b) \in Message /\ Msg("note", 0, b).kind # "request"
      BY DEF Msg, Message
    <3>2. QED
      BY <3>1
  <2>2. Once(toClient', "request") /\ Coming' = Coming
    BY <1>1, <1>2, <2>1, ToldNoRequest DEF SingleInv, Tell
  <2>3. QED
    BY <1>1, <1>2, <2>2 DEF SingleInv, Fresh, Trip
<1>3. ASSUME NEW i \in ServerId, Ask(i) PROVE SingleInv' /\ Fresh
  <2>1. PICK n \in Message : n = Msg("request", i, "ask") /\ n.kind = "request" /\ n.id = i
    <3>1. Msg("request", i, "ask") \in Message /\ Msg("request", i, "ask").kind = "request" /\ Msg("request", i, "ask").id = i
      BY DEF Msg, Message
    <3>2. QED
      BY <3>1
  <2>2. i \notin used /\ used' = used \cup {i} /\ toClient' = Append(toClient, n)
    BY <1>3, <2>1 DEF Ask, Tell
  <2>3. i \notin Coming /\ i \notin Busy /\ i \notin Back
    BY <2>2 DEF SingleInv, Trip
  <2>4. Once(toClient', "request") /\ Coming' = Coming \cup {i}
    BY <1>1, <2>1, <2>2, <2>3, OnceAppended DEF SingleInv, Coming
  <2>5. QED
    BY <1>1, <2>2, <2>3, <2>4 DEF SingleInv, Fresh, Trip
<1>4. CASE Attach
  <2>1. toClient' = toClient /\ used' = used
    BY <1>4 DEF Attach
  <2>2. QED
    BY <1>1, <2>1 DEF SingleInv, Fresh, Trip, Coming
<1>5. CASE EndTurn \/ EndForeignTurn \/ Chatter \/ \E i \in ServerId : Resolve(i)
  BY <1>2, <1>5 DEF EndTurn, EndForeignTurn, Chatter, Resolve
<1>6. CASE \E i \in ServerId : AskClient(i) \/ AskForeign(i)
  BY <1>3, <1>6 DEF AskClient, AskForeign
<1>7. QED
  BY <1>4, <1>5, <1>6

LEMMA SingleEnd ==
  ASSUME IInv, SingleInv, TimedOut \/ Broken \/ UNCHANGED vars
  PROVE  SingleInv' /\ Fresh
<1>1. /\ toClient' = toClient /\ toServer' = toServer /\ used' = used
      /\ answering' \in {answering, Nothing}
  BY DEF TimedOut, Broken, vars, clientVars, serverVars
<1>2. Busy' \subseteq Busy /\ Coming' = Coming /\ Back' = Back
  BY <1>1 DEF Busy, Coming, Back, Nothing
<1>3. QED
  BY <1>1, <1>2 DEF SingleInv, Fresh, Trip

LEMMA SingleStep == IInv /\ SingleInv /\ [Next]_vars => SingleInv' /\ Fresh
<1> SUFFICES ASSUME IInv, SingleInv, [Next]_vars PROVE SingleInv' /\ Fresh
  OBVIOUS
<1>1. CASE Server
  BY <1>1, SingleServe, SingleServer DEF Server
<1>2. CASE Receive \/ ReceiveRpc \/ Answer
  BY <1>2, SingleReceive, SingleRpc, SingleAnswer
<1>3. CASE TimedOut \/ Broken \/ UNCHANGED vars
  BY <1>3, SingleEnd
<1>4. QED
  BY <1>1, <1>2, <1>3 DEF Next

\* No request of the server has two answers: while one is on its way there is no
\* other, and the request is neither still to be read nor still with the operator.
AnsweredOnce ==
  /\ Once(toServer, "response")
  /\ Back \cap (Coming \cup Busy) = {}

\* A request that was answered, or that a one-shot call overheard or took for its
\* response, never comes up again.
DoneWith == [][Fresh]_vars

\* Each request of the server is answered at most once, although a message read
\* while the client waits for a response passes both through the loop that waits
\* and through process_message (:1387-1394, :1330-1379).  With NoRequestLost, the
\* server is owed one answer and can get only one.
THEOREM AnsweredAtMostOnce == Spec => []AnsweredOnce /\ DoneWith
<1>1. Init => SingleInv
  <2> SUFFICES ASSUME Init PROVE SingleInv
    OBVIOUS
  <2>1. PICK r \in Message : r = Msg("request", 1, "initialize") /\ r.kind = "request"
    <3>1. Msg("request", 1, "initialize") \in Message /\ Msg("request", 1, "initialize").kind = "request"
      BY DEF Msg, Message
    <3>2. QED
      BY <3>1
  <2>2. Len(toServer) = 1 /\ toServer[1] = r /\ Len(toClient) = 0
    BY <2>1 DEF Init
  <2>3. Once(toClient, "request") /\ Coming = {}
    BY <2>2 DEF Once, Ids, Coming
  <2>4. Once(toServer, "response") /\ Back = {}
    BY <2>1, <2>2 DEF Once, Ids, Back
  <2>5. Busy = {}
    BY DEF Init, Nothing, Busy
  <2>6. QED
    BY <2>3, <2>4, <2>5 DEF SingleInv, Trip
<1>2. SingleInv => AnsweredOnce
  BY DEF SingleInv, AnsweredOnce
<1>3. QED
  BY <1>1, <1>2, SingleStep, Invariant, PTL DEF Spec, DoneWith
================================================================================
