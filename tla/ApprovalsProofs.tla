---------------------------- MODULE ApprovalsProofs ----------------------------
(***************************************************************************)
(* Theorems about Approvals, for any number of requests, policy keys and   *)
(* posts.                                                                  *)
(*                                                                         *)
(* Authority is inductive only with what connects a sent decision to the   *)
(* post it came from: a decision is parked under a request that was shown  *)
(* (HandlerInv, DecisionsInv), the worker takes it for the request it      *)
(* handles (TakenInv), and a policy stems from an acknowledged decision    *)
(* (PolicyInv).  What a handler can see of the request being handled is    *)
(* fixed by the worker's place (ShownInv).  The same invariant carries the *)
(* refinement of ApprovalContract; the status has one of its own.          *)
(***************************************************************************)
EXTENDS Approvals, TLAPS

\* The worker has a request between announcing and answering it, and only then.
CurInv ==
  /\ cur = NoRequest <=> pc \in {"recv", "ended"}
  /\ cur # NoRequest => wire[cur] = Unsent

\* What of it is published.
ShownInv ==
  /\ required <=> pc \in {"set_request", "set_status", "poll", "clear_flag"}
  /\ request = IF pc \in {"set_status", "poll", "clear_flag", "clear_request"}
                 THEN cur ELSE NoRequest
  /\ status \in Terminal => pc = "ended"

\* The decision the worker popped was acknowledged for the request it handles.
TakenInv ==
  pc \in {"clear_flag", "clear_request", "resume"} => taken \in acked[cur]

Shown(r) == r = cur \/ wire[r] # Unsent

DecisionsInv ==
  \A r \in DOMAIN decisions : Shown(r) /\ decisions[r] \in acked[r]

HandlerInv ==
  /\ hpc \in {"guarded", "matched"} => post \in Post
  /\ hpc = "matched" => Shown(post.target)

\* A policy is left by a request that an operator let proceed for the session.
PolicyInv ==
  \A k \in policies :
    \E s \in Request : /\ PolicyKey(s) = k
                       /\ "approve_all_similar" \in acked[s]
                       /\ wire[s] \in Accepting

IInv ==
  /\ TypeOK
  /\ CurInv
  /\ ShownInv
  /\ TakenInv
  /\ DecisionsInv
  /\ HandlerInv
  /\ PolicyInv
  /\ Authority

-----------------------------------------------------------------------------
(* What the helpers return.                                                *)

\* map_approval_decision accepts for an approval and for nothing else.
LEMMA MapMeaning ==
  ASSUME NEW d \in Decision, NEW r \in Request
  PROVE  /\ MapApprovalDecision(d, r) \in Wire
         /\ MapApprovalDecision(d, r) # Unsent
         /\ MapApprovalDecision(d, r) \in Accepting =>
              d \in {"approve_once", "approve_all_similar"}
         /\ MapApprovalDecision(d, r) = "decline" => d \in {"deny", "guidance"}
BY DEF MapApprovalDecision, Wire, Accepting, Unsent, Decision

\* A post names a request and a decision.
LEMMA PostFields ==
  ASSUME NEW p \in Post
  PROVE  p.target \in Request /\ p.decision \in Decision
BY OfferedAssumption DEF Post


-----------------------------------------------------------------------------
(* Each action preserves the invariant.                                    *)

LEMMA InitInv == Init => IInv
<1> SUFFICES ASSUME Init PROVE IInv
  OBVIOUS
<1>1. TypeOK
  <2>1. decisions \in [{} -> Decision] /\ {} \in SUBSET Request
    BY DEF Init
  <2>2. \E answered \in SUBSET Request : decisions \in [answered -> Decision]
    BY <2>1
  <2>3. QED
    BY <2>2 DEF Init, TypeOK, Wire, Unsent, Idle, Decision
<1>2. CurInv /\ ShownInv /\ TakenInv /\ DecisionsInv /\ HandlerInv /\ PolicyInv
  BY DEF Init, CurInv, ShownInv, TakenInv, DecisionsInv, HandlerInv, PolicyInv,
         Terminal, Idle
<1>3. Authority
  BY DEF Init, Authority, Accepting, Unsent
<1>4. QED
  BY <1>1, <1>2, <1>3 DEF IInv

\* A policy stands for a decision an operator made for a similar request.
LEMMA AutoApplyInv ==
  ASSUME NEW r \in Request
  PROVE  IInv /\ AutoApply(r) => IInv'
<1> SUFFICES ASSUME IInv, AutoApply(r) PROVE IInv'
  OBVIOUS
<1>1. /\ TypeOK /\ CurInv /\ ShownInv /\ TakenInv
      /\ DecisionsInv /\ HandlerInv /\ PolicyInv /\ Authority
  BY DEF IInv
<1>2. /\ pc = "recv" /\ PolicyKey(r) \in policies
      /\ wire' = [wire EXCEPT ![r] = MapApprovalDecision("approve_all_similar", r)]
      /\ UNCHANGED <<pc, cur, taken, policies, decisions>>
      /\ UNCHANGED jobVars /\ UNCHANGED handlerVars
  BY DEF AutoApply
<1>3. /\ MapApprovalDecision("approve_all_similar", r) \in Accepting
      /\ MapApprovalDecision("approve_all_similar", r) \in Wire
      /\ MapApprovalDecision("approve_all_similar", r) # Unsent
      /\ MapApprovalDecision("approve_all_similar", r) # "decline"
  BY DEF MapApprovalDecision, Accepting, Wire, Unsent
<1>4. wire \in [Request -> Wire \cup {Unsent}]
  BY <1>1 DEF TypeOK
<1>5. TypeOK'
  BY <1>1, <1>2, <1>3, <1>4 DEF TypeOK, jobVars, handlerVars
<1>6. \A q \in Request : wire[q] # Unsent => wire'[q] # Unsent
  BY <1>2, <1>3, <1>4
<1>7. CurInv'
  BY <1>1, <1>2 DEF CurInv
<1>8. ShownInv' /\ TakenInv' /\ PolicyInv'
  <2>1. \A q \in Request : wire[q] \in Accepting => wire'[q] \in Accepting
    BY <1>2, <1>3, <1>4
  <2>2. QED
    BY <2>1, <1>1, <1>2 DEF ShownInv, TakenInv, PolicyInv, jobVars, handlerVars
<1>9. DecisionsInv'
  <2>1. DOMAIN decisions \subseteq Request
    BY <1>1 DEF TypeOK
  <2>2. QED
    BY <2>1, <1>1, <1>2, <1>6 DEF DecisionsInv, Shown, handlerVars
<1>10. HandlerInv'
  BY <1>1, <1>2, <1>6, PostFields DEF HandlerInv, Shown, handlerVars
<1>11. Authority'
  <2> SUFFICES ASSUME NEW q \in Request
               PROVE  /\ wire'[q] \in Accepting =>
                           \/ Says(q, {"approve_once", "approve_all_similar"})'
                           \/ \E s \in Request : /\ PolicyKey(s) = PolicyKey(q)
                                                 /\ Says(s, {"approve_all_similar"})'
                      /\ wire'[q] = "decline" => Says(q, {"deny", "guidance"})'
    BY DEF Authority
  <2>1. UNCHANGED acked
    BY <1>2 DEF handlerVars
  <2>2. CASE q = r
    <3>1. PICK s \in Request :
            PolicyKey(s) = PolicyKey(r) /\ "approve_all_similar" \in acked[s]
      BY <1>1, <1>2 DEF PolicyInv
    <3>2. Says(s, {"approve_all_similar"})'
      BY <3>1, <2>1 DEF Says
    <3>3. wire'[q] # "decline"
      BY <2>2, <1>2, <1>3, <1>4
    <3>4. QED
      BY <3>1, <3>2, <3>3, <2>2
  <2>3. CASE q # r
    <3>1. wire'[q] = wire[q]
      BY <2>3, <1>2, <1>4
    <3>2. QED
      BY <3>1, <2>1, <1>1 DEF Authority, Says
  <2>4. QED
    BY <2>2, <2>3
<1>12. QED
  BY <1>5, <1>7, <1>8, <1>9, <1>10, <1>11 DEF IInv

LEMMA AnnounceInv ==
  ASSUME NEW r \in Request
  PROVE  IInv /\ Announce(r) => IInv'
<1> SUFFICES ASSUME IInv, Announce(r) PROVE IInv'
  OBVIOUS
<1>1. /\ TypeOK /\ CurInv /\ ShownInv /\ TakenInv
      /\ DecisionsInv /\ HandlerInv /\ PolicyInv /\ Authority
  BY DEF IInv
<1>2. /\ pc = "recv" /\ wire[r] = Unsent
      /\ required' = TRUE /\ cur' = r /\ pc' = "set_request"
      /\ UNCHANGED <<taken, policies, wire, request, status, decisions>>
      /\ UNCHANGED handlerVars
  BY DEF Announce
<1>3. cur = NoRequest /\ NoRequest \notin Request
  BY <1>1, <1>2, RequestAssumption DEF CurInv
<1>4. \A q \in Request : Shown(q) => Shown(q)'
  BY <1>2, <1>3 DEF Shown
<1>5. TypeOK'
  BY <1>1, <1>2 DEF TypeOK, handlerVars
<1>6. CurInv' /\ ShownInv' /\ TakenInv' /\ PolicyInv'
  BY <1>1, <1>2, <1>3 DEF CurInv, ShownInv, TakenInv, PolicyInv, Terminal, handlerVars
<1>7. DecisionsInv'
  <2>1. DOMAIN decisions \subseteq Request
    BY <1>1 DEF TypeOK
  <2>2. QED
    BY <2>1, <1>1, <1>2, <1>4 DEF DecisionsInv, handlerVars
<1>8. HandlerInv'
  BY <1>1, <1>2, <1>4, PostFields DEF HandlerInv, Shown, handlerVars
<1>9. Authority'
  BY <1>1, <1>2 DEF Authority, Says, handlerVars
<1>10. QED
  BY <1>5, <1>6, <1>7, <1>8, <1>9 DEF IInv

\* The steps that only publish or withdraw the request.
LEMMA PublishInv == IInv /\ (SetRequest \/ SetWaiting \/ ClearFlag \/ ClearRequest) => IInv'
<1> SUFFICES ASSUME IInv, SetRequest \/ SetWaiting \/ ClearFlag \/ ClearRequest
             PROVE  IInv'
  OBVIOUS
<1>1. /\ TypeOK /\ CurInv /\ ShownInv /\ TakenInv
      /\ DecisionsInv /\ HandlerInv /\ PolicyInv /\ Authority
  BY DEF IInv
<1>2. /\ UNCHANGED <<cur, taken, policies, wire, decisions>>
      /\ UNCHANGED handlerVars
      /\ \/ pc = "set_request" /\ pc' = "set_status"
         \/ pc = "set_status" /\ pc' = "poll"
         \/ pc = "clear_flag" /\ pc' = "clear_request"
         \/ pc = "clear_request" /\ pc' = "resume"
  BY DEF SetRequest, SetWaiting, ClearFlag, ClearRequest
<1>3. TypeOK'
  <2>1. required' \in BOOLEAN
    BY <1>1 DEF TypeOK, SetRequest, SetWaiting, ClearFlag, ClearRequest
  <2>2. request' \in Request \cup {NoRequest}
    BY <1>1 DEF TypeOK, SetRequest, SetWaiting, ClearFlag, ClearRequest
  <2>3. status' \in {"running", "waiting_approval"} \cup Terminal
    BY <1>1 DEF TypeOK, SetRequest, SetWaiting, ClearFlag, ClearRequest
  <2>4. QED
    BY <2>1, <2>2, <2>3, <1>1, <1>2 DEF TypeOK, handlerVars
<1>4. ShownInv'
  BY <1>1 DEF ShownInv, SetRequest, SetWaiting, ClearFlag, ClearRequest, Terminal
<1>5. CurInv' /\ TakenInv' /\ DecisionsInv' /\ HandlerInv' /\ PolicyInv' /\ Authority'
  BY <1>1, <1>2 DEF CurInv, TakenInv, DecisionsInv, HandlerInv, PolicyInv, Authority,
                    Shown, Says, handlerVars
<1>6. QED
  BY <1>3, <1>4, <1>5 DEF IInv

LEMMA PopDecisionInv == IInv /\ PopDecision => IInv'
<1> SUFFICES ASSUME IInv, PopDecision PROVE IInv'
  OBVIOUS
<1>1. /\ TypeOK /\ CurInv /\ ShownInv /\ TakenInv
      /\ DecisionsInv /\ HandlerInv /\ PolicyInv /\ Authority
  BY DEF IInv
<1>2. /\ pc = "poll" /\ pc' = "clear_flag"
      /\ cur \in DOMAIN decisions
      /\ taken' = decisions[cur]
      /\ decisions' = [r \in DOMAIN decisions \ {cur} |-> decisions[r]]
      /\ UNCHANGED <<cur, policies, wire>>
      /\ UNCHANGED jobVars /\ UNCHANGED handlerVars
  BY DEF PopDecision
<1>3. PICK answered \in SUBSET Request : decisions \in [answered -> Decision]
  BY <1>1 DEF TypeOK
<1>4. /\ taken' \in Decision
      /\ answered \ {cur} \in SUBSET Request
      /\ decisions' \in [answered \ {cur} -> Decision]
  BY <1>2, <1>3
<1>5. TypeOK'
  <2>1. \E a \in SUBSET Request : decisions' \in [a -> Decision]
    BY <1>4
  <2>2. QED
    BY <2>1, <1>1, <1>2, <1>4 DEF TypeOK, jobVars, handlerVars
<1>6. TakenInv' /\ DecisionsInv'
  BY <1>1, <1>2 DEF TakenInv, DecisionsInv, Shown, handlerVars
<1>7. CurInv' /\ ShownInv' /\ HandlerInv' /\ PolicyInv' /\ Authority'
  BY <1>1, <1>2 DEF CurInv, ShownInv, HandlerInv, PolicyInv, Authority, Shown, Says,
                    jobVars, handlerVars, Terminal
<1>8. QED
  BY <1>5, <1>6, <1>7 DEF IInv

\* The decision sent is the mapped one of a post acknowledged for this request.
LEMMA ResumeInv == IInv /\ Resume => IInv'
<1> SUFFICES ASSUME IInv, Resume PROVE IInv'
  OBVIOUS
<1>1. /\ TypeOK /\ CurInv /\ ShownInv /\ TakenInv
      /\ DecisionsInv /\ HandlerInv /\ PolicyInv /\ Authority
  BY DEF IInv
<1>2. /\ pc = "resume" /\ pc' = "recv" /\ cur' = NoRequest /\ taken' = Unsent
      /\ status' = "running"
      /\ policies' = IF taken = "approve_all_similar"
                       THEN policies \cup {PolicyKey(cur)} ELSE policies
      /\ wire' = [wire EXCEPT ![cur] = MapApprovalDecision(taken, cur)]
      /\ UNCHANGED <<required, request, decisions>>
      /\ UNCHANGED handlerVars
  BY DEF Resume
<1>3. cur \in Request /\ taken \in acked[cur] /\ taken \in Decision
  <2>1. cur \in Request
    BY <1>1, <1>2 DEF TypeOK, CurInv
  <2>2. QED
    BY <2>1, <1>1, <1>2 DEF TypeOK, TakenInv
<1>4. wire \in [Request -> Wire \cup {Unsent}]
  BY <1>1 DEF TypeOK
<1>5. /\ wire'[cur] = MapApprovalDecision(taken, cur)
      /\ wire'[cur] \in Wire /\ wire'[cur] # Unsent
      /\ \A q \in Request \ {cur} : wire'[q] = wire[q]
      /\ wire' \in [Request -> Wire \cup {Unsent}]
  BY <1>2, <1>3, <1>4, MapMeaning
<1>6. \A q \in Request : Shown(q) => wire'[q] # Unsent
  BY <1>5 DEF Shown
<1>7. TypeOK'
  <2>1. policies' \subseteq {PolicyKey(r) : r \in Request}
    BY <1>1, <1>2, <1>3 DEF TypeOK
  <2>2. QED
    BY <2>1, <1>1, <1>2, <1>5 DEF TypeOK, handlerVars
<1>8. CurInv' /\ ShownInv' /\ TakenInv'
  BY <1>1, <1>2 DEF CurInv, ShownInv, TakenInv, Terminal
<1>9. DecisionsInv'
  <2>1. DOMAIN decisions \subseteq Request
    BY <1>1 DEF TypeOK
  <2>2. QED
    BY <2>1, <1>1, <1>2, <1>6 DEF DecisionsInv, Shown, handlerVars
<1>10. HandlerInv'
  BY <1>1, <1>2, <1>6, PostFields DEF HandlerInv, Shown, handlerVars
<1>11. PolicyInv'
  <2>1. \A q \in Request : wire[q] \in Accepting => wire'[q] \in Accepting
    <3>1. wire[cur] = Unsent /\ Unsent \notin Accepting
      BY <1>1, <1>3, RequestAssumption DEF CurInv, Unsent, Accepting
    <3>2. QED
      BY <3>1, <1>5
  <2>2. taken = "approve_all_similar" => wire'[cur] \in Accepting
    BY <1>5 DEF MapApprovalDecision, Accepting
  <2>3. QED
    BY <2>1, <2>2, <1>1, <1>2, <1>3 DEF PolicyInv, handlerVars
<1>12. Authority'
  <2> SUFFICES ASSUME NEW q \in Request
               PROVE  /\ wire'[q] \in Accepting =>
                           \/ Says(q, {"approve_once", "approve_all_similar"})'
                           \/ \E s \in Request : /\ PolicyKey(s) = PolicyKey(q)
                                                 /\ Says(s, {"approve_all_similar"})'
                      /\ wire'[q] = "decline" => Says(q, {"deny", "guidance"})'
    BY DEF Authority
  <2>1. UNCHANGED acked
    BY <1>2 DEF handlerVars
  <2>2. CASE q = cur
    <3>1. \A ds : taken \in ds => Says(q, ds)'
      BY <2>1, <2>2, <1>3 DEF Says
    <3>2. QED
      BY <3>1, <2>2, <1>3, <1>5, MapMeaning
  <2>3. CASE q # cur
    <3>1. wire'[q] = wire[q]
      BY <2>3, <1>5
    <3>2. QED
      BY <3>1, <2>1, <1>1 DEF Authority, Says
  <2>4. QED
    BY <2>2, <2>3
<1>13. QED
  BY <1>7, <1>8, <1>9, <1>10, <1>11, <1>12 DEF IInv

LEMMA FinishInv == IInv /\ Finish => IInv'
<1> SUFFICES ASSUME IInv, Finish PROVE IInv'
  OBVIOUS
<1>1. /\ TypeOK /\ CurInv /\ ShownInv /\ TakenInv
      /\ DecisionsInv /\ HandlerInv /\ PolicyInv /\ Authority
  BY DEF IInv
<1>2. /\ pc = "recv" /\ pc' = "ended" /\ status' \in Terminal
      /\ UNCHANGED <<cur, taken, policies, wire, required, request, decisions>>
      /\ UNCHANGED handlerVars
  BY DEF Finish
<1>3. TypeOK'
  BY <1>1, <1>2 DEF TypeOK, handlerVars
<1>4. CurInv' /\ ShownInv' /\ TakenInv'
  BY <1>1, <1>2 DEF CurInv, ShownInv, TakenInv
<1>5. DecisionsInv' /\ HandlerInv' /\ PolicyInv' /\ Authority'
  BY <1>1, <1>2 DEF DecisionsInv, HandlerInv, PolicyInv, Authority, Shown, Says, handlerVars
<1>6. QED
  BY <1>3, <1>4, <1>5 DEF IInv

\* The steps of the handler before its write.  A post that matched names the
\* request being handled, since ids are unique.
LEMMA ReadInv == IInv /\ (Refuse \/ (\E p \in Post : Begin(p)) \/ Fetch) => IInv'
<1> SUFFICES ASSUME IInv, Refuse \/ (\E p \in Post : Begin(p)) \/ Fetch
             PROVE  IInv'
  OBVIOUS
<1>1. /\ TypeOK /\ CurInv /\ ShownInv /\ TakenInv
      /\ DecisionsInv /\ HandlerInv /\ PolicyInv /\ Authority
  BY DEF IInv
<1>2. UNCHANGED <<acked, decisions>> /\ UNCHANGED workerVars /\ UNCHANGED jobVars
  BY DEF Refuse, Begin, Fetch
<1>3. /\ hpc' \in {Idle, "guarded", "matched", "raised"}
      /\ post' \in Post \cup {NoRequest}
      /\ HandlerInv'
  <2>1. CASE Refuse
    BY <2>1 DEF Refuse, Return, HandlerInv, Idle
  <2>2. CASE \E p \in Post : Begin(p)
    BY <2>2 DEF Begin, HandlerInv, Idle
  <2>3. CASE Fetch
    <3>1. CASE Return("raised") \/ Return(Idle)
      BY <3>1 DEF Return, HandlerInv, Idle
    <3>2. CASE /\ request # NoRequest /\ request.id = post.target.id
               /\ hpc' = "matched" /\ UNCHANGED post
      <4>1. post \in Post /\ post.target \in Request
        BY <2>3, <1>1, PostFields DEF Fetch, HandlerInv
      <4>2. request \in Request /\ request = cur
        BY <3>2, <1>1 DEF TypeOK, ShownInv
      <4>3. post.target = cur
        BY <4>1, <4>2, <3>2, RequestAssumption
      <4>4. QED
        BY <4>1, <4>3, <3>2, <1>2 DEF HandlerInv, Shown, workerVars
    <3>3. QED
      BY <2>3, <3>1, <3>2 DEF Fetch
  <2>4. QED
    BY <2>1, <2>2, <2>3
<1>4. TypeOK'
  BY <1>1, <1>2, <1>3 DEF TypeOK, workerVars, jobVars
<1>5. CurInv' /\ ShownInv' /\ TakenInv' /\ DecisionsInv' /\ PolicyInv' /\ Authority'
  BY <1>1, <1>2 DEF CurInv, ShownInv, TakenInv, DecisionsInv, PolicyInv, Authority,
                    Shown, Says, workerVars, jobVars, Terminal
<1>6. QED
  BY <1>3, <1>4, <1>5 DEF IInv

\* The write parks the decision under a request that was shown, and acknowledges
\* it.
LEMMA StoreInv == IInv /\ Store => IInv'
<1> SUFFICES ASSUME IInv, Store PROVE IInv'
  OBVIOUS
<1>1. /\ TypeOK /\ CurInv /\ ShownInv /\ TakenInv
      /\ DecisionsInv /\ HandlerInv /\ PolicyInv /\ Authority
  BY DEF IInv
<1> DEFINE t == post.target
           d == post.decision
<1>2. /\ decisions' = [r \in DOMAIN decisions \cup {t} |->
                         IF r = t THEN d ELSE decisions[r]]
      /\ acked' = [acked EXCEPT ![t] = @ \cup {d}]
      /\ hpc' = Idle /\ post' = NoRequest
      /\ UNCHANGED workerVars /\ UNCHANGED jobVars
  BY DEF Store, Return
<1>3. t \in Request /\ d \in Decision /\ Shown(t)
  BY <1>1, PostFields DEF Store, HandlerInv
<1> HIDE DEF t, d
<1>4. PICK answered \in SUBSET Request : decisions \in [answered -> Decision]
  BY <1>1 DEF TypeOK
<1>5. acked \in [Request -> SUBSET Decision]
  BY <1>1 DEF TypeOK
<1>6. /\ acked' \in [Request -> SUBSET Decision]
      /\ d \in acked'[t]
      /\ \A q \in Request : acked[q] \subseteq acked'[q]
  BY <1>2, <1>3, <1>5
<1>7. TypeOK'
  <2>1. /\ answered \cup {t} \in SUBSET Request
        /\ decisions' \in [answered \cup {t} -> Decision]
    BY <1>2, <1>3, <1>4
  <2>2. \E a \in SUBSET Request : decisions' \in [a -> Decision]
    BY <2>1
  <2>3. QED
    BY <2>2, <1>1, <1>2, <1>6 DEF TypeOK, workerVars, jobVars
<1>8. CurInv' /\ ShownInv' /\ HandlerInv'
  BY <1>1, <1>2 DEF CurInv, ShownInv, HandlerInv, workerVars, jobVars, Terminal, Idle
<1>9. TakenInv'
  <2>1. pc \in {"clear_flag", "clear_request", "resume"} => cur \in Request
    BY <1>1 DEF TypeOK, CurInv
  <2>2. QED
    BY <2>1, <1>1, <1>2, <1>6 DEF TakenInv, workerVars
<1>10. DecisionsInv'
  <2> SUFFICES ASSUME NEW r \in DOMAIN decisions'
               PROVE  Shown(r)' /\ decisions'[r] \in acked'[r]
    BY DEF DecisionsInv
  <2>1. \A q : Shown(q) => Shown(q)'
    BY <1>2 DEF Shown, workerVars
  <2>2. CASE r = t
    BY <2>1, <2>2, <1>2, <1>3, <1>6
  <2>3. CASE r # t
    <3>1. r \in DOMAIN decisions /\ decisions'[r] = decisions[r] /\ r \in Request
      BY <2>3, <1>2, <1>4
    <3>2. QED
      BY <3>1, <2>1, <1>1, <1>6 DEF DecisionsInv
  <2>4. QED
    BY <2>2, <2>3
<1>11. PolicyInv'
  BY <1>1, <1>2, <1>6 DEF PolicyInv, workerVars
<1>12. Authority'
  <2>1. \A q \in Request : \A ds : Says(q, ds) => Says(q, ds)'
    BY <1>6 DEF Says
  <2>2. QED
    BY <2>1, <1>1, <1>2 DEF Authority, workerVars
<1>13. QED
  BY <1>7, <1>8, <1>9, <1>10, <1>11, <1>12 DEF IInv

LEMMA StepInv == IInv /\ [Next]_vars => IInv'
<1> SUFFICES ASSUME IInv, [Next]_vars PROVE IInv'
  OBVIOUS
<1>1. CASE \E r \in Request : AutoApply(r) \/ Announce(r)
  BY <1>1, AutoApplyInv, AnnounceInv
<1>2. CASE Handshake
  BY <1>2, PublishInv, PopDecisionInv, ResumeInv DEF Handshake
<1>3. CASE Finish
  BY <1>3, FinishInv
<1>4. CASE Handler
  BY <1>4, ReadInv, StoreInv DEF Handler
<1>5. CASE UNCHANGED vars
  BY <1>5 DEF vars, workerVars, handlerVars, jobVars, IInv, TypeOK, CurInv, ShownInv,
              TakenInv, DecisionsInv, HandlerInv, PolicyInv, Authority, Shown, Says
<1>6. QED
  BY <1>1, <1>2, <1>3, <1>4, <1>5 DEF Next, Worker

\* The invariant holds in every reachable state.
LEMMA Invariant == Spec => []IInv
BY InitInv, StepInv, PTL DEF Spec

-----------------------------------------------------------------------------

\* Every key of the job keeps its type.
THEOREM TypeCorrect == Spec => []TypeOK
BY Invariant, PTL DEF IInv

\* However many requests there are and whoever posts what, the app-server is told
\* only what an operator said of the request, or said for the session of one with
\* the same policy key (_on_server_request, codex_gateway.py:2456-2564).
THEOREM OnlyAuthorized == Spec => []Authority
BY Invariant, PTL DEF IInv

\* A decision that came too late is never applied to a request that was not shown
\* yet (post_codex_job_approval, :2683).
THEOREM NeverPreApproved == Spec => []NoPreApproval
<1>1. IInv => NoPreApproval
  BY DEF IInv, DecisionsInv, Shown, NoPreApproval
<1>2. QED
  BY <1>1, Invariant, PTL

\* The view of an ended job carries no approval_request.
THEOREM EndedAsksNothing == Spec => []TerminalNotAsking
<1>1. IInv => TerminalNotAsking
  BY DEF IInv, ShownInv, TerminalNotAsking
<1>2. QED
  BY <1>1, Invariant, PTL

-----------------------------------------------------------------------------
(* The handshake implements ApprovalContract, step by step.                *)

told == [r \in Request |-> Verdict(wire[r])]

\* A decision sent is a verdict, and an approval is the one that proceeds.
LEMMA VerdictMeaning ==
  ASSUME NEW d \in Decision, NEW r \in Request
  PROVE  /\ d \in Contract!Allow \cup Contract!Refuse
         /\ d \in Contract!Allow => Verdict(MapApprovalDecision(d, r)) = "proceed"
         /\ d \in Contract!Refuse => Verdict(MapApprovalDecision(d, r)) = "decline"
BY DEF Decision, Contract!Allow, Contract!Refuse, Verdict, MapApprovalDecision,
       Accepting, Unsent

LEMMA VerdictCases ==
  ASSUME NEW w \in Wire \cup {Unsent}
  PROVE  /\ Verdict(w) = "pending" <=> w = Unsent
         /\ Verdict(w) = "proceed" <=> w \in Accepting
BY DEF Verdict, Wire, Accepting, Unsent

\* A step that neither asks, acknowledges nor sends changes nothing the contract
\* speaks of.
LEMMA ContractStutter ==
  ASSUME UNCHANGED <<cur, acked, wire>>
  PROVE  UNCHANGED Contract!vars
BY DEF Contract!vars

LEMMA AutoApplyContract ==
  ASSUME NEW r \in Request, IInv, AutoApply(r)
  PROVE  Contract!ProceedAsBefore(r)
<1>1. /\ wire \in [Request -> Wire \cup {Unsent}]
      /\ cur = NoRequest
  BY DEF IInv, TypeOK, CurInv, AutoApply
<1>2. /\ wire[r] = Unsent /\ PolicyKey(r) \in policies
      /\ wire' = [wire EXCEPT ![r] = MapApprovalDecision("approve_all_similar", r)]
      /\ UNCHANGED <<cur, acked>>
  BY DEF AutoApply, handlerVars
<1>3. PICK s \in Request : /\ PolicyKey(s) = PolicyKey(r)
                           /\ "approve_all_similar" \in acked[s]
                           /\ wire[s] \in Accepting
  BY <1>2 DEF IInv, PolicyInv
<1>4. told[r] = "pending" /\ told[s] = "proceed"
  BY <1>1, <1>2, <1>3, VerdictCases DEF told
<1>5. told' = [told EXCEPT ![r] = "proceed"]
  <2>1. Verdict(MapApprovalDecision("approve_all_similar", r)) = "proceed"
    BY VerdictMeaning DEF Decision, Contract!Allow
  <2>2. \A q \in Request : told'[q] = [told EXCEPT ![r] = "proceed"][q]
    BY <2>1, <1>1, <1>2 DEF told
  <2>3. QED
    BY <2>2 DEF told
<1>6. QED
  BY <1>1, <1>2, <1>3, <1>4, <1>5 DEF Contract!ProceedAsBefore, told

LEMMA AnnounceContract ==
  ASSUME NEW r \in Request, IInv, Announce(r)
  PROVE  Contract!Ask(r)
<1>1. /\ wire \in [Request -> Wire \cup {Unsent}] /\ cur = NoRequest
      /\ wire[r] = Unsent /\ cur' = r
      /\ UNCHANGED <<wire, acked>>
  BY DEF IInv, TypeOK, CurInv, Announce, handlerVars
<1>2. told[r] = "pending" /\ UNCHANGED told
  BY <1>1, VerdictCases DEF told
<1>3. QED
  BY <1>1, <1>2 DEF Contract!Ask, told

LEMMA ResumeContract ==
  ASSUME IInv, Resume
  PROVE  \E r \in Request, verdict \in {"proceed", "decline"} : Contract!Answer(r, verdict)
<1>1. /\ wire \in [Request -> Wire \cup {Unsent}]
      /\ wire' = [wire EXCEPT ![cur] = MapApprovalDecision(taken, cur)]
      /\ cur' = NoRequest /\ UNCHANGED acked
      /\ cur \in Request /\ wire[cur] = Unsent
      /\ taken \in acked[cur] /\ taken \in Decision
  <2>1. pc = "resume" /\ cur \in Request
    BY DEF IInv, TypeOK, CurInv, Resume
  <2>2. wire[cur] = Unsent
    BY <2>1, RequestAssumption DEF IInv, CurInv
  <2>3. taken \in acked[cur] /\ acked[cur] \subseteq Decision
    BY <2>1 DEF IInv, TypeOK, TakenInv
  <2>4. QED
    BY <2>1, <2>2, <2>3 DEF IInv, TypeOK, Resume, handlerVars
<1>2. PICK r \in Request : r = cur
  BY <1>1
<1>3. PICK d \in Decision : d = taken
  BY <1>1
<1> DEFINE v == Verdict(MapApprovalDecision(d, r))
<1>4. /\ v \in {"proceed", "decline"}
      /\ \/ v = "proceed" /\ acked[r] \cap Contract!Allow # {}
         \/ v = "decline" /\ acked[r] \cap Contract!Refuse # {}
  BY <1>1, <1>2, <1>3, VerdictMeaning
<1>5. told[r] = "pending"
  BY <1>1, <1>2, VerdictCases DEF told
<1>6. told' = [told EXCEPT ![r] = v]
  <2>1. \A q \in Request : told'[q] = [told EXCEPT ![r] = v][q]
    BY <1>1, <1>2, <1>3 DEF told
  <2>2. QED
    BY <2>1 DEF told
<1> HIDE DEF v
<1>7. Contract!Answer(r, v)
  BY <1>1, <1>2, <1>4, <1>5, <1>6 DEF Contract!Answer, told
<1>8. QED
  BY <1>4, <1>7

LEMMA StoreContract ==
  ASSUME IInv, Store
  PROVE  \E r \in Request, d \in Contract!Decision : Contract!Acknowledge(r, d)
<1>1. /\ post.target \in Request /\ post.decision \in Decision
      /\ Shown(post.target)
      /\ acked' = [acked EXCEPT ![post.target] = @ \cup {post.decision}]
      /\ UNCHANGED <<cur, wire>>
  BY PostFields DEF IInv, HandlerInv, Store, workerVars
<1>2. PICK r \in Request : r = post.target
  BY <1>1
<1>3. PICK d \in Decision : d = post.decision
  BY <1>1
<1>4. r = cur \/ told[r] # "pending"
  BY <1>1, <1>2, VerdictCases DEF IInv, TypeOK, Shown, told
<1>5. UNCHANGED told
  BY <1>1 DEF told
<1>6. Contract!Acknowledge(r, d)
  BY <1>1, <1>2, <1>3, <1>4, <1>5 DEF Contract!Acknowledge, told
<1>7. d \in Contract!Decision
  BY VerdictMeaning DEF Contract!Decision
<1>8. QED
  BY <1>6, <1>7

\* The two threads, the flag and the parked decisions implement the promise made to
\* the operator: one request at a time, one answer each, and never more than he
\* allowed (_on_server_request, codex_gateway.py:2456-2564;
\* post_codex_job_approval, :2663-2699).
THEOREM Refinement == Spec => ImplementsContract
<1>1. Init => Contract!Init
  <2> SUFFICES ASSUME Init PROVE Contract!Init
    OBVIOUS
  <2>1. \A r \in Request : Verdict(wire[r]) = "pending"
    BY DEF Init, Verdict
  <2>2. QED
    BY <2>1 DEF Init, Contract!Init
<1>2. IInv /\ [Next]_vars => [Contract!Next]_(Contract!vars)
  <2> SUFFICES ASSUME IInv, [Next]_vars
               PROVE  Contract!Next \/ UNCHANGED Contract!vars
    OBVIOUS
  <2>1. ASSUME NEW r \in Request, AutoApply(r) \/ Announce(r)
        PROVE  Contract!Next
    BY <2>1, AutoApplyContract, AnnounceContract DEF Contract!Next
  <2>2. CASE Resume
    BY <2>2, ResumeContract DEF Contract!Next
  <2>3. CASE Store
    BY <2>3, StoreContract DEF Contract!Next
  <2>4. CASE SetRequest \/ SetWaiting \/ PopDecision \/ ClearFlag \/ ClearRequest
    <3>1. UNCHANGED <<cur, acked, wire>>
      BY <2>4 DEF SetRequest, SetWaiting, PopDecision, ClearFlag, ClearRequest, handlerVars
    <3>2. QED
      BY <3>1, ContractStutter
  <2>5. CASE Finish \/ Refuse \/ (\E p \in Post : Begin(p)) \/ Fetch
    <3>1. UNCHANGED <<cur, acked, wire>>
      BY <2>5 DEF Finish, Refuse, Begin, Fetch, handlerVars, workerVars
    <3>2. QED
      BY <3>1, ContractStutter
  <2>6. CASE UNCHANGED vars
    <3>1. UNCHANGED <<cur, acked, wire>>
      BY <2>6 DEF vars, handlerVars, workerVars
    <3>2. QED
      BY <3>1, ContractStutter
  <2>7. QED
    BY <2>1, <2>2, <2>3, <2>4, <2>5, <2>6 DEF Next, Worker, Handshake, Handler
<1>3. QED
  BY <1>1, <1>2, Invariant, PTL DEF Spec, ImplementsContract, Contract!Spec

-----------------------------------------------------------------------------
(* The status, which worker and epilogue write (codex_gateway.py:2507,     *)
(* :2518, :2574-2588).                                                     *)

Life == INSTANCE JobLifecycle WITH Job <- {1}, view <- [j \in {1} |-> status]

\* What the status of a running job can be at each place of its worker.
StatusInv ==
  /\ pc \in {"recv", "set_request", "set_status"} => status = "running"
  /\ pc \in {"poll", "clear_flag", "clear_request", "resume"} => status = "waiting_approval"
  /\ pc = "ended" => status \in Terminal

LEMMA StatusStep == IInv /\ StatusInv /\ [Next]_vars => StatusInv'
<1> SUFFICES ASSUME IInv, StatusInv, [Next]_vars PROVE StatusInv'
  OBVIOUS
<1>1. CASE \E r \in Request : AutoApply(r) \/ Announce(r)
  BY <1>1 DEF AutoApply, Announce, StatusInv, jobVars
<1>2. CASE Handshake
  BY <1>2 DEF Handshake, SetRequest, SetWaiting, PopDecision, ClearFlag, ClearRequest,
              Resume, StatusInv, jobVars
<1>3. CASE Finish
  BY <1>3 DEF Finish, StatusInv
<1>4. CASE Handler \/ UNCHANGED vars
  BY <1>4 DEF Handler, Refuse, Begin, Fetch, Store, vars, workerVars, jobVars, StatusInv
<1>5. QED
  BY <1>1, <1>2, <1>3, <1>4 DEF Next, Worker

\* The status of a job moves along the edges of JobLifecycle here too, where it is
\* written piecemeal: a job waits only after it ran, and it never ends while it
\* waits.  JobRegistry takes the whole handshake as two steps of its own (Ask and
\* Resume) in that order.
StatusFollows == [][Life!Next]_status

\* It does in every run, for any number of requests (:2507, :2518, :2574-2588).
THEOREM StatusAlongLifecycle == Spec => StatusFollows
<1>1. Init => StatusInv
  BY DEF Init, StatusInv
<1>2. StatusInv /\ [Next]_vars => [Life!Next]_status
  <2> SUFFICES ASSUME StatusInv, [Next]_vars, status' # status PROVE Life!Next
    OBVIOUS
  <2>1. CASE SetWaiting
    BY <2>1 DEF SetWaiting, StatusInv, Life!Next, Life!View, Life!Edge
  <2>2. CASE Resume
    BY <2>2 DEF Resume, StatusInv, Life!Next, Life!View, Life!Edge
  <2>3. CASE Finish
    BY <2>3 DEF Finish, StatusInv, Terminal, Life!Next, Life!View, Life!Edge
  <2>4. CASE \/ \E r \in Request : AutoApply(r) \/ Announce(r)
             \/ SetRequest \/ PopDecision \/ ClearFlag \/ ClearRequest
             \/ Handler \/ UNCHANGED vars
    BY <2>4 DEF AutoApply, Announce, SetRequest, PopDecision, ClearFlag, ClearRequest,
                Handler, Refuse, Begin, Fetch, Store, vars, workerVars, jobVars
  <2>5. QED
    BY <2>1, <2>2, <2>3, <2>4 DEF Next, Worker, Handshake
<1>3. QED
  BY <1>1, <1>2, StatusStep, Invariant, PTL DEF Spec, StatusFollows
=============================================================================
