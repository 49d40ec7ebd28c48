------------------------------- MODULE Approvals -------------------------------
(***************************************************************************)
(* The approval handshake of one job.                                      *)
(*                                                                         *)
(* Two threads share the job dictionary.  The job's worker thread runs     *)
(* _on_server_request (codex_gateway.py:2456): it publishes a request of   *)
(* the app-server, polls job["approval_decisions"] for the answer and      *)
(* sends the mapped decision back.  The event-loop thread runs             *)
(* post_codex_job_approval (codex_gateway.py:2663), which never awaits:    *)
(* one such handler is in progress at a time, but the worker can run       *)
(* between any two of its reads and writes of the dictionary.  Each action *)
(* below is a piece of code that touches shared keys once.                 *)
(*                                                                         *)
(* A request stands for one JSON-RPC id.  Its summary is abstracted to the *)
(* two parts _approval_policy_key tells apart: "head", the 120 characters  *)
(* the key keeps, and the rest, which nothing reads.  The milestones that  *)
(* _notify_job_update emits are the subject of ProgressFeed.               *)
(***************************************************************************)
EXTENDS Naturals

CONSTANTS
  Request,     \* the server requests of the connection, as records
  Offered,     \* the decisions operators post
  NoRequest    \* Python's None

RequestFields == {"id", "request_type", "head", "amendment"}

ASSUME RequestAssumption ==
  /\ \A r \in Request : DOMAIN r = RequestFields /\ r.amendment \in BOOLEAN
  /\ \A r, s \in Request : r.id = s.id => r = s
  /\ NoRequest \notin Request

Decision == {"approve_once", "approve_all_similar", "deny", "guidance"}

ASSUME OfferedAssumption == Offered \subseteq Decision

VARIABLES
  pc,          \* where the worker stands
  cur,         \* the request _on_server_request was called with
  required,    \* job["approval_required"]
  request,     \* job["approval_request"]
  status,      \* job["status"]
  decisions,   \* job["approval_decisions"]: a function on the ids answered
  taken,       \* the decision the worker popped
  policies,    \* the keys in job["approval_policies"]
  wire,        \* the decision sent to the app-server for each request
  hpc,         \* where the POST handler stands
  post,        \* the body the handler was called with
  acked        \* the decisions acknowledged with 200, per request

workerVars  == <<pc, cur, taken, policies, wire>>
handlerVars == <<hpc, post, acked>>
jobVars     == <<required, request, status>>
vars == <<workerVars, handlerVars, jobVars, decisions>>

Accepting == {"accept", "acceptForSession", "acceptWithExecpolicyAmendment"}
Wire      == Accepting \cup {"decline"}
Terminal  == {"completed", "failed"}
Unsent    == "unsent"
Idle      == "idle"

\* guidance_text is abstracted to whether anything is left of it after strip();
\* only a guidance decision has its text looked at.
Post == {p \in [target : Request, decision : Offered, guidance_text : BOOLEAN] :
           p.guidance_text => p.decision = "guidance"}

Complete(p) == p.decision = "guidance" => p.guidance_text

-----------------------------------------------------------------------------

\* No POST handler is in progress: the last one returned, or Python threw in it.
NoHandler == hpc \in {Idle, "raised"}

\* request_type and the first 120 characters of the summary.
PolicyKey(r) == <<r.request_type, r.head>>

\* Mutation: guidance is taken for an approval.
MapGuidanceToAccept(d, r) ==
  CASE d \in {"approve_once", "guidance"} -> "accept"
    [] d = "approve_all_similar" -> "acceptForSession"
    [] OTHER -> "decline"

MapApprovalDecision(d, r) ==
  CASE d = "approve_once" -> "accept"
    [] d = "approve_all_similar" ->
         IF r.amendment THEN "acceptWithExecpolicyAmendment"
                        ELSE "acceptForSession"
    [] OTHER -> "decline"

Init ==
  /\ pc = "recv" /\ cur = NoRequest /\ taken = Unsent
  /\ required = FALSE /\ request = NoRequest /\ status = "running"
  /\ decisions = [r \in {} |-> Unsent]
  /\ policies = {}
  /\ wire = [r \in Request |-> Unsent]
  /\ hpc = Idle /\ post = NoRequest
  /\ acked = [r \in Request |-> {}]

-----------------------------------------------------------------------------
(* The worker thread.                                                      *)

\* A similar request was approved for the session: answered at once.
AutoApply(r) ==
  /\ pc = "recv"
  /\ wire[r] = Unsent
  /\ PolicyKey(r) \in policies
  /\ wire' = [wire EXCEPT ![r] = MapApprovalDecision("approve_all_similar", r)]
  /\ UNCHANGED <<pc, cur, taken, policies, jobVars, decisions, handlerVars>>

Announce(r) ==
  /\ pc = "recv"
  /\ wire[r] = Unsent
  /\ PolicyKey(r) \notin policies
  /\ required' = TRUE
  /\ cur' = r
  /\ pc' = "set_request"
  /\ UNCHANGED <<taken, policies, wire, request, status, decisions, handlerVars>>

\* Mutation: the request is never published.
SetRequestLost ==
  /\ pc = "set_request"
  /\ pc' = "set_status"
  /\ UNCHANGED <<cur, taken, policies, wire, jobVars, decisions, handlerVars>>

SetRequest ==
  /\ pc = "set_request"
  /\ request' = cur
  /\ pc' = "set_status"
  /\ UNCHANGED <<cur, taken, policies, wire, required, status, decisions, handlerVars>>

SetWaiting ==
  /\ pc = "set_status"
  /\ status' = "waiting_approval"
  /\ pc' = "poll"
  /\ UNCHANGED <<cur, taken, policies, wire, required, request, decisions, handlerVars>>

\* One round of the polling loop that finds the decision; the rounds that find
\* nothing change nothing.
PopDecision ==
  /\ pc = "poll"
  /\ cur \in DOMAIN decisions
  /\ taken' = decisions[cur]
  /\ decisions' = [r \in DOMAIN decisions \ {cur} |-> decisions[r]]
  /\ pc' = "clear_flag"
  /\ UNCHANGED <<cur, policies, wire, jobVars, handlerVars>>

\* Mutation: the flag is cleared to None instead of False.
ClearFlagToNone ==
  /\ pc = "clear_flag"
  /\ required' = NoRequest
  /\ pc' = "clear_request"
  /\ UNCHANGED <<cur, taken, policies, wire, request, status, decisions, handlerVars>>

\* Mutation: the flag is left set.
ClearFlagForgotten ==
  /\ pc = "clear_flag"
  /\ pc' = "clear_request"
  /\ UNCHANGED <<cur, taken, policies, wire, jobVars, decisions, handlerVars>>

ClearFlag ==
  /\ pc = "clear_flag"
  /\ required' = FALSE
  /\ pc' = "clear_request"
  /\ UNCHANGED <<cur, taken, policies, wire, request, status, decisions, handlerVars>>

ClearRequest ==
  /\ pc = "clear_request"
  /\ request' = NoRequest
  /\ pc' = "resume"
  /\ UNCHANGED <<cur, taken, policies, wire, required, status, decisions, handlerVars>>

\* Mutation: every approval is remembered, not only those for the session.
ResumeRemembersAny ==
  /\ pc = "resume"
  /\ status' = "running"
  /\ policies' = IF taken \in {"approve_once", "approve_all_similar"}
                   THEN policies \cup {PolicyKey(cur)} ELSE policies
  /\ wire' = [wire EXCEPT ![cur] = MapApprovalDecision(taken, cur)]
  /\ cur' = NoRequest
  /\ taken' = Unsent
  /\ pc' = "recv"
  /\ UNCHANGED <<required, request, decisions, handlerVars>>

\* The policies are written and read by this thread alone, so recording one and
\* sending the decision is one step with the write of the status.
Resume ==
  /\ pc = "resume"
  /\ status' = "running"
  /\ policies' = IF taken = "approve_all_similar"
                   THEN policies \cup {PolicyKey(cur)} ELSE policies
  /\ wire' = [wire EXCEPT ![cur] = MapApprovalDecision(taken, cur)]
  /\ cur' = NoRequest
  /\ taken' = Unsent
  /\ pc' = "recv"
  /\ UNCHANGED <<required, request, decisions, handlerVars>>

\* The worker returned and _run_job resumes on the event loop, which no handler
\* holds then.
Finish ==
  /\ pc = "recv"
  /\ NoHandler
  /\ status' \in Terminal
  /\ pc' = "ended"
  /\ UNCHANGED <<cur, taken, policies, wire, required, request, decisions, handlerVars>>

Handshake ==
  \/ SetRequest \/ SetWaiting \/ PopDecision
  \/ ClearFlag \/ ClearRequest \/ Resume

Worker == (\E r \in Request : AutoApply(r) \/ Announce(r)) \/ Handshake

-----------------------------------------------------------------------------
(* The POST handler.                                                       *)

Return(end) ==
  /\ hpc' = end
  /\ post' = NoRequest

\* 409 when nothing is pending.  The code reads the flag and then the request;
\* no step of the worker between the two reads leads anywhere one reading
\* would not.
Refuse ==
  /\ NoHandler
  /\ ~required \/ request = NoRequest
  /\ Return(Idle)
  /\ UNCHANGED <<acked, workerVars, jobVars, decisions>>

Begin(p) ==
  /\ NoHandler
  /\ required /\ request # NoRequest
  /\ hpc' = "guarded"
  /\ post' = p
  /\ UNCHANGED <<acked, workerVars, jobVars, decisions>>

\* Mutation: the id in the body is not compared with the pending one.
FetchUnmatched ==
  /\ hpc = "guarded"
  /\ request # NoRequest
  /\ hpc' = "matched"
  /\ UNCHANGED <<post, acked, workerVars, jobVars, decisions>>

\* job["approval_request"] is read again after the guard: it may be None by now,
\* and pending.get then raises.  Else another request's id is refused with 409,
\* guidance without a text with 400.
Fetch ==
  /\ hpc = "guarded"
  /\ \/ request = NoRequest /\ Return("raised")
     \/ /\ request # NoRequest
        /\ request.id # post.target.id \/ ~Complete(post)
        /\ Return(Idle)
     \/ /\ request # NoRequest
        /\ request.id = post.target.id /\ Complete(post)
        /\ hpc' = "matched"
        /\ UNCHANGED post
  /\ UNCHANGED <<acked, workerVars, jobVars, decisions>>

\* Mutation: the decision is stored under the id as the client spelled it, a
\* string, and not under the id the worker looks up.
StoreUnderString ==
  /\ hpc = "matched"
  /\ acked' = [acked EXCEPT ![post.target] = @ \cup {post.decision}]
  /\ Return(Idle)
  /\ UNCHANGED <<workerVars, jobVars, decisions>>

\* A second decision for the same request overwrites the first; the reply is 200.
Store ==
  /\ hpc = "matched"
  /\ decisions' = [r \in DOMAIN decisions \cup {post.target} |->
                     IF r = post.target THEN post.decision ELSE decisions[r]]
  /\ acked' = [acked EXCEPT ![post.target] = @ \cup {post.decision}]
  /\ Return(Idle)
  /\ UNCHANGED <<workerVars, jobVars>>

Handler == Refuse \/ (\E p \in Post : Begin(p)) \/ Fetch \/ Store

Next == Worker \/ Finish \/ Handler

Spec == Init /\ [][Next]_vars

(* The operating system schedules both threads once they have something to *)
(* do; the app-server owes nobody a request, nor a turn an end.            *)
Fairness ==
  /\ WF_vars(Handshake)
  /\ WF_vars(Fetch \/ Store)

FairSpec == Spec /\ Fairness

(* The operator posts a well-formed decision for a request again and again *)
(* for as long as it is pending (README.md:308).                           *)
OperatorPosts(r) == \E p \in Post : p.target = r /\ Complete(p) /\ Begin(p)

OperatorSpec == FairSpec /\ \A r \in Request : SF_vars(OperatorPosts(r))

-----------------------------------------------------------------------------
(* Properties.                                                             *)

\* The shared dictionary holds what both threads expect to find in it.
TypeOK ==
  /\ pc \in {"recv", "set_request", "set_status", "poll", "clear_flag",
             "clear_request", "resume", "ended"}
  /\ cur \in Request \cup {NoRequest}
  /\ required \in BOOLEAN
  /\ request \in Request \cup {NoRequest}
  /\ status \in {"running", "waiting_approval"} \cup Terminal
  /\ \E answered \in SUBSET Request : decisions \in [answered -> Decision]
  /\ taken \in Decision \cup {Unsent}
  /\ policies \subseteq {PolicyKey(r) : r \in Request}
  /\ wire \in [Request -> Wire \cup {Unsent}]
  /\ hpc \in {Idle, "guarded", "matched", "raised"}
  /\ post \in Post \cup {NoRequest}
  /\ acked \in [Request -> SUBSET Decision]

\* No decision waits for a request that was not shown yet: whatever is left in
\* job["approval_decisions"] (post_codex_job_approval, :2683) belongs to the
\* request being answered or to one answered already, so a late second answer
\* can never approve the next request before the operator saw it.
NoPreApproval ==
  \A r \in DOMAIN decisions : r = cur \/ wire[r] # Unsent

Says(r, ds) == acked[r] \cap ds # {}

\* What the app-server is told is what an operator said.  It proceeds with a
\* request only if an acknowledged decision approved that request, or approved
\* for the session one with the same policy key (:2482-2502), and it is declined
\* only after an acknowledged deny or guidance for that very request.
Authority ==
  \A r \in Request :
    /\ wire[r] \in Accepting =>
         \/ Says(r, {"approve_once", "approve_all_similar"})
         \/ \E s \in Request : /\ PolicyKey(s) = PolicyKey(r)
                               /\ Says(s, {"approve_all_similar"})
    /\ wire[r] = "decline" => Says(r, {"deny", "guidance"})

\* The operator's view of the handshake: the request the worker handles, what was
\* acknowledged, and which way the app-server was told to go.
Verdict(w) == IF w = Unsent THEN "pending"
              ELSE IF w \in Accepting THEN "proceed" ELSE "decline"

Contract == INSTANCE ApprovalContract
              WITH Request <- Request, Nothing <- NoRequest,
                   Key    <- [r \in Request |-> PolicyKey(r)],
                   asking <- cur,
                   said   <- acked,
                   told   <- [r \in Request |-> Verdict(wire[r])]

\* The handshake of the two threads is a run of ApprovalContract: requests are
\* asked one at a time and answered once each, and an approval reaches beyond its
\* request only if it was given for the session and had let its own request
\* proceed (:2480-2502, :2509-2564, :2683).
ImplementsContract == Contract!Spec

\* A job that ended asks for nothing: the view of a completed or failed job
\* never carries an approval_request that cannot be answered (format_job_view).
TerminalNotAsking ==
  status \in Terminal => ~required /\ request = NoRequest

\* A decision acknowledged with 200 makes the worker answer its request: no
\* interleaving of the two threads parks the decision and leaves the worker
\* polling (:2509-2514 against :2683).
AckTakesEffect ==
  \A r \in Request : (acked[r] # {}) ~> (wire[r] # Unsent)

\* With an operator who keeps posting, every announced request is answered; the
\* worker has no timeout of its own (:2509), so this rests on the flag and the
\* request being published before the polling starts.
Answered ==
  \A r \in Request : (cur = r) ~> (wire[r] # Unsent)

\* The 409 "No pending approval for this job" (:2673-2674) covers every post
\* that finds nothing pending: the handler never goes on with None.
HandlerNeverCrashes == hpc # "raised"
=============================================================================
