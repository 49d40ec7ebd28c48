------------------------------ MODULE ThreadContext ------------------------------
(***************************************************************************)
(* How a request finds the app-server thread it works on.                  *)
(*                                                                         *)
(* The handlers of POST /codex/jobs and POST /codex (codex_gateway.py:666),*)
(* /context/switch (:2136), /threads (:2028), /threads/model (:2095) and   *)
(* /skills/invoke (:1964) run on the event loop and await one RPC of the   *)
(* app-server after the other, so any number of them interleave, with each *)
(* other and with other clients of the app-server.  An RPC is one step: the*)
(* server acts on the state it has then, and the handler learns the        *)
(* outcome.  An error stands for one the server reports, for a broken      *)
(* connection and for a timeout.  Which error it is, the handlers tell by  *)
(* its text; that "no rollout found" means that the thread can not be      *)
(* resumed is the server's word.                                           *)
(*                                                                         *)
(* A thread is started by create_thread in a thread of the default         *)
(* executor, whose Slots threads it shares with the jobs, also with those  *)
(* that wait for an operator.                                              *)
(*                                                                         *)
(* The app-server is external.  It is modelled as far as the handlers tell *)
(* its states apart: which threads a directory has, and which of them can  *)
(* be resumed; a thread that can not is refused with "no rollout found".   *)
(* A turn may bring a directory, which is its thread's from then on        *)
(* (protocol/v2/TurnStartParams.json:35).                                  *)
(***************************************************************************)
EXTENDS Naturals, Sequences, FiniteSets

CONSTANTS
  Req,      \* the requests
  Dir,      \* directories
  Thread,   \* ids of app-server threads
  None,     \* Python's None
  Slots,    \* threads of the default executor
  Foreign,  \* the turns other clients run: of which thread, in which directory
  Asked     \* what is asked for: a subset of Request

\* "job": POST /codex/jobs, and POST /codex with the app_server_ws backend;
\* "switch_new": context/switch with the policy create_new.
Request ==
  [what : {"job"}, cwd : Dir \cup {None}, thread : Thread \cup {None}]
  \cup [what : {"switch", "switch_new", "create"}, cwd : Dir, thread : {None}]
  \cup [what : {"model"}, cwd : {None}, thread : Thread]
  \cup [what : {"skill"}, cwd : Dir \cup {None}, thread : Thread]

ASSUME ContextAssumption ==
  /\ None \notin Dir \cup Thread
  /\ Asked \subseteq Request /\ Foreign \subseteq Thread \X Dir
  /\ IsFiniteSet(Req) /\ Slots \in Nat \ {0}

VARIABLES
  req,       \* what each request asks for
  at,        \* the await it is in, or what became of it
  cwd,       \* the directory its handler holds
  found,     \* the thread id its handler holds
  queue,     \* the executor's queue: requests whose thread or job is to start
  pending,   \* the active jobs with undrained events
  cwdOf, runnable,            \* the app-server's threads
  resumed, started, lacking,  \* history: what the server did for a request,
  nameless,                   \* the requests it resumed a thread for without naming it,
  strayed                     \* and those whose thread got another directory meanwhile

gateway == <<req, at, cwd, found, queue, pending>>
server  == <<cwdOf, runnable>>
history == <<resumed, started, lacking, nameless, strayed>>
vars    == <<gateway, server, history>>

Idle == [what |-> "none", cwd |-> None, thread |-> None]

Rpc      == {"config", "projects", "list", "resume", "resume_again", "meta", "meta_again",
             "turns", "read", "skills", "turn"}
JobSteps == {"job", "opening", "running", "asking"}
Over     == {"answered", "refused", "ended"}
Awaits   == Rpc \cup {"idle", "create", "creating", "admit"}

Init ==
  /\ req = [r \in Req |-> Idle]
  /\ at = [r \in Req |-> "idle"]
  /\ cwd = [r \in Req |-> None] /\ found = [r \in Req |-> None]
  /\ queue = <<>> /\ pending = {}
  /\ cwdOf = [t \in Thread |-> None] /\ runnable = {}
  /\ resumed = [r \in Req |-> {}] /\ started = [r \in Req |-> {}]
  /\ lacking = {} /\ nameless = {} /\ strayed = {}

Unused == {t \in Thread : cwdOf[t] = None}

\* Mutation: thread/list is not given the directory.
OfAnyone(d) == Thread \ Unused

\* The threads thread/list finds for a directory.
Of(d) == {t \in Thread : cwdOf[t] = d}

\* The handler of r goes on to the next await.  to_thread queues it.
Go(r, next) ==
  /\ at' = [at EXCEPT ![r] = next]
  /\ queue' = IF next \in {"create", "job"} THEN Append(queue, r) ELSE queue

\* An HTTPException reaches the client.
Fail(r) == Go(r, "refused") /\ UNCHANGED <<req, cwd, found, pending, server, history>>

\* create_thread: refused at once if the directory does not exist here (:2394).
Create(r) == Go(r, "create") \/ Go(r, "refused")

-----------------------------------------------------------------------------
(* The handlers.                                                           *)

\* Up to the first await.  A job that names no thread must name a directory; of
\* one that does, nothing is asked of the server.  threads/model reads the
\* catalog of models without leaving the event loop; skills/invoke wants a name or
\* a path.
Arrive(r, q) ==
  /\ at[r] = "idle"
  /\ req' = [req EXCEPT ![r] = q]
  /\ cwd' = [cwd EXCEPT ![r] = q.cwd]
  /\ found' = [found EXCEPT ![r] = q.thread]
  /\ CASE q.what = "job" -> Go(r, IF q.thread # None THEN "admit"
                                  ELSE IF q.cwd = None THEN "refused" ELSE "list")
       [] q.what \in {"switch", "switch_new"} -> Go(r, "config")
       [] q.what = "create" -> Create(r)
       [] q.what = "model" -> Go(r, "read") \/ Go(r, "refused")
       [] q.what = "skill" -> Go(r, "read") \/ Go(r, "refused")
  /\ UNCHANGED <<pending, server, history>>

\* create_project: config/read, and a thread/list that only counts.
Project(r) ==
  /\ \/ at[r] = "config" /\ Go(r, "projects")
     \/ at[r] = "projects" /\ req[r].what = "switch" /\ Go(r, "list")
     \/ at[r] = "projects" /\ req[r].what = "switch_new" /\ Create(r)
  /\ UNCHANGED <<req, cwd, found, pending, server, history>>

\* thread/list of the directory, the latest only; which that is, is up to the
\* server.
ListLatest(r) ==
  /\ at[r] = "list"
  /\ \/ \E t \in Of(cwd[r]) :
          found' = [found EXCEPT ![r] = t] /\ Go(r, "resume") /\ UNCHANGED lacking
     \/ /\ Of(cwd[r]) = {}
        /\ lacking' = lacking \cup {r}
        /\ Create(r)
        /\ UNCHANGED found
  /\ UNCHANGED <<req, cwd, pending, server, resumed, started, nameless, strayed>>

\* "no rollout found": a new thread is created instead.
Stale(r) ==
  /\ found[r] \notin runnable
  /\ lacking' = lacking \cup {r}
  /\ Create(r)
  /\ UNCHANGED <<resumed, nameless>>

Resumed(r, next) ==
  /\ found[r] \in runnable
  /\ resumed' = [resumed EXCEPT ![r] = @ \cup {found[r]}]
  /\ Go(r, next)
  /\ UNCHANGED <<lacking, nameless>>

\* context/switch takes the id of the thread from the result, the other handlers
\* from the list.  A result without one is a reason to create a thread.
Nameless(r) ==
  /\ req[r].what = "switch" /\ found[r] \in runnable
  /\ nameless' = nameless \cup {r}
  /\ Create(r)
  /\ UNCHANGED <<resumed, lacking>>

\* Mutation: the retry is retried.
RetryForever(r) ==
  /\ Go(r, CASE at[r] = "resume" -> "resume_again" [] at[r] = "resume_again" -> "resume"
            [] at[r] = "meta" -> "meta_again" [] at[r] = "meta_again" -> "meta")
  /\ UNCHANGED <<resumed, lacking, nameless>>

\* The server does not know excludeTurns: it is asked once more, without it.
Retry(r) ==
  /\ \/ at[r] = "resume" /\ Go(r, "resume_again")
     \/ at[r] = "meta" /\ Go(r, "meta_again")
  /\ UNCHANGED <<resumed, lacking, nameless>>

\* thread/resume.  Only context/switch, which wants the turns, goes on with less
\* when the answer is too big, or when the error has 1009 in its text.
Resume(r) ==
  /\ \/ /\ at[r] \in {"resume", "resume_again"}
        /\ \/ Resumed(r, IF req[r].what = "job" THEN "admit" ELSE "answered")
           \/ Nameless(r)
           \/ /\ req[r].what = "switch"
              /\ Go(r, "meta") /\ UNCHANGED <<resumed, lacking, nameless>>
     \/ at[r] \in {"meta", "meta_again"} /\ Resumed(r, "turns")
     \/ at[r] \in {"resume", "resume_again", "meta", "meta_again"} /\ (Stale(r) \/ Retry(r))
  /\ UNCHANGED <<req, cwd, found, pending, server, started, strayed>>

\* thread/turns/list, the last ten.  The id is that of the resume before it.
Turns(r) ==
  /\ at[r] = "turns"
  /\ \/ Stale(r) \/ Nameless(r)
     \/ found[r] \in runnable /\ Go(r, "answered") /\ UNCHANGED <<resumed, lacking, nameless>>
  /\ UNCHANGED <<req, cwd, found, pending, server, started, strayed>>

\* thread/read of the thread a client named.
ThreadCwd(r) == cwdOf[found[r]]

\* threads/model creates a thread in the same directory; skills/invoke may look for
\* the skill there.
ReadThread(r) ==
  /\ at[r] = "read"
  /\ ThreadCwd(r) # None
  /\ IF req[r].what = "model"
       THEN cwd' = [cwd EXCEPT ![r] = ThreadCwd(r)] /\ Create(r)
       ELSE (Go(r, "skills") \/ Go(r, "turn")) /\ UNCHANGED cwd
  /\ UNCHANGED <<req, found, pending, server, history>>

\* The requests that have learned the directory of thread t, and go by it.
Holders(t) == {r \in Req : /\ at[r] \notin {"idle", "read", "refused", "ended"}
                           /\ req[r].what # "skill" /\ t \in {found[r], req[r].thread}}

\* The server runs a turn of thread t: t has a rollout then, and the directory d if
\* one comes with the turn.
RunTurn(t, d) ==
  /\ runnable' = runnable \cup {t}
  /\ IF d \in {None, cwdOf[t]}
       THEN UNCHANGED <<cwdOf, strayed>>
       ELSE /\ cwdOf' = [cwdOf EXCEPT ![t] = d]
            /\ strayed' = strayed \cup Holders(t)

\* skills/list finds the skill; turn/start runs it, in the directory the client gave,
\* on a connection that is closed with the response.  The response may be lost.
Skill(r) ==
  /\ \/ at[r] = "skills" /\ Go(r, "turn") /\ UNCHANGED <<server, strayed>>
     \/ /\ at[r] = "turn"
        /\ RunTurn(found[r], cwd[r])
        /\ Go(r, "answered") \/ Go(r, "refused")
  /\ UNCHANGED <<req, cwd, found, pending, resumed, started, lacking, nameless>>

\* Mutation: any error of a resume counts as "no rollout found".
RpcFailsCreates(r) ==
  /\ at[r] \in Rpc
  /\ \/ at[r] \notin {"resume", "resume_again"} /\ Fail(r)
     \/ /\ at[r] \in {"resume", "resume_again"} /\ Go(r, "create")
        /\ UNCHANGED <<req, cwd, found, pending, server, history>>

\* Any RPC may end in another error.
RpcFails(r) == at[r] \in Rpc /\ Fail(r)

-----------------------------------------------------------------------------
(* The executor.                                                           *)

InSlot == {r \in Req : at[r] \in {"creating", "opening", "running", "asking"}}

\* Mutation: off by one.
SlotFreeOff == Cardinality(InSlot) <= Slots

SlotFree == Cardinality(InSlot) < Slots

\* It serves its queue in order.
TakeSlot ==
  /\ queue # <<>> /\ SlotFree
  /\ queue' = Tail(queue)
  /\ at' = [at EXCEPT ![Head(queue)] = IF @ = "create" THEN "creating" ELSE "opening"]
  /\ UNCHANGED <<req, cwd, found, pending, server, history>>

\* The conversation of AppServerClient without a prompt.  The new thread may have
\* no rollout; it stays when its answer is lost.
StartThread(r) ==
  /\ at[r] = "creating"
  /\ \E t \in Unused :
       /\ cwdOf' = [cwdOf EXCEPT ![t] = cwd[r]]
       /\ runnable' \in {runnable, runnable \cup {t}}
       /\ started' = [started EXCEPT ![r] = @ \cup {t}]
       /\ \/ /\ found' = [found EXCEPT ![r] = t]
             /\ Go(r, IF req[r].what = "job" THEN "admit" ELSE "answered")
          \/ Go(r, "refused") /\ UNCHANGED found
  /\ UNCHANGED <<req, cwd, pending, resumed, lacking, nameless, strayed>>

StartFails(r) == at[r] = "creating" /\ Fail(r)

\* The active jobs of a thread with undrained events (:613).
ThreadPendingJobs(t) == {r \in pending : found[r] = t}

\* The thread is known: the guard, and the job.  No await separates them.  POST
\* /codex also refuses a directory that does not exist here.
Admit(r) ==
  /\ at[r] = "admit"
  /\ \/ Go(r, IF ThreadPendingJobs(found[r]) = {} THEN "job" ELSE "refused")
     \/ req[r].cwd # None /\ Go(r, "refused")
  /\ UNCHANGED <<req, cwd, found, pending, server, history>>

\* The job resumes its thread once more, and runs.
OpenThread(r) ==
  /\ at[r] = "opening"
  /\ \/ found[r] \in runnable /\ Go(r, "running") /\ UNCHANGED pending
     \/ Go(r, "ended") /\ pending' = pending \ {r}
  /\ UNCHANGED <<req, cwd, found, server, history>>

Message(r) ==
  /\ at[r] \in {"opening", "running"}
  /\ pending' = pending \cup {r}
  /\ UNCHANGED <<req, cwd, at, found, queue, server, history>>

Drain(r) ==
  /\ r \in pending
  /\ pending' = pending \ {r}
  /\ UNCHANGED <<req, cwd, at, found, queue, server, history>>

Ask(r) ==
  /\ at[r] = "running" /\ Go(r, "asking")
  /\ UNCHANGED <<req, cwd, found, pending, server, history>>

Decide(r) ==
  /\ at[r] = "asking" /\ Go(r, "running")
  /\ UNCHANGED <<req, cwd, found, pending, server, history>>

\* A turn gives its thread a rollout.
EndJob(r) ==
  /\ at[r] = "running" /\ Go(r, "ended")
  /\ pending' = pending \ {r}
  /\ runnable' = runnable \cup {found[r]}
  /\ UNCHANGED <<req, cwd, found, cwdOf, history>>

-----------------------------------------------------------------------------
(* Other clients of the app-server.                                        *)

\* Enough ids are left for the requests.
OtherStart(d) ==
  /\ Cardinality(Unused) > Cardinality(Req)
  /\ \E t \in Unused :
       /\ cwdOf' = [cwdOf EXCEPT ![t] = d]
       /\ runnable' \in {runnable, runnable \cup {t}}
  /\ UNCHANGED <<gateway, history>>

OtherTurn(t, d) ==
  /\ <<t, d>> \in Foreign /\ t \notin Unused
  /\ RunTurn(t, d)
  /\ UNCHANGED <<gateway, resumed, started, lacking, nameless>>

Forget(t) ==
  /\ t \in runnable
  /\ runnable' = runnable \ {t}
  /\ UNCHANGED <<gateway, cwdOf, history>>

-----------------------------------------------------------------------------

Handle(r) ==
  \/ Project(r) \/ ListLatest(r) \/ Resume(r) \/ Turns(r)
  \/ ReadThread(r) \/ Skill(r) \/ RpcFails(r) \/ Admit(r)

Work(r) == StartThread(r) \/ StartFails(r) \/ OpenThread(r)

Next ==
  \/ \E r \in Req :
       \/ \E q \in Asked : Arrive(r, q)
       \/ Handle(r) \/ Work(r)
       \/ Message(r) \/ Drain(r) \/ Ask(r) \/ Decide(r) \/ EndJob(r)
  \/ TakeSlot
  \/ \E d \in Dir : OtherStart(d)
  \/ \E t \in Thread : Forget(t) \/ \E d \in Dir : OtherTurn(t, d)

Spec == Init /\ [][Next]_vars

(* An RPC ends, by its timeout if not before: AppServerClient!CallEnds, which *)
(* needs a server that does not talk for ever.  The loop and the executor run *)
(* what is ready.  That turns end and that the operator answers is assumed.   *)
FairSpec ==
  /\ Spec
  /\ WF_vars(TakeSlot)
  /\ \A r \in Req : /\ WF_vars(Handle(r)) /\ WF_vars(Work(r))
                    /\ WF_vars(Decide(r)) /\ SF_vars(EndJob(r))

-----------------------------------------------------------------------------
(* Properties.                                                             *)

\* Requests and their awaits fit together, and the executor never has more of them
\* in its threads than it has threads.
TypeOK ==
  /\ Cardinality(InSlot) <= Slots
  /\ req \in [Req -> Request \cup {Idle}]
  /\ at \in [Req -> Awaits \cup JobSteps \cup Over]
  /\ cwd \in [Req -> Dir \cup {None}] /\ found \in [Req -> Thread \cup {None}]
  /\ queue \in Seq(Req) /\ pending \subseteq Req
  /\ cwdOf \in [Thread -> Dir \cup {None}] /\ runnable \subseteq Thread
  /\ {resumed, started} \subseteq [Req -> SUBSET Thread]
  /\ lacking \cup nameless \cup strayed \subseteq Req

\* The directory a request is about.
Target(r) == IF req[r].what = "model" THEN cwdOf[req[r].thread] ELSE req[r].cwd

\* The requests that get a thread they did not name.
Resolved(r) ==
  \/ req[r].what = "job" /\ req[r].thread = None /\ at[r] \in {"admit"} \cup JobSteps
  \/ req[r].what \in {"switch", "switch_new", "create", "model"} /\ at[r] = "answered"

\* The server has resumed or started the thread a job runs on or a reply names for
\* this very request, whatever other requests did in between; and it is one of the
\* directory asked for (of the former thread's, for a change of model), unless a turn
\* has moved it since the handler learned of it (:696-727, :2028, :2149-2178).  Of
\* such a move, a skill's with a cwd (:2009), the handlers notice nothing.
ThreadVouchedFor ==
  \A r \in Req : Resolved(r) =>
    /\ found[r] \in resumed[r] \cup started[r]
    /\ r \in strayed \/ cwdOf[found[r]] = Target(r)

\* A request starts one thread at most, and one that would do with the latest
\* thread only if its directory had none, the one found could not be resumed, or,
\* in context/switch alone, a result did not name it.  No other error, timeout or
\* overflow of an answer, and no retry, starts one, and a job never does over a
\* thread that can be resumed (:705-727, :2163-2225).
NoNeedlessThread ==
  \A r \in Req :
    /\ Cardinality(started[r]) <= 1
    /\ started[r] # {} /\ req[r].what = "job" => r \in lacking
    /\ started[r] # {} /\ req[r].what = "switch" => r \in lacking \cup nameless

\* Every request is answered, if turns end and operators answer: neither the
\* fallbacks nor the executor's queue, which creations share with the jobs, keep
\* one waiting for ever.
EveryRequestAnswered == \A r \in Req : (at[r] # "idle") ~> (at[r] \in Over)
=============================================================================
