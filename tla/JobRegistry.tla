------------------------------ MODULE JobRegistry ------------------------------
(***************************************************************************)
(* The table of jobs and the life of the jobs in it.                       *)
(*                                                                         *)
(* The event loop runs the HTTP handlers and the prologue and epilogue of  *)
(* _run_job (codex_gateway.py:2411); none of them is interrupted between   *)
(* two awaits, so each is one action.  An app-server job runs in a thread  *)
(* of the default executor (asyncio.to_thread, :2397), which has Slots     *)
(* threads, and writes its own job dictionary meanwhile.  An exec job runs *)
(* inside the event loop, in one action.                                   *)
(*                                                                         *)
(* Jobs are numbered in the order of their creation, which is the order of *)
(* the table and of JOB_COUNTER.  The dictionary of a job outlives its     *)
(* entry in JOBS: its task and its worker keep a reference.  What the      *)
(* worker and the reader do to the events, the approval and the milestones *)
(* step by step is the subject of EventBuffer, Approvals and ProgressFeed. *)
(***************************************************************************)
EXTENDS Naturals, Sequences, FiniteSets

CONSTANTS
  Thread,       \* app-server threads
  None,         \* Python's None
  MaxItems,     \* JOB_MAX_ITEMS
  TTL,          \* JOB_TTL_SECONDS
  Slots,        \* threads of the default executor
  NoticeLimit,  \* notices attached to one response (:356)
  Kinds,        \* what the jobs created are: a subset of Kind
  MaxHeld,      \* bound: long polls in progress
  MaxJobs,      \* bound: jobs created
  MaxPending,   \* bound: undrained events of a job
  MaxTime       \* bound: seconds

\* "prompt": an app-server turn; "open": an app-server job without a prompt,
\* which only opens its thread (:1482); "exec": a run of the command line.
Kind == {"prompt", "open", "exec"}

ASSUME RegistryAssumption ==
  /\ Kinds \subseteq Kind
  /\ {MaxItems, TTL, MaxHeld, MaxJobs, MaxPending, MaxTime} \subseteq Nat
  /\ {Slots, NoticeLimit} \subseteq Nat \ {0}
  /\ None \notin Thread

Job      == 1..MaxJobs
Terminal == {"completed", "failed"}
Active   == {"queued", "running", "waiting_approval"}

VARIABLES
  JOBS,        \* the ids in the table
  created,     \* how many jobs were created
  kind, session,             \* what each job does, on which thread: its payload
  status, updated, thread,   \* job["status"], ["updated_at"], ["thread_id"]
  pending,     \* event_seq - last_drained_seq
  task,        \* how far _run_job and its worker are
  done,        \* the jobs whose done_event is set
  held,        \* the jobs a long poll is waiting for
  notices,     \* the keys of TERMINAL_JOB_NOTICES, in order
  now          \* job_now()

given == <<kind, session>>
dictVars == <<given, status, updated, thread, pending>>
vars == <<JOBS, created, dictVars, task, done, held, notices, now>>

Init ==
  /\ JOBS = {} /\ created = 0
  /\ kind = [j \in Job |-> "prompt"] /\ session = [j \in Job |-> None]
  /\ status = [j \in Job |-> "queued"]
  /\ updated = [j \in Job |-> 0]
  /\ thread = [j \in Job |-> None]
  /\ pending = [j \in Job |-> 0]
  /\ task = [j \in Job |-> "none"]
  /\ done = {} /\ held = {}
  /\ notices = <<>>
  /\ now = 0

-----------------------------------------------------------------------------
(* Pruning (cgw/jobs.py:59).                                               *)

Expired(table, st, up) ==
  {j \in table : st[j] \in Terminal /\ now - up[j] > TTL}

\* sorted() is stable: jobs updated in the same second go in table order.
Older(i, j, up) == up[i] < up[j] \/ (up[i] = up[j] /\ i < j)

\* Mutation: the overflow is counted one short.
PrunedOffByOne(table, st, up) ==
  LET kept == table \ Expired(table, st, up)
  IN  {j \in kept :
         Cardinality({i \in kept : Older(j, i, up)}) <= MaxItems}

\* What prune_jobs leaves of a table: without the expired jobs, and without the
\* longest not updated if there are still too many, active ones included.
Pruned(table, st, up) ==
  LET kept == table \ Expired(table, st, up)
  IN  {j \in kept :
         Cardinality({i \in kept : Older(j, i, up)}) < MaxItems}

Prune == JOBS' = Pruned(JOBS, status, updated)

-----------------------------------------------------------------------------
(* Creating a job.                                                         *)

\* The active jobs of a thread whose events were not drained (:613).
ThreadPendingJobs(t) ==
  {j \in JOBS : thread[j] = t /\ status[j] \in Active /\ pending[j] > 0}

\* POST /codex/jobs, and POST /codex, whose caller then waits for done_event.
\* The test for pending events and the creation are not separated by an await.
\* An exec job may name no thread, and POST /codex runs one without a job.
Create(k, t) ==
  /\ created < MaxJobs
  /\ k # "exec" => t # None
  /\ t = None \/ ThreadPendingJobs(t) = {}
  /\ LET j == created + 1
     IN  /\ created' = j
         /\ JOBS' = Pruned(JOBS, status, updated) \cup {j}
         /\ kind' = [kind EXCEPT ![j] = k]
         /\ session' = [session EXCEPT ![j] = t]
         /\ thread' = [thread EXCEPT ![j] = t]
         /\ updated' = [updated EXCEPT ![j] = now]
         /\ task' = [task EXCEPT ![j] = "created"]
  /\ UNCHANGED <<status, pending, done, held, notices, now>>

-----------------------------------------------------------------------------
(* Running a job.                                                          *)

\* The event loop starts tasks in the order they were created.
NextTask(j) == task[j] = "created" /\ \A i \in Job : task[i] = "created" => j <= i

\* JOBS[job_id] raises KeyError when the job was pruned before its task started.
StartPruned(j) ==
  /\ NextTask(j)
  /\ j \notin JOBS
  /\ task' = [task EXCEPT ![j] = "crashed"]
  /\ UNCHANGED <<JOBS, created, dictVars, done, held, notices, now>>

Start(j) ==
  /\ NextTask(j)
  /\ j \in JOBS
  /\ kind[j] # "exec"
  /\ status' = [status EXCEPT ![j] = "running"]
  /\ updated' = [updated EXCEPT ![j] = now]
  /\ task' = [task EXCEPT ![j] = "submitted"]
  /\ UNCHANGED <<JOBS, created, given, thread, pending, done, held, notices, now>>

\* Mutation: the thread of the result goes through str().
ResultThreadString(j, s) ==
  IF s = "failed" THEN {thread[j]}
  ELSE IF kind[j] = "prompt" THEN {thread[j], session[j]} ELSE {"None"}

\* The thread the result names, which the job takes over: that of a turn is the one
\* it was asked for or the one announced last, the others name none.  An error
\* leaves the job its thread.
ResultThread(j, s) ==
  IF s = "failed" THEN {thread[j]}
  ELSE IF kind[j] = "prompt" THEN {thread[j], session[j]} ELSE {None}

\* Mutation: done_event is only set on success.
EndDoneOnSuccess(j, s) ==
  /\ status' = [status EXCEPT ![j] = s]
  /\ \E t \in ResultThread(j, s) : thread' = [thread EXCEPT ![j] = t]
  /\ updated' = [updated EXCEPT ![j] = now]
  /\ notices' = Append(notices, j)
  /\ done' = IF s = "completed" THEN done \cup {j} ELSE done
  /\ task' = [task EXCEPT ![j] = "over"]
  /\ JOBS' = Pruned(JOBS, status', updated')
  /\ UNCHANGED <<created, given, pending, held, now>>

\* The end of _run_job: the result or the error, the notice, done_event and a
\* pruning.  Nothing in the gateway cancels the task, so it ends in no other way.
End(j, s) ==
  /\ status' = [status EXCEPT ![j] = s]
  /\ \E t \in ResultThread(j, s) : thread' = [thread EXCEPT ![j] = t]
  /\ updated' = [updated EXCEPT ![j] = now]
  /\ notices' = Append(notices, j)
  /\ done' = done \cup {j}
  /\ task' = [task EXCEPT ![j] = "over"]
  /\ JOBS' = Pruned(JOBS, status', updated')
  /\ UNCHANGED <<created, given, pending, held, now>>

\* An exec job, and an app-server job whose cwd does not exist any more, end
\* without leaving the event loop.
RunInline(j) ==
  /\ NextTask(j)
  /\ j \in JOBS
  /\ End(j, "failed") \/ (kind[j] = "exec" /\ End(j, "completed"))

InSlot == {j \in Job : task[j] \in {"working", "asking", "answered"}}

\* Mutation: one thread of the pool is never used.
TakeSlotOneShort(j) ==
  /\ task[j] = "submitted"
  /\ \A i \in Job : task[i] = "submitted" => j <= i
  /\ Cardinality(InSlot) < Slots - 1
  /\ task' = [task EXCEPT ![j] = "working"]
  /\ UNCHANGED <<JOBS, created, dictVars, done, held, notices, now>>

\* The executor serves its queue in order.
TakeSlot(j) ==
  /\ task[j] = "submitted"
  /\ \A i \in Job : task[i] = "submitted" => j <= i
  /\ Cardinality(InSlot) < Slots
  /\ task' = [task EXCEPT ![j] = "working"]
  /\ UNCHANGED <<JOBS, created, dictVars, done, held, notices, now>>

\* Mutation: the callback is posted to the event loop, where it may run late.
MessagePosted(j) ==
  /\ task[j] \in {"working", "returned", "over"}
  /\ \E p \in 1..MaxPending : pending' = [pending EXCEPT ![j] = p]
  /\ thread' \in {thread} \cup {[thread EXCEPT ![j] = t] : t \in Thread}
  /\ updated' = [updated EXCEPT ![j] = now]
  /\ UNCHANGED <<JOBS, created, given, status, task, done, held, notices, now>>

\* A message of the app-server leaves something to drain; how much depends on what
\* the buffer trims and on the writes of the pointer it overtakes (PendingEvents).
\* A thread/started makes the thread it names that of the job, whoever started it.
Message(j) ==
  /\ task[j] = "working"
  /\ \E p \in 1..MaxPending : pending' = [pending EXCEPT ![j] = p]
  /\ thread' \in {thread} \cup {[thread EXCEPT ![j] = t] : t \in Thread}
  /\ updated' = [updated EXCEPT ![j] = now]
  /\ UNCHANGED <<JOBS, created, given, status, task, done, held, notices, now>>

\* Also a job without a prompt is asked, for the turns of others on its thread.
Ask(j) ==
  /\ task[j] = "working"
  /\ task' = [task EXCEPT ![j] = "asking"]
  /\ status' = [status EXCEPT ![j] = "waiting_approval"]
  /\ updated' = [updated EXCEPT ![j] = now]
  /\ UNCHANGED <<JOBS, created, given, thread, pending, done, held, notices, now>>

Resume(j) ==
  /\ task[j] = "answered"
  /\ task' = [task EXCEPT ![j] = "working"]
  /\ status' = [status EXCEPT ![j] = "running"]
  /\ updated' = [updated EXCEPT ![j] = now]
  /\ UNCHANGED <<JOBS, created, given, thread, pending, done, held, notices, now>>

\* The worker thread is free; the loop has not taken the result yet.
Leave(j) ==
  /\ task[j] = "working"
  /\ task' = [task EXCEPT ![j] = "returned"]
  /\ UNCHANGED <<JOBS, created, dictVars, done, held, notices, now>>

Finish(j) ==
  /\ task[j] = "returned"
  /\ \E s \in Terminal : End(j, s)

-----------------------------------------------------------------------------
(* Requests about existing jobs.  Each prunes first.                       *)

\* POST .../approval: 404 when the job is gone.
Decide(j) ==
  /\ Prune
  /\ j \in JOBS'
  /\ task[j] = "asking"
  /\ task' = [task EXCEPT ![j] = "answered"]
  /\ UNCHANGED <<created, dictVars, done, held, notices, now>>

\* A poll that is due (next_poll_after <= now) bumps updated_at.
Bumped(j) == \/ updated' = [updated EXCEPT ![j] = now]
             \/ UNCHANGED updated

\* GET /codex/jobs/{job_id} answered at once.
Poll(j) ==
  /\ Prune
  /\ j \in JOBS'
  /\ status[j] \in {"queued", "running"}
  /\ Bumped(j)
  /\ UNCHANGED <<created, given, status, thread, pending, task, done, held, notices, now>>

\* The same, held back for new progress.
Hold(j) ==
  /\ Prune
  /\ j \in JOBS'
  /\ status[j] \in {"queued", "running"}
  /\ Cardinality(held) < MaxHeld
  /\ held' = held \cup {j}
  /\ UNCHANGED <<created, dictVars, task, done, notices, now>>

\* Mutation: the job is stored again after the wait.
ReleaseReinserts(j) ==
  /\ j \in held
  /\ held' = held \ {j}
  /\ JOBS' = Pruned(JOBS, status, updated) \cup {j}
  /\ UNCHANGED <<created, dictVars, task, done, notices, now>>

\* It returns.  Whatever the job has become by then, the status tested before the
\* wait decides that it is bumped.
Release(j) ==
  /\ j \in held
  /\ held' = held \ {j}
  /\ Prune
  /\ IF j \in JOBS' THEN Bumped(j) ELSE UNCHANGED updated
  /\ UNCHANGED <<created, given, status, thread, pending, task, done, notices, now>>

\* Mutation: the pointer is set to the last row returned even if it is behind.
ReadEventsAgain(j) ==
  /\ Prune
  /\ j \in JOBS'
  /\ task[j] \notin {"none", "created", "submitted"}
  /\ \E p \in 0..MaxPending : pending' = [pending EXCEPT ![j] = p]
  /\ UNCHANGED <<created, given, status, updated, thread, task, done, held, notices, now>>

\* GET .../events returns some rows and moves the pointer: forward, but while the
\* worker runs a reader that it overtook moves it back.
ReadEvents(j) ==
  /\ Prune
  /\ j \in JOBS'
  /\ pending[j] > 0
  /\ \E p \in 0..MaxPending :
       /\ task[j] = "over" => p < pending[j]
       /\ pending' = [pending EXCEPT ![j] = p]
  /\ UNCHANGED <<created, given, status, updated, thread, task, done, held, notices, now>>

\* Any other request about a job (result, diffs, trace, a status asked of a job
\* that is not queued or running, one that is refused).
Glance == Prune /\ UNCHANGED <<created, dictVars, task, done, held, notices, now>>

\* Mutation: the jobs reported are not drained.
AttachOnly ==
  /\ notices # <<>>
  /\ notices' = Tail(notices)
  /\ UNCHANGED <<JOBS, created, dictVars, task, done, held, now>>

\* A JSON response carries the oldest notices; the jobs reported in it are
\* drained if they are still in the table (:356-362).
AttachNotices ==
  LET n    == IF Len(notices) < NoticeLimit THEN Len(notices) ELSE NoticeLimit
      told == {notices[i] : i \in 1..n}
  IN  /\ notices # <<>>
      /\ notices' = SubSeq(notices, n + 1, Len(notices))
      /\ pending' = [j \in Job |-> IF j \in told \cap JOBS THEN 0 ELSE pending[j]]
      /\ UNCHANGED <<JOBS, created, given, status, updated, thread, task, done, held, now>>

Tick ==
  /\ now < MaxTime
  /\ now' = now + 1
  /\ UNCHANGED <<JOBS, created, dictVars, task, done, held, notices>>

-----------------------------------------------------------------------------

RunStep(j) ==
  StartPruned(j) \/ Start(j) \/ RunInline(j) \/ TakeSlot(j) \/ Resume(j) \/ Finish(j)

Next ==
  \/ \E k \in Kinds, t \in Thread \cup {None} : Create(k, t)
  \/ \E j \in Job :
       \/ RunStep(j) \/ Message(j) \/ Ask(j) \/ Leave(j)
       \/ Decide(j) \/ Poll(j) \/ Hold(j) \/ Release(j) \/ ReadEvents(j)
  \/ Glance \/ AttachNotices \/ Tick

Spec == Init /\ [][Next]_vars

(* The loop and the executor run what is ready.  The app-server ends every *)
(* turn unless it is asking, and the operator answers what can be          *)
(* answered: both are assumptions about the environment.                   *)
FairSpec ==
  /\ Spec
  /\ \A j \in Job : /\ WF_vars(RunStep(j))
                    /\ SF_vars(Leave(j))
                    /\ SF_vars(Decide(j))

-----------------------------------------------------------------------------
(* Properties.                                                             *)

\* Every job is somewhere between its creation and its end.
TypeOK ==
  /\ JOBS \subseteq 1..created /\ created \in 0..MaxJobs
  /\ kind \in [Job -> Kind] /\ session \in [Job -> Thread \cup {None}]
  /\ status \in [Job -> Active \cup Terminal]
  /\ updated \in [Job -> 0..MaxTime]
  /\ thread \in [Job -> Thread \cup {None}]
  /\ pending \in [Job -> 0..MaxPending]
  /\ task \in [Job -> {"none", "created", "submitted", "working", "asking",
                       "answered", "returned", "over", "crashed"}]
  /\ done \subseteq Job /\ held \subseteq Job
  /\ notices \in Seq(Job)
  /\ now \in 0..MaxTime

\* A burst of jobs does not grow the table: creation prunes before it inserts
\* (:2607), so at most one job is over the limit, until the next request.
TableBound == Cardinality(JOBS) <= MaxItems + 1

\* done_event is set exactly when the job has its final status: a POST /codex
\* that wakes up finds a result or an error and never falls through to the
\* second execution of the same payload at :2378.
DoneMeansEnded == \A j \in Job : j \in done <=> status[j] \in Terminal

\* A job reported in gateway_notifications has nothing left to drain, if it is
\* still in the table (:334-336): no event arrives after the notice.
ReportedIsDrained ==
  \A j \in JOBS :
    task[j] = "over" /\ (\A i \in 1..Len(notices) : notices[i] # j) => pending[j] = 0

\* The undrained events of the jobs as their views show them.
phase == [j \in Job |->
            IF task[j] # "over" THEN "producing"
            ELSE IF \E i \in 1..Len(notices) : notices[i] = j THEN "over" ELSE "noticed"]

visible == [j \in Job |-> IF j \in JOBS THEN pending[j] ELSE 0]

Counter == INSTANCE PendingEvents WITH Job <- Job, phase <- phase, pending <- visible

\* The events of the jobs that ended only drain away, whichever requests, prunings
\* and notices come in between, and after its notice a job shows none for good
\* (pending_events_count, cgw/jobs.py:45; :322-337, :2920-2934).
ImplementsPending == Counter!Spec

\* A job that ended stays as it ended: no late answer, released poll or message of
\* the app-server, which names threads as long as the worker reads (:2432), changes
\* its status or its thread.
TerminalFinal ==
  [][\A j \in Job : status[j] \in Terminal =>
       status'[j] = status[j] /\ thread'[j] = thread[j]]_vars

\* What a client observes is a run of the abstract life cycle: in particular a
\* pruned job does not come back, although its task and worker go on writing
\* to its dictionary.
view == [j \in Job |-> IF j > created THEN "unknown"
                       ELSE IF j \in JOBS THEN status[j] ELSE "gone"]

Lifecycle == INSTANCE JobLifecycle WITH Job <- Job, view <- view

ImplementsLifecycle == Lifecycle!Spec

\* Every job created ends, if the table has room for all and the operator
\* answers what is asked: neither the executor's queue nor the jobs blocked in
\* an approval keep one waiting for ever.
EveryJobEnds == \A j \in Job : (task[j] = "created") ~> (task[j] = "over")

\* "If status is waiting_approval, ask user and submit decision: POST
\* /codex/jobs/{job_id}/approval" (README.md:308): a job that waits for a
\* decision can be given one.
WaitingAnswerable == \A j \in Job : task[j] = "asking" => j \in JOBS

=============================================================================
