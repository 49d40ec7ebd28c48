# A verification of codex_gw

codex_gw is a FastAPI gateway (`codex_gateway.py` and the package `cgw`) between
clients that speak HTTP, such as a Custom GPT, and a codex app-server that
speaks JSON-RPC over WebSocket.  A client creates a *job*, polls it, answers
the approvals it asks for, reads its raw events and its diffs, and fetches the
result.  Jobs live in memory only.  This directory holds TLA+ modules of the
parts of the gateway where threads, callbacks and requests interleave, TLC runs
on small instances, and TLAPS proofs for instances of every size.

Line numbers without a file name are those of `codex_gateway.py`.

## 1. Inventory

### Who runs what

- **The event loop** runs all HTTP handlers and the prologue and epilogue of
  `_run_job` (2411).  Between two awaits nothing else runs on it, but a worker
  thread may run between any two of its byte codes.
- **A worker thread** of the default executor (`asyncio.to_thread`, 2397) runs
  each app-server job, with an event loop of its own for the WebSocket.  Its
  callbacks `_on_update` (2428) and `_on_server_request` (2456) write the same
  job dictionary as the handlers, without a lock.
- **An exec job** runs `subprocess.run` inside the event loop: nothing
  interleaves with it.
- **The app-server** is another program.  `protocol/` holds its schemas.

### Components, their state, and what makes them correct

| component | state | operations | what must hold |
|---|---|---|---|
| job registry (`cgw/jobs.py`, 2606-2789) | `JOBS`, `JOB_COUNTER`, per job `status`, `updated_at`, `thread_id`, `done_event` | create, run, end, poll, prune | bounded table; one life cycle per job; `done_event` set exactly at the end; every job ends |
| approval handshake (2456-2564, 2663-2699, `cgw/approval.py`) | `approval_required`, `approval_request`, `approval_decisions`, `approval_policies` | announce, poll, answer, policy; POST approval | the app-server is told what an operator said, and only that; nothing acknowledged is lost |
| event buffer (586-610, 2890-2934) | `events`, `event_seq`, `last_drained_seq` | append, trim, read, drain | rows contiguous and bounded; pending events can be drained |
| progress feed (1146-1188, 2416-2426, 2703-2760) | `progress_items`, `progress_seq`, `notify_event` | report, wake, long poll, delta | no lost wake-up; no milestone skipped |
| app-server client (1269-1522, 872-964) | the conversation on one WebSocket | a job's: initialize, open thread, turn, stream, answer server requests; a handler's: initialize, one request | every server request answered; nothing but an accepted request taken as such; result only after the own turn; ends, unless the server talks for ever |
| terminal notices (315-370) | `TERMINAL_JOB_NOTICES` | push at the end, attach to a response and drain | a reported job has nothing left to drain |
| diff feeds (452-536, 2572-2593, 2793-2886) | `latest_diff_text`, `diff_live_version`, `diff_live_updates`, `final_diff_text` | register, trim, read live, end, read final | a live poll returns the newest diff; the final diff is the last; no client is left behind |
| thread context (666-734, 844-869, 1842-1882, 1963-2060, 2094-2249) | none of its own; the app-server's threads, the executor's queue | find latest, resume, create; change of model, skills | the thread was opened for this request and is one of the directory asked for, as far as the handler can know; none created in vain; fallbacks end |
| managed app-server process (373-405) | the child process | start, stop | no orphan |
| authentication, configuration, protocol registry, state database, projects, skills, models, repository endpoints, text helpers, templates | none, or fixed at start | | stateless |

### What is hard here

1. **Shared dictionaries without a lock.**  Worker and loop both test and then
   write `last_drained_seq`; the handler reads `approval_request` three times
   while the worker clears it; sequence numbers are published before their rows.
2. **Iterating over a list that shrinks** (2904 against 601).
3. **A callback across threads** wakes the polls (`call_soon_threadsafe`, 2426),
   guarded by an `is_set()` that may be stale, on an event each poll clears.
4. **State read before an await and used after it** (2718 and 2742).
5. **Forgetting jobs** (`prune_jobs`): expiry and overflow run on every request,
   also while a job runs, waits for its task, or waits for an operator.
6. **Waiting for a human in a thread of a shared pool**, without a timeout.
7. **A conversation in which responses, requests of the server and
   notifications mix**, with ids chosen independently by both sides.
8. **Handlers that await one RPC after another** on threads other requests, turns
   and other clients of the app-server change in between, with a retry, two
   fallbacks and a creation that waits for the executor the jobs use.

`PROJECT.json` lists every such place with its line under `hazards`.

## 2. Modules

| module | what it is | maps to |
|---|---|---|
| `ApprovalContract` | abstract: what an operator is promised: asked, recorded, answered | what the keys of the next module stand for |
| `Approvals` | the worker's and the POST handler's accesses to the approval keys, one action each | 2456-2564, 2663-2699, `map_approval_decision` |
| `PendingEvents` | abstract: the undrained events of jobs, as others see them | 609-610, `pending_events_count` of `format_job_view` |
| `EventBuffer` | the worker's and the GET handler's accesses to the events and the pointer | 586-610, 2890-2934, 322-337 |
| `ProgressFeed` | milestones, `notify_event`, callbacks of the loop, long polls | 1146-1188, 2416-2426, 2703-2741 |
| `AppServerClient` | one call of `_run_codex_via_app_server_ws`, or of the one-shot `_app_server_rpc`, and the server it talks to | 872-964, 1304-1522 |
| `ThreadContext` | the handlers that look for a thread, one action per RPC, the executor they share with the jobs, and other clients of the app-server | 613-734, 844-869, 1842-1882, 1963-2060, 2094-2249 |
| `DiffFeed` | the worker's and the live poll's accesses to the diffs; the end of the job and the final diff | 508-536, 2572-2593, 2793-2886 |
| `JobLifecycle` | abstract: what a client may observe of its jobs | status strings of `format_job_view` |
| `JobRegistry` | the table, tasks, executor, handlers as atomic actions | `cgw/jobs.py`, 315-370, 613-648, 2385-2789 |
| `MC*` | instances for TLC | |
| `*Proofs` | theorems checked by TLAPS | |

How they fit together: `JobRegistry` treats what the other modules take apart
as one step each (`Ask` and `Decide` stand for the handshake of `Approvals`,
`Message` and `ReadEvents` for `EventBuffer`, `Poll`, `Hold` and `Release` for
`ProgressFeed`, `Leave` for the end of the conversation of `AppServerClient`).
Two abstract modules say what may be
relied on in this.  `PendingEvents` is implemented by `EventBuffer`, for one job and
access by access, and by `JobRegistry`, for all jobs and request by request: what
`JobRegistry` assumes of a buffer in `Message` and `ReadEvents`, among it that the
count of a running job can rise when a reader that was overtaken writes the pointer,
is what `EventBuffer` shows of it.  `ApprovalContract` is implemented by `Approvals`:
its three actions `Ask`, `Answer` and `ProceedAsBefore` are what a whole turn of the
worker's handshake comes to, its `Acknowledge` what a POST comes to.
The keys the modules describe are disjoint but for `status`, which all threads
of a job write in the order `JobRegistry` gives.  `ThreadContext` takes an RPC as
one step with an outcome: `AppServerClient` shows of its one-shot calls that they
end and return nothing the server did not accept, as long as no request of a turn
of others carries a number of the client's (see Disagreements); `ThreadContext`
takes results as genuine.  The jobs in `ThreadContext`
are those of `JobRegistry`, reduced to the executor's threads they occupy and the
pending events the guard at 620 looks at.

**Granularity.**  A handler that never awaits is atomic towards other handlers
and interleaves with the worker wherever both touch a key.  In `Approvals`,
`EventBuffer`, `ProgressFeed` and `DiffFeed` an action therefore touches shared keys once.
Exceptions are stated at the action: two reads are joined when no step of the
other thread between them leads anywhere one read would not
(`Approvals!Refuse`).

**Abstractions.**  A request is a record of its id, its type, the head of its
summary (the 120 characters the policy key keeps) and whether it proposes an
amendment; `guidance_text` is whether anything is left of it after `strip()`.
Events and milestones are their numbers.  `pending` in `JobRegistry` is
`event_seq - last_drained_seq`.  Threads are model values.  Time is counted in
ticks; `next_poll_after` is the choice whether a poll bumps `updated_at`.

**The external app-server** is modelled from what the client relies on and from
the schemas.  In `AppServerClient` (`Serve`, which accepts or refuses, `Attach`,
`EndTurn`, `AskClient`, and for the turns of others `EndForeignTurn`, `AskForeign`,
`Resolve`) it serves in order, ends a turn only when its requests were answered,
and shows a subscriber the turns others run on the thread and what they ask, from
the moment it begins to resume the thread.  It may send other notifications for ever
(`Chatter`); only how many are under way at a time is bounded.  The connection is
FIFO, as a WebSocket is; it may break at any time.  In `ThreadContext` it is the
directory of each thread and whether the thread can be resumed, which other clients
(`OtherStart`), turns that bring a directory (`RunTurn`, by `Skill` or by another
client's `OtherTurn`) and the server itself (`Forget`) change at any time; which of a
directory's threads is the latest is left open.

## 3. Runs

Each run finishes within three minutes; the numbers are distinct states.

| run | instance and bounds | shows |
|---|---|---|
| `approvals` | two requests sharing a policy key, one with an amendment; all decisions that map differently (106k) | `NoPreApproval`, `Authority`, `TerminalNotAsking`, `ImplementsContract`; with a persistent operator `AckTakesEffect`, `Answered` |
| `events` | `Cap` 2, five events, pages up to 3 (15k): three trims, and a page can span one | `Window`, `PointerBehind`, `ConflictResolvable`, `ImplementsPending`, `DrainTerminates` |
| `registry` | three jobs of all kinds, table for one, TTL 0, two instants, one executor thread, one held poll, two pending events (5.0M): overflow, expiry, jobs forgotten before, during and after they run, a pointer that moves back, threads the server announces | `TableBound`, `DoneMeansEnded`, `ReportedIsDrained`, `TerminalFinal`, `ImplementsLifecycle`, `ImplementsPending` |
| `registry_ends` | three jobs, one executor thread, room for all, time stands still | `EveryJobEnds` |
| `progress` | two pollers, four milestones, two kept, two a page (1.24M) | `NoLostWakeup`, `PollersWake`, `ItemsFollow` |
| `diffs` | two rows, five diffs, all modes (17k): three trims, two of them within one poll | `NewestReturned`, `RowsMatch`, `FinalIsLast`, `LiveCaughtUp`, `FinalReaches` |
| `client` | the four kinds of job call and three kinds of one-shot call, two server ids, one equal to an id of the client's, one turn and one request of others, other notifications for ever, two of them under way (1.22M) | `RequestsAnswered`, `AcceptedBeforeStream`, `UndisturbedReturn`, `CallEnds` |
| `threads` | two requests of every kind, two directories, three threads, one executor thread, other clients that start threads, a turn of theirs that moves one to the other directory, threads that become unusable (1.39M) | `ThreadVouchedFor`, `NoNeedlessThread`, `EveryRequestAnswered` |

`CHECK_DEADLOCK FALSE` appears only for `AppServerClient`, whose call ends, for
`ThreadContext`, whose requests do, and for `DiffFeed`, where a job that ends
without a diff leaves nothing to do.

The bounds are enough because the components treat requests, rows, jobs and
milestones alike: two of each are needed for one to be overtaken by another,
a third for a trim or an overflow with one left.  What a larger instance could
still show is excluded by the theorems below, which hold for every size, for
the properties named there.

### Fairness

- Threads run: weak fairness of the worker's and the handlers' steps, strong
  where another handler may hold the loop in between (`ProgressFeed`).
- The operator answers what can be answered (`OperatorSpec`, `Decide` in
  `JobRegistry!FairSpec`), as README.md:308 asks.  Without it a job waits for
  ever: the wait has no timeout (2509).
- A client told to drain reads on from the pointer (`ReaderSpec`), as
  `next_action` (634) says.
- The app-server ends its turns in `JobRegistry!FairSpec` (`Leave`).  In
  `AppServerClient` nothing is assumed of it, not even that it falls silent: the
  timeout (1319, 918, 942) is per message, every message starts it anew, and none is
  set on the call.  So `CallEnds` says that the call ends or messages come for ever;
  only the operator must answer.
- In `ThreadContext!FairSpec` an RPC ends, with a result or an error, because its
  timeout ends it (`CallEnds` of the one-shot calls), which leaves out a server that
  talks to one connection for ever; the executor serves its
  queue; and the jobs that hold its threads end as in `JobRegistry`.  The
  retry without `excludeTurns` needs no fairness: the code makes it once (855).
- Jobs end in `DiffFeed!ClientSpec` (shown by `registry_ends`), and its client asks
  as README.md:304-305 says, going on from the last row it holds.
- No fairness is assumed of timeouts of long polls: waking must not rest on
  them.

### Runs that end in a counterexample

Each checks a statement of the documentation, a comment or a test that the code
does not keep.

| run | statement | how it fails |
|---|---|---|
| `approvals_none` | a post that finds nothing pending gets 409 (2673-2674) | the worker clears `approval_request` between the guard and the read at 2676; `None.get` raises, 500 |
| `events_page` | buffered events are read with `GET .../events` (README.md:293-295) | the trim at 601 shifts the list under the iterator at 2904; a buffered row is skipped and the pointer passes it |
| `registry_waiting` | a waiting job can be given a decision (README.md:308) | overflow drops the job longest not updated; a waiting one is not bumped by polls; then 404, and its worker polls for ever |
| `client_foreign` | stream until the turn's `turn/completed` (1507) | the notification's turn is not compared (1347) |

### Disagreements noted without a run

One look at the code shows these, so no run is spent on them.

- `GET .../result` answers 200 for a job in `waiting_approval` (2773), against
  README.md:317-318.
- Only active jobs of a thread stop a new one (620); README.md:301 says any
  pending buffered events do.  `tests/test_event_queue.py:47-63` expects the code.
- A completed job without a prompt loses its `thread_id` (2576 with 1482-1491),
  and the thread guard then refuses a client that names it.
- The drained pointer can be written behind the window by a late reader (2923),
  against the comment at 602.  It is harmless: `DrainTerminates` holds.
- Items are compared with type `agent_message` (1344, 2449, `cgw/jobs.py:83`);
  the schemas call them `agentMessage`.
- Polling is called read-only (README.md) but writes `updated_at`,
  `next_poll_after` and `last_drained_seq`.
- The `current_seq` of a progress reply (1177) can be read after the items were
  copied and before the milestone it counts is appended (1162); a client that goes
  on from it as `since_progress_seq` (2706, `tests/test_admin_api.py:625-634`) misses
  the milestone.  The clients of `ProgressFeed` go on from the last item.
- In the same way the `diff_live_version` of a live reply can count a diff that is
  not in it (2815, 516).  `DiffFeed`'s client goes on from the last row.
- A response is recognised by its id alone (1391, 948).  A request of another
  connection's turn with an id the client uses passes for the response to
  `turn/start`; in a one-shot call it passes for an empty result, after which
  `context/switch` finds no thread in it (2164) and creates one.  TLC shows
  the first when `others` is taken out of `AcceptedBeforeStream`.
- Approvals of turns that others run on a job's thread are announced to the job's
  operator (1363), and while a one-shot `thread/resume` is open they are refused with
  -32004 (952-963).  Whether the app-server takes the first answer is its own
  affair; `README.md` says nothing of threads used from two sides.
- The turn of `skills/invoke` runs on after its connection was closed (2011): what
  it asks reaches nobody, and its result only who looks for it in the thread.
  The `cwd` of the request goes into `turn/start` and so stays the thread's
  directory (`TurnStartParams.json:35`).  A handler that has listed the thread under
  its former directory goes on with it; `ThreadVouchedFor` exempts such requests
  (`strayed`).
- `context/switch` takes the thread's id from the result of a resume (2165, 2202), and a
  result without one makes it create a thread although the latest was resumed.
  `NoNeedlessThread` exempts such requests (`nameless`).
- A `thread/started` makes the thread it names the job's (2432-2436), whichever turn
  it belongs to.
- A server that keeps sending messages holds a call for ever, in the executor or in a
  handler: `APP_SERVER_TIMEOUT_SECONDS` is the time between two messages.
- A job that is pruned before its task starts never sets `done_event` (2412 raises).
- A job with an explicit `thread_id` leaves `cwd`, `model` and `sandbox` of its payload
  without effect: `turn/start` names thread and input only (1493-1504).
- `context/switch` with an `app_server_url` of its own still reads the project from the
  default app-server (2149, 1661-1662).
- Two requests for a directory that has no thread each create one (705).  No
  document forbids it; `NoNeedlessThread` permits it.
- A `final_only` client that waits for `diff_final_available` (README.md:305) waits
  for ever if the job fails or sent no diff: then only `diagnostic_diff_available`,
  or nothing, is set.
- "Prefer explicit diff-like keys first" (494): the longest candidate wins (504),
  whatever its key.
- `GATEWAY_JOB_FIRST_POLL_GRACE_SECONDS` is documented and not read.

## 4. Theorems

The proofs are in `ApprovalsProofs`, `EventBufferProofs`, `JobRegistryProofs`,
`ProgressFeedProofs`, `DiffFeedProofs`, `ThreadContextProofs` and
`AppServerClientProofs`.  They use no assumption but the named
`ASSUME`s on the constants: request ids are unique and `NoRequest` is none of them
(`RequestAssumption`), posts carry known decisions (`OfferedAssumption`), the
buffer holds at least one row (`CapAssumption`; the code does not enforce it, a
buffer of none could never be drained), the requests in progress are finitely many
(`ContextAssumption`), the server does not number a request 0
(`ClientAssumption`), sizes are natural numbers.  TLC evaluates
them in every run.

- **Approvals.**  `Authority` alone is not inductive.  A decision is parked under
  a request that was shown (`HandlerInv`, `DecisionsInv`), which rests on the
  handler matching the id against the request published (`ShownInv`) and on ids
  being unique; the worker pops it for the request it handles (`TakenInv`,
  `CurInv`); a policy key stems from an acknowledged decision (`PolicyInv`).  From
  that: `OnlyAuthorized`, `NeverPreApproved`, `EndedAsksNothing`.  `Refinement`, that
  the two threads implement `ApprovalContract`, needs of the policies more than
  `Authority` does: the request a policy stems from was itself told to proceed, and it
  is known by the same key (`PolicyInv`).  Every step of the worker but announcing,
  the answer by policy and `Resume`, and every step of the handler but `Store`, is a
  stutter.  `StatusAlongLifecycle`: the status, written at three places here, moves
  along the edges of `JobLifecycle`, which is what `JobRegistry` takes from this module.
- **EventBuffer.**  `Window` needs to know that the row the worker remembers is
  the oldest (`WorkerInv`); `PointerBehind` that the reader collected given
  numbers only (`PageInv`); `ConflictResolvable` that the buffer is empty only
  before the first row and after the notice (`EmptyInv`, `NoticedInv`), after
  which nobody is left who could move the pointer.  `PageInOrder` says that a page
  ascends although the list is cut while it is walked: the iterator stands behind the
  last row of the page, and a cut moves the rows towards it, never away (`OrderInv`).
  So a cut can make the page skip a row but never repeat one, and `max` at 2921 is
  the last row.  `Refinement` is
  `PendingEvents` for the buffer: once the job is over the worker adds nothing, and a
  reader that writes the pointer writes one at or beyond it (`OverInv`).
- **JobRegistry.**  One invariant, `PlaceInv`: the place of a job's task
  determines its status and `done_event`.  From it `DoneExactlyAtEnd`,
  `EndIsFinal` (the worker writes status and thread only in places an ended job has
  left) and, with what one step may do to the table (`TableSteps`) and
  to the statuses (`StatusSteps`), `Refinement`: the registry implements
  `JobLifecycle` under `view`.  `TableStaysBounded` rests on `PrunedBound`: all jobs
  pruning keeps, but the oldest of them, are newer than that one, and it has fewer
  than `MaxItems` of those; that a finite set of jobs has an oldest (`Oldest`) is
  well-foundedness of inclusion.  `ReportedHasNoEvents` is inductive given `PlaceInv`:
  a notice leaves the queue together with the drain, and a job that left the
  table does not come back.  `PendingRefinement`, the same count for the whole table,
  is taken apart by what a step can do to one job (`CounterStep`): every handler
  prunes first, and one response takes several jobs from `over` to `noticed`.
- **ProgressFeed.**  While somebody waits the event is not set (`WaitInv`), so the
  worker's test cannot skip the callback; between a handler's test and its wait either
  the event is set or a callback is scheduled (`CheckInv`), and nobody else can clear it
  then, because one handler holds the loop (`LoopInv`).  `NoItemMissed` is about copies
  of a list that is filtered, cut to its latest rows and only then tested for a gap
  (1161-1182): the numbers of the list and of every copy are a run without a hole
  (`IsRun`; kept by `AppendNumbers`, `LatestNumbers` and `AfterNumbers`), of one number
  too many between append and trim, and a copy that does not begin where the client
  stopped was cut, in the list or in the page (`CInv`).
- **DiffFeed.**  A poll walks the list by index while the worker appends and
  trims.  `NewestReturned` alone is not inductive: during the walk the poll has
  what it owes, or its index is within the rows the next trim leaves (`Kept` in
  `LiveInv`).  The row there is new enough because rows are numbered without a
  hole (`WindowInv`) and a version counts as registered only when its
  registration returned.  It would be false for the row just appended and not
  trimmed for: the next trim can move it behind the index.  `FinalIsLast` rests
  on the worker having returned before the job ends (`WorkerInv`, `FinalInv`).
- **ThreadContext.**  A handler holds a directory and a thread id across its awaits,
  while others create threads.  The invariant states for each await what the request
  already has: the directory is the one asked for, the thread held belongs to it or has
  been moved since (`strayed`), and once the request goes on to the guard or to its
  answer the thread was resumed or started for it; what it started, and why (`lacking`,
  `nameless`).  It is inductive because only a turn changes the directory of a thread
  once started, and it makes strays of exactly those that already go by it; that a
  request waits in the queue at most once and is where the queue says needs an invariant
  of its own (`QueueInv`).  From it `EveryThreadVouchedFor` and `NoThreadInVain`, for
  any number of requests.
- **AppServerClient.**  `OnlyAccepted` says that the client streams only a turn the
  server started, although it knows responses by their number alone.  The
  invariant describes both channels as sets of messages: no request of the client
  under way is newer than the one awaited, and the one with its number asks what
  the client waits for (`ToServerInv`); numbers are fresh (`NumberInv`); a response
  under way answers that request or an older one (`Known` in `ToClientInv`, hence
  `Genuine` and `AcceptInv`).  A request of the server can carry the awaited number
  only if it comes from a turn of others, since the own turn asks nothing before
  it was accepted (`StartInv`, `TurnInv`).  `NoRequestLost` and, with `CompletedInv`,
  `ReturnAfterOwnTurn` follow from the same invariant, for conversations of any
  length.  `AnsweredAtMostOnce` needs another one (`SingleInv`): a message read while
  the client waits for a response passes through two loops, and still a request of
  the server is in one place only, under way, with the operator, or answered, and
  what left these places does not come back.

Each inductive invariant was checked by TLC on the instances above before it
was proved.

**Only model-checked:** everything under fairness (`AckTakesEffect`, `Answered`,
`DrainTerminates`, `EveryJobEnds`, `PollersWake`, `LiveCaughtUp`, `FinalReaches`,
`CallEnds`, `EveryRequestAnswered`), which TLAPS cannot prove.  Every invariant, every
action property and every refinement the runs check is proved.  The four statements
that fail are checked only.

## 5. Not modelled, and why

- The middleware's choice of responses that carry notices (408-449) depends on
  the response classes of the framework: it asks whether what `call_next` returned
  is a `JSONResponse` (438), which a framework that wraps it in a streaming response
  denies, and then no notice is ever attached.  `AttachNotices` is
  `_attach_terminal_notices_to_response` as such (340-370), as
  `tests/test_event_queue.py:92-96` calls it, and lets any response carry notices.
- Authentication, configuration, the protocol registry, state database queries,
  the endpoints that forward one request, templates: no state that changes.
- Texts, diffs as texts, labels, logging, the debug trace.
- A process crash: nothing is persisted, a restart is `Init`.  A cancellation of
  `_run_job` (its `finally`, 2589, would then set `done_event` while the status is
  `running`): nothing in the gateway cancels a job's task.
- What a text of an error is taken for (817-841): `ThreadContext` takes the kind of an
  error as the server's word, a text that reads like another kind is left out.
- The managed app-server process: it is started once before the first request
  is served and stopped once after the last, and nobody restarts it when it dies;
  no step of the gateway interleaves with either.
- `threads/list`, `threads/read`, models, skills lists, repository endpoints: each
  forwards one request and keeps nothing.  `ThreadContext` contains those that
  decide which thread is used.
- Long polls of handlers towards each other beyond what `ProgressFeed` shows;
  several jobs in one module only in `JobRegistry` and `ThreadContext`.

## 6. What could follow

The modules follow the order in which the parts depend on each other: the keys
of one job (`Approvals`, `EventBuffer`, `ProgressFeed`, `DiffFeed`), the
conversation that feeds them (`AppServerClient`), the table of jobs
(`JobRegistry` with `JobLifecycle`), the way to a thread (`ThreadContext`).  Next
would be:

1. an abstract numbered feed, implemented by `DiffFeed` and, where they keep to it,
   `EventBuffer` and `ProgressFeed`;
2. pure algorithms against reference definitions over bounded inputs: `prune_jobs` as
   written (two passes, sort and cut) against `Pruned`, the choice of the best diff;
3. `Approvals` composed with `AppServerClient`, in place of `Answer`.
