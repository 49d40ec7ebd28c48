------------------------------ MODULE EventBuffer ------------------------------
(***************************************************************************)
(* The raw event buffer of one job.                                        *)
(*                                                                         *)
(* The worker thread numbers each app-server message, appends it to        *)
(* job["events"] and trims the list to JOB_EVENT_BUFFER_MAX_ITEMS rows     *)
(* (_append_job_event, codex_gateway.py:586).  The event-loop thread       *)
(* serves GET .../events: it walks the same list by index, as a Python     *)
(* list iterator does, and moves job["last_drained_seq"] to the highest    *)
(* row it returned (:2890).  The handler never awaits, so one is in        *)
(* progress at a time, but nothing stops the worker between two of its     *)
(* steps.  Once the job is terminal a notice attached to some response     *)
(* empties the buffer (_drain_job_events, :322).                           *)
(*                                                                         *)
(* A row is its sequence number; method and payload play no part, nor does *)
(* the truncation of long payloads (max_chars).                            *)
(***************************************************************************)
EXTENDS Naturals, Sequences

CONSTANTS
  Cap,         \* JOB_EVENT_BUFFER_MAX_ITEMS
  MaxEvents,   \* bound: messages the app-server sends
  MaxLimit     \* bound: largest "limit" a client asks for

\* The code takes any integer (:80) and defaults to 400.  A buffer of no rows could
\* never be drained: a job with events would conflict for good.
ASSUME CapAssumption   == Cap \in Nat \ {0}
ASSUME BoundAssumption == MaxEvents \in Nat /\ MaxLimit \in Nat \ {0}

VARIABLES
  pc,          \* where the worker stands; "ended": the job is terminal
  eventSeq,    \* job["event_seq"]
  events,      \* job["events"], the sequence numbers of its rows
  drained,     \* job["last_drained_seq"]
  firstSeq,    \* the worker's first_seq
  rpc,         \* where the GET handler stands
  since,       \* its since_seq
  limit,       \* its limit
  index,       \* the row its iterator reads next
  page         \* the rows it collected

workerVars == <<pc, firstSeq>>
readerVars == <<rpc, since, limit, index, page>>
jobVars    == <<eventSeq, events, drained>>
vars       == <<workerVars, readerVars, jobVars>>

Pending == IF eventSeq > drained THEN eventSeq - drained ELSE 0

Init ==
  /\ pc = "idle" /\ firstSeq = 0
  /\ eventSeq = 0 /\ events = <<>> /\ drained = 0
  /\ rpc = "idle" /\ since = 0 /\ limit = 1 /\ index = 1 /\ page = <<>>

-----------------------------------------------------------------------------
(* The worker thread: _append_job_event, called once per message.          *)

\* The number is published before the row.
Number ==
  /\ pc = "idle"
  /\ eventSeq < MaxEvents
  /\ eventSeq' = eventSeq + 1
  /\ pc' = "append"
  /\ UNCHANGED <<events, drained, firstSeq, readerVars>>

AppendRow ==
  /\ pc = "append"
  /\ events' = Append(events, eventSeq)
  /\ pc' = IF Len(events) + 1 > Cap THEN "trim" ELSE "idle"
  /\ UNCHANGED <<eventSeq, drained, firstSeq, readerVars>>

\* Mutation: one row too many is kept.
TrimLate ==
  /\ pc = "trim"
  /\ events' = SubSeq(events, Len(events) - Cap, Len(events))
  /\ firstSeq' = events'[1]
  /\ pc' = "test"
  /\ UNCHANGED <<eventSeq, drained, readerVars>>

\* Mutation: the newest rows are deleted instead of the oldest.
TrimNewest ==
  /\ pc = "trim"
  /\ events' = SubSeq(events, 1, Cap)
  /\ firstSeq' = events'[1]
  /\ pc' = "test"
  /\ UNCHANGED <<eventSeq, drained, readerVars>>

Trim ==
  /\ pc = "trim"
  /\ events' = SubSeq(events, Len(events) - Cap + 1, Len(events))
  /\ firstSeq' = events'[1]
  /\ pc' = "test"
  /\ UNCHANGED <<eventSeq, drained, readerVars>>

\* "Keep drained pointer inside retained window": a test and then a write.
TestPointer ==
  /\ pc = "test"
  /\ pc' = IF drained < firstSeq - 1 THEN "advance" ELSE "idle"
  /\ UNCHANGED <<firstSeq, jobVars, readerVars>>

AdvancePointer ==
  /\ pc = "advance"
  /\ drained' = firstSeq - 1
  /\ pc' = "idle"
  /\ UNCHANGED <<eventSeq, events, firstSeq, readerVars>>

\* Mutation: the job is marked terminal although a read of its events is in progress.
FinishDuringRead ==
  /\ pc = "idle"
  /\ pc' = "ended"
  /\ UNCHANGED <<firstSeq, jobVars, readerVars>>

\* The worker returned; the loop marks the job terminal, between two handlers.
Finish ==
  /\ pc = "idle"
  /\ rpc = "idle"
  /\ pc' = "ended"
  /\ UNCHANGED <<firstSeq, jobVars, readerVars>>

WorkerStep == AppendRow \/ Trim \/ TestPointer \/ AdvancePointer

-----------------------------------------------------------------------------
(* The event loop: GET .../events, and the drain by a terminal notice.     *)

Open(s, l) ==
  /\ rpc = "idle"
  /\ rpc' = "scan"
  /\ since' = s
  /\ limit' = l
  /\ index' = 1
  /\ page' = <<>>
  /\ UNCHANGED <<workerVars, jobVars>>

\* One turn of "for row in job['events']", which sees the list as it is now.
Scan ==
  /\ rpc = "scan"
  /\ index <= Len(events)
  /\ index' = index + 1
  /\ page' = IF events[index] > since THEN Append(page, events[index]) ELSE page
  /\ rpc' = IF Len(page') >= limit THEN "test" ELSE "scan"
  /\ UNCHANGED <<since, limit, workerVars, jobVars>>

Exhausted ==
  /\ rpc = "scan"
  /\ index > Len(events)
  /\ rpc' = IF page = <<>> THEN "idle" ELSE "test"
  /\ UNCHANGED <<since, limit, index, page, workerVars, jobVars>>

\* Rows come in ascending order, so the last one carries max_seq.
MaxSeq == page[Len(page)]

\* Mutation: a single new row does not move the pointer.
TestDrainedOffByOne ==
  /\ rpc = "test"
  /\ rpc' = IF MaxSeq > drained + 1 THEN "drain" ELSE "idle"
  /\ UNCHANGED <<since, limit, index, page, workerVars, jobVars>>

TestDrained ==
  /\ rpc = "test"
  /\ rpc' = IF MaxSeq > drained THEN "drain" ELSE "idle"
  /\ UNCHANGED <<since, limit, index, page, workerVars, jobVars>>

\* Mutation: the pointer is set to the next row to read.
WriteDrainedNext ==
  /\ rpc = "drain"
  /\ drained' = MaxSeq + 1
  /\ rpc' = "idle"
  /\ UNCHANGED <<since, limit, index, page, eventSeq, events, workerVars>>

\* Mutation: the pointer is moved back before the rows the client asked for.
WriteDrainedBack ==
  /\ rpc = "drain"
  /\ drained' = since - 1
  /\ rpc' = "idle"
  /\ UNCHANGED <<since, limit, index, page, eventSeq, events, workerVars>>

WriteDrained ==
  /\ rpc = "drain"
  /\ drained' = MaxSeq
  /\ rpc' = "idle"
  /\ UNCHANGED <<since, limit, index, page, eventSeq, events, workerVars>>

\* _ack_terminal_job_notices on a response to whatever request comes next.
NoticeDrain ==
  /\ pc = "ended"
  /\ rpc = "idle"
  /\ drained' = eventSeq
  /\ events' = <<>>
  /\ pc' = "noticed"
  /\ UNCHANGED <<eventSeq, firstSeq, readerVars>>

ReaderStep == Scan \/ Exhausted \/ TestDrained \/ WriteDrained

Next ==
  \/ Number \/ WorkerStep \/ Finish
  \/ \E s \in 0..MaxEvents, l \in 1..MaxLimit : Open(s, l)
  \/ ReaderStep
  \/ NoticeDrain

Spec == Init /\ [][Next]_vars

(* Both threads run on; a client told to drain (409) reads on from the     *)
(* pointer the reply showed it, as next_action says (:634).                *)
FollowPointer == Pending > 0 /\ \E l \in 1..MaxLimit : Open(drained, l)

ReaderSpec ==
  Spec /\ WF_vars(WorkerStep) /\ WF_vars(ReaderStep) /\ SF_vars(FollowPointer)

-----------------------------------------------------------------------------
(* Properties.                                                             *)

\* Sequence numbers, pointers and the page stay in range.
TypeOK ==
  /\ pc \in {"idle", "append", "trim", "test", "advance", "ended", "noticed"}
  /\ eventSeq \in Nat
  /\ events \in Seq(Nat)
  /\ drained \in Nat
  /\ firstSeq \in Nat
  /\ rpc \in {"idle", "scan", "test", "drain"}
  /\ since \in Nat
  /\ limit \in Nat \ {0}
  /\ index \in Nat \ {0}
  /\ page \in Seq(Nat)

Appended == IF pc = "append" THEN eventSeq - 1 ELSE eventSeq

\* The rows of the buffer are the latest ones without a hole, whatever the trim
\* and the drain do to it, and there are never more than one over the limit
\* (:600-601).
Window ==
  /\ \A i \in 1..Len(events) : events[i] + Len(events) = Appended + i
  /\ Len(events) <= IF pc = "trim" THEN Cap + 1 ELSE Cap

\* The pointer both threads write without a lock never runs ahead of the last
\* number given out: max(0, ...) in _job_pending_events_count (:610) hides
\* nothing.
PointerBehind == drained <= eventSeq

\* A client refused with "Drain events first" (:644) has something to read: if
\* events are pending, the newest is in the buffer or about to be appended.
\* Without it a job could report pending events that no GET can ever drain.
ConflictResolvable ==
  Pending > 0 /\ pc # "append" =>
    Len(events) > 0 /\ events[Len(events)] = eventSeq

\* A client that follows the pointer gets to the end: once the job stopped
\* producing, its pending events come down to none and stay there, in spite of
\* the pointer being moved back by the lost updates of the two threads.
DrainTerminates ==
  (pc \in {"ended", "noticed"}) ~> [](Pending = 0)

Phase == CASE pc = "ended"   -> "over"
           [] pc = "noticed" -> "noticed"
           [] OTHER          -> "producing"

Counter == INSTANCE PendingEvents
             WITH Job     <- {1},
                  phase   <- [j \in {1} |-> Phase],
                  pending <- [j \in {1} |-> Pending]

\* What the buffer promises the job table: once the job is over no step of a
\* reader that was overtaken by the worker (:2922-2923 against :605-606) raises
\* its pending events again, and the notice leaves none (:334-336).
ImplementsPending == Counter!Spec

\* "Gateway keeps buffered per-job events ... Read buffered deltas via GET"
\* (README.md:293-295): a page has no holes; a row between two rows of the page
\* was in the buffer when they were read.
PageWhole ==
  \A i \in 1..Len(page) - 1 : page[i + 1] = page[i] + 1
=============================================================================
