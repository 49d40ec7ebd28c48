------------------------------ MODULE ProgressFeed ------------------------------
(***************************************************************************)
(* The milestones of one job and the long polls that wait for them.        *)
(*                                                                         *)
(* The worker thread reports through _notify_job_update                    *)
(* (codex_gateway.py:2416): a milestone is numbered and appended, and      *)
(* notify_event is set through call_soon_threadsafe, unless it is set      *)
(* already.  Handlers of GET /codex/jobs/{job_id} (:2703) run on the event *)
(* loop, several at a time, each uninterrupted by the loop's other work    *)
(* except while it awaits notify_event.  The worker interleaves anywhere.  *)
(*                                                                         *)
(* An asyncio.Event wakes everybody who waits when it is set, and those    *)
(* who wait while it is set do not suspend at all (wait_for of Python 3.12 *)
(* and later; before, they suspend for one turn of the loop).              *)
(*                                                                         *)
(* A milestone is its number.  The prologue and the epilogue of _run_job   *)
(* report in the same way from the loop, where less can interleave.        *)
(***************************************************************************)
EXTENDS Naturals, Sequences, FiniteSets

CONSTANTS
  Poller,         \* the clients that poll
  Keep,           \* milestones kept: 100 in the code (:1172)
  PageSize,       \* max_progress_items
  MaxMilestones,  \* bound: milestones of the job
  MaxScheduled    \* bound: callbacks waiting in the loop

ASSUME FeedAssumption ==
  /\ {Keep, PageSize, MaxScheduled} \subseteq Nat \ {0}
  /\ MaxMilestones \in Nat

VARIABLES
  wpc,           \* where the worker stands in _notify_job_update
  progressSeq,   \* job["progress_seq"]
  items,         \* job["progress_items"], the numbers
  isSet,         \* notify_event
  scheduled,     \* notify_event.set callbacks the loop has not run
  ppc,           \* where each poller stands
  since,         \* its since_progress_seq
  snap,          \* its copy of the items
  reply          \* the progress_delta sent last, to whichever client

workerVars == <<wpc, progressSeq, items>>
eventVars  == <<isSet, scheduled>>
pollVars   == <<ppc, since, snap, reply>>
vars       == <<workerVars, eventVars, pollVars>>

NoReply == [since |-> 0, current_seq |-> 0, items |-> <<>>, truncated |-> FALSE]

Init ==
  /\ wpc = "idle" /\ progressSeq = 0 /\ items = <<>>
  /\ isSet = FALSE /\ scheduled = 0
  /\ ppc = [p \in Poller |-> "idle"]
  /\ since = [p \in Poller |-> 0]
  /\ snap = [p \in Poller |-> <<>>]
  /\ reply = NoReply

\* Mutation: one row too many is kept.
LatestOneMore(s, n) == IF Len(s) > n THEN SubSeq(s, Len(s) - n, Len(s)) ELSE s

Latest(s, n) == IF Len(s) > n THEN SubSeq(s, Len(s) - n + 1, Len(s)) ELSE s

\* The entries of a list greater than n, in their order.
After(s, n) ==
  LET kept == {k \in 1..Len(s) : s[k] > n}
      Place(k) == Cardinality({l \in kept : l <= k})
  IN  [i \in 1..Cardinality(kept) |-> s[CHOOSE k \in kept : Place(k) = i]]

-----------------------------------------------------------------------------
(* The worker thread.                                                      *)

\* A milestone that is not a repetition of the last one: its number first.
Number ==
  /\ wpc = "idle"
  /\ progressSeq < MaxMilestones
  /\ progressSeq' = progressSeq + 1
  /\ wpc' = "append"
  /\ UNCHANGED <<items, eventVars, pollVars>>

\* Then the row.
AppendItem ==
  /\ wpc = "append"
  /\ items' = Append(items, progressSeq)
  /\ wpc' = "trim"
  /\ UNCHANGED <<progressSeq, eventVars, pollVars>>

\* Then the oldest rows are deleted; a copy made before has one too many.
TrimItems ==
  /\ wpc = "trim"
  /\ items' = Latest(items, Keep)
  /\ wpc' = "signal"
  /\ UNCHANGED <<progressSeq, eventVars, pollVars>>

\* A repeated milestone, or a completed message: it only wakes.
Nudge ==
  /\ wpc = "idle"
  /\ scheduled < MaxScheduled
  /\ wpc' = "signal"
  /\ UNCHANGED <<progressSeq, items, eventVars, pollVars>>

Signal ==
  /\ wpc = "signal"
  /\ scheduled' = IF isSet THEN scheduled ELSE scheduled + 1
  /\ wpc' = "idle"
  /\ UNCHANGED <<progressSeq, items, isSet, pollVars>>

-----------------------------------------------------------------------------
(* The event loop.                                                         *)

\* The loop is free unless a handler is between two awaits.
LoopFree == \A p \in Poller : ppc[p] \in {"idle", "waiting", "woken"}

Goto(p, l) == ppc' = [ppc EXCEPT ![p] = l]

\* Mutation: only one of those who wait is woken.
RunCallbackForOne ==
  /\ LoopFree
  /\ scheduled > 0
  /\ scheduled' = scheduled - 1
  /\ isSet' = TRUE
  /\ LET waiting == {p \in Poller : ppc[p] = "waiting"}
     IN  IF waiting = {} THEN UNCHANGED ppc
         ELSE LET q == CHOOSE q \in waiting : TRUE
              IN  ppc' = [ppc EXCEPT ![q] = "woken"]
  /\ UNCHANGED <<workerVars, since, snap, reply>>

RunCallback ==
  /\ LoopFree
  /\ scheduled > 0
  /\ scheduled' = scheduled - 1
  /\ isSet' = TRUE
  /\ ppc' = [p \in Poller |-> IF ppc[p] = "waiting" THEN "woken" ELSE ppc[p]]
  /\ UNCHANGED <<workerVars, since, snap, reply>>

\* A poll for milestones after s.  It waits if there are none, the job is queued
\* or running and the client is willing to; the first is tested here.
Check(p, s) ==
  /\ LoopFree
  /\ ppc[p] = "idle"
  /\ since' = [since EXCEPT ![p] = s]
  /\ \/ Goto(p, "build")
     \/ progressSeq <= s /\ Goto(p, "checked")
  /\ UNCHANGED <<workerVars, eventVars, snap, reply>>

\* Mutation: the event is cleared before the wait instead of after it.
WaitAfterClear(p) ==
  /\ ppc[p] = "checked"
  /\ Goto(p, "waiting")
  /\ isSet' = FALSE
  /\ UNCHANGED <<workerVars, scheduled, since, snap, reply>>

\* wait_for(notify_event.wait()): suspends only if the event is not set; every
\* way out clears the event.
Wait(p) ==
  /\ ppc[p] = "checked"
  /\ IF isSet THEN Goto(p, "build") ELSE Goto(p, "waiting")
  /\ isSet' = FALSE
  /\ UNCHANGED <<workerVars, scheduled, since, snap, reply>>

Resume(p) ==
  /\ LoopFree
  /\ ppc[p] = "woken"
  /\ isSet' = FALSE
  /\ Goto(p, "build")
  /\ UNCHANGED <<workerVars, scheduled, since, snap, reply>>

Timeout(p) ==
  /\ LoopFree
  /\ ppc[p] = "waiting"
  /\ isSet' = FALSE
  /\ Goto(p, "build")
  /\ UNCHANGED <<workerVars, scheduled, since, snap, reply>>

\* _build_progress_delta copies the list, then reads the counter.  The handler's
\* locals are forgotten when it returns.
Snapshot(p) ==
  /\ ppc[p] = "build"
  /\ snap' = [snap EXCEPT ![p] = items]
  /\ Goto(p, "snap")
  /\ UNCHANGED <<workerVars, eventVars, since, reply>>

\* Mutation: the item the client has already is sent again.
DeliverInclusive(p) ==
  /\ ppc[p] = "snap"
  /\ LET new == After(snap[p], since[p] - 1)
     IN  reply' = [since |-> since[p], current_seq |-> progressSeq,
                   items |-> Latest(new, PageSize),
                   truncated |-> Len(new) > PageSize]
  /\ snap' = [snap EXCEPT ![p] = <<>>]
  /\ since' = [since EXCEPT ![p] = 0]
  /\ Goto(p, "idle")
  /\ UNCHANGED <<workerVars, eventVars>>

Deliver(p) ==
  /\ ppc[p] = "snap"
  /\ LET new == After(snap[p], since[p])
     IN  reply' = [since |-> since[p], current_seq |-> progressSeq,
                   items |-> Latest(new, PageSize),
                   truncated |-> Len(new) > PageSize]
  /\ snap' = [snap EXCEPT ![p] = <<>>]
  /\ since' = [since EXCEPT ![p] = 0]
  /\ Goto(p, "idle")
  /\ UNCHANGED <<workerVars, eventVars>>

Proceed(p) == Wait(p) \/ Resume(p) \/ Snapshot(p) \/ Deliver(p)

Next ==
  \/ Number \/ AppendItem \/ TrimItems \/ Nudge \/ Signal
  \/ RunCallback
  \/ \E p \in Poller :
       (\E s \in 0..MaxMilestones : Check(p, s)) \/ Proceed(p) \/ Timeout(p)

Spec == Init /\ [][Next]_vars

(* The worker finishes what it began and the loop runs what is ready.  No  *)
(* timeout is assumed to fire: waking up must not rest on it.              *)
FairSpec ==
  /\ Spec
  /\ WF_vars(AppendItem \/ TrimItems \/ Signal)
  /\ SF_vars(RunCallback)
  /\ \A p \in Poller : SF_vars(Proceed(p))

-----------------------------------------------------------------------------
(* Properties.                                                             *)

\* Items, snapshots and replies are made of milestone numbers, and none is longer
\* than the list is for the moment between appending a row and deleting the oldest
\* (:1163, :1172-1173).
TypeOK ==
  LET Items == UNION {[1..n -> 1..MaxMilestones] : n \in 0..Keep + 1}
  IN  /\ wpc \in {"idle", "append", "trim", "signal"}
      /\ progressSeq \in 0..MaxMilestones
      /\ items \in Items
      /\ isSet \in BOOLEAN
      /\ scheduled \in 0..MaxScheduled + MaxMilestones
      /\ ppc \in [Poller -> {"idle", "checked", "waiting", "woken", "build", "snap"}]
      /\ since \in [Poller -> 0..MaxMilestones]
      /\ snap \in [Poller -> Items]
      /\ reply.current_seq \in 0..MaxMilestones
      /\ reply.items \in Items

\* No wake-up is lost: a poller that waits although a milestone it does not have
\* has been reported to the end is about to be woken.  The stale is_set() of the worker
\* (:2424), the clear() of every poller (:2732) and the test before the wait
\* (:2718) do not conspire to strand anyone.
NoLostWakeup ==
  \A p \in Poller :
    ppc[p] = "waiting" /\ progressSeq > since[p] /\ wpc = "idle" => scheduled > 0

\* And it is woken, without its timeout.
PollersWake ==
  \A p \in Poller :
    (ppc[p] = "waiting" /\ progressSeq > since[p]) ~> (ppc[p] # "waiting")

\* A client that goes on from the last item it received misses none: the items
\* of a reply that is not truncated follow since_progress_seq without a hole,
\* as far back as the job keeps them.
ItemsFollow ==
  LET got == reply.items
  IN  /\ \A i \in 1..Len(got) - 1 : got[i + 1] = got[i] + 1
      /\ got # <<>> /\ ~reply.truncated =>
           got[1] = reply.since + 1 \/ Len(got) >= Keep
================================================================================
