--------------------------- MODULE ProgressFeedProofs ---------------------------
(***************************************************************************)
(* No wake-up and no milestone is lost, for any number of clients and      *)
(* milestones and lists and pages of every size.                           *)
(*                                                                         *)
(* The argument: while somebody waits, notify_event is not set (WaitInv),  *)
(* so the worker's stale test of it cannot skip the callback that wakes    *)
(* him.  Somebody who has just found nothing new and is about to wait may  *)
(* be overtaken by a whole report of the worker; then a callback is        *)
(* scheduled or the event is set (CheckInv), and only he can clear it,     *)
(* because the event loop runs one handler at a time (LoopInv).            *)
(*                                                                         *)
(* And a client misses no milestone: the list is always a run of the       *)
(* latest numbers, with one too many until it is trimmed (KeptInv), a copy *)
(* is such a run of some earlier time (SnapInv), and what the filter and   *)
(* the page leave of a run is a run (AfterNumbers, LatestNumbers).         *)
(***************************************************************************)
EXTENDS ProgressFeed, FiniteSetTheorems, SequenceTheorems, TLAPS

\* The types the argument needs; what the items are does not matter to it.
SmallTypes ==
  /\ progressSeq \in Nat
  /\ scheduled \in Nat
  /\ isSet \in BOOLEAN
  /\ ppc \in [Poller -> {"idle", "checked", "waiting", "woken", "build", "snap"}]
  /\ since \in [Poller -> Nat]

Awaiting == {"idle", "waiting", "woken"}

LoopInv ==
  \A p, q \in Poller : ppc[p] \notin Awaiting /\ ppc[q] \notin Awaiting => p = q

WaitInv == \A p \in Poller : ppc[p] = "waiting" => ~isSet

CheckInv ==
  \A p \in Poller :
    ppc[p] = "checked" /\ progressSeq > since[p] /\ wpc = "idle" =>
      isSet \/ scheduled > 0

IInv == SmallTypes /\ LoopInv /\ WaitInv /\ CheckInv /\ NoLostWakeup

-----------------------------------------------------------------------------

LEMMA InitInv == Init => IInv
<1> SUFFICES ASSUME Init PROVE IInv
  OBVIOUS
<1>1. SmallTypes
  BY DEF Init, SmallTypes
<1>2. \A p \in Poller : ppc[p] = "idle"
  BY DEF Init
<1>3. LoopInv /\ WaitInv /\ CheckInv /\ NoLostWakeup
  BY <1>2 DEF LoopInv, WaitInv, CheckInv, NoLostWakeup, Awaiting
<1>4. QED
  BY <1>1, <1>3 DEF IInv

\* A report in progress promises nothing until its end; at its end the callback is
\* scheduled, or the event is set and nobody waits.
LEMMA WorkerInv == IInv /\ (Number \/ AppendItem \/ TrimItems \/ Nudge \/ Signal) => IInv'
<1> SUFFICES ASSUME IInv, Number \/ AppendItem \/ TrimItems \/ Nudge \/ Signal PROVE IInv'
  OBVIOUS
<1>1. SmallTypes /\ LoopInv /\ WaitInv /\ CheckInv /\ NoLostWakeup
  BY DEF IInv
<1>2. UNCHANGED <<isSet, pollVars>>
  BY DEF Number, AppendItem, TrimItems, Nudge, Signal, eventVars
<1>3. SmallTypes'
  BY <1>1, <1>2 DEF SmallTypes, Number, AppendItem, TrimItems, Nudge, Signal, eventVars, pollVars
<1>4. LoopInv' /\ WaitInv'
  BY <1>1, <1>2 DEF LoopInv, WaitInv, pollVars
<1>5. CheckInv' /\ NoLostWakeup'
  <2>1. CASE Number \/ AppendItem \/ TrimItems \/ Nudge
    <3>1. wpc' # "idle"
      BY <2>1 DEF Number, AppendItem, TrimItems, Nudge
    <3>2. QED
      BY <3>1 DEF CheckInv, NoLostWakeup
  <2>2. CASE Signal
    <3>1. isSet \/ scheduled' > 0
      BY <2>2, <1>1 DEF Signal, SmallTypes
    <3>2. QED
      BY <3>1, <1>1, <1>2 DEF CheckInv, NoLostWakeup, WaitInv, pollVars
  <2>3. QED
    BY <2>1, <2>2
<1>6. QED
  BY <1>3, <1>4, <1>5 DEF IInv

\* A callback wakes everybody, and no handler is between its test and its wait.
LEMMA RunCallbackInv == IInv /\ RunCallback => IInv'
<1> SUFFICES ASSUME IInv, RunCallback PROVE IInv'
  OBVIOUS
<1>1. SmallTypes /\ LoopInv /\ WaitInv /\ CheckInv /\ NoLostWakeup
  BY DEF IInv
<1>2. /\ scheduled' \in Nat /\ isSet' = TRUE
      /\ ppc' = [p \in Poller |-> IF ppc[p] = "waiting" THEN "woken" ELSE ppc[p]]
      /\ UNCHANGED <<progressSeq, since>>
  BY <1>1 DEF RunCallback, workerVars, SmallTypes
<1>3. \A p \in Poller : ppc'[p] \in {"idle", "woken"}
  BY <1>2 DEF RunCallback, LoopFree
<1>4. SmallTypes'
  BY <1>1, <1>2 DEF SmallTypes
<1>5. LoopInv' /\ WaitInv' /\ CheckInv' /\ NoLostWakeup'
  BY <1>3 DEF LoopInv, WaitInv, CheckInv, NoLostWakeup, Awaiting
<1>6. QED
  BY <1>4, <1>5 DEF IInv

\* A handler that takes the loop found it free.
LEMMA CheckInvStep ==
  ASSUME NEW p \in Poller, NEW s \in 0..MaxMilestones
  PROVE  IInv /\ Check(p, s) => IInv'
<1> SUFFICES ASSUME IInv, Check(p, s) PROVE IInv'
  OBVIOUS
<1>1. SmallTypes /\ LoopInv /\ WaitInv /\ CheckInv /\ NoLostWakeup
  BY DEF IInv
<1>2. /\ since' = [since EXCEPT ![p] = s]
      /\ \/ ppc' = [ppc EXCEPT ![p] = "build"]
         \/ progressSeq <= s /\ ppc' = [ppc EXCEPT ![p] = "checked"]
      /\ \A q \in Poller : ppc[q] \in Awaiting
      /\ UNCHANGED <<wpc, progressSeq, isSet, scheduled>>
  BY DEF Check, Goto, LoopFree, Awaiting, workerVars, eventVars
<1>3. SmallTypes'
  <2>1. s \in Nat
    OBVIOUS
  <2>2. QED
    BY <2>1, <1>1, <1>2 DEF SmallTypes
<1>4. LoopInv' /\ WaitInv'
  BY <1>1, <1>2 DEF LoopInv, WaitInv, SmallTypes, Awaiting
<1>5. CheckInv'
  <2> SUFFICES ASSUME NEW q \in Poller, ppc'[q] = "checked", progressSeq' > since'[q]
               PROVE  FALSE
    BY DEF CheckInv
  <2>1. q = p
    BY <1>1, <1>2 DEF SmallTypes, Awaiting
  <2>2. progressSeq <= s /\ since'[q] = s
    BY <2>1, <1>1, <1>2 DEF SmallTypes
  <2>3. QED
    BY <2>2, <1>1, <1>2 DEF SmallTypes
<1>6. NoLostWakeup'
  BY <1>1, <1>2 DEF NoLostWakeup, SmallTypes
<1>7. QED
  BY <1>3, <1>4, <1>5, <1>6 DEF IInv

\* Only the handler that holds the loop clears the event before its wait, and it
\* waits only if the event was not set.
LEMMA WaitInvStep ==
  ASSUME NEW p \in Poller
  PROVE  IInv /\ Wait(p) => IInv'
<1> SUFFICES ASSUME IInv, Wait(p) PROVE IInv'
  OBVIOUS
<1>1. SmallTypes /\ LoopInv /\ WaitInv /\ CheckInv /\ NoLostWakeup
  BY DEF IInv
<1>2. /\ ppc[p] = "checked" /\ isSet' = FALSE
      /\ \/ isSet /\ ppc' = [ppc EXCEPT ![p] = "build"]
         \/ ~isSet /\ ppc' = [ppc EXCEPT ![p] = "waiting"]
      /\ UNCHANGED <<wpc, progressSeq, scheduled, since>>
  BY <1>1 DEF Wait, Goto, workerVars, SmallTypes
<1>3. \A q \in Poller \ {p} : ppc'[q] = ppc[q] /\ ppc[q] \in Awaiting
  BY <1>1, <1>2 DEF LoopInv, SmallTypes, Awaiting
<1>4. SmallTypes'
  BY <1>1, <1>2 DEF SmallTypes
<1>5. LoopInv' /\ WaitInv' /\ CheckInv'
  BY <1>1, <1>2, <1>3 DEF LoopInv, WaitInv, CheckInv, SmallTypes, Awaiting
<1>6. NoLostWakeup'
  <2> SUFFICES ASSUME NEW q \in Poller, ppc'[q] = "waiting",
                      progressSeq' > since'[q], wpc' = "idle"
               PROVE  scheduled' > 0
    BY DEF NoLostWakeup
  <2>1. CASE q = p
    BY <2>1, <1>1, <1>2 DEF CheckInv, SmallTypes
  <2>2. CASE q # p
    BY <2>2, <1>1, <1>2, <1>3 DEF NoLostWakeup
  <2>3. QED
    BY <2>1, <2>2
<1>7. QED
  BY <1>4, <1>5, <1>6 DEF IInv

\* A handler that returns from its wait clears the event when no other handler is
\* between its test and its wait.
LEMMA ReturnInv ==
  ASSUME NEW p \in Poller
  PROVE  IInv /\ (Resume(p) \/ Timeout(p)) => IInv'
<1> SUFFICES ASSUME IInv, Resume(p) \/ Timeout(p) PROVE IInv'
  OBVIOUS
<1>1. SmallTypes /\ LoopInv /\ WaitInv /\ CheckInv /\ NoLostWakeup
  BY DEF IInv
<1>2. /\ isSet' = FALSE /\ ppc' = [ppc EXCEPT ![p] = "build"]
      /\ \A q \in Poller : ppc[q] \in Awaiting
      /\ UNCHANGED <<wpc, progressSeq, scheduled, since>>
  BY DEF Resume, Timeout, Goto, LoopFree, Awaiting, workerVars
<1>3. \A q \in Poller : ppc'[q] = (IF q = p THEN "build" ELSE ppc[q])
  BY <1>1, <1>2 DEF SmallTypes
<1>4. SmallTypes'
  BY <1>1, <1>2 DEF SmallTypes
<1>5. LoopInv' /\ WaitInv' /\ CheckInv' /\ NoLostWakeup'
  BY <1>1, <1>2, <1>3 DEF LoopInv, WaitInv, CheckInv, NoLostWakeup, Awaiting
<1>6. QED
  BY <1>4, <1>5 DEF IInv

\* Building the reply is no business of the event.
LEMMA BuildInv ==
  ASSUME NEW p \in Poller
  PROVE  IInv /\ (Snapshot(p) \/ Deliver(p)) => IInv'
<1> SUFFICES ASSUME IInv, Snapshot(p) \/ Deliver(p) PROVE IInv'
  OBVIOUS
<1>1. SmallTypes /\ LoopInv /\ WaitInv /\ CheckInv /\ NoLostWakeup
  BY DEF IInv
<1>2. /\ ppc[p] \notin Awaiting
      /\ \E l \in {"idle", "snap"} : ppc' = [ppc EXCEPT ![p] = l]
      /\ since' = since \/ since' = [since EXCEPT ![p] = 0]
      /\ UNCHANGED <<wpc, progressSeq, isSet, scheduled>>
  BY DEF Snapshot, Deliver, Goto, Awaiting, workerVars, eventVars
<1>3. /\ ppc'[p] \in {"idle", "snap"}
      /\ \A q \in Poller \ {p} : ppc'[q] = ppc[q] /\ since'[q] = since[q]
  BY <1>1, <1>2 DEF SmallTypes
<1>4. SmallTypes'
  BY <1>1, <1>2 DEF SmallTypes
<1>5. LoopInv'
  BY <1>1, <1>2, <1>3 DEF LoopInv
<1>6. WaitInv' /\ CheckInv' /\ NoLostWakeup'
  BY <1>1, <1>2, <1>3 DEF WaitInv, CheckInv, NoLostWakeup
<1>7. QED
  BY <1>4, <1>5, <1>6 DEF IInv

LEMMA StepInv == IInv /\ [Next]_vars => IInv'
<1> SUFFICES ASSUME IInv, [Next]_vars PROVE IInv'
  OBVIOUS
<1>1. CASE Number \/ AppendItem \/ TrimItems \/ Nudge \/ Signal
  BY <1>1, WorkerInv
<1>2. CASE RunCallback
  BY <1>2, RunCallbackInv
<1>3. ASSUME NEW p \in Poller,
             (\E s \in 0..MaxMilestones : Check(p, s)) \/ Proceed(p) \/ Timeout(p)
      PROVE  IInv'
  BY <1>3, CheckInvStep, WaitInvStep, ReturnInv, BuildInv DEF Proceed
<1>4. CASE UNCHANGED vars
  BY <1>4 DEF vars, workerVars, eventVars, pollVars, IInv, SmallTypes, LoopInv, WaitInv,
              CheckInv, NoLostWakeup
<1>5. QED
  BY <1>1, <1>2, <1>3, <1>4 DEF Next

\* A poller that waits although a milestone it lacks was reported is about to be
\* woken, however many clients poll one job (_notify_job_update,
\* codex_gateway.py:2416-2426, against get_codex_job, :2718-2732).
THEOREM WakeupKept == Spec => []NoLostWakeup
<1>1. IInv => NoLostWakeup
  BY DEF IInv
<1>2. QED
  BY <1>1, InitInv, StepInv, PTL DEF Spec

-----------------------------------------------------------------------------
(* What the lists hold.  Every list of the feed is a run of consecutive    *)
(* numbers; filtering and cutting it give runs again.                      *)

\* The numbers from f to l.
Numbers(f, l) == [i \in 1..(l - f + 1) |-> f - 1 + i]

LEMMA NumbersMeaning ==
  ASSUME NEW f \in Nat \ {0}, NEW l \in Nat, f <= l + 1
  PROVE  /\ Numbers(f, l) \in Seq(Nat)
         /\ Len(Numbers(f, l)) = l - f + 1
         /\ \A i \in 1..(l - f + 1) : Numbers(f, l)[i] = f - 1 + i
<1>1. l - f + 1 \in Nat
  OBVIOUS
<1>2. \A i \in 1..(l - f + 1) : f - 1 + i \in Nat
  OBVIOUS
<1>3. Numbers(f, l) \in [1..(l - f + 1) -> Nat]
  BY <1>2 DEF Numbers
<1>4. QED
  BY <1>1, <1>3 DEF Numbers

LEMMA AppendNumbers ==
  ASSUME NEW f \in Nat \ {0}, NEW l \in Nat, f <= l + 1
  PROVE  Append(Numbers(f, l), l + 1) = Numbers(f, l + 1)
<1> DEFINE s == Numbers(f, l)
           t == Numbers(f, l + 1)
           u == Append(s, l + 1)
<1>1. /\ s \in Seq(Nat) /\ Len(s) = l - f + 1
      /\ \A i \in 1..(l - f + 1) : s[i] = f - 1 + i
  BY NumbersMeaning
<1>2. l + 1 \in Nat /\ f <= (l + 1) + 1
  OBVIOUS
<1>3. /\ t \in Seq(Nat) /\ Len(t) = l - f + 2
      /\ \A i \in 1..(l - f + 2) : t[i] = f - 1 + i
  <2> HIDE DEF t
  <2>1. (l + 1) - f + 1 = l - f + 2
    OBVIOUS
  <2>2. QED
    BY <1>2, <2>1, NumbersMeaning DEF t
<1> HIDE DEF s, t
<1>4. /\ u \in Seq(Nat) /\ Len(u) = l - f + 2
      /\ \A i \in 1..Len(s) : u[i] = s[i]
      /\ u[Len(s) + 1] = l + 1
  BY <1>1, <1>2, AppendProperties
<1>5. \A i \in 1..Len(u) : u[i] = t[i]
  <2> SUFFICES ASSUME NEW i \in 1..Len(u) PROVE u[i] = t[i]
    OBVIOUS
  <2> HIDE DEF u
  <2>1. i \in 1..(l - f + 2) /\ t[i] = f - 1 + i
    BY <1>3, <1>4
  <2>2. CASE i = l - f + 2
    BY <2>1, <2>2, <1>1, <1>4
  <2>3. CASE i # l - f + 2
    <3>1. i \in 1..(l - f + 1)
      BY <2>1, <2>3
    <3>2. QED
      BY <3>1, <2>1, <1>1, <1>4
  <2>4. QED
    BY <2>2, <2>3
<1>6. QED
  <2> HIDE DEF u
  <2>1. u = t
    BY <1>3, <1>4, <1>5, SeqEqual
  <2>2. QED
    BY <2>1 DEF u, s, t

LEMMA LatestNumbers ==
  ASSUME NEW f \in Nat \ {0}, NEW l \in Nat, f <= l + 1, NEW k \in Nat \ {0}
  PROVE  Latest(Numbers(f, l), k) = Numbers(IF l - f + 1 > k THEN l - k + 1 ELSE f, l)
<1> DEFINE s == Numbers(f, l)
<1>1. /\ s \in Seq(Nat) /\ Len(s) = l - f + 1
      /\ \A i \in 1..(l - f + 1) : s[i] = f - 1 + i
  BY NumbersMeaning
<1>2. CASE ~(l - f + 1 > k)
  BY <1>1, <1>2 DEF Latest
<1>3. CASE l - f + 1 > k
  <2> DEFINE m == Len(s) - k + 1
             u == SubSeq(s, m, Len(s))
             t == Numbers(l - k + 1, l)
  <2> HIDE DEF s
  <2>1. m \in 1..Len(s) /\ m = l - f + 2 - k /\ Len(s) \in m - 1..Len(s)
    BY <1>1, <1>3
  <2>2. /\ u \in Seq(Nat) /\ Len(u) = k
        /\ \A i \in 1..k : u[i] = s[m + i - 1]
    <3> HIDE DEF m
    <3>1. Len(s) - m + 1 = k
      BY <1>1, <2>1
    <3>2. QED
      BY <1>1, <2>1, <3>1, SubSeqProperties
  <2>3. l - k + 1 \in Nat \ {0} /\ l - k + 1 <= l + 1 /\ l - (l - k + 1) + 1 = k
    BY <1>3
  <2>4. /\ t \in Seq(Nat) /\ Len(t) = k
        /\ \A i \in 1..k : t[i] = (l - k + 1) - 1 + i
    BY <2>3, NumbersMeaning
  <2>5. \A i \in 1..k : u[i] = t[i]
    <3> SUFFICES ASSUME NEW i \in 1..k PROVE u[i] = t[i]
      OBVIOUS
    <3>1. m + i - 1 \in 1..(l - f + 1) /\ f - 1 + (m + i - 1) = l - k + i
      BY <2>1, <1>3, <1>1
    <3> HIDE DEF u, t, m
    <3>2. u[i] = l - k + i
      BY <3>1, <2>2, <1>1
    <3>3. t[i] = l - k + i
      BY <2>4
    <3>4. QED
      BY <3>2, <3>3
  <2>6. u = t
    <3> HIDE DEF u, t
    <3>1. QED
      BY <2>2, <2>4, <2>5, SeqEqual
  <2>7. Latest(s, k) = u
    BY <1>1, <1>3 DEF Latest
  <2>8. QED
    BY <2>6, <2>7, <1>3 DEF s
<1>4. QED
  BY <1>2, <1>3

\* The filter of _build_progress_delta keeps the end of a run.
LEMMA AfterNumbers ==
  ASSUME NEW f \in Nat \ {0}, NEW l \in Nat, f <= l + 1, NEW n \in Nat
  PROVE  After(Numbers(f, l), n) =
           Numbers(IF n < f THEN f ELSE IF n > l THEN l + 1 ELSE n + 1, l)
<1> DEFINE s == Numbers(f, l)
           g == IF n < f THEN f ELSE IF n > l THEN l + 1 ELSE n + 1
           kept == {k \in 1..Len(s) : s[k] > n}
           Place(k) == Cardinality({j \in kept : j <= k})
           m == g - f + 1
<1>1. /\ s \in Seq(Nat) /\ Len(s) = l - f + 1
      /\ \A i \in 1..(l - f + 1) : s[i] = f - 1 + i
  BY NumbersMeaning
<1>2. After(s, n) = [i \in 1..Cardinality(kept) |-> s[CHOOSE k \in kept : Place(k) = i]]
  BY DEF After
<1> HIDE DEF s
<1>3. /\ g \in Nat \ {0} /\ f <= g /\ g <= l + 1
      /\ m \in Nat \ {0} /\ l - g + 1 \in Nat
      /\ (l - f + 1) - m + 1 = l - g + 1
  OBVIOUS
<1>4. kept = m..(l - f + 1)
  <2>1. \A k \in 1..(l - f + 1) : f - 1 + k > n <=> m <= k
    OBVIOUS
  <2> HIDE DEF g, m
  <2>2. \A k \in 1..(l - f + 1) : s[k] > n <=> m <= k
    BY <1>1, <2>1
  <2>3. \A k \in m..(l - f + 1) : k \in 1..(l - f + 1)
    BY <1>3
  <2>4. QED
    BY <1>1, <1>3, <2>2, <2>3
<1> HIDE DEF g, m, kept
<1>5. Cardinality(kept) = l - g + 1
  <2>1. m \in Int /\ l - f + 1 \in Int
    BY <1>3
  <2>2. Cardinality(m..(l - f + 1)) =
          IF m > l - f + 1 THEN 0 ELSE (l - f + 1) - m + 1
    BY <2>1, FS_Interval
  <2>3. QED
    BY <1>3, <1>4, <2>2
<1>6. \A k \in kept : Place(k) = k - m + 1
  <2> SUFFICES ASSUME NEW k \in kept PROVE Place(k) = k - m + 1
    OBVIOUS
  <2>1. k \in Int /\ m \in Int /\ m <= k /\ k <= l - f + 1
    BY <1>3, <1>4
  <2>2. {j \in kept : j <= k} = m..k
    BY <2>1, <1>3, <1>4
  <2>3. Cardinality(m..k) = k - m + 1
    BY <2>1, FS_Interval
  <2>4. QED
    BY <2>2, <2>3
<1> HIDE DEF Place
<1>7. \A i \in 1..(l - g + 1) : s[CHOOSE k \in kept : Place(k) = i] = g - 1 + i
  <2> SUFFICES ASSUME NEW i \in 1..(l - g + 1)
               PROVE  s[CHOOSE k \in kept : Place(k) = i] = g - 1 + i
    OBVIOUS
  <2>1. m + i - 1 \in kept
    BY <1>3, <1>4
  <2>2. Place(m + i - 1) = i
    BY <2>1, <1>3, <1>6
  <2> DEFINE c == CHOOSE k \in kept : Place(k) = i
  <2>3. c \in kept /\ Place(c) = i
    BY <2>1, <2>2
  <2> HIDE DEF c
  <2>4. c = m + i - 1 /\ c \in 1..(l - f + 1)
    BY <2>3, <1>3, <1>4, <1>6
  <2>5. s[c] = f - 1 + c
    BY <2>4, <1>1
  <2>6. f - 1 + c = g - 1 + i
    BY <2>4, <1>3 DEF m
  <2>7. QED
    BY <2>5, <2>6 DEF c
<1>8. After(s, n) = Numbers(g, l)
  BY <1>2, <1>5, <1>7 DEF Numbers
<1>9. QED
  BY <1>8 DEF s, g

-----------------------------------------------------------------------------
(* The second invariant: what the list, the copies and the reply hold.     *)

\* The milestones in the list: the last number is drawn before its row is there.
Appended == IF wpc = "append" THEN progressSeq - 1 ELSE progressSeq

\* A list of the latest numbers up to a, of Keep of them at least, if there are so
\* many, and of n at most.
IsRun(s, a, n) ==
  \E f \in Nat \ {0} :
    /\ s = Numbers(f, a)
    /\ f <= a + 1
    /\ a - f + 1 <= n
    /\ f = 1 \/ a - f + 1 >= Keep

ControlTypes ==
  /\ wpc \in {"idle", "append", "trim", "signal"}
  /\ progressSeq \in 0..MaxMilestones
  /\ wpc = "append" => progressSeq > 0
  /\ isSet \in BOOLEAN
  /\ ppc \in [Poller -> {"idle", "checked", "waiting", "woken", "build", "snap"}]
  /\ since \in [Poller -> 0..MaxMilestones]

\* One callback is scheduled for each report at most, and a repetition is reported
\* only while there is room.
ScheduledInv ==
  /\ scheduled \in Nat
  /\ scheduled <= MaxScheduled + progressSeq
  /\ wpc # "idle" => scheduled < MaxScheduled + progressSeq

KeptInv == IsRun(items, Appended, IF wpc = "trim" THEN Keep + 1 ELSE Keep)

SnapInv ==
  /\ snap = [p \in Poller |-> snap[p]]
  /\ \A p \in Poller : \E a \in 0..progressSeq : IsRun(snap[p], a, Keep + 1)

\* The reply is a run too, and a hole before it means that it was cut.
ReplyInv ==
  /\ reply.current_seq \in 0..MaxMilestones
  /\ reply.since \in Nat
  /\ \E f \in Nat \ {0}, l \in 0..MaxMilestones :
       /\ reply.items = Numbers(f, l)
       /\ f <= l + 1
       /\ l - f + 1 <= Keep + 1
       /\ \/ reply.truncated
          \/ f > l
          \/ f = reply.since + 1
          \/ l - f + 1 >= Keep

CInv == ControlTypes /\ ScheduledInv /\ KeptInv /\ SnapInv /\ ReplyInv

LEMMA EmptyNumbers == <<>> = Numbers(1, 0)
<1>1. 1 \in Nat \ {0} /\ 0 \in Nat /\ 1 <= 0 + 1 /\ 0 - 1 + 1 = 0
  OBVIOUS
<1>2. Numbers(1, 0) \in Seq(Nat) /\ Len(Numbers(1, 0)) = 0
  BY <1>1, NumbersMeaning
<1>3. QED
  BY <1>2, EmptySeq

LEMMA EmptyRun ==
  ASSUME NEW n \in Nat
  PROVE  IsRun(<<>>, 0, n)
<1>1. 1 \in Nat \ {0} /\ 1 <= 0 + 1 /\ 0 - 1 + 1 <= n
  OBVIOUS
<1>2. QED
  BY <1>1, EmptyNumbers DEF IsRun

LEMMA ContentInit == Init => CInv
<1> SUFFICES ASSUME Init PROVE CInv
  OBVIOUS
<1>1. MaxMilestones \in Nat /\ MaxScheduled \in Nat
  BY FeedAssumption
<1>2. ControlTypes /\ ScheduledInv
  <2>1. /\ wpc = "idle" /\ progressSeq = 0 /\ scheduled = 0 /\ isSet = FALSE
        /\ ppc = [p \in Poller |-> "idle"] /\ since = [p \in Poller |-> 0]
    BY DEF Init
  <2>2. ControlTypes
    <3>1. 0 \in 0..MaxMilestones
      BY <1>1
    <3>2. since \in [Poller -> 0..MaxMilestones]
      BY <2>1, <3>1
    <3>3. QED
      BY <2>1, <3>1, <3>2 DEF ControlTypes
  <2>3. ScheduledInv
    BY <1>1, <2>1 DEF ScheduledInv
  <2>4. QED
    BY <2>2, <2>3
<1>3. KeptInv
  <2>1. IsRun(<<>>, 0, Keep)
    BY FeedAssumption, EmptyRun
  <2>2. items = <<>> /\ wpc = "idle" /\ progressSeq = 0
    BY DEF Init
  <2>3. QED
    BY <2>1, <2>2 DEF KeptInv, Appended
<1>4. SnapInv
  <2>1. 0 \in 0..progressSeq
    BY DEF Init
  <2>2. IsRun(<<>>, 0, Keep + 1)
    BY FeedAssumption, EmptyRun
  <2>3. snap = [p \in Poller |-> <<>>]
    BY DEF Init
  <2>4. QED
    BY <2>1, <2>2, <2>3 DEF SnapInv
<1>5. ReplyInv
  <2>1. 1 \in Nat \ {0} /\ 0 \in 0..MaxMilestones /\ 1 <= 0 + 1 /\ 0 - 1 + 1 <= Keep + 1 /\ 1 > 0
    BY FeedAssumption
  <2>2. reply.items = Numbers(1, 0) /\ reply.since = 0 /\ reply.current_seq = 0
    BY EmptyNumbers DEF Init, NoReply
  <2>3. QED
    BY <2>1, <2>2 DEF ReplyInv
<1>6. QED
  BY <1>2, <1>3, <1>4, <1>5 DEF CInv

\* The worker's steps.  Appending the number drawn keeps the list a run, and the
\* cut leaves the latest Keep of it.
LEMMA ContentWorker ==
  CInv /\ (Number \/ AppendItem \/ TrimItems \/ Nudge \/ Signal) => CInv'
<1> SUFFICES ASSUME CInv, Number \/ AppendItem \/ TrimItems \/ Nudge \/ Signal PROVE CInv'
  OBVIOUS
<1>1. ControlTypes /\ ScheduledInv /\ KeptInv /\ SnapInv /\ ReplyInv
  BY DEF CInv
<1>2. Keep \in Nat \ {0} /\ MaxMilestones \in Nat /\ MaxScheduled \in Nat
  BY FeedAssumption
<1>3. /\ UNCHANGED <<isSet, ppc, since, snap, reply>>
      /\ progressSeq' \in 0..MaxMilestones /\ progressSeq <= progressSeq'
  BY <1>1, <1>2
     DEF Number, AppendItem, TrimItems, Nudge, Signal, eventVars, pollVars, ControlTypes
<1>4. ControlTypes'
  BY <1>1, <1>2, <1>3 DEF ControlTypes, Number, AppendItem, TrimItems, Nudge, Signal
<1>5. ScheduledInv'
  <2>1. CASE Number
    BY <2>1, <1>1, <1>2 DEF ScheduledInv, ControlTypes, Number, eventVars
  <2>2. CASE AppendItem \/ TrimItems
    BY <2>2, <1>1, <1>2 DEF ScheduledInv, ControlTypes, AppendItem, TrimItems, eventVars
  <2>3. CASE Nudge
    BY <2>3, <1>1, <1>2 DEF ScheduledInv, ControlTypes, Nudge, eventVars
  <2>4. CASE Signal
    BY <2>4, <1>1, <1>2 DEF ScheduledInv, ControlTypes, Signal
  <2>5. QED
    BY <2>1, <2>2, <2>3, <2>4
<1>6. KeptInv'
  <2>1. CASE AppendItem
    <3>1. /\ IsRun(items, progressSeq - 1, Keep) /\ progressSeq - 1 \in Nat
          /\ progressSeq \in Nat
          /\ items' = Append(items, progressSeq)
          /\ Appended' = progressSeq /\ wpc' = "trim"
      BY <2>1, <1>1, <1>2 DEF AppendItem, KeptInv, Appended, ControlTypes
    <3>2. PICK a \in Nat : a = progressSeq - 1
      BY <3>1
    <3>3. PICK f \in Nat \ {0} :
            /\ items = Numbers(f, a) /\ f <= a + 1 /\ a - f + 1 <= Keep
            /\ f = 1 \/ a - f + 1 >= Keep
      BY <3>1, <3>2 DEF IsRun
    <3>4. /\ a + 1 = progressSeq /\ f <= (a + 1) + 1
          /\ (a + 1) - f + 1 <= Keep + 1
          /\ f = 1 \/ (a + 1) - f + 1 >= Keep
      BY <3>1, <3>2, <3>3, <1>2
    <3>5. items' = Numbers(f, a + 1)
      BY <3>1, <3>3, <3>4, AppendNumbers
    <3>6. IsRun(items', progressSeq, Keep + 1)
      BY <3>4, <3>5 DEF IsRun
    <3>7. QED
      BY <3>1, <3>6 DEF KeptInv
  <2>2. CASE TrimItems
    <3>1. /\ IsRun(items, progressSeq, Keep + 1)
          /\ items' = Latest(items, Keep)
          /\ Appended' = progressSeq /\ wpc' = "signal"
      BY <2>2, <1>1 DEF TrimItems, KeptInv, Appended
    <3>2. PICK a \in Nat : a = progressSeq
      BY <1>1, <1>2 DEF ControlTypes
    <3>3. PICK f \in Nat \ {0} :
            /\ items = Numbers(f, a) /\ f <= a + 1 /\ a - f + 1 <= Keep + 1
            /\ f = 1 \/ a - f + 1 >= Keep
      BY <3>1, <3>2 DEF IsRun
    <3>4. PICK g \in Nat \ {0} : g = IF a - f + 1 > Keep THEN a - Keep + 1 ELSE f
      <4>1. (IF a - f + 1 > Keep THEN a - Keep + 1 ELSE f) \in Nat \ {0}
        BY <3>3, <1>2
      <4>2. QED
        BY <4>1
    <3>5. items' = Numbers(g, a)
      BY <3>1, <3>3, <3>4, <1>2, LatestNumbers
    <3>6. g <= a + 1 /\ a - g + 1 <= Keep /\ (g = 1 \/ a - g + 1 >= Keep)
      BY <3>3, <3>4, <1>2
    <3>7. IsRun(items', progressSeq, Keep)
      BY <3>2, <3>5, <3>6 DEF IsRun
    <3>8. QED
      BY <3>1, <3>7 DEF KeptInv
  <2>3. CASE Number \/ Nudge \/ Signal
    <3>1. items' = items /\ Appended' = Appended /\ wpc # "trim" /\ wpc' # "trim"
      BY <2>3, <1>1, <1>2 DEF Number, Nudge, Signal, Appended, ControlTypes
    <3>2. QED
      BY <3>1, <1>1 DEF KeptInv
  <2>4. QED
    BY <2>1, <2>2, <2>3
<1>7. SnapInv'
  <2>1. \A a \in 0..progressSeq : a \in 0..progressSeq'
    BY <1>3, <1>1 DEF ControlTypes
  <2>2. QED
    BY <2>1, <1>1, <1>3 DEF SnapInv
<1>8. ReplyInv'
  BY <1>1, <1>3 DEF ReplyInv
<1>9. QED
  BY <1>4, <1>5, <1>6, <1>7, <1>8 DEF CInv

\* A step that touches neither the list nor a copy of it.
LEMMA ContentUntouched ==
  ASSUME CInv, UNCHANGED <<wpc, progressSeq, items, snap, reply>>,
         scheduled' = scheduled \/ (scheduled > 0 /\ scheduled' = scheduled - 1),
         isSet' \in BOOLEAN, since' \in [Poller -> 0..MaxMilestones],
         ppc' \in [Poller -> {"idle", "checked", "waiting", "woken", "build", "snap"}]
  PROVE  CInv'
<1>1. ControlTypes /\ ScheduledInv /\ KeptInv /\ SnapInv /\ ReplyInv
  BY DEF CInv
<1>2. ControlTypes'
  BY <1>1 DEF ControlTypes
<1>3. ScheduledInv'
  <2>1. progressSeq \in Nat /\ MaxScheduled \in Nat
    BY <1>1, FeedAssumption DEF ControlTypes
  <2>2. QED
    BY <2>1, <1>1 DEF ScheduledInv
<1>4. KeptInv' /\ SnapInv' /\ ReplyInv'
  BY <1>1 DEF KeptInv, SnapInv, ReplyInv, Appended
<1>5. QED
  BY <1>2, <1>3, <1>4 DEF CInv

LEMMA ContentCallback == CInv /\ RunCallback => CInv'
<1> SUFFICES ASSUME CInv, RunCallback PROVE CInv'
  OBVIOUS
<1>1. /\ UNCHANGED <<wpc, progressSeq, items, snap, reply, since>>
      /\ isSet' = TRUE /\ scheduled > 0 /\ scheduled' = scheduled - 1
      /\ ppc' = [q \in Poller |-> IF ppc[q] = "waiting" THEN "woken" ELSE ppc[q]]
  BY DEF RunCallback, workerVars
<1>2. /\ since' \in [Poller -> 0..MaxMilestones]
      /\ ppc' \in [Poller -> {"idle", "checked", "waiting", "woken", "build", "snap"}]
  BY <1>1 DEF CInv, ControlTypes
<1>3. QED
  BY <1>1, <1>2, ContentUntouched

LEMMA ContentWait ==
  ASSUME NEW p \in Poller
  PROVE  CInv /\ ((\E s \in 0..MaxMilestones : Check(p, s))
                    \/ Wait(p) \/ Resume(p) \/ Timeout(p)) => CInv'
<1> SUFFICES ASSUME CInv, (\E s \in 0..MaxMilestones : Check(p, s))
                            \/ Wait(p) \/ Resume(p) \/ Timeout(p)
             PROVE  CInv'
  OBVIOUS
<1>1. UNCHANGED <<wpc, progressSeq, items, snap, reply>> /\ scheduled' = scheduled
  BY DEF Check, Wait, Resume, Timeout, workerVars, eventVars
<1>2. ControlTypes
  BY DEF CInv
<1>3. /\ since' \in [Poller -> 0..MaxMilestones] /\ isSet' \in BOOLEAN
      /\ ppc' \in [Poller -> {"idle", "checked", "waiting", "woken", "build", "snap"}]
  BY <1>2 DEF ControlTypes, Check, Wait, Resume, Timeout, Goto, eventVars
<1>4. scheduled' = scheduled \/ (scheduled > 0 /\ scheduled' = scheduled - 1)
  BY <1>1
<1>5. QED
  BY <1>1, <1>3, <1>4, ContentUntouched

LEMMA ContentSnapshot ==
  ASSUME NEW p \in Poller
  PROVE  CInv /\ Snapshot(p) => CInv'
<1> SUFFICES ASSUME CInv, Snapshot(p) PROVE CInv'
  OBVIOUS
<1>1. ControlTypes /\ ScheduledInv /\ KeptInv /\ SnapInv /\ ReplyInv
  BY DEF CInv
<1>2. /\ UNCHANGED <<wpc, progressSeq, items, isSet, scheduled, since, reply>>
      /\ snap' = [snap EXCEPT ![p] = items]
      /\ ppc' = [ppc EXCEPT ![p] = "snap"]
  BY DEF Snapshot, Goto, workerVars, eventVars
<1>3. ControlTypes' /\ ScheduledInv' /\ KeptInv' /\ ReplyInv'
  BY <1>1, <1>2 DEF ControlTypes, ScheduledInv, KeptInv, ReplyInv, Appended
<1>4. SnapInv'
  <2>1. Appended \in 0..progressSeq
    BY <1>1 DEF Appended, ControlTypes
  <2>2. /\ IsRun(items, Appended, Keep + 1)
        /\ \A q \in Poller : snap'[q] = (IF q = p THEN items ELSE snap[q])
    <3>1. \A a \in Nat : IsRun(items, a, Keep) => IsRun(items, a, Keep + 1)
      BY FeedAssumption DEF IsRun
    <3>2. Appended \in Nat
      BY <2>1, <1>1, FeedAssumption DEF ControlTypes
    <3>3. QED
      BY <3>1, <3>2, <1>1, <1>2 DEF SnapInv, KeptInv
  <2>3. snap' = [q \in Poller |-> snap'[q]]
    BY <1>1, <1>2 DEF SnapInv
  <2>4. ASSUME NEW q \in Poller PROVE \E a \in 0..progressSeq : IsRun(snap'[q], a, Keep + 1)
    BY <2>1, <2>2, <1>1 DEF SnapInv
  <2>5. QED
    BY <2>3, <2>4, <1>2 DEF SnapInv
<1>5. QED
  BY <1>3, <1>4 DEF CInv

\* The reply: the filter takes what the client lacks from the copy, the page cuts it.
LEMMA ContentDeliver ==
  ASSUME NEW p \in Poller
  PROVE  CInv /\ Deliver(p) => CInv'
<1> SUFFICES ASSUME CInv, Deliver(p) PROVE CInv'
  OBVIOUS
<1>1. ControlTypes /\ ScheduledInv /\ KeptInv /\ SnapInv /\ ReplyInv
  BY DEF CInv
<1>2. Keep \in Nat \ {0} /\ PageSize \in Nat \ {0} /\ MaxMilestones \in Nat
  BY FeedAssumption
<1> DEFINE new == After(snap[p], since[p])
<1>3. /\ UNCHANGED <<wpc, progressSeq, items, isSet, scheduled>>
      /\ reply' = [since |-> since[p], current_seq |-> progressSeq,
                   items |-> Latest(new, PageSize),
                   truncated |-> Len(new) > PageSize]
      /\ snap' = [snap EXCEPT ![p] = <<>>]
      /\ since' = [since EXCEPT ![p] = 0]
      /\ ppc' = [ppc EXCEPT ![p] = "idle"]
  BY DEF Deliver, Goto, workerVars, eventVars
<1>4. ControlTypes' /\ ScheduledInv' /\ KeptInv'
  BY <1>1, <1>2, <1>3 DEF ControlTypes, ScheduledInv, KeptInv, Appended
<1>5. SnapInv'
  <2>1. 0 \in 0..progressSeq
    BY <1>1 DEF ControlTypes
  <2>2. /\ IsRun(<<>>, 0, Keep + 1)
        /\ \A q \in Poller : snap'[q] = (IF q = p THEN <<>> ELSE snap[q])
    BY <1>1, <1>2, <1>3, EmptyRun DEF SnapInv
  <2>3. snap' = [q \in Poller |-> snap'[q]]
    BY <1>1, <1>3 DEF SnapInv
  <2>4. ASSUME NEW q \in Poller PROVE \E a \in 0..progressSeq : IsRun(snap'[q], a, Keep + 1)
    BY <2>1, <2>2, <1>1 DEF SnapInv
  <2>5. QED
    BY <2>3, <2>4, <1>3 DEF SnapInv
<1>6. ReplyInv'
  <2>1. PICK n \in Nat : n = since[p]
    BY <1>1, <1>2 DEF ControlTypes
  <2>2. PICK a \in 0..progressSeq : IsRun(snap[p], a, Keep + 1)
    BY <1>1 DEF SnapInv
  <2>3. a \in Nat /\ a <= MaxMilestones
    BY <1>1, <1>2 DEF ControlTypes
  <2>4. PICK f \in Nat \ {0} :
          /\ snap[p] = Numbers(f, a) /\ f <= a + 1 /\ a - f + 1 <= Keep + 1
          /\ f = 1 \/ a - f + 1 >= Keep
    BY <2>2 DEF IsRun
  <2> DEFINE g == IF n < f THEN f ELSE IF n > a THEN a + 1 ELSE n + 1
             h == IF a - g + 1 > PageSize THEN a - PageSize + 1 ELSE g
  <2>5. g \in Nat \ {0} /\ g <= a + 1 /\ f <= g
    BY <2>3, <2>4
  <2>6. new = Numbers(g, a)
    BY <2>1, <2>2, <2>3, <2>4, AfterNumbers
  <2>7. g > a \/ g = n + 1 \/ a - g + 1 >= Keep
    BY <2>1, <2>3, <2>4
  <2> HIDE DEF g, new
  <2>8. Len(new) = a - g + 1 /\ Latest(new, PageSize) = Numbers(h, a)
    BY <2>3, <2>5, <2>6, <1>2, NumbersMeaning, LatestNumbers
  <2>9. h \in Nat \ {0} /\ h <= a + 1 /\ a - h + 1 <= Keep + 1
    BY <2>3, <2>4, <2>5, <1>2
  <2>10. a - g + 1 > PageSize \/ h > a \/ h = n + 1 \/ a - h + 1 >= Keep
    BY <2>7, <2>3, <2>5, <1>2
  <2>11. /\ reply'.items = Numbers(h, a) /\ reply'.since = n
         /\ reply'.current_seq = progressSeq
         /\ reply'.truncated = (a - g + 1 > PageSize)
    BY <1>3, <2>1, <2>8
  <2> HIDE DEF h
  <2>12. a \in 0..MaxMilestones /\ progressSeq \in 0..MaxMilestones
    BY <2>3, <1>1 DEF ControlTypes
  <2>13. QED
    BY <2>1, <2>9, <2>10, <2>11, <2>12 DEF ReplyInv
<1>7. QED
  BY <1>4, <1>5, <1>6 DEF CInv

LEMMA ContentStep == CInv /\ [Next]_vars => CInv'
<1> SUFFICES ASSUME CInv, [Next]_vars PROVE CInv'
  OBVIOUS
<1>1. CASE Number \/ AppendItem \/ TrimItems \/ Nudge \/ Signal
  BY <1>1, ContentWorker
<1>2. CASE RunCallback
  BY <1>2, ContentCallback
<1>3. ASSUME NEW p \in Poller,
             (\E s \in 0..MaxMilestones : Check(p, s)) \/ Proceed(p) \/ Timeout(p)
      PROVE  CInv'
  BY <1>3, ContentWait, ContentSnapshot, ContentDeliver DEF Proceed
<1>4. CASE UNCHANGED vars
  BY <1>4 DEF vars, workerVars, eventVars, pollVars, CInv, ControlTypes, ScheduledInv,
              KeptInv, SnapInv, ReplyInv, Appended
<1>5. QED
  BY <1>1, <1>2, <1>3, <1>4 DEF Next

LEMMA ContentKept == Spec => []CInv
BY ContentInit, ContentStep, PTL DEF Spec

\* A run of milestone numbers of at most Keep + 1 is a list of items.
LEMMA NumbersAreItems ==
  ASSUME NEW f \in Nat \ {0}, NEW l \in 0..MaxMilestones, f <= l + 1, l - f + 1 <= Keep + 1
  PROVE  Numbers(f, l) \in UNION {[1..n -> 1..MaxMilestones] : n \in 0..Keep + 1}
<1>1. Keep \in Nat /\ MaxMilestones \in Nat
  BY FeedAssumption
<1>2. PICK n \in 0..Keep + 1 : n = l - f + 1
  BY <1>1
<1>3. Numbers(f, l) \in [1..n -> 1..MaxMilestones]
  <2>1. \A i \in 1..n : f - 1 + i \in 1..MaxMilestones
    BY <1>1, <1>2
  <2>2. QED
    BY <2>1, <1>2 DEF Numbers
<1>4. QED
  BY <1>3

\* The milestones, the clients' copies and the replies keep their types
\* (codex_gateway.py:1148-1188), and no more callbacks pile up than were reported.
THEOREM TypeCorrect == Spec => []TypeOK
<1>1. CInv => TypeOK
  <2> SUFFICES ASSUME CInv PROVE TypeOK
    OBVIOUS
  <2> DEFINE Items == UNION {[1..n -> 1..MaxMilestones] : n \in 0..Keep + 1}
  <2>1. ControlTypes /\ ScheduledInv /\ KeptInv /\ SnapInv /\ ReplyInv
    BY DEF CInv
  <2>2. MaxMilestones \in Nat /\ MaxScheduled \in Nat
    BY FeedAssumption
  <2>3. ASSUME NEW s, NEW a \in 0..MaxMilestones, NEW n \in {Keep, Keep + 1}, IsRun(s, a, n)
        PROVE  s \in Items
    <3>1. Keep \in Nat /\ a \in Nat
      BY <2>2, FeedAssumption
    <3>2. PICK f \in Nat \ {0} : s = Numbers(f, a) /\ f <= a + 1 /\ a - f + 1 <= n
      BY <2>3 DEF IsRun
    <3>3. a - f + 1 <= Keep + 1
      BY <3>1, <3>2
    <3>4. QED
      BY <3>2, <3>3, NumbersAreItems
  <2>4. items \in Items
    <3>1. Appended \in 0..MaxMilestones
      BY <2>1, <2>2 DEF ControlTypes, Appended
    <3> HIDE DEF Items
    <3>2. QED
      BY <3>1, <2>1, <2>3 DEF KeptInv
  <2>5. snap \in [Poller -> Items]
    <3>1. \A a \in 0..progressSeq : a \in 0..MaxMilestones
      BY <2>1, <2>2 DEF ControlTypes
    <3> HIDE DEF Items
    <3>2. \A p \in Poller : snap[p] \in Items
      BY <3>1, <2>1, <2>3 DEF SnapInv
    <3>3. QED
      BY <3>2, <2>1 DEF SnapInv
  <2>6. reply.items \in Items
    BY <2>1, NumbersAreItems DEF ReplyInv
  <2>7. scheduled \in 0..MaxScheduled + MaxMilestones
    BY <2>1, <2>2 DEF ScheduledInv, ControlTypes
  <2>8. QED
    BY <2>1, <2>4, <2>5, <2>6, <2>7 DEF TypeOK, ControlTypes, ReplyInv
<1>2. QED
  BY <1>1, ContentKept, PTL

\* A client that goes on from the last item it received misses none, whatever the
\* worker appends between the copy of the list and the reading of the counter
\* (_build_progress_delta, codex_gateway.py:1176-1188).
THEOREM NoItemMissed == Spec => []ItemsFollow
<1>1. CInv => ItemsFollow
  <2> SUFFICES ASSUME CInv PROVE ItemsFollow
    OBVIOUS
  <2>1. PICK f \in Nat \ {0}, l \in 0..MaxMilestones :
          /\ reply.items = Numbers(f, l)
          /\ f <= l + 1
          /\ \/ reply.truncated
             \/ f > l
             \/ f = reply.since + 1
             \/ l - f + 1 >= Keep
    BY DEF CInv, ReplyInv
  <2>2. l \in Nat
    BY FeedAssumption
  <2> DEFINE got == reply.items
  <2>3. /\ got \in Seq(Nat) /\ Len(got) = l - f + 1
        /\ \A i \in 1..(l - f + 1) : got[i] = f - 1 + i
    BY <2>1, <2>2, NumbersMeaning
  <2>4. ASSUME NEW i \in 1..Len(got) - 1
        PROVE  got[i + 1] = got[i] + 1
    <3>1. i \in 1..(l - f + 1) /\ i + 1 \in 1..(l - f + 1)
      BY <2>2, <2>3
    <3>2. QED
      BY <3>1, <2>3
  <2>5. ASSUME got # <<>>, ~reply.truncated
        PROVE  got[1] = reply.since + 1 \/ Len(got) >= Keep
    <3>1. Len(got) # 0
      BY <2>3, <2>5, EmptySeq
    <3>2. 1 \in 1..(l - f + 1)
      BY <3>1, <2>2, <2>3
    <3>3. got[1] = f /\ ~(f > l)
      BY <3>2, <2>2, <2>3
    <3>4. QED
      BY <3>3, <2>1, <2>3, <2>5
  <2>6. QED
    BY <2>4, <2>5 DEF ItemsFollow
<1>2. QED
  BY <1>1, ContentKept, PTL
=============================================================================
