--------------------------- MODULE EventBufferProofs ---------------------------
(***************************************************************************)
(* Theorems about EventBuffer, for buffers of every capacity and jobs of   *)
(* every length.                                                           *)
(*                                                                         *)
(* Window alone is not inductive.  What the worker does next rests on the  *)
(* row it remembers in firstSeq (WorkerInv), the pointer rests on the rows *)
(* the reader has collected (PageInv), and the promise that pending events *)
(* can be drained rests on a buffer that is only ever empty before the     *)
(* first row and after the notice (EmptyInv, NoticedInv).  That a page     *)
(* ascends while the list is cut has an invariant of its own (OrderInv),   *)
(* and so has the refinement of PendingEvents (OverInv).                   *)
(***************************************************************************)
EXTENDS EventBuffer, SequenceTheorems, TLAPS

\* What the worker knows between two of its steps.
WorkerInv ==
  /\ pc = "append" => eventSeq > 0
  /\ pc = "trim" => Len(events) = Cap + 1
  /\ pc \in {"test", "advance"} => events # <<>> /\ firstSeq = events[1]

\* Rows carry numbers from 1 on.
BufferInv == Len(events) <= Appended

\* What the reader collected was given a number before.
PageInv ==
  /\ \A i \in 1..Len(page) : page[i] <= eventSeq
  /\ rpc \in {"test", "drain"} => page # <<>>

EmptyInv ==
  events = <<>> => \/ pc = "noticed"
                   \/ eventSeq = 0
                   \/ pc = "append" /\ eventSeq = 1

\* Once the notice emptied the buffer, nobody moves the pointer any more.
NoticedInv ==
  pc = "noticed" =>
    /\ events = <<>>
    /\ drained = eventSeq
    /\ rpc \in {"idle", "scan"}
    /\ rpc = "scan" => page = <<>>

IInv ==
  /\ TypeOK
  /\ Window
  /\ PointerBehind
  /\ WorkerInv
  /\ BufferInv
  /\ PageInv
  /\ EmptyInv
  /\ NoticedInv

USE CapAssumption, BoundAssumption

-----------------------------------------------------------------------------
(* Each action preserves the invariant.                                    *)

LEMMA InitInv == Init => IInv
BY DEF Init, IInv, TypeOK, Window, Appended, PointerBehind, WorkerInv, BufferInv,
       PageInv, EmptyInv, NoticedInv

\* Publishing a number before its row leaves the rows as they are: Appended does
\* not count it yet.
LEMMA NumberInv == IInv /\ Number => IInv'
BY DEF Number, readerVars, IInv, TypeOK, Window, Appended, PointerBehind,
       WorkerInv, BufferInv, PageInv, EmptyInv, NoticedInv

\* The appended row continues the window.
LEMMA AppendRowInv == IInv /\ AppendRow => IInv'
<1> SUFFICES ASSUME IInv, AppendRow PROVE IInv'
  OBVIOUS
<1>1. /\ TypeOK /\ Window /\ PointerBehind /\ WorkerInv
      /\ BufferInv /\ PageInv /\ EmptyInv /\ NoticedInv
  BY DEF IInv
<1>2. /\ pc = "append" /\ eventSeq \in Nat \ {0} /\ Len(events) \in Nat
      /\ Appended = eventSeq - 1
  BY <1>1, LenProperties DEF AppendRow, TypeOK, WorkerInv, Appended
<1>3. /\ events' \in Seq(Nat)
      /\ events' # <<>>
      /\ Len(events') = Len(events) + 1
      /\ \A i \in 1..Len(events) : events'[i] = events[i]
      /\ events'[Len(events) + 1] = eventSeq
  BY <1>1, AppendProperties DEF AppendRow, TypeOK
<1>4. /\ pc' = IF Len(events) + 1 > Cap THEN "trim" ELSE "idle"
      /\ UNCHANGED <<eventSeq, drained, firstSeq>>
      /\ UNCHANGED readerVars
      /\ Appended' = eventSeq
  BY DEF AppendRow, Appended
<1>5. TypeOK'
  BY <1>1, <1>3, <1>4 DEF TypeOK, readerVars
<1>6. Window'
  <2>1. ASSUME NEW i \in 1..Len(events') PROVE events'[i] + Len(events') = Appended' + i
    <3>1. CASE i \in 1..Len(events)
      <4>1. events[i] + Len(events) = (eventSeq - 1) + i /\ events[i] \in Nat
        BY <3>1, <1>1, <1>2, ElementOfSeq DEF Window, TypeOK
      <4>2. events'[i] = events[i]
        BY <3>1, <1>3
      <4>3. i \in Int /\ eventSeq \in Int /\ Len(events) \in Int
        BY <1>2
      <4>4. events[i] + (Len(events) + 1) = eventSeq + i
        BY <4>1, <4>3
      <4>5. QED
        BY <4>2, <4>4, <1>3, <1>4
    <3>2. CASE i = Len(events) + 1
      BY <3>2, <1>2, <1>3, <1>4
    <3>3. QED
      BY <3>1, <3>2, <1>2, <1>3
  <2>2. Len(events') <= IF pc' = "trim" THEN Cap + 1 ELSE Cap
    BY <1>1, <1>2, <1>3, <1>4 DEF Window
  <2>3. QED
    BY <2>1, <2>2 DEF Window
<1>7. WorkerInv'
  BY <1>1, <1>2, <1>3, <1>4 DEF WorkerInv, Window
<1>8. BufferInv'
  BY <1>1, <1>2, <1>3, <1>4 DEF BufferInv
<1>9. PointerBehind' /\ PageInv' /\ EmptyInv' /\ NoticedInv'
  BY <1>1, <1>3, <1>4 DEF PointerBehind, PageInv, EmptyInv, NoticedInv, readerVars
<1>10. QED
  BY <1>5, <1>6, <1>7, <1>8, <1>9 DEF IInv

\* Deleting the oldest row leaves the latest Cap.
LEMMA TrimInv == IInv /\ Trim => IInv'
<1> SUFFICES ASSUME IInv, Trim PROVE IInv'
  OBVIOUS
<1>1. /\ TypeOK /\ Window /\ PointerBehind /\ WorkerInv
      /\ BufferInv /\ PageInv /\ EmptyInv /\ NoticedInv
  BY DEF IInv
<1>2. /\ pc = "trim" /\ pc' = "test"
      /\ Len(events) = Cap + 1
      /\ events' = SubSeq(events, 2, Cap + 1)
      /\ firstSeq' = events'[1]
      /\ UNCHANGED <<eventSeq, drained>> /\ UNCHANGED readerVars
  BY <1>1 DEF Trim, WorkerInv
<1>3. Appended' = eventSeq /\ Appended = eventSeq /\ eventSeq \in Nat
  BY <1>1, <1>2 DEF Appended, TypeOK
<1>4. \A i \in 2..Cap + 1 : events[i] \in Nat
  BY <1>1, <1>2, ElementOfSeq DEF TypeOK
<1>5. /\ events' \in Seq(Nat)
      /\ Len(events') = Cap
      /\ \A i \in 1..Cap : events'[i] = events[i + 1]
  <2>1. /\ SubSeq(events, 2, Cap + 1) \in Seq(Nat)
        /\ Len(SubSeq(events, 2, Cap + 1)) = IF 2 <= Cap + 1 THEN Cap + 1 - 2 + 1 ELSE 0
        /\ \A i \in 1..Cap + 1 - 2 + 1 : SubSeq(events, 2, Cap + 1)[i] = events[2 + i - 1]
    <3>1. 2 \in Int /\ Cap + 1 \in Int
      OBVIOUS
    <3>2. QED
      BY <3>1, <1>4, SubSeqProperties
  <2>2. Cap + 1 - 2 + 1 = Cap /\ 2 <= Cap + 1 /\ \A i \in 1..Cap : 2 + i - 1 = i + 1
    OBVIOUS
  <2>3. QED
    BY <2>1, <2>2, <1>2
<1>6. 1 \in 1..Len(events') /\ events' # <<>> /\ events'[1] \in Nat
  BY <1>5, EmptySeq, ElementOfSeq
<1>7. TypeOK'
  BY <1>1, <1>2, <1>5, <1>6 DEF TypeOK, readerVars
<1>8. Window'
  <2>1. ASSUME NEW i \in 1..Len(events') PROVE events'[i] + Len(events') = Appended' + i
    <3>1. i \in 1..Cap /\ i + 1 \in 1..Cap + 1
      BY <1>5
    <3>2. events[i + 1] + (Cap + 1) = eventSeq + (i + 1) /\ events[i + 1] \in Nat
      BY <3>1, <1>1, <1>2, <1>3, <1>4 DEF Window
    <3>3. events'[i] = events[i + 1]
      BY <3>1, <1>5
    <3>4. events[i + 1] + Cap = eventSeq + i
      BY <3>1, <3>2, <1>3
    <3>5. QED
      BY <3>3, <3>4, <1>3, <1>5
  <2>2. QED
    BY <2>1, <1>2, <1>5 DEF Window
<1>9. WorkerInv' /\ BufferInv'
  BY <1>1, <1>2, <1>3, <1>5, <1>6 DEF WorkerInv, BufferInv
<1>10. PointerBehind' /\ PageInv' /\ EmptyInv' /\ NoticedInv'
  BY <1>1, <1>2, <1>6 DEF PointerBehind, PageInv, EmptyInv, NoticedInv, readerVars
<1>11. QED
  BY <1>7, <1>8, <1>9, <1>10 DEF IInv

LEMMA TestPointerInv == IInv /\ TestPointer => IInv'
BY DEF TestPointer, jobVars, readerVars, IInv, TypeOK, Window, Appended,
       PointerBehind, WorkerInv, BufferInv, PageInv, EmptyInv, NoticedInv

\* The row the worker remembers is the oldest of the window, so the pointer it
\* writes is behind.
LEMMA AdvancePointerInv == IInv /\ AdvancePointer => IInv'
<1> SUFFICES ASSUME IInv, AdvancePointer PROVE IInv'
  OBVIOUS
<1> USE DEF IInv, AdvancePointer, readerVars
<1>1. Len(events) \in Nat \ {0} /\ firstSeq = events[1] /\ pc = "advance" /\ pc' = "idle"
  BY EmptySeq DEF TypeOK, WorkerInv
<1>2. firstSeq + Len(events) = eventSeq + 1 /\ Len(events) <= eventSeq
  BY <1>1 DEF Window, Appended, BufferInv
<1>3. drained' \in Nat /\ drained' <= eventSeq'
  BY <1>1, <1>2 DEF TypeOK
<1>4. TypeOK' /\ PointerBehind'
  BY <1>1, <1>3 DEF TypeOK, PointerBehind
<1>5. Window' /\ BufferInv' /\ WorkerInv'
  BY <1>1 DEF Window, BufferInv, WorkerInv, Appended
<1>6. PageInv' /\ EmptyInv' /\ NoticedInv'
  BY <1>1 DEF PageInv, EmptyInv, NoticedInv
<1>7. QED
  BY <1>4, <1>5, <1>6

LEMMA FinishInv == IInv /\ Finish => IInv'
BY DEF Finish, jobVars, readerVars, IInv, TypeOK, Window, Appended,
       PointerBehind, WorkerInv, BufferInv, PageInv, EmptyInv, NoticedInv

LEMMA OpenInv ==
  ASSUME NEW s \in 0..MaxEvents, NEW l \in 1..MaxLimit
  PROVE  IInv /\ Open(s, l) => IInv'
BY EmptySeq DEF Open, jobVars, workerVars, IInv, TypeOK, Window, Appended,
       PointerBehind, WorkerInv, BufferInv, PageInv, EmptyInv, NoticedInv

\* A row of the buffer has a number given out already, so the page grows by
\* such a number.
LEMMA ScanInv == IInv /\ Scan => IInv'
<1> SUFFICES ASSUME IInv, Scan PROVE IInv'
  OBVIOUS
<1>1. /\ TypeOK /\ Window /\ PointerBehind /\ WorkerInv
      /\ BufferInv /\ PageInv /\ EmptyInv /\ NoticedInv
  BY DEF IInv
<1>2. /\ rpc = "scan" /\ index' = index + 1
      /\ page' = page \/ page' = Append(page, events[index])
      /\ rpc' = IF Len(page') >= limit THEN "test" ELSE "scan"
      /\ UNCHANGED <<since, limit>> /\ UNCHANGED workerVars /\ UNCHANGED jobVars
  BY DEF Scan
<1>3. Len(events) \in Nat /\ index \in 1..Len(events) /\ events[index] \in Nat
  BY <1>1, LenProperties, ElementOfSeq DEF Scan, TypeOK
<1>4. events[index] <= eventSeq
  <2>1. events[index] + Len(events) = Appended + index
    BY <1>1, <1>3 DEF Window
  <2>2. Appended <= eventSeq /\ Appended \in Int /\ eventSeq \in Nat
    BY <1>1 DEF Appended, TypeOK
  <2>3. QED
    BY <2>1, <2>2, <1>3
<1>5. page \in Seq(Nat) /\ Len(page) \in Nat
  BY <1>1, LenProperties DEF TypeOK
<1>6. /\ page' \in Seq(Nat)
      /\ Len(page') \in Nat
      /\ \A i \in 1..Len(page') : page'[i] <= eventSeq
  <2>1. CASE page' = page
    BY <2>1, <1>1, <1>5 DEF PageInv
  <2>2. CASE page' = Append(page, events[index])
    <3>1. /\ page' \in Seq(Nat)
          /\ Len(page') = Len(page) + 1
          /\ \A i \in 1..Len(page) : page'[i] = page[i]
          /\ page'[Len(page) + 1] = events[index]
      BY <2>2, <1>3, <1>5, AppendProperties
    <3>2. QED
      BY <3>1, <1>1, <1>4, <1>5 DEF PageInv
  <2>3. QED
    BY <2>1, <2>2, <1>2
<1>7. rpc' = "test" => page' # <<>>
  <2>1. limit \in Nat \ {0} /\ Len(<<>>) = 0
    BY <1>1, EmptySeq DEF TypeOK
  <2>2. QED
    BY <2>1, <1>2
<1>8. TypeOK'
  BY <1>1, <1>2, <1>3, <1>6 DEF TypeOK, workerVars, jobVars
<1>9. PageInv'
  BY <1>2, <1>6, <1>7 DEF PageInv, jobVars
<1>10. NoticedInv'
  <2>1. events # <<>>
    BY <1>3, EmptySeq
  <2>2. QED
    BY <2>1, <1>1, <1>2 DEF NoticedInv, workerVars
<1>11. Window' /\ PointerBehind' /\ WorkerInv' /\ BufferInv' /\ EmptyInv'
  BY <1>1, <1>2 DEF Window, Appended, PointerBehind, WorkerInv, BufferInv, EmptyInv,
                    workerVars, jobVars
<1>12. QED
  BY <1>8, <1>9, <1>10, <1>11 DEF IInv

LEMMA ExhaustedInv == IInv /\ Exhausted => IInv'
BY DEF Exhausted, jobVars, workerVars, IInv, TypeOK, Window, Appended,
       PointerBehind, WorkerInv, BufferInv, PageInv, EmptyInv, NoticedInv

LEMMA TestDrainedInv == IInv /\ TestDrained => IInv'
BY DEF TestDrained, jobVars, workerVars, IInv, TypeOK, Window, Appended,
       PointerBehind, WorkerInv, BufferInv, PageInv, EmptyInv, NoticedInv

\* The number written is one the reader collected.
LEMMA WriteDrainedInv == IInv /\ WriteDrained => IInv'
<1> SUFFICES ASSUME IInv, WriteDrained PROVE IInv'
  OBVIOUS
<1> USE DEF IInv, WriteDrained, workerVars
<1>1. Len(page) \in Nat \ {0} /\ MaxSeq \in Nat /\ MaxSeq <= eventSeq
  BY EmptySeq, ElementOfSeq DEF TypeOK, PageInv, MaxSeq
<1>2. pc # "noticed"
  BY DEF NoticedInv
<1>3. TypeOK' /\ PointerBehind'
  BY <1>1 DEF TypeOK, PointerBehind
<1>4. Window' /\ WorkerInv' /\ BufferInv' /\ PageInv' /\ EmptyInv' /\ NoticedInv'
  BY <1>2 DEF Window, Appended, WorkerInv, BufferInv, PageInv, EmptyInv, NoticedInv
<1>5. QED
  BY <1>3, <1>4

LEMMA NoticeDrainInv == IInv /\ NoticeDrain => IInv'
BY EmptySeq DEF NoticeDrain, readerVars, IInv, TypeOK, Window, Appended,
       PointerBehind, WorkerInv, BufferInv, PageInv, EmptyInv, NoticedInv

LEMMA StepInv == IInv /\ [Next]_vars => IInv'
<1> SUFFICES ASSUME IInv, [Next]_vars PROVE IInv'
  OBVIOUS
<1>1. CASE WorkerStep
  BY <1>1, AppendRowInv, TrimInv, TestPointerInv, AdvancePointerInv DEF WorkerStep
<1>2. CASE ReaderStep
  BY <1>2, ScanInv, ExhaustedInv, TestDrainedInv, WriteDrainedInv DEF ReaderStep
<1>3. CASE \E s \in 0..MaxEvents, l \in 1..MaxLimit : Open(s, l)
  BY <1>3, OpenInv
<1>4. CASE Number \/ Finish \/ NoticeDrain
  BY <1>4, NumberInv, FinishInv, NoticeDrainInv
<1>5. CASE UNCHANGED vars
  BY <1>5 DEF vars, workerVars, readerVars, jobVars, IInv, TypeOK, Window, Appended,
              PointerBehind, WorkerInv, BufferInv, PageInv, EmptyInv, NoticedInv
<1>6. QED
  BY <1>1, <1>2, <1>3, <1>4, <1>5 DEF Next

\* The invariant holds in every reachable state.
LEMMA Invariant == Spec => []IInv
BY InitInv, StepInv, PTL DEF Spec

-----------------------------------------------------------------------------

\* Every variable keeps its type.
THEOREM TypeCorrect == Spec => []TypeOK
BY Invariant, PTL DEF IInv

\* For every capacity of the buffer the rows are the latest ones without a hole,
\* at most one over the limit (_append_job_event, codex_gateway.py:600-601).
THEOREM WindowKept == Spec => []Window
BY Invariant, PTL DEF IInv

\* However the two threads' unlocked tests and writes of last_drained_seq
\* interleave (:605-606, :2922-2923), the pointer never passes event_seq.
THEOREM PointerNeverAhead == Spec => []PointerBehind
BY Invariant, PTL DEF IInv

\* A client refused with "Drain events first" (:644) always has the newest event
\* to read.
THEOREM PendingIsReadable == Spec => []ConflictResolvable
<1>1. IInv => ConflictResolvable
  <2> SUFFICES ASSUME IInv, Pending > 0, pc # "append"
               PROVE  Len(events) > 0 /\ events[Len(events)] = eventSeq
    BY DEF ConflictResolvable
  <2>1. eventSeq > drained /\ eventSeq \in Nat /\ drained \in Nat
    BY DEF Pending, IInv, TypeOK
  <2>2. events # <<>>
    BY <2>1 DEF IInv, EmptyInv, NoticedInv
  <2>3. Len(events) \in Nat \ {0} /\ events[Len(events)] \in Nat
    BY <2>2, EmptySeq, ElementOfSeq DEF IInv, TypeOK
  <2>4. events[Len(events)] + Len(events) = eventSeq + Len(events)
    BY <2>3 DEF IInv, Window, Appended
  <2>5. QED
    BY <2>1, <2>3, <2>4
<1>2. QED
  BY <1>1, Invariant, PTL

-----------------------------------------------------------------------------
(* The page, though rows are deleted under the iterator.                   *)

\* The page ascends, has only rows the client asked for, and the iterator stands
\* behind the last of them: a deletion moves the rows towards it, never away.
OrderInv ==
  /\ \A i, k \in 1..Len(page) : i < k => page[i] < page[k]
  /\ \A i \in 1..Len(page) : /\ page[i] > since
                             /\ page[i] + Len(events) < Appended + index

\* The iterator passes only rows older than the one it reads.
LEMMA ScanOrder == IInv /\ OrderInv /\ Scan => OrderInv'
<1> SUFFICES ASSUME IInv, OrderInv, Scan PROVE OrderInv'
  OBVIOUS
<1>1. TypeOK /\ Window
  BY DEF IInv
<1>2. /\ index' = index + 1
      /\ page' = page \/ (events[index] > since /\ page' = Append(page, events[index]))
      /\ UNCHANGED <<since, events>> /\ Appended' = Appended
  BY DEF Scan, workerVars, jobVars, Appended
<1>3. /\ Len(events) \in Nat /\ index \in 1..Len(events) /\ events[index] \in Nat
      /\ page \in Seq(Nat) /\ Len(page) \in Nat /\ since \in Nat /\ Appended \in Int
  BY <1>1, LenProperties, ElementOfSeq DEF Scan, TypeOK, Appended
<1>4. events[index] + Len(events) = Appended + index
  BY <1>1, <1>3 DEF Window
<1>5. \A i \in 1..Len(page) :
        /\ page[i] \in Nat /\ page[i] > since
        /\ page[i] < events[index]
        /\ page[i] + Len(events) < Appended + (index + 1)
  <2> SUFFICES ASSUME NEW i \in 1..Len(page)
               PROVE  /\ page[i] \in Nat /\ page[i] > since
                      /\ page[i] < events[index]
                      /\ page[i] + Len(events) < Appended + (index + 1)
    OBVIOUS
  <2>1. /\ page[i] \in Nat /\ page[i] > since
        /\ page[i] + Len(events) < Appended + index
    BY <1>3, ElementOfSeq DEF OrderInv
  <2>2. QED
    BY <2>1, <1>3, <1>4
<1>6. CASE page' = page
  BY <1>2, <1>5, <1>6 DEF OrderInv
<1>7. CASE events[index] > since /\ page' = Append(page, events[index])
  <2>1. /\ Len(page') = Len(page) + 1
        /\ \A i \in 1..Len(page) : page'[i] = page[i]
        /\ page'[Len(page) + 1] = events[index]
    BY <1>3, <1>7, AppendProperties
  <2>2. \A i \in 1..Len(page') : i \in 1..Len(page) \/ i = Len(page) + 1
    BY <2>1, <1>3
  <2>3. ASSUME NEW i \in 1..Len(page')
        PROVE  page'[i] > since /\ page'[i] + Len(events) < Appended + (index + 1)
    <3>1. CASE i \in 1..Len(page)
      BY <3>1, <2>1, <1>5
    <3>2. CASE i = Len(page) + 1
      BY <3>2, <2>1, <1>3, <1>4, <1>7
    <3>3. QED
      BY <3>1, <3>2, <2>2
  <2>4. ASSUME NEW i \in 1..Len(page'), NEW k \in 1..Len(page'), i < k
        PROVE  page'[i] < page'[k]
    <3>1. i \in 1..Len(page)
      BY <2>1, <2>4, <1>3
    <3>2. CASE k \in 1..Len(page)
      BY <3>1, <3>2, <2>1, <2>4 DEF OrderInv
    <3>3. CASE k = Len(page) + 1
      BY <3>1, <3>3, <2>1, <1>5
    <3>4. QED
      BY <3>2, <3>3, <2>2
  <2>5. QED
    BY <2>3, <2>4, <1>2 DEF OrderInv
<1>8. QED
  BY <1>2, <1>6, <1>7

\* Any other step leaves the page alone, and the oldest row is never replaced by an
\* older one.
LEMMA OrderKept ==
  ASSUME TypeOK, TypeOK', OrderInv, UNCHANGED <<page, since, index>>,
         Appended + Len(events') <= Appended' + Len(events)
  PROVE  OrderInv'
<1>1. /\ Len(events) \in Nat /\ Len(events') \in Nat /\ index \in Nat
      /\ Appended \in Int /\ Appended' \in Int
  BY LenProperties DEF TypeOK, Appended
<1>2. ASSUME NEW i \in 1..Len(page)
      PROVE  page[i] + Len(events') < Appended' + index
  <2>1. page[i] \in Nat /\ page[i] + Len(events) < Appended + index
    BY ElementOfSeq DEF TypeOK, OrderInv
  <2>2. QED
    BY <2>1, <1>1
<1>3. QED
  BY <1>2 DEF OrderInv

LEMMA StepOrder == IInv /\ IInv' /\ OrderInv /\ [Next]_vars => OrderInv'
<1> SUFFICES ASSUME IInv, IInv', OrderInv, [Next]_vars PROVE OrderInv'
  OBVIOUS
<1>1. TypeOK /\ TypeOK' /\ WorkerInv
  BY DEF IInv
<1>2. /\ Len(events) \in Nat /\ Len(events') \in Nat
      /\ Appended \in Int /\ Appended' \in Int /\ eventSeq \in Nat
  BY <1>1, LenProperties DEF TypeOK, Appended
<1>3. CASE Scan
  BY <1>3, ScanOrder
<1>4. CASE \E s \in 0..MaxEvents, l \in 1..MaxLimit : Open(s, l)
  <2>1. page' = <<>>
    BY <1>4 DEF Open
  <2>2. 1..Len(page') = {}
    BY <2>1, EmptySeq
  <2>3. QED
    BY <2>2 DEF OrderInv
<1>5. CASE Number
  BY <1>1, <1>2, <1>5, OrderKept DEF Number, readerVars, Appended
<1>6. CASE AppendRow
  <2>1. UNCHANGED <<page, since, index>> /\ Appended = eventSeq - 1 /\ Appended' = eventSeq
    BY <1>6 DEF AppendRow, readerVars, Appended
  <2>2. Len(events') = Len(events) + 1
    BY <1>1, <1>6, AppendProperties DEF AppendRow, TypeOK
  <2>3. QED
    BY <2>1, <2>2, <1>1, <1>2, OrderKept
<1>7. CASE Trim
  <2>1. UNCHANGED <<page, since, index>> /\ Appended = eventSeq /\ Appended' = eventSeq
    BY <1>7 DEF Trim, readerVars, Appended
  <2>2. Len(events') <= Cap /\ Len(events) = Cap + 1
    BY <1>1, <1>7 DEF Trim, WorkerInv, IInv, Window
  <2>3. QED
    BY <2>1, <2>2, <1>1, <1>2, OrderKept
<1>8. CASE NoticeDrain
  <2>1. UNCHANGED <<page, since, index>> /\ Appended' = Appended /\ Len(events') = 0
    BY <1>8, EmptySeq DEF NoticeDrain, readerVars, Appended
  <2>2. QED
    BY <2>1, <1>1, <1>2, OrderKept
<1>9. CASE \/ TestPointer \/ AdvancePointer \/ Finish
           \/ Exhausted \/ TestDrained \/ WriteDrained \/ UNCHANGED vars
  <2>1. UNCHANGED <<page, since, index, events>> /\ Appended' = Appended
    BY <1>9 DEF TestPointer, AdvancePointer, Finish, Exhausted, TestDrained,
                WriteDrained, vars, workerVars, readerVars, jobVars, Appended
  <2>2. QED
    BY <2>1, <1>1, <1>2, OrderKept
<1>10. QED
  BY <1>3, <1>4, <1>5, <1>6, <1>7, <1>8, <1>9 DEF Next, WorkerStep, ReaderStep

\* A page never repeats or swaps a row, though the worker deletes the first row
\* while the handler walks the list by index (get_codex_job_events,
\* codex_gateway.py:2904-2918, against :600-601); so the last row of the page is
\* its highest and max() at :2921 is MaxSeq.  What a deletion can do is make the
\* page skip a row.
PageAscends ==
  /\ \A i, k \in 1..Len(page) : i < k => page[i] < page[k]
  /\ \A i \in 1..Len(page) : since < page[i] /\ page[i] <= MaxSeq

THEOREM PageInOrder == Spec => []PageAscends
<1>1. Init => OrderInv
  BY EmptySeq DEF Init, OrderInv
<1>2. IInv /\ OrderInv => PageAscends
  <2> SUFFICES ASSUME IInv, OrderInv, NEW i \in 1..Len(page)
               PROVE  since < page[i] /\ page[i] <= MaxSeq
    BY DEF OrderInv, PageAscends
  <2>1. Len(page) \in Nat \ {0} /\ Len(page) \in 1..Len(page)
    BY LenProperties DEF IInv, TypeOK
  <2>2. page[i] \in Nat /\ since \in Nat /\ page[i] > since
    BY ElementOfSeq DEF IInv, TypeOK, OrderInv
  <2>3. CASE i = Len(page)
    BY <2>2, <2>3 DEF MaxSeq
  <2>4. CASE i # Len(page)
    <3>1. page[i] < page[Len(page)] /\ page[Len(page)] \in Nat
      BY <2>1, <2>4, ElementOfSeq DEF IInv, TypeOK, OrderInv
    <3>2. QED
      BY <3>1, <2>2 DEF MaxSeq
  <2>5. QED
    BY <2>3, <2>4
<1>3. QED
  BY <1>1, <1>2, StepOrder, Invariant, PTL DEF Spec

-----------------------------------------------------------------------------
(* The buffer implements PendingEvents.                                    *)

Over == pc \in {"ended", "noticed"}

\* After the job's end nobody but the reader writes the pointer, so what the reader
\* found when it tested still holds when it writes.
OverInv == Over /\ rpc = "drain" => MaxSeq > drained

LEMMA OverStep == IInv /\ OverInv /\ [Next]_vars => OverInv'
<1> SUFFICES ASSUME IInv, OverInv, [Next]_vars, Over', rpc' = "drain"
             PROVE  MaxSeq' > drained'
  BY DEF OverInv
<1>1. CASE TestDrained
  BY <1>1 DEF TestDrained, MaxSeq, workerVars, jobVars
<1>2. CASE UNCHANGED vars
  BY <1>2 DEF vars, workerVars, readerVars, jobVars, MaxSeq, OverInv, Over
<1>3. CASE Number \/ WorkerStep
  BY <1>3 DEF Number, WorkerStep, AppendRow, Trim, TestPointer, AdvancePointer, Over
<1>4. CASE Finish \/ NoticeDrain
  BY <1>4 DEF Finish, NoticeDrain, readerVars
<1>5. CASE \E s \in 0..MaxEvents, l \in 1..MaxLimit : Open(s, l)
  BY <1>5 DEF Open
<1>6. CASE Scan \/ Exhausted \/ WriteDrained
  BY <1>6 DEF Scan, Exhausted, WriteDrained
<1>7. QED
  BY <1>1, <1>2, <1>3, <1>4, <1>5, <1>6 DEF Next, ReaderStep

\* What one step does to the phase and to the pending events.
LEMMA PendingStep ==
  ASSUME IInv, IInv', OverInv, [Next]_vars
  PROVE  \/ Phase = "producing" /\ Phase' = "producing"
         \/ Phase = "producing" /\ Phase' = "over" /\ Pending' <= Pending
         \/ Phase \in {"over", "noticed"} /\ Phase' = Phase /\ Pending' <= Pending
         \/ Phase = "over" /\ Phase' = "noticed" /\ Pending' = 0
<1>1. TypeOK /\ TypeOK' /\ PageInv
  BY DEF IInv
<1>2. /\ eventSeq \in Nat /\ drained \in Nat /\ Pending \in Nat
      /\ eventSeq' \in Nat /\ drained' \in Nat /\ Pending' \in Nat
  <2>1. eventSeq \in Nat /\ drained \in Nat /\ eventSeq' \in Nat /\ drained' \in Nat
    BY <1>1 DEF TypeOK
  <2>2. \A e, d \in Nat : (IF e > d THEN e - d ELSE 0) \in Nat
    OBVIOUS
  <2>3. /\ Pending = IF eventSeq > drained THEN eventSeq - drained ELSE 0
        /\ Pending' = IF eventSeq' > drained' THEN eventSeq' - drained' ELSE 0
    BY DEF Pending
  <2>4. QED
    BY <2>1, <2>2, <2>3
<1>3. CASE Number \/ WorkerStep
  <2>1. ~Over /\ ~Over'
    BY <1>3 DEF Number, WorkerStep, AppendRow, Trim, TestPointer, AdvancePointer, Over
  <2>2. QED
    BY <2>1 DEF Phase, Over
<1>4. CASE Finish
  BY <1>2, <1>4 DEF Finish, Phase, Pending, jobVars
<1>5. CASE NoticeDrain
  BY <1>2, <1>5 DEF NoticeDrain, Phase, Pending
<1>6. CASE WriteDrained
  <2>1. pc' = pc /\ eventSeq' = eventSeq /\ drained' = MaxSeq /\ rpc = "drain"
    BY <1>6 DEF WriteDrained, workerVars
  <2>2. CASE Over
    <3>1. drained' > drained
      BY <2>1, <2>2 DEF OverInv
    <3>2. Pending' <= Pending
      BY <3>1, <2>1, <1>2 DEF Pending
    <3>3. QED
      BY <3>2, <2>1, <2>2 DEF Phase, Over
  <2>3. CASE ~Over
    BY <2>1, <2>3 DEF Phase, Over
  <2>4. QED
    BY <2>2, <2>3
<1>7. CASE \/ \E s \in 0..MaxEvents, l \in 1..MaxLimit : Open(s, l)
           \/ Scan \/ Exhausted \/ TestDrained \/ UNCHANGED vars
  <2>1. UNCHANGED <<pc, eventSeq, drained>>
    BY <1>7 DEF Open, Scan, Exhausted, TestDrained, vars, workerVars, jobVars
  <2>2. Phase' = Phase /\ Pending' <= Pending
    BY <2>1, <1>2 DEF Phase, Pending
  <2>3. Phase \in {"producing", "over", "noticed"}
    BY DEF Phase
  <2>4. QED
    BY <2>2, <2>3
<1>8. QED
  BY <1>3, <1>4, <1>5, <1>6, <1>7 DEF Next, ReaderStep

\* Once the job is over its pending events only come down, in spite of the pointer
\* two threads write without a lock, and after the notice there are none
\* (_append_job_event, codex_gateway.py:605-606; get_codex_job_events, :2920-2923;
\* _drain_job_events, :334-336).
THEOREM Refinement == Spec => ImplementsPending
<1>1. Init => Counter!Init /\ OverInv
  <2> SUFFICES ASSUME Init PROVE Counter!Init /\ OverInv
    OBVIOUS
  <2>1. Phase = "producing" /\ Pending = 0
    BY DEF Init, Phase, Pending
  <2>2. QED
    BY <2>1 DEF Init, Counter!Init, OverInv, Over
<1>2. IInv /\ IInv' /\ OverInv /\ [Next]_vars => Counter!Next
  <2> SUFFICES ASSUME IInv, IInv', OverInv, [Next]_vars PROVE Counter!Next
    OBVIOUS
  <2>1. Phase' \in {"producing", "over", "noticed"} /\ Pending' \in Nat
    BY DEF Phase, Pending, IInv, TypeOK
  <2>2. ASSUME NEW j \in {1}
        PROVE  Counter!Produce(j) \/ Counter!Finish(j) \/ Counter!Drain(j) \/ Counter!Notice(j)
    BY PendingStep DEF Counter!Produce, Counter!Finish, Counter!Drain, Counter!Notice
  <2>3. QED
    BY <2>1, <2>2 DEF Counter!Next, Counter!Phase
<1>3. QED
  BY <1>1, <1>2, Invariant, OverStep, PTL DEF Spec, ImplementsPending, Counter!Spec
=============================================================================
