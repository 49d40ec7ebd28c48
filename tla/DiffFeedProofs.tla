---------------------------- MODULE DiffFeedProofs ----------------------------
(***************************************************************************)
(* Theorems about DiffFeed, for lists of every capacity and jobs with any  *)
(* number of diffs.                                                        *)
(*                                                                         *)
(* NewestReturned alone is not inductive.  While a poll walks the list, it *)
(* either has what it owes or its index is still within the rows the next  *)
(* trim leaves (Kept), whatever is appended and deleted meanwhile; the row *)
(* at that place is new enough because rows are numbered without a hole    *)
(* (WindowInv) and versions only grow (LiveInv).                           *)
(***************************************************************************)
EXTENDS DiffFeed, SequenceTheorems, TLAPS

\* The version of the last row appended.
Appended == IF pc = "append" THEN version - 1 ELSE version

\* The rows that stay when a trim that is due has happened.
Kept == IF pc = "trim" THEN Len(updates) - 1 ELSE Len(updates)

\* Versions count the diffs of a live job, in step with the latest text.
WorkerInv ==
  /\ latest = arrived
  /\ pc \in {"append", "trim"} => version > 0
  /\ pc = "number" => arrived = version + 1
  /\ mode = "live" /\ pc # "number" => arrived = version
  /\ mode # "live" => pc = "idle" /\ version = 0
  /\ status # "running" => pc = "idle"

\* The rows are the latest ones without a hole, and there is one unless none came.
WindowInv ==
  /\ \A i \in 1..Len(updates) : updates[i].version + Len(updates) = Appended + i
  /\ IF pc = "trim" THEN Len(updates) = Cap + 1 ELSE Len(updates) <= Cap
  /\ updates = <<>> => Appended = 0

\* A poll was opened on registered rows, returns none that was not numbered, and has
\* the row it owes before it or behind it.
LiveInv ==
  /\ complete <= Registered
  /\ \A i \in 1..Len(page) : page[i].version <= version
  /\ rpc = "scan" => complete <= since \/ complete <= Newest \/ index <= Kept
  /\ held <= version

\* What diff/final returns was fixed at the end of the job.
FinalInv ==
  /\ final # 0 => status # "running" /\ final = arrived
  /\ diagnostic => status # "running"
  /\ fetched # 0 => status # "running" /\ fetched = arrived

IInv ==
  /\ TypeOK
  /\ WorkerInv
  /\ WindowInv
  /\ RowsMatch
  /\ LiveInv
  /\ NewestReturned
  /\ FinalInv

USE DiffAssumption

-----------------------------------------------------------------------------
(* Each action preserves the invariant.                                    *)

LEMMA InitInv == Init => IInv
<1> SUFFICES ASSUME Init PROVE IInv
  OBVIOUS
<1>1. Len(updates) = 0 /\ Len(page) = 0 /\ updates \in Seq(Row) /\ page \in Seq(Row)
  BY DEF Init
<1>2. TypeOK
  <2>1. /\ mode \in {"live", "final_only", "off"} /\ status = "running" /\ pc = "idle"
        /\ arrived = 0 /\ latest = 0 /\ version = 0 /\ final = 0
        /\ rpc = "idle" /\ since = 0 /\ index = 1 /\ complete = 0 /\ held = 0 /\ fetched = 0
    BY DEF Init
  <2>2. diagnostic \in BOOLEAN
    BY DEF Init
  <2>3. QED
    BY <1>1, <2>1, <2>2 DEF TypeOK
<1>3. WorkerInv /\ WindowInv /\ RowsMatch /\ LiveInv /\ NewestReturned /\ FinalInv
  BY <1>1 DEF Init, WorkerInv, WindowInv, Appended, RowsMatch, LiveInv, Registered,
              NewestReturned, FinalInv
<1>4. QED
  BY <1>2, <1>3 DEF IInv

\* Of a page of rows, the newest version is a number.
LEMMA NewestNat == TypeOK => Newest \in Nat
<1> SUFFICES ASSUME TypeOK PROVE Newest \in Nat
  OBVIOUS
<1>1. CASE page = <<>>
  BY <1>1 DEF Newest
<1>2. CASE page # <<>>
  <2>1. page[Len(page)] \in Row
    BY <1>2, EmptySeq, LenProperties, ElementOfSeq DEF TypeOK
  <2>2. QED
    BY <1>2, <2>1 DEF Newest, Row
<1>3. QED
  BY <1>1, <1>2

LEMMA CaptureInv == IInv /\ Capture => IInv'
BY DEF Capture, liveVars, clientVars, IInv, TypeOK, WorkerInv, WindowInv, Appended, Kept,
       RowsMatch, LiveInv, Registered, Newest, NewestReturned, FinalInv

\* A version given out is not registered before its row is appended.
LEMMA NumberInv == IInv /\ Number => IInv'
<1> SUFFICES ASSUME IInv, Number PROVE IInv'
  OBVIOUS
<1> USE DEF IInv, Number, liveVars, clientVars
<1>1. /\ version \in Nat /\ version' = version + 1 /\ pc = "number" /\ pc' = "append"
      /\ arrived = version + 1 /\ mode = "live" /\ status = "running"
  BY DEF TypeOK, WorkerInv
<1>2. Appended' = Appended /\ Registered' = Registered /\ Kept' = Kept /\ Newest' = Newest
  BY <1>1 DEF Appended, Registered, Kept, Newest
<1>3. TypeOK' /\ WorkerInv' /\ FinalInv'
  BY <1>1 DEF TypeOK, WorkerInv, FinalInv
<1>4. WindowInv' /\ RowsMatch' /\ NewestReturned'
  BY <1>1, <1>2 DEF WindowInv, RowsMatch, NewestReturned
<1>5. LiveInv'
  <2>1. ASSUME NEW i \in 1..Len(page) PROVE page[i].version <= version + 1
    <3>1. page[i] \in Row /\ page[i].version <= version
      BY ElementOfSeq DEF LiveInv, TypeOK
    <3>2. page[i].version \in Nat
      BY <3>1 DEF Row
    <3>3. QED
      BY <1>1, <3>1, <3>2
  <2>2. QED
    BY <2>1, <1>1, <1>2 DEF LiveInv, TypeOK
<1>6. QED
  BY <1>3, <1>4, <1>5

\* The appended row continues the window and carries the diff of its version.
LEMMA AppendRowInv == IInv /\ AppendRow => IInv'
<1> SUFFICES ASSUME IInv, AppendRow PROVE IInv'
  OBVIOUS
<1> DEFINE row == [version |-> version, diff |-> latest]
<1>1. /\ TypeOK /\ WorkerInv /\ WindowInv /\ RowsMatch
      /\ LiveInv /\ NewestReturned /\ FinalInv
  BY DEF IInv
<1>2. /\ pc = "append" /\ mode = "live" /\ status = "running"
      /\ version \in Nat \ {0} /\ latest = version /\ Len(updates) \in Nat
      /\ Len(updates) <= Cap /\ row \in Row
  BY <1>1, LenProperties DEF AppendRow, TypeOK, WorkerInv, WindowInv, Row
<1>3. /\ updates' \in Seq(Row)
      /\ updates' # <<>>
      /\ Len(updates') = Len(updates) + 1
      /\ \A i \in 1..Len(updates) : updates'[i] = updates[i]
      /\ updates'[Len(updates) + 1] = row
  <2>1. updates' = Append(updates, row) /\ updates \in Seq(Row)
    BY <1>1 DEF AppendRow, TypeOK
  <2>2. QED
    BY <2>1, <1>2, AppendProperties
<1>4. /\ pc' = IF Len(updates') > Cap THEN "trim" ELSE "idle"
      /\ UNCHANGED <<mode, status, arrived, latest, version, final, diagnostic>>
      /\ UNCHANGED liveVars /\ UNCHANGED clientVars
  BY DEF AppendRow
<1>5. /\ Appended = version - 1 /\ Appended' = version
      /\ Registered = version - 1 /\ Registered' \in {version - 1, version}
      /\ Kept = Len(updates) /\ Kept' \in {Len(updates), Len(updates) + 1}
      /\ Newest' = Newest
  BY <1>2, <1>3, <1>4 DEF Appended, Registered, Kept, Newest, liveVars
<1>6. TypeOK' /\ WorkerInv' /\ NewestReturned' /\ FinalInv'
  BY <1>1, <1>2, <1>3, <1>4, <1>5
     DEF TypeOK, WorkerInv, NewestReturned, FinalInv, liveVars, clientVars
<1>7. WindowInv'
  <2>1. ASSUME NEW i \in 1..Len(updates')
        PROVE updates'[i].version + Len(updates') = Appended' + i
    <3>1. CASE i \in 1..Len(updates)
      <4>1. updates[i] \in Row
        BY <3>1, <1>1, ElementOfSeq DEF TypeOK
      <4>2. updates[i].version \in Nat
        BY <4>1 DEF Row
      <4>3. updates[i].version + Len(updates) = (version - 1) + i
        BY <3>1, <1>1, <1>5 DEF WindowInv
      <4>4. version \in Int /\ i \in Int /\ Len(updates) \in Int
        BY <3>1, <1>2
      <4>5. updates[i].version + (Len(updates) + 1) = version + i
        BY <4>2, <4>3, <4>4
      <4>6. QED
        BY <4>5, <3>1, <1>3, <1>5
    <3>2. CASE i = Len(updates) + 1
      BY <3>2, <1>2, <1>3, <1>5
    <3>3. QED
      BY <3>1, <3>2, <1>2, <1>3
  <2>2. IF pc' = "trim" THEN Len(updates') = Cap + 1 ELSE Len(updates') <= Cap
    BY <1>2, <1>3, <1>4
  <2>3. QED
    BY <2>1, <2>2, <1>3 DEF WindowInv
<1>8. RowsMatch'
  <2>1. ASSUME NEW i \in 1..Len(updates') PROVE updates'[i].diff = updates'[i].version
    BY <1>1, <1>2, <1>3 DEF RowsMatch
  <2>2. QED
    BY <2>1, <1>1, <1>4 DEF RowsMatch, liveVars
<1>9. LiveInv'
  <2>1. complete' <= Registered' /\ held' <= version'
    BY <1>1, <1>2, <1>4, <1>5 DEF LiveInv, TypeOK, liveVars, clientVars
  <2>2. rpc' = "scan" => complete' <= since' \/ complete' <= Newest' \/ index' <= Kept'
    BY <1>1, <1>2, <1>4, <1>5 DEF LiveInv, TypeOK, liveVars
  <2>3. QED
    BY <2>1, <2>2, <1>1, <1>4 DEF LiveInv, liveVars
<1>10. QED
  BY <1>6, <1>7, <1>8, <1>9 DEF IInv

\* Deleting the oldest row leaves the latest Cap, the ones Kept counts already.
LEMMA TrimInv == IInv /\ Trim => IInv'
<1> SUFFICES ASSUME IInv, Trim PROVE IInv'
  OBVIOUS
<1>1. /\ TypeOK /\ WorkerInv /\ WindowInv /\ RowsMatch
      /\ LiveInv /\ NewestReturned /\ FinalInv
  BY DEF IInv
<1>2. /\ pc = "trim" /\ pc' = "idle"
      /\ Len(updates) = Cap + 1
      /\ updates' = SubSeq(updates, 2, Cap + 1)
      /\ UNCHANGED <<mode, status, arrived, latest, version, final, diagnostic>>
      /\ UNCHANGED liveVars /\ UNCHANGED clientVars
  BY <1>1 DEF Trim, WindowInv
<1>3. \A i \in 2..Cap + 1 : updates[i] \in Row
  BY <1>1, <1>2, ElementOfSeq DEF TypeOK
<1>4. /\ updates' \in Seq(Row)
      /\ Len(updates') = Cap
      /\ \A i \in 1..Cap : updates'[i] = updates[i + 1]
  <2>1. /\ SubSeq(updates, 2, Cap + 1) \in Seq(Row)
        /\ Len(SubSeq(updates, 2, Cap + 1)) = IF 2 <= Cap + 1 THEN Cap + 1 - 2 + 1 ELSE 0
        /\ \A i \in 1..Cap + 1 - 2 + 1 : SubSeq(updates, 2, Cap + 1)[i] = updates[2 + i - 1]
    <3>1. 2 \in Int /\ Cap + 1 \in Int
      OBVIOUS
    <3>2. QED
      BY <3>1, <1>3, SubSeqProperties
  <2>2. Cap + 1 - 2 + 1 = Cap /\ 2 <= Cap + 1 /\ \A i \in 1..Cap : 2 + i - 1 = i + 1
    OBVIOUS
  <2>3. QED
    BY <2>1, <2>2, <1>2
<1>5. /\ version \in Nat /\ Appended = version /\ Appended' = version
      /\ Registered = version - 1 /\ Registered' = version
      /\ Kept = Cap /\ Kept' = Cap /\ Newest' = Newest
      /\ updates' # <<>>
  BY <1>1, <1>2, <1>4, EmptySeq DEF TypeOK, Appended, Registered, Kept, Newest, liveVars
<1>6. TypeOK' /\ WorkerInv' /\ NewestReturned' /\ FinalInv'
  BY <1>1, <1>2, <1>4, <1>5
     DEF TypeOK, WorkerInv, NewestReturned, FinalInv, liveVars, clientVars
<1>7. WindowInv'
  <2>1. ASSUME NEW i \in 1..Len(updates')
        PROVE updates'[i].version + Len(updates') = Appended' + i
    <3>1. i \in 1..Cap /\ i + 1 \in 1..Cap + 1 /\ i + 1 \in 2..Cap + 1
      BY <1>4
    <3>2. updates[i + 1].version + (Cap + 1) = version + (i + 1) /\ updates[i + 1].version \in Nat
      BY <3>1, <1>1, <1>2, <1>3, <1>5 DEF WindowInv, Row
    <3>3. updates[i + 1].version + Cap = version + i
      BY <3>1, <3>2, <1>5
    <3>4. QED
      BY <3>1, <3>3, <1>4, <1>5
  <2>2. Len(updates') = Cap /\ pc' # "trim" /\ updates' # <<>> /\ Cap \in Nat
    BY <1>2, <1>4, <1>5
  <2>3. QED
    BY <2>1, <2>2 DEF WindowInv
<1>8. RowsMatch'
  BY <1>1, <1>2, <1>4 DEF RowsMatch, liveVars
<1>9. LiveInv'
  BY <1>1, <1>2, <1>5 DEF LiveInv, TypeOK, liveVars, clientVars
<1>10. QED
  BY <1>6, <1>7, <1>8, <1>9 DEF IInv

\* The job ends when the worker has returned, so what it captured is final.
LEMMA EndInv == IInv /\ End => IInv'
BY DEF End, Finish, liveVars, clientVars, IInv, TypeOK, WorkerInv, WindowInv, Appended,
       Kept, RowsMatch, LiveInv, Registered, Newest, NewestReturned, FinalInv

\* A new poll owes the rows registered so far; unless there are none, the first row
\* it will look at is one of those the next trim leaves.
LEMMA OpenLiveInv == IInv /\ (\E s \in 0..MaxDiffs : OpenLive(s)) => IInv'
<1> SUFFICES ASSUME IInv, NEW s \in 0..MaxDiffs, OpenLive(s) PROVE IInv'
  OBVIOUS
<1> USE DEF IInv, OpenLive, feedVars, clientVars
<1>1. Registered \in Nat /\ s \in Nat /\ Registered' = Registered /\ Len(updates) \in Nat
  BY LenProperties DEF TypeOK, WorkerInv, Registered
<1>2. page' = <<>> /\ page' \in Seq(Row) /\ Len(page') = 0 /\ Newest' = 0
  BY DEF Newest
<1>3. TypeOK'
  BY <1>1, <1>2 DEF TypeOK
<1>4. WorkerInv' /\ WindowInv' /\ NewestReturned' /\ FinalInv'
  BY DEF WorkerInv, WindowInv, Appended, NewestReturned, FinalInv
<1>5. RowsMatch'
  BY <1>2 DEF RowsMatch
<1>6. LiveInv'
  <2>1. Registered = 0 \/ 1 <= Kept
    BY <1>1, EmptySeq DEF TypeOK, WorkerInv, WindowInv, Appended, Registered, Kept
  <2>2. Kept' = Kept /\ complete' = Registered /\ index' = 1
    BY DEF Kept
  <2>3. QED
    BY <1>1, <1>2, <2>1, <2>2 DEF LiveInv
<1>7. QED
  BY <1>3, <1>4, <1>5, <1>6

\* Reading the last row Kept counts, or one behind it, the poll gets what it owes.
LEMMA ScanInv == IInv /\ Scan => IInv'
<1> SUFFICES ASSUME IInv, Scan PROVE IInv'
  OBVIOUS
<1> DEFINE row == updates[index]
<1>1. /\ TypeOK /\ WorkerInv /\ WindowInv /\ RowsMatch
      /\ LiveInv /\ NewestReturned /\ FinalInv
  BY DEF IInv
<1>2. /\ rpc = "scan" /\ rpc' = "scan"
      /\ index \in Nat \ {0} /\ Len(updates) \in Nat
      /\ index \in 1..Len(updates) /\ index' = index + 1
      /\ UNCHANGED feedVars /\ UNCHANGED <<pc, since, complete>> /\ UNCHANGED clientVars
  BY <1>1, LenProperties DEF Scan, TypeOK
<1>3. /\ row \in Row /\ row.version \in Nat /\ row.diff = row.version
      /\ row.version + Len(updates) = Appended + index
  <2>1. row \in Row
    BY <1>1, <1>2, ElementOfSeq DEF TypeOK
  <2>2. row.version \in Nat
    BY <2>1 DEF Row
  <2>3. QED
    BY <2>1, <2>2, <1>1, <1>2 DEF WindowInv, RowsMatch
<1>4. Appended \in Nat /\ Appended <= version /\ version \in Nat
  BY <1>1 DEF TypeOK, WorkerInv, Appended
<1>5. /\ page' \in Seq(Row)
      /\ \A i \in 1..Len(page') : page'[i] = row \/ (i \in 1..Len(page) /\ page'[i] = page[i])
      /\ row.version > since => Newest' = row.version
  <2>1. CASE row.version > since
    <3>1. page' = Append(page, row) /\ page \in Seq(Row)
      BY <2>1, <1>1 DEF Scan, TypeOK
    <3>2. /\ page' \in Seq(Row) /\ Len(page') = Len(page) + 1 /\ page' # <<>>
          /\ \A i \in 1..Len(page) : page'[i] = page[i]
          /\ page'[Len(page) + 1] = row
          /\ Len(page) \in Nat
      BY <3>1, <1>3, AppendProperties, LenProperties
    <3>3. QED
      BY <3>2 DEF Newest
  <2>2. CASE ~(row.version > since)
    BY <2>2, <1>1 DEF Scan, TypeOK
  <2>3. QED
    BY <2>1, <2>2
<1>6. TypeOK' /\ WorkerInv' /\ WindowInv' /\ FinalInv' /\ NewestReturned'
  BY <1>1, <1>2, <1>5 DEF TypeOK, WorkerInv, WindowInv, Appended, FinalInv, NewestReturned,
                          feedVars, clientVars
<1>7. RowsMatch'
  BY <1>1, <1>2, <1>3, <1>5 DEF RowsMatch, feedVars
<1>8. LiveInv'
  <2>1. complete' <= Registered' /\ held' <= version'
    BY <1>1, <1>2 DEF LiveInv, Registered, feedVars, clientVars
  <2>2. row.version <= version
    BY <1>2, <1>3, <1>4
  <2>3. \A i \in 1..Len(page') : page'[i].version <= version'
    BY <2>2, <1>1, <1>2, <1>5 DEF LiveInv, feedVars
  <2>4. complete <= since \/ complete <= Newest' \/ index + 1 <= Kept
    <3>1. CASE index < Kept
      BY <3>1, <1>2 DEF Kept
    <3>2. CASE ~(index < Kept)
      <4>1. row.version >= Registered
        BY <3>2, <1>1, <1>2, <1>3, <1>4 DEF Kept, Appended, Registered, TypeOK
      <4>2. complete <= row.version
        BY <4>1, <1>1, <1>3 DEF LiveInv, Registered, TypeOK, WorkerInv
      <4>3. QED
        BY <4>2, <1>1, <1>3, <1>5 DEF TypeOK
    <3>3. QED
      BY <3>1, <3>2
  <2>5. QED
    BY <2>1, <2>3, <2>4, <1>2 DEF LiveInv, Kept, feedVars
<1>9. QED
  BY <1>6, <1>7, <1>8 DEF IInv

\* At the end of the list no row is left before the index, so the poll has it.
LEMMA ExhaustedInv == IInv /\ Exhausted => IInv'
<1> SUFFICES ASSUME IInv, Exhausted PROVE IInv'
  OBVIOUS
<1> USE DEF IInv, Exhausted, feedVars, clientVars
<1>1. Len(updates) \in Nat /\ index \in Nat /\ ~(index <= Kept)
  BY LenProperties DEF TypeOK, Kept
<1>2. complete <= since \/ complete <= Newest
  BY <1>1 DEF LiveInv
<1>3. NewestReturned' /\ LiveInv'
  BY <1>2 DEF NewestReturned, LiveInv, Newest, Registered
<1>4. TypeOK' /\ WorkerInv' /\ WindowInv' /\ RowsMatch' /\ FinalInv'
  BY DEF TypeOK, WorkerInv, WindowInv, Appended, RowsMatch, FinalInv
<1>5. QED
  BY <1>3, <1>4

LEMMA ReplyInv == IInv /\ Reply => IInv'
<1> SUFFICES ASSUME IInv, Reply PROVE IInv'
  OBVIOUS
<1> USE DEF IInv, Reply, feedVars
<1>1. Newest \in Nat /\ Newest <= version
  <2>1. Newest \in Nat
    BY NewestNat
  <2>2. CASE page = <<>>
    BY <2>2 DEF Newest, TypeOK
  <2>3. CASE page # <<>>
    <3>1. Len(page) \in 1..Len(page)
      BY <2>3, EmptySeq, LenProperties DEF TypeOK
    <3>2. page[Len(page)].version <= version
      BY <3>1 DEF LiveInv
    <3>3. Newest = page[Len(page)].version
      BY <2>3, Zenon DEF Newest
    <3>4. QED
      BY <2>1, <3>2, <3>3
  <2>4. QED
    BY <2>1, <2>2, <2>3
<1>2. TypeOK' /\ LiveInv'
  BY <1>1 DEF TypeOK, LiveInv, Registered
<1>3. WorkerInv' /\ WindowInv' /\ RowsMatch' /\ NewestReturned' /\ FinalInv'
  BY DEF WorkerInv, WindowInv, Appended, RowsMatch, NewestReturned, FinalInv
<1>4. QED
  BY <1>2, <1>3

LEMMA GetFinalInv == IInv /\ GetFinal => IInv'
BY DEF GetFinal, feedVars, liveVars, IInv, TypeOK, WorkerInv, WindowInv, Appended, Kept,
       RowsMatch, LiveInv, Registered, Newest, NewestReturned, FinalInv

LEMMA StutterInv == IInv /\ UNCHANGED vars => IInv'
BY DEF vars, feedVars, liveVars, clientVars, IInv, TypeOK, WorkerInv, WindowInv, Appended,
       Kept, RowsMatch, LiveInv, Registered, Newest, NewestReturned, FinalInv

-----------------------------------------------------------------------------
(* The theorems.                                                           *)

\* The invariant holds in every reachable state of a job's diffs.
THEOREM Invariant == Spec => []IInv
<1>1. IInv /\ [Next]_vars => IInv'
  BY CaptureInv, NumberInv, AppendRowInv, TrimInv, EndInv, OpenLiveInv, ScanInv,
     ExhaustedInv, ReplyInv, GetFinalInv, StutterInv DEF Next, WorkerStep, LoopStep
<1>2. QED
  BY InitInv, <1>1, PTL DEF Spec

\* Type correctness of the diffs, the poll and the client's view.
THEOREM TypeCorrect == Spec => []TypeOK
BY Invariant, PTL DEF IInv

\* A live poll returns the newest diff registered before it, or a newer one, though
\* the list it walks shrinks under it.
THEOREM LiveReturnsNewest == Spec => []NewestReturned
BY Invariant, PTL DEF IInv

\* A row carries the diff that came as its version.
THEOREM RowsAreTheirVersions == Spec => []RowsMatch
BY Invariant, PTL DEF IInv

\* diff/final returns the last diff of the job, never an older one than a live poll.
THEOREM LastDiffIsFinal == Spec => []FinalIsLast
<1>1. IInv => FinalIsLast
  <2>1. IInv => version <= arrived
    BY DEF IInv, TypeOK, WorkerInv
  <2>2. QED
    BY <2>1 DEF IInv, TypeOK, LiveInv, FinalInv, FinalIsLast
<1>2. QED
  BY Invariant, <1>1, PTL
=============================================================================
