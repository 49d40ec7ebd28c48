--------------------------- MODULE JobRegistryProofs ---------------------------
(***************************************************************************)
(* Theorems about JobRegistry, for tables, pools and time limits of every  *)
(* size and any number of jobs.                                            *)
(*                                                                         *)
(* Nearly everything rests on PlaceInv: how far the task of a job is       *)
(* determines its status and whether done_event is set, although the       *)
(* status is written in many places and the table forgets jobs at any      *)
(* time.  The bound of the table rests on what pruning leaves of a finite  *)
(* set of jobs (PrunedBound), the refinement of PendingEvents on what a    *)
(* step does to one job (CounterStep).                                     *)
(***************************************************************************)
EXTENDS JobRegistry, SequenceTheorems, FiniteSetTheorems, WellFoundedInduction, TLAPS

Queued  == {"none", "created", "crashed"}
Running == {"submitted", "working", "returned"}
Waiting == {"asking", "answered"}

\* What the place of the task says of a job.
Placed(j) ==
  /\ task[j] = "none" <=> j > created
  /\ task[j] \in Queued => status[j] = "queued"
  /\ task[j] \in Running => status[j] = "running"
  /\ task[j] \in Waiting => status[j] = "waiting_approval"
  /\ task[j] = "over" <=> status[j] \in Terminal
  /\ task[j] = "over" <=> j \in done

PlaceInv == \A j \in Job : Placed(j)

IInv == TypeOK /\ PlaceInv

-----------------------------------------------------------------------------

LEMMA ConstantTypes ==
  /\ MaxJobs \in Nat /\ MaxPending \in Nat /\ MaxTime \in Nat
  /\ NoticeLimit \in Nat \ {0}
  /\ Kinds \subseteq Kind
  /\ Job \subseteq Nat
BY RegistryAssumption DEF Job

\* Pruning only takes jobs away.
LEMMA PrunedSubset ==
  ASSUME NEW table, NEW st, NEW up
  PROVE  Pruned(table, st, up) \subseteq table
BY DEF Pruned

\* A step that moves one job leaves the others in their places.
LEMMA OneMoves ==
  ASSUME PlaceInv, NEW j \in Job, Placed(j)',
         \A i \in Job \ {j} : /\ task'[i] = task[i] /\ status'[i] = status[i]
                              /\ i \in done' <=> i \in done
                              /\ i > created' <=> i > created
  PROVE  PlaceInv'
BY DEF PlaceInv, Placed

LEMMA NoneMoves ==
  ASSUME PlaceInv, UNCHANGED <<created, status, task, done>>
  PROVE  PlaceInv'
BY DEF PlaceInv, Placed

LEMMA InitInv == Init => IInv
<1> SUFFICES ASSUME Init PROVE IInv
  OBVIOUS
<1>1. TypeOK
  BY EmptySeq, ConstantTypes DEF Init, TypeOK, Job, Kind, Active
<1>2. PlaceInv
  BY ConstantTypes DEF Init, PlaceInv, Placed, Terminal, Queued, Running, Waiting, Job
<1>3. QED
  BY <1>1, <1>2 DEF IInv

LEMMA CreateInv ==
  ASSUME NEW k \in Kinds, NEW t \in Thread \cup {None}
  PROVE  IInv /\ Create(k, t) => IInv'
<1> SUFFICES ASSUME IInv, Create(k, t) PROVE IInv'
  OBVIOUS
<1>1. created \in Nat /\ created + 1 \in Job /\ k \in Kind
  BY ConstantTypes DEF Create, IInv, TypeOK, Job
<1> PICK j \in Job : j = created + 1
  BY <1>1
<1>2. /\ created' = j
      /\ JOBS' = Pruned(JOBS, status, updated) \cup {j}
      /\ kind' = [kind EXCEPT ![j] = k]
      /\ session' = [session EXCEPT ![j] = t]
      /\ thread' = [thread EXCEPT ![j] = t]
      /\ updated' = [updated EXCEPT ![j] = now]
      /\ task' = [task EXCEPT ![j] = "created"]
      /\ UNCHANGED <<status, pending, done, held, notices, now>>
  BY DEF Create
<1>3. TypeOK'
  <2>1. JOBS' \subseteq 1..created' /\ created' \in 0..MaxJobs
    <3>1. JOBS' \subseteq JOBS \cup {j}
      BY <1>2, PrunedSubset
    <3>2. JOBS \subseteq 1..created
      BY DEF IInv, TypeOK
    <3>3. 1..created \subseteq 1..j /\ j \in 1..j /\ j \in 0..MaxJobs
      BY <1>1, ConstantTypes DEF Job
    <3>4. QED
      BY <3>1, <3>2, <3>3, <1>2
  <2>2. QED
    BY <2>1, <1>1, <1>2 DEF IInv, TypeOK
<1>4. PlaceInv'
  <2>1. task[j] = "none" /\ status[j] = "queued" /\ j \notin done
    <3>1. j > created /\ Placed(j)
      BY <1>1 DEF IInv, PlaceInv
    <3>2. QED
      BY <3>1 DEF Placed, Queued
  <2>2. task'[j] = "created"
    BY <1>1, <1>2 DEF IInv, TypeOK
  <2>3. Placed(j)'
    <3>1. ~(j > created') /\ status'[j] = "queued" /\ j \notin done'
      BY <2>1, <1>1, <1>2
    <3>2. QED
      BY <2>2, <3>1 DEF Placed, Queued, Running, Waiting, Terminal
  <2>4. \A i \in Job \ {j} : task'[i] = task[i] /\ (i > created' <=> i > created)
    BY <1>1, <1>2, ConstantTypes DEF IInv, TypeOK
  <2>5. QED
    BY <2>3, <2>4, <1>1, <1>2, OneMoves DEF IInv
<1>5. QED
  BY <1>3, <1>4 DEF IInv

\* The steps of a task before its end.
LEMMA TaskInv ==
  ASSUME NEW j \in Job
  PROVE  IInv /\ ( \/ StartPruned(j) \/ Start(j) \/ TakeSlot(j)
                   \/ Ask(j) \/ Resume(j) \/ Leave(j) \/ Decide(j) ) => IInv'
<1> SUFFICES ASSUME IInv,
                    \/ StartPruned(j) \/ Start(j) \/ TakeSlot(j)
                    \/ Ask(j) \/ Resume(j) \/ Leave(j) \/ Decide(j)
             PROVE  IInv'
  OBVIOUS
<1> DEFINE Move(a, b, s) == /\ task[j] = a
                            /\ task' = [task EXCEPT ![j] = b]
                            /\ status' = [status EXCEPT ![j] = s]
<1>1. /\ UNCHANGED <<created, kind, session, thread, pending, done, held, notices, now>>
      /\ JOBS' \subseteq JOBS
      /\ updated' = updated \/ updated' = [updated EXCEPT ![j] = now]
  BY PrunedSubset DEF StartPruned, Start, TakeSlot, Ask, Resume, Leave, Decide, Prune, dictVars, given
<1>2. \/ Move("created", "crashed", "queued")
      \/ Move("created", "submitted", "running")
      \/ Move("submitted", "working", "running")
      \/ Move("working", "asking", "waiting_approval")
      \/ Move("answered", "working", "running")
      \/ Move("working", "returned", "running")
      \/ Move("asking", "answered", "waiting_approval")
  <2>1. status \in [Job -> Active \cup Terminal] /\ Placed(j)
    BY DEF IInv, TypeOK, PlaceInv
  <2>2. \A s : status[j] = s => status = [status EXCEPT ![j] = s]
    BY <2>1
  <2>3. CASE StartPruned(j)
    BY <2>1, <2>2, <2>3 DEF StartPruned, NextTask, dictVars, Placed, Queued
  <2>4. CASE Start(j)
    BY <2>4 DEF Start, NextTask
  <2>5. CASE TakeSlot(j)
    BY <2>1, <2>2, <2>5 DEF TakeSlot, dictVars, Placed, Running
  <2>6. CASE Ask(j)
    BY <2>6 DEF Ask
  <2>7. CASE Resume(j)
    BY <2>7 DEF Resume
  <2>8. CASE Leave(j)
    BY <2>1, <2>2, <2>8 DEF Leave, dictVars, Placed, Running
  <2>9. CASE Decide(j)
    BY <2>1, <2>2, <2>9 DEF Decide, dictVars, Placed, Waiting
  <2>10. QED
    BY <2>3, <2>4, <2>5, <2>6, <2>7, <2>8, <2>9
<1>3. PICK a, b, s : /\ Move(a, b, s)
                     /\ b \in {"crashed"} \cup Running \cup Waiting
                     /\ s \in Active
                     /\ a \notin {"none", "over"}
                     /\ b \in Queued => s = "queued"
                     /\ b \in Running => s = "running"
                     /\ b \in Waiting => s = "waiting_approval"
  BY <1>2 DEF Active, Queued, Running, Waiting
<1>4. task' \in [Job -> {"none", "created", "submitted", "working", "asking",
                         "answered", "returned", "over", "crashed"}]
      /\ status' \in [Job -> Active \cup Terminal]
      /\ task'[j] = b /\ status'[j] = s
      /\ \A i \in Job \ {j} : task'[i] = task[i] /\ status'[i] = status[i]
  BY <1>3 DEF IInv, TypeOK, Running, Waiting
<1>5. TypeOK'
  <2>1. updated' \in [Job -> 0..MaxTime]
    BY <1>1 DEF IInv, TypeOK
  <2>2. QED
    BY <2>1, <1>1, <1>4 DEF IInv, TypeOK
<1>6. Placed(j)'
  <2>1. ~(j > created) /\ j \notin done
    BY <1>3 DEF IInv, PlaceInv, Placed
  <2>2. b # "none" /\ b # "over" /\ s \notin Terminal
    BY <1>3 DEF Active, Terminal, Running, Waiting
  <2>3. QED
    BY <2>1, <2>2, <1>1, <1>3, <1>4 DEF Placed
<1>7. PlaceInv'
  BY <1>1, <1>4, <1>6, OneMoves DEF IInv
<1>8. QED
  BY <1>5, <1>7 DEF IInv

\* The end of a job sets status, done_event and the task together.
LEMMA EndInv ==
  ASSUME NEW j \in Job, NEW s \in Terminal, task[j] \in {"created", "returned"}
  PROVE  IInv /\ End(j, s) => IInv'
<1> SUFFICES ASSUME IInv, End(j, s) PROVE IInv'
  OBVIOUS
<1>1. /\ status' = [status EXCEPT ![j] = s]
      /\ \E t \in ResultThread(j, s) : thread' = [thread EXCEPT ![j] = t]
      /\ updated' = [updated EXCEPT ![j] = now]
      /\ notices' = Append(notices, j)
      /\ done' = done \cup {j}
      /\ task' = [task EXCEPT ![j] = "over"]
      /\ JOBS' \subseteq JOBS
      /\ UNCHANGED <<created, kind, session, pending, held, now>>
  BY PrunedSubset DEF End, given
<1>2. TypeOK'
  <2>1. notices' \in Seq(Job)
    BY <1>1, AppendProperties DEF IInv, TypeOK
  <2>2. ResultThread(j, s) \subseteq Thread \cup {None}
    BY DEF ResultThread, IInv, TypeOK
  <2>3. thread' \in [Job -> Thread \cup {None}]
    BY <2>2, <1>1 DEF IInv, TypeOK
  <2>4. QED
    BY <2>1, <2>3, <1>1 DEF IInv, TypeOK
<1>3. ~(j > created)
  BY DEF IInv, PlaceInv, Placed
<1>4. task'[j] = "over" /\ status'[j] = s
  BY <1>1 DEF IInv, TypeOK
<1>5. Placed(j)'
  BY <1>1, <1>3, <1>4 DEF Placed, Queued, Running, Waiting
<1>6. \A i \in Job \ {j} : task'[i] = task[i] /\ status'[i] = status[i]
  BY <1>1 DEF IInv, TypeOK
<1>7. PlaceInv'
  BY <1>1, <1>5, <1>6, OneMoves DEF IInv
<1>8. QED
  BY <1>2, <1>7 DEF IInv

\* The other requests and the messages move no job.
LEMMA RequestInv ==
  ASSUME NEW j \in Job
  PROVE  IInv /\ (Message(j) \/ Poll(j) \/ Hold(j) \/ Release(j) \/ ReadEvents(j)) => IInv'
<1> SUFFICES ASSUME IInv, Message(j) \/ Poll(j) \/ Hold(j) \/ Release(j) \/ ReadEvents(j)
             PROVE  IInv'
  OBVIOUS
<1>1. /\ JOBS' \subseteq JOBS
      /\ updated' = updated \/ updated' = [updated EXCEPT ![j] = now]
      /\ held' \subseteq held \cup {j}
      /\ thread' = thread \/ \E t \in Thread : thread' = [thread EXCEPT ![j] = t]
      /\ UNCHANGED <<created, kind, session, status, task, done, notices, now>>
  BY PrunedSubset DEF Message, Poll, Hold, Release, ReadEvents, Prune, Bumped, dictVars, given
<1>2. pending' \in [Job -> 0..MaxPending]
  <2>1. pending \in [Job -> 0..MaxPending]
    BY DEF IInv, TypeOK
  <2>2. CASE Message(j)
    BY <2>1, <2>2, ConstantTypes DEF Message
  <2>3. CASE ReadEvents(j)
    BY <2>1, <2>3, ConstantTypes DEF ReadEvents
  <2>4. CASE Poll(j) \/ Hold(j) \/ Release(j)
    BY <2>1, <2>4 DEF Poll, Hold, Release, dictVars
  <2>5. QED
    BY <2>2, <2>3, <2>4
<1>3. TypeOK'
  BY <1>1, <1>2 DEF IInv, TypeOK
<1>4. QED
  BY <1>1, <1>3, NoneMoves DEF IInv

LEMMA OtherInv == IInv /\ (Glance \/ AttachNotices \/ Tick) => IInv'
<1> SUFFICES ASSUME IInv, Glance \/ AttachNotices \/ Tick PROVE IInv'
  OBVIOUS
<1>1. /\ UNCHANGED <<created, kind, session, status, updated, thread, task, done, held>>
      /\ JOBS' \subseteq JOBS
  BY PrunedSubset DEF Glance, AttachNotices, Tick, Prune, dictVars, given
<1>2. now' \in 0..MaxTime
  <2>1. now \in 0..MaxTime
    BY DEF IInv, TypeOK
  <2>2. CASE Tick
    BY <2>1, <2>2, ConstantTypes DEF Tick
  <2>3. CASE Glance \/ AttachNotices
    BY <2>1, <2>3 DEF Glance, AttachNotices
  <2>4. QED
    BY <2>2, <2>3
<1>3. pending' \in [Job -> 0..MaxPending] /\ notices' \in Seq(Job)
  <2>1. pending \in [Job -> 0..MaxPending] /\ notices \in Seq(Job)
    BY DEF IInv, TypeOK
  <2>2. CASE Glance \/ Tick
    BY <2>1, <2>2 DEF Glance, Tick, dictVars
  <2>3. CASE AttachNotices
    <3>1. \A n \in Nat : SubSeq(notices, n + 1, Len(notices)) \in Seq(Job)
      <4> SUFFICES ASSUME NEW n \in Nat PROVE SubSeq(notices, n + 1, Len(notices)) \in Seq(Job)
        OBVIOUS
      <4>1. \A i \in n + 1..Len(notices) : notices[i] \in Job
        BY <2>1, ElementOfSeq, LenProperties
      <4>2. n + 1 \in Int /\ Len(notices) \in Int
        BY <2>1, LenProperties
      <4>3. QED
        BY <4>1, <4>2, SubSeqProperties
    <3>2. Len(notices) \in Nat
      BY <2>1, LenProperties
    <3>3. notices' \in Seq(Job)
      BY <2>3, <3>1, <3>2, ConstantTypes DEF AttachNotices
    <3>4. pending' \in [Job -> 0..MaxPending]
      BY <2>1, <2>3, ConstantTypes DEF AttachNotices
    <3>5. QED
      BY <3>3, <3>4
  <2>4. QED
    BY <2>2, <2>3
<1>4. TypeOK'
  BY <1>1, <1>2, <1>3 DEF IInv, TypeOK
<1>5. QED
  BY <1>1, <1>4, NoneMoves DEF IInv

LEMMA StepInv == IInv /\ [Next]_vars => IInv'
<1> SUFFICES ASSUME IInv, [Next]_vars PROVE IInv'
  OBVIOUS
<1>1. CASE \E k \in Kinds, t \in Thread \cup {None} : Create(k, t)
  BY <1>1, CreateInv
<1>2. ASSUME NEW j \in Job, RunInline(j) \/ Finish(j) PROVE IInv'
  BY <1>2, EndInv DEF RunInline, Finish, NextTask, Terminal
<1>3. ASSUME NEW j \in Job,
             \/ RunStep(j) \/ Message(j) \/ Ask(j) \/ Leave(j)
             \/ Decide(j) \/ Poll(j) \/ Hold(j) \/ Release(j) \/ ReadEvents(j)
      PROVE  IInv'
  BY <1>2, <1>3, TaskInv, RequestInv DEF RunStep
<1>4. CASE Glance \/ AttachNotices \/ Tick
  BY <1>4, OtherInv
<1>5. CASE UNCHANGED vars
  BY <1>5, NoneMoves DEF vars, dictVars, given, IInv, TypeOK
<1>6. QED
  BY <1>1, <1>3, <1>4, <1>5 DEF Next

\* The invariant holds in every reachable state.
LEMMA Invariant == Spec => []IInv
BY InitInv, StepInv, PTL DEF Spec

-----------------------------------------------------------------------------

\* What one step may do to the status and the thread of a job: a change is an edge
\* of the life cycle of a job in the table, or that of a job the table forgot.
LEMMA StatusSteps ==
  ASSUME IInv, [Next]_vars
  PROVE  \A i \in Job :
           \/ status'[i] = status[i]
           \/ <<status[i], status'[i]>> \in Lifecycle!Edge /\ status[i] \notin Terminal
<1> SUFFICES ASSUME NEW i \in Job
             PROVE  \/ status'[i] = status[i]
                    \/ /\ <<status[i], status'[i]>> \in Lifecycle!Edge
                       /\ status[i] \notin Terminal
  OBVIOUS
<1>1. status \in [Job -> Active \cup Terminal] /\ \A j \in Job : Placed(j)
  BY DEF IInv, TypeOK, PlaceInv
<1>2. ASSUME NEW j \in Job, Start(j)
      PROVE  /\ status' = [status EXCEPT ![j] = "running"]
             /\ status[j] = "queued"
  BY <1>1, <1>2 DEF Start, NextTask, Placed, Queued
<1>3. ASSUME NEW j \in Job, Ask(j)
      PROVE  /\ status' = [status EXCEPT ![j] = "waiting_approval"]
             /\ status[j] = "running"
  BY <1>1, <1>3 DEF Ask, Placed, Running
<1>4. ASSUME NEW j \in Job, Resume(j)
      PROVE  /\ status' = [status EXCEPT ![j] = "running"]
             /\ status[j] = "waiting_approval"
  BY <1>1, <1>4 DEF Resume, Placed, Waiting
<1>5. ASSUME NEW j \in Job, RunInline(j) \/ Finish(j)
      PROVE  \E s \in Terminal : /\ status' = [status EXCEPT ![j] = s]
                                 /\ status[j] \in {"queued", "running"}
  BY <1>1, <1>5 DEF RunInline, Finish, NextTask, End, Placed, Queued, Running, Terminal
<1>6. ASSUME \/ \E k \in Kinds, t \in Thread \cup {None} : Create(k, t)
             \/ \E j \in Job : \/ StartPruned(j) \/ TakeSlot(j) \/ Message(j) \/ Leave(j)
                               \/ Decide(j) \/ Poll(j) \/ Hold(j) \/ Release(j) \/ ReadEvents(j)
             \/ Glance \/ AttachNotices \/ Tick
             \/ UNCHANGED vars
      PROVE  status' = status
  BY <1>6 DEF Create, StartPruned, TakeSlot, Message, Leave, Decide, Poll, Hold, Release,
              ReadEvents, Glance, AttachNotices, Tick, vars, dictVars
<1>7. ASSUME NEW j \in Job, Start(j) \/ Ask(j) \/ Resume(j) \/ RunInline(j) \/ Finish(j)
      PROVE  \/ status'[i] = status[i]
             \/ /\ <<status[i], status'[i]>> \in Lifecycle!Edge
                /\ status[i] \notin Terminal
  BY <1>1, <1>2, <1>3, <1>4, <1>5, <1>7 DEF Lifecycle!Edge, Terminal
<1>8. QED
  BY <1>6, <1>7 DEF Next, RunStep

\* The thread of a job is only written at its creation, by a message its worker reads,
\* and at its end: never when the job has ended.
LEMMA ThreadSteps ==
  ASSUME IInv, [Next]_vars
  PROVE  \A i \in Job : status[i] \in Terminal => thread'[i] = thread[i]
<1> SUFFICES ASSUME NEW i \in Job, status[i] \in Terminal
             PROVE  thread'[i] = thread[i]
  OBVIOUS
<1>1. /\ task[i] = "over" /\ i <= created /\ thread \in [Job -> Thread \cup {None}]
      /\ created \in Nat /\ i \in Nat
  BY ConstantTypes DEF IInv, TypeOK, PlaceInv, Placed
<1>2. ASSUME NEW k \in Kinds, NEW t \in Thread \cup {None}, Create(k, t)
      PROVE  thread'[i] = thread[i]
  <2>1. thread' = [thread EXCEPT ![created + 1] = t] /\ i # created + 1
    BY <1>1, <1>2 DEF Create
  <2>2. QED
    BY <2>1, <1>1
<1>3. ASSUME NEW j \in Job, RunInline(j) \/ Finish(j)
      PROVE  thread'[i] = thread[i]
  <2>1. task[j] # "over" /\ \E t : thread' = [thread EXCEPT ![j] = t]
    BY <1>3 DEF RunInline, Finish, NextTask, End
  <2>2. QED
    BY <2>1, <1>1
<1>4. ASSUME NEW j \in Job, Message(j)
      PROVE  thread'[i] = thread[i]
  <2>1. /\ task[j] = "working"
        /\ thread' = thread \/ \E t : thread' = [thread EXCEPT ![j] = t]
    BY <1>4 DEF Message
  <2>2. QED
    BY <2>1, <1>1
<1>5. ASSUME \/ \E j \in Job : \/ StartPruned(j) \/ Start(j) \/ TakeSlot(j) \/ Resume(j)
                               \/ Ask(j) \/ Leave(j)
                               \/ Decide(j) \/ Poll(j) \/ Hold(j) \/ Release(j) \/ ReadEvents(j)
             \/ Glance \/ AttachNotices \/ Tick
             \/ UNCHANGED vars
      PROVE  thread' = thread
  BY <1>5 DEF StartPruned, Start, TakeSlot, Resume, Ask, Leave, Decide, Poll, Hold,
              Release, ReadEvents, Glance, AttachNotices, Tick, vars, dictVars
<1>6. QED
  BY <1>2, <1>3, <1>4, <1>5 DEF Next, RunStep

\* The table only loses jobs, except for the one being created, which is new.
LEMMA TableSteps ==
  ASSUME IInv, [Next]_vars
  PROVE  \/ created' = created /\ JOBS' \subseteq JOBS
         \/ /\ created' = created + 1
            /\ created' \in JOBS' /\ JOBS' \subseteq JOBS \cup {created'}
            /\ status' = status
BY PrunedSubset
   DEF Next, RunStep, Create, StartPruned, Start, RunInline, End, TakeSlot, Message, Ask,
       Resume, Leave, Finish, Decide, Poll, Hold, Release, ReadEvents, Glance,
       AttachNotices, Tick, Prune, vars, dictVars

-----------------------------------------------------------------------------
(* The table.                                                              *)

\* A finite set of jobs has an oldest.  Every one of the jobs older than a given one
\* has strictly fewer that are older still.
LEMMA Oldest ==
  ASSUME NEW P, P \subseteq Nat, IsFiniteSet(P), P # {},
         NEW up, \A i \in P : up[i] \in Nat
  PROVE  \E j \in P : \A i \in P \ {j} : Older(j, i, up)
<1> DEFINE Prior(j) == {i \in P : Older(i, j, up)}
           T == {Prior(j) : j \in P}
<1>1. IsWellFoundedOn(StrictSubsetOrdering(P), FiniteSubsetsOf(P))
  BY FS_StrictSubsetOrderingWellFounded
<1>2. T # {} /\ T \subseteq FiniteSubsetsOf(P)
  <2>1. \A j \in P : Prior(j) \in SUBSET P /\ IsFiniteSet(Prior(j))
    BY FS_Subset
  <2>2. QED
    BY <2>1 DEF FiniteSubsetsOf
<1>3. \E x \in T : \A y \in T : <<y, x>> \notin StrictSubsetOrdering(P)
  <2> HIDE DEF T
  <2> QED
    BY <1>1, <1>2, WFMin
<1>4. PICK j \in P : \A i \in P : <<Prior(i), Prior(j)>> \notin StrictSubsetOrdering(P)
  BY <1>3
<1>5. \A i \in P : i \notin Prior(j)
  <2> SUFFICES ASSUME NEW i \in P, Older(i, j, up) PROVE FALSE
    OBVIOUS
  <2>1. Prior(i) \subseteq Prior(j)
    <3> SUFFICES ASSUME NEW k \in P, Older(k, i, up) PROVE Older(k, j, up)
      OBVIOUS
    <3>1. i \in Nat /\ j \in Nat /\ k \in Nat
      OBVIOUS
    <3>2. up[i] \in Nat /\ up[j] \in Nat /\ up[k] \in Nat
      OBVIOUS
    <3>3. QED
      BY <3>1, <3>2 DEF Older
  <2>2. i \in Prior(j) /\ i \notin Prior(i)
    BY DEF Older
  <2>3. <<Prior(i), Prior(j)>> \in StrictSubsetOrdering(P)
    <3>1. Prior(i) \in SUBSET P /\ Prior(j) \in SUBSET P /\ Prior(i) # Prior(j)
      BY <2>2
    <3> HIDE DEF Prior
    <3>2. QED
      BY <2>1, <3>1 DEF StrictSubsetOrdering
  <2>4. QED
    BY <2>3, <1>4
<1>6. QED
  BY <1>5 DEF Older

\* Pruning leaves no more than the limit: all that remain but the oldest are newer
\* than it, and it has fewer than MaxItems of those.
LEMMA PrunedBound ==
  ASSUME NEW table, NEW st, NEW up, table \subseteq Nat, IsFiniteSet(table),
         \A i \in table : up[i] \in Nat
  PROVE  /\ IsFiniteSet(Pruned(table, st, up))
         /\ Cardinality(Pruned(table, st, up)) <= MaxItems
<1> DEFINE kept == table \ Expired(table, st, up)
           Newer(j) == {i \in kept : Older(j, i, up)}
           P == Pruned(table, st, up)
<1>1. MaxItems \in Nat
  BY RegistryAssumption
<1>2. P \subseteq kept /\ kept \subseteq table
  BY DEF Pruned
<1>3. IsFiniteSet(kept) /\ IsFiniteSet(P)
  <2> HIDE DEF P, kept
  <2> QED
    BY <1>2, FS_Subset
<1>4. \A j \in P : Cardinality(Newer(j)) < MaxItems
  BY DEF Pruned
<1>5. CASE P = {}
  BY <1>1, <1>5, FS_EmptySet
<1>6. CASE P # {}
  <2>1. PICK j \in P : \A i \in P \ {j} : Older(j, i, up)
    <3>1. P \subseteq Nat /\ \A i \in P : up[i] \in Nat
      BY <1>2
    <3> HIDE DEF P
    <3>2. QED
      BY <3>1, <1>3, <1>6, Oldest
  <2>2. P \ {j} \in SUBSET Newer(j)
    BY <2>1, <1>2
  <2>3. IsFiniteSet(Newer(j)) /\ Cardinality(Newer(j)) \in Nat
    <3>1. Newer(j) \in SUBSET kept
      OBVIOUS
    <3> HIDE DEF Newer, kept
    <3>2. QED
      BY <3>1, <1>3, FS_Subset, FS_CardinalityType
  <2>4. Cardinality(P \ {j}) <= Cardinality(Newer(j))
    <3> HIDE DEF Newer, P
    <3> QED
      BY <2>2, <2>3, FS_Subset
  <2>5. Cardinality(P) \in Nat /\ Cardinality(P \ {j}) = Cardinality(P) - 1
    <3> HIDE DEF P
    <3> QED
      BY <1>3, FS_RemoveElement, FS_CardinalityType
  <2>6. Cardinality(Newer(j)) < MaxItems
    BY <1>4
  <2>7. Cardinality(P) <= MaxItems
    <3> HIDE DEF P, Newer
    <3> QED
      BY <2>3, <2>4, <2>5, <2>6, <1>1
  <2>8. QED
    BY <1>3, <2>7
<1>7. QED
  BY <1>5, <1>6, <1>3

\* Whatever a step does to the table, it prunes it, leaves it, or prunes it and adds
\* one job.
LEMMA TableBoundStep == IInv /\ TableBound /\ [Next]_vars => TableBound'
<1> SUFFICES ASSUME IInv, TableBound, [Next]_vars PROVE TableBound'
  OBVIOUS
<1>1. /\ JOBS \subseteq Nat /\ IsFiniteSet(JOBS) /\ JOBS \subseteq Job
      /\ updated \in [Job -> Nat] /\ now \in Nat /\ MaxItems \in Nat
  <2>1. JOBS \subseteq 1..created /\ created \in Int /\ created \in 0..MaxJobs
    BY ConstantTypes DEF IInv, TypeOK
  <2>2. IsFiniteSet(1..created)
    BY <2>1, FS_Interval
  <2>3. IsFiniteSet(JOBS)
    BY <2>1, <2>2, FS_Subset
  <2>4. JOBS \subseteq Job /\ JOBS \subseteq Nat
    BY <2>1, ConstantTypes DEF Job
  <2>5. updated \in [Job -> Nat] /\ now \in Nat /\ MaxItems \in Nat
    BY RegistryAssumption DEF IInv, TypeOK
  <2>6. QED
    BY <2>3, <2>4, <2>5
<1>2. \A st : /\ IsFiniteSet(Pruned(JOBS, st, updated))
              /\ Cardinality(Pruned(JOBS, st, updated)) <= MaxItems
  BY <1>1, PrunedBound
<1>3. ASSUME NEW j \in Job, NEW s, End(j, s)
      PROVE  TableBound'
  <2>1. updated' \in [Job -> Nat] /\ JOBS' = Pruned(JOBS, status', updated')
    BY <1>1, <1>3 DEF End
  <2>2. Cardinality(Pruned(JOBS, status', updated')) <= MaxItems
    BY <1>1, <2>1, PrunedBound
  <2>3. IsFiniteSet(JOBS') /\ Cardinality(JOBS') \in Nat
    <3>1. JOBS' \subseteq JOBS
      BY <2>1, PrunedSubset
    <3>2. QED
      BY <3>1, <1>1, FS_Subset, FS_CardinalityType
  <2>4. QED
    BY <2>1, <2>2, <2>3, <1>1 DEF TableBound
<1>4. CASE JOBS' = Pruned(JOBS, status, updated)
  <2>1. Cardinality(JOBS') <= MaxItems /\ Cardinality(JOBS') \in Nat
    BY <1>2, <1>4, FS_CardinalityType
  <2>2. QED
    BY <2>1, <1>1 DEF TableBound
<1>5. ASSUME NEW k \in Kinds, NEW t \in Thread \cup {None}, Create(k, t)
      PROVE  TableBound'
  <2>1. PICK P : P = Pruned(JOBS, status, updated)
    OBVIOUS
  <2>2. JOBS' = P \cup {created + 1}
    BY <1>5, <2>1 DEF Create
  <2>3. IsFiniteSet(P) /\ Cardinality(P) <= MaxItems /\ Cardinality(P) \in Nat
    BY <1>2, <2>1, FS_CardinalityType
  <2>4. Cardinality(JOBS') \in {Cardinality(P), Cardinality(P) + 1}
    BY <2>2, <2>3, FS_AddElement
  <2>5. QED
    BY <2>3, <2>4, <1>1 DEF TableBound
<1>6. CASE UNCHANGED JOBS
  BY <1>6 DEF TableBound
<1>7. ASSUME NEW j \in Job, RunStep(j)
      PROVE  TableBound'
  BY <1>3, <1>6, <1>7 DEF RunStep, StartPruned, Start, RunInline, TakeSlot, Resume, Finish
<1>8. ASSUME NEW j \in Job, \/ Message(j) \/ Ask(j) \/ Leave(j) \/ Decide(j) \/ Poll(j)
                            \/ Hold(j) \/ Release(j) \/ ReadEvents(j)
      PROVE  TableBound'
  BY <1>4, <1>6, <1>8 DEF Message, Ask, Leave, Decide, Poll, Hold, Release, ReadEvents, Prune
<1>9. CASE Glance \/ AttachNotices \/ Tick \/ UNCHANGED vars
  BY <1>4, <1>6, <1>9 DEF Glance, AttachNotices, Tick, Prune, vars
<1>10. QED
  BY <1>5, <1>7, <1>8, <1>9 DEF Next

-----------------------------------------------------------------------------
(* The notices and the pending events.                                     *)

Noticed(j) == \E i \in 1..Len(notices) : notices[i] = j

LEMMA PhaseMeaning ==
  ASSUME NEW j \in Job
  PROVE  /\ phase[j] \in {"producing", "over", "noticed"}
         /\ phase[j] = "producing" <=> task[j] # "over"
         /\ phase[j] = "over" <=> (task[j] = "over" /\ Noticed(j))
         /\ phase'[j] \in {"producing", "over", "noticed"}
         /\ phase'[j] = "producing" <=> task'[j] # "over"
         /\ phase'[j] = "over" <=> (task'[j] = "over" /\ Noticed(j)')
BY DEF phase, Noticed

LEMMA VisibleMeaning ==
  ASSUME IInv, IInv', NEW j \in Job
  PROVE  /\ visible[j] = IF j \in JOBS THEN pending[j] ELSE 0
         /\ visible'[j] = IF j \in JOBS' THEN pending'[j] ELSE 0
         /\ pending[j] \in Nat /\ pending'[j] \in Nat
         /\ visible[j] \in Nat /\ visible'[j] \in Nat
<1>1. /\ visible[j] = IF j \in JOBS THEN pending[j] ELSE 0
      /\ visible'[j] = IF j \in JOBS' THEN pending'[j] ELSE 0
  BY DEF visible
<1>2. pending[j] \in Nat /\ pending'[j] \in Nat
  BY ConstantTypes DEF IInv, TypeOK
<1>3. QED
  BY <1>1, <1>2

\* A response takes the oldest notices out of the queue.
LEMMA NoticesTaken ==
  ASSUME IInv, AttachNotices, NEW j \in Job
  PROVE  /\ Noticed(j)' => Noticed(j)
         /\ Noticed(j) /\ ~Noticed(j)' => pending'[j] = 0 \/ j \notin JOBS
         /\ pending'[j] \in {0, pending[j]}
<1>1. notices \in Seq(Job) /\ Len(notices) \in Nat
  BY LenProperties DEF IInv, TypeOK
<1>2. PICK n \in Nat :
        /\ n <= Len(notices)
        /\ notices' = SubSeq(notices, n + 1, Len(notices))
        /\ pending' = [i \in Job |->
                         IF i \in {notices[k] : k \in 1..n} \cap JOBS THEN 0 ELSE pending[i]]
  <2> DEFINE n == IF Len(notices) < NoticeLimit THEN Len(notices) ELSE NoticeLimit
  <2>1. n \in Nat /\ n <= Len(notices)
    BY <1>1, ConstantTypes
  <2>2. QED
    BY <2>1 DEF AttachNotices
<1>3. /\ Len(notices') = Len(notices) - n
      /\ \A i \in 1..Len(notices) - n : notices'[i] = notices[n + i]
  <2>1. \A i \in n + 1..Len(notices) : notices[i] \in Job
    BY <1>1, ElementOfSeq
  <2>2. n + 1 \in Int /\ Len(notices) \in Int
    BY <1>1
  <2>3. /\ Len(notices') = IF n + 1 <= Len(notices) THEN Len(notices) - (n + 1) + 1 ELSE 0
        /\ \A i \in 1..Len(notices) - (n + 1) + 1 : notices'[i] = notices[(n + 1) + i - 1]
    BY <1>2, <2>1, <2>2, SubSeqProperties
  <2>4. \A i \in 1..Len(notices) - n : (n + 1) + i - 1 = n + i
    BY <1>1
  <2>5. /\ Len(notices) - (n + 1) + 1 = Len(notices) - n
        /\ ~(n + 1 <= Len(notices)) => Len(notices) - n = 0
    BY <1>1, <1>2
  <2>6. QED
    BY <2>3, <2>4, <2>5
<1>4. Noticed(j)' => Noticed(j)
  <2> SUFFICES ASSUME NEW k \in 1..Len(notices'), notices'[k] = j PROVE Noticed(j)
    BY DEF Noticed
  <2>1. k \in 1..Len(notices) - n
    BY <1>3
  <2>2. n + k \in 1..Len(notices)
    BY <2>1, <1>1, <1>2
  <2>3. notices[n + k] = j
    BY <2>1, <1>3
  <2>4. QED
    BY <2>2, <2>3 DEF Noticed
<1>5. Noticed(j) /\ ~Noticed(j)' => j \in {notices[k] : k \in 1..n}
  <2> SUFFICES ASSUME NEW k \in 1..Len(notices), notices[k] = j, k \notin 1..n
               PROVE  Noticed(j)'
    BY DEF Noticed
  <2>1. k - n \in 1..Len(notices) - n /\ n + (k - n) = k
    BY <1>1, <1>2
  <2>2. notices'[k - n] = notices[n + (k - n)]
    BY <2>1, <1>3
  <2>3. notices'[k - n] = j /\ k - n \in 1..Len(notices')
    BY <2>1, <2>2, <1>3
  <2>4. QED
    BY <2>3 DEF Noticed
<1>6. QED
  BY <1>2, <1>4, <1>5

\* The end of a job puts a notice of it, and of it alone, into the queue.
LEMMA NoticeGiven ==
  ASSUME IInv, NEW i \in Job, NEW s, End(i, s), NEW j \in Job
  PROVE  Noticed(j)' <=> Noticed(j) \/ j = i
<1>1. notices \in Seq(Job) /\ Len(notices) \in Nat
  BY LenProperties DEF IInv, TypeOK
<1>2. /\ Len(notices') = Len(notices) + 1 /\ notices'[Len(notices) + 1] = i
      /\ \A k \in 1..Len(notices) : notices'[k] = notices[k]
  BY <1>1, AppendProperties DEF End
<1>3. \A k : k \in 1..Len(notices') <=> k \in 1..Len(notices) \/ k = Len(notices) + 1
  BY <1>1, <1>2
<1>4. QED
  BY <1>2, <1>3 DEF Noticed

\* Nobody adds events to a job that ended, and a job that left the table does not
\* come back.
LEMMA OverStays ==
  ASSUME IInv, IInv', [Next]_vars, NEW j \in Job, task[j] = "over"
  PROVE  /\ task'[j] = "over"
         /\ visible'[j] <= visible[j]
         /\ Noticed(j)' => Noticed(j)
         /\ Noticed(j) /\ ~Noticed(j)' => visible'[j] = 0
<1>1. /\ task = [i \in Job |-> task[i]] /\ pending \in [Job -> 0..MaxPending]
      /\ created \in Nat /\ Job \subseteq Nat /\ MaxPending \in Nat
      /\ ~(j > created) /\ j \in Nat
  BY ConstantTypes DEF IInv, TypeOK, PlaceInv, Placed
<1>2. /\ visible[j] = IF j \in JOBS THEN pending[j] ELSE 0
      /\ visible'[j] = IF j \in JOBS' THEN pending'[j] ELSE 0
      /\ pending[j] \in Nat /\ pending'[j] \in Nat
  BY VisibleMeaning
<1>3. ASSUME task'[j] = "over", pending'[j] = pending[j], UNCHANGED notices,
             j \in JOBS' => j \in JOBS
      PROVE  /\ task'[j] = "over"
             /\ visible'[j] <= visible[j]
             /\ Noticed(j)' => Noticed(j)
             /\ Noticed(j) /\ ~Noticed(j)' => visible'[j] = 0
  BY <1>2, <1>3 DEF Noticed
<1>4. CASE \E k \in Kinds, t \in Thread \cup {None} : Create(k, t)
  <2>1. /\ task' = [task EXCEPT ![created + 1] = "created"]
        /\ JOBS' \subseteq JOBS \cup {created + 1}
        /\ UNCHANGED <<pending, notices>>
    BY <1>4, PrunedSubset DEF Create
  <2>2. j # created + 1
    BY <1>1
  <2>3. QED
    BY <2>1, <2>2, <1>1, <1>3
<1>5. ASSUME NEW i \in Job, RunInline(i) \/ Finish(i)
      PROVE  /\ task'[j] = "over"
             /\ visible'[j] <= visible[j]
             /\ Noticed(j)' => Noticed(j)
             /\ Noticed(j) /\ ~Noticed(j)' => visible'[j] = 0
  <2>1. PICK s : End(i, s)
    BY <1>5 DEF RunInline, Finish
  <2>2. i # j
    BY <1>5 DEF RunInline, NextTask, Finish
  <2>3. /\ task' = [task EXCEPT ![i] = "over"] /\ JOBS' \subseteq JOBS
        /\ UNCHANGED pending
    BY <2>1, PrunedSubset DEF End
  <2>4. Noticed(j)' <=> Noticed(j)
    BY <2>1, <2>2, NoticeGiven
  <2>5. QED
    BY <2>2, <2>3, <2>4, <1>1, <1>2
<1>6. ASSUME NEW i \in Job, \/ StartPruned(i) \/ Start(i) \/ TakeSlot(i) \/ Resume(i)
                            \/ Ask(i) \/ Leave(i) \/ Decide(i)
      PROVE  /\ task'[j] = "over"
             /\ visible'[j] <= visible[j]
             /\ Noticed(j)' => Noticed(j)
             /\ Noticed(j) /\ ~Noticed(j)' => visible'[j] = 0
  <2>1. /\ \E b : task' = [task EXCEPT ![i] = b]
        /\ task[i] # "over"
        /\ JOBS' \subseteq JOBS /\ UNCHANGED <<pending, notices>>
    BY <1>6, PrunedSubset
       DEF StartPruned, Start, NextTask, TakeSlot, Resume, Ask, Leave, Decide, Prune, dictVars
  <2>2. task'[j] = "over"
    BY <2>1, <1>1
  <2>3. QED
    BY <2>1, <2>2, <1>3
<1>7. ASSUME NEW i \in Job, Message(i)
      PROVE  /\ task'[j] = "over"
             /\ visible'[j] <= visible[j]
             /\ Noticed(j)' => Noticed(j)
             /\ Noticed(j) /\ ~Noticed(j)' => visible'[j] = 0
  <2>1. /\ \E p : pending' = [pending EXCEPT ![i] = p]
        /\ i # j /\ UNCHANGED <<JOBS, task, notices>>
    BY <1>7 DEF Message
  <2>2. pending'[j] = pending[j]
    BY <2>1, <1>1
  <2>3. QED
    BY <2>1, <2>2, <1>3
<1>8. ASSUME NEW i \in Job, ReadEvents(i)
      PROVE  /\ task'[j] = "over"
             /\ visible'[j] <= visible[j]
             /\ Noticed(j)' => Noticed(j)
             /\ Noticed(j) /\ ~Noticed(j)' => visible'[j] = 0
  <2>1. PICK p \in 0..MaxPending : /\ task[i] = "over" => p < pending[i]
                                   /\ pending' = [pending EXCEPT ![i] = p]
    BY <1>8 DEF ReadEvents
  <2>2. JOBS' \subseteq JOBS /\ UNCHANGED <<task, notices>>
    BY <1>8, PrunedSubset DEF ReadEvents, Prune
  <2>3. pending'[j] <= pending[j]
    BY <2>1, <1>1, <1>2
  <2>4. QED
    BY <2>2, <2>3, <1>2 DEF Noticed
<1>9. CASE AttachNotices
  <2>1. /\ Noticed(j)' => Noticed(j)
        /\ Noticed(j) /\ ~Noticed(j)' => pending'[j] = 0 \/ j \notin JOBS
        /\ pending'[j] \in {0, pending[j]}
    BY <1>9, NoticesTaken
  <2>2. UNCHANGED <<JOBS, task>>
    BY <1>9 DEF AttachNotices
  <2>3. QED
    BY <2>1, <2>2, <1>2
<1>10. CASE \/ \E i \in Job : Poll(i) \/ Hold(i) \/ Release(i)
            \/ Glance \/ Tick \/ UNCHANGED vars
  <2>1. UNCHANGED <<pending, task, notices>> /\ JOBS' \subseteq JOBS
    BY <1>10, PrunedSubset DEF Poll, Hold, Release, Glance, Tick, Prune, vars, dictVars
  <2>2. QED
    BY <2>1, <1>3
<1>11. QED
  BY <1>4, <1>5, <1>6, <1>7, <1>8, <1>9, <1>10 DEF Next, RunStep

\* A job is over by its own end and in no other way.
LEMMA OverByEnd ==
  ASSUME IInv, [Next]_vars, NEW j \in Job, task[j] # "over", task'[j] = "over"
  PROVE  \E s : End(j, s)
<1>1. task = [i \in Job |-> task[i]] /\ created \in Nat
  BY DEF IInv, TypeOK
<1>2. ASSUME NEW k \in Kinds, NEW t \in Thread \cup {None}, Create(k, t)
      PROVE  FALSE
  <2>1. task' = [task EXCEPT ![created + 1] = "created"]
    BY <1>2 DEF Create
  <2>2. QED
    BY <2>1, <1>1
<1>3. ASSUME NEW i \in Job, \/ StartPruned(i) \/ Start(i) \/ TakeSlot(i) \/ Resume(i)
                            \/ Ask(i) \/ Leave(i) \/ Decide(i)
      PROVE  FALSE
  <2>1. \E b : b # "over" /\ task' = [task EXCEPT ![i] = b]
    BY <1>3 DEF StartPruned, Start, TakeSlot, Resume, Ask, Leave, Decide
  <2>2. QED
    BY <2>1, <1>1
<1>4. CASE \/ \E i \in Job : Message(i) \/ Poll(i) \/ Hold(i) \/ Release(i) \/ ReadEvents(i)
           \/ Glance \/ AttachNotices \/ Tick \/ UNCHANGED vars
  <2>1. task' = task
    BY <1>4 DEF Message, Poll, Hold, Release, ReadEvents, Glance, AttachNotices, Tick, vars
  <2>2. QED
    BY <2>1
<1>5. ASSUME NEW i \in Job, RunInline(i) \/ Finish(i)
      PROVE  \E s : End(j, s)
  <2>1. PICK s : End(i, s)
    BY <1>5 DEF RunInline, Finish
  <2>2. task' = [task EXCEPT ![i] = "over"]
    BY <2>1 DEF End
  <2>3. i = j
    BY <2>2, <1>1
  <2>4. QED
    BY <2>1, <2>3
<1>6. QED
  BY <1>2, <1>3, <1>4, <1>5 DEF Next, RunStep

\* Each step does to each job what PendingEvents allows.
LEMMA CounterStep ==
  ASSUME IInv, IInv', [Next]_vars, NEW j \in Job
  PROVE  \/ Counter!Produce(j) \/ Counter!Finish(j)
         \/ Counter!Drain(j) \/ Counter!Notice(j)
<1>1. CASE task[j] = "over"
  <2>1. /\ task'[j] = "over" /\ visible'[j] <= visible[j]
        /\ Noticed(j)' => Noticed(j)
        /\ Noticed(j) /\ ~Noticed(j)' => visible'[j] = 0
    BY <1>1, OverStays
  <2>2. CASE Noticed(j) /\ ~Noticed(j)'
    BY <2>1, <2>2, <1>1, PhaseMeaning DEF Counter!Notice
  <2>3. CASE Noticed(j) <=> Noticed(j)'
    BY <2>1, <2>3, <1>1, PhaseMeaning DEF Counter!Drain
  <2>4. QED
    BY <2>1, <2>2, <2>3
<1>2. CASE task[j] # "over" /\ task'[j] # "over"
  BY <1>2, PhaseMeaning DEF Counter!Produce
<1>3. CASE task[j] # "over" /\ task'[j] = "over"
  <2>1. PICK s : End(j, s)
    BY <1>3, OverByEnd
  <2>2. Noticed(j)'
    BY <2>1, NoticeGiven
  <2>3. JOBS' \subseteq JOBS /\ pending' = pending
    BY <2>1, PrunedSubset DEF End
  <2>4. visible'[j] <= visible[j]
    BY <2>3, VisibleMeaning
  <2>5. QED
    BY <1>3, <2>2, <2>4, PhaseMeaning DEF Counter!Finish
<1>4. QED
  BY <1>1, <1>2, <1>3

\* A notice leaves the queue only with the job it reports drained.
LEMMA DrainedStep == IInv /\ IInv' /\ ReportedIsDrained /\ [Next]_vars => ReportedIsDrained'
<1> SUFFICES ASSUME IInv, IInv', ReportedIsDrained, [Next]_vars,
                    NEW j \in JOBS', task'[j] = "over", ~Noticed(j)'
             PROVE  pending'[j] = 0
  BY DEF ReportedIsDrained, Noticed
<1>1. j \in Job
  <2>1. JOBS' \subseteq 1..created' /\ created' \in 0..MaxJobs
    BY DEF IInv, TypeOK
  <2>2. QED
    BY <2>1, ConstantTypes DEF Job
<1>2. /\ visible[j] = IF j \in JOBS THEN pending[j] ELSE 0
      /\ visible'[j] = pending'[j]
      /\ visible[j] \in Nat /\ visible'[j] \in Nat
  BY <1>1, VisibleMeaning
<1>3. phase'[j] = "noticed"
  BY <1>1, PhaseMeaning
<1>4. phase[j] = "noticed" => visible[j] = 0
  BY <1>1, <1>2, PhaseMeaning DEF ReportedIsDrained, Noticed
<1>5. visible'[j] = 0 \/ (phase[j] = "noticed" /\ visible'[j] <= visible[j])
  BY <1>1, <1>3, CounterStep
     DEF Counter!Produce, Counter!Finish, Counter!Drain, Counter!Notice
<1>6. QED
  BY <1>2, <1>4, <1>5

-----------------------------------------------------------------------------

\* Every variable keeps its type.
THEOREM TypeCorrect == Spec => []TypeOK
BY Invariant, PTL DEF IInv

\* done_event is set exactly when the job has its final status, for every number of
\* jobs, threads and table entries (_run_job, codex_gateway.py:2566-2603), so that
\* POST /codex never executes a payload twice (:2378).
THEOREM DoneExactlyAtEnd == Spec => []DoneMeansEnded
<1>1. IInv => DoneMeansEnded
  BY DEF IInv, PlaceInv, Placed, DoneMeansEnded
<1>2. QED
  BY <1>1, Invariant, PTL

\* No step changes the status or the thread of a job that ended: the messages that
\* name a thread (codex_gateway.py:2432) are read by the worker, which is through
\* when _run_job goes on to the end (:2571-2578).
THEOREM EndIsFinal == Spec => TerminalFinal
<1>1. IInv /\ [Next]_vars =>
        [\A j \in Job : status[j] \in Terminal =>
           status'[j] = status[j] /\ thread'[j] = thread[j]]_vars
  BY StatusSteps, ThreadSteps
<1>2. QED
  BY <1>1, Invariant, PTL DEF Spec, TerminalFinal

\* The table never holds more than one job over its limit, however many are created
\* (prune_jobs, cgw/jobs.py:59-76, called at creation, codex_gateway.py:2607).
THEOREM TableStaysBounded == Spec => []TableBound
<1>1. Init => TableBound
  BY FS_EmptySet, RegistryAssumption DEF Init, TableBound
<1>2. QED
  BY <1>1, TableBoundStep, Invariant, PTL DEF Spec

\* A job whose notice was delivered has nothing left to drain, in whatever order
\* events, drains, notices and prunings come (codex_gateway.py:315-362).
THEOREM ReportedHasNoEvents == Spec => []ReportedIsDrained
<1>1. Init => ReportedIsDrained
  BY DEF Init, ReportedIsDrained
<1>2. QED
  BY <1>1, DrainedStep, Invariant, PTL DEF Spec

\* What clients observe of the table is a run of JobLifecycle.
THEOREM Refinement == Spec => ImplementsLifecycle
<1>1. Init => Lifecycle!Init
  BY ConstantTypes DEF Init, Lifecycle!Init, view, Job
<1>2. IInv /\ IInv' /\ [Next]_vars => [Lifecycle!Next]_view
  <2> SUFFICES ASSUME IInv, IInv', [Next]_vars PROVE Lifecycle!Next
    OBVIOUS
  <2>1. /\ status \in [Job -> Active \cup Terminal]
        /\ status' \in [Job -> Active \cup Terminal]
        /\ JOBS \subseteq 1..created /\ created \in Nat
        /\ Job \subseteq Nat
    BY ConstantTypes DEF IInv, TypeOK
  <2>2. view' \in [Job -> Lifecycle!View]
    BY <2>1 DEF view, Lifecycle!View, Active, Terminal
  <2>3. ASSUME NEW j \in Job
        PROVE  view'[j] = view[j] \/ <<view[j], view'[j]>> \in Lifecycle!Edge
    <3>1. CASE j > created /\ j > created'
      BY <3>1 DEF view
    <3>2. CASE j > created /\ ~(j > created')
      <4>1. created' = created + 1 /\ j = created' /\ j \in JOBS' /\ status' = status
        BY <3>2, <2>1, TableSteps
      <4>2. status[j] = "queued"
        BY <3>2 DEF IInv, PlaceInv, Placed, Queued
      <4>3. QED
        BY <4>1, <4>2, <3>2 DEF view, Lifecycle!Edge
    <3>3. CASE ~(j > created)
      <4>1. ~(j > created') /\ (j \in JOBS' => j \in JOBS)
        BY <3>3, <2>1, TableSteps
      <4>2. CASE j \notin JOBS
        BY <4>1, <4>2, <3>3 DEF view
      <4>3. CASE j \in JOBS /\ j \notin JOBS'
        <5>1. <<status[j], "gone">> \in Lifecycle!Edge
          BY <2>1 DEF Lifecycle!Edge, Active, Terminal
        <5>2. QED
          BY <5>1, <4>1, <4>3, <3>3 DEF view
      <4>4. CASE j \in JOBS /\ j \in JOBS'
        BY <4>1, <4>4, <3>3, StatusSteps DEF view
      <4>5. QED
        BY <4>2, <4>3, <4>4
    <3>4. QED
      BY <3>1, <3>2, <3>3
  <2>4. QED
    BY <2>2, <2>3 DEF Lifecycle!Next
<1>3. QED
  BY <1>1, <1>2, Invariant, PTL DEF Spec, ImplementsLifecycle, Lifecycle!Spec

\* The events of the jobs that ended only drain away, whichever requests, prunings
\* and notices come in between: a job that is over and was reported never again
\* makes its thread refuse a prompt (_thread_pending_jobs,
\* codex_gateway.py:613-646; _attach_terminal_notices_to_response, :315-370).
THEOREM PendingRefinement == Spec => ImplementsPending
<1>1. Init => Counter!Init
  <2> SUFFICES ASSUME Init PROVE Counter!Init
    OBVIOUS
  <2>1. \A j \in Job : task[j] = "none" /\ JOBS = {}
    BY DEF Init
  <2>2. QED
    BY <2>1 DEF Counter!Init, phase, visible
<1>2. IInv /\ IInv' /\ [Next]_vars => Counter!Next
  <2> SUFFICES ASSUME IInv, IInv', [Next]_vars PROVE Counter!Next
    OBVIOUS
  <2>1. phase' \in [Job -> {"producing", "over", "noticed"}]
    <3>1. \A j \in Job : phase'[j] \in {"producing", "over", "noticed"}
      BY PhaseMeaning
    <3>2. QED
      BY <3>1 DEF phase
  <2>2. visible' \in [Job -> Nat]
    <3>1. \A j \in Job : visible'[j] \in Nat
      BY VisibleMeaning
    <3>2. QED
      BY <3>1 DEF visible
  <2>3. QED
    BY <2>1, <2>2, CounterStep DEF Counter!Next, Counter!Phase
<1>3. QED
  BY <1>1, <1>2, Invariant, PTL DEF Spec, ImplementsPending, Counter!Spec
=============================================================================
