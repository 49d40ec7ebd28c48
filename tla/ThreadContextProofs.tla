--------------------------- MODULE ThreadContextProofs ---------------------------
(***************************************************************************)
(* Proofs of the invariants of ThreadContext for any number of requests,   *)
(* directories, threads and slots.  A step is taken for one request, or by *)
(* another client of the app-server; what is known of a request does not   *)
(* depend on the others, and of the app-server only on the directories of  *)
(* the threads it has: when one changes, the requests that go by it are    *)
(* among the strayed.                                                      *)
(***************************************************************************)
EXTENDS ThreadContext, FiniteSetTheorems, SequenceTheorems, TLAPS

USE ContextAssumption

Step     == Awaits \cup JobSteps \cup Over
SlotStep == {"creating", "opening", "running", "asking"}

-----------------------------------------------------------------------------
(* Types, and the executor's threads.                                      *)

LEMMA GoTypes ==
  ASSUME TypeOK, NEW r \in Req, NEW next \in Step, Go(r, next)
  PROVE  at' \in [Req -> Step] /\ queue' \in Seq(Req)
BY AppendProperties DEF TypeOK, Go, Step

\* A request that goes on holds a thread of the executor only if it held one.
LEMMA GoSlots ==
  ASSUME TypeOK, NEW r \in Req, NEW next \in Step, Go(r, next),
         next \in SlotStep => at[r] \in SlotStep
  PROVE  Cardinality(InSlot') <= Slots
<1>1. InSlot' \subseteq InSlot
  BY DEF TypeOK, Go, Step, SlotStep, InSlot
<1>2. IsFiniteSet(InSlot)
  BY FS_Subset DEF InSlot
<1>3. Cardinality(InSlot') <= Cardinality(InSlot) /\ Cardinality(InSlot) \in Nat
         /\ Cardinality(InSlot') \in Nat
  BY <1>1, <1>2, FS_Subset, FS_CardinalityType
<1> QED BY <1>3 DEF TypeOK

\* The executor's queue holds those that wait for it, each once.
QueueInv ==
  /\ \A i \in 1..Len(queue) : at[queue[i]] \in {"create", "job"}
  /\ \A i, j \in 1..Len(queue) : queue[i] = queue[j] => i = j

LEMMA GoQueue ==
  ASSUME TypeOK, QueueInv, NEW r \in Req, NEW next \in Step, Go(r, next),
         at[r] \notin {"create", "job"}
  PROVE  QueueInv'
<1>1. /\ queue \in Seq(Req) /\ Len(queue) \in Nat
      /\ \A i \in 1..Len(queue) : queue[i] \in Req /\ queue[i] # r
  BY LenProperties, ElementOfSeq DEF TypeOK, QueueInv
<1>2. /\ at'[r] = next
      /\ \A s \in Req \ {r} : at'[s] = at[s]
  BY DEF Go, TypeOK
<1>3. CASE next \in {"create", "job"}
  <2>1. /\ queue' = Append(queue, r) /\ Len(queue') = Len(queue) + 1
        /\ \A i \in 1..Len(queue) : queue'[i] = queue[i]
        /\ queue'[Len(queue) + 1] = r
    BY <1>1, <1>3, AppendProperties DEF Go
  <2>2. \A i \in 1..Len(queue') : i \in 1..Len(queue) \/ i = Len(queue) + 1
    BY <1>1, <2>1
  <2> QED BY <1>1, <1>2, <1>3, <2>1, <2>2 DEF QueueInv
<1>4. CASE next \notin {"create", "job"}
  <2>1. queue' = queue
    BY <1>4 DEF Go
  <2> QED BY <1>1, <1>2, <2>1 DEF QueueInv
<1> QED BY <1>3, <1>4

LEMMA TakeSlotQueue ==
  ASSUME TypeOK, QueueInv, TakeSlot
  PROVE  QueueInv'
<1> DEFINE h == Head(queue)
<1>1. /\ queue \in Seq(Req) /\ queue # <<>> /\ Len(queue) \in Nat \ {0} /\ h = queue[1]
      /\ \A i \in 1..Len(queue) : queue[i] \in Req
  BY LenProperties, EmptySeq, HeadTailProperties, ElementOfSeq DEF TypeOK, TakeSlot
<1>2. /\ queue' = Tail(queue) /\ Len(queue') = Len(queue) - 1
      /\ \A i \in 1..Len(queue') : queue'[i] = queue[i + 1]
  BY <1>1, HeadTailProperties DEF TakeSlot
<1>3. \A s \in Req : s # h => at'[s] = at[s]
  BY DEF TakeSlot, TypeOK
<1>4. \A i \in 1..Len(queue') : i + 1 \in 1..Len(queue) /\ i + 1 # 1 /\ i \in Nat
  BY <1>1, <1>2
<1>5. \A i \in 1..Len(queue') : queue'[i] # h /\ queue'[i] \in Req
  BY <1>1, <1>2, <1>4 DEF QueueInv
<1> QED BY <1>2, <1>3, <1>4, <1>5 DEF QueueInv

LEMMA TakeSlotTypes == TypeOK /\ TakeSlot => TypeOK'
<1> SUFFICES ASSUME TypeOK, TakeSlot PROVE TypeOK'
  OBVIOUS
<1> DEFINE h == Head(queue)
<1>1. h \in Req /\ Tail(queue) \in Seq(Req)
  BY HeadTailProperties DEF TypeOK, TakeSlot
<1>2. at' \in [Req -> Step] /\ InSlot' \subseteq InSlot \cup {h}
  BY <1>1 DEF TypeOK, TakeSlot, Step, Awaits, JobSteps, InSlot
<1>3. IsFiniteSet(InSlot) /\ IsFiniteSet(InSlot \cup {h})
  BY FS_Subset, FS_AddElement DEF InSlot
<1>3a. Cardinality(InSlot) \in Nat
  BY <1>3, FS_CardinalityType
<1>3b. Cardinality(InSlot \cup {h}) = IF h \in InSlot THEN Cardinality(InSlot)
                                      ELSE Cardinality(InSlot) + 1
  BY <1>3, FS_AddElement
<1>4. /\ Cardinality(InSlot \cup {h}) <= Cardinality(InSlot) + 1
      /\ Cardinality(InSlot \cup {h}) \in Nat
  BY <1>3a, <1>3b
<1>5. Cardinality(InSlot') <= Cardinality(InSlot \cup {h}) /\ Cardinality(InSlot') \in Nat
  BY <1>2, <1>3, FS_Subset, FS_CardinalityType
<1>6. Cardinality(InSlot') <= Slots
  BY <1>3a, <1>4, <1>5 DEF TakeSlot, SlotFree
<1> QED BY <1>1, <1>2, <1>6 DEF TypeOK, TakeSlot, Step, server, history

-----------------------------------------------------------------------------
(* What is known of one request.                                           *)

\* Where its handler can be.
Where(r) ==
  LET w == req[r].what IN
  /\ at[r] # "idle" => req[r] \in Request
  /\ at[r] \in {"config", "projects"} => w \in {"switch", "switch_new"}
  /\ at[r] \in {"list", "resume", "resume_again"} =>
       w = "switch" \/ (w = "job" /\ req[r].thread = None)
  /\ at[r] \in {"meta", "meta_again", "turns"} => w = "switch"
  /\ at[r] = "read" => w \in {"model", "skill"}
  /\ at[r] \in {"skills", "turn"} => w = "skill"
  /\ at[r] \in {"create", "creating"} => w # "skill"
  /\ at[r] \in {"create", "creating"} /\ w = "job" => req[r].thread = None
  /\ at[r] \in {"admit", "ended"} \cup JobSteps => w = "job"
  /\ at[r] = "answered" => w # "job"

\* The directory it holds.
Directory(r) ==
  /\ req[r].what # "model" => cwd[r] = req[r].cwd
  /\ at[r] = "read" => found[r] = req[r].thread
  /\ req[r].what = "model" /\ at[r] \notin {"idle", "read", "refused", "ended"} =>
       cwd[r] \in Dir /\ (r \in strayed \/ cwd[r] = cwdOf[req[r].thread])
  /\ at[r] \in {"list", "create", "creating", "resume", "resume_again", "meta",
                "meta_again", "turns"} => cwd[r] \in Dir

\* The thread it holds.
Holds(r) ==
  /\ at[r] \in {"resume", "resume_again", "meta", "meta_again", "turns"} \/ Resolved(r) =>
       /\ found[r] \in Thread
       /\ cwd[r] \in Dir
       /\ r \in strayed \/ cwdOf[found[r]] = cwd[r]
  /\ at[r] = "turns" \/ Resolved(r) => found[r] \in resumed[r] \cup started[r]
  /\ at[r] \in {"skills", "turn", "admit"} \cup JobSteps => found[r] \in Thread

\* The threads that were started for it.
Starts(r) ==
  /\ started[r] = {} \/ \E t \in Thread : started[r] = {t}
  /\ started[r] # {} => at[r] \in {"admit", "answered", "refused", "ended"} \cup JobSteps
  /\ at[r] \in {"create", "creating"} \/ started[r] # {} =>
       /\ req[r].what = "job" => r \in lacking
       /\ req[r].what = "switch" => r \in lacking \cup nameless

Known(r) == Where(r) /\ Directory(r) /\ Holds(r) /\ Starts(r)

IInv == TypeOK /\ QueueInv /\ \A r \in Req : Known(r)

\* A thread keeps its directory, or those that go by it have strayed.
Kept ==
  /\ strayed \subseteq strayed'
  /\ \A t \in Thread : cwdOf[t] # None => cwdOf'[t] = cwdOf[t] \/ Holders(t) \subseteq strayed'

\* A step of another request leaves what is known of s.
Untouched(s) ==
  /\ req'[s] = req[s] /\ at'[s] = at[s] /\ cwd'[s] = cwd[s] /\ found'[s] = found[s]
  /\ resumed'[s] = resumed[s] /\ started'[s] = started[s]
  /\ s \in lacking' <=> s \in lacking
  /\ s \in nameless' <=> s \in nameless

LEMMA Frame ==
  ASSUME TypeOK, NEW s \in Req, Known(s), Kept, Untouched(s)
  PROVE  Known(s)'
<1>1. Where(s)'
  BY DEF Known, Where, Untouched
<1>2. Directory(s)'
  <2>1. req[s].what = "model" => req[s].thread \in Thread
    BY DEF TypeOK, Request, Idle
  <2>2. ASSUME req[s].what = "model", at[s] \notin {"idle", "read", "refused", "ended"}
        PROVE  cwd'[s] \in Dir /\ (s \in strayed' \/ cwd'[s] = cwdOf'[req[s].thread])
    <3>1. cwd[s] \in Dir /\ (s \in strayed \/ cwd[s] = cwdOf[req[s].thread])
      BY <2>2 DEF Known, Directory
    <3>2. s \in Holders(req[s].thread) /\ cwd[s] # None
      BY <2>2, <3>1 DEF Holders
    <3> QED BY <2>1, <2>2, <3>1, <3>2 DEF Kept, Untouched
  <2> QED BY <2>2 DEF Known, Directory, Untouched
<1>3. Holds(s)'
  <2> DEFINE opens == at[s] \in {"resume", "resume_again", "meta", "meta_again", "turns"}
  <2>1. ASSUME opens \/ Resolved(s)
        PROVE  found[s] \in Thread /\ cwd[s] \in Dir
                 /\ (s \in strayed' \/ cwdOf'[found[s]] = cwd[s])
    <3>1. found[s] \in Thread /\ cwd[s] \in Dir /\ (s \in strayed \/ cwdOf[found[s]] = cwd[s])
      BY <2>1 DEF Known, Holds
    <3>2. s \in Holders(found[s]) /\ cwd[s] # None
      BY <2>1, <3>1 DEF Holders, Known, Where, Resolved, JobSteps
    <3> QED BY <3>1, <3>2 DEF Kept
  <2>2. Resolved(s)' <=> Resolved(s)
    BY DEF Resolved, Untouched
  <2> QED BY <2>1, <2>2 DEF Known, Holds, Untouched
<1>4. Starts(s)'
  BY DEF Known, Starts, Untouched
<1> QED BY <1>1, <1>2, <1>3, <1>4 DEF Known

\* A step of r that moves nobody else.
LEMMA OneGoes ==
  ASSUME IInv, NEW r \in Req, Kept, Known(r)',
         \A s \in Req \ {r} : Untouched(s)
  PROVE  \A s \in Req : Known(s)'
BY Frame DEF IInv

LEMMA NoneGoes ==
  ASSUME IInv, Kept, UNCHANGED <<req, at, cwd, found, resumed, started, lacking, nameless>>
  PROVE  \A s \in Req : Known(s)'
BY Frame DEF IInv, Untouched

LEMMA InitInv == Init => IInv
<1> SUFFICES ASSUME Init PROVE IInv
  OBVIOUS
<1>1. InSlot = {} /\ Cardinality(InSlot) = 0
  BY FS_EmptySet DEF Init, InSlot
<1>2. TypeOK
  BY <1>1 DEF Init, TypeOK, Idle, Awaits
<1>3. \A r \in Req : Known(r)
  BY DEF Init, Known, Where, Directory, Holds, Starts, Resolved, Idle, JobSteps
<1>4. QueueInv
  BY EmptySeq DEF Init, QueueInv
<1> QED BY <1>2, <1>3, <1>4 DEF IInv

-----------------------------------------------------------------------------
(* The handlers.                                                           *)

LEMMA ArriveInv ==
  ASSUME IInv, NEW r \in Req, NEW q \in Asked, Arrive(r, q)
  PROVE  IInv'
<1>1. q \in Request
  OBVIOUS
<1>2. PICK next \in Step :
        /\ Go(r, next)
        /\ next \notin SlotStep
        /\ q.what = "job" => (next = "admit" /\ q.thread # None) \/ next = "refused"
               \/ (next = "list" /\ q.thread = None /\ q.cwd \in Dir)
        /\ q.what \in {"switch", "switch_new"} => next = "config"
        /\ q.what = "create" => next \in {"create", "refused"}
        /\ q.what = "model" => next \in {"read", "refused"}
        /\ q.what = "skill" => next \in {"read", "refused"}
  BY <1>1 DEF Arrive, Create, Request, Step, Awaits, JobSteps, Over, SlotStep, Rpc
<1>3. TypeOK'
  <2>1. Cardinality(InSlot') <= Slots
    BY <1>2, GoSlots DEF IInv
  <2>2. at' \in [Req -> Step] /\ queue' \in Seq(Req)
    BY <1>2, GoTypes DEF IInv
  <2>3. q.cwd \in Dir \cup {None} /\ q.thread \in Thread \cup {None}
    BY <1>1 DEF Request
  <2> QED BY <1>1, <2>1, <2>2, <2>3 DEF IInv, TypeOK, Arrive, Step, server, history
<1>4. Known(r)'
  <2>1. /\ req'[r] = q /\ cwd'[r] = q.cwd /\ found'[r] = q.thread /\ at'[r] = next
        /\ started'[r] = {} /\ resumed'[r] = resumed[r]
    BY <1>2 DEF Arrive, Go, IInv, TypeOK, Known, Starts, history, JobSteps
  <2>2. Where(r)'
    BY <1>1, <1>2, <2>1 DEF Where, Request, JobSteps
  <2>3. Directory(r)'
    BY <1>1, <1>2, <2>1 DEF Directory, Request
  <2>4. Holds(r)'
    BY <1>1, <1>2, <2>1 DEF Holds, Resolved, Request, JobSteps
  <2>5. next \in {"create", "creating"} => q.what \notin {"job", "switch"}
    BY <1>2 DEF SlotStep
  <2>6. Starts(r)'
    BY <2>1, <2>5 DEF Starts
  <2> QED BY <2>2, <2>3, <2>4, <2>6 DEF Known
<1>5. Kept /\ \A s \in Req \ {r} : Untouched(s)
  BY <1>2 DEF Arrive, Go, Kept, Untouched, server, history, IInv, TypeOK
<1>6. QueueInv'
  BY <1>2, GoQueue DEF Arrive, IInv
<1> QED BY <1>3, <1>4, <1>5, <1>6, OneGoes DEF IInv

\* What follows when the handler of r goes on to the next await with the directory
\* c and the thread f.
LEMMA HandlerGoes ==
  ASSUME IInv, NEW r \in Req, NEW next \in Step, Go(r, next),
         next \in SlotStep => at[r] \in SlotStep, at[r] \notin {"create", "job"},
         req' = req, pending' \subseteq Req,
         NEW c \in Dir \cup {None}, cwd' = [cwd EXCEPT ![r] = c],
         NEW f \in Thread \cup {None}, found' = [found EXCEPT ![r] = f],
         cwdOf' \in [Thread -> Dir \cup {None}], Kept, runnable' \subseteq Thread,
         NEW R \in SUBSET Thread, resumed' = [resumed EXCEPT ![r] = R],
         NEW S \in SUBSET Thread, started' = [started EXCEPT ![r] = S],
         lacking \subseteq lacking', lacking' \subseteq lacking \cup {r},
         nameless \subseteq nameless', nameless' \subseteq nameless \cup {r},
         strayed' \subseteq Req, Known(r)'
  PROVE  IInv'
<1>1. Cardinality(InSlot') <= Slots
  BY GoSlots DEF IInv
<1>2. at' \in [Req -> Step] /\ queue' \in Seq(Req)
  BY GoTypes DEF IInv
<1>3. TypeOK'
  <2>1. TypeOK
    BY DEF IInv
  <2> QED BY <1>1, <1>2, <2>1 DEF TypeOK, Step
<1>4. \A s \in Req \ {r} : Untouched(s)
  BY DEF Untouched, Go, IInv, TypeOK
<1>5. QueueInv'
  BY GoQueue DEF IInv
<1> QED BY <1>3, <1>4, <1>5, OneGoes DEF IInv

LEMMA FailInv ==
  ASSUME IInv, NEW r \in Req, at[r] \notin {"idle", "create", "job"}, Fail(r)
  PROVE  IInv'
<1>1. Go(r, "refused") /\ Kept
  BY DEF Fail, Kept, server, history
<1>2. Known(r)'
  BY <1>1 DEF IInv, TypeOK, Known, Where, Directory, Holds, Resolved, Starts, Fail, Go,
              server, history, JobSteps
<1>3. TypeOK
  BY DEF IInv
<1>4. "refused" \in Step /\ "refused" \notin SlotStep
  BY DEF Step, Over, SlotStep
<1> QED
  BY <1>1, <1>2, <1>3, <1>4, HandlerGoes DEF Fail, server, history, TypeOK

\* A step of a handler that asks the server nothing that changes it, and learns
\* nothing.
LEMMA PlainStep ==
  ASSUME IInv, NEW r \in Req, NEW next \in Step, Go(r, next),
         next \in SlotStep => at[r] \in SlotStep, at[r] \notin {"create", "job"},
         UNCHANGED <<req, cwd, found, cwdOf, resumed, started, strayed>>,
         pending' \subseteq Req, runnable' \subseteq Thread,
         lacking \subseteq lacking', lacking' \subseteq lacking \cup {r},
         nameless \subseteq nameless', nameless' \subseteq nameless \cup {r},
         Known(r)'
  PROVE  IInv'
<1>1. TypeOK
  BY DEF IInv
<1>2. Kept
  BY DEF Kept
<1> QED BY <1>1, <1>2, HandlerGoes DEF TypeOK

LEMMA ProjectInv ==
  ASSUME IInv, NEW r \in Req, Project(r)
  PROVE  IInv'
<1>1. PICK next \in {"projects", "list", "create", "refused"} :
        /\ Go(r, next)
        /\ next = "projects" => at[r] = "config"
        /\ next = "list" => at[r] = "projects" /\ req[r].what = "switch"
        /\ next = "create" => at[r] = "projects" /\ req[r].what = "switch_new"
  BY DEF Project, Create
<1>2. at[r] \in {"config", "projects"} /\ UNCHANGED <<req, cwd, found, pending, server, history>>
  BY DEF Project
<1>3. /\ at'[r] = next /\ req[r] \in Request /\ req[r].what \in {"switch", "switch_new"}
      /\ cwd[r] = req[r].cwd /\ started[r] = {}
  BY <1>1, <1>2 DEF IInv, TypeOK, Go, Known, Where, Directory, Starts, JobSteps
<1>4. cwd[r] \in Dir
  BY <1>3 DEF Request
<1>5. Known(r)'
  BY <1>1, <1>2, <1>3, <1>4
     DEF Known, Where, Directory, Holds, Resolved, Starts, server, history, JobSteps
<1>6. next \in Step /\ next \notin SlotStep /\ TypeOK
  BY <1>1 DEF Step, Awaits, Rpc, Over, SlotStep, IInv
<1> QED BY <1>1, <1>2, <1>5, <1>6, PlainStep DEF server, history, TypeOK

LEMMA ListInv ==
  ASSUME IInv, NEW r \in Req, ListLatest(r)
  PROVE  IInv'
<1>1. /\ at[r] = "list" /\ req[r] \in Request /\ cwd[r] \in Dir /\ started[r] = {}
      /\ req[r].what = "switch" \/ (req[r].what = "job" /\ req[r].thread = None)
      /\ cwd[r] = req[r].cwd
      /\ UNCHANGED <<req, cwd, pending, server, resumed, started, nameless, strayed>>
  BY DEF ListLatest, IInv, TypeOK, Known, Where, Directory, Starts, JobSteps
<1>2. TypeOK /\ Kept
  BY <1>1 DEF IInv, Kept, server, history
<1>3. CASE \E t \in Of(cwd[r]) :
             found' = [found EXCEPT ![r] = t] /\ Go(r, "resume") /\ UNCHANGED lacking
  <2>1. PICK t \in Thread : /\ cwdOf[t] = cwd[r] /\ found' = [found EXCEPT ![r] = t]
                            /\ Go(r, "resume") /\ UNCHANGED lacking
    BY <1>3 DEF Of
  <2>2. at'[r] = "resume" /\ found'[r] = t
    BY <2>1, <1>2 DEF Go, TypeOK
  <2>3. Known(r)'
    BY <1>1, <2>1, <2>2
       DEF Known, Where, Directory, Holds, Resolved, Starts, server, JobSteps
  <2>4. "resume" \in Step /\ "resume" \notin SlotStep
    BY DEF Step, Awaits, Rpc, SlotStep
  <2>5. /\ cwd' = [cwd EXCEPT ![r] = cwd[r]] /\ cwd[r] \in Dir \cup {None}
        /\ resumed' = [resumed EXCEPT ![r] = resumed[r]] /\ resumed[r] \in SUBSET Thread
        /\ started' = [started EXCEPT ![r] = started[r]] /\ started[r] \in SUBSET Thread
    BY <1>1, <1>2 DEF TypeOK
  <2>6. /\ cwdOf' \in [Thread -> Dir \cup {None}] /\ runnable' \subseteq Thread
        /\ lacking' = lacking /\ nameless' = nameless /\ strayed' = strayed /\ strayed \subseteq Req
        /\ pending' \subseteq Req /\ req' = req
    BY <1>1, <1>2, <2>1 DEF TypeOK, server
  <2> QED BY <1>1, <1>2, <2>1, <2>3, <2>4, <2>5, <2>6, HandlerGoes
<1>4. CASE lacking' = lacking \cup {r} /\ Create(r) /\ UNCHANGED found
  <2>1. PICK next \in {"create", "refused"} : Go(r, next)
    BY <1>4 DEF Create
  <2>2. at'[r] = next
    BY <2>1, <1>2 DEF Go, TypeOK
  <2>3. Known(r)'
    BY <1>1, <1>4, <2>2
       DEF Known, Where, Directory, Holds, Resolved, Starts, server, JobSteps
  <2>4. next \in Step /\ next \notin SlotStep
    BY <2>1 DEF Step, Awaits, Over, SlotStep
  <2> QED BY <1>1, <1>2, <1>4, <2>1, <2>3, <2>4, PlainStep DEF TypeOK, server
<1> QED BY <1>3, <1>4 DEF ListLatest

\* "No rollout": on to create, or an error.
LEMMA StaleInv ==
  ASSUME IInv, NEW r \in Req, Stale(r),
         at[r] \in {"resume", "resume_again", "meta", "meta_again", "turns"},
         UNCHANGED <<req, cwd, found, pending, server, started, strayed>>
  PROVE  IInv'
<1>1. TypeOK /\ Known(r)
  BY DEF IInv
<1>2. PICK next \in {"create", "refused"} : Go(r, next)
  BY DEF Stale, Create
<1>3. /\ at'[r] = next /\ cwd[r] \in Dir /\ req[r] \in Request /\ started[r] = {}
      /\ req[r].what = "switch" \/ (req[r].what = "job" /\ req[r].thread = None)
  BY <1>1, <1>2 DEF Go, TypeOK, Known, Where, Directory, Starts, JobSteps
<1>4. Known(r)'
  BY <1>1, <1>2, <1>3
     DEF Known, Where, Directory, Holds, Resolved, Starts, server, JobSteps, Stale
<1>5. next \in Step /\ next \notin SlotStep
  BY <1>2 DEF Step, Awaits, Over, SlotStep
<1> QED BY <1>1, <1>2, <1>4, <1>5, PlainStep DEF TypeOK, server, Stale

\* The server resumes the thread found.
LEMMA ResumedInv ==
  ASSUME IInv, NEW r \in Req, NEW next \in {"admit", "answered", "turns"}, Resumed(r, next),
         at[r] \in {"resume", "resume_again", "meta", "meta_again"},
         req[r].what = "job" => next = "admit",
         req[r].what # "job" => next # "admit",
         at[r] \in {"resume", "resume_again"} => next # "turns",
         UNCHANGED <<req, cwd, found, pending, server, started, strayed>>
  PROVE  IInv'
<1>1. TypeOK /\ Known(r) /\ Kept /\ Go(r, next)
  BY DEF IInv, Kept, server, Resumed
<1>2. /\ at'[r] = next /\ cwd[r] \in Dir /\ req[r] \in Request /\ started[r] = {}
      /\ req[r].what = "switch" \/ (req[r].what = "job" /\ req[r].thread = None)
      /\ found[r] \in Thread /\ (r \in strayed \/ cwdOf[found[r]] = cwd[r])
      /\ resumed'[r] = resumed[r] \cup {found[r]}
  BY <1>1 DEF Go, TypeOK, Known, Where, Directory, Holds, Starts, JobSteps, Resumed
<1>3. Known(r)'
  <2>1. Where(r)' /\ Directory(r)'
    BY <1>1, <1>2 DEF Known, Where, Directory, JobSteps
  <2>2. Holds(r)' /\ Starts(r)'
    BY <1>1, <1>2 DEF Known, Holds, Resolved, Starts, server, JobSteps
  <2> QED BY <2>1, <2>2 DEF Known
<1>4. next \in Step /\ next \notin SlotStep
  BY DEF Step, Awaits, Rpc, Over, SlotStep
<1>5. /\ cwd' = [cwd EXCEPT ![r] = cwd[r]] /\ cwd[r] \in Dir \cup {None}
      /\ found' = [found EXCEPT ![r] = found[r]] /\ found[r] \in Thread \cup {None}
      /\ resumed' = [resumed EXCEPT ![r] = resumed[r] \cup {found[r]}]
      /\ resumed[r] \cup {found[r]} \in SUBSET Thread
      /\ started' = [started EXCEPT ![r] = started[r]] /\ started[r] \in SUBSET Thread
  BY <1>1, <1>2 DEF TypeOK, Resumed
<1>6. /\ cwdOf' \in [Thread -> Dir \cup {None}] /\ runnable' \subseteq Thread
      /\ lacking' = lacking /\ nameless' = nameless /\ strayed' = strayed /\ strayed \subseteq Req
      /\ pending' \subseteq Req /\ req' = req
  BY <1>1 DEF TypeOK, server, Resumed
<1> QED BY <1>1, <1>3, <1>4, <1>5, <1>6, HandlerGoes

\* A result without a thread.
LEMMA NamelessInv ==
  ASSUME IInv, NEW r \in Req, Nameless(r),
         at[r] \in {"resume", "resume_again", "turns"},
         UNCHANGED <<req, cwd, found, pending, server, started, strayed>>
  PROVE  IInv'
<1>1. TypeOK /\ Known(r) /\ req[r].what = "switch"
  BY DEF IInv, Nameless
<1>2. PICK next \in {"create", "refused"} : Go(r, next)
  BY DEF Nameless, Create
<1>3. /\ at'[r] = next /\ cwd[r] \in Dir /\ req[r] \in Request /\ started[r] = {}
      /\ nameless' = nameless \cup {r} /\ UNCHANGED <<resumed, lacking>>
  BY <1>1, <1>2 DEF Go, TypeOK, Known, Where, Directory, Starts, JobSteps, Nameless
<1>4. Known(r)'
  BY <1>1, <1>2, <1>3 DEF Known, Where, Directory, Holds, Resolved, Starts, server, JobSteps
<1>5. next \in Step /\ next \notin SlotStep
  BY <1>2 DEF Step, Awaits, Over, SlotStep
<1> QED BY <1>1, <1>2, <1>3, <1>4, <1>5, PlainStep DEF TypeOK, server

\* A step of a switch, or a retry, that changes nothing but where it is.
LEMMA OnlyMoves ==
  ASSUME IInv, NEW r \in Req, NEW next \in {"resume_again", "meta", "meta_again"},
         Go(r, next),
         at[r] \in {"resume", "resume_again", "meta"},
         next # "resume_again" => req[r].what = "switch",
         UNCHANGED <<req, cwd, found, pending, server, history>>
  PROVE  IInv'
<1>1. TypeOK /\ Known(r)
  BY DEF IInv
<1>2. at'[r] = next
  BY <1>1 DEF Go, TypeOK
<1>3. Known(r)'
  <2>1. Where(r)' /\ Directory(r)'
    BY <1>1, <1>2 DEF Known, Where, Directory, JobSteps, server, history
  <2>2. Holds(r)' /\ Starts(r)'
    BY <1>1, <1>2 DEF Known, Where, Holds, Resolved, Starts, server, history, JobSteps
  <2> QED BY <2>1, <2>2 DEF Known
<1>4. next \in Step /\ next \notin SlotStep
  BY DEF Step, Awaits, Rpc, SlotStep
<1> QED BY <1>1, <1>3, <1>4, PlainStep DEF TypeOK, server, history

LEMMA ResumeInv ==
  ASSUME IInv, NEW r \in Req, Resume(r)
  PROVE  IInv'
<1>1. UNCHANGED <<req, cwd, found, pending, server, started, strayed>>
  BY DEF Resume
<1>2. CASE /\ at[r] \in {"resume", "resume_again"}
           /\ Resumed(r, IF req[r].what = "job" THEN "admit" ELSE "answered")
  BY <1>1, <1>2, ResumedInv
<1>3. CASE /\ at[r] \in {"resume", "resume_again"} /\ req[r].what = "switch"
           /\ Go(r, "meta") /\ UNCHANGED <<resumed, lacking, nameless>>
  BY <1>1, <1>3, OnlyMoves DEF history
<1>4. CASE at[r] \in {"meta", "meta_again"} /\ Resumed(r, "turns")
  <2>1. req[r].what = "switch"
    BY <1>4 DEF IInv, Known, Where
  <2> QED BY <1>1, <1>4, <2>1, ResumedInv
<1>5. CASE at[r] \in {"resume", "resume_again", "meta", "meta_again"} /\ Stale(r)
  BY <1>1, <1>5, StaleInv
<1>6. CASE Retry(r)
  <2>1. at[r] = "meta" => req[r].what = "switch"
    BY DEF IInv, Known, Where
  <2> QED BY <1>1, <1>6, <2>1, OnlyMoves DEF Retry, history
<1>7. CASE at[r] \in {"resume", "resume_again"} /\ Nameless(r)
  BY <1>1, <1>7, NamelessInv
<1> QED BY <1>2, <1>3, <1>4, <1>5, <1>6, <1>7 DEF Resume

LEMMA TurnsInv ==
  ASSUME IInv, NEW r \in Req, Turns(r)
  PROVE  IInv'
<1>1. at[r] = "turns" /\ UNCHANGED <<req, cwd, found, pending, server, started, strayed>>
  BY DEF Turns
<1>2. CASE Stale(r)
  BY <1>1, <1>2, StaleInv
<1>3. CASE Go(r, "answered") /\ UNCHANGED <<resumed, lacking, nameless>>
  <2>1. TypeOK /\ Known(r)
    BY DEF IInv
  <2>2. at'[r] = "answered"
    BY <1>3, <2>1 DEF Go, TypeOK
  <2>3. Known(r)'
    BY <1>1, <1>3, <2>1, <2>2
       DEF Known, Where, Directory, Holds, Resolved, Starts, server, JobSteps
  <2>4. "answered" \in Step /\ "answered" \notin SlotStep
    BY DEF Step, Over, SlotStep
  <2> QED BY <1>1, <1>3, <2>1, <2>3, <2>4, PlainStep DEF TypeOK, server, history
<1>4. CASE Nameless(r)
  BY <1>1, <1>4, NamelessInv
<1> QED BY <1>2, <1>3, <1>4 DEF Turns

LEMMA ReadThreadInv ==
  ASSUME IInv, NEW r \in Req, ReadThread(r)
  PROVE  IInv'
<1>1. /\ TypeOK /\ Known(r) /\ at[r] = "read" /\ cwdOf[found[r]] # None /\ Kept
      /\ UNCHANGED <<req, found, pending, server, history>>
  BY DEF IInv, ReadThread, ThreadCwd, Kept, server, history
<1>2. /\ req[r] \in Request /\ req[r].what \in {"model", "skill"} /\ found[r] = req[r].thread
      /\ started[r] = {}
  BY <1>1 DEF Known, Where, Directory, Starts, JobSteps
<1>3. found[r] \in Thread /\ cwdOf[found[r]] \in Dir
  BY <1>1, <1>2 DEF Request, TypeOK
<1>4. CASE req[r].what = "model"
  <2>1. PICK next \in {"create", "refused"} : Go(r, next)
    BY <1>1, <1>4 DEF ReadThread, Create
  <2>2. cwd' = [cwd EXCEPT ![r] = cwdOf[found[r]]]
    BY <1>4 DEF ReadThread, ThreadCwd
  <2>3. at'[r] = next /\ cwd'[r] = cwdOf[found[r]]
    BY <1>1, <2>1, <2>2 DEF Go, TypeOK
  <2>4. Known(r)'
    BY <1>1, <1>2, <1>3, <1>4, <2>3
       DEF Known, Where, Directory, Holds, Resolved, Starts, server, history, JobSteps
  <2>5. next \in Step /\ next \notin SlotStep
    BY <2>1 DEF Step, Awaits, Over, SlotStep
  <2>6. /\ found' = [found EXCEPT ![r] = found[r]] /\ cwdOf[found[r]] \in Dir \cup {None}
        /\ resumed' = [resumed EXCEPT ![r] = resumed[r]] /\ resumed[r] \in SUBSET Thread
        /\ started' = [started EXCEPT ![r] = started[r]] /\ started[r] \in SUBSET Thread
    BY <1>1, <1>3 DEF TypeOK, history
  <2>7. /\ cwdOf' \in [Thread -> Dir \cup {None}] /\ runnable' \subseteq Thread
        /\ lacking' = lacking /\ nameless' = nameless /\ strayed' = strayed /\ strayed \subseteq Req
        /\ pending' \subseteq Req /\ req' = req
        /\ found[r] \in Thread \cup {None}
    BY <1>1 DEF TypeOK, server, history
  <2> QED BY <1>1, <2>1, <2>2, <2>4, <2>5, <2>6, <2>7, HandlerGoes
<1>5. CASE req[r].what = "skill"
  <2>1. PICK next \in {"skills", "turn"} : Go(r, next) /\ UNCHANGED cwd
    BY <1>1, <1>5 DEF ReadThread
  <2>2. at'[r] = next
    BY <1>1, <2>1 DEF Go, TypeOK
  <2>3. Known(r)'
    BY <1>1, <1>2, <1>3, <1>5, <2>1, <2>2
       DEF Known, Where, Directory, Holds, Resolved, Starts, server, history, JobSteps
  <2>4. next \in Step /\ next \notin SlotStep
    BY <2>1 DEF Step, Awaits, Rpc, SlotStep
  <2> QED BY <1>1, <2>1, <2>3, <2>4, PlainStep DEF TypeOK, server, history
<1> QED BY <1>2, <1>4, <1>5

\* A turn moves a thread only together with those that go by it.
LEMMA RunTurnKept ==
  ASSUME TypeOK, NEW t \in Thread, NEW d \in Dir \cup {None}, RunTurn(t, d)
  PROVE  /\ Kept /\ cwdOf' \in [Thread -> Dir \cup {None}]
         /\ runnable' \subseteq Thread /\ strayed' \subseteq Req
<1>1. Holders(t) \subseteq Req
  BY DEF Holders
<1>2. CASE d \in {None, cwdOf[t]}
  BY <1>2 DEF RunTurn, TypeOK, Kept
<1>3. CASE d \notin {None, cwdOf[t]}
  BY <1>1, <1>3 DEF RunTurn, TypeOK, Kept
<1> QED BY <1>2, <1>3

LEMMA SkillInv ==
  ASSUME IInv, NEW r \in Req, Skill(r)
  PROVE  IInv'
<1>1. /\ TypeOK /\ Known(r) /\ at[r] \in {"skills", "turn"}
      /\ UNCHANGED <<req, cwd, found, pending, resumed, started, lacking, nameless>>
  BY DEF IInv, Skill
<1>2. /\ req[r] \in Request /\ req[r].what = "skill" /\ started[r] = {}
  BY <1>1 DEF Known, Where, Starts, JobSteps
<1>3. PICK next \in {"turn", "answered", "refused"} : Go(r, next)
  BY DEF Skill
<1>4. at'[r] = next
  BY <1>1, <1>3 DEF Go, TypeOK
<1>5. /\ Kept /\ cwdOf' \in [Thread -> Dir \cup {None}]
      /\ runnable' \subseteq Thread /\ strayed' \subseteq Req
  <2>1. CASE at[r] = "turn"
    <3>1. found[r] \in Thread /\ cwd[r] \in Dir \cup {None} /\ RunTurn(found[r], cwd[r])
      BY <1>1, <2>1 DEF Skill, TypeOK, Known, Holds
    <3> QED BY <1>1, <3>1, RunTurnKept
  <2>2. CASE at[r] = "skills"
    BY <1>1, <2>2 DEF Skill, TypeOK, Kept, server
  <2> QED BY <1>1, <2>1, <2>2
<1>6. Known(r)'
  BY <1>1, <1>2, <1>4
     DEF Known, Where, Directory, Holds, Resolved, Starts, JobSteps
<1>7. next \in Step /\ next \notin SlotStep
  BY <1>3 DEF Step, Awaits, Rpc, Over, SlotStep
<1>8. /\ cwd' = [cwd EXCEPT ![r] = cwd[r]] /\ cwd[r] \in Dir \cup {None}
      /\ found' = [found EXCEPT ![r] = found[r]] /\ found[r] \in Thread \cup {None}
      /\ resumed' = [resumed EXCEPT ![r] = resumed[r]] /\ resumed[r] \in SUBSET Thread
      /\ started' = [started EXCEPT ![r] = started[r]] /\ started[r] \in SUBSET Thread
      /\ pending' \subseteq Req
  BY <1>1 DEF TypeOK
<1> QED BY <1>1, <1>3, <1>5, <1>6, <1>7, <1>8, HandlerGoes

-----------------------------------------------------------------------------
(* The executor and the jobs.                                              *)

LEMMA StartThreadInv ==
  ASSUME IInv, NEW r \in Req, StartThread(r)
  PROVE  IInv'
<1>1. /\ TypeOK /\ Known(r) /\ at[r] = "creating"
      /\ UNCHANGED <<req, cwd, pending, resumed, lacking, nameless, strayed>>
  BY DEF IInv, StartThread
<1>2. /\ req[r] \in Request /\ cwd[r] \in Dir /\ started[r] = {} /\ req[r].what # "skill"
      /\ req[r].what = "job" => req[r].thread = None
      /\ req[r].what = "job" => r \in lacking
      /\ req[r].what = "switch" => r \in lacking \cup nameless
  BY <1>1 DEF Known, Where, Directory, Starts, JobSteps
<1>3. PICK t \in Unused :
        /\ cwdOf' = [cwdOf EXCEPT ![t] = cwd[r]]
        /\ runnable' \in {runnable, runnable \cup {t}}
        /\ started' = [started EXCEPT ![r] = @ \cup {t}]
        /\ \/ /\ found' = [found EXCEPT ![r] = t]
              /\ Go(r, IF req[r].what = "job" THEN "admit" ELSE "answered")
           \/ Go(r, "refused") /\ UNCHANGED found
  BY DEF StartThread
<1>4. /\ t \in Thread /\ cwdOf[t] = None /\ started'[r] = {t} /\ cwdOf'[t] = cwd[r]
      /\ started' = [started EXCEPT ![r] = {t}] /\ {t} \in SUBSET Thread
  BY <1>1, <1>2, <1>3 DEF Unused, TypeOK
<1>5. Kept /\ cwdOf' \in [Thread -> Dir \cup {None}] /\ runnable' \subseteq Thread
  BY <1>1, <1>2, <1>3, <1>4 DEF Kept, TypeOK
<1>6. PICK next \in {"admit", "answered", "refused"}, f \in Thread \cup {None} :
        /\ Go(r, next) /\ found' = [found EXCEPT ![r] = f]
        /\ next # "refused" => f = t
        /\ next # "refused" => (req[r].what = "job" <=> next = "admit")
  <2>1. CASE /\ found' = [found EXCEPT ![r] = t]
             /\ Go(r, IF req[r].what = "job" THEN "admit" ELSE "answered")
    BY <1>4, <2>1
  <2>2. CASE Go(r, "refused") /\ UNCHANGED found
    <3>1. found' = [found EXCEPT ![r] = found[r]] /\ found[r] \in Thread \cup {None}
      BY <1>1, <2>2 DEF TypeOK
    <3> QED BY <2>2, <3>1
  <2> QED BY <1>3, <2>1, <2>2
<1>7. at'[r] = next /\ found'[r] = f
  BY <1>1, <1>6 DEF Go, TypeOK
<1>8. Known(r)'
  <2>1. Where(r)'
    BY <1>1, <1>2, <1>6, <1>7 DEF Known, Where, JobSteps
  <2>2. Directory(r)'
    <3>1. req[r].what = "model" => req[r].thread \in Thread
      BY <1>2 DEF Request
    <3>2. ASSUME req[r].what = "model"
          PROVE  r \in strayed \/ cwd[r] = cwdOf'[req[r].thread]
      <4>1. r \in strayed \/ cwd[r] = cwdOf[req[r].thread]
        BY <1>1, <3>2 DEF Known, Directory
      <4> QED BY <1>1, <1>2, <1>3, <1>4, <3>1, <3>2, <4>1 DEF TypeOK
    <3> QED BY <1>1, <1>2, <1>6, <1>7, <3>2 DEF Known, Directory
  <2>3. Holds(r)'
    BY <1>1, <1>2, <1>4, <1>6, <1>7 DEF Holds, Resolved, JobSteps
  <2>4. Starts(r)'
    BY <1>1, <1>2, <1>4, <1>6, <1>7 DEF Starts, JobSteps
  <2> QED BY <2>1, <2>2, <2>3, <2>4 DEF Known
<1>9. next \in Step /\ next \notin SlotStep
  BY <1>6 DEF Step, Awaits, Over, SlotStep
<1>10. /\ cwd' = [cwd EXCEPT ![r] = cwd[r]] /\ cwd[r] \in Dir \cup {None}
       /\ resumed' = [resumed EXCEPT ![r] = resumed[r]] /\ resumed[r] \in SUBSET Thread
       /\ lacking' = lacking /\ nameless' = nameless /\ strayed' = strayed /\ strayed \subseteq Req
      /\ pending' \subseteq Req /\ req' = req
  BY <1>1, <1>2 DEF TypeOK
<1>11. at[r] \notin {"create", "job"}
  BY <1>1
<1> QED BY <1>4, <1>5, <1>6, <1>8, <1>9, <1>10, <1>11, HandlerGoes

\* The steps of a job only move it on.
LEMMA JobInv ==
  ASSUME IInv, NEW r \in Req, Admit(r) \/ OpenThread(r) \/ Ask(r) \/ Decide(r) \/ EndJob(r)
  PROVE  IInv'
<1>1. TypeOK /\ Known(r) /\ at[r] \in {"admit", "opening", "running", "asking"}
  BY DEF IInv, Admit, OpenThread, Ask, Decide, EndJob
<1>2. UNCHANGED <<req, cwd, found, cwdOf, resumed, started, lacking, nameless, strayed>>
  BY DEF Admit, OpenThread, Ask, Decide, EndJob, server, history
<1>3. PICK next \in {"job", "refused", "running", "asking", "ended"} :
        Go(r, next) /\ (next \in SlotStep => at[r] \in SlotStep)
  BY DEF Admit, OpenThread, Ask, Decide, EndJob, SlotStep
<1>4. req[r].what = "job"
  BY <1>1 DEF Known, Where, JobSteps
<1>5. pending' \subseteq Req /\ runnable' \subseteq Thread
  <2>1. CASE EndJob(r)
    BY <1>1, <2>1 DEF EndJob, TypeOK, Known, Holds, JobSteps
  <2>2. CASE ~EndJob(r)
    BY <1>1, <2>2 DEF Admit, OpenThread, Ask, Decide, server, TypeOK
  <2> QED BY <2>1, <2>2
<1>6. at'[r] = next
  BY <1>1, <1>3 DEF Go, TypeOK
<1>7. Known(r)'
  BY <1>1, <1>2, <1>4, <1>6 DEF Known, Where, Directory, Holds, Resolved, Starts, JobSteps
<1>8. next \in Step
  BY <1>3 DEF Step, JobSteps, Over
<1> QED BY <1>1, <1>2, <1>3, <1>5, <1>7, <1>8, PlainStep

LEMMA EventsInv ==
  ASSUME IInv, NEW r \in Req, Message(r) \/ Drain(r)
  PROVE  IInv'
<1>1. /\ UNCHANGED <<req, cwd, at, found, queue, server, history>>
      /\ pending' \subseteq Req
  BY DEF IInv, TypeOK, Message, Drain
<1>2. InSlot' = InSlot
  BY <1>1 DEF InSlot
<1>3. TypeOK'
  BY <1>1, <1>2 DEF IInv, TypeOK, server, history
<1>4. QueueInv'
  BY <1>1 DEF IInv, QueueInv
<1> QED BY <1>1, <1>3, <1>4, NoneGoes DEF IInv, Kept, server, history

LEMMA TakeSlotInv == IInv /\ TakeSlot => IInv'
<1> SUFFICES ASSUME IInv, TakeSlot PROVE IInv'
  OBVIOUS
<1>1. TypeOK' /\ QueueInv'
  BY TakeSlotTypes, TakeSlotQueue DEF IInv
<1>2. PICK h \in Req : h = Head(queue) /\ at[h] \in {"create", "job"}
  BY LenProperties, EmptySeq, HeadTailProperties DEF IInv, TypeOK, TakeSlot, QueueInv
<1>3. /\ at'[h] = IF at[h] = "create" THEN "creating" ELSE "opening"
      /\ \A s \in Req \ {h} : at'[s] = at[s]
      /\ UNCHANGED <<req, cwd, found, pending, server, history>>
  BY <1>2 DEF IInv, TypeOK, TakeSlot
<1>4. Known(h)
  BY <1>2 DEF IInv
<1>5. Known(h)'
  <2>1. /\ at'[h] = IF at[h] = "create" THEN "creating" ELSE "opening"
        /\ UNCHANGED <<req, cwd, found, cwdOf, resumed, started, lacking, nameless, strayed>>
    BY <1>3 DEF server, history
  <2>2. Where(h)'
    BY <1>2, <1>4, <2>1 DEF Known, Where, JobSteps
  <2>3. Directory(h)'
    BY <1>2, <1>4, <2>1 DEF Known, Directory
  <2>4. Holds(h)'
    BY <1>2, <1>4, <2>1 DEF Known, Holds, Resolved, JobSteps
  <2>5. Starts(h)'
    BY <1>2, <1>4, <2>1 DEF Known, Starts, JobSteps
  <2> QED BY <2>2, <2>3, <2>4, <2>5 DEF Known
<1>6. Kept /\ \A s \in Req \ {h} : Untouched(s)
  BY <1>3 DEF Kept, Untouched, server, history
<1>7. \A s \in Req : Known(s)'
  BY <1>5, <1>6, OneGoes
<1> QED BY <1>1, <1>7 DEF IInv

-----------------------------------------------------------------------------
(* Other clients, and the theorems.                                        *)

LEMMA OthersInv ==
  ASSUME IInv, \/ \E d \in Dir : OtherStart(d)
               \/ \E t \in Thread : Forget(t) \/ \E d \in Dir : OtherTurn(t, d)
  PROVE  IInv'
<1>1. UNCHANGED <<gateway, resumed, started, lacking, nameless>>
  BY DEF OtherStart, Forget, OtherTurn, history
<1>2. /\ Kept /\ cwdOf' \in [Thread -> Dir \cup {None}]
      /\ runnable' \subseteq Thread /\ strayed' \subseteq Req
  <2>1. CASE \E d \in Dir : OtherStart(d)
    BY <2>1 DEF OtherStart, Unused, Kept, IInv, TypeOK, history
  <2>2. CASE \E t \in Thread : Forget(t)
    BY <2>2 DEF Forget, Kept, IInv, TypeOK, history
  <2>3. CASE \E t \in Thread : \E d \in Dir : OtherTurn(t, d)
    BY <2>3, RunTurnKept DEF OtherTurn, IInv
  <2> QED BY <2>1, <2>2, <2>3
<1>3. InSlot' = InSlot
  BY <1>1 DEF InSlot, gateway
<1>4. TypeOK' /\ QueueInv'
  BY <1>1, <1>2, <1>3 DEF IInv, TypeOK, QueueInv, gateway
<1> QED BY <1>1, <1>2, <1>4, NoneGoes DEF IInv, gateway

LEMMA StepInv == IInv /\ [Next]_vars => IInv'
<1> SUFFICES ASSUME IInv, [Next]_vars PROVE IInv'
  OBVIOUS
<1>1. ASSUME NEW r \in Req, NEW q \in Asked, Arrive(r, q) PROVE IInv'
  BY <1>1, ArriveInv
<1>2. ASSUME NEW r \in Req, Handle(r) PROVE IInv'
  <2>1. RpcFails(r) => IInv'
    BY FailInv DEF RpcFails, Rpc
  <2> QED BY <1>2, <2>1, ProjectInv, ListInv, ResumeInv, TurnsInv, ReadThreadInv, SkillInv,
             JobInv DEF Handle
<1>3. ASSUME NEW r \in Req, Work(r) PROVE IInv'
  <2>1. StartFails(r) => IInv'
    BY FailInv DEF StartFails
  <2> QED BY <1>3, <2>1, StartThreadInv, JobInv DEF Work
<1>4. ASSUME NEW r \in Req, Message(r) \/ Drain(r) \/ Ask(r) \/ Decide(r) \/ EndJob(r)
      PROVE  IInv'
  BY <1>4, EventsInv, JobInv
<1>5. CASE TakeSlot
  BY <1>5, TakeSlotInv
<1>6. CASE \/ \E d \in Dir : OtherStart(d)
           \/ \E t \in Thread : Forget(t) \/ \E d \in Dir : OtherTurn(t, d)
  BY <1>6, OthersInv
<1>7. CASE UNCHANGED vars
  <2>1. InSlot' = InSlot
    BY <1>7 DEF InSlot, vars, gateway
  <2>2. TypeOK' /\ QueueInv'
    BY <1>7, <2>1 DEF IInv, TypeOK, QueueInv, vars, gateway, server, history
  <2> QED BY <1>7, <2>2, NoneGoes DEF IInv, Kept, vars, gateway, server, history
<1> QED BY <1>1, <1>2, <1>3, <1>4, <1>5, <1>6, <1>7 DEF Next

THEOREM Invariant == Spec => []IInv
BY InitInv, StepInv, PTL DEF Spec

\* The awaits, the queue and the executor's threads fit together
\* (_execute_codex_with_updates, :2385): Spec => []TypeOK.
THEOREM TypeCorrect == Spec => []TypeOK
<1>1. IInv => TypeOK
  BY DEF IInv
<1> QED BY <1>1, Invariant, PTL

\* Every job that named no thread runs on one that was resumed or started for it, and
\* of its directory, unless a turn has moved it since the handler learned of it; so
\* does every reply of context/switch and threads/model name one (:666, :2136, :2095).
THEOREM EveryThreadVouchedFor == Spec => []ThreadVouchedFor
<1>1. IInv => ThreadVouchedFor
  <2> SUFFICES ASSUME IInv, NEW r \in Req, Resolved(r)
               PROVE  /\ found[r] \in resumed[r] \cup started[r]
                      /\ r \in strayed \/ cwdOf[found[r]] = Target(r)
    BY DEF ThreadVouchedFor
  <2> QED BY DEF IInv, Known, Directory, Holds, Resolved, Target
<1> QED BY <1>1, Invariant, PTL

\* A request starts one thread at most.  A job that would reuse one starts it only
\* when the server had none to resume, context/switch also when the result of a
\* resume names no thread (:705-727, :2163-2225).
THEOREM NoThreadInVain == Spec => []NoNeedlessThread
<1>1. IInv => NoNeedlessThread
  <2> SUFFICES ASSUME IInv, NEW r \in Req
               PROVE  /\ Cardinality(started[r]) <= 1
                      /\ started[r] # {} /\ req[r].what = "job" => r \in lacking
                      /\ started[r] # {} /\ req[r].what = "switch" => r \in lacking \cup nameless
    BY DEF NoNeedlessThread
  <2>1. Starts(r)
    BY DEF IInv, Known
  <2>2. Cardinality(started[r]) <= 1
    BY <2>1, FS_EmptySet, FS_Singleton DEF Starts
  <2> QED BY <2>1, <2>2 DEF Starts
<1> QED BY <1>1, Invariant, PTL
=============================================================================
