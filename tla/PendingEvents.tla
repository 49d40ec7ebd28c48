----------------------------- MODULE PendingEvents ------------------------------
(***************************************************************************)
(* The undrained events of jobs, as the guard of a new job and the status  *)
(* of a job count them (codex_gateway.py:609, cgw/jobs.py:45).  While a    *)
(* job runs, anything may happen to their number: a message adds to it, a  *)
(* trim or a reader lowers it, and the lost updates of the two raise it    *)
(* again.  Once the job is over it only comes down, and after its notice   *)
(* was sent it is zero for good.                                           *)
(*                                                                         *)
(* EventBuffer implements this for the buffer of one job, step by step;    *)
(* JobRegistry relies on it for all jobs.                                  *)
(***************************************************************************)
EXTENDS Naturals

CONSTANT Job

VARIABLES
  phase,     \* how far each job is
  pending    \* its undrained events

vars == <<phase, pending>>

Phase == {"producing", "over", "noticed"}

Init ==
  /\ phase = [j \in Job |-> "producing"]
  /\ pending = [j \in Job |-> 0]

\* What one step may do to one job.
Produce(j) ==
  /\ phase[j] = "producing"
  /\ phase'[j] = "producing"

\* The pruning at its end may take a job out of sight, and its events with it.
Finish(j) ==
  /\ phase[j] = "producing"
  /\ phase'[j] = "over"
  /\ pending'[j] <= pending[j]

Drain(j) ==
  /\ phase[j] \in {"over", "noticed"}
  /\ phase'[j] = phase[j]
  /\ pending'[j] <= pending[j]

Notice(j) ==
  /\ phase[j] = "over"
  /\ phase'[j] = "noticed"
  /\ pending'[j] = 0

\* One response carries the notices of several jobs, so the jobs move together.
Next ==
  /\ phase' \in [Job -> Phase]
  /\ pending' \in [Job -> Nat]
  /\ \A j \in Job : Produce(j) \/ Finish(j) \/ Drain(j) \/ Notice(j)

Spec == Init /\ [][Next]_vars
=============================================================================
