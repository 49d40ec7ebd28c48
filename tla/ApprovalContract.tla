---------------------------- MODULE ApprovalContract ----------------------------
(***************************************************************************)
(* What the approval handshake promises the operator of a job, whatever    *)
(* the threads behind it do: one request is asked at a time, a decision is *)
(* recorded for a request he was asked, every request is answered at most  *)
(* once, and the answer is what he decided for it, or for the session of a *)
(* similar request that was itself allowed to proceed.                     *)
(*                                                                         *)
(* The places of the two threads, the flag, the published request, the     *)
(* parked decisions and the list of policies are not part of the promise.  *)
(***************************************************************************)
CONSTANTS
  Request,   \* the server requests
  Key,       \* what makes two of them similar
  Nothing    \* no request

VARIABLES
  asking,    \* the request the operator is asked
  said,      \* the decisions acknowledged, per request
  told       \* what the app-server was told about each

vars == <<asking, said, told>>

Allow    == {"approve_once", "approve_all_similar"}
Refuse   == {"deny", "guidance"}
Decision == Allow \cup Refuse

Init ==
  /\ asking = Nothing
  /\ said = [r \in Request |-> {}]
  /\ told = [r \in Request |-> "pending"]

Ask(r) ==
  /\ asking = Nothing
  /\ told[r] = "pending"
  /\ asking' = r
  /\ UNCHANGED <<said, told>>

\* A decision may come late, or twice; it never comes before its request.
Acknowledge(r, d) ==
  /\ r = asking \/ told[r] # "pending"
  /\ said' = [said EXCEPT ![r] = @ \cup {d}]
  /\ UNCHANGED <<asking, told>>

Answer(r, verdict) ==
  /\ asking = r
  /\ told[r] = "pending"
  /\ \/ verdict = "proceed" /\ said[r] \cap Allow # {}
     \/ verdict = "decline" /\ said[r] \cap Refuse # {}
  /\ told' = [told EXCEPT ![r] = verdict]
  /\ asking' = Nothing
  /\ UNCHANGED said

\* Only an approval for the session reaches beyond its own request.
ProceedAsBefore(r) ==
  /\ asking = Nothing
  /\ told[r] = "pending"
  /\ \E s \in Request : /\ Key[s] = Key[r]
                        /\ "approve_all_similar" \in said[s]
                        /\ told[s] = "proceed"
  /\ told' = [told EXCEPT ![r] = "proceed"]
  /\ UNCHANGED <<asking, said>>

Next ==
  \E r \in Request :
    \/ Ask(r)
    \/ \E d \in Decision : Acknowledge(r, d)
    \/ \E verdict \in {"proceed", "decline"} : Answer(r, verdict)
    \/ ProceedAsBefore(r)

Spec == Init /\ [][Next]_vars
=============================================================================
