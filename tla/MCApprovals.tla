------------------------------ MODULE MCApprovals ------------------------------
(***************************************************************************)
(* Three requests of one connection.  The first two share a policy key and *)
(* differ in the amendment they propose; the third has the same type and   *)
(* another summary, so that a policy key that forgets the summary shows.   *)
(***************************************************************************)
EXTENDS Approvals

MCRequest ==
  { [id |-> 1, request_type |-> "command", head |-> "ls", amendment |-> FALSE],
    [id |-> 2, request_type |-> "command", head |-> "ls", amendment |-> TRUE],
    [id |-> 3, request_type |-> "command", head |-> "rm", amendment |-> FALSE] }

\* Two are enough for liveness: the second is announced after the first, or is
\* answered by the policy the first left.
MCTwo == {r \in MCRequest : r.id # 3}
=============================================================================
