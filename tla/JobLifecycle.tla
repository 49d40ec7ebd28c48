------------------------------ MODULE JobLifecycle ------------------------------
(***************************************************************************)
(* What the job endpoints promise a client about each job it created,      *)
(* whatever the gateway does inside: the status it can observe moves along *)
(* the edges below and along no other.  A job id that was pruned answers   *)
(* 404 for good.                                                           *)
(***************************************************************************)
CONSTANT Job

VARIABLE view    \* what GET /codex/jobs/{job_id} shows of each job

View == {"unknown", "queued", "running", "waiting_approval",
         "completed", "failed", "gone"}

Edge ==
  { <<"unknown", "queued">>,
    <<"queued", "running">>, <<"queued", "completed">>, <<"queued", "failed">>,
    <<"running", "waiting_approval">>, <<"waiting_approval", "running">>,
    <<"running", "completed">>, <<"running", "failed">>,
    <<"queued", "gone">>, <<"running", "gone">>, <<"waiting_approval", "gone">>,
    <<"completed", "gone">>, <<"failed", "gone">> }

Init == view = [j \in Job |-> "unknown"]

\* One request may show several jobs gone at once, so the jobs move together.
Next ==
  /\ view' \in [Job -> View]
  /\ \A j \in Job : view'[j] = view[j] \/ <<view[j], view'[j]>> \in Edge

Spec == Init /\ [][Next]_view
=============================================================================
