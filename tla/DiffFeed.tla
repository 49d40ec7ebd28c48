-------------------------------- MODULE DiffFeed --------------------------------
(***************************************************************************)
(* The diffs of one job.                                                   *)
(*                                                                         *)
(* The worker thread registers each diff found in a message of the         *)
(* app-server (_register_diff_update, codex_gateway.py:508): the latest    *)
(* text in any mode and, in mode "live", a numbered row of a list trimmed  *)
(* to 200.  The event loop serves GET .../diff/live (:2793), which walks   *)
(* that list, and GET .../diff/final (:2837), and runs the end of the job  *)
(* (:2572), after the worker returned.  None of the three awaits, so each  *)
(* is alone on the loop; the worker runs between any two of their steps.   *)
(*                                                                         *)
(* A diff is the number of its arrival, 0 is no diff.  Texts, their        *)
(* lengths and the split view play no part, nor do the hint and            *)
(* diff_live_available, which no step reads.                               *)
(***************************************************************************)
EXTENDS Naturals, Sequences

CONSTANTS
  Cap,         \* rows kept, 200 in the code (:528)
  MaxDiffs     \* bound: diffs the app-server sends

ASSUME DiffAssumption == Cap \in Nat \ {0} /\ MaxDiffs \in Nat

VARIABLES
  mode,        \* job["diff_mode"]
  status,      \* job["status"], once the job runs
  pc,          \* where the worker stands in _register_diff_update
  arrived,     \* diffs the app-server sent so far
  latest,      \* job["latest_diff_text"]
  version,     \* job["diff_live_version"]
  updates,     \* job["diff_live_updates"], rows of a version and a diff
  final,       \* job["final_diff_text"] and diff_final_available: 0 is not available
  diagnostic,  \* job["diagnostic_diff_available"]
  rpc,         \* where diff/live stands
  since,       \* its since_version
  index,       \* the row its iterator reads next
  page,        \* the rows it collected
  complete,    \* history: the newest version registered when it began
  held,        \* the newest version the client was given
  fetched      \* the diff the last diff/final returned, 0 before

feedVars   == <<mode, status, arrived, latest, version, updates, final, diagnostic>>
liveVars   == <<rpc, since, index, page, complete>>
clientVars == <<held, fetched>>
vars       == <<feedVars, pc, liveVars, clientVars>>

Row == [version : Nat, diff : Nat]

\* Versions whose registration returned.
Registered == IF pc \in {"append", "trim"} THEN version - 1 ELSE version

Init ==
  /\ mode \in {"live", "final_only", "off"} /\ status = "running" /\ pc = "idle"
  /\ arrived = 0 /\ latest = 0 /\ version = 0 /\ updates = <<>>
  /\ final = 0 /\ diagnostic = FALSE
  /\ rpc = "idle" /\ since = 0 /\ index = 1 /\ page = <<>> /\ complete = 0
  /\ held = 0 /\ fetched = 0

-----------------------------------------------------------------------------
(* The worker thread: _register_diff_update.                               *)

\* Mutation: the first diff is kept as the latest.
CaptureFirst ==
  /\ pc = "idle" /\ status = "running" /\ arrived < MaxDiffs
  /\ arrived' = arrived + 1
  /\ latest' = IF latest = 0 THEN arrived' ELSE latest
  /\ pc' = IF mode = "live" THEN "number" ELSE "idle"
  /\ UNCHANGED <<mode, status, version, updates, final, diagnostic, liveVars, clientVars>>

Capture ==
  /\ pc = "idle" /\ status = "running" /\ arrived < MaxDiffs
  /\ arrived' = arrived + 1
  /\ latest' = arrived'
  /\ pc' = IF mode = "live" THEN "number" ELSE "idle"
  /\ UNCHANGED <<mode, status, version, updates, final, diagnostic, liveVars, clientVars>>

\* Mutation: the version is counted by the rows in the list.
NumberByLength ==
  /\ pc = "number"
  /\ version' = Len(updates) + 1
  /\ pc' = "append"
  /\ UNCHANGED <<mode, status, arrived, latest, updates, final, diagnostic, liveVars,
                 clientVars>>

Number ==
  /\ pc = "number"
  /\ version' = version + 1
  /\ pc' = "append"
  /\ UNCHANGED <<mode, status, arrived, latest, updates, final, diagnostic, liveVars,
                 clientVars>>

\* Mutation: the text is appended without its version.
AppendText ==
  /\ pc = "append"
  /\ updates' = Append(updates, [diff |-> latest])
  /\ pc' = IF Len(updates') > Cap THEN "trim" ELSE "idle"
  /\ UNCHANGED <<mode, status, arrived, latest, version, final, diagnostic, liveVars,
                 clientVars>>

AppendRow ==
  /\ pc = "append"
  /\ updates' = Append(updates, [version |-> version, diff |-> latest])
  /\ pc' = IF Len(updates') > Cap THEN "trim" ELSE "idle"
  /\ UNCHANGED <<mode, status, arrived, latest, version, final, diagnostic, liveVars,
                 clientVars>>

\* Mutation: one row too many is deleted, as if the new one were still to come.
TrimEarly ==
  /\ pc = "trim"
  /\ updates' = SubSeq(updates, Len(updates) - Cap + 2, Len(updates))
  /\ pc' = "idle"
  /\ UNCHANGED <<mode, status, arrived, latest, version, final, diagnostic, liveVars,
                 clientVars>>

Trim ==
  /\ pc = "trim"
  /\ updates' = SubSeq(updates, Len(updates) - Cap + 1, Len(updates))
  /\ pc' = "idle"
  /\ UNCHANGED <<mode, status, arrived, latest, version, final, diagnostic, liveVars,
                 clientVars>>

-----------------------------------------------------------------------------
(* The event loop: the end of _run_job, diff/live and diff/final.          *)

\* Mutation: only mode "live" gets a final diff.
FinishLiveOnly(outcome) ==
  /\ pc = "idle" /\ rpc = "idle" /\ status = "running"
  /\ status' = outcome
  /\ final' = IF outcome = "completed" /\ mode = "live" THEN latest ELSE final
  /\ diagnostic' = (outcome = "failed" /\ latest # 0)
  /\ UNCHANGED <<mode, pc, arrived, latest, version, updates, liveVars, clientVars>>

Finish(outcome) ==
  /\ pc = "idle" /\ rpc = "idle" /\ status = "running"
  /\ status' = outcome
  /\ final' = IF outcome = "completed" /\ mode # "off" THEN latest ELSE final
  /\ diagnostic' = (outcome = "failed" /\ latest # 0)
  /\ UNCHANGED <<mode, pc, arrived, latest, version, updates, liveVars, clientVars>>

\* In the other modes the reply is empty (:2805) and nothing changes.
OpenLive(s) ==
  /\ rpc = "idle" /\ mode = "live"
  /\ rpc' = "scan"
  /\ since' = s /\ index' = 1 /\ page' = <<>>
  /\ complete' = Registered
  /\ UNCHANGED <<feedVars, pc, clientVars>>

\* Mutation: the first row after since is taken for the last one seen.
ScanOffByOne ==
  /\ rpc = "scan" /\ index <= Len(updates)
  /\ index' = index + 1
  /\ page' = IF updates[index].version > since + 1 THEN Append(page, updates[index])
                                                   ELSE page
  /\ UNCHANGED <<feedVars, pc, rpc, since, complete, clientVars>>

Scan ==
  /\ rpc = "scan" /\ index <= Len(updates)
  /\ index' = index + 1
  /\ page' = IF updates[index].version > since THEN Append(page, updates[index])
                                               ELSE page
  /\ UNCHANGED <<feedVars, pc, rpc, since, complete, clientVars>>

Exhausted ==
  /\ rpc = "scan" /\ index > Len(updates)
  /\ rpc' = "reply"
  /\ UNCHANGED <<feedVars, pc, since, index, page, complete, clientVars>>

Newest == IF page = <<>> THEN 0 ELSE page[Len(page)].version

Reply ==
  /\ rpc = "reply"
  /\ rpc' = "idle"
  /\ held' = IF Newest > held THEN Newest ELSE held
  /\ UNCHANGED <<feedVars, pc, since, index, page, complete, fetched>>

\* 409 unless one of the two is available; "final_diff_text or latest_diff_text".
GetFinal ==
  /\ rpc = "idle"
  /\ final # 0 \/ diagnostic
  /\ fetched' = IF final # 0 THEN final ELSE latest
  /\ UNCHANGED <<feedVars, pc, liveVars, held>>

WorkerStep == Number \/ AppendRow \/ Trim
LoopStep   == Scan \/ Exhausted \/ Reply
End        == \E outcome \in {"completed", "failed"} : Finish(outcome)

Next ==
  \/ Capture \/ WorkerStep
  \/ End
  \/ \E s \in 0..MaxDiffs : OpenLive(s)
  \/ LoopStep
  \/ GetFinal

Spec == Init /\ [][Next]_vars

(* Threads run on, jobs end (JobRegistry!EveryJobEnds), and the client does *)
(* as README.md:304-305 says: it asks diff/live from the row it has when    *)
(* diff_live_version is higher, and diff/final once it is available.        *)
FollowVersion == held < version /\ OpenLive(held)

ClientSpec ==
  /\ Spec /\ WF_vars(WorkerStep) /\ WF_vars(LoopStep)
  /\ SF_vars(End) /\ SF_vars(FollowVersion) /\ SF_vars(GetFinal)

-----------------------------------------------------------------------------
(* Properties.                                                             *)

\* Diffs and versions are numbers, the list holds rows.
TypeOK ==
  /\ mode \in {"live", "final_only", "off"}
  /\ status \in {"running", "completed", "failed"}
  /\ pc \in {"idle", "number", "append", "trim"}
  /\ arrived \in Nat /\ latest \in Nat /\ version \in Nat
  /\ updates \in Seq(Row)
  /\ final \in Nat /\ diagnostic \in BOOLEAN
  /\ rpc \in {"idle", "scan", "reply"}
  /\ since \in Nat /\ index \in Nat \ {0} /\ page \in Seq(Row)
  /\ complete \in Nat /\ held \in Nat /\ fetched \in Nat

\* diff/live "returns only incremental diff updates after since_version"
\* (README.md:335).  It walks the list itself (:2817) while the worker deletes its
\* first rows (:529), so it may jump over a row; but it never misses the newest diff
\* whose registration had returned when the request came, unless for a newer one.
\* Each diff is a whole patch, so this one is what the client needs.
NewestReturned ==
  rpc = "reply" => complete <= since \/ complete <= Newest

\* A row carries the diff that came as its version (:516-526), also in a reply: the
\* version is counted and the text is read in two steps, and the list is trimmed
\* while it is read.
RowsMatch ==
  /\ \A i \in 1..Len(updates) : updates[i].diff = updates[i].version
  /\ \A i \in 1..Len(page)    : page[i].diff = page[i].version

\* diff/final gives the last diff of the job, also as the diagnostic diff of a failed
\* one, and so never an older one than diff/live gave before.
FinalIsLast ==
  fetched # 0 => fetched = arrived /\ held <= fetched

\* A client in mode "live" that goes on from the newest row it holds comes to hold
\* every diff or a newer one: no race leaves it behind for good.
LiveCaughtUp ==
  \A n \in 1..MaxDiffs : (mode = "live" /\ arrived = n) ~> (held >= n)

\* Where the mode asks for a final diff, or the job failed, a client that waits for it
\* gets it (README.md:305, 337-338).
FinalReaches ==
  (status # "running" /\ arrived > 0 /\ (mode # "off" \/ status = "failed"))
    ~> (fetched = arrived)
=============================================================================
