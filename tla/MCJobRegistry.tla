----------------------------- MODULE MCJobRegistry -----------------------------
(***************************************************************************)
(* Three jobs in a table with room for one, so that creation overflows it, *)
(* one executor thread, so that jobs queue for it, and a clock of two      *)
(* values with a TTL of zero, so that an ended job expires at the first    *)
(* tick. One thread suffices: jobs name it or none, a message puts a job   *)
(* on it, and a result takes a job off it.                                 *)
(***************************************************************************)
EXTENDS JobRegistry
================================================================================
