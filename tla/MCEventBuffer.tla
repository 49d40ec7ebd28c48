----------------------------- MODULE MCEventBuffer -----------------------------
(***************************************************************************)
(* A buffer of two rows and up to five messages: the list is trimmed three *)
(* times, and a page of up to three rows can span a trim.                  *)
(***************************************************************************)
EXTENDS EventBuffer
=============================================================================
