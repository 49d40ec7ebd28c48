------------------------------ MODULE MCDiffFeed ------------------------------
(***************************************************************************)
(* A list of two rows and up to five diffs: it is trimmed three times, and *)
(* one poll can meet more than one trim.                                   *)
(***************************************************************************)
EXTENDS DiffFeed
=============================================================================
