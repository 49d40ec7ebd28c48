---------------------------- MODULE MCProgressFeed -----------------------------
(***************************************************************************)
(* Two clients wait for one event, which is what they contend for.  With   *)
(* two rows kept and pages of two, four milestones trim the list twice,    *)
(* and a page is cut when the copy was made before the trim.               *)
(***************************************************************************)
EXTENDS ProgressFeed
================================================================================
