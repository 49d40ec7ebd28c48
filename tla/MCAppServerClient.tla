--------------------------- MODULE MCAppServerClient ---------------------------
(***************************************************************************)
(* The server numbers its requests 3 and 7.  The third request of a job    *)
(* also has the id 3, so the same number is used by both sides.  One turn  *)
(* of another connection is enough to put its end and what it asks between *)
(* any two messages of the conversation.  Other notifications come for     *)
(* ever, two of them under way at most.                                    *)
(***************************************************************************)
EXTENDS AppServerClient
================================================================================
