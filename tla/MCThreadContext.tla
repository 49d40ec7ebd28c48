--------------------------- MODULE MCThreadContext ---------------------------
(***************************************************************************)
(* Two requests and one thread of the executor.  The third thread id is    *)
(* for other clients.  Ids are alike, so the clients name the first only;  *)
(* a job or a skill that names a thread and a directory too is checked for *)
(* one directory, and another client's turn takes that thread to the other.*)
(***************************************************************************)
EXTENDS ThreadContext
CONSTANTS t1, d1, d2

MCForeign == {<<t1, d2>>}

MCAsked == {q \in Request : /\ q.thread \in {None, t1}
                            /\ q.thread = t1 => q.cwd \in {None, d1}}
==============================================================================
