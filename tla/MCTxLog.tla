------------------------------ MODULE MCTxLog -------------------------------
(***************************************************************************)
(* Two callers and two requests whose write sets meet in one row; the one  *)
(* writes that row twice.                                                  *)
(***************************************************************************)
EXTENDS LogCheck

CONSTANTS c1, c2, q1, q2, r1, r2, a, b

MCCallers  == {c1, c2}
MCRequests == {q1, q2}
MCRows     == {r1, r2}
MCValues   == {a, b}
MCWrites   == [q \in MCRequests |->
                IF q = q1 THEN <<<<r1, a>>, <<r2, a>>, <<r1, b>>>> ELSE <<<<r1, a>>, <<r2, b>>>>]

=============================================================================
