------------------------------- MODULE MCGate -------------------------------
(***************************************************************************)
(* Two configure calls at a time, with every kind of document.             *)
(***************************************************************************)
EXTENDS Gate

CONSTANTS c1, c2

MCHandles == 1..4
MCCallers == {c1, c2}
AllDocs   == Kinds

=============================================================================
