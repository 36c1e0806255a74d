----------------------------- MODULE MCStandby ------------------------------
(***************************************************************************)
(* Three leaf positions in pages of one, two commits, on a standby whose   *)
(* volume was empty or already holds a leaf of its own.                    *)
(***************************************************************************)
EXTENDS Standby

MCPaths   == 1..3
MCFirst   == <<"a", "absent", "a">>
MCValues  == {"a", "b"}
MCEmpty   == [p \in MCPaths |-> "absent"]
MCStarted == {MCEmpty, [MCEmpty EXCEPT ![2] = "own"]}

=============================================================================
