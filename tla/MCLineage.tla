----------------------------- MODULE MCLineage ------------------------------
(***************************************************************************)
(* Two kinds of commit, so that two histories of one length can differ.    *)
(***************************************************************************)
EXTENDS Lineage, TLC

CONSTANTS c1, c2

MCContents == {c1, c2}
Symmetry   == Permutations(MCContents)

=============================================================================
