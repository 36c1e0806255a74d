------------------------------- MODULE MCBoot -------------------------------
(***************************************************************************)
(* Two configure calls at a time, with good and bad documents.  The second *)
(* pack changes a queryable property, the third only something else in the *)
(* schema and the policy; the first one seeds a record.                    *)
(***************************************************************************)
EXTENDS Boot

CONSTANTS o1, o2, k1, k2, c1, c2

MCPacks == 1..3
MCDoc   == <<"plain", "indexed", "indexed-titled">>
MCFp    == <<"f1", "f2", "f2">>
MCPol   == <<"keep", "keep", "shorter">>
MCIds   == {o1, o2}
MCKeys  == {k1, k2}
MCSeeds == <<<<k1>>, <<>>, <<>>>>

MCCallers == {c1, c2}
MCHandles == 1..4
MCDocs    == {"good", "badpack", "badadmins"}

\* What RequestsMeetThePack asks of the packs.
ASSUME PacksGoForward == ForwardOnly

=============================================================================
