----------------------------- MODULE MCProfiles -----------------------------
(***************************************************************************)
(* Two people, two calls in flight, two names.                             *)
(***************************************************************************)
EXTENDS Profiles

CONSTANTS ann, bob, c1, c2, n1, n2

MCSubs    == {ann, bob}
MCCallers == {c1, c2}
MCNames   == {n1, n2}

=============================================================================
