----------------------------- MODULE MCMembers ------------------------------
(***************************************************************************)
(* Two people, an administrator role and two roles that may not be held    *)
(* together, one of which the identity provider gives one of them.  The    *)
(* clock counts in weeks: a reminder is due after one, an invitation lives *)
(* less than one, or one whole one and no more.                            *)
(***************************************************************************)
EXTENDS Members

CONSTANTS ann, bob, i1

MCSubs         == {ann, bob}
MCRoles        == {"operator", "registrar", "auditor"}
MCMembersRoles == {"operator"}
MCIncompatible == {<<"registrar", "auditor">>}
MCAdmins       == {ann}
MCInvites      == {i1}
MCLifetimes    == {0, 1}
MCTokenRoles   == [s \in MCSubs |-> IF s = bob THEN {"registrar"} ELSE {}]

=============================================================================
