---------------------------- MODULE MembersProofs ---------------------------
(***************************************************************************)
(* For any people, roles, invitations and lifetimes: a register that can   *)
(* be administered stays so, no two roles that exclude each other meet in  *)
(* one person, an invitation ends once and for good, its recipient is      *)
(* forgotten with it, and a recorded reminder is not repeated.             *)
(***************************************************************************)
EXTENDS Members, TLAPS

\* An identifier nobody has minted an invitation for has no recipient.
UnmintedBare == \A i \in Invites : invites[i] = None => recipient[i] = "none"

\* What the pass still has to send was not recorded as sent, and what it sent
\* is no longer to be sent.
PassUnrecorded ==
    /\ \A i \in due : ~reminded[i]
    /\ due \cap unrecorded = {}

\* The inductive invariant.
Inv == TypeOK /\ NoClash /\ RecipientsForgotten /\ UnmintedBare /\ PassUnrecorded

\* A minted invitation is a row.
LEMMA MintedIsRow ==
    ASSUME TypeOK, NEW i \in Invites, invites[i] # None
    PROVE  invites[i] \in InviteRows
  BY DEF TypeOK

\* decodeInvite, case by case.
LEMMA StatusCases ==
    ASSUME NEW i
    PROVE  /\ Status(i) = "revoked" <=> invites[i].revoked
           /\ Status(i) = "used" <=> ~invites[i].revoked /\ invites[i].usedBy # None
           /\ Status(i) = "expired" <=>
                ~invites[i].revoked /\ invites[i].usedBy = None /\ now > invites[i].expires
           /\ Status(i) = "open" <=>
                ~invites[i].revoked /\ invites[i].usedBy = None /\ ~(now > invites[i].expires)
           /\ Status(i) \in {"revoked", "used", "expired", "open"}
  BY DEF Status

----------------------------------------------------------------------------
(* Membership.                                                             *)

\* Adding a role that may be granted creates no clash.
LEMMA GrantKeepsNoClash ==
    ASSUME TypeOK, NoClash, NEW s \in Subs, NEW r \in Roles, Grantable(s, r),
           members' = members \cup {<<s, r>>}
    PROVE  members' \subseteq Subs \X Roles /\ NoClash'
  <1>1. members' \subseteq Subs \X Roles
    BY DEF TypeOK
  <1>2. \A t \in Subs : t # s => Held(t)' = Held(t)
    BY DEF Held
  <1>3. Held(s)' = Held(s) \cup {r}
    BY DEF Held
  <1>4. ASSUME NEW t \in Subs, NEW a \in Held(t)', NEW b \in Held(t)', a # b
        PROVE  ~Clash(a, b)
    <2>1. CASE t # s
      BY <1>2, <1>4, <2>1 DEF NoClash
    <2>2. CASE t = s
      BY <1>3, <1>4, <2>2 DEF NoClash, Grantable, Clash
    <2> QED
      BY <2>1, <2>2
  <1> QED
    BY <1>1, <1>4 DEF NoClash, Clash

\* Taking a role away creates none either.
LEMMA FewerRolesKeepNoClash ==
    ASSUME NoClash, members' \subseteq members
    PROVE  NoClash'
  BY DEF NoClash, Held, Clash

\* More grants never take the administration away.
LEMMA MoreRolesStayAdministered ==
    ASSUME members \subseteq members', Administered
    PROVE  Administered'
  BY DEF Administered, OtherAdministrators, Held

\* A revocation leaves the other administrators, whoever was counted when.
LEMMA RevocationStaysAdministered ==
    ASSUME NEW s \in Subs, NEW r \in Roles,
           r \in MembersRoles => OtherAdministrators(s) # {},
           members' = members \ {<<s, r>>}, Administered
    PROVE  Administered'
  <1>1. CASE r \in MembersRoles
    <2>1. PICK t \in Subs : t # s /\ Held(t) \cap MembersRoles # {}
      BY <1>1 DEF OtherAdministrators
    <2>2. Held(t)' = Held(t)
      BY <2>1 DEF Held
    <2> QED
      BY <2>1, <2>2, NoneIsNobody DEF Administered, OtherAdministrators
  <1>2. CASE r \notin MembersRoles
    <2>1. PICK t \in Subs : Held(t) \cap MembersRoles # {}
      BY DEF Administered, OtherAdministrators
    <2>2. Held(t)' \cap MembersRoles = Held(t) \cap MembersRoles
      BY <1>2 DEF Held
    <2> QED
      BY <2>1, <2>2, NoneIsNobody DEF Administered, OtherAdministrators
  <1> QED
    BY <1>1, <1>2

\* A step on membership alone.
LEMMA MembershipStep ==
    ASSUME Inv, UNCHANGED <<inviteVars, passVars, now>>,
           members' \subseteq Subs \X Roles, NoClash', cleared' \subseteq Subs,
           thisSecond' \subseteq {"grant", "revoke"} \X (Subs \cup {"configure"}) \X Subs \X Roles
    PROVE  Inv'
  <1> USE DEF Inv, inviteVars, passVars
  <1>1. TypeOK'
    BY DEF TypeOK
  <1>2. RecipientsForgotten'
    BY DEF RecipientsForgotten, Is, Status
  <1>3. UnmintedBare' /\ PassUnrecorded'
    BY DEF UnmintedBare, PassUnrecorded
  <1> QED
    BY <1>1, <1>2, <1>3

----------------------------------------------------------------------------
(* Invitations.                                                            *)

\* What a step does to invitations: an ended one keeps its status.
EndedKept ==
    \A i \in Invites : invites[i] # None /\ Status(i) # "open" => Status(i)' = Status(i)

\* A new invitation is open, and nothing else changes.
LEMMA NewInviteStep ==
    ASSUME Inv, NEW i \in Invites, NEW r \in Roles, NEW life \in Nat, NEW e \in BOOLEAN,
           NewInvite(i, r, life, e), cleared' \subseteq Subs
    PROVE  Inv' /\ EndedKept
  <1> USE DEF Inv
  <1> DEFINE row == [role |-> r, created |-> now, expires |-> now + life,
                     usedBy |-> None, revoked |-> FALSE]
  <1>1. /\ invites[i] = None /\ invites' = [invites EXCEPT ![i] = row]
        /\ recipient' = [recipient EXCEPT ![i] = IF e THEN "live" ELSE "none"]
        /\ UNCHANGED <<members, reminded, ring, passVars, thisSecond, now>>
    BY DEF NewInvite
  <1>2. row \in InviteRows
    BY DEF TypeOK, InviteRows
  <1>3. TypeOK'
    BY <1>1, <1>2 DEF TypeOK, passVars
  <1>4. \A j \in Invites : j # i => invites'[j] = invites[j] /\ recipient'[j] = recipient[j]
    BY <1>1 DEF TypeOK
  <1>5. invites'[i] = row /\ recipient'[i] \in {"live", "none"} /\ i \notin ring
    BY <1>1 DEF TypeOK, RecipientsForgotten, UnmintedBare
  <1>6. \A j \in Invites : j # i => Status(j)' = Status(j)
    BY <1>1, <1>4 DEF Status
  <1>7. Status(i)' = "open" \/ Status(i)' = "expired"
    BY <1>5 DEF Status
  <1>8. RecipientsForgotten'
    <2> SUFFICES ASSUME NEW j \in Invites
                 PROVE  /\ Is(j, "used")' \/ Is(j, "revoked")' => recipient'[j] # "live"
                        /\ j \in ring' => recipient'[j] = "live"
      BY DEF RecipientsForgotten
    <2>1. CASE j = i
      BY <1>1, <1>5, <1>7, <2>1 DEF Is
    <2>2. CASE j # i
      BY <1>1, <1>4, <1>6, <2>2 DEF Is, RecipientsForgotten
    <2> QED
      BY <2>1, <2>2
  <1>9. UnmintedBare'
    <2> SUFFICES ASSUME NEW j \in Invites, invites'[j] = None PROVE recipient'[j] = "none"
      BY DEF UnmintedBare
    <2>1. CASE j = i
      BY <1>2, <1>5, <2>1, NoneIsNoInvite
    <2>2. CASE j # i
      BY <1>4, <2>2 DEF UnmintedBare
    <2> QED
      BY <2>1, <2>2
  <1>10. NoClash' /\ PassUnrecorded'
    BY <1>1 DEF NoClash, Held, Clash, PassUnrecorded, passVars
  <1>11. EndedKept
    BY <1>1, <1>4, <1>6 DEF EndedKept
  <1> QED
    BY <1>3, <1>8, <1>9, <1>10, <1>11

\* An open invitation ends, used or withdrawn, and its recipient with it.
LEMMA EndInviteStep ==
    ASSUME Inv, NEW i \in Invites, NEW row \in InviteRows, Is(i, "open"),
           row.revoked \/ row.usedBy # None,
           invites' = [invites EXCEPT ![i] = row], ForgetRecipient({i}),
           members' \subseteq Subs \X Roles, NoClash', cleared' \subseteq Subs,
           UNCHANGED <<reminded, passVars, thisSecond, now>>
    PROVE  Inv' /\ EndedKept
  <1> USE DEF Inv
  <1>1. \A j \in Invites : j # i => invites'[j] = invites[j] /\ recipient'[j] = recipient[j]
    BY DEF TypeOK, ForgetRecipient
  <1>2. invites'[i] = row /\ recipient'[i] # "live" /\ i \notin ring' /\ ring' \subseteq ring
    BY DEF TypeOK, ForgetRecipient
  <1>3. TypeOK'
    BY DEF TypeOK, ForgetRecipient, passVars
  <1>4. \A j \in Invites : j # i => Status(j)' = Status(j)
    BY <1>1 DEF Status
  <1>5. RecipientsForgotten'
    <2> SUFFICES ASSUME NEW j \in Invites
                 PROVE  /\ Is(j, "used")' \/ Is(j, "revoked")' => recipient'[j] # "live"
                        /\ j \in ring' => recipient'[j] = "live"
      BY DEF RecipientsForgotten
    <2>1. CASE j = i
      BY <1>2, <2>1
    <2>2. CASE j # i
      BY <1>1, <1>2, <1>4, <2>2 DEF Is, RecipientsForgotten
    <2> QED
      BY <2>1, <2>2
  <1>6. UnmintedBare'
    BY <1>1, <1>2, NoneIsNoInvite DEF UnmintedBare
  <1>7. PassUnrecorded'
    BY DEF PassUnrecorded, passVars
  <1>8. EndedKept
    BY <1>4 DEF EndedKept, Is
  <1> QED
    BY <1>3, <1>5, <1>6, <1>7, <1>8

----------------------------------------------------------------------------
(* Every step.                                                             *)

\* What no step may do: the content of the three action properties.
Kept ==
    /\ Administered => Administered'
    /\ EndedKept
    /\ \A i \in Invites : reminded[i] => i \notin unrecorded' \ unrecorded

\* A step that leaves invitations, their recipients and the clock alone.
LEMMA SameInvites ==
    ASSUME UNCHANGED <<invites, now>>
    PROVE  (\A i \in Invites : Status(i)' = Status(i)) /\ EndedKept
  BY DEF Status, EndedKept

LEMMA GrantStep ==
    ASSUME Inv, NEW p \in Subs \cup {"configure"}, NEW s \in Subs, NEW r \in Roles,
           Grantable(s, r), Commit(<<"grant", p, s, r>>, members \cup {<<s, r>>}),
           cleared' \subseteq Subs, UNCHANGED <<inviteVars, passVars, now>>
    PROVE  Inv' /\ Kept
  <1>1. members' = members \/ members' = members \cup {<<s, r>>}
    BY DEF Commit
  <1>2. thisSecond' \subseteq {"grant", "revoke"} \X (Subs \cup {"configure"}) \X Subs \X Roles
    BY DEF Commit, Inv, TypeOK
  <1>3. members' \subseteq Subs \X Roles /\ NoClash'
    BY <1>1, GrantKeepsNoClash, FewerRolesKeepNoClash DEF Inv, TypeOK
  <1>4. Inv'
    BY <1>2, <1>3, MembershipStep
  <1>5. Kept
    BY <1>1, MoreRolesStayAdministered, SameInvites DEF Kept, inviteVars, passVars
  <1> QED
    BY <1>4, <1>5

LEMMA RevokeStep ==
    ASSUME Inv, NEW p \in Subs, NEW s \in Subs, NEW r \in Roles, RevokeRole(p, s, r)
    PROVE  Inv' /\ Kept
  <1>1. /\ members' = members \/ members' = members \ {<<s, r>>}
        /\ r \in MembersRoles => OtherAdministrators(s) # {}
        /\ cleared' = cleared \ {p} /\ UNCHANGED <<inviteVars, passVars, now>>
    BY DEF RevokeRole, Commit
  <1>2. thisSecond' \subseteq {"grant", "revoke"} \X (Subs \cup {"configure"}) \X Subs \X Roles
    BY DEF RevokeRole, Commit, Inv, TypeOK
  <1>3. members' \subseteq members
    BY <1>1
  <1>4. Inv'
    BY <1>1, <1>2, <1>3, MembershipStep, FewerRolesKeepNoClash DEF Inv, TypeOK
  <1>5. Administered => Administered'
    BY <1>1, RevocationStaysAdministered, MoreRolesStayAdministered
  <1>6. Kept
    BY <1>1, <1>5, SameInvites DEF Kept, inviteVars, passVars
  <1> QED
    BY <1>4, <1>6

LEMMA RedeemStep ==
    ASSUME Inv, NEW s \in Subs, NEW i \in Invites, RedeemInvite(s, i)
    PROVE  Inv' /\ Kept
  <1> DEFINE row == [invites[i] EXCEPT !.usedBy = s]
  <1>1. Is(i, "open") /\ invites[i] # None /\ invites[i] \in InviteRows
    BY MintedIsRow DEF RedeemInvite, OpenInvite, Is, Inv
  <1>2. invites[i].role \in Roles
    BY <1>1 DEF InviteRows
  <1>3. row \in InviteRows /\ row.usedBy = s /\ s # None
    BY <1>1, NoneIsNobody DEF InviteRows
  <1>4. invites' = [invites EXCEPT ![i] = row]
    BY DEF RedeemInvite
  <1>5. members' \subseteq Subs \X Roles /\ NoClash'
    BY <1>2, GrantKeepsNoClash DEF RedeemInvite, Inv
  <1>6. Inv' /\ EndedKept
    BY <1>1, <1>3, <1>4, <1>5, EndInviteStep DEF RedeemInvite, Inv, TypeOK
  <1>7. Kept
    BY <1>6, MoreRolesStayAdministered DEF Kept, RedeemInvite, passVars
  <1> QED
    BY <1>6, <1>7

LEMMA RevokeInviteStep ==
    ASSUME Inv, NEW p \in Subs, NEW i \in Invites, RevokeInvite(p, i)
    PROVE  Inv' /\ Kept
  <1> DEFINE row == [invites[i] EXCEPT !.revoked = TRUE]
  <1>1. Is(i, "open") /\ invites[i] \in InviteRows
    BY MintedIsRow DEF RevokeInvite, Is, Inv
  <1>2. row \in InviteRows /\ row.revoked
    BY <1>1 DEF InviteRows
  <1>3. invites' = [invites EXCEPT ![i] = row]
    BY DEF RevokeInvite
  <1>4. members' \subseteq Subs \X Roles /\ NoClash' /\ cleared' \subseteq Subs
    BY FewerRolesKeepNoClash DEF RevokeInvite, Inv, TypeOK
  <1>5. Inv' /\ EndedKept
    BY <1>1, <1>2, <1>3, <1>4, EndInviteStep DEF RevokeInvite
  <1>6. Kept
    BY <1>5, MoreRolesStayAdministered DEF Kept, RevokeInvite, passVars
  <1> QED
    BY <1>5, <1>6

\* The reminder pass, the forgetting of recipients and the restart leave
\* members and invitations alone.
LEMMA PassStep ==
    ASSUME Inv, UNCHANGED <<members, invites, thisSecond, now>>, cleared' \subseteq Subs,
           recipient' \in [Invites -> {"none", "live", "destroyed"}],
           reminded' \in [Invites -> BOOLEAN], ring' \subseteq Invites,
           due' \subseteq Invites, unrecorded' \subseteq Invites,
           \A i \in Invites : /\ recipient'[i] = "live" => recipient[i] = "live"
                              /\ recipient[i] = "none" => recipient'[i] = "none"
                              /\ i \in ring' => recipient'[i] = "live",
           PassUnrecorded',
           \A i \in Invites : reminded[i] => i \notin unrecorded' \ unrecorded
    PROVE  Inv' /\ Kept
  <1> USE DEF Inv
  <1>1. TypeOK'
    BY DEF TypeOK
  <1>2. \A i \in Invites : (Is(i, "used")' <=> Is(i, "used"))
                        /\ (Is(i, "revoked")' <=> Is(i, "revoked"))
    BY SameInvites DEF Is
  <1>3. RecipientsForgotten'
    BY <1>2 DEF RecipientsForgotten
  <1>4. NoClash' /\ UnmintedBare'
    BY FewerRolesKeepNoClash DEF UnmintedBare
  <1>5. Kept
    BY SameInvites, MoreRolesStayAdministered DEF Kept
  <1> QED
    BY <1>1, <1>3, <1>4, <1>5

LEMMA StepKeeps ==
    ASSUME Inv, [Next]_vars
    PROVE  Inv' /\ Kept
  <1>1. ASSUME NEW p \in Subs, Authorise(p) PROVE Inv' /\ Kept
    <2>1. UNCHANGED <<members, inviteVars, passVars, thisSecond, now>> /\ cleared' \subseteq Subs
      BY <1>1 DEF Authorise, Inv, TypeOK
    <2>2. Inv'
      BY <2>1, MembershipStep, FewerRolesKeepNoClash DEF Inv, TypeOK
    <2> QED
      BY <2>1, <2>2, SameInvites, MoreRolesStayAdministered DEF Kept, inviteVars, passVars
  <1>2. ASSUME NEW p \in Subs, NEW s \in Subs, NEW r \in Roles, GrantRole(p, s, r)
        PROVE  Inv' /\ Kept
    BY <1>2, GrantStep DEF GrantRole, Inv, TypeOK
  <1>3. ASSUME NEW p \in Subs, NEW s \in Subs, NEW r \in Roles, RevokeRole(p, s, r)
        PROVE  Inv' /\ Kept
    BY <1>3, RevokeStep
  <1>4. ASSUME NEW p \in Subs, NEW i \in Invites, NEW r \in Roles, NEW life \in Lifetimes,
               NEW e \in BOOLEAN, CreateInvite(p, i, r, life, e)
        PROVE  Inv' /\ Kept
    <2>1. NewInvite(i, r, life, e) /\ cleared' \subseteq Subs /\ life \in Nat
      BY <1>4, LifetimesAreLengths DEF CreateInvite, Inv, TypeOK
    <2>2. Inv' /\ EndedKept
      BY <2>1, NewInviteStep
    <2> QED
      BY <2>1, <2>2, MoreRolesStayAdministered DEF Kept, NewInvite, passVars
  <1>5. ASSUME NEW p \in Subs, NEW i \in Invites, RevokeInvite(p, i) PROVE Inv' /\ Kept
    BY <1>5, RevokeInviteStep
  <1>6. ASSUME NEW p \in Subs, NEW i \in Invites, RedeemInvite(p, i) PROVE Inv' /\ Kept
    BY <1>6, RedeemStep
  <1>7. ASSUME NEW p \in Subs, BootstrapMember(p) PROVE Inv' /\ Kept
    BY <1>7, GrantStep, RolesOfThePack DEF BootstrapMember, Inv, TypeOK
  <1>8. ASSUME NEW i \in Invites, BootstrapInvite(i) PROVE Inv' /\ Kept
    <2>1. NewInvite(i, AdminRole, 0, FALSE) /\ cleared' \subseteq Subs
      BY <1>8 DEF BootstrapInvite, Inv, TypeOK
    <2>2. Inv' /\ EndedKept
      BY <2>1, NewInviteStep, RolesOfThePack
    <2> QED
      BY <2>1, <2>2, MoreRolesStayAdministered DEF Kept, NewInvite, passVars
  <1>9. ASSUME NEW done \in SUBSET Invites, ForgetExpired(done) PROVE Inv' /\ Kept
    <2>1. /\ UNCHANGED <<members, invites, reminded, cleared, due, unrecorded, thisSecond, now>>
          /\ recipient' = [i \in Invites |-> IF i \in done /\ recipient[i] = "live"
                                             THEN "destroyed" ELSE recipient[i]]
          /\ ring' = ring \ done
      BY <1>9 DEF ForgetExpired, ForgetRecipient, passVars
    <2>2. \A i \in Invites : /\ recipient'[i] = "live" => recipient[i] = "live"
                             /\ recipient[i] = "none" => recipient'[i] = "none"
                             /\ i \in ring' => recipient'[i] = "live"
      BY <2>1 DEF Inv, RecipientsForgotten
    <2> QED
      BY <2>1, <2>2, PassStep DEF Inv, TypeOK, PassUnrecorded
  <1>10. ASSUME ListReminders PROVE Inv' /\ Kept
    <2>1. /\ UNCHANGED <<members, invites, recipient, reminded, cleared, unrecorded, thisSecond, now>>
          /\ unrecorded = {}
          /\ due' = {i \in Invites : Remindable(i)}
          /\ ring' = ring \cup {i \in Invites : Remindable(i)}
      BY <1>10 DEF ListReminders
    <2>2. \A i \in due' : i \in Invites /\ ~reminded[i] /\ recipient[i] = "live"
      BY <2>1 DEF Remindable
    <2>3. PassUnrecorded'
      BY <2>1, <2>2 DEF PassUnrecorded
    <2>4. ring' \subseteq Invites /\ \A i \in ring' : recipient[i] = "live"
      BY <2>1, <2>2 DEF Inv, TypeOK, RecipientsForgotten
    <2> QED
      BY <2>1, <2>2, <2>3, <2>4, PassStep DEF Inv, TypeOK
  <1>11. ASSUME NEW i \in Invites, SendReminder(i) PROVE Inv' /\ Kept
    <2>1. /\ UNCHANGED <<members, invites, recipient, reminded, ring, cleared, thisSecond, now>>
          /\ i \in due /\ due' = due \ {i} /\ unrecorded' \subseteq {i}
      BY <1>11 DEF SendReminder, inviteVars
    <2>2. ~reminded[i]
      BY <2>1 DEF Inv, PassUnrecorded
    <2>3. PassUnrecorded'
      BY <2>1 DEF Inv, PassUnrecorded
    <2>4. \A j \in Invites : reminded[j] => j \notin unrecorded' \ unrecorded
      BY <2>1, <2>2
    <2> QED
      BY <2>1, <2>3, <2>4, PassStep DEF Inv, TypeOK, RecipientsForgotten
  <1>12. ASSUME NEW i \in Invites, MarkReminded(i) PROVE Inv' /\ Kept
    <2>1. /\ UNCHANGED <<members, invites, recipient, ring, cleared, due, thisSecond, now>>
          /\ i \in unrecorded /\ unrecorded' = {}
          /\ reminded' \in {reminded, [reminded EXCEPT ![i] = TRUE]}
      BY <1>12 DEF MarkReminded
    <2>2. reminded' \in [Invites -> BOOLEAN] /\ \A j \in Invites : j # i => reminded'[j] = reminded[j]
      BY <2>1 DEF Inv, TypeOK
    <2>3. PassUnrecorded'
      BY <2>1, <2>2 DEF Inv, TypeOK, PassUnrecorded
    <2> QED
      BY <2>1, <2>2, <2>3, PassStep DEF Inv, TypeOK, RecipientsForgotten
  <1>13. ASSUME Restart PROVE Inv' /\ Kept
    <2>1. PassUnrecorded'
      BY <1>13 DEF Restart, PassUnrecorded
    <2> QED
      BY <1>13, <2>1, PassStep DEF Restart, Inv, TypeOK
  <1>14. ASSUME Tick PROVE Inv' /\ Kept
    <2>1. /\ UNCHANGED <<members, inviteVars, cleared, passVars>>
          /\ now' = now + 1 /\ thisSecond' = {}
      BY <1>14 DEF Tick
    <2>2. TypeOK'
      BY <2>1 DEF Inv, TypeOK, inviteVars, passVars
    <2>3. \A i \in Invites : invites[i] # None =>
            /\ Status(i)' = "used" <=> Status(i) = "used"
            /\ Status(i)' = "revoked" <=> Status(i) = "revoked"
            /\ Status(i) = "expired" => Status(i)' = "expired"
            /\ Status(i) \in {"revoked", "used", "expired", "open"}
      BY <2>1, MintedIsRow DEF Inv, TypeOK, inviteVars, Status, InviteRows
    <2>4. RecipientsForgotten' /\ UnmintedBare' /\ PassUnrecorded'
      BY <2>1, <2>3 DEF Inv, RecipientsForgotten, UnmintedBare, PassUnrecorded, Is, inviteVars, passVars
    <2>5. NoClash'
      BY <2>1, FewerRolesKeepNoClash DEF Inv
    <2>6. Kept
      BY <2>1, <2>3, MoreRolesStayAdministered DEF Kept, EndedKept, passVars
    <2> QED
      BY <2>2, <2>4, <2>5, <2>6 DEF Inv
  <1>15. ASSUME UNCHANGED vars PROVE Inv' /\ Kept
    <2>1. UNCHANGED <<members, invites, recipient, reminded, ring, cleared, due, unrecorded, thisSecond, now>>
      BY <1>15 DEF vars, inviteVars, passVars
    <2> QED
      BY <2>1, PassStep DEF Inv, TypeOK, PassUnrecorded, RecipientsForgotten
  <1> QED
    BY <1>1, <1>2, <1>3, <1>4, <1>5, <1>6, <1>7, <1>8, <1>9, <1>10, <1>11, <1>12, <1>13,
       <1>14, <1>15 DEF Next

LEMMA InitInv == Init => Inv
  BY DEF Init, Inv, TypeOK, NoClash, Held, RecipientsForgotten, Is, UnmintedBare, PassUnrecorded

LEMMA Invariance == Spec => []Inv
  <1>1. Inv /\ [Next]_vars => Inv'
    BY StepKeeps
  <1> QED
    BY InitInv, <1>1, PTL DEF Spec

----------------------------------------------------------------------------
(* The theorems.                                                           *)

\* The tables, the pass and the clock keep their types (TypeOK).
THEOREM TypeCorrect == Spec => []TypeOK
  <1>1. Inv => TypeOK
    BY DEF Inv
  <1> QED
    BY Invariance, <1>1, PTL

\* However grants, bootstraps and invitations mix, nobody is granted two roles
\* that may not be held together (grant).
THEOREM DutiesStaySeparate == Spec => []NoClash
  <1>1. Inv => NoClash
    BY DEF Inv
  <1> QED
    BY Invariance, <1>1, PTL

\* Whoever an accepted or withdrawn invitation was for is forgotten with it, in
\* the table and in the keyring (forgetRecipient).
THEOREM RecipientsAreForgotten == Spec => []RecipientsForgotten
  <1>1. Inv => RecipientsForgotten
    BY DEF Inv
  <1> QED
    BY Invariance, <1>1, PTL

\* A register with an administrator always has one, though callers act on
\* roles they were resolved with earlier (RevokeRole).
THEOREM AdministrationSurvives == Spec => AlwaysAdministered
  <1>1. Inv /\ [Next]_vars => [Administered => Administered']_vars
    BY StepKeeps DEF Kept
  <1> QED
    BY Invariance, <1>1, PTL DEF Spec, AlwaysAdministered

\* An invitation that ended has ended for good (openInvite, RedeemInvite).
THEOREM InvitationsEndOnce == Spec => SpentForGood
  <1>1. Inv /\ [Next]_vars
          => [\A i \in Invites :
                invites[i] # None /\ Status(i) # "open" => Status(i)' = Status(i)]_vars
    BY StepKeeps DEF Kept, EndedKept
  <1> QED
    BY Invariance, <1>1, PTL DEF Spec, SpentForGood

\* A recorded reminder is not sent again (passInvitations).
THEOREM RecordedRemindersAreNotRepeated == Spec => NotRemindedAgain
  <1>1. Inv /\ [Next]_vars
          => [\A i \in Invites : reminded[i] => i \notin unrecorded' \ unrecorded]_vars
    BY StepKeeps DEF Kept
  <1> QED
    BY Invariance, <1>1, PTL DEF Spec, NotRemindedAgain

=============================================================================
