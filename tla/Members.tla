------------------------------ MODULE Members -------------------------------
(***************************************************************************)
(* Membership and invitations (internal/register/members.go and            *)
(* invite_mail.go), the bootstrap of the first administrators              *)
(* (internal/api/handlers.go), the reminder loop (cmd/register/mailing.go) *)
(* and the part of commit (register.go) that recognises a retried request. *)
(*                                                                         *)
(* A call is authorised before it takes the store: wrap resolves the       *)
(* caller's roles under one store.Do and the handler changes membership    *)
(* under another, so a caller may act on roles it no longer holds.  The    *)
(* reminder loop reads under the lock, writes mail outside it, and records *)
(* what it sent under the lock again.                                      *)
(***************************************************************************)
EXTENDS Naturals, FiniteSets

CONSTANTS
    Subs,           \* people
    Roles,          \* the pack's roles
    MembersRoles,   \* the roles that may manage membership
    Incompatible,   \* pairs <<r, s>>: r declares itself incompatible with s
    TokenRoles,     \* the roles the identity provider gives each person
    Admins,         \* the people the configure document names
    AdminRole,      \* the role it names them for
    Invites,        \* invitation identifiers that may be minted
    Lifetimes,      \* the lifetimes an administrator may choose
    RemindAfter,    \* how long an invitation waits before its reminder
    MaxTime,        \* bound: the clock stops here
    MaxPerSecond,   \* bound: grants and revocations within one second
    None

ASSUME RolesOfThePack == AdminRole \in Roles /\ MembersRoles \subseteq Roles
ASSUME NoneIsNobody == None \notin Subs
ASSUME LifetimesAreLengths == Lifetimes \subseteq Nat

VARIABLES
    members,    \* the members table: pairs <<subject, role>>
    invites,    \* the invites table
    recipient,  \* state of the tenant/invite/<id> key: "none", "live", "destroyed"
    reminded,   \* invite_recipients.reminded_at # 0
    ring,       \* invitations whose key the keyring holds unwrapped
    cleared,    \* callers resolved with the members permission, call not yet run
    due,        \* what the reminder pass read and has not sent
    unrecorded, \* what it sent and has not recorded
    thisSecond, \* transactions committed with the present timestamp
    now

inviteVars == <<invites, recipient, reminded, ring>>
passVars   == <<due, unrecorded>>
vars == <<members, inviteVars, cleared, passVars, thisSecond, now>>

InviteRows == [role : Roles, created : Nat, expires : Nat,
               usedBy : Subs \cup {None}, revoked : BOOLEAN]

ASSUME NoneIsNoInvite == None \notin InviteRows

TypeOK ==
    /\ members \subseteq Subs \X Roles
    /\ invites \in [Invites -> InviteRows \cup {None}]
    /\ recipient \in [Invites -> {"none", "live", "destroyed"}]
    /\ reminded \in [Invites -> BOOLEAN]
    /\ ring \subseteq Invites
    /\ cleared \subseteq Subs
    /\ due \subseteq Invites /\ unrecorded \subseteq Invites
    /\ thisSecond \subseteq {"grant", "revoke"} \X (Subs \cup {"configure"}) \X Subs \X Roles
    /\ now \in Nat

----------------------------------------------------------------------------
(* Roles.                                                                  *)

Held(s) == {r \in Roles : <<s, r>> \in members}

Clash(r, s) == <<r, s>> \in Incompatible \/ <<s, r>> \in Incompatible

\* Resolve: who a caller is, from the token and from the grants.
Resolves(s) ==
    LET held == Held(s) \cup TokenRoles[s]
    IN  held # {} /\ ~\E r, q \in held : <<r, q>> \in Incompatible

\* otherAdministrators
OtherAdministratorsAny(except) == {s \in Subs : Held(s) \cap MembersRoles # {}}
OtherAdministrators(except) ==
    {s \in Subs \ {except} : Held(s) \cap MembersRoles # {}}

\* grant: what a subject may be granted.
GrantableUnlessHeld(s, r) == r \notin Held(s)
Grantable(s, r) == r \notin Held(s) /\ ~\E other \in Held(s) : Clash(r, other)

\* commit, for a write set whose every field repeats when the call is repeated
\* within one second: the same transaction id is answered from the log and
\* nothing is applied.
Commit(tx, newMembers) ==
    IF tx \in thisSecond
    THEN UNCHANGED <<members, thisSecond>>
    ELSE /\ Cardinality(thisSecond) < MaxPerSecond
         /\ members' = newMembers
         /\ thisSecond' = thisSecond \cup {tx}

----------------------------------------------------------------------------
(* Membership.                                                             *)

\* identify and Resolve: the caller's roles are read and the lock released.
Authorise(p) ==
    /\ Resolves(p)
    /\ (Held(p) \cup TokenRoles[p]) \cap MembersRoles # {}
    /\ cleared' = cleared \cup {p}
    /\ UNCHANGED <<members, inviteVars, passVars, thisSecond, now>>

\* GrantRole
GrantRole(p, s, r) ==
    /\ p \in cleared
    /\ Grantable(s, r)
    /\ Commit(<<"grant", p, s, r>>, members \cup {<<s, r>>})
    /\ cleared' = cleared \ {p}
    /\ UNCHANGED <<inviteVars, passVars, now>>

\* RevokeRole
RevokeRole(p, s, r) ==
    /\ p \in cleared
    /\ r \in Held(s)
    /\ r \in MembersRoles => OtherAdministrators(s) # {}
    /\ Commit(<<"revoke", p, s, r>>, members \ {<<s, r>>})
    /\ cleared' = cleared \ {p}
    /\ UNCHANGED <<inviteVars, passVars, now>>

\* bootstrapMembers, one named administrator who does not hold the role.
BootstrapMember(s) ==
    /\ s \in Admins
    /\ Grantable(s, AdminRole)
    /\ Commit(<<"grant", "configure", s, AdminRole>>, members \cup {<<s, AdminRole>>})
    /\ UNCHANGED <<inviteVars, cleared, passVars, now>>

----------------------------------------------------------------------------
(* Invitations.                                                            *)

\* decodeInvite
Status(i) ==
    CASE invites[i].revoked        -> "revoked"
      [] ~invites[i].revoked /\ invites[i].usedBy # None -> "used"
      [] ~invites[i].revoked /\ invites[i].usedBy = None /\ now > invites[i].expires -> "expired"
      [] OTHER                     -> "open"
Is(i, status) == invites[i] # None /\ Status(i) = status

\* createInvite: sealRecipient gives an emailed invitation a key of its own.
\* The key is drawn and wrapped, not unwrapped: the keyring does not hold it.
NewInvite(i, r, life, emailed) ==
    /\ invites[i] = None
    /\ invites' = [invites EXCEPT ![i] =
            [role |-> r, created |-> now, expires |-> now + life,
             usedBy |-> None, revoked |-> FALSE]]
    /\ recipient' = [recipient EXCEPT ![i] = IF emailed THEN "live" ELSE "none"]
    /\ UNCHANGED <<members, reminded, ring, passVars, thisSecond, now>>

\* CreateInvite, and CreateEmailedInvite with the mail that follows it
CreateInvite(p, i, r, life, emailed) ==
    /\ p \in cleared
    /\ NewInvite(i, r, life, emailed)
    /\ cleared' = cleared \ {p}

\* bootstrapMembers: an invitation while nobody can manage membership, valid
\* for a day (less than one unit of the model's clock).
BootstrapInvite(i) ==
    /\ OtherAdministrators(None) = {}
    /\ NewInvite(i, AdminRole, 0, FALSE)
    /\ UNCHANGED cleared

\* forgetRecipient with the Forget that follows the commit.
ForgetRecipientKeepsKey(is) == UNCHANGED <<recipient, ring>>
ForgetRecipient(is) ==
    /\ recipient' = [i \in Invites |-> IF i \in is /\ recipient[i] = "live"
                                       THEN "destroyed" ELSE recipient[i]]
    /\ ring' = ring \ is

\* RevokeInvite
RevokeInvite(p, i) ==
    /\ p \in cleared
    /\ Is(i, "open")
    /\ invites' = [invites EXCEPT ![i].revoked = TRUE]
    /\ ForgetRecipient({i})
    /\ cleared' = cleared \ {p}
    /\ UNCHANGED <<members, reminded, passVars, thisSecond, now>>

\* openInvite, for a caller who has the secret.
OpenInviteEver(i) == invites[i] # None /\ ~invites[i].revoked
OpenInvite(i) == Is(i, "open")

\* RedeemInvite: the grant and the spending are one commit.
RedeemInvite(s, i) ==
    /\ OpenInvite(i)
    /\ Grantable(s, invites[i].role)
    /\ members' = members \cup {<<s, invites[i].role>>}
    /\ invites' = [invites EXCEPT ![i].usedBy = s]
    /\ ForgetRecipient({i})
    /\ UNCHANGED <<reminded, cleared, passVars, thisSecond, now>>

----------------------------------------------------------------------------
(* passInvitations: the hourly pass of invitationLoop.                     *)

\* ForgetExpiredRecipients: one commit per expired invitation; a failure
\* leaves the rest to the next pass.
ExpiredUnreminded == {i \in Invites : Is(i, "expired") /\ recipient[i] = "live" /\ ~reminded[i]}
Expired == {i \in Invites : Is(i, "expired") /\ recipient[i] = "live"}
ForgetExpired(done) ==
    /\ done \in SUBSET Expired \ {{}}
    /\ ForgetRecipient(done)
    /\ UNCHANGED <<members, invites, reminded, cleared, passVars, thisSecond, now>>

\* InviteReminders: the open, unreminded, readable invitations that are old
\* enough, read (and their keys cached) under one lock.
RemindableAnyway(i) == /\ recipient[i] = "live" /\ Is(i, "open")
                       /\ now >= invites[i].created + RemindAfter
Remindable(i) == /\ recipient[i] # "none" /\ ~reminded[i] /\ Is(i, "open")
                 /\ now >= invites[i].created + RemindAfter
                 /\ recipient[i] = "live"
ListReminders ==
    /\ due = {} /\ unrecorded = {}
    /\ {i \in Invites : Remindable(i)} # {}
    /\ due' = {i \in Invites : Remindable(i)}
    /\ ring' = ring \cup {i \in Invites : Remindable(i)}
    /\ UNCHANGED <<members, invites, recipient, reminded, cleared, unrecorded,
                   thisSecond, now>>

\* SendInvitation succeeds, or fails and is tried again on the next pass.
SendReminder(i) ==
    /\ i \in due
    /\ unrecorded = {}
    /\ due' = due \ {i}
    /\ unrecorded' \in {{}, {i}}
    /\ UNCHANGED <<members, inviteVars, cleared, thisSecond, now>>

\* MarkReminded commits, or fails and is only logged.
MarkReminded(i) ==
    /\ i \in unrecorded
    /\ unrecorded' = {}
    /\ reminded' \in {reminded, [reminded EXCEPT ![i] = TRUE]}
    /\ UNCHANGED <<members, invites, recipient, ring, cleared, due, thisSecond, now>>

\* The process restarts: calls in flight, the pass and the keyring are gone.
Restart ==
    /\ cleared' = {} /\ due' = {} /\ unrecorded' = {} /\ ring' = {}
    /\ UNCHANGED <<members, invites, recipient, reminded, thisSecond, now>>

\* The clock moves to another second; no later transaction repeats the
\* timestamp of an earlier one.
Tick ==
    /\ now < MaxTime
    /\ now' = now + 1
    /\ thisSecond' = {}
    /\ UNCHANGED <<members, inviteVars, cleared, passVars>>

----------------------------------------------------------------------------

Init ==
    /\ members = {}
    /\ invites = [i \in Invites |-> None]
    /\ recipient = [i \in Invites |-> "none"]
    /\ reminded = [i \in Invites |-> FALSE]
    /\ ring = {} /\ cleared = {} /\ due = {} /\ unrecorded = {}
    /\ thisSecond = {}
    /\ now = 0

Next ==
    \/ \E p \in Subs :
        \/ Authorise(p)
        \/ \E s \in Subs, r \in Roles : GrantRole(p, s, r) \/ RevokeRole(p, s, r)
        \/ \E i \in Invites :
            \/ \E r \in Roles, life \in Lifetimes, e \in BOOLEAN : CreateInvite(p, i, r, life, e)
            \/ RevokeInvite(p, i)
            \/ RedeemInvite(p, i)
        \/ BootstrapMember(p)
    \/ \E i \in Invites : BootstrapInvite(i) \/ SendReminder(i) \/ MarkReminded(i)
    \/ \E done \in SUBSET Invites : ForgetExpired(done)
    \/ ListReminders
    \/ Restart
    \/ Tick

Spec == Init /\ [][Next]_vars

\* invitationLoop goes on to its next pass, whatever became of the last one.
FairSpec == Spec /\ WF_vars(\E done \in SUBSET Invites : ForgetExpired(done))

----------------------------------------------------------------------------
(* Properties.                                                             *)

Administered == OtherAdministrators(None) # {}

\* Two administrators who revoke each other at the same time, each cleared
\* before the other's revocation lands, still leave one: a register that could
\* once be administered from inside always can (RevokeRole).
AlwaysAdministered == [][Administered => Administered']_vars

\* Nobody is ever granted two roles that may not be held together, by whichever
\* mix of grants, bootstraps and invitations (grant).
NoClash == \A s \in Subs : \A r, q \in Held(s) : r # q => ~Clash(r, q)

\* An invitation that was used, withdrawn or has expired keeps that status for
\* good: it never grants a role again, whatever order the redemption, the
\* withdrawal and the clock arrive in (openInvite, RedeemInvite, RevokeInvite).
SpentForGood ==
    [][\A i \in Invites :
        invites[i] # None /\ Status(i) # "open" => Status(i)' = Status(i)]_vars

\* The person an accepted or withdrawn invitation was for is forgotten in the
\* same commit, and the keyring never holds a key whose row says destroyed, a
\* reminder pass that read it just before included (forgetRecipient).
RecipientsForgotten ==
    \A i \in Invites :
        /\ Is(i, "used") \/ Is(i, "revoked") => recipient[i] # "live"
        /\ i \in ring => recipient[i] = "live"

\* A reminder whose sending was recorded is not sent again, by a later pass or
\* after a restart (passInvitations: "one that is sent is recorded, so it goes
\* out once").  One whose record failed, or that a restart overtook, may be.
NotRemindedAgain ==
    [][\A i \in Invites : reminded[i] => i \notin unrecorded' \ unrecorded]_vars

\* Nobody stays on record for an invitation that ran out: a pass of the loop
\* forgets the recipient, whether or not a reminder was sent and however many
\* passes failed (ForgetExpiredRecipients).
ExpiredForgotten ==
    \A i \in Invites : Is(i, "expired") ~> recipient[i] # "live"

=============================================================================
