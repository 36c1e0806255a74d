CONSTANTS
    ann = ann
    bob = bob
    i1 = i1
    None = None
    Subs <- MCSubs
    Roles <- MCRoles
    MembersRoles <- MCMembersRoles
    Incompatible <- MCIncompatible
    Admins <- MCAdmins
    AdminRole = "operator"
    Lifetimes <- MCLifetimes
    RemindAfter = 1
    TokenRoles <- MCTokenRoles
    Invites <- MCInvites
    MaxTime = 2
    MaxPerSecond = 2
SPECIFICATION FairSpec
INVARIANTS
    NoClash
    RecipientsForgotten
PROPERTIES
    AlwaysAdministered
    SpentForGood
    NotRemindedAgain
    ExpiredForgotten
