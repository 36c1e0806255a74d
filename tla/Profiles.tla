------------------------------ MODULE Profiles ------------------------------
(***************************************************************************)
(* People's sealed profiles (internal/register/identities.go) and the      *)
(* display name a grant carries (GrantRole in members.go).                 *)
(*                                                                         *)
(* Sign-ins, grants and erasures run concurrently.  Each one's use of the  *)
(* store is a store.Do of its own; GrantRole makes three (the grant, a     *)
(* read of the profile, the recording of the name) and other calls run     *)
(* between them.  A profile is its name and the state of the person's key. *)
(***************************************************************************)
EXTENDS Naturals

CONSTANTS
    Subs,       \* people
    Callers,    \* administrators' calls in flight
    Names,      \* names a sign-in or a grant may assert
    MaxWrites,  \* bound: profile transactions
    None

VARIABLES
    profile,    \* subject -> name sealed in the profiles row, or None
    seen,       \* subjects with a profiles row
    key,        \* the tenant/person/<id> key: "none", "live", "destroyed"
    ring,       \* subjects whose key the keyring holds unwrapped
    call,       \* each GrantRole in flight
    writes      \* profile transactions committed

vars == <<profile, seen, key, ring, call, writes>>

Idle == [at |-> "idle"]
\* openProfile: no key row, or a destroyed key, is an erased profile.
Erased(s) == s \in seen /\ key[s] # "live"
\* profileIn: the name that can be read.
HeldName(s) == IF s \in seen /\ key[s] = "live" THEN profile[s] ELSE None

\* Reading a profile unwraps the person's key into the keyring.
Unwrapped(s) == IF s \in seen /\ key[s] = "live" THEN ring \cup {s} ELSE ring

\* SeeIdentity: a name that differs from the one held is written, sealed under
\* the person's key (ensureDEK mints it on first sight), unless erased.
SeeIdentityAgain(s, n) ==
    /\ writes < MaxWrites
    /\ profile' = [profile EXCEPT ![s] = n]
    /\ seen' = seen \cup {s}
    /\ key' = [key EXCEPT ![s] = "live"]
    /\ writes' = writes + 1
    /\ ring' = Unwrapped(s)
SeeIdentity(s, n) ==
    /\ ring' = Unwrapped(s)
    /\ IF n # HeldName(s) /\ ~Erased(s)
       THEN /\ writes < MaxWrites
            /\ profile' = [profile EXCEPT ![s] = n]
            /\ seen' = seen \cup {s}
            /\ key' = [key EXCEPT ![s] = "live"]
            /\ writes' = writes + 1
       ELSE UNCHANGED <<profile, seen, key, writes>>

\* identify: the first request after a sign-in says who the person is.
SignIn(s, n) == SeeIdentity(s, n) /\ UNCHANGED call

\* GrantRole: the grant commits; a display name was given with it.
GrantCommitted(c, s, n) ==
    /\ call[c] = Idle
    /\ call' = [call EXCEPT ![c] = [at |-> "granted", sub |-> s, display |-> n]]
    /\ UNCHANGED <<profile, seen, key, ring, writes>>

\* The profile is read; a name already held ends the call.
ReadHeld(c) ==
    /\ call[c].at = "granted"
    /\ ring' = Unwrapped(call[c].sub)
    /\ call' = [call EXCEPT ![c] = IF HeldName(call[c].sub) = None
                                   THEN [@ EXCEPT !.at = "unnamed"] ELSE Idle]
    /\ UNCHANGED <<profile, seen, key, writes>>

\* The name given with the grant is recorded.
RecordDisplay(c) ==
    /\ call[c].at = "unnamed"
    /\ SeeIdentity(call[c].sub, call[c].display)
    /\ call' = [call EXCEPT ![c] = Idle]

\* EraseProfile, with the Forget after its commit
ForgetNothing(s) == ring
Forget(s) == ring \ {s}
EraseProfile(s) ==
    /\ s \in seen
    /\ key[s] = "live"
    /\ writes < MaxWrites
    /\ key' = [key EXCEPT ![s] = "destroyed"]
    /\ profile' = [profile EXCEPT ![s] = None]
    /\ ring' = Forget(s)
    /\ writes' = writes + 1
    /\ UNCHANGED <<seen, call>>

\* Calls in flight and the keyring do not survive a restart.
Restart ==
    /\ ring' = {}
    /\ call' = [c \in Callers |-> Idle]
    /\ UNCHANGED <<profile, seen, key, writes>>

Init ==
    /\ profile = [s \in Subs |-> None]
    /\ seen = {}
    /\ key = [s \in Subs |-> "none"]
    /\ ring = {}
    /\ call = [c \in Callers |-> Idle]
    /\ writes = 0

Next ==
    \/ \E s \in Subs, n \in Names :
        SignIn(s, n) \/ \E c \in Callers : GrantCommitted(c, s, n)
    \/ \E c \in Callers : ReadHeld(c) \/ RecordDisplay(c)
    \/ \E s \in Subs : EraseProfile(s)
    \/ Restart

Spec == Init /\ [][Next]_vars

----------------------------------------------------------------------------
(* Properties.                                                             *)

\* An erased person stays erased: neither a later sign-in nor the tail of a
\* grant that began before the erasure records the person again (SeeIdentity).
ErasedStays ==
    [][\A s \in Subs : Erased(s) => key'[s] = key[s] /\ profile'[s] = None]_vars

\* The keyring holds no key that was destroyed, a read that cached it just
\* before the erasure included (EraseProfile, UnwrapOperational).
RingAlive == \A s \in ring : key[s] = "live"

=============================================================================
