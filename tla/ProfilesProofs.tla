--------------------------- MODULE ProfilesProofs ---------------------------
(***************************************************************************)
(* For any people, names and calls in flight: an erased person stays       *)
(* erased, and the keyring holds no destroyed key.                         *)
(***************************************************************************)
EXTENDS Profiles, TLAPS

TypeOK ==
    /\ profile \in [Subs -> Names \cup {None}]
    /\ seen \subseteq Subs
    /\ key \in [Subs -> {"none", "live", "destroyed"}]
    /\ ring \subseteq Subs
    /\ \A c \in Callers : call[c] # Idle => call[c].sub \in Subs /\ call[c].display \in Names
    /\ DOMAIN call = Callers

\* A person who was never seen has no key, and one whose key is gone has no
\* name: what keeps a late recording from being the first one.
RowsFollowKeys ==
    \A s \in Subs :
        /\ s \notin seen <=> key[s] = "none"
        /\ key[s] = "destroyed" => profile[s] = None

\* The inductive invariant.
Inv == TypeOK /\ RowsFollowKeys /\ RingAlive

\* Reading a profile caches a live key or none.
LEMMA UnwrapsLive ==
    ASSUME Inv, NEW s \in Subs
    PROVE  Unwrapped(s) \subseteq Subs /\ \A x \in Unwrapped(s) : key[x] = "live"
  BY DEF Inv, TypeOK, RingAlive, Unwrapped

\* What an observation of a person does to the rows, whoever makes it.
LEMMA SeeIdentityKeeps ==
    ASSUME Inv, NEW s \in Subs, NEW n \in Names, SeeIdentity(s, n)
    PROVE  /\ profile' \in [Subs -> Names \cup {None}] /\ seen' \subseteq Subs
           /\ key' \in [Subs -> {"none", "live", "destroyed"}] /\ ring' \subseteq Subs
           /\ RowsFollowKeys' /\ RingAlive'
           /\ \A x \in Subs : Erased(x) => key'[x] = key[x] /\ profile'[x] = None
  <1>1. ring' = Unwrapped(s)
    BY DEF SeeIdentity
  <1>2. CASE n # HeldName(s) /\ ~Erased(s)
    <2>1. /\ profile' = [profile EXCEPT ![s] = n] /\ seen' = seen \cup {s}
          /\ key' = [key EXCEPT ![s] = "live"]
      BY <1>2 DEF SeeIdentity
    <2>2. RowsFollowKeys'
      BY <2>1 DEF Inv, TypeOK, RowsFollowKeys
    <2>3. RingAlive'
      BY <1>1, <2>1, UnwrapsLive DEF Inv, TypeOK, RingAlive
    <2>4. \A x \in Subs : Erased(x) => key'[x] = key[x] /\ profile'[x] = None
      BY <1>2, <2>1 DEF Inv, TypeOK, RowsFollowKeys, Erased
    <2> QED
      BY <1>1, <2>1, <2>2, <2>3, <2>4, UnwrapsLive DEF Inv, TypeOK
  <1>3. CASE ~(n # HeldName(s) /\ ~Erased(s))
    <2>1. UNCHANGED <<profile, seen, key>>
      BY <1>3 DEF SeeIdentity
    <2>2. RowsFollowKeys' /\ RingAlive'
      BY <1>1, <2>1, UnwrapsLive DEF Inv, TypeOK, RowsFollowKeys, RingAlive
    <2>3. \A x \in Subs : Erased(x) => key'[x] = key[x] /\ profile'[x] = None
      BY <2>1 DEF Inv, TypeOK, RowsFollowKeys, Erased
    <2> QED
      BY <1>1, <2>1, <2>2, <2>3, UnwrapsLive DEF Inv, TypeOK
  <1> QED
    BY <1>2, <1>3

\* Every step keeps the invariant and leaves the erased alone.
LEMMA StepKeeps ==
    ASSUME Inv, [Next]_vars
    PROVE  Inv' /\ \A s \in Subs : Erased(s) => key'[s] = key[s] /\ profile'[s] = None
  <1>1. ASSUME NEW s \in Subs, NEW n \in Names, SignIn(s, n)
        PROVE  Inv' /\ \A x \in Subs : Erased(x) => key'[x] = key[x] /\ profile'[x] = None
    BY <1>1, SeeIdentityKeeps DEF SignIn, Inv, TypeOK
  <1>2. ASSUME NEW c \in Callers, NEW s \in Subs, NEW n \in Names, GrantCommitted(c, s, n)
        PROVE  Inv' /\ \A x \in Subs : Erased(x) => key'[x] = key[x] /\ profile'[x] = None
    BY <1>2 DEF GrantCommitted, Inv, TypeOK, RowsFollowKeys, RingAlive, Erased
  <1>3. ASSUME NEW c \in Callers, ReadHeld(c)
        PROVE  Inv' /\ \A x \in Subs : Erased(x) => key'[x] = key[x] /\ profile'[x] = None
    <2>1. call[c] # Idle
      BY <1>3 DEF ReadHeld, Idle
    <2>2. call[c].sub \in Subs
      BY <2>1 DEF Inv, TypeOK
    <2>3. UNCHANGED <<profile, seen, key>> /\ ring' = Unwrapped(call[c].sub)
      BY <1>3 DEF ReadHeld
    <2>4. RowsFollowKeys' /\ RingAlive' /\ ring' \subseteq Subs
      BY <2>2, <2>3, UnwrapsLive DEF Inv, RowsFollowKeys, RingAlive
    <2>5. /\ \A d \in Callers : call'[d] # Idle => call'[d].sub \in Subs /\ call'[d].display \in Names
          /\ DOMAIN call' = Callers
      BY <1>3, <2>1 DEF ReadHeld, Inv, TypeOK
    <2>6. \A x \in Subs : Erased(x) => key'[x] = key[x] /\ profile'[x] = None
      BY <2>3 DEF Inv, TypeOK, RowsFollowKeys, Erased
    <2> QED
      BY <2>3, <2>4, <2>5, <2>6 DEF Inv, TypeOK
  <1>4. ASSUME NEW c \in Callers, RecordDisplay(c)
        PROVE  Inv' /\ \A x \in Subs : Erased(x) => key'[x] = key[x] /\ profile'[x] = None
    <2>1. call[c] # Idle
      BY <1>4 DEF RecordDisplay, Idle
    <2>2. call[c].sub \in Subs /\ call[c].display \in Names
      BY <2>1 DEF Inv, TypeOK
    <2>3. SeeIdentity(call[c].sub, call[c].display) /\ call' = [call EXCEPT ![c] = Idle]
      BY <1>4 DEF RecordDisplay
    <2>4. /\ \A d \in Callers : call'[d] # Idle => call'[d].sub \in Subs /\ call'[d].display \in Names
          /\ DOMAIN call' = Callers
      BY <2>3 DEF Inv, TypeOK
    <2> QED
      BY <2>2, <2>3, <2>4, SeeIdentityKeeps DEF Inv, TypeOK
  <1>5. ASSUME NEW s \in Subs, EraseProfile(s)
        PROVE  Inv' /\ \A x \in Subs : Erased(x) => key'[x] = key[x] /\ profile'[x] = None
    BY <1>5 DEF EraseProfile, Forget, Inv, TypeOK, RowsFollowKeys, RingAlive, Erased
  <1>6. ASSUME Restart
        PROVE  Inv' /\ \A x \in Subs : Erased(x) => key'[x] = key[x] /\ profile'[x] = None
    BY <1>6 DEF Restart, Inv, TypeOK, RowsFollowKeys, RingAlive, Erased
  <1>7. ASSUME UNCHANGED vars
        PROVE  Inv' /\ \A x \in Subs : Erased(x) => key'[x] = key[x] /\ profile'[x] = None
    BY <1>7 DEF vars, Inv, TypeOK, RowsFollowKeys, RingAlive, Erased
  <1> QED
    BY <1>1, <1>2, <1>3, <1>4, <1>5, <1>6, <1>7 DEF Next

LEMMA InitInv == Init => Inv
  BY DEF Init, Inv, TypeOK, RowsFollowKeys, RingAlive

LEMMA Invariance == Spec => []Inv
  <1>1. Inv /\ [Next]_vars => Inv'
    BY StepKeeps
  <1> QED
    BY InitInv, <1>1, PTL DEF Spec

\* No key that was destroyed stays in the keyring, a read that cached it just
\* before the erasure included (EraseProfile, UnwrapOperational).
THEOREM KeyringHoldsLiveKeys == Spec => []RingAlive
  <1>1. Inv => RingAlive
    BY DEF Inv
  <1> QED
    BY Invariance, <1>1, PTL

\* Neither a sign-in nor the tail of a grant that began before an erasure
\* records the erased person again (SeeIdentity, GrantRole).
THEOREM ErasureIsFinal == Spec => ErasedStays
  <1>1. Inv /\ [Next]_vars
          => [\A s \in Subs : Erased(s) => key'[s] = key[s] /\ profile'[s] = None]_vars
    BY StepKeeps
  <1> QED
    BY Invariance, <1>1, PTL DEF Spec, ErasedStays

=============================================================================
