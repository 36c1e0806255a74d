------------------------------ MODULE MCOwners ------------------------------
(***************************************************************************)
(* A register of data subjects: the owner class of the vehicle-register    *)
(* pack (one key per subject, a natural key) with its auto-approved         *)
(* registration, a correction that a second person decides, and a closing  *)
(* status that is approved under policy; retention and erasure under P01.  *)
(***************************************************************************)
EXTENDS Workflow

CONSTANTS ann, bob, o1, o2, t1, t2, t3, k1, k2

MCSubs    == {ann, bob}
MCObjects == {o1, o2}
MCTasks   == {t1, t2, t3}
MCKeys    == {k1, k2}
MCClassOf == [o \in MCObjects |-> "owner"]
MCSeed    == [o \in MCObjects |-> None]

MCClass == [owner |-> [encryption |-> "subject", natural |-> TRUE, ref |-> "",
                       statuses |-> {"active", "closed"}, initial |-> "active"]]

Record == <<[type |-> "record"]>>
Body(k) == [key |-> k, aux |-> None, ref |-> None, buyer |-> None]

MCWf ==
  [register_owner |->
     [class |-> "owner", action |-> "create", status |-> "", auto |-> TRUE,
      independence |-> FALSE, counterparty |-> FALSE, pii |-> TRUE,
      propose |-> {ann}, approve |-> {bob}, inputs |-> {Body(k) : k \in MCKeys},
      conditions |-> <<[kind |-> "key_free", class |-> "owner", on_fail |-> "reject"]>>,
      effects |-> Record],
   correction |->
     [class |-> "owner", action |-> "correct", status |-> "", auto |-> FALSE,
      independence |-> TRUE, counterparty |-> FALSE, pii |-> TRUE,
      propose |-> {ann, bob}, approve |-> {bob}, inputs |-> {Body(k) : k \in MCKeys},
      conditions |-> <<>>, effects |-> Record],
   close_owner |->
     [class |-> "owner", action |-> "status", status |-> "closed", auto |-> TRUE,
      independence |-> FALSE, counterparty |-> FALSE, pii |-> FALSE,
      propose |-> {ann}, approve |-> {bob}, inputs |-> {Body(None)},
      conditions |-> <<>>, effects |-> Record]]

MCPolicy == [P01 |-> [class |-> "owner", window |-> 0, scope |-> "pii", erasure |-> TRUE]]

\* The pack keeps the condition under which the index and the payload keys are
\* proved exact for every pack.
ASSUME EffectsWriteApart == WritesApart

=============================================================================
