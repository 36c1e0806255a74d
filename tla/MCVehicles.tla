----------------------------- MODULE MCVehicles -----------------------------
(***************************************************************************)
(* The vehicle-register pack (packs/car-register/pack.json), with every    *)
(* workflow of vehicles and liens: a first registration that issues a      *)
(* plate, a two-party ownership transfer that closes one link and opens    *)
(* another, liens that turn an automatic approval into a review, a         *)
(* correction, a flag that settles at once whatever the vehicle's status,  *)
(* a scrappage that ends ownership and plate, an export that ends the      *)
(* plate.  The register starts seeded with one vehicle, its plate and its  *)
(* ownership; registrations and corrections compete for a VIN, and         *)
(* registrations for a plate.  Owners, whose only workflow registers one,  *)
(* are MCOwners' subject: a payload here has one reference, the vehicle.   *)
(***************************************************************************)
EXTENDS Links

CONSTANTS ann, bob, v1, v2, v3, p1, p2, p3, w1, w2, w3, l1, t1, t2, t3, k1, k2, k3

MCSubs    == {ann, bob}
MCObjects == {v1, v2, v3, p1, p2, p3, w1, w2, w3, l1}
MCTasks   == {t1, t2, t3}
MCKeys    == {k1, k2, k3}
MCClassOf == [o \in MCObjects |-> CASE o \in {v1, v2, v3} -> "vehicle" [] o \in {p1, p2, p3} -> "plate"
                                    [] o = l1 -> "lien" [] OTHER -> "ownership"]
Body(k, r, b) == [key |-> k, aux |-> None, ref |-> r, buyer |-> b]
MCSeed    == [o \in MCObjects |-> CASE o = v1 -> Body(k1, None, None)
                                   [] o = p1 -> Body(k1, v1, None) [] o = w1 -> Body(None, v1, None)
                                   [] OTHER -> None]

Plain(n, r, s, i) == [encryption |-> "none", natural |-> n, ref |-> r,
                      statuses |-> s, initial |-> i]
MCClass ==
  [vehicle   |-> Plain(TRUE, "", {"registered", "stolen", "exported", "scrapped"}, "registered"),
   plate     |-> Plain(TRUE, "vehicle", {"issued", "retired"}, "issued"),
   ownership |-> Plain(FALSE, "vehicle", {"open", "closed"}, "open"),
   lien      |-> Plain(FALSE, "vehicle", {"open", "discharged"}, "open")]

Record == [type |-> "record"]
CloseOwnership == [type |-> "close_link", class |-> "ownership", match |-> "open",
                   status |-> "closed", optional |-> TRUE]
OpenOwnership  == [type |-> "open_link", class |-> "ownership", status |-> "open",
                   key |-> "none", ref |-> "object"]

RetirePlate    == [type |-> "close_link", class |-> "plate", match |-> "issued",
                   status |-> "retired", optional |-> TRUE]
IssuePlate     == [type |-> "create_object", class |-> "plate", status |-> "issued",
                   key |-> "aux", ref |-> "object"]

MCWf ==
  [first_registration |->
     [class |-> "vehicle", action |-> "create", status |-> "", auto |-> FALSE,
      independence |-> TRUE, counterparty |-> FALSE, pii |-> FALSE,
      propose |-> {ann}, approve |-> {bob},
      inputs |-> {[Body(vin, None, None) EXCEPT !.aux = k2] : vin \in {k2, k3}},
      conditions |-> <<[kind |-> "key_free", class |-> "vehicle", on_fail |-> "reject"],
                       [kind |-> "aux_free", class |-> "plate", status |-> "issued",
                        on_fail |-> "reject"]>>,
      effects |-> <<Record, IssuePlate>>],
   ownership_transfer |->
     [class |-> "vehicle", action |-> "update", status |-> "", auto |-> TRUE,
      independence |-> TRUE, counterparty |-> TRUE, pii |-> FALSE,
      propose |-> {ann}, approve |-> {ann, bob}, inputs |-> {Body(None, None, bob)},
      conditions |-> <<[kind |-> "status_is", status |-> "registered", on_fail |-> "reject"],
                       [kind |-> "none_linked", class |-> "lien", status |-> "open",
                        on_fail |-> "review"]>>,
      effects |-> <<CloseOwnership, OpenOwnership>>],
   correction |->
     [class |-> "vehicle", action |-> "correct", status |-> "", auto |-> FALSE,
      independence |-> TRUE, counterparty |-> FALSE, pii |-> FALSE,
      propose |-> {ann}, approve |-> {bob}, inputs |-> {Body(k3, None, None)},
      conditions |-> <<>>, effects |-> <<Record>>],
   flag_stolen |->
     [class |-> "vehicle", action |-> "status", status |-> "stolen", auto |-> TRUE,
      independence |-> FALSE, counterparty |-> FALSE, pii |-> FALSE,
      propose |-> {bob}, approve |-> {bob}, inputs |-> {Body(None, None, None)},
      conditions |-> <<>>, effects |-> <<Record>>],
   scrappage |->
     [class |-> "vehicle", action |-> "status", status |-> "scrapped", auto |-> FALSE,
      independence |-> TRUE, counterparty |-> FALSE, pii |-> FALSE,
      propose |-> {ann}, approve |-> {bob}, inputs |-> {Body(None, None, None)},
      conditions |-> <<>>, effects |-> <<Record, CloseOwnership, RetirePlate>>],
   export_vehicle |->
     [class |-> "vehicle", action |-> "status", status |-> "exported", auto |-> FALSE,
      independence |-> TRUE, counterparty |-> FALSE, pii |-> FALSE,
      propose |-> {ann}, approve |-> {bob}, inputs |-> {Body(None, None, None)},
      conditions |-> <<>>, effects |-> <<Record, RetirePlate>>],
   register_lien |->
     [class |-> "lien", action |-> "create", status |-> "", auto |-> TRUE,
      independence |-> FALSE, counterparty |-> FALSE, pii |-> FALSE,
      propose |-> {ann}, approve |-> {bob},
      inputs |-> {Body(None, v1, None), Body(None, v2, None)},
      conditions |-> <<>>, effects |-> <<Record>>],
   discharge_lien |->
     [class |-> "lien", action |-> "status", status |-> "discharged", auto |-> TRUE,
      independence |-> FALSE, counterparty |-> FALSE, pii |-> FALSE,
      propose |-> {ann}, approve |-> {bob}, inputs |-> {Body(None, None, None)},
      conditions |-> <<>>, effects |-> <<Record>>]]

MCPolicy == [P03 |-> [class |-> "ownership", window |-> 0, scope |-> "all", erasure |-> FALSE]]

\* The pack keeps the condition under which the index and the payload keys are
\* proved exact for every pack.
ASSUME EffectsWriteApart == WritesApart

\* A vehicle has one open ownership and one issued plate at most; a scrapped one
\* has neither, an exported one no plate, a registered one always a plate.  Liens
\* may add up, and whether a stolen one has a plate depends on what it was.
MCSingleLinks == {<<"ownership", "open">>, <<"plate", "issued">>}
MCSeverances  == {<<"vehicle", "scrapped", "ownership", "open">>,
                  <<"vehicle", "scrapped", "plate", "issued">>,
                  <<"vehicle", "exported", "plate", "issued">>}
MCCarriages   == {<<"vehicle", "registered", "plate", "issued">>}

=============================================================================
