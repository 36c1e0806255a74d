----------------------------- MODULE BootProofs -----------------------------
(***************************************************************************)
(* For any number of overlapping configure calls, any packs and any volume *)
(* the process may find: a register that answers does so from the store    *)
(* that is open, and, as long as packs only move forward, it has that      *)
(* store in line with its pack wherever earlier attempts died.             *)
(***************************************************************************)
EXTENDS Boot, TLAPS

----------------------------------------------------------------------------
(* The gate.                                                               *)

MaybeHandle == Handles \cup {None}
InFlight == [at : {"configuring", "opened", "installed", "named", "failing"}, doc : Docs,
             st : MaybeHandle]

GateType ==
    /\ call \in [Callers -> InFlight \cup {G!Idle}]
    /\ app \in MaybeHandle /\ serving \in MaybeHandle

\* The store an application holds is the one that is open and signed.
AppHolds == app # None => open = {app} /\ loops = {app}

\* A call between store.Open and the installation holds the only open store, and
\* no other is installed; one past the installation holds what is installed.
CallHolds ==
    \A c \in Callers :
        /\ call[c].at = "opened" => app = None /\ call[c].st \in Handles /\ open = {call[c].st}
        /\ call[c].at \in {"installed", "named"} => app # None /\ call[c].st = app
        /\ \A d \in Callers : call[c].at = "opened" /\ call[d].at = "opened" => c = d

\* The store the server reads from is the application's.
ServerHolds == (serving # None => serving = app) /\ (state = "ready" => serving # None)

GateInv == GateType /\ AppHolds /\ CallHolds /\ ServerHolds

LEMMA IdleIsIdle ==
    /\ G!Idle.at = "idle" /\ G!Idle \notin InFlight
    /\ \A r \in InFlight : r # G!Idle /\ r.at # "idle"
  BY DEF G!Idle, InFlight

\* A call that is past "idle" is in flight.
LEMMA CallInFlight ==
    ASSUME GateType, NEW c \in Callers, call[c].at # "idle"
    PROVE  call[c] \in InFlight
  BY IdleIsIdle DEF GateType

\* store.Open finds a free name when nothing is open.
LEMMA FreshHandle ==
    ASSUME GateInv, open = {}
    PROVE  (CHOOSE x \in G!Unused : TRUE) \in Handles
  <1>1. app = None /\ serving = None
    BY DEF GateInv, AppHolds, ServerHolds, GateType
  <1> DEFINE f == [c \in Callers |-> IF call[c] = G!Idle THEN None ELSE call[c].st]
  <1>2. f \in [Callers -> Handles \cup {None}]
    <2>1. ASSUME NEW c \in Callers, call[c] # G!Idle PROVE call[c].st \in Handles \cup {None}
      BY <2>1 DEF GateInv, GateType, InFlight, MaybeHandle
    <2> QED
      BY <2>1
  <1>3. PICK h \in Handles : \A c \in Callers : f[c] # h
    BY <1>2, HandlesAreNames
  <1>4. h \in G!Unused
    BY <1>1, <1>3, HandlesAreNames DEF G!Unused
  <1>5. G!Unused \subseteq Handles
    BY DEF G!Unused
  <1> QED
    BY <1>4, <1>5

LEMMA GateInit == G!Init => GateInv
  BY IdleIsIdle DEF G!Init, GateInv, GateType, AppHolds, CallHolds, ServerHolds, MaybeHandle

\* What a call's record is after To.
LEMMA ToStep ==
    ASSUME GateType, NEW c \in Callers, call[c].at # "idle",
           NEW s \in {"configuring", "opened", "installed", "named", "failing"}, G!To(c, s)
    PROVE  /\ call' \in [Callers -> InFlight \cup {G!Idle}]
           /\ call'[c].at = s /\ call'[c].st = call[c].st
           /\ \A d \in Callers : d # c => call'[d] = call[d]
  <1>1. call[c] \in InFlight
    BY CallInFlight
  <1>2. call' = [call EXCEPT ![c] = [call[c] EXCEPT !.at = s]]
    BY DEF G!To
  <1>3. [call[c] EXCEPT !.at = s] \in InFlight
    BY <1>1 DEF InFlight
  <1>4. [call[c] EXCEPT !.at = s].at = s /\ [call[c] EXCEPT !.at = s].st = call[c].st
    BY <1>1 DEF InFlight
  <1> HIDE DEF InFlight
  <1> QED
    BY <1>2, <1>3, <1>4 DEF GateType

\* A call ends and the gate's stores are as they were.
LEMMA FinishStep ==
    ASSUME GateType, NEW c \in Callers, G!Finish(c)
    PROVE  /\ call' \in [Callers -> InFlight \cup {G!Idle}]
           /\ call'[c].at = "idle"
           /\ \A d \in Callers : d # c => call'[d] = call[d]
  BY IdleIsIdle DEF G!Finish, GateType

LEMMA GatePost ==
    ASSUME GateInv, NEW c \in Callers, NEW doc \in Docs, G!Post(c, doc)
    PROVE  GateInv'
  <1> DEFINE rec == [at |-> "configuring", doc |-> doc, st |-> None]
  <1>1. rec \in InFlight /\ rec.at = "configuring"
    BY DEF InFlight, MaybeHandle
  <1>2. call' = [call EXCEPT ![c] = rec] /\ UNCHANGED <<state, serving, app, open, loops>>
    BY DEF G!Post
  <1> HIDE DEF rec
  <1>3. GateType'
    BY <1>1, <1>2 DEF GateInv, GateType
  <1>4. CallHolds'
    BY <1>1, <1>2 DEF GateInv, GateType, CallHolds
  <1> QED
    BY <1>2, <1>3, <1>4 DEF GateInv, AppHolds, ServerHolds

LEMMA GateOpen ==
    ASSUME GateInv, NEW c \in Callers, G!OpenStore(c)
    PROVE  GateInv'
  <1>1. call[c].at = "configuring" /\ UNCHANGED <<state, serving, app, loops>>
    BY DEF G!OpenStore
  <1>2. CASE open = {} /\ call[c].doc # "badpack"
    <2> DEFINE h == CHOOSE x \in G!Unused : TRUE
    <2>1. open' = {h} /\ call' = [call EXCEPT ![c].at = "opened", ![c].st = h]
      BY <1>2 DEF G!OpenStore
    <2>2. h \in Handles
      BY <1>2, FreshHandle
    <2> HIDE DEF h
    <2> DEFINE rec == [call[c] EXCEPT !.at = "opened", !.st = h]
    <2>3. call[c] \in InFlight
      BY <1>1, CallInFlight DEF GateInv
    <2>4. rec \in InFlight /\ rec.at = "opened" /\ rec.st = h
      BY <2>2, <2>3 DEF InFlight, MaybeHandle
    <2>5. call' = [call EXCEPT ![c] = rec]
      BY <2>1
    <2> HIDE DEF rec
    <2>6. GateType'
      BY <1>1, <2>4, <2>5 DEF GateInv, GateType
    <2>7. app = None
      BY <1>2 DEF GateInv, AppHolds
    <2>8. \A d \in Callers : call[d].at # "opened"
      BY <1>2 DEF GateInv, CallHolds
    <2>9. CallHolds'
      BY <1>1, <2>1, <2>2, <2>4, <2>5, <2>7, <2>8 DEF GateInv, GateType, CallHolds
    <2> QED
      BY <1>1, <2>6, <2>7, <2>9 DEF GateInv, AppHolds, ServerHolds
  <1>3. CASE ~(open = {} /\ call[c].doc # "badpack")
    <2>1. G!To(c, "failing") /\ UNCHANGED open
      BY <1>3 DEF G!OpenStore
    <2>2. /\ call' \in [Callers -> InFlight \cup {G!Idle}] /\ call'[c].at = "failing"
          /\ \A d \in Callers : d # c => call'[d] = call[d]
      BY <1>1, <2>1, ToStep DEF GateInv
    <2> QED
      BY <1>1, <2>1, <2>2 DEF GateInv, GateType, AppHolds, CallHolds, ServerHolds
  <1> QED
    BY <1>2, <1>3

LEMMA GateNewFails ==
    ASSUME GateInv, NEW c \in Callers, G!NewFails(c)
    PROVE  GateInv'
  <1>1. /\ call[c].at = "opened" /\ G!To(c, "failing") /\ UNCHANGED <<state, serving, app, loops>>
    BY DEF G!NewFails
  <1>2. open' = open \ {call[c].st}
    BY DEF G!NewFails
  <1>3. /\ call' \in [Callers -> InFlight \cup {G!Idle}] /\ call'[c].at = "failing"
        /\ \A d \in Callers : d # c => call'[d] = call[d]
    BY <1>1, ToStep DEF GateInv
  <1>4. app = None
    BY <1>1 DEF GateInv, CallHolds
  <1> QED
    BY <1>1, <1>3, <1>4 DEF GateInv, GateType, AppHolds, CallHolds, ServerHolds

LEMMA GateInstall ==
    ASSUME GateInv, NEW c \in Callers, G!Install(c)
    PROVE  GateInv'
  <1>1. /\ call[c].at = "opened" /\ G!To(c, "installed") /\ UNCHANGED <<state, serving>>
        /\ open' = open \ {app} /\ loops' = {call[c].st} /\ app' = call[c].st
    BY DEF G!Install
  <1>2. /\ call' \in [Callers -> InFlight \cup {G!Idle}]
        /\ call'[c].at = "installed" /\ call'[c].st = call[c].st
        /\ \A d \in Callers : d # c => call'[d] = call[d]
    BY <1>1, ToStep DEF GateInv
  <1>3. app = None /\ call[c].st \in Handles /\ open = {call[c].st}
    BY <1>1 DEF GateInv, CallHolds
  <1>4. app' # None /\ app' \in MaybeHandle /\ open' = {app'}
    BY <1>1, <1>3, HandlesAreNames DEF MaybeHandle
  <1>5. \A d \in Callers : d # c => call[d].at \notin {"opened", "installed", "named"}
    BY <1>1, <1>3 DEF GateInv, CallHolds
  <1>6. GateType'
    BY <1>1, <1>2, <1>4 DEF GateInv, GateType
  <1>7. CallHolds'
    BY <1>1, <1>2, <1>4, <1>5 DEF CallHolds
  <1>8. serving = None
    BY <1>3 DEF GateInv, ServerHolds
  <1> QED
    BY <1>1, <1>4, <1>6, <1>7, <1>8 DEF GateInv, AppHolds, ServerHolds

LEMMA GateConclude ==
    ASSUME GateInv, NEW c \in Callers, G!NameAdmins(c) \/ G!Ready(c) \/ G!Fail(c)
    PROVE  GateInv'
  <1>1. CASE G!NameAdmins(c)
    <2>1. /\ call[c].at = "installed" /\ UNCHANGED <<state, serving, app, open, loops>>
          /\ G!To(c, "failing") \/ G!To(c, "named")
      BY <1>1 DEF G!NameAdmins
    <2>2. /\ call' \in [Callers -> InFlight \cup {G!Idle}]
          /\ call'[c].at \in {"failing", "named"} /\ call'[c].st = call[c].st
          /\ \A d \in Callers : d # c => call'[d] = call[d]
      BY <2>1, ToStep DEF GateInv
    <2>3. CallHolds'
      BY <2>1, <2>2 DEF GateInv, CallHolds
    <2> QED
      BY <2>1, <2>2, <2>3 DEF GateInv, GateType, AppHolds, ServerHolds
  <1>2. CASE G!Ready(c)
    <2>1. /\ call[c].at = "named" /\ G!Finish(c) /\ UNCHANGED <<app, open, loops>>
          /\ state' = "ready" /\ serving' = call[c].st
      BY <1>2 DEF G!Ready
    <2>2. /\ call' \in [Callers -> InFlight \cup {G!Idle}] /\ call'[c].at = "idle"
          /\ \A d \in Callers : d # c => call'[d] = call[d]
      BY <2>1, FinishStep DEF GateInv
    <2>3. CallHolds'
      BY <2>1, <2>2 DEF GateInv, CallHolds
    <2>4. app # None /\ serving' = app
      BY <2>1 DEF GateInv, CallHolds
    <2> QED
      BY <2>1, <2>2, <2>3, <2>4 DEF GateInv, GateType, AppHolds, ServerHolds
  <1>3. CASE G!Fail(c)
    <2>1. /\ call[c].at = "failing" /\ G!Finish(c) /\ UNCHANGED <<serving, app, open, loops>>
          /\ state' = "failed"
      BY <1>3 DEF G!Fail
    <2>2. /\ call' \in [Callers -> InFlight \cup {G!Idle}] /\ call'[c].at = "idle"
          /\ \A d \in Callers : d # c => call'[d] = call[d]
      BY <2>1, FinishStep DEF GateInv
    <2>3. CallHolds'
      BY <2>1, <2>2 DEF GateInv, CallHolds
    <2> QED
      BY <2>1, <2>2, <2>3 DEF GateInv, GateType, AppHolds, ServerHolds
  <1> QED
    BY <1>1, <1>2, <1>3

LEMMA GateNext == GateInv /\ [BootNext]_bootVars => GateInv'
  <1> SUFFICES ASSUME GateInv, [BootNext]_bootVars PROVE GateInv'
    OBVIOUS
  <1>1. ASSUME NEW c \in Callers, NEW doc \in Docs, Arrive(c, doc) PROVE GateInv'
    BY <1>1, GatePost DEF Arrive
  <1>2. ASSUME NEW c \in Callers, CallStep(c) PROVE GateInv'
    <2>1. CASE Open(c)
      BY <2>1, GateOpen DEF Open
    <2>2. CASE NewReturnsError(c)
      BY <2>2, GateNewFails DEF NewReturnsError
    <2>3. CASE NewReturns(c)
      BY <2>3, GateInstall DEF NewReturns
    <2>4. CASE Conclude(c)
      BY <2>4, GateConclude DEF Conclude
    <2>5. CASE NewStep(c)
      BY <2>5 DEF NewStep, gateVars, GateInv, GateType, AppHolds, CallHolds, ServerHolds
    <2> QED
      BY <1>2, <2>1, <2>2, <2>3, <2>4, <2>5 DEF CallStep
  <1>3. CASE Serve \/ UNCHANGED bootVars
    BY <1>3 DEF Serve, bootVars, gateVars, GateInv, GateType, AppHolds, CallHolds, ServerHolds
  <1>4. CASE Die
    <2>1. /\ state' = "awaiting_configuration" /\ serving' = None /\ app' = None
          /\ call' = [c \in Callers |-> G!Idle]
      BY <1>4 DEF Die, G!Restart
    <2>2. \A c \in Callers : call'[c].at = "idle"
      BY <2>1, IdleIsIdle
    <2> QED
      BY <2>1, <2>2 DEF GateInv, GateType, AppHolds, CallHolds, ServerHolds, MaybeHandle
  <1> QED
    BY <1>1, <1>2, <1>3, <1>4 DEF BootNext

\* However configure calls overlap, fail and are posted again, a register that
\* answers requests does so from a store that is open, and the checkpoint loop
\* signs that store (application.close in configure).
THEOREM RequestsReachAnOpenStore == BootSpec => []ServesOpenStore
  <1>1. BootInit => GateInv
    BY GateInit DEF BootInit
  <1>2. GateInv => ServesOpenStore
    BY DEF GateInv, ServerHolds, AppHolds, ServesOpenStore, G!ServesOpenStore
  <1> QED
    BY GateNext, <1>1, <1>2, PTL DEF BootSpec

----------------------------------------------------------------------------
(* The reconciliation: types.                                              *)

Procs == [at : Stages, pack : Packs \cup {None}, next : Nat]

LEMMA PacksAreNats ==
    /\ Packs \subseteq Nat /\ 1 \in Packs /\ Cardinality(Packs) \in Nat
    /\ \A p \in Packs : p \in 0..Cardinality(Packs)
  BY PacksAreNumbered

\* What the process is after At.
LEMMA AtStep ==
    ASSUME proc \in Procs, NEW s \in Stages, At(s)
    PROVE  proc' \in Procs /\ proc'.at = s /\ proc'.pack = proc.pack /\ proc'.next = proc.next
  BY DEF At, Procs

LEMMA NextStep ==
    ASSUME proc \in Procs, NEW n \in Nat, proc' = [proc EXCEPT !.next = n]
    PROVE  proc' \in Procs /\ proc'.at = proc.at /\ proc'.pack = proc.pack /\ proc'.next = n
  BY DEF Procs

LEMMA DownIsProc == Down \in Procs /\ Down.at = "down"
  BY DEF Down, Procs, Stages

\* What one row of the query table is after it is written.
LEMMA RowStep ==
    ASSUME table \in Tables, NEW o \in Ids, NEW n \in 0..MaxHead,
           table' = [table EXCEPT !.rows[o] = n]
    PROVE  /\ table' \in Tables /\ table'.fp = table.fp
           /\ table'.rows = [table.rows EXCEPT ![o] = n]
           /\ table'.rows[o] = n /\ \A x \in Ids : x # o => table'.rows[x] = table.rows[x]
  BY DEF Tables

\* Put writes a record and its row.
LEMMA PutStep ==
    ASSUME TypeOK, table # None, NEW o \in Ids, NEW key \in Keys, NEW n \in 1..MaxHead,
           Put(o, key, n)
    PROVE  /\ objects' \in [Ids -> Objects \cup {None}] /\ objects'[o] = [key |-> key, head |-> n]
           /\ \A x \in Ids : x # o => objects'[x] = objects[x]
           /\ table' \in Tables /\ table'.fp = table.fp
           /\ table'.rows[o] = n /\ \A x \in Ids : x # o => table'.rows[x] = table.rows[x]
  <1>1. [key |-> key, head |-> n] \in Objects
    BY DEF Objects
  <1>2. objects' = [objects EXCEPT ![o] = [key |-> key, head |-> n]]
    BY DEF Put
  <1>3. table \in Tables /\ n \in 0..MaxHead /\ table' = [table EXCEPT !.rows[o] = n]
    BY BoundsAreNat DEF TypeOK, Put
  <1>4. /\ table' \in Tables /\ table'.fp = table.fp
        /\ table'.rows[o] = n /\ \A x \in Ids : x # o => table'.rows[x] = table.rows[x]
    BY <1>3, RowStep
  <1> HIDE DEF Objects
  <1> QED
    BY <1>1, <1>2, <1>4 DEF TypeOK

\* The key a seed record was written with.
LEMMA SeedKey ==
    ASSUME NEW seed \in [DOMAIN Seeds[1] -> Ids], NEW x, \E i \in DOMAIN seed : seed[i] = x
    PROVE  Seeds[1][CHOOSE i \in DOMAIN seed : seed[i] = x] \in Keys
  <1>1. Seeds[1] \in Seq(Keys) /\ DOMAIN seed = DOMAIN Seeds[1]
    BY PacksAreNats, SeedsAreKeys
  <1> DEFINE n == CHOOSE i \in DOMAIN seed : seed[i] = x
  <1>2. n \in DOMAIN Seeds[1]
    BY <1>1
  <1> HIDE DEF n
  <1>3. Seeds[1][n] \in Keys
    BY <1>1, <1>2
  <1> QED
    BY <1>3 DEF n

LEMMA TypeInit == Init => TypeOK
  <1> SUFFICES ASSUME Init PROVE TypeOK
    OBVIOUS
  <1>1. proc \in [at : Stages, pack : Packs \cup {None}, next : Nat] /\ crashes \in 0..MaxCrashes
    BY DownIsProc, BoundsAreNat DEF Init, Procs
  <1>2. CASE Fresh
    <2>1. newest \in 0..Cardinality(Packs)
      BY <1>2, PacksAreNats DEF Fresh
    <2> QED
      BY <1>1, <1>2, <2>1 DEF Fresh, TypeOK
  <1>3. CASE Inherited
    <2>1. PICK seed \in [DOMAIN Seeds[1] -> Ids], o \in Ids, key \in Keys, done \in 0..2 :
            LeftBehind(seed, o, key, done)
      BY <1>3 DEF Inherited
    <2> DEFINE held == {seed[i] : i \in DOMAIN seed} \cup IF done > 0 THEN {o} ELSE {}
               keyOf(x) == IF x = o THEN key ELSE Seeds[1][CHOOSE i \in DOMAIN seed : seed[i] = x]
    <2>3. \A x \in held : keyOf(x) \in Keys
      BY SeedKey
    <2>4. objects = [x \in Ids |-> IF x \in held THEN [key |-> keyOf(x), head |-> 1] ELSE None]
      BY <2>1 DEF LeftBehind
    <2>5. table = [fp |-> Fp[1],
                   rows |-> [x \in Ids |-> IF x \in held /\ (x # o \/ done = 2) THEN 1 ELSE 0]]
      BY <2>1 DEF LeftBehind
    <2> HIDE DEF held, keyOf
    <2>6. objects \in [Ids -> Objects \cup {None}]
      BY <2>3, <2>4, BoundsAreNat DEF Objects
    <2>7. Fp[1] \in Fps
      BY PacksAreNats DEF Fps
    <2>8. table \in Tables
      BY <2>5, <2>7, BoundsAreNat DEF Tables
    <2>9. pending \in Writes /\ marker \in Fps /\ seeded \subseteq Packs
          /\ newest \in 0..Cardinality(Packs) /\ policy \in {Pol[p] : p \in Packs}
      BY <2>1, <2>7, PacksAreNats DEF LeftBehind, Writes
    <2>10. schemas \in Seq({Doc[p] : p \in Packs})
      <3>1. schemas = <<Doc[1]>> /\ Doc[1] \in {Doc[p] : p \in Packs}
        BY <2>1, PacksAreNats DEF LeftBehind
      <3> QED
        BY <3>1
    <2> QED
      BY <1>1, <2>6, <2>8, <2>9, <2>10 DEF TypeOK
  <1> QED
    BY <1>2, <1>3 DEF Init

----------------------------------------------------------------------------
(* The reconciliation: what a boot may rely on.                            *)

\* The query table is complete but for the row of a registration to be replayed.
RowsMatch == \A o \in Ids : table.rows[o] = Heads[o] \/ (pending # None /\ o = pending.id)
Whole     == table # None /\ table.fp = marker /\ RowsMatch

\* No pack that can still be loaded will take the table as it is.
Behind == \A p \in Packs : p >= newest => marker # Fp[p]

\* The process runs the newest pack, and counts its steps from one.
Loaded == proc.at # "down" => proc.pack = newest /\ newest \in Packs /\ proc.next >= 1

\* The marker was written with the active schema.
Recorded ==
    /\ schemas = <<>> => marker = None
    /\ schemas # <<>> => \E q \in Packs : /\ q <= newest /\ marker = Fp[q]
                                          /\ schemas[Len(schemas)] = Doc[q]

\* A table that ensureProjections will leave alone is the one it should be.
Trusted == Whole \/ Behind

\* A pending transaction: its own record and row are the only ones in doubt, and
\* the replay has written them up to where it is.
Replayed ==
    pending # None =>
        /\ proc.at \in {"down", "replay"} /\ Whole
        /\ proc.at = "replay" =>
            /\ proc.next \in {2, 3} => objects[pending.id] = [key |-> pending.key, head |-> 1]
            /\ proc.next = 3 => table.rows[pending.id] = 1

\* What each stage of New finds done.
Reached ==
    /\ proc.at \in {"create", "populate"} => Behind
    /\ proc.at = "populate" => /\ table # None /\ table.fp = Fp[newest]
                               /\ \A o \in Ids \ Held : table.rows[o] = 0
    /\ proc.at \in {"schema", "policy", "seed", "ready"} =>
        table # None /\ table.fp = Fp[newest] /\ RowsMatch
    /\ proc.at \in {"policy", "seed", "ready"} =>
        marker = Fp[newest] /\ schemas # <<>> /\ schemas[Len(schemas)] = Doc[newest]
    /\ proc.at \in {"seed", "ready"} => policy = Pol[newest]

RecInv == TypeOK /\ Loaded /\ Recorded /\ Trusted /\ Replayed /\ Reached

\* The head of a record, seen from the objects table.
LEMMA HeadsAre ==
    ASSUME TypeOK
    PROVE  \A o \in Ids : /\ o \in Held => objects[o] \in Objects /\ objects[o].head \in 1..MaxHead
                                           /\ objects[o].key \in Keys /\ Heads[o] = objects[o].head
                          /\ o \notin Held => objects[o] = None /\ Heads[o] = 0
  BY DEF TypeOK, Held, Heads, Objects

LEMMA RecInit == Init => RecInv
  <1> SUFFICES ASSUME Init PROVE RecInv
    OBVIOUS
  <1>1. TypeOK /\ proc.at = "down"
    BY TypeInit, DownIsProc DEF Init
  <1>2. CASE Fresh
    <2>1. marker = None /\ schemas = <<>> /\ pending = None
      BY <1>2 DEF Fresh
    <2>2. Behind
      BY <2>1, NoneIsNothing DEF Behind, Fps
    <2> QED
      BY <1>1, <2>1, <2>2 DEF RecInv, Loaded, Recorded, Trusted, Replayed, Reached
  <1>3. CASE Inherited
    <2>1. PICK seed \in [DOMAIN Seeds[1] -> Ids], o \in Ids, key \in Keys, done \in 0..2 :
            LeftBehind(seed, o, key, done)
      BY <1>3 DEF Inherited
    <2> DEFINE held == {seed[i] : i \in DOMAIN seed} \cup IF done > 0 THEN {o} ELSE {}
               keyOf(x) == IF x = o THEN key ELSE Seeds[1][CHOOSE i \in DOMAIN seed : seed[i] = x]
    <2>2. /\ pending = [id |-> o, key |-> key] /\ marker = Fp[1] /\ schemas = <<Doc[1]>>
          /\ newest = 1
      BY <2>1 DEF LeftBehind
    <2>3. objects = [x \in Ids |-> IF x \in held THEN [key |-> keyOf(x), head |-> 1] ELSE None]
      BY <2>1 DEF LeftBehind
    <2>4. table = [fp |-> Fp[1],
                   rows |-> [x \in Ids |-> IF x \in held /\ (x # o \/ done = 2) THEN 1 ELSE 0]]
      BY <2>1 DEF LeftBehind
    <2> HIDE DEF held, keyOf
    <2>5. table # None /\ table.fp = marker
      <3>1. table \in Tables \cup {None} /\ table.fp = Fp[1]
        BY <1>1, <2>4 DEF TypeOK
      <3>2. Fp[1] \in Fps
        BY PacksAreNats DEF Fps
      <3>3. table \in Tables
        BY <2>4, <3>2, BoundsAreNat DEF Tables
      <3> QED
        BY <2>2, <3>1, <3>3, NoneIsNothing
    <2>6. pending # None /\ pending.id = o
      BY <2>2, NoneIsNothing DEF Writes
    <2>7. ASSUME NEW x \in Ids, x # o PROVE table.rows[x] = Heads[x]
      <3>1. CASE x \in held
        <4>1. objects[x] = [key |-> keyOf(x), head |-> 1] /\ table.rows[x] = 1
          BY <2>3, <2>4, <2>7, <3>1
        <4>2. x \in Held
          <5>1. \E i \in DOMAIN seed : seed[i] = x
            BY <2>7, <3>1 DEF held
          <5>2. keyOf(x) \in Keys
            BY <2>7, <5>1, SeedKey DEF keyOf
          <5>3. objects[x] \in Objects
            BY <4>1, <5>2, BoundsAreNat DEF Objects
          <5> QED
            BY <5>3, NoneIsNothing DEF Held
        <4> QED
          BY <1>1, <4>1, <4>2, HeadsAre
      <3>2. CASE x \notin held
        <4>1. objects[x] = None /\ table.rows[x] = 0
          BY <2>3, <2>4, <3>2
        <4> QED
          BY <1>1, <4>1, HeadsAre DEF Held
      <3> QED
        BY <3>1, <3>2
    <2>8. Whole
      BY <2>5, <2>6, <2>7 DEF Whole, RowsMatch
    <2>9. Recorded
      <3>1. schemas # <<>> /\ schemas[Len(schemas)] = Doc[1]
        BY <2>2
      <3> QED
        BY <2>2, <3>1, PacksAreNats DEF Recorded
    <2> QED
      BY <1>1, <2>8, <2>9 DEF RecInv, Loaded, Trusted, Replayed, Reached
  <1> QED
    BY <1>2, <1>3 DEF Init

\* Whether the table is complete is a matter of the records and the table.
LEMMA SameDisk ==
    /\ UNCHANGED objects => Held' = Held /\ Heads' = Heads
    /\ UNCHANGED <<objects, table, pending>> => RowsMatch' = RowsMatch
    /\ UNCHANGED <<objects, table, pending, marker>> => Whole' = Whole
    /\ UNCHANGED <<marker, newest>> => Behind' = Behind
    /\ UNCHANGED <<marker, newest, schemas>> => Recorded' = Recorded
  BY DEF Held, Heads, RowsMatch, Whole, Behind, Recorded

\* A pack that does not find its own fingerprint finds a table no later one
\* will take either.
LEMMA NotMineIsBehind ==
    ASSUME ForwardOnly, TypeOK, Recorded, newest \in Packs, marker # Fp[newest]
    PROVE  Behind
  <1> SUFFICES ASSUME NEW p \in Packs, p >= newest, marker = Fp[p] PROVE FALSE
    BY DEF Behind
  <1>1. marker # None
    BY NoneIsNothing DEF Fps
  <1>2. PICK q \in Packs : q <= newest /\ marker = Fp[q]
    BY <1>1 DEF Recorded
  <1>3. newest <= p /\ Fp[q] = Fp[p]
    BY <1>2, PacksAreNats
  <1> QED
    BY <1>2, <1>3 DEF ForwardOnly

\* Between configure and the end of the replay.
LEMMA RecReplay ==
    ASSUME RecInv, ForwardOnly, \/ \E p \in Packs : Configure(p)
                                \/ ReplayObject \/ ReplayRow \/ ReplayMark \/ ReplayDone
    PROVE  RecInv'
  <1> USE DEF RecInv
  <1>0. proc \in Procs
    BY DEF TypeOK, Procs
  <1>1. ASSUME NEW p \in Packs, Configure(p) PROVE RecInv'
    <2>1. proc.at = "down" /\ p >= newest /\ UNCHANGED <<disk, crashes>>
      BY <1>1 DEF Configure, ForwardOnly
    <2>2. newest' = p
      BY <1>1, <2>1, PacksAreNats DEF Configure, TypeOK
    <2>3. proc' = [at |-> "replay", pack |-> p, next |-> 1]
      BY <1>1 DEF Configure
    <2>4. proc'.at = "replay" /\ proc'.pack = p /\ proc'.next = 1 /\ proc' \in Procs
      BY <2>3 DEF Procs, Stages
    <2>5. newest \in Nat /\ p \in Nat /\ p \in 0..Cardinality(Packs) /\ Packs \subseteq Nat
      BY PacksAreNats DEF TypeOK
    <2>6. TypeOK'
      BY <2>1, <2>2, <2>4, <2>5 DEF disk, TypeOK, Procs
    <2>7. Whole' = Whole
      BY <2>1, SameDisk DEF disk
    <2>8. Behind => Behind'
      BY <2>1, <2>2, <2>5 DEF Behind, disk
    <2>9. Recorded'
      <3>1. \A q \in Packs : q <= newest => q <= p
        BY <2>1, <2>5
      <3> QED
        BY <2>1, <2>2, <3>1 DEF Recorded, disk
    <2>10. Loaded' /\ Reached' /\ Trusted'
      BY <2>2, <2>4, <2>7, <2>8 DEF Loaded, Reached, Trusted
    <2>11. Replayed'
      BY <2>1, <2>4, <2>7 DEF Replayed, disk
    <2> QED
      BY <2>6, <2>9, <2>10, <2>11
  <1>2. CASE ReplayObject
    <2> DEFINE rec == [key |-> pending.key, head |-> 1]
    <2>1. /\ proc.at = "replay" /\ pending # None /\ objects' = [objects EXCEPT ![pending.id] = rec]
          /\ proc' = [proc EXCEPT !.next = 2]
          /\ UNCHANGED <<pending, table, marker, schemas, policy, seeded, newest, crashes>>
      BY <1>2 DEF ReplayObject
    <2>2. proc' \in Procs /\ proc'.at = "replay" /\ proc'.pack = proc.pack /\ proc'.next = 2
      BY <1>0, <2>1, NextStep
    <2>3. pending.id \in Ids /\ rec \in Objects
      BY <2>1, BoundsAreNat DEF TypeOK, Writes, Objects
    <2> HIDE DEF rec
    <2>4. /\ objects' \in [Ids -> Objects \cup {None}] /\ objects'[pending.id] = rec
          /\ \A x \in Ids : x # pending.id => objects'[x] = objects[x]
      BY <2>1, <2>3 DEF TypeOK
    <2>5. TypeOK'
      BY <2>1, <2>2, <2>4 DEF TypeOK, Procs
    <2>6. \A x \in Ids : x # pending.id => Heads'[x] = Heads[x]
      BY <2>4 DEF Heads, Held
    <2>7. Whole'
      BY <2>1, <2>6 DEF Replayed, Whole, RowsMatch
    <2>8. Recorded' /\ Loaded' /\ Reached' /\ Trusted'
      BY <2>1, <2>2, <2>7, SameDisk DEF Loaded, Reached, Trusted
    <2>9. Replayed'
      BY <2>1, <2>2, <2>4, <2>7 DEF Replayed, rec
    <2> QED
      BY <2>5, <2>8, <2>9
  <1>3. CASE ReplayRow
    <2>1. /\ proc.at = "replay" /\ pending # None /\ proc.next = 2
          /\ table' = [table EXCEPT !.rows[pending.id] = 1]
          /\ proc' = [proc EXCEPT !.next = 3]
          /\ UNCHANGED <<objects, pending, marker, schemas, policy, seeded, newest, crashes>>
      BY <1>3 DEF ReplayRow
    <2>2. proc' \in Procs /\ proc'.at = "replay" /\ proc'.pack = proc.pack /\ proc'.next = 3
      BY <1>0, <2>1, NextStep
    <2>3. pending.id \in Ids /\ 1 \in 0..MaxHead /\ table \in Tables
      BY <2>1, BoundsAreNat DEF TypeOK, Writes, Replayed, Whole
    <2>4. /\ table' \in Tables /\ table'.fp = table.fp /\ table'.rows[pending.id] = 1
          /\ \A x \in Ids : x # pending.id => table'.rows[x] = table.rows[x]
      BY <2>1, <2>3, RowStep
    <2>5. TypeOK'
      BY <2>1, <2>2, <2>4 DEF TypeOK, Procs
    <2>6. Whole'
      <3>1. table' # None
        BY <2>4, NoneIsNothing
      <3> QED
        BY <2>1, <2>4, <3>1, SameDisk DEF Replayed, Whole, RowsMatch
    <2>7. Recorded' /\ Loaded' /\ Reached' /\ Trusted'
      BY <2>1, <2>2, <2>6, SameDisk DEF Loaded, Reached, Trusted
    <2>8. Replayed'
      BY <2>1, <2>2, <2>4, <2>6 DEF Replayed
    <2> QED
      BY <2>5, <2>7, <2>8
  <1>4. CASE ReplayMark
    <2>1. /\ proc.at = "replay" /\ pending # None /\ proc.next = 3 /\ pending' = None
          /\ proc' = [proc EXCEPT !.next = 1]
          /\ UNCHANGED <<objects, table, marker, schemas, policy, seeded, newest, crashes>>
      BY <1>4 DEF ReplayMark
    <2>2. proc' \in Procs /\ proc'.at = "replay" /\ proc'.pack = proc.pack /\ proc'.next = 1
      BY <1>0, <2>1, NextStep
    <2>3. TypeOK'
      BY <2>1, <2>2 DEF TypeOK, Procs
    <2>4. pending.id \in Ids /\ table.rows[pending.id] = Heads[pending.id]
      <3>1. pending.id \in Ids /\ pending.key \in Keys
        BY <2>1 DEF TypeOK, Writes
      <3>2. objects[pending.id] = [key |-> pending.key, head |-> 1] /\ table.rows[pending.id] = 1
        BY <2>1 DEF Replayed
      <3>3. objects[pending.id] \in Objects /\ objects[pending.id].head = 1
        BY <3>1, <3>2, BoundsAreNat DEF Objects
      <3>4. pending.id \in Held
        BY <3>1, <3>3, NoneIsNothing DEF Held
      <3> QED
        BY <3>1, <3>2, <3>3, <3>4, HeadsAre
    <2>5. Whole'
      BY <2>1, <2>4, SameDisk DEF Replayed, Whole, RowsMatch
    <2>6. Recorded' /\ Loaded' /\ Reached' /\ Trusted' /\ Replayed'
      BY <2>1, <2>2, <2>5, SameDisk DEF Loaded, Reached, Trusted, Replayed
    <2> QED
      BY <2>3, <2>6
  <1>5. CASE ReplayDone
    <2>1. proc.at = "replay" /\ pending = None /\ At("drop") /\ UNCHANGED <<disk, newest, crashes>>
      BY <1>5 DEF ReplayDone
    <2>2. proc' \in Procs /\ proc'.at = "drop" /\ proc'.pack = proc.pack /\ proc'.next = proc.next
      BY <1>0, <2>1, AtStep DEF Stages
    <2>3. TypeOK'
      BY <2>1, <2>2 DEF TypeOK, Procs, disk
    <2>4. Recorded' /\ Loaded' /\ Reached' /\ Trusted' /\ Replayed'
      BY <2>1, <2>2, SameDisk DEF Loaded, Reached, Trusted, Replayed, disk
    <2> QED
      BY <2>3, <2>4
  <1> QED
    BY <1>1, <1>2, <1>3, <1>4, <1>5

\* ensureProjections and registerSchema.
LEMMA RecProject ==
    ASSUME RecInv, ForwardOnly, \/ Drop \/ Create \/ PopulateDone \/ RegisterSchema
                                \/ \E o \in Ids : PopulateOne(o)
    PROVE  RecInv'
  <1> USE DEF RecInv
  <1>0. proc \in Procs
    BY DEF TypeOK, Procs
  <1>1. CASE Drop
    <2>1. /\ proc.at = "drop" /\ pending = None /\ proc.pack = newest /\ newest \in Packs
          /\ UNCHANGED <<objects, pending, marker, schemas, policy, seeded, newest, crashes>>
      BY <1>1 DEF Drop, Replayed, Loaded
    <2>2. CASE InLineAlready(proc.pack)
      <3>1. At("schema") /\ UNCHANGED table /\ table # None /\ marker = Fp[newest]
        BY <1>1, <2>1, <2>2 DEF Drop, InLineAlready
      <3>2. proc' \in Procs /\ proc'.at = "schema" /\ proc'.pack = proc.pack /\ proc'.next = proc.next
        BY <1>0, <3>1, AtStep DEF Stages
      <3>3. TypeOK'
        BY <2>1, <3>1, <3>2 DEF TypeOK, Procs
      <3>4. Whole
        BY <2>1, <3>1, PacksAreNats DEF Trusted, Behind
      <3>5. Recorded' /\ Loaded' /\ Trusted' /\ Replayed'
        BY <2>1, <3>1, <3>2, SameDisk DEF Loaded, Trusted, Replayed
      <3>6. Reached'
        BY <2>1, <3>1, <3>2, <3>4, SameDisk DEF Reached, Whole
      <3> QED
        BY <3>3, <3>5, <3>6
    <2>3. CASE ~InLineAlready(proc.pack)
      <3>1. At("create") /\ table' = None
        BY <1>1, <2>3 DEF Drop
      <3>2. proc' \in Procs /\ proc'.at = "create" /\ proc'.pack = proc.pack /\ proc'.next = proc.next
        BY <1>0, <3>1, AtStep DEF Stages
      <3>3. TypeOK'
        BY <2>1, <3>1, <3>2 DEF TypeOK, Procs
      <3>4. Behind
        <4>1. CASE table = None
          BY <4>1 DEF Trusted, Whole
        <4>2. CASE marker # Fp[newest]
          BY <2>1, <4>2, NotMineIsBehind
        <4> QED
          BY <2>1, <2>3, <4>1, <4>2 DEF InLineAlready
      <3>5. Recorded' /\ Loaded' /\ Trusted' /\ Replayed' /\ Reached'
        BY <2>1, <3>2, <3>4, SameDisk DEF Loaded, Trusted, Replayed, Reached
      <3> QED
        BY <3>3, <3>5
    <2> QED
      BY <2>2, <2>3
  <1>2. CASE Create
    <2>1. /\ proc.at = "create" /\ table' = [fp |-> Fp[newest], rows |-> NoRows] /\ At("populate")
          /\ pending = None /\ proc.pack = newest /\ newest \in Packs /\ Behind
          /\ UNCHANGED <<objects, pending, marker, schemas, policy, seeded, newest, crashes>>
      BY <1>2 DEF Create, Loaded, Replayed, Reached
    <2>2. proc' \in Procs /\ proc'.at = "populate" /\ proc'.pack = proc.pack /\ proc'.next = proc.next
      BY <1>0, <2>1, AtStep DEF Stages
    <2>3. table' \in Tables /\ table'.fp = Fp[newest] /\ \A o \in Ids : table'.rows[o] = 0
      <3>1. Fp[newest] \in Fps
        BY <2>1 DEF Fps
      <3> QED
        BY <2>1, <3>1, BoundsAreNat DEF Tables, NoRows
    <2>4. TypeOK'
      BY <2>1, <2>2, <2>3 DEF TypeOK, Procs
    <2>5. Recorded' /\ Loaded' /\ Trusted' /\ Replayed'
      BY <2>1, <2>2, SameDisk DEF Loaded, Trusted, Replayed
    <2>6. Reached'
      BY <2>1, <2>2, <2>3, NoneIsNothing, SameDisk DEF Reached
    <2> QED
      BY <2>4, <2>5, <2>6
  <1>3. ASSUME NEW o \in Ids, PopulateOne(o) PROVE RecInv'
    <2>1. /\ proc.at = "populate" /\ o \in Held /\ table' = [table EXCEPT !.rows[o] = objects[o].head]
          /\ UNCHANGED <<objects, pending, marker, schemas, policy, seeded, proc, newest, crashes>>
      BY <1>3 DEF PopulateOne, Missing
    <2>2. table \in Tables /\ table.fp = Fp[newest] /\ Behind
          /\ \A x \in Ids \ Held : table.rows[x] = 0
      BY <2>1 DEF Reached, TypeOK
    <2>3. objects[o].head \in 0..MaxHead
      BY <2>1, HeadsAre, BoundsAreNat
    <2>4. /\ table' \in Tables /\ table'.fp = table.fp
          /\ \A x \in Ids : x # o => table'.rows[x] = table.rows[x]
      BY <2>1, <2>2, <2>3, RowStep
    <2>5. TypeOK'
      BY <2>1, <2>4 DEF TypeOK
    <2>6. Recorded' /\ Loaded' /\ Trusted' /\ Replayed'
      BY <2>1, <2>2, SameDisk DEF Loaded, Trusted, Replayed
    <2>7. Reached'
      <3>1. \A x \in Ids \ Held' : table'.rows[x] = 0
        BY <2>1, <2>2, <2>4, SameDisk
      <3> QED
        BY <2>1, <2>2, <2>4, <3>1, NoneIsNothing, SameDisk DEF Reached
    <2> QED
      BY <2>5, <2>6, <2>7
  <1>4. CASE PopulateDone
    <2>1. /\ proc.at = "populate" /\ Missing = {} /\ At("schema")
          /\ UNCHANGED <<disk, newest, crashes>>
      BY <1>4 DEF PopulateDone
    <2>2. proc' \in Procs /\ proc'.at = "schema" /\ proc'.pack = proc.pack /\ proc'.next = proc.next
      BY <1>0, <2>1, AtStep DEF Stages
    <2>3. TypeOK'
      BY <2>1, <2>2 DEF TypeOK, Procs, disk
    <2>4. RowsMatch
      <3>1. \A o \in Ids : o \in Held => table.rows[o] = objects[o].head
        BY <2>1 DEF Missing
      <3>2. \A o \in Ids : o \notin Held => table.rows[o] = 0
        BY <2>1 DEF Reached
      <3> QED
        BY <3>1, <3>2, HeadsAre DEF RowsMatch
    <2>5. Recorded' /\ Loaded' /\ Trusted' /\ Replayed'
      BY <2>1, <2>2, SameDisk DEF Loaded, Trusted, Replayed, disk
    <2>6. Reached'
      BY <2>1, <2>2, <2>4, SameDisk DEF Reached, disk
    <2> QED
      BY <2>3, <2>5, <2>6
  <1>5. CASE RegisterSchema
    <2>1. /\ proc.at = "schema" /\ At("policy") /\ proc.pack = newest /\ newest \in Packs
          /\ table # None /\ table.fp = Fp[newest] /\ RowsMatch
          /\ UNCHANGED <<objects, pending, table, policy, seeded, newest, crashes>>
      BY <1>5 DEF RegisterSchema, Loaded, Reached
    <2>2. proc' \in Procs /\ proc'.at = "policy" /\ proc'.pack = proc.pack /\ proc'.next = proc.next
      BY <1>0, <2>1, AtStep DEF Stages
    <2>3. /\ schemas' \in Seq({Doc[p] : p \in Packs}) /\ marker' \in Fps \cup {None}
          /\ marker' = Fp[newest] /\ schemas' # <<>> /\ schemas'[Len(schemas')] = Doc[newest]
      <3>1. CASE schemas # <<>> /\ schemas[Len(schemas)] = Doc[newest]
        <4>1. UNCHANGED <<schemas, marker>>
          BY <1>5, <2>1, <3>1 DEF RegisterSchema
        <4>2. PICK q \in Packs : marker = Fp[q] /\ schemas[Len(schemas)] = Doc[q]
          BY <3>1 DEF Recorded
        <4>3. Fp[q] = Fp[newest]
          BY <2>1, <3>1, <4>2, FpFollowsDoc
        <4> QED
          BY <3>1, <4>1, <4>2, <4>3 DEF TypeOK
      <3>2. CASE ~(schemas # <<>> /\ schemas[Len(schemas)] = Doc[newest])
        <4>1. schemas' = Append(schemas, Doc[newest]) /\ marker' = Fp[newest]
          BY <1>5, <2>1, <3>2 DEF RegisterSchema
        <4>2. Doc[newest] \in {Doc[p] : p \in Packs} /\ schemas \in Seq({Doc[p] : p \in Packs})
          BY <2>1 DEF TypeOK
        <4>3. /\ schemas' \in Seq({Doc[p] : p \in Packs}) /\ schemas' # <<>>
              /\ schemas'[Len(schemas')] = Doc[newest]
          BY <4>1, <4>2
        <4>4. marker' \in Fps
          BY <2>1, <4>1 DEF Fps
        <4> QED
          BY <4>1, <4>3, <4>4
      <3> QED
        BY <3>1, <3>2
    <2>4. TypeOK'
      BY <2>1, <2>2, <2>3 DEF TypeOK, Procs
    <2>5. Recorded'
      BY <2>1, <2>3, PacksAreNats DEF Recorded
    <2>6. RowsMatch' /\ Whole'
      BY <2>1, <2>3, SameDisk DEF Whole
    <2>7. Loaded' /\ Trusted' /\ Replayed'
      BY <2>1, <2>2, <2>6 DEF Loaded, Trusted, Replayed
    <2>8. Reached'
      BY <2>1, <2>2, <2>3, <2>6 DEF Reached
    <2> QED
      BY <2>4, <2>5, <2>7, <2>8
  <1> QED
    BY <1>1, <1>2, <1>3, <1>4, <1>5

\* The rest of New leaves the table and the marker alone.
LEMMA RecFinish ==
    ASSUME RecInv, \/ RegisterPolicy \/ SeedSkipped \/ SeedMarked \/ SeedFails \/ Crash
                   \/ UNCHANGED vars
    PROVE  RecInv'
  <1> USE DEF RecInv
  <1>0. proc \in Procs
    BY DEF TypeOK, Procs
  <1>1. CASE RegisterPolicy
    <2>1. /\ proc.at = "policy" /\ policy' = Pol[newest] /\ At("seed") /\ newest \in Packs
          /\ UNCHANGED <<objects, pending, table, marker, schemas, seeded, newest, crashes>>
      BY <1>1 DEF RegisterPolicy, Loaded
    <2>2. proc' \in Procs /\ proc'.at = "seed" /\ proc'.pack = proc.pack /\ proc'.next = proc.next
      BY <1>0, <2>1, AtStep DEF Stages
    <2>3. TypeOK'
      BY <2>1, <2>2 DEF TypeOK, Procs
    <2> QED
      BY <2>1, <2>2, <2>3, SameDisk DEF Loaded, Trusted, Replayed, Reached
  <1>2. CASE SeedSkipped \/ SeedMarked
    <2>1. /\ proc.at = "seed" /\ At("ready") /\ seeded' \in {seeded, seeded \cup {proc.pack}}
          /\ UNCHANGED <<objects, pending, table, marker, schemas, policy, newest, crashes>>
      BY <1>2 DEF SeedSkipped, SeedMarked, Seeding, disk
    <2>2. proc' \in Procs /\ proc'.at = "ready" /\ proc'.pack = proc.pack /\ proc'.next = proc.next
      BY <1>0, <2>1, AtStep DEF Stages
    <2>3. TypeOK'
      BY <2>1, <2>2 DEF TypeOK, Procs, Loaded
    <2> QED
      BY <2>1, <2>2, <2>3, SameDisk DEF Loaded, Trusted, Replayed, Reached
  <1>3. CASE SeedFails \/ Crash
    <2>1. proc' = Down /\ UNCHANGED <<disk, newest>> /\ crashes' \in 0..MaxCrashes
      BY <1>3, BoundsAreNat DEF SeedFails, Crash, TypeOK
    <2>2. proc' \in Procs /\ proc'.at = "down"
      BY <2>1, DownIsProc
    <2>3. TypeOK'
      BY <2>1, <2>2 DEF TypeOK, Procs, disk
    <2> QED
      BY <2>1, <2>2, <2>3, SameDisk DEF Loaded, Trusted, Replayed, Reached, disk
  <1>4. CASE UNCHANGED vars
    BY <1>4, SameDisk DEF vars, disk, TypeOK, Loaded, Trusted, Replayed, Reached
  <1> QED
    BY <1>1, <1>2, <1>3, <1>4

\* A write of a record, by the seed or by the register at work.
LEMMA RecPut ==
    ASSUME RecInv, NEW o \in Ids, NEW key \in Keys, NEW n \in 1..MaxHead, Put(o, key, n),
           proc.at \in {"seed", "ready"}, proc' \in Procs, proc'.at = proc.at,
           proc'.pack = proc.pack, proc'.next >= 1,
           UNCHANGED <<pending, marker, schemas, policy, seeded, newest, crashes>>
    PROVE  RecInv'
  <1> USE DEF RecInv
  <1>1. /\ pending = None /\ table # None /\ table.fp = Fp[newest] /\ RowsMatch
        /\ marker = Fp[newest]
    BY DEF Replayed, Reached
  <1>2. /\ objects' \in [Ids -> Objects \cup {None}] /\ objects'[o] = [key |-> key, head |-> n]
        /\ \A x \in Ids : x # o => objects'[x] = objects[x]
        /\ table' \in Tables /\ table'.fp = table.fp
        /\ table'.rows[o] = n /\ \A x \in Ids : x # o => table'.rows[x] = table.rows[x]
    BY <1>1, PutStep
  <1>3. TypeOK'
    BY <1>2 DEF TypeOK, Procs
  <1>4. RowsMatch'
    <2>1. objects'[o] \in Objects /\ objects'[o].head = n
      BY <1>2 DEF Objects
    <2>2. o \in Held'
      BY <2>1, NoneIsNothing DEF Held
    <2>3. Heads'[o] = n
      BY <2>1, <2>2 DEF Heads
    <2>4. \A x \in Ids : x # o => Heads'[x] = Heads[x]
      BY <1>2 DEF Heads, Held
    <2> QED
      BY <1>1, <1>2, <2>3, <2>4 DEF RowsMatch
  <1>5. table' # None /\ Whole'
    BY <1>1, <1>2, <1>4, NoneIsNothing DEF Whole
  <1>6. Recorded' /\ Loaded' /\ Trusted' /\ Replayed'
    BY <1>1, <1>5, SameDisk DEF Loaded, Trusted, Replayed
  <1>7. Reached'
    BY <1>1, <1>2, <1>4, <1>5, SameDisk DEF Reached
  <1> QED
    BY <1>3, <1>6, <1>7

LEMMA RecNext == ForwardOnly /\ RecInv /\ [Next]_vars => RecInv'
  <1> SUFFICES ASSUME ForwardOnly, RecInv, [Next]_vars PROVE RecInv'
    OBVIOUS
  <1>0. proc \in Procs /\ TypeOK
    BY DEF RecInv, TypeOK, Procs
  <1>1. ASSUME NEW o \in Ids, SeedOne(o) PROVE RecInv'
    <2> DEFINE key == Seeds[proc.pack][proc.next]
    <2>1. /\ proc.at = "seed" /\ proc.next <= Len(Seeds[proc.pack]) /\ Put(o, key, 1)
          /\ proc' = [proc EXCEPT !.next = proc.next + 1]
          /\ UNCHANGED <<pending, marker, schemas, policy, seeded, newest, crashes>>
      BY <1>1 DEF SeedOne, Seeding
    <2>2. proc.pack \in Packs /\ proc.next \in Nat /\ proc.next >= 1
      BY <1>0, <2>1 DEF RecInv, Loaded, Procs
    <2>3. key \in Keys
      <3>1. Seeds[proc.pack] \in Seq(Keys)
        BY <2>2, SeedsAreKeys
      <3> QED
        BY <2>1, <2>2, <3>1
    <2>4. proc' \in Procs /\ proc'.at = proc.at /\ proc'.pack = proc.pack /\ proc'.next >= 1
      BY <1>0, <2>1, <2>2, NextStep
    <2>5. 1 \in 1..MaxHead
      BY BoundsAreNat
    <2> HIDE DEF key
    <2> QED
      BY <2>1, <2>3, <2>4, <2>5, RecPut
  <1>2. ASSUME NEW o \in Ids, NEW key \in Keys, Register(o, key) PROVE RecInv'
    <2>1. /\ proc.at = "ready" /\ Put(o, key, 1)
          /\ UNCHANGED <<pending, marker, schemas, policy, seeded, proc, newest, crashes>>
      BY <1>2 DEF Register
    <2>2. 1 \in 1..MaxHead /\ proc'.next >= 1
      BY <2>1, BoundsAreNat DEF RecInv, Loaded
    <2> QED
      BY <1>0, <2>1, <2>2, RecPut
  <1>3. ASSUME NEW o \in Ids, Amend(o) PROVE RecInv'
    <2>1. /\ proc.at = "ready" /\ o \in Held /\ objects[o].head < MaxHead
          /\ Put(o, objects[o].key, objects[o].head + 1)
          /\ UNCHANGED <<pending, marker, schemas, policy, seeded, proc, newest, crashes>>
      BY <1>3 DEF Amend
    <2>2. objects[o].key \in Keys /\ objects[o].head + 1 \in 1..MaxHead
      BY <1>0, <2>1, HeadsAre, BoundsAreNat
    <2>3. proc'.next >= 1
      BY <2>1 DEF RecInv, Loaded
    <2> QED
      BY <1>0, <2>1, <2>2, <2>3, RecPut
  <1>4. CASE BootStep
    BY <1>1, <1>4, RecReplay, RecProject, RecFinish DEF BootStep
  <1> QED
    BY <1>2, <1>3, <1>4, RecReplay, RecFinish DEF Next

\* New's invariant says what InLine asks for.
LEMMA ReadyIsInLine ==
    ASSUME RecInv
    PROVE  InLine
  <1> SUFFICES ASSUME proc.at = "ready"
               PROVE  /\ table # None /\ table.fp = Fp[proc.pack] /\ table.rows = Heads
                      /\ schemas[Len(schemas)] = Doc[proc.pack]
                      /\ marker = Fp[proc.pack]
                      /\ policy = Pol[proc.pack]
                      /\ pending = None
    BY DEF InLine
  <1>1. pending = None /\ proc.pack = newest
    BY DEF RecInv, Replayed, Loaded
  <1>2. table \in Tables /\ RowsMatch
    BY DEF RecInv, Reached, TypeOK
  <1>3. table.rows \in [Ids -> 0..MaxHead]
    BY <1>2 DEF Tables
  <1>4. table.rows = Heads
    BY <1>1, <1>2, <1>3 DEF RowsMatch, Heads
  <1> QED
    BY <1>1, <1>4 DEF RecInv, Reached

----------------------------------------------------------------------------
(* The two together.                                                       *)

\* The register that is installed went through New to its end.
Linked == app # None => proc.at = "ready"

LEMMA BootSteps == [BootNext]_bootVars => [Next]_vars
  BY DEF BootNext, bootVars, Arrive, CallStep, Open, NewStep, NewReturnsError, NewReturns,
         Conclude, Serve, Die, Next

LEMMA LinkNext == GateInv /\ RecInv /\ Linked /\ [BootNext]_bootVars => Linked'
  <1> SUFFICES ASSUME GateInv, RecInv, Linked, [BootNext]_bootVars PROVE Linked'
    OBVIOUS
  <1>1. ASSUME NEW c \in Callers, NEW doc \in Docs, Arrive(c, doc) PROVE Linked'
    BY <1>1 DEF Arrive, G!Post, vars, Linked
  <1>2. ASSUME NEW c \in Callers, CallStep(c) PROVE Linked'
    <2>1. CASE Open(c)
      <3>1. CASE call'[c].at = "opened"
        <4>1. proc.at = "down" /\ UNCHANGED app
          BY <2>1, <3>1 DEF Open, Configure, G!OpenStore
        <4> QED
          BY <4>1 DEF Linked
      <3>2. CASE call'[c].at # "opened"
        BY <2>1, <3>2 DEF Open, G!OpenStore, vars, Linked
      <3> QED
        BY <3>1, <3>2
    <2>2. CASE NewReturnsError(c) \/ NewStep(c)
      <3>1. call[c].at = "opened" /\ UNCHANGED app
        BY <2>2 DEF NewReturnsError, NewStep, G!NewFails, gateVars
      <3> QED
        BY <3>1 DEF GateInv, CallHolds, Linked
    <2>3. CASE NewReturns(c)
      BY <2>3 DEF NewReturns, vars, Linked
    <2>4. CASE Conclude(c)
      BY <2>4 DEF Conclude, G!NameAdmins, G!Ready, G!Fail, vars, Linked
    <2> QED
      BY <1>2, <2>1, <2>2, <2>3, <2>4 DEF CallStep
  <1>3. CASE Serve
    BY <1>3 DEF Serve, Amend, Register, gateVars, Linked
  <1>4. CASE Die
    BY <1>4 DEF Die, G!Restart, Linked
  <1>5. CASE UNCHANGED bootVars
    BY <1>5 DEF bootVars, gateVars, vars, Linked
  <1> QED
    BY <1>1, <1>2, <1>3, <1>4, <1>5 DEF BootNext

\* As long as packs only move forward, a register that answers requests has its
\* query table, schema and policy in line with its pack and nothing half
\* applied, whichever earlier calls failed, overlapped or died on the way
\* (configure, reconcilePack, replayPending).
THEOREM RequestsMeetThePack == ForwardOnly => (BootSpec => []ServesInLine)
  <1> SUFFICES ASSUME ForwardOnly PROVE BootSpec => []ServesInLine
    OBVIOUS
  <1>1. BootInit => GateInv /\ RecInv /\ Linked
    BY GateInit, RecInit DEF BootInit, G!Init, Linked
  <1>2. GateInv /\ RecInv /\ Linked /\ [BootNext]_bootVars => (GateInv /\ RecInv /\ Linked)'
    BY GateNext, RecNext, BootSteps, LinkNext
  <1>3. GateInv /\ RecInv /\ Linked => ServesInLine
    BY ReadyIsInLine DEF ServesInLine, GateInv, ServerHolds, Linked
  <1> QED
    BY <1>1, <1>2, <1>3, PTL DEF BootSpec

=============================================================================
