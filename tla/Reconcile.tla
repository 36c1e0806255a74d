----------------------------- MODULE Reconcile ------------------------------
(***************************************************************************)
(* Bringing a register up (New and replayPending in internal/register/     *)
(* register.go, and bootstrap.go): a transaction an older build left       *)
(* pending, query projections, schemas, policies and seed.                 *)
(*                                                                         *)
(* ensureProjections runs outside a transaction: every statement of it is  *)
(* a ledger commit of its own.  The schema, each policy, each seed record  *)
(* and the seed's marker are one commit each.  The process may die between *)
(* any two, and a later configure call may bring another pack.             *)
(* One class is modelled; a record is its identifier, its natural key and  *)
(* the version its head is at.                                             *)
(***************************************************************************)
EXTENDS Naturals, Sequences, FiniteSets

CONSTANTS
    Packs,      \* the packs, in the order of their versions: 1..n
    Doc,        \* pack -> the class's schema document
    Fp,         \* pack -> fingerprintOf the query table that schema gives
    Pol,        \* pack -> the retention policy's document
    Seeds,      \* pack -> sequence of natural keys of its seed records
    Natural,    \* whether the class has a natural key
    MayRevert,  \* whether a deployer may go back to an earlier pack
    Ids,        \* record identifiers that may be minted
    Keys,       \* natural keys
    MaxHead,    \* bound: versions of a record
    MaxCrashes, \* bound: attempts that end half way
    None

ASSUME PacksAreNumbered == Cardinality(Packs) \in Nat \ {0} /\ Packs = 1..Cardinality(Packs)
\* The fingerprint is computed from the schema document.
ASSUME FpFollowsDoc == \A p, q \in Packs : Doc[p] = Doc[q] => Fp[p] = Fp[q]
ASSUME SeedsAreKeys == Seeds \in [Packs -> Seq(Keys)]
ASSUME BoundsAreNat == MaxHead \in Nat \ {0} /\ MaxCrashes \in Nat

VARIABLES
    objects,    \* identifier -> [key, head] or None
    pending,    \* a registration an older build logged and did not finish, or None
    table,      \* the query table: [fp, rows] or None; rows: identifier -> head
    marker,     \* registry "projection:<class>"
    schemas,    \* the schemas table: documents, the last one active
    policy,     \* the policies row
    seeded,     \* packs whose seed marker is in the registry
    proc,       \* the process: [at, pack, next]
    newest,     \* the newest pack a configure call brought
    crashes

disk == <<objects, pending, table, marker, schemas, policy, seeded>>
vars == <<disk, proc, newest, crashes>>

Down   == [at |-> "down", pack |-> None, next |-> 0]
Stages == {"down", "replay", "drop", "create", "populate", "schema", "policy", "seed", "ready"}

Fps     == {Fp[p] : p \in Packs}
Objects == [key : Keys, head : 1..MaxHead]
Writes  == [id : Ids, key : Keys]
Tables  == [fp : Fps, rows : [Ids -> 0..MaxHead]]
ASSUME NoneIsNothing ==
    None \notin Fps /\ None \notin Objects /\ None \notin Writes /\ None \notin Tables

TypeOK ==
    /\ objects \in [Ids -> Objects \cup {None}]
    /\ pending \in Writes \cup {None}
    /\ table \in Tables \cup {None}
    /\ marker \in Fps \cup {None}
    /\ schemas \in Seq({Doc[p] : p \in Packs})
    /\ policy \in {Pol[p] : p \in Packs} \cup {None}
    /\ seeded \subseteq Packs
    /\ proc \in [at : Stages, pack : Packs \cup {None}, next : Nat]
    /\ newest \in 0..Cardinality(Packs)
    /\ crashes \in 0..MaxCrashes

Held   == {o \in Ids : objects[o] # None}
Heads  == [o \in Ids |-> IF o \in Held THEN objects[o].head ELSE 0]
NoRows == [o \in Ids |-> 0]
At(stage) == proc' = [proc EXCEPT !.at = stage]

----------------------------------------------------------------------------
(* The steps of New.                                                       *)

\* A configure call reaches New.
Configure(p) ==
    /\ proc.at = "down"
    /\ MayRevert \/ p >= newest
    /\ newest' = IF p > newest THEN p ELSE newest
    /\ proc' = [at |-> "replay", pack |-> p, next |-> 1]
    /\ UNCHANGED <<disk, crashes>>

\* replayPending: every statement of the write set again from the first, and
\* then the mark.  Each is a commit of its own.
ReplayObject ==
    /\ proc.at = "replay" /\ pending # None /\ proc.next = 1
    /\ objects' = [objects EXCEPT ![pending.id] = [key |-> pending.key, head |-> 1]]
    /\ proc' = [proc EXCEPT !.next = 2]
    /\ UNCHANGED <<pending, table, marker, schemas, policy, seeded, newest, crashes>>
ReplayRow ==
    /\ proc.at = "replay" /\ pending # None /\ proc.next = 2
    /\ table' = [table EXCEPT !.rows[pending.id] = 1]
    /\ proc' = [proc EXCEPT !.next = 3]
    /\ UNCHANGED <<objects, pending, marker, schemas, policy, seeded, newest, crashes>>
ReplayMark ==
    /\ proc.at = "replay" /\ pending # None /\ proc.next = 3
    /\ pending' = None
    /\ proc' = [proc EXCEPT !.next = 1]
    /\ UNCHANGED <<objects, table, marker, schemas, policy, seeded, newest, crashes>>
ReplayDone ==
    /\ proc.at = "replay" /\ pending = None
    /\ At("drop")
    /\ UNCHANGED <<disk, newest, crashes>>

\* ensureProjections: a table whose recorded fingerprint is the pack's is left
\* alone; another is dropped.
InLineAlreadyByTable(p) == table # None
InLineAlready(p) == table # None /\ marker = Fp[p]
Drop ==
    /\ proc.at = "drop"
    /\ IF InLineAlready(proc.pack)
       THEN At("schema") /\ UNCHANGED table
       ELSE At("create") /\ table' = None
    /\ UNCHANGED <<objects, pending, marker, schemas, policy, seeded, newest, crashes>>

\* CREATE TABLE refuses a name that is taken.
Create ==
    /\ proc.at = "create"
    /\ table = None
    /\ table' = [fp |-> Fp[proc.pack], rows |-> NoRows]
    /\ At("populate")
    /\ UNCHANGED <<objects, pending, marker, schemas, policy, seeded, newest, crashes>>

\* repopulateProjection: one record, or the end of them.
Missing == {o \in Held : table.rows[o] # objects[o].head}
PopulateOne(o) ==
    /\ proc.at = "populate"
    /\ o \in Missing
    /\ table' = [table EXCEPT !.rows[o] = objects[o].head]
    /\ UNCHANGED <<objects, pending, marker, schemas, policy, seeded, proc, newest, crashes>>
PopulateDone ==
    /\ proc.at = "populate"
    /\ Missing = {}
    /\ At("schema")
    /\ UNCHANGED <<disk, newest, crashes>>

\* registerSchema: the next version and the fingerprint, in one commit.
RegisterSchema ==
    /\ proc.at = "schema"
    /\ IF schemas # <<>> /\ schemas[Len(schemas)] = Doc[proc.pack]
       THEN UNCHANGED <<schemas, marker>>
       ELSE /\ schemas' = Append(schemas, Doc[proc.pack])
            /\ marker' = Fp[proc.pack]
    /\ At("policy")
    /\ UNCHANGED <<objects, pending, table, policy, seeded, newest, crashes>>

\* registerPolicy
RegisterPolicy ==
    /\ proc.at = "policy"
    /\ policy' = Pol[proc.pack]
    /\ At("seed")
    /\ UNCHANGED <<objects, pending, table, marker, schemas, seeded, newest, crashes>>

\* createOps against the store as it stands: the natural key is free and the
\* write set's row fits the query table.
Writable(p, key) ==
    /\ Natural => \A o \in Held : objects[o].key # key
    /\ table # None /\ table.fp = Fp[p]
Put(o, key, head) ==
    /\ objects' = [objects EXCEPT ![o] = [key |-> key, head |-> head]]
    /\ table' = [table EXCEPT !.rows[o] = head]

\* applySeed: nothing if the marker for this pack is there; one record; the
\* marker after the last; or a record that cannot be written, and New fails.
Seeding == proc.at = "seed" /\ proc.pack \notin seeded
SeedSkipped ==
    /\ proc.at = "seed"
    /\ proc.pack \in seeded \/ Seeds[proc.pack] = <<>>
    /\ At("ready")
    /\ UNCHANGED <<disk, newest, crashes>>
SeedOne(o) ==
    /\ Seeding
    /\ proc.next <= Len(Seeds[proc.pack])
    /\ o \in Ids \ Held
    /\ Writable(proc.pack, Seeds[proc.pack][proc.next])
    /\ Put(o, Seeds[proc.pack][proc.next], 1)
    /\ proc' = [proc EXCEPT !.next = @ + 1]
    /\ UNCHANGED <<pending, marker, schemas, policy, seeded, newest, crashes>>
SeedFails ==
    /\ Seeding
    /\ proc.next <= Len(Seeds[proc.pack])
    /\ ~Writable(proc.pack, Seeds[proc.pack][proc.next])
    /\ proc' = Down
    /\ UNCHANGED <<disk, newest, crashes>>
SeedMarked ==
    /\ Seeding
    /\ Seeds[proc.pack] # <<>>
    /\ proc.next > Len(Seeds[proc.pack])
    /\ seeded' = seeded \cup {proc.pack}
    /\ At("ready")
    /\ UNCHANGED <<objects, pending, table, marker, schemas, policy, newest, crashes>>

----------------------------------------------------------------------------
(* The register at work, and its death.                                    *)

\* A decision registers a record, or writes another version of one.
Register(o, key) ==
    /\ proc.at = "ready"
    /\ o \in Ids \ Held
    /\ Writable(proc.pack, key)
    /\ Put(o, key, 1)
    /\ UNCHANGED <<pending, marker, schemas, policy, seeded, proc, newest, crashes>>
Amend(o) ==
    /\ proc.at = "ready"
    /\ o \in Held /\ objects[o].head < MaxHead
    /\ table # None /\ table.fp = Fp[proc.pack]
    /\ Put(o, objects[o].key, objects[o].head + 1)
    /\ UNCHANGED <<pending, marker, schemas, policy, seeded, proc, newest, crashes>>

\* The process dies, or a statement of New fails and New with it.
Crash ==
    /\ proc.at # "down"
    /\ crashes < MaxCrashes
    /\ crashes' = crashes + 1
    /\ proc' = Down
    /\ UNCHANGED <<disk, newest>>

\* An empty volume.
Fresh ==
    /\ objects = [o \in Ids |-> None] /\ pending = None
    /\ table = None /\ marker = None /\ schemas = <<>> /\ policy = None
    /\ seeded = {} /\ newest = 0

\* A volume an earlier build, which wrote the transaction row ahead of its
\* effects, served the first pack from, and died on: some of the last
\* registration's statements are there.
LeftBehind(seed, o, key, done) ==
    LET held == {seed[i] : i \in DOMAIN seed} \cup IF done > 0 THEN {o} ELSE {}
        keyOf(x) == IF x = o THEN key ELSE Seeds[1][CHOOSE i \in DOMAIN seed : seed[i] = x]
    IN  /\ \A i, j \in DOMAIN seed : seed[i] = seed[j] => i = j
        /\ \A i \in DOMAIN seed : seed[i] # o /\ Seeds[1][i] # key
        /\ pending = [id |-> o, key |-> key]
        /\ objects = [x \in Ids |-> IF x \in held THEN [key |-> keyOf(x), head |-> 1] ELSE None]
        /\ table = [fp |-> Fp[1],
                    rows |-> [x \in Ids |-> IF x \in held /\ (x # o \/ done = 2) THEN 1 ELSE 0]]
        /\ marker = Fp[1] /\ schemas = <<Doc[1]>> /\ policy = Pol[1]
        /\ seeded = {1} /\ newest = 1
Inherited ==
    \E seed \in [DOMAIN Seeds[1] -> Ids], o \in Ids, key \in Keys, done \in 0..2 :
        LeftBehind(seed, o, key, done)

Init == (Fresh \/ Inherited) /\ proc = Down /\ crashes = 0

\* A step of New that succeeds.
BootStep ==
    \/ ReplayObject \/ ReplayRow \/ ReplayMark \/ ReplayDone
    \/ Drop \/ Create \/ PopulateDone \/ RegisterSchema \/ RegisterPolicy
    \/ SeedSkipped \/ SeedMarked
    \/ \E o \in Ids : PopulateOne(o) \/ SeedOne(o)

Next ==
    \/ \E p \in Packs : Configure(p)
    \/ BootStep \/ SeedFails
    \/ \E o \in Ids : Amend(o) \/ \E key \in Keys : Register(o, key)
    \/ Crash

Spec == Init /\ [][Next]_vars

----------------------------------------------------------------------------
(* Properties.                                                             *)

\* reconcilePack "brings the store in line with the loaded pack": when the
\* register serves, its query table has the pack's columns and a row for the
\* head of every record, the active schema and policy are the pack's, and
\* nothing an older build logged is left half applied, wherever earlier attempts
\* died.
InLine ==
    proc.at = "ready" =>
        /\ table # None /\ table.fp = Fp[proc.pack] /\ table.rows = Heads
        /\ schemas[Len(schemas)] = Doc[proc.pack]
        /\ marker = Fp[proc.pack]
        /\ policy = Pol[proc.pack]
        /\ pending = None

\* Packs only move forward: a deployer does not go back to an earlier one, and
\* no later pack has the query table of an earlier one that was replaced since.
\* Otherwise a table that was built for a pack whose schema was never recorded
\* is taken for the one the marker still names.
ForwardOnly ==
    /\ ~MayRevert
    /\ \A p, q, r \in Packs : p <= q /\ q <= r /\ Fp[p] = Fp[r] => Fp[q] = Fp[p]

\* A seed that was begun and has no marker: the next boot writes it again from
\* its first record.
HalfSeeded ==
    \E p \in Packs \ seeded : \E o \in Held : \E i \in DOMAIN Seeds[p] : objects[o].key = Seeds[p][i]

=============================================================================
