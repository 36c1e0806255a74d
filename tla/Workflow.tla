------------------------------ MODULE Workflow ------------------------------
(***************************************************************************)
(* The workflow primitive and the record store under it                    *)
(* (internal/register/workflow.go, records.go, mutations.go, retention.go).*)
(*                                                                         *)
(* A proposal is a task row; a decision turns the workflow's effects into  *)
(* one write set that is built against the store AS IT STANDS and then     *)
(* applied as one ledger commit.  Each entry point runs inside store.Do,   *)
(* so an action below is one whole handler; where a handler makes two      *)
(* commits (a proposal and its automatic approval) the state between them  *)
(* is a disjunct of its own, reached by an error or by a crash.            *)
(*                                                                         *)
(* The pack (classes, workflows, retention policies) is a parameter.       *)
(* Personal data is abstracted to the key it is sealed under: what matters *)
(* is which key can still open which row.  There is one tenant.            *)
(***************************************************************************)
EXTENDS Naturals, Sequences, FiniteSets

CONSTANTS
    Subs,       \* people
    Objects,    \* object identifiers that may be minted
    ClassOf,    \* the class prefix of each identifier
    Tasks,      \* task identifiers that may be minted
    Keys,       \* natural key values
    Class,      \* class name -> declaration
    Wf,         \* workflow name -> declaration
    Policy,     \* retention policy id -> declaration
    Seed,       \* the register before the first call: object -> payload or None
    MaxTime,    \* bound: the clock stops here
    MaxVersions,\* bound: versions of one object
    None

\* The author of an automatic approval is nobody's subject.
ASSUME PolicyIsNobody == "policy" \notin Subs

Classes    == DOMAIN Class
Workflows  == DOMAIN Wf
Policies   == DOMAIN Policy
PolicySub  == "policy"      \* policyPrincipal: an automatic approval's author

\* pack.validate: what a pack that was loaded has been checked for.
ValidClass(c) ==
    /\ Class[c].initial \in Class[c].statuses
    /\ Class[c].statuses \subseteq STRING
    /\ Class[c].encryption \in {"none", "tenant", "class", "subject"}
    /\ Class[c].ref \in Classes \cup {""}
ValidCondition(k) == k.on_fail \in {"review", "reject"}
ValidEffect(e) ==
    \/ e.type = "record"
    \/ e.type = "set_status" /\ e.class \in Classes /\ e.status \in Class[e.class].statuses
    \/ e.type \in {"create_object", "open_link", "close_link"} /\ e.class \in Classes
ValidWorkflow(w) ==
    /\ Wf[w].class \in Classes
    /\ Wf[w].action \in {"create", "update", "status", "correct"}
    /\ Wf[w].action = "status" => Wf[w].status \in Class[Wf[w].class].statuses
    /\ Wf[w].approve # {} \/ Wf[w].auto
    /\ \A i \in DOMAIN Wf[w].conditions : ValidCondition(Wf[w].conditions[i])
    /\ \A i \in DOMAIN Wf[w].effects : ValidEffect(Wf[w].effects[i])
ValidPolicy(id) ==
    /\ Policy[id].class \in Classes
    /\ Policy[id].window \in Nat
    /\ Policy[id].scope \in {"pii", "all"}
\* Conditions and effects are lists.
ListsEffects(w) ==
    /\ Len(Wf[w].effects) \in Nat
    /\ DOMAIN Wf[w].effects = 1..Len(Wf[w].effects)
ASSUME PackIsValid ==
    /\ \A c \in Classes : ValidClass(c)
    /\ \A w \in Workflows : ValidWorkflow(w) /\ ListsEffects(w)
    /\ \A id \in Policies : ValidPolicy(id)

VARIABLES
    db,         \* [objects, versions, naturalKeys, deks]: the record tables
    tasks,      \* the tasks table
    taskKey,    \* dek_keys rows of the tenant/task/<id> scopes
    cache,      \* byok.Keyring.cache: scopes whose key is unwrapped in memory
    now         \* the clock

vars == <<db, tasks, taskKey, cache, now>>

----------------------------------------------------------------------------
(* Types.                                                                  *)

TaskScope(t) == <<"task", t>>
RecordScopes == {<<"subject", o>> : o \in Objects}
                \cup {<<"class", c>> : c \in Classes} \cup {<<"tenant", "*">>}

KeyState == {"none", "live", "destroyed"}

\* A payload is its natural key, the key its workflow gives a companion record
\* (`aux`), the object it references and the second party it names.
Payloads == [key : Keys \cup {None}, aux : Keys \cup {None},
             ref : Objects \cup {None}, buyer : Subs \cup {None}]

OpenStates     == {"awaiting_counterparty", "awaiting_review"}
TerminalStates == {"approved", "rejected", "withdrawn"}

TaskRows == [wf : Workflows, obj : Objects \cup {None},
             state : OpenStates \cup TerminalStates, proposer : Subs,
             counterparty : Subs \cup {None}, answer : {"", "accepted", "declined"},
             payload : Payloads, decidedBy : Subs \cup {PolicySub, None}]

\* The key a record is sealed under is named by the version it was minted for:
\* byok.NewDEK draws a fresh key each time.
DekIds == (Objects \X (Nat \ {0})) \cup {None}
Deks   == [state : KeyState, id : DekIds]
NoDek  == [state |-> "none", id |-> None]

VersionRows == [key : Keys \cup {None}, ref : Objects \cup {None}, status : STRING,
                scope : RecordScopes \cup {None}, dek : DekIds, created : Nat,
                pruned : BOOLEAN]
ObjectRows  == [class : Classes, key : Keys \cup Objects, head : Nat \ {0},
                status : STRING, erased : BOOLEAN]

IndexKeys   == Classes \X (Keys \cup Objects)
Dbs == [objects     : [Objects -> ObjectRows \cup {None}],
        versions    : [Objects -> Seq(VersionRows)],
        naturalKeys : [IndexKeys -> Objects \cup {None}],
        deks        : [RecordScopes -> Deks]]

\* What a caller may propose fits the schema, and None is no value of any table.
ASSUME InputsFitSchema == \A w \in Workflows : Wf[w].inputs \subseteq Payloads
ASSUME NoneIsNothing   ==
    None \notin Objects \cup Keys \cup RecordScopes \cup ObjectRows \cup TaskRows

TypeOK ==
    /\ db \in Dbs
    /\ tasks \in [Tasks -> TaskRows \cup {None}]
    /\ taskKey \in [Tasks -> KeyState]
    /\ cache \in SUBSET (RecordScopes \cup {TaskScope(t) : t \in Tasks})
    /\ now \in Nat

----------------------------------------------------------------------------
(* records.go: what one record write needs and what it writes.  `d` is the *)
(* store the write set is built against, `acc.db` the rows the write set   *)
(* has accumulated so far.                                                 *)

Registered(d, o) == d.objects[o] # None

\* dekScope
DekScope(c, o) ==
    CASE Class[c].encryption = "tenant"  -> <<"tenant", "*">>
      [] Class[c].encryption = "class"   -> <<"class", c>>
      [] Class[c].encryption = "subject" -> <<"subject", o>>
      [] OTHER                           -> None

\* checkReferences: the target is in the store, or in this same write set, and
\* of the class the schema names.
ReferencesHoldByClass(d, pending, c, payload) ==
    payload.ref = None \/ ClassOf[payload.ref] = Class[c].ref
ReferencesHold(d, pending, c, payload) ==
    LET r == payload.ref IN
    \/ r = None
    \/ r \in pending /\ ClassOf[r] = Class[c].ref
    \/ r \notin pending /\ Registered(d, r) /\ d.objects[r].class = Class[c].ref

\* An object is indexed by its natural key, or by its identifier when the class
\* has none or the payload leaves it out.
NaturalKey(c, o, payload) ==
    IF Class[c].natural /\ payload.key # None THEN payload.key ELSE o

\* checkNaturalKey
NaturalKeyFree(d, c, o, k) ==
    Class[c].natural =>
        \A x \in Objects \ {o} :
            Registered(d, x) => ~(d.objects[x].class = c /\ d.objects[x].key = k)

\* The key row for a scope, read from the store the write set is built against.
StoredDek(d, scope) == IF scope = None THEN NoDek ELSE d.deks[scope]

CanBuild(d, pending, c, o, payload) ==
    /\ ReferencesHold(d, pending, c, payload)
    /\ StoredDek(d, DekScope(c, o)).state # "destroyed"
    /\ NaturalKeyFree(d, c, o, NaturalKey(c, o, payload))

PutVersion(s, v, row) == IF v = Len(s) + 1 THEN Append(s, row) ELSE [s EXCEPT ![v] = row]

\* ensureDEK: the stored key, or a new one minted for this write.
EnsureDEKAlwaysNew(d, scope, o, v) ==
    IF scope = None THEN NoDek ELSE [state |-> "live", id |-> <<o, v>>]
EnsureDEK(d, scope, o, v) ==
    CASE scope = None                           -> NoDek
      [] StoredDek(d, scope).state = "none"     -> [state |-> "live", id |-> <<o, v>>]
      [] OTHER                                  -> d.deks[scope]

\* previousNaturalKey and the two natural_keys ops: a changed key retires the
\* old one.
ReindexKeepingOld(d, index, c, o, key) == [index EXCEPT ![<<c, key>>] = o]
Reindex(d, index, c, o, key) ==
    LET previous == IF Registered(d, o) THEN d.objects[o].key ELSE key
    IN  [ck \in DOMAIN index |->
            CASE ck = <<c, key>>      -> o
              [] ck # <<c, key>> /\ ck = <<c, previous>> -> None
              [] OTHER                -> index[ck]]

\* buildRecordOps: the version, the head, the natural key index and the key.
\* The query projection repeats the head version's clear fields and its status.
BuildRecord(d, acc, c, o, v, status, payload) ==
    LET scope    == DekScope(c, o)
        dek      == EnsureDEK(d, scope, o, v)
        key      == NaturalKey(c, o, payload)
        row      == [key |-> payload.key, ref |-> payload.ref, status |-> status,
                     scope |-> scope, dek |-> dek.id, created |-> now, pruned |-> FALSE]
    IN  [acc EXCEPT
            !.db = [objects     |-> [acc.db.objects EXCEPT ![o] =
                                        [class |-> c, key |-> key, head |-> v,
                                         status |-> status, erased |-> FALSE]],
                    versions    |-> [acc.db.versions EXCEPT ![o] = PutVersion(@, v, row)],
                    naturalKeys |-> IF Class[c].natural
                                    THEN Reindex(d, acc.db.naturalKeys, c, o, key)
                                    ELSE acc.db.naturalKeys,
                    deks        |-> IF scope = None THEN acc.db.deks
                                    ELSE [acc.db.deks EXCEPT ![scope] = dek]],
            !.opened = IF StoredDek(d, scope).state = "live" THEN @ \cup {scope} ELSE @]

----------------------------------------------------------------------------
(* mutations.go: the three shapes a record change takes.                   *)

FailIgnored(acc) == acc
Fail(acc)     == [acc EXCEPT !.res = "error"]
OutOfIds(acc) == [acc EXCEPT !.res = "bound"]   \* the model's bound, not an error

\* NewObjectID: an identifier nobody has seen.
Unused(d, acc, c) == {o \in Objects : ClassOf[o] = c /\ ~Registered(d, o) /\ o \notin acc.pending}

CreateOps(d, acc, c, payload, status) ==
    LET free  == Unused(d, acc, c)
        o     == CHOOSE x \in free : TRUE
        moved == IF status = "" THEN Class[c].initial ELSE status
    IN  IF free = {} THEN OutOfIds(acc)
        ELSE IF moved \in Class[c].statuses /\ CanBuild(d, acc.pending, c, o, payload)
        THEN [BuildRecord(d, acc, c, o, 1, moved, payload)
                EXCEPT !.pending = @ \cup {o}, !.created = o]
        ELSE Fail(acc)

NextVersion(head) == head.head + 1

UpdateOps(d, acc, c, o, payload, status) ==
    LET head  == d.objects[o]
        moved == IF status = "" THEN head.status ELSE status
    IN  IF /\ o # None /\ head # None
           /\ head.class = c
           /\ ~head.erased
           /\ moved \in Class[c].statuses
           /\ CanBuild(d, acc.pending, c, o, payload)
        THEN IF head.head >= MaxVersions THEN OutOfIds(acc)
             ELSE BuildRecord(d, acc, c, o, NextVersion(head), moved, payload)
        ELSE Fail(acc)

\* headVersion with readVersion: the latest version, opened with the key its
\* scope now holds.  A pruned version or a key that does not open it is an error.
Opens(d, row) == row.scope # None /\ d.deks[row.scope].state = "live"
                     => d.deks[row.scope].id = row.dek
HeadVersion(d, o) == d.versions[o][Len(d.versions[o])]
HeadReadable(d, o) ==
    /\ o # None /\ d.versions[o] # <<>>
    /\ ~HeadVersion(d, o).pruned
    /\ Opens(d, HeadVersion(d, o))

HeadPayload(d, o) == [key |-> HeadVersion(d, o).key, aux |-> None,
                      ref |-> HeadVersion(d, o).ref, buyer |-> None]

StatusOps(d, acc, c, o, status) ==
    CASE ~HeadReadable(d, o)                -> Fail(acc)
      [] HeadReadable(d, o) /\ HeadVersion(d, o).status = status -> acc
      [] OTHER -> UpdateOps(d, acc, c, o, HeadPayload(d, o), status)

----------------------------------------------------------------------------
(* workflow.go: effects.                                                   *)

\* Rows of a class's query table that point at an object and have a status.
Linked(d, c, o, status) ==
    {x \in Objects : /\ Registered(d, x) /\ d.objects[x].class = c
                     /\ d.objects[x].status = status
                     /\ HeadVersion(d, x).ref = o}

\* closeLinkOps
CloseLink(d, acc, e) ==
    LET found  == Linked(d, e.class, acc.ctx, e.match)
        target == CHOOSE x \in found : TRUE
    IN  CASE found = {} -> IF e.optional THEN acc ELSE Fail(acc)
          [] found # {} /\ ~HeadReadable(d, target) -> Fail(acc)
          [] OTHER -> UpdateOps(d, acc, e.class, target,
                          HeadPayload(d, target), e.status)

\* renderMap: where an effect's payload takes its fields from.
EffectPayload(acc, e, payload) ==
    [key   |-> CASE e.key = "key" -> payload.key [] e.key = "aux" -> payload.aux
                 [] OTHER -> None,
     aux   |-> None,
     ref   |-> IF e.ref = "object" THEN acc.ctx ELSE None,
     buyer |-> None]

\* The record effect, by the workflow's action.  Only a created record becomes
\* the `object.id` of the templates (acc.ctx); the object the decision is about
\* (acc.obj) is also set by the first create_object of a workflow without one.
RecordEffect(d, acc, w, payload) ==
    CASE Wf[w].action = "create" ->
            LET made == CreateOps(d, acc, Wf[w].class, payload, "")
            IN  [made EXCEPT !.obj = made.created, !.ctx = made.created]
      [] Wf[w].action \in {"update", "correct"} ->
            UpdateOps(d, acc, Wf[w].class, acc.obj, payload, "")
      [] OTHER -> StatusOps(d, acc, Wf[w].class, acc.obj, Wf[w].status)

OneEffect(d, acc, w, payload, e) ==
    CASE e.type = "record"     -> RecordEffect(d, acc, w, payload)
      [] e.type = "set_status" ->
            LET target == IF e.target = "" THEN acc.obj ELSE payload.ref
            IN  IF target = None /\ e.optional THEN acc
                ELSE StatusOps(d, acc, e.class, target, e.status)
      [] e.type \in {"create_object", "open_link"} ->
            LET made == CreateOps(d, acc, e.class, EffectPayload(acc, e, payload), e.status)
            IN  IF e.type = "create_object" /\ acc.obj = None
                THEN [made EXCEPT !.obj = made.created] ELSE made
      [] OTHER -> CloseLink(d, acc, e)

\* The class an effect writes, and what a pack avoids because no effect sees what
\* another one of its workflow writes: two records under one natural key class,
\* or under one shared key.
Written(w, e) == IF e.type = "record" THEN Wf[w].class ELSE e.class
SharesScope(c1, c2) ==
    \/ Class[c1].encryption = "tenant" /\ Class[c2].encryption = "tenant"
    \/ c1 = c2 /\ Class[c1].encryption = "class"
WritesApart ==
    \A w \in Workflows : \A i, j \in DOMAIN Wf[w].effects : i # j =>
        LET a == Written(w, Wf[w].effects[i])  b == Written(w, Wf[w].effects[j])
        IN  ~SharesScope(a, b) /\ (a = b => ~Class[a].natural)

\* effectOps: every effect reads the store `d`; none sees what an earlier
\* effect of the same write set will write, except the identifiers it created.
\* The first error ends the walk.
NoWrites(d, obj) == [res |-> "ok", db |-> d, obj |-> obj, ctx |-> obj, pending |-> {},
                     created |-> None, opened |-> {}]
NextEffect(d, acc, w, payload, e) ==
    IF acc.res # "ok" THEN acc ELSE OneEffect(d, acc, w, payload, e)
WriteSets(d, w, obj, payload, effects) ==
    LET after[i \in 0..Len(effects)] ==
            IF i = 0 THEN NoWrites(d, obj)
            ELSE NextEffect(d, after[i - 1], w, payload, effects[i])
    IN  after

EffectOpsAfterFirst(d, w, obj, payload) ==
    LET es   == Wf[w].effects
        rest == IF Head(es).type = "record" THEN es ELSE Tail(es)
    IN  WriteSets(d, w, obj, payload, rest)[Len(rest)]
EffectOps(d, w, obj, payload) ==
    LET es   == Wf[w].effects
        done == WriteSets(d, w, obj, payload, es)[Len(es)]
    IN  IF done.res = "ok" /\ done.obj = None THEN Fail(done) ELSE done

----------------------------------------------------------------------------
(* workflow.go: conditions.                                                *)

ConditionHolds(d, k, obj, payload) ==
    CASE k.kind = "key_free"  -> ~\E x \in Objects :
                                    /\ Registered(d, x) /\ d.objects[x].class = k.class
                                    /\ HeadVersion(d, x).key = payload.key
      [] k.kind = "aux_free"  -> ~\E x \in Objects :
                                    /\ Registered(d, x) /\ d.objects[x].class = k.class
                                    /\ d.objects[x].status = k.status
                                    /\ HeadVersion(d, x).key = payload.aux
      [] k.kind = "status_is" -> d.objects[obj].status = k.status
      [] OTHER                -> Linked(d, k.class, obj, k.status) = {}

\* evaluateConditions: the walk stops at the first failing condition that
\* rejects; the ones before it that only ask for a review are the blockers.
EvaluateRejectsOnly(d, w, obj, payload) ==
    [reject  |-> \E i \in DOMAIN Wf[w].conditions :
                    /\ Wf[w].conditions[i].on_fail = "reject"
                    /\ ~ConditionHolds(d, Wf[w].conditions[i], obj, payload),
     blocked |-> FALSE]
EvaluateConditions(d, w, obj, payload) ==
    LET ks      == Wf[w].conditions
        failing == {i \in DOMAIN ks : ~ConditionHolds(d, ks[i], obj, payload)}
        rejects == {i \in failing : ks[i].on_fail = "reject"}
    IN  [reject  |-> rejects # {},
         blocked |-> \E i \in failing \ rejects : \A j \in rejects : i < j]

----------------------------------------------------------------------------
(* The steps the entry points share.                                       *)

\* decide, the approving half: conditions are evaluated again, in the state the
\* decision applies to, and the effects are computed from that same state.
DecideAsProposed(w, obj, payload, by) == EffectOps(db, w, obj, payload)
DecideResult(w, obj, payload, by) ==
    LET ev == EvaluateConditions(db, w, obj, payload)
    IN  IF ev.reject \/ (ev.blocked /\ by = PolicySub)
        THEN [res |-> "error"]
        ELSE EffectOps(db, w, obj, payload)

\* closeProposal: the proposal's key is destroyed, if it ever had one.
CloseProposalKeepsKey(k) == k
CloseProposal(k) == IF k = "live" THEN "destroyed" ELSE k

\* Keyring.Forget
ForgetNothing(ring, scope) == ring
Forget(ring, scope) == ring \ {scope}

\* Opening a proposal (taskByID) unwraps its key into the cache.
OpenedTask(t, k) == IF k = "live" THEN {TaskScope(t)} ELSE {}

\* A commit that leaves the proposal open.
LeaveOpen(t, row, k) ==
    /\ tasks' = [tasks EXCEPT ![t] = row]
    /\ taskKey' = [taskKey EXCEPT ![t] = k]
    /\ UNCHANGED <<db, now>>

\* A commit that ends the proposal without touching a record.
EndProposal(t, row) ==
    /\ tasks' = [tasks EXCEPT ![t] = row]
    /\ taskKey' = [taskKey EXCEPT ![t] = CloseProposal(@)]
    /\ cache' = Forget(cache, TaskScope(t))
    /\ UNCHANGED <<db, now>>

\* decide, the approving half, when it succeeds: `row` and `k` are the task row
\* and its key as the decision finds them.
ApproveTaskLeftOpen(t, row, k, by) ==
    \E done \in {DecideResult(row.wf, row.obj, row.payload, by)} :
        /\ done.res = "ok"
        /\ db' = done.db
        /\ tasks' = [tasks EXCEPT ![t] = row]
        /\ taskKey' = [taskKey EXCEPT ![t] = k]
        /\ cache' = cache \cup done.opened
        /\ UNCHANGED now
ApproveTask(t, row, k, by) ==
    \E done \in {DecideResult(row.wf, row.obj, row.payload, by)} :
        /\ done.res = "ok"
        /\ db' = done.db
        /\ tasks' = [tasks EXCEPT ![t] = [row EXCEPT !.state = "approved",
                                              !.obj = done.obj, !.decidedBy = by]]
        /\ taskKey' = [taskKey EXCEPT ![t] = CloseProposal(k)]
        /\ cache' = Forget(cache \cup done.opened, TaskScope(t))
        /\ UNCHANGED now

\* A handler that decides under policy right after its own commit: both commits
\* land; or the decision is refused and the caller is told so; or the process
\* dies between the two.
ThenUnderPolicy(t, row, k) ==
    \/ ApproveTask(t, row, k, PolicySub)
    \/ /\ DecideResult(row.wf, row.obj, row.payload, PolicySub).res = "error"
       /\ LeaveOpen(t, row, k)
       /\ cache' = cache \cup OpenedTask(t, k)
    \/ /\ LeaveOpen(t, row, k)
       /\ cache' = {}

ThenWait(t, row, k) ==
    /\ LeaveOpen(t, row, k)
    /\ cache' = cache \cup OpenedTask(t, k)

----------------------------------------------------------------------------
(* The entry points.                                                       *)

NewTask(p, w, o, payload) ==
    [wf |-> w, obj |-> o, proposer |-> p, payload |-> payload, answer |-> "",
     state |-> IF Wf[w].counterparty THEN "awaiting_counterparty" ELSE "awaiting_review",
     counterparty |-> IF Wf[w].counterparty THEN payload.buyer ELSE None,
     decidedBy |-> None]

\* Propose
Propose(p, w, o, payload) ==
    /\ p \in Wf[w].propose
    /\ (Wf[w].action = "create") = (o = None)
    /\ o # None => Registered(db, o) /\ db.objects[o].class = Wf[w].class
    /\ Wf[w].counterparty = (payload.buyer # None)
    /\ LET ev   == EvaluateConditions(db, w, o, payload)
           free == {t \in Tasks : tasks[t] = None}
           t    == CHOOSE x \in free : TRUE
           row  == NewTask(p, w, o, payload)
           k    == IF Wf[w].pii THEN "live" ELSE "none"
       IN  /\ free # {}
           /\ ~ev.reject
           /\ IF row.state = "awaiting_review" /\ Wf[w].auto /\ ~ev.blocked
              THEN ThenUnderPolicy(t, row, k)
              ELSE ThenWait(t, row, k)

\* Accept, accept = true
Accept(p, t) ==
    /\ tasks[t] # None
    /\ tasks[t].state = "awaiting_counterparty"
    /\ tasks[t].counterparty = p
    /\ LET row == [tasks[t] EXCEPT !.state = "awaiting_review", !.answer = "accepted"]
       IN  IF /\ Wf[row.wf].auto
              /\ ~EvaluateConditions(db, row.wf, row.obj, row.payload).blocked
           THEN ThenUnderPolicy(t, row, taskKey[t])
           ELSE ThenWait(t, row, taskKey[t])

\* Accept, accept = false
Decline(p, t) ==
    /\ tasks[t] # None
    /\ tasks[t].state = "awaiting_counterparty"
    /\ tasks[t].counterparty = p
    /\ EndProposal(t, [tasks[t] EXCEPT !.state = "rejected", !.answer = "declined"])

\* Decide: who may, and in which state.
MayDecideAlone(p, t) ==
    /\ tasks[t] # None
    /\ p \in Wf[tasks[t].wf].approve
    /\ tasks[t].state = "awaiting_review"
MayDecide(p, t) ==
    /\ tasks[t] # None
    /\ p \in Wf[tasks[t].wf].approve
    /\ ~(Wf[tasks[t].wf].independence /\ tasks[t].proposer = p)
    /\ tasks[t].state = "awaiting_review"

Approve(p, t) == MayDecide(p, t) /\ ApproveTask(t, tasks[t], taskKey[t], p)

Reject(p, t) ==
    /\ MayDecide(p, t)
    /\ EndProposal(t, [tasks[t] EXCEPT !.state = "rejected", !.decidedBy = p])

\* Withdraw
WithdrawAnyTime(p, t) ==
    /\ tasks[t] # None
    /\ tasks[t].proposer = p
    /\ EndProposal(t, [tasks[t] EXCEPT !.state = "withdrawn", !.decidedBy = p])
Withdraw(p, t) ==
    /\ tasks[t] # None
    /\ tasks[t].proposer = p
    /\ tasks[t].state \in OpenStates
    /\ EndProposal(t, [tasks[t] EXCEPT !.state = "withdrawn", !.decidedBy = p])

\* Prune: the versions a policy has outlived, except heads, lose their content
\* (and get a prune mark).  `only` narrows the prune to one object.
SupersededOrHead(o, v) == v <= db.objects[o].head
Superseded(o, v) == v < db.objects[o].head

Prunable(id, only) ==
    {x \in Objects \X (1..MaxVersions) :
        LET o == x[1]  v == x[2] IN
        /\ o \in only /\ Registered(db, o) /\ db.objects[o].class = Policy[id].class
        /\ v \in DOMAIN db.versions[o] /\ Superseded(o, v)
        /\ db.versions[o][v].created + Policy[id].window < now
        /\ ~db.versions[o][v].pruned
        /\ Policy[id].scope = "pii" => db.versions[o][v].scope # None}

Prune(id, only) ==
    /\ Prunable(id, only) # {}
    /\ db' = [db EXCEPT !.versions = [o \in Objects |->
                [v \in DOMAIN db.versions[o] |->
                    IF <<o, v>> \in Prunable(id, only)
                    THEN [db.versions[o][v] EXCEPT !.pruned = TRUE]
                    ELSE db.versions[o][v]]]]
    /\ UNCHANGED <<tasks, taskKey, cache, now>>

\* Erase: the subject's key is destroyed and the object marked.
EraseMarkOnly(id, o) ==
    /\ Policy[id].erasure
    /\ Registered(db, o)
    /\ ~db.objects[o].erased
    /\ db' = [db EXCEPT !.objects[o].erased = TRUE]
    /\ UNCHANGED <<tasks, taskKey, cache, now>>
Erase(id, o) ==
    /\ Policy[id].erasure
    /\ Registered(db, o)
    /\ db.objects[o].class = Policy[id].class
    /\ Class[db.objects[o].class].encryption = "subject"
    /\ ~db.objects[o].erased
    /\ db.deks[<<"subject", o>>].state # "none"
    /\ db' = [db EXCEPT !.deks[<<"subject", o>>].state = "destroyed",
                        !.objects[o].erased = TRUE]
    /\ cache' = Forget(cache, <<"subject", o>>)
    /\ UNCHANGED <<tasks, taskKey, now>>

\* A cleared reader opens a proposal: openProposal unwraps and caches its key.
ReadTask(t) ==
    /\ tasks[t] # None
    /\ taskKey[t] = "live"
    /\ cache' = cache \cup {TaskScope(t)}
    /\ UNCHANGED <<db, tasks, taskKey, now>>

\* A cleared reader opens a record version: readVersion.
ReadVersion(o, v) ==
    /\ v \in DOMAIN db.versions[o]
    /\ ~db.versions[o][v].pruned
    /\ db.versions[o][v].scope # None
    /\ db.deks[db.versions[o][v].scope].state = "live"
    /\ cache' = cache \cup {db.versions[o][v].scope}
    /\ UNCHANGED <<db, tasks, taskKey, now>>

\* The process restarts: the ledger survives, the keyring starts empty.
Restart ==
    /\ cache' = {}
    /\ UNCHANGED <<db, tasks, taskKey, now>>

Tick ==
    /\ now < MaxTime
    /\ now' = now + 1
    /\ UNCHANGED <<db, tasks, taskKey, cache>>

----------------------------------------------------------------------------

\* The seeds applySeed does not refuse.
ASSUME SeedIsLegal ==
    /\ Seed \in [Objects -> Payloads \cup {None}]
    /\ None \notin Payloads
    /\ \A o \in Objects : Seed[o] # None =>
        /\ ClassOf[o] \in Classes
        /\ LET r == Seed[o].ref
           IN  r # None => Seed[r] # None /\ ClassOf[r] = Class[ClassOf[o]].ref
        /\ \A x \in Objects \ {o} :
            Seed[x] # None /\ ClassOf[x] = ClassOf[o] /\ Class[ClassOf[o]].natural
                => NaturalKey(ClassOf[x], x, Seed[x]) # NaturalKey(ClassOf[o], o, Seed[o])

\* A seeded object, as applySeed writes it: one commit each, so that the first
\* one under a shared scope mints its key.
SeedDb ==
    LET has(o)   == Seed[o] # None
        c(o)     == ClassOf[o]
        key(o)   == NaturalKey(c(o), o, Seed[o])
        scope(o) == DekScope(c(o), o)
        under(s) == {o \in Objects : has(o) /\ scope(o) = s}
        dek(s)   == IF s = None \/ under(s) = {} THEN NoDek
                    ELSE [state |-> "live", id |-> <<CHOOSE o \in under(s) : TRUE, 1>>]
        named(ck) == {o \in Objects : has(o) /\ c(o) = ck[1] /\ Class[c(o)].natural /\ key(o) = ck[2]}
    IN  [objects  |-> [o \in Objects |-> IF ~has(o) THEN None ELSE
            [class |-> c(o), key |-> key(o), head |-> 1, status |-> Class[c(o)].initial, erased |-> FALSE]],
         versions |-> [o \in Objects |-> IF ~has(o) THEN <<>> ELSE
            <<[key |-> Seed[o].key, ref |-> Seed[o].ref, status |-> Class[c(o)].initial,
               scope |-> scope(o), dek |-> dek(scope(o)).id,
               created |-> 0, pruned |-> FALSE]>>],
         naturalKeys |-> [ck \in IndexKeys |->
            IF named(ck) = {} THEN None ELSE CHOOSE o \in named(ck) : TRUE],
         deks |-> [s \in RecordScopes |-> dek(s)]]

Init ==
    /\ db = SeedDb
    /\ tasks = [t \in Tasks |-> None]
    /\ taskKey = [t \in Tasks |-> "none"]
    /\ cache = {}
    /\ now = 0

Next ==
    \/ \E p \in Subs, w \in Workflows, o \in Objects \cup {None} :
        \E payload \in Wf[w].inputs : Propose(p, w, o, payload)
    \/ \E p \in Subs, t \in Tasks :
        \/ Accept(p, t)
        \/ Decline(p, t)
        \/ Approve(p, t)
        \/ Reject(p, t)
        \/ Withdraw(p, t)
    \/ \E id \in Policies :
        \/ \E only \in {Objects} \cup {{o} : o \in Objects} : Prune(id, only)
        \/ \E o \in Objects : Erase(id, o)
    \/ \E t \in Tasks : ReadTask(t)
    \/ \E o \in Objects, v \in 1..MaxVersions : ReadVersion(o, v)
    \/ Restart
    \/ Tick

Spec == Init /\ [][Next]_vars

----------------------------------------------------------------------------
(* Properties.                                                             *)

\* The natural key index (what an absence proof is a statement about) holds
\* exactly the keys of the registered objects: a correction that renames one
\* retires the old key and a new object never takes a key in use
\* (buildRecordOps, checkNaturalKey).
IndexExact ==
    \A c \in Classes, k \in Keys \cup Objects, o \in Objects :
        db.naturalKeys[<<c, k>>] = o
            <=> /\ Registered(db, o) /\ Class[c].natural
                /\ db.objects[o].class = c /\ db.objects[o].key = k

\* The head row of every object is its newest version, agrees with it on the
\* status, and is never one retention has emptied ("a prune never touches a
\* live record's current version").
HeadCurrent ==
    \A o \in Objects :
        IF Registered(db, o)
        THEN /\ db.objects[o].head = Len(db.versions[o])
             /\ db.objects[o].status = HeadVersion(db, o).status
             /\ ~HeadVersion(db, o).pruned
        ELSE db.versions[o] = <<>>

\* Every version with content is sealed under the key its scope still holds,
\* or the key was destroyed on purpose: no write leaves a row nobody can open
\* (ensureDEK, readVersion).
Readable ==
    \A o \in Objects : \A v \in DOMAIN db.versions[o] :
        ~db.versions[o][v].pruned => Opens(db, db.versions[o][v])

\* A destroyed key is in nobody's memory: the keyring never serves a scope
\* whose row says destroyed (Keyring.Forget in closeProposal and Erase, against
\* every read that caches).
DeadKeysForgotten ==
    /\ \A s \in RecordScopes : s \in cache => db.deks[s].state = "live"
    /\ \A t \in Tasks : TaskScope(t) \in cache => taskKey[t] = "live"

\* A proposal that reached a terminal state, by whichever of the five routes,
\* no longer has a key of its own (closeProposal).
ClosedProposalsSealed ==
    \A t \in Tasks :
        tasks[t] # None /\ tasks[t].state \in TerminalStates => taskKey[t] # "live"

\* A two-party proposal is approved only after its counterparty accepted it,
\* and nobody both proposes and decides where the workflow asks for two people.
DutiesSeparate ==
    \A t \in Tasks :
        tasks[t] # None /\ tasks[t].state = "approved" =>
            /\ Wf[tasks[t].wf].counterparty => tasks[t].answer = "accepted"
            /\ Wf[tasks[t].wf].independence => tasks[t].decidedBy # tasks[t].proposer

\* A decided, declined or withdrawn proposal never changes again: a late
\* acceptance, a second decision or a withdrawal after the fact has no effect.
TerminalForever ==
    [][\A t \in Tasks :
        tasks[t] # None /\ tasks[t].state \in TerminalStates => tasks'[t] = tasks[t]]_vars

\* "A register never edits in place": a step adds at most one version to an
\* object, and the versions before it keep everything but their content.
HistoryAppendOnly ==
    [][\A o \in Objects :
        /\ Len(db'.versions[o]) \in {Len(db.versions[o]), Len(db.versions[o]) + 1}
        /\ \A v \in DOMAIN db.versions[o] :
            LET old == db.versions[o][v]  new == db'.versions[o][v]
            IN  new = old \/ new = [old EXCEPT !.pruned = TRUE]]_vars

\* An erased subject stays erased: no decision still open at the erasure, and
\* none proposed after it, writes the record again (updateOps).
ErasedForever ==
    [][\A o \in Objects :
        Registered(db, o) /\ db.objects[o].erased =>
            /\ db'.objects[o] = db.objects[o]
            /\ db'.deks[<<"subject", o>>].state = "destroyed"]_vars

\* The object a decision is about: a workflow that registers one has none yet.
DecidedOn(row) == IF Wf[row.wf].action = "create" THEN None ELSE row.obj

\* An approval is justified in the state it applies to, however long ago it was
\* proposed or accepted: no condition that rejects fails there, and none at all
\* when policy alone decided ("the state a decision is taken in is the state the
\* decision applies to").
ConditionsMet ==
    [][\A t \in Tasks :
        tasks'[t] # tasks[t] /\ tasks'[t] # None /\ tasks'[t].state = "approved" =>
            LET row == tasks'[t]  ks == Wf[row.wf].conditions
            IN  \A i \in DOMAIN ks :
                    ks[i].on_fail = "reject" \/ row.decidedBy = PolicySub
                        => ConditionHolds(db, ks[i], DecidedOn(row), row.payload)]_vars

\* The register as Governance sees it.
Phase(row) == IF row = None THEN "none"
              ELSE IF row.state \in OpenStates THEN "open" ELSE row.state
Abstract == INSTANCE Governance
    WITH Proposals <- Tasks, Records <- Objects, Start <- SeedDb.versions,
         phase <- [t \in Tasks |-> Phase(tasks[t])], history <- db.versions

\* The register implements its abstract governance: decide is the only way a
\* record changes, it takes up each proposal once, and retention removes no
\* version (effectOps, decide, Withdraw, Prune).
Governed == Abstract!Spec

=============================================================================
