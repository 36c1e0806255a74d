--------------------------- MODULE WorkflowProofs ---------------------------
(***************************************************************************)
(* What holds of every pack, every set of people and every history of      *)
(* proposals.                                                              *)
(*                                                                         *)
(* The first part is about the proposals: who may decide, that a decision  *)
(* is final, and that a decided proposal has lost its key.  The record     *)
(* tables do not matter there: the proofs use of an action only what it    *)
(* does to tasks and taskKey.                                              *)
(*                                                                         *)
(* The second part is about the record tables.  A decision is a walk over  *)
(* the effects of its workflow, so what it keeps is proved effect by       *)
(* effect, and for the whole walk by the least effect that would break it. *)
(*                                                                         *)
(* The third part is about what a step decides: that an approval is        *)
(* justified where it is applied, that records change only by approvals    *)
(* (Governance), that references resolve, and what becomes of the links    *)
(* between records.  The last three theorems are about the packs that keep *)
(* the links they are said to keep (PackKeepsLinks); the others use        *)
(* nothing of it.                                                          *)
(***************************************************************************)
EXTENDS Links, WellFoundedInduction, TLAPS

----------------------------------------------------------------------------
(* Proposals.                                                              *)

TaskFields == {"wf", "obj", "state", "proposer", "counterparty", "answer",
               "payload", "decidedBy"}

\* What is true of one proposal's row and of its key.
RowOK(r, k) ==
    /\ DOMAIN r = TaskFields
    /\ r.proposer \in Subs
    /\ r.state \in OpenStates \cup TerminalStates
    /\ r.state = "awaiting_review" /\ Wf[r.wf].counterparty => r.answer = "accepted"
    /\ r.state = "approved" =>
        /\ Wf[r.wf].counterparty => r.answer = "accepted"
        /\ Wf[r.wf].independence => r.decidedBy # r.proposer
    /\ r.state \in TerminalStates => k # "live"

\* The inductive invariant: an approval is preceded by an acceptance only
\* because a proposal under review already carries one.
TaskInv ==
    /\ DOMAIN tasks = Tasks
    /\ DOMAIN taskKey = Tasks
    /\ \A t \in Tasks : tasks[t] # None => RowOK(tasks[t], taskKey[t])

Ended(r) == r # None /\ r.state \in TerminalStates

\* A step touches one proposal at most, keeps its row well formed, and only if
\* it had not ended.
TaskStep ==
    \/ UNCHANGED <<tasks, taskKey>>
    \/ \E t \in Tasks : \E r, k :
        /\ tasks' = [tasks EXCEPT ![t] = r]
        /\ taskKey' = [taskKey EXCEPT ![t] = k]
        /\ RowOK(r, k)
        /\ ~Ended(tasks[t])

LEMMA StatesDiffer ==
    /\ OpenStates \cap TerminalStates = {}
    /\ "approved" \in TerminalStates /\ "rejected" \in TerminalStates
    /\ "withdrawn" \in TerminalStates
  BY DEF OpenStates, TerminalStates

\* A wellformed step keeps the invariant.
LEMMA StepKeepsTaskInv == TaskInv /\ TaskStep => TaskInv'
  BY DEF TaskInv, TaskStep, RowOK

\* closeProposal leaves no live key.
LEMMA ClosedKey == \A k : CloseProposal(k) # "live"
  BY DEF CloseProposal

\* A commit that leaves a proposal open, whatever follows it.
LEMMA LeaveOpenStep ==
    ASSUME NEW t \in Tasks, NEW r, NEW k, LeaveOpen(t, r, k),
           RowOK(r, k), ~Ended(tasks[t])
    PROVE  TaskStep
  BY DEF LeaveOpen, TaskStep

\* A successful decision by someone allowed to take it.
LEMMA ApproveStep ==
    ASSUME NEW t \in Tasks, NEW r, NEW k, NEW by, ApproveTask(t, r, k, by),
           RowOK(r, k), r.state = "awaiting_review", ~Ended(tasks[t]),
           Wf[r.wf].independence => by # r.proposer
    PROVE  TaskStep
  <1> DEFINE done == DecideResult(r.wf, r.obj, r.payload, by)
             new  == [r EXCEPT !.state = "approved", !.obj = done.obj, !.decidedBy = by]
  <1>1. /\ tasks' = [tasks EXCEPT ![t] = new]
        /\ taskKey' = [taskKey EXCEPT ![t] = CloseProposal(k)]
    BY DEF ApproveTask
  <1>2. /\ DOMAIN new = TaskFields
        /\ new.state = "approved" /\ new.decidedBy = by
        /\ new.wf = r.wf /\ new.answer = r.answer /\ new.proposer = r.proposer
    BY DEF RowOK, TaskFields
  <1> HIDE DEF new
  <1>3. RowOK(new, CloseProposal(k))
    BY <1>2, ClosedKey, StatesDiffer DEF RowOK, TerminalStates
  <1>4. QED
    BY <1>1, <1>3 DEF TaskStep

\* Decline, Reject and Withdraw: the row ends and its key with it.
LEMMA EndStep ==
    ASSUME NEW t \in Tasks, NEW r, EndProposal(t, r), TaskInv,
           DOMAIN r = TaskFields, r.proposer \in Subs,
           r.state \in {"rejected", "withdrawn"},
           ~Ended(tasks[t])
    PROVE  TaskStep
  <1>1. /\ tasks' = [tasks EXCEPT ![t] = r]
        /\ taskKey' = [taskKey EXCEPT ![t] = CloseProposal(taskKey[t])]
    BY DEF EndProposal, TaskInv
  <1>2. RowOK(r, CloseProposal(taskKey[t]))
    BY ClosedKey DEF RowOK, TerminalStates
  <1>3. QED
    BY <1>1, <1>2 DEF TaskStep

\* A handler's own commit followed, or not, by a decision under policy.
LEMMA UnderPolicyStep ==
    ASSUME NEW t \in Tasks, NEW r, NEW k, ThenUnderPolicy(t, r, k),
           RowOK(r, k), r.state = "awaiting_review", ~Ended(tasks[t])
    PROVE  TaskStep
  <1>1. CASE ApproveTask(t, r, k, PolicySub)
    <2>1. PolicySub # r.proposer
      BY PolicyIsNobody DEF PolicySub, RowOK
    <2>2. QED
      BY <1>1, <2>1, ApproveStep
  <1>2. CASE LeaveOpen(t, r, k)
    BY <1>2, LeaveOpenStep
  <1>3. QED
    BY <1>1, <1>2 DEF ThenUnderPolicy

LEMMA WaitStep ==
    ASSUME NEW t \in Tasks, NEW r, NEW k, ThenWait(t, r, k),
           RowOK(r, k), ~Ended(tasks[t])
    PROVE  TaskStep
  BY LeaveOpenStep DEF ThenWait

LEMMA ProposeStep ==
    ASSUME TaskInv, NEW p \in Subs, NEW w, NEW o, NEW payload,
           Propose(p, w, o, payload)
    PROVE  TaskStep
  <1> DEFINE free == {t \in Tasks : tasks[t] = None}
             t    == CHOOSE x \in free : TRUE
             row  == NewTask(p, w, o, payload)
             k    == IF Wf[w].pii THEN "live" ELSE "none"
  <1>1. /\ free # {}
        /\ \/ row.state = "awaiting_review" /\ ThenUnderPolicy(t, row, k)
           \/ ThenWait(t, row, k)
    BY DEF Propose
  <1>2. t \in Tasks /\ tasks[t] = None
    BY <1>1
  <1>3. /\ DOMAIN row = TaskFields /\ row.proposer = p /\ row.wf = w
        /\ row.state \in OpenStates
        /\ row.state = "awaiting_review" => ~Wf[w].counterparty
    BY DEF NewTask, TaskFields, OpenStates
  <1> HIDE DEF free, t, row, k
  <1>4. RowOK(row, k)
    BY <1>3, StatesDiffer DEF RowOK
  <1>5. ~Ended(tasks[t])
    BY <1>2 DEF Ended
  <1>6. QED
    BY <1>1, <1>2, <1>4, <1>5, UnderPolicyStep, WaitStep

LEMMA AcceptStep ==
    ASSUME TaskInv, NEW p \in Subs, NEW t \in Tasks, Accept(p, t)
    PROVE  TaskStep
  <1> DEFINE row == [tasks[t] EXCEPT !.state = "awaiting_review", !.answer = "accepted"]
  <1>1. /\ tasks[t] # None /\ tasks[t].state = "awaiting_counterparty"
        /\ ThenUnderPolicy(t, row, taskKey[t]) \/ ThenWait(t, row, taskKey[t])
    BY DEF Accept
  <1>2. RowOK(tasks[t], taskKey[t])
    BY <1>1 DEF TaskInv
  <1>3. /\ DOMAIN row = TaskFields
        /\ row.state = "awaiting_review" /\ row.answer = "accepted"
        /\ row.proposer = tasks[t].proposer
    BY <1>2 DEF RowOK, TaskFields
  <1> HIDE DEF row
  <1>4. RowOK(row, taskKey[t])
    BY <1>2, <1>3 DEF RowOK, OpenStates, TerminalStates
  <1>5. ~Ended(tasks[t])
    BY <1>1 DEF Ended, TerminalStates
  <1>6. QED
    BY <1>1, <1>3, <1>4, <1>5, UnderPolicyStep, WaitStep

LEMMA ApproveActionStep ==
    ASSUME TaskInv, NEW p \in Subs, NEW t \in Tasks, Approve(p, t)
    PROVE  TaskStep
  <1>1. /\ tasks[t] # None /\ tasks[t].state = "awaiting_review"
        /\ Wf[tasks[t].wf].independence => p # tasks[t].proposer
        /\ ApproveTask(t, tasks[t], taskKey[t], p)
    BY DEF Approve, MayDecide
  <1>2. RowOK(tasks[t], taskKey[t]) /\ ~Ended(tasks[t])
    BY <1>1 DEF TaskInv, Ended, TerminalStates
  <1>3. QED
    BY <1>1, <1>2, ApproveStep

LEMMA EndingStep ==
    ASSUME TaskInv, NEW p \in Subs, NEW t \in Tasks,
           Decline(p, t) \/ Reject(p, t) \/ Withdraw(p, t)
    PROVE  TaskStep
  <1> DEFINE declined  == [tasks[t] EXCEPT !.state = "rejected", !.answer = "declined"]
             rejected  == [tasks[t] EXCEPT !.state = "rejected", !.decidedBy = p]
             withdrawn == [tasks[t] EXCEPT !.state = "withdrawn", !.decidedBy = p]
  <1>1. /\ tasks[t] # None /\ tasks[t].state \in OpenStates
        /\ EndProposal(t, declined) \/ EndProposal(t, rejected) \/ EndProposal(t, withdrawn)
    BY DEF Decline, Reject, Withdraw, MayDecide, OpenStates
  <1>2. RowOK(tasks[t], taskKey[t]) /\ ~Ended(tasks[t])
    BY <1>1, StatesDiffer DEF TaskInv, Ended
  <1>3. /\ DOMAIN declined = TaskFields /\ declined.proposer \in Subs
        /\ declined.state = "rejected"
    BY <1>2 DEF RowOK, TaskFields
  <1>4. /\ DOMAIN rejected = TaskFields /\ rejected.proposer \in Subs
        /\ rejected.state = "rejected"
    BY <1>2 DEF RowOK, TaskFields
  <1>5. /\ DOMAIN withdrawn = TaskFields /\ withdrawn.proposer \in Subs
        /\ withdrawn.state = "withdrawn"
    BY <1>2 DEF RowOK, TaskFields
  <1> HIDE DEF declined, rejected, withdrawn
  <1>6. QED
    BY <1>1, <1>2, <1>3, <1>4, <1>5, EndStep

\* Every step of the register is a TaskStep.
LEMMA NextIsTaskStep == TaskInv /\ [Next]_vars => TaskStep
  <1> SUFFICES ASSUME TaskInv, [Next]_vars PROVE TaskStep
    OBVIOUS
  <1>1. ASSUME NEW p \in Subs, NEW w \in Workflows, NEW o \in Objects \cup {None},
               NEW payload \in Wf[w].inputs, Propose(p, w, o, payload)
        PROVE  TaskStep
    BY <1>1, ProposeStep
  <1>2. ASSUME NEW p \in Subs, NEW t \in Tasks,
               Accept(p, t) \/ Decline(p, t) \/ Approve(p, t) \/ Reject(p, t) \/ Withdraw(p, t)
        PROVE  TaskStep
    BY <1>2, AcceptStep, ApproveActionStep, EndingStep
  <1>3. ASSUME NEW id \in Policies, NEW only, Prune(id, only)
        PROVE  TaskStep
    BY <1>3 DEF Prune, TaskStep
  <1>4. ASSUME NEW id \in Policies, NEW o \in Objects, Erase(id, o)
        PROVE  TaskStep
    BY <1>4 DEF Erase, TaskStep
  <1>5. ASSUME NEW t \in Tasks, ReadTask(t)
        PROVE  TaskStep
    BY <1>5 DEF ReadTask, TaskStep
  <1>6. ASSUME NEW o \in Objects, NEW v, ReadVersion(o, v)
        PROVE  TaskStep
    BY <1>6 DEF ReadVersion, TaskStep
  <1>7. ASSUME Restart \/ Tick \/ UNCHANGED vars
        PROVE  TaskStep
    BY <1>7 DEF Restart, Tick, vars, TaskStep
  <1>8. QED
    BY <1>1, <1>2, <1>3, <1>4, <1>5, <1>6, <1>7 DEF Next

LEMMA InitTaskInv == Init => TaskInv
  BY DEF Init, TaskInv

\* The invariant behind the three theorems below (Propose, Accept, Decide,
\* Withdraw and the policy's own decisions).
THEOREM TaskInvariant == Spec => []TaskInv
  <1>1. TaskInv /\ [Next]_vars => TaskInv'
    BY NextIsTaskStep, StepKeepsTaskInv
  <1>2. QED
    BY InitTaskInv, <1>1, PTL DEF Spec

\* Separation of duties, for every pack: nothing is approved by its proposer
\* where the workflow asks for independence, and no two-party proposal before
\* its counterparty accepted (Decide, Accept, decide).
THEOREM SeparationOfDuties == Spec => []DutiesSeparate
  <1>1. TaskInv => DutiesSeparate
    BY DEF TaskInv, RowOK, DutiesSeparate
  <1>2. QED
    BY <1>1, TaskInvariant, PTL

\* Whichever route a proposal ends by, its own key is gone (closeProposal).
THEOREM ProposalKeysEnd == Spec => []ClosedProposalsSealed
  <1>1. TaskInv => ClosedProposalsSealed
    BY DEF TaskInv, RowOK, ClosedProposalsSealed
  <1>2. QED
    BY <1>1, TaskInvariant, PTL

\* A proposal that ended never changes again, whatever calls arrive late.
THEOREM EndsAreFinal == Spec => TerminalForever
  <1>1. TaskInv /\ [Next]_vars =>
            [\A t \in Tasks :
                tasks[t] # None /\ tasks[t].state \in TerminalStates
                    => tasks'[t] = tasks[t]]_vars
    <2> SUFFICES ASSUME TaskInv, [Next]_vars, NEW u \in Tasks, tasks[u] # None,
                        tasks[u].state \in TerminalStates
                 PROVE  tasks'[u] = tasks[u]
      OBVIOUS
    <2>1. TaskStep
      BY NextIsTaskStep
    <2>2. QED
      BY <2>1 DEF TaskStep, Ended, TaskInv
  <1>2. QED
    BY <1>1, TaskInvariant, PTL DEF Spec, TerminalForever

----------------------------------------------------------------------------
(* The record tables.                                                      *)

\* A set of naturals has a least element.
LEMMA NatMin ==
    ASSUME NEW T \in SUBSET Nat, T # {}
    PROVE  \E x \in T : \A y \in T : x <= y
  <1> DEFINE R == OpToRel(<, Nat)
  <1>1. \A x, y \in Nat : <<x, y>> \in R <=> x < y
    BY DEF OpToRel
  <1>2. IsWellFoundedOn(R, Nat)
    BY NatLessThanWellFounded DEF OpToRel
  <1> HIDE DEF R
  <1>3. PICK x \in T : \A y \in T : ~(<<y, x>> \in R)
    BY <1>2, WFMin
  <1>4. ASSUME NEW y \in T PROVE x <= y
    <2>1. x \in Nat /\ y \in Nat /\ ~(<<y, x>> \in R)
      BY <1>3
    <2>2. ~(y < x)
      BY <1>1, <2>1
    <2> QED
      BY <2>1, <2>2
  <1> QED
    BY <1>4

----------------------------------------------------------------------------
(* The write set of a decision, effect by effect.                          *)

\* The walk over the effects is a function: a shortest list of effects without
\* one would extend a list that has one.
LEMMA WalkExists ==
    ASSUME NEW d, NEW w, NEW obj, NEW payload, NEW effects, Len(effects) \in Nat
    PROVE  \E g : g = [i \in 0..Len(effects) |->
                        IF i = 0 THEN NoWrites(d, obj)
                        ELSE NextEffect(d, g[i - 1], w, payload, effects[i])]
  <1> DEFINE N == Len(effects)
             Walk(n, g) == g = [i \in 0..n |->
                                IF i = 0 THEN NoWrites(d, obj)
                                ELSE NextEffect(d, g[i - 1], w, payload, effects[i])]
             Bad == {n \in 0..N : ~\E g : Walk(n, g)}
  <1>1. SUFFICES Bad = {}
    BY <1>1
  <1>2. SUFFICES ASSUME Bad # {} PROVE FALSE
    OBVIOUS
  <1>3. PICK n \in Bad : \A m \in Bad : n <= m
    <2>1. Bad \in SUBSET Nat
      OBVIOUS
    <2> HIDE DEF Bad
    <2> QED
      BY <1>2, <2>1, NatMin
  <1>4. n \in Nat /\ n <= N /\ ~\E g : Walk(n, g)
    BY <1>3
  <1>5. CASE n = 0
    <2> DEFINE h == [i \in 0..0 |-> NoWrites(d, obj)]
    <2>1. h = [i \in 0..0 |-> IF i = 0 THEN NoWrites(d, obj)
                              ELSE NextEffect(d, h[i - 1], w, payload, effects[i])]
      <3>1. \A i \in 0..0 : i = 0
        OBVIOUS
      <3> QED
        BY <3>1, Zenon
    <2> QED
      BY <1>4, <1>5, <2>1
  <1>6. CASE n > 0
    <2>1. n - 1 \in 0..N /\ n - 1 \notin Bad
      BY <1>3, <1>4, <1>6
    <2>2. PICK g : Walk(n - 1, g)
      BY <2>1
    <2> DEFINE h == [i \in 0..n |-> IF i < n THEN g[i]
                                    ELSE NextEffect(d, g[n - 1], w, payload, effects[n])]
    <2>3. ASSUME NEW i \in 0..n
          PROVE  h[i] = IF i = 0 THEN NoWrites(d, obj)
                        ELSE NextEffect(d, h[i - 1], w, payload, effects[i])
      BY <1>4, <1>6, <2>2
    <2>4. Walk(n, h)
      BY <2>3
    <2> QED
      BY <1>4, <2>4
  <1> QED
    BY <1>4, <1>5, <1>6

\* Each element of the walk is computed from the one before it.
LEMMA WalkSteps ==
    ASSUME NEW d, NEW w, NEW obj, NEW payload, NEW effects, Len(effects) \in Nat
    PROVE  LET g == WriteSets(d, w, obj, payload, effects) IN
           /\ g[0] = NoWrites(d, obj)
           /\ \A i \in 1..Len(effects) :
                g[i] = NextEffect(d, g[i - 1], w, payload, effects[i])
  <1> DEFINE g == WriteSets(d, w, obj, payload, effects)
  <1>1. g = [i \in 0..Len(effects) |->
                IF i = 0 THEN NoWrites(d, obj)
                ELSE NextEffect(d, g[i - 1], w, payload, effects[i])]
    BY WalkExists DEF WriteSets
  <1> HIDE DEF g
  <1>2. g[0] = NoWrites(d, obj)
    BY <1>1
  <1>3. ASSUME NEW i \in 1..Len(effects)
        PROVE  g[i] = NextEffect(d, g[i - 1], w, payload, effects[i])
    BY <1>1
  <1> QED
    BY <1>2, <1>3 DEF g

----------------------------------------------------------------------------
(* What one record adds to a write set.                                    *)

\* A write set under construction.
Accs == [res : {"ok", "error", "bound"}, db : Dbs, obj : Objects \cup {None},
         ctx : Objects \cup {None},
         pending : SUBSET Objects, created : Objects \cup {None},
         opened : SUBSET RecordScopes]

\* Where a record is sealed, and the key ensureDEK hands out for it.
LEMMA ScopeType ==
    ASSUME NEW c \in Classes, NEW o \in Objects
    PROVE  DekScope(c, o) \in RecordScopes \cup {None}
  BY DEF DekScope, RecordScopes

LEMMA DekType ==
    ASSUME NEW d \in Dbs, NEW c \in Classes, NEW o \in Objects, NEW v \in Nat \ {0}
    PROVE  EnsureDEK(d, DekScope(c, o), o, v) \in Deks
  BY ScopeType DEF EnsureDEK, NoDek, Deks, KeyState, DekIds, Dbs

\* The version row a write adds and the tables after it.
NewRow(d, c, o, v, status, p) ==
    [key |-> p.key, ref |-> p.ref, status |-> status, scope |-> DekScope(c, o),
     dek |-> EnsureDEK(d, DekScope(c, o), o, v).id, created |-> now, pruned |-> FALSE]
NewHead(c, o, v, status, p) ==
    [class |-> c, key |-> NaturalKey(c, o, p), head |-> v, status |-> status, erased |-> FALSE]
NewDeks(d, acc, c, o, v) ==
    IF DekScope(c, o) = None THEN acc.db.deks
    ELSE [acc.db.deks EXCEPT ![DekScope(c, o)] = EnsureDEK(d, DekScope(c, o), o, v)]
NewIndex(d, acc, c, o, p) ==
    IF Class[c].natural THEN Reindex(d, acc.db.naturalKeys, c, o, NaturalKey(c, o, p))
    ELSE acc.db.naturalKeys

NewTables(d, acc, c, o, v, status, p) ==
    [objects     |-> [acc.db.objects EXCEPT ![o] = NewHead(c, o, v, status, p)],
     versions    |-> [acc.db.versions EXCEPT ![o] =
                        PutVersion(acc.db.versions[o], v, NewRow(d, c, o, v, status, p))],
     naturalKeys |-> NewIndex(d, acc, c, o, p),
     deks        |-> NewDeks(d, acc, c, o, v)]
NewOpened(d, acc, c, o) ==
    IF StoredDek(d, DekScope(c, o)).state = "live"
    THEN acc.opened \cup {DekScope(c, o)} ELSE acc.opened

\* buildRecordOps, table by table.
LEMMA BuildWhole ==
    ASSUME NEW d, NEW acc, NEW c, NEW o, NEW v, NEW status, NEW p
    PROVE  BuildRecord(d, acc, c, o, v, status, p)
                = [acc EXCEPT !.db = NewTables(d, acc, c, o, v, status, p),
                              !.opened = NewOpened(d, acc, c, o)]
  BY DEF BuildRecord, NewRow, NewHead, NewDeks, NewIndex, NewTables, NewOpened

LEMMA BuildFields ==
    ASSUME NEW d, NEW acc \in Accs, NEW c, NEW o, NEW v, NEW status, NEW p
    PROVE  /\ BuildRecord(d, acc, c, o, v, status, p).db = NewTables(d, acc, c, o, v, status, p)
           /\ BuildRecord(d, acc, c, o, v, status, p).opened = NewOpened(d, acc, c, o)
  BY BuildWhole DEF Accs

\* The properties of the record tables, of any store `d`.
Heads(d) ==
    \A o \in Objects :
        IF Registered(d, o)
        THEN /\ d.objects[o].head = Len(d.versions[o])
             /\ d.objects[o].status = HeadVersion(d, o).status
             /\ ~HeadVersion(d, o).pruned
        ELSE d.versions[o] = <<>>
ScopeOf(d, o) == DekScope(d.objects[o].class, o)
Scoped(d) ==
    \A o \in Objects : Registered(d, o) =>
        /\ ScopeOf(d, o) # None => d.deks[ScopeOf(d, o)].state # "none"
        /\ \A v \in DOMAIN d.versions[o] : d.versions[o][v].scope = ScopeOf(d, o)
Burnt(d) ==
    \A o \in Objects :
        Registered(d, o) /\ d.objects[o].erased => d.deks[<<"subject", o>>].state = "destroyed"
Indexed(d) ==
    \A c \in Classes, k \in Keys \cup Objects, o \in Objects :
        d.naturalKeys[<<c, k>>] = o
            <=> /\ Registered(d, o) /\ Class[c].natural
                /\ d.objects[o].class = c /\ d.objects[o].key = k
Sealed(d) ==
    \A o \in Objects : \A v \in DOMAIN d.versions[o] :
        ~d.versions[o][v].pruned => Opens(d, d.versions[o][v])

DbInv(d) ==
    /\ d \in Dbs
    /\ Heads(d)
    /\ Scoped(d)
    /\ Burnt(d)
    /\ WritesApart => Indexed(d) /\ Sealed(d)

\* What the write set `x` built against `d` has done to one object: nothing, or
\* one version on top of those `d` holds.
Untouched(d, x, o) ==
    /\ x.objects[o] = d.objects[o]
    /\ x.versions[o] = d.versions[o]
Touched(d, x, W, o) ==
    /\ Registered(x, o)
    /\ x.objects[o].class \in W
    /\ ~x.objects[o].erased
    /\ Registered(d, o) => /\ x.objects[o].class = d.objects[o].class
                           /\ ~d.objects[o].erased
    /\ x.objects[o].head = Len(d.versions[o]) + 1
    /\ \E row \in VersionRows :
        /\ x.versions[o] = Append(d.versions[o], row)
        /\ row.status = x.objects[o].status
        /\ ~row.pruned
        /\ row.scope = ScopeOf(x, o)

\* A write set that has written the classes W.
Progress(d, x, pending, opened, W) ==
    /\ x \in Dbs
    /\ \A o \in Objects :
        \/ Untouched(d, x, o) /\ o \notin pending
        \/ Touched(d, x, W, o) /\ (Registered(d, o) \/ o \in pending)
    /\ \A s \in RecordScopes :
        x.deks[s] = d.deks[s] \/ (d.deks[s].state = "none" /\ x.deks[s].state = "live")
    /\ \A s \in opened : s \in RecordScopes /\ d.deks[s].state = "live"
    /\ Scoped(x)

\* The object and version a write is for: a new identifier, or the next version
\* of a record that was not erased.
Targets(d, acc, c, o, v, pending) ==
    \/ /\ ~Registered(d, o) /\ o \notin acc.pending
       /\ v = 1 /\ pending = acc.pending \cup {o}
    \/ /\ Registered(d, o) /\ d.objects[o].class = c /\ ~d.objects[o].erased
       /\ v = d.objects[o].head + 1 /\ pending = acc.pending

Writes(d, acc, W, c, o, v, status, p, pending) ==
    /\ DbInv(d) /\ now \in Nat /\ acc \in Accs /\ W \in SUBSET Classes
    /\ Progress(d, acc.db, acc.pending, acc.opened, W)
    /\ c \in Classes /\ o \in Objects /\ v \in Nat \ {0}
    /\ status \in STRING /\ p \in Payloads /\ pending \in SUBSET Objects
    /\ CanBuild(d, acc.pending, c, o, p)
    /\ Targets(d, acc, c, o, v, pending)

Appended(d, x, o, row) == x.versions[o] = Append(d.versions[o], row)

\* The model's PutVersion: over a row of the same write set, or behind the last one.
LEMMA PutOver ==
    ASSUME NEW S, NEW s \in Seq(S), NEW a \in S, NEW b \in S
    PROVE  PutVersion(Append(s, a), Len(s) + 1, b) = Append(s, b)
  <1> DEFINE t == Append(s, a)
             n == Len(s) + 1
             u == [t EXCEPT ![n] = b]
             r == Append(s, b)
  <1>1. t \in Seq(S) /\ r \in Seq(S) /\ Len(t) = n /\ Len(r) = n /\ n \in Nat
    OBVIOUS
  <1>2. PutVersion(t, n, b) = u
    BY <1>1 DEF PutVersion
  <1>3. u \in Seq(S) /\ Len(u) = n
    BY <1>1
  <1>4. ASSUME NEW i \in 1..n PROVE u[i] = r[i]
    <2>1. CASE i = n
      BY <1>1, <2>1
    <2>2. CASE i \in 1..Len(s)
      <3>1. u[i] = t[i]
        <4> HIDE DEF t
        <4> QED
          BY <1>1, <2>2
      <3>2. t[i] = s[i] /\ r[i] = s[i]
        BY <2>2
      <3> QED
        BY <3>1, <3>2
    <2> QED
      BY <1>1, <2>1, <2>2
  <1> HIDE DEF u, r
  <1>5. u = r
    BY <1>1, <1>3, <1>4
  <1> QED
    BY <1>2, <1>5 DEF r

LEMMA PutNext ==
    ASSUME NEW S, NEW s \in Seq(S), NEW b
    PROVE  PutVersion(s, Len(s) + 1, b) = Append(s, b)
  BY DEF PutVersion

\* One write on top of an unfinished write set: the row is added to the history
\* in the store, and everything else the write set holds stays as it was.
LEMMA WriteKeeps ==
    ASSUME NEW d, NEW acc, NEW W, NEW c, NEW o, NEW v, NEW status, NEW p, NEW pending,
           Writes(d, acc, W, c, o, v, status, p, pending)
    PROVE  /\ Appended(d, BuildRecord(d, acc, c, o, v, status, p).db, o,
                       NewRow(d, c, o, v, status, p))
           /\ Progress(d, BuildRecord(d, acc, c, o, v, status, p).db, pending,
                       BuildRecord(d, acc, c, o, v, status, p).opened, W \cup {c})
  <1> USE DEF Writes
  <1> DEFINE b     == BuildRecord(d, acc, c, o, v, status, p)
             x     == acc.db
             y     == b.db
             scope == DekScope(c, o)
             dek   == EnsureDEK(d, scope, o, v)
             row   == NewRow(d, c, o, v, status, p)
             head  == NewHead(c, o, v, status, p)
             index == NewIndex(d, acc, c, o, p)
             deks  == NewDeks(d, acc, c, o, v)
  <1>1. /\ y = [objects |-> [x.objects EXCEPT ![o] = head],
                versions |-> [x.versions EXCEPT ![o] = PutVersion(x.versions[o], v, row)],
                naturalKeys |-> index, deks |-> deks]
        /\ b.opened = IF StoredDek(d, scope).state = "live"
                      THEN acc.opened \cup {scope} ELSE acc.opened
    <2>1. y = NewTables(d, acc, c, o, v, status, p) /\ b.opened = NewOpened(d, acc, c, o)
      BY BuildFields
    <2> HIDE DEF b
    <2> QED
      BY <2>1 DEF NewTables, NewOpened
  <1>2. /\ y.objects = [x.objects EXCEPT ![o] = head]
        /\ y.versions = [x.versions EXCEPT ![o] = PutVersion(x.versions[o], v, row)]
        /\ y.naturalKeys = index /\ y.deks = deks
    BY <1>1
  <1>3. /\ d \in Dbs /\ x \in Dbs
        /\ scope \in RecordScopes \cup {None} /\ dek \in Deks
    <2>1. d \in Dbs /\ x \in Dbs
      BY DEF DbInv, Accs
    <2> QED
      BY <2>1, ScopeType, DekType
  <1>4. row \in VersionRows
    BY <1>3 DEF NewRow, VersionRows, Payloads, Deks
  <1>5. head \in ObjectRows /\ head # None
    <2>1. p.key \in Keys \cup {None}
      BY DEF Payloads
    <2>2. NaturalKey(c, o, p) \in Keys \cup Objects
      BY <2>1 DEF NaturalKey
    <2>3. head \in ObjectRows
      BY <2>2 DEF NewHead, ObjectRows
    <2> QED
      BY <2>3, NoneIsNothing
  <1>6. v = Len(d.versions[o]) + 1
    BY <1>3 DEF Targets, DbInv, Heads, Registered
  <1>7. PutVersion(x.versions[o], v, row) = Append(d.versions[o], row)
    <2>1. d.versions[o] \in Seq(VersionRows)
      BY <1>3 DEF Dbs
    <2>2. CASE Untouched(d, x, o)
      BY <1>6, <2>1, <2>2, PutNext DEF Untouched
    <2>3. CASE Touched(d, x, W, o)
      BY <1>4, <1>6, <2>1, <2>3, PutOver DEF Touched
    <2> QED
      BY <2>2, <2>3 DEF Progress
  <1>8. /\ scope # None => dek.state = "live"
        /\ scope # None /\ d.deks[scope].state # "none" => dek = d.deks[scope]
    BY <1>3 DEF CanBuild, StoredDek, EnsureDEK, Dbs, Deks, KeyState
  <1>9. deks \in [RecordScopes -> Deks]
    BY <1>3 DEF NewDeks, Dbs
  <1>10. index \in [IndexKeys -> Objects \cup {None}]
    BY <1>3 DEF NewIndex, Reindex, Dbs
  <1>11. y \in Dbs
    <2>1. Append(d.versions[o], row) \in Seq(VersionRows)
      BY <1>3, <1>4 DEF Dbs
    <2> QED
      BY <1>1, <1>3, <1>5, <1>7, <1>9, <1>10, <2>1 DEF Dbs
  <1> HIDE DEF b, x, y, row, head, index, deks, dek, scope
  <1>12. /\ head.class = c /\ head.head = v /\ head.status = status /\ ~head.erased
         /\ row.status = status /\ ~row.pruned /\ row.scope = scope
    BY DEF NewHead, NewRow, head, row, scope
  <1>13. y.objects[o] = head /\ y.versions[o] = Append(d.versions[o], row)
    BY <1>2, <1>3, <1>7 DEF Dbs
  <1>14. \A u \in Objects \ {o} : y.objects[u] = x.objects[u] /\ y.versions[u] = x.versions[u]
    BY <1>2, <1>3 DEF Dbs
  <1>15. /\ scope # None => y.deks[scope] = dek
         /\ \A s \in RecordScopes : s # scope => y.deks[s] = x.deks[s]
    BY <1>2, <1>3, NoneIsNothing DEF Dbs, NewDeks, deks, scope, dek, x
  <1>16. ASSUME NEW u \in Objects
         PROVE  \/ Untouched(d, y, u) /\ u \notin pending
                \/ Touched(d, y, W \cup {c}, u) /\ (Registered(d, u) \/ u \in pending)
    <2>1. CASE u = o
      <3>1. Registered(d, o) => y.objects[o].class = d.objects[o].class /\ ~d.objects[o].erased
        BY <1>12, <1>13 DEF Targets
      <3>2. Touched(d, y, W \cup {c}, o)
        BY <1>4, <1>5, <1>6, <1>12, <1>13, <3>1 DEF Touched, Registered, ScopeOf, scope
      <3>3. Registered(d, o) \/ o \in pending
        BY DEF Targets
      <3> QED
        BY <2>1, <3>2, <3>3
    <2>2. CASE u # o
      <3>1. u \in pending <=> u \in acc.pending
        BY <2>2 DEF Targets
      <3>2. Untouched(d, x, u) => Untouched(d, y, u)
        BY <1>14, <2>2 DEF Untouched
      <3>3. Touched(d, x, W, u) => Touched(d, y, W \cup {c}, u)
        BY <1>14, <2>2 DEF Touched, Registered, ScopeOf
      <3> QED
        BY <3>1, <3>2, <3>3 DEF Progress, x
    <2> QED
      BY <2>1, <2>2
  <1>17. ASSUME NEW s \in RecordScopes
         PROVE  y.deks[s] = d.deks[s] \/ (d.deks[s].state = "none" /\ y.deks[s].state = "live")
    <2>1. x.deks[s] = d.deks[s] \/ (d.deks[s].state = "none" /\ x.deks[s].state = "live")
      BY DEF Progress, x
    <2>2. CASE s = scope
      BY <1>8, <1>15, <2>2, NoneIsNothing
    <2>3. CASE s # scope
      BY <1>15, <2>1, <2>3
    <2> QED
      BY <2>2, <2>3
  <1>18. \A s \in b.opened : s \in RecordScopes /\ d.deks[s].state = "live"
    BY <1>1, <1>3 DEF Progress, StoredDek, NoDek
  <1>19. Scoped(y)
    <2> SUFFICES ASSUME NEW u \in Objects, Registered(y, u)
                 PROVE  /\ ScopeOf(y, u) # None => y.deks[ScopeOf(y, u)].state # "none"
                        /\ \A i \in DOMAIN y.versions[u] : y.versions[u][i].scope = ScopeOf(y, u)
      BY DEF Scoped
    <2>1. \A s \in RecordScopes : x.deks[s].state # "none" => y.deks[s].state # "none"
      BY <1>8, <1>15, NoneIsNothing
    <2>2. CASE u # o
      <3>1. Registered(x, u) /\ ScopeOf(x, u) = ScopeOf(y, u) /\ y.versions[u] = x.versions[u]
        BY <1>14, <2>2 DEF Registered, ScopeOf
      <3>2. /\ ScopeOf(x, u) # None => x.deks[ScopeOf(x, u)].state # "none"
            /\ \A i \in DOMAIN x.versions[u] : x.versions[u][i].scope = ScopeOf(x, u)
        BY <3>1 DEF Progress, Scoped, x
      <3>3. ScopeOf(x, u) \in RecordScopes \cup {None}
        BY <1>3, <3>1, ScopeType DEF ScopeOf, Registered, Dbs, ObjectRows
      <3> QED
        BY <2>1, <3>1, <3>2, <3>3
    <2>3. CASE u = o
      <3>1. ScopeOf(y, o) = scope
        BY <1>12, <1>13 DEF ScopeOf, scope
      <3>2. scope # None => y.deks[scope].state # "none"
        BY <1>8, <1>15
      <3>3. d.versions[o] \in Seq(VersionRows)
        BY <1>3 DEF Dbs
      <3>4. \A i \in DOMAIN d.versions[o] : d.versions[o][i].scope = scope
        <4>1. CASE Registered(d, o)
          BY <4>1 DEF Targets, DbInv, Scoped, ScopeOf, scope
        <4>2. CASE ~Registered(d, o)
          BY <4>2 DEF DbInv, Heads
        <4> QED
          BY <4>1, <4>2
      <3>5. \A i \in DOMAIN y.versions[o] : y.versions[o][i].scope = scope
        BY <1>4, <1>12, <1>13, <3>3, <3>4
      <3> QED
        BY <2>3, <3>1, <3>2, <3>5
    <2> QED
      BY <2>2, <2>3
  <1> QED
    BY <1>11, <1>13, <1>16, <1>17, <1>18, <1>19 DEF Progress, Appended, b, y, row

\* The object a write is for has, in the write set so far, the class it is
\* written with, or is not there yet.
LEMMA TargetClass ==
    ASSUME NEW d, NEW acc \in Accs, NEW W \in SUBSET Classes,
           Progress(d, acc.db, acc.pending, acc.opened, W),
           NEW c \in Classes, NEW o \in Objects, NEW v, NEW pending,
           Targets(d, acc, c, o, v, pending)
    PROVE  /\ Registered(d, o) => Registered(acc.db, o) /\ acc.db.objects[o].class = c
           /\ ~Registered(d, o) => Untouched(d, acc.db, o) /\ ~Registered(acc.db, o)
  BY DEF Progress, Targets, Touched, Untouched, Registered

\* The tables after a write, read back.
LEMMA WrittenTables ==
    ASSUME NEW d, NEW acc, NEW W, NEW c, NEW o, NEW v, NEW status, NEW p, NEW pending,
           Writes(d, acc, W, c, o, v, status, p, pending)
    PROVE  LET y == BuildRecord(d, acc, c, o, v, status, p).db IN
           /\ y.objects[o] = NewHead(c, o, v, status, p)
           /\ \A u \in Objects \ {o} : /\ y.objects[u] = acc.db.objects[u]
                                       /\ y.versions[u] = acc.db.versions[u]
           /\ y.naturalKeys = NewIndex(d, acc, c, o, p)
           /\ DekScope(c, o) # None => y.deks[DekScope(c, o)] = EnsureDEK(d, DekScope(c, o), o, v)
           /\ \A s \in RecordScopes : s # DekScope(c, o) => y.deks[s] = acc.db.deks[s]
  <1> USE DEF Writes
  <1> DEFINE y == BuildRecord(d, acc, c, o, v, status, p).db
  <1>1. y = NewTables(d, acc, c, o, v, status, p)
    BY BuildFields
  <1> HIDE DEF y
  <1>2. /\ y.objects = [acc.db.objects EXCEPT ![o] = NewHead(c, o, v, status, p)]
        /\ y.versions = [acc.db.versions EXCEPT ![o] =
                            PutVersion(acc.db.versions[o], v, NewRow(d, c, o, v, status, p))]
        /\ y.naturalKeys = NewIndex(d, acc, c, o, p)
        /\ y.deks = NewDeks(d, acc, c, o, v)
    BY <1>1 DEF NewTables
  <1>3. acc.db \in Dbs
    BY DEF Accs
  <1>4. /\ y.objects[o] = NewHead(c, o, v, status, p)
        /\ \A u \in Objects \ {o} : /\ y.objects[u] = acc.db.objects[u]
                                    /\ y.versions[u] = acc.db.versions[u]
    BY <1>2, <1>3 DEF Dbs
  <1>5. /\ DekScope(c, o) # None => y.deks[DekScope(c, o)] = EnsureDEK(d, DekScope(c, o), o, v)
        /\ \A s \in RecordScopes : s # DekScope(c, o) => y.deks[s] = acc.db.deks[s]
    BY <1>2, <1>3, ScopeType, NoneIsNothing DEF Dbs, NewDeks
  <1> QED
    BY <1>2, <1>4, <1>5 DEF y

\* One write keeps the natural key index exact, unless the write set has
\* already written that class.
LEMMA WriteKeepsIndex ==
    ASSUME NEW d, NEW acc, NEW W, NEW c, NEW o, NEW v, NEW status, NEW p, NEW pending,
           Writes(d, acc, W, c, o, v, status, p, pending),
           Indexed(acc.db), Class[c].natural => c \notin W
    PROVE  Indexed(BuildRecord(d, acc, c, o, v, status, p).db)
  <1> USE DEF Writes
  <1> DEFINE x   == acc.db
             y   == BuildRecord(d, acc, c, o, v, status, p).db
             key == NaturalKey(c, o, p)
             previous == IF Registered(d, o) THEN d.objects[o].key ELSE key
  <1>1. x \in Dbs /\ d \in Dbs
    BY DEF Accs, DbInv
  <1>2. /\ y.objects[o] = NewHead(c, o, v, status, p)
        /\ \A u \in Objects \ {o} : y.objects[u] = x.objects[u]
        /\ y.naturalKeys = NewIndex(d, acc, c, o, p)
    <2> HIDE DEF Writes
    <2> QED
      BY WrittenTables
  <1> HIDE DEF x, y
  <1>3. /\ Registered(d, o) => Registered(x, o) /\ x.objects[o].class = c
        /\ ~Registered(d, o) => ~Registered(x, o)
    BY TargetClass DEF x
  <1>4. NewHead(c, o, v, status, p) \in ObjectRows /\ Registered(y, o)
    <2>1. p.key \in Keys \cup {None}
      BY DEF Payloads
    <2>2. key \in Keys \cup Objects
      BY <2>1 DEF NaturalKey
    <2>3. NewHead(c, o, v, status, p) \in ObjectRows
      BY <2>2 DEF NewHead, ObjectRows
    <2> QED
      BY <1>2, <2>3, NoneIsNothing DEF Registered
  <1>5. y.objects[o].class = c /\ y.objects[o].key = key
    BY <1>2 DEF NewHead
  <1> HIDE DEF key
  <1> SUFFICES ASSUME NEW e \in Classes, NEW k \in Keys \cup Objects, NEW u \in Objects
               PROVE  y.naturalKeys[<<e, k>>] = u
                        <=> /\ Registered(y, u) /\ Class[e].natural
                            /\ y.objects[u].class = e /\ y.objects[u].key = k
    BY DEF Indexed, y
  <1>6. x.naturalKeys[<<e, k>>] = u
            <=> /\ Registered(x, u) /\ Class[e].natural
                /\ x.objects[u].class = e /\ x.objects[u].key = k
    BY DEF Indexed, x
  <1>7. u # o => Registered(y, u) = Registered(x, u) /\ y.objects[u] = x.objects[u]
    BY <1>2 DEF Registered
  <1>8. CASE ~Class[c].natural
    <2>1. y.naturalKeys = x.naturalKeys
      BY <1>2, <1>8 DEF NewIndex, x
    <2> QED
      BY <1>3, <1>5, <1>6, <1>7, <1>8, <2>1
  <1>9. CASE Class[c].natural /\ e # c
    <2>1. y.naturalKeys[<<e, k>>] = x.naturalKeys[<<e, k>>]
      BY <1>1, <1>2, <1>9 DEF NewIndex, Reindex, x, Dbs, IndexKeys
    <2> QED
      BY <1>3, <1>5, <1>6, <1>7, <1>9, <2>1
  <1>10. CASE Class[c].natural /\ e = c
    <2>1. y.naturalKeys[<<c, k>>] = IF k = key THEN o
                                ELSE IF k = previous THEN None ELSE x.naturalKeys[<<c, k>>]
      BY <1>1, <1>2, <1>10 DEF NewIndex, Reindex, x, Dbs, IndexKeys, key
    <2>2. ASSUME NEW q \in Objects, x.objects[q] # None, x.objects[q].class = c
          PROVE  x.objects[q] = d.objects[q]
      BY <1>10, <2>2 DEF Progress, Touched, Untouched, x
    <2>3. u # o /\ Registered(x, u) /\ x.objects[u].class = c => x.objects[u].key # key
      BY <1>10, <2>2 DEF CanBuild, NaturalKeyFree, Registered, key
    <2>4. Registered(d, o) => x.objects[o] = d.objects[o] /\ x.objects[o].class = c
      BY <1>3, <2>2 DEF Registered
    <2>5. CASE u = o
      <3>1. k # key /\ k # previous => ~(Registered(x, o) /\ x.objects[o].key = k)
        BY <1>3, <2>4
      <3> QED
        BY <1>4, <1>5, <1>6, <1>10, <2>1, <2>5, <3>1, NoneIsNothing
    <2>6. CASE u # o
      <3>1. CASE k = key
        BY <1>7, <1>10, <2>1, <2>3, <2>6, <3>1
      <3>2. CASE k # key /\ k = previous
        <4>1. x.naturalKeys[<<c, k>>] = o
          BY <1>3, <1>10, <2>4, <3>2 DEF Indexed, x
        <4> QED
          BY <1>6, <1>7, <1>10, <2>1, <2>6, <3>2, <4>1, NoneIsNothing
      <3>3. CASE k # key /\ k # previous
        BY <1>6, <1>7, <1>10, <2>1, <2>6, <3>3
      <3> QED
        BY <3>1, <3>2, <3>3
    <2> QED
      BY <2>5, <2>6
  <1> QED
    BY <1>8, <1>9, <1>10

\* Two records sealed under one key share it by declaration, or are one record.
LEMMA SharedScope ==
    ASSUME NEW c1 \in Classes, NEW c2 \in Classes, NEW u, NEW o,
           DekScope(c1, u) = DekScope(c2, o), DekScope(c2, o) # None
    PROVE  SharesScope(c1, c2) \/ u = o
  <1>1. Class[c1].encryption \in {"none", "tenant", "class", "subject"}
    BY PackIsValid DEF ValidClass
  <1>2. Class[c2].encryption \in {"none", "tenant", "class", "subject"}
    BY PackIsValid DEF ValidClass
  <1> QED
    BY <1>1, <1>2 DEF DekScope, SharesScope

\* One write leaves every row under a key that opens it, unless the write set
\* has already written under the same shared scope.
LEMMA WriteKeepsSealed ==
    ASSUME NEW d, NEW acc, NEW W, NEW c, NEW o, NEW v, NEW status, NEW p, NEW pending,
           Writes(d, acc, W, c, o, v, status, p, pending),
           Sealed(acc.db), \A c1 \in W : ~SharesScope(c1, c)
    PROVE  Sealed(BuildRecord(d, acc, c, o, v, status, p).db)
  <1> USE DEF Writes
  <1> DEFINE x     == acc.db
             y     == BuildRecord(d, acc, c, o, v, status, p).db
             scope == DekScope(c, o)
             dek   == EnsureDEK(d, scope, o, v)
             row   == NewRow(d, c, o, v, status, p)
  <1>1. /\ x \in Dbs /\ d \in Dbs
        /\ d.versions[o] \in Seq(VersionRows)
        /\ scope \in RecordScopes \cup {None}
    BY ScopeType DEF Accs, DbInv, Dbs
  <1>2. /\ \A u \in Objects \ {o} : y.versions[u] = x.versions[u]
        /\ scope # None => y.deks[scope] = dek
        /\ \A s \in RecordScopes : s # scope => y.deks[s] = x.deks[s]
    <2> HIDE DEF Writes
    <2> QED
      BY WrittenTables
  <1>3. y.versions[o] = Append(d.versions[o], row)
    <2> HIDE DEF Writes
    <2>1. Appended(d, y, o, row)
      BY WriteKeeps
    <2> QED
      BY <2>1 DEF Appended
  <1>4. row.scope = scope /\ row.dek = dek.id
    BY DEF NewRow
  <1>5. scope # None /\ d.deks[scope].state # "none" => dek = d.deks[scope]
    BY <1>1 DEF StoredDek, EnsureDEK
  <1> HIDE DEF x, y, scope, dek, row
  <1>6. Opens(y, row)
    BY <1>2, <1>4 DEF Opens
  \* Nothing written so far is under a key this write mints.
  <1>7. ASSUME NEW u \in Objects, NEW i \in DOMAIN x.versions[u],
               scope # None, d.deks[scope].state = "none"
        PROVE  x.versions[u][i].scope # scope
    <2>1. Registered(x, u)
      BY DEF Progress, Untouched, Touched, DbInv, Heads, Registered, x
    <2>2. x.versions[u][i].scope = ScopeOf(x, u)
      BY <2>1 DEF Progress, Scoped, x
    <2>3. CASE Registered(d, u)
      <3>1. ScopeOf(x, u) = ScopeOf(d, u)
        BY <2>3 DEF Progress, Untouched, Touched, ScopeOf, x
      <3> QED
        BY <1>7, <2>2, <2>3, <3>1 DEF DbInv, Scoped
    <2>4. CASE ~Registered(d, u)
      <3>1. x.objects[u].class \in W /\ u \in acc.pending
        BY <2>1, <2>4 DEF Progress, Untouched, Touched, Registered, x
      <3>2. u # o
        BY <2>4, <3>1 DEF Targets
      <3> QED
        BY <1>7, <2>2, <3>1, <3>2, SharedScope DEF ScopeOf, scope
    <2> QED
      BY <2>3, <2>4
  <1>8. ASSUME NEW u \in Objects, NEW i \in DOMAIN x.versions[u], Opens(x, x.versions[u][i])
        PROVE  Opens(y, x.versions[u][i])
    <2> DEFINE r == x.versions[u][i]
    <2>1. r.scope \in RecordScopes \cup {None}
      <3>1. x.versions[u] \in Seq(VersionRows)
        BY <1>1 DEF Dbs
      <3>2. r \in VersionRows
        BY <3>1
      <3> QED
        BY <3>2 DEF VersionRows
    <2> HIDE DEF r
    <2>2. CASE r.scope # scope \/ r.scope = None
      BY <1>2, <1>8, <2>1, <2>2 DEF Opens, r
    <2>3. CASE r.scope = scope /\ scope # None
      <3>1. d.deks[scope].state # "none"
        BY <1>7, <2>3 DEF r
      <3>2. x.deks[scope] = d.deks[scope]
        BY <1>1, <2>3, <3>1 DEF Progress, x
      <3> QED
        BY <1>2, <1>5, <1>8, <2>3, <3>1, <3>2 DEF Opens, r
    <2> QED
      BY <2>2, <2>3 DEF r
  <1> SUFFICES ASSUME NEW u \in Objects, NEW i \in DOMAIN y.versions[u],
                      ~y.versions[u][i].pruned
               PROVE  Opens(y, y.versions[u][i])
    BY DEF Sealed, y
  <1>9. CASE u # o
    BY <1>2, <1>8, <1>9 DEF Sealed, x
  <1>10. CASE u = o /\ i = Len(d.versions[o]) + 1
    BY <1>1, <1>3, <1>6, <1>10
  <1>11. CASE u = o /\ i # Len(d.versions[o]) + 1
    <2>1. i \in DOMAIN d.versions[o] /\ y.versions[o][i] = d.versions[o][i]
      BY <1>1, <1>3, <1>11
    <2>2. i \in DOMAIN x.versions[o] /\ x.versions[o][i] = d.versions[o][i]
      BY <1>1, <2>1 DEF Progress, Untouched, Touched, x
    <2> QED
      BY <1>8, <1>11, <2>1, <2>2 DEF Sealed, x
  <1> QED
    BY <1>9, <1>10, <1>11

----------------------------------------------------------------------------
(* What one effect does to the write set: nothing, or one write.           *)

Ready(d, acc, W) ==
    /\ DbInv(d) /\ now \in Nat /\ acc \in Accs /\ W \in SUBSET Classes
    /\ Progress(d, acc.db, acc.pending, acc.opened, W)
Idle(acc, new) ==
    new.db = acc.db /\ new.pending = acc.pending /\ new.opened = acc.opened
Wrote(d, acc, W, new, c, o, status, p) ==
    \E v, pending :
        /\ Writes(d, acc, W, c, o, v, status, p, pending)
        /\ new.db = BuildRecord(d, acc, c, o, v, status, p).db
        /\ new.opened = BuildRecord(d, acc, c, o, v, status, p).opened
        /\ new.pending = pending
\* Object `o` of class `c` got `status` and payload `p`, or nothing was written;
\* an effect that succeeds may do so only when it `skips`.
Shape(d, acc, W, new, c, o, status, p, skips) ==
    /\ new \in Accs
    /\ \/ Idle(acc, new) /\ (new.res = "ok" => skips)
       \/ Wrote(d, acc, W, new, c, o, status, p)
\* The decision is still about the same object.
Steady(acc, new) == new.obj = acc.obj /\ new.ctx = acc.ctx

\* An effect that is skipped or refused writes nothing.
LEMMA IdleShape ==
    ASSUME NEW d, NEW acc, NEW W, NEW c, NEW o, NEW status, NEW p, NEW skips,
           Ready(d, acc, W)
    PROVE  /\ acc.res = "ok" /\ skips => Shape(d, acc, W, acc, c, o, status, p, skips)
           /\ acc.res # "ok" => Shape(d, acc, W, acc, c, o, status, p, skips)
           /\ Shape(d, acc, W, Fail(acc), c, o, status, p, skips) /\ Steady(acc, Fail(acc))
           /\ Shape(d, acc, W, OutOfIds(acc), c, o, status, p, skips)
           /\ Steady(acc, OutOfIds(acc))
  <1>1. acc \in Accs
    BY DEF Ready
  <1>2. /\ Fail(acc) \in Accs /\ Idle(acc, Fail(acc)) /\ Fail(acc).res # "ok"
        /\ Steady(acc, Fail(acc))
    BY <1>1 DEF Idle, Fail, Accs, Steady
  <1>3. /\ OutOfIds(acc) \in Accs /\ Idle(acc, OutOfIds(acc)) /\ OutOfIds(acc).res # "ok"
        /\ Steady(acc, OutOfIds(acc))
    BY <1>1 DEF Idle, OutOfIds, Accs, Steady
  <1> QED
    BY <1>1, <1>2, <1>3 DEF Shape, Idle

LEMMA IdleEnds ==
    ASSUME NEW d, NEW acc, NEW W, Ready(d, acc, W)
    PROVE  Idle(acc, Fail(acc)) /\ Idle(acc, OutOfIds(acc))
  BY DEF Ready, Idle, Fail, OutOfIds, Accs

\* A decision without an object continues with the one it created.
Renamed(made, new) ==
    \/ new = [made EXCEPT !.obj = made.created]
    \/ new = [made EXCEPT !.obj = made.created, !.ctx = made.created]

LEMMA RenamedShape ==
    ASSUME NEW d, NEW acc, NEW W, NEW made \in Accs, NEW new, NEW c, NEW o, NEW status, NEW p,
           Renamed(made, new)
    PROVE  /\ new \in Accs /\ new.res = made.res
           /\ Idle(acc, made) => Idle(acc, new)
           /\ Wrote(d, acc, W, made, c, o, status, p) => Wrote(d, acc, W, new, c, o, status, p)
  <1>1. /\ new \in Accs /\ new.res = made.res
        /\ new.db = made.db /\ new.pending = made.pending /\ new.opened = made.opened
    BY DEF Accs, Renamed
  <1>2. Idle(acc, made) => Idle(acc, new)
    BY <1>1 DEF Idle
  <1>3. Wrote(d, acc, W, made, c, o, status, p) => Wrote(d, acc, W, new, c, o, status, p)
    BY <1>1 DEF Wrote
  <1> QED
    BY <1>1, <1>2, <1>3

\* A write leaves a write set.
LEMMA BuiltAcc ==
    ASSUME NEW d, NEW acc, NEW W, NEW c, NEW o, NEW v, NEW status, NEW p, NEW pending,
           Writes(d, acc, W, c, o, v, status, p, pending)
    PROVE  LET b == BuildRecord(d, acc, c, o, v, status, p) IN
           b \in Accs /\ b.pending = acc.pending /\ Steady(acc, b)
  <1> DEFINE b == BuildRecord(d, acc, c, o, v, status, p)
             t == NewTables(d, acc, c, o, v, status, p)
             n == NewOpened(d, acc, c, o)
  <1>1. acc \in Accs
    BY DEF Writes
  <1>2. b = [acc EXCEPT !.db = t, !.opened = n]
    BY BuildWhole
  <1>3. b.db = t /\ b.opened = n
    BY <1>1, BuildFields
  <1>4. Progress(d, b.db, pending, b.opened, W \cup {c})
    BY WriteKeeps
  <1> HIDE DEF b, t, n
  <1>5. t \in Dbs /\ n \in SUBSET RecordScopes
    BY <1>3, <1>4 DEF Progress
  <1> QED
    BY <1>1, <1>2, <1>5 DEF Accs, Steady, b

\* The object, the status and the payload of the write an effect makes, and
\* when it may succeed without one.
StayOr(d, o, status) == IF status = "" THEN d.objects[o].status ELSE status
Minted(d, acc, c) == CHOOSE x \in Unused(d, acc, c) : TRUE
Closes(d, acc, e) == Linked(d, e.class, acc.ctx, e.match)
ToClose(d, acc, e) == CHOOSE x \in Closes(d, acc, e) : TRUE
NothingToClose(d, acc, e) == Closes(d, acc, e) = {}
StatusTarget(acc, e, payload) == IF e.target = "" THEN acc.obj ELSE payload.ref
Creates(w, e) ==
    e.type \in {"create_object", "open_link"} \/ (e.type = "record" /\ Wf[w].action = "create")
Target(d, acc, w, payload, e) ==
    CASE Creates(w, e)         -> Minted(d, acc, Written(w, e))
      [] e.type = "record" /\ ~Creates(w, e) -> acc.obj
      [] e.type = "set_status" -> StatusTarget(acc, e, payload)
      [] OTHER                 -> ToClose(d, acc, e)
Declared(w, e) ==
    IF e.type # "record" THEN e.status ELSE IF Wf[w].action = "status" THEN Wf[w].status ELSE ""
Moved(d, acc, w, payload, e) ==
    IF Declared(w, e) # "" THEN Declared(w, e)
    ELSE IF Creates(w, e) THEN Class[Written(w, e)].initial
    ELSE d.objects[Target(d, acc, w, payload, e)].status
Carried(d, acc, w, payload, e) ==
    CASE e.type = "record" /\ Wf[w].action # "status"  -> payload
      [] e.type \in {"create_object", "open_link"}     -> EffectPayload(acc, e, payload)
      [] OTHER -> HeadPayload(d, Target(d, acc, w, payload, e))
Skips(d, acc, w, payload, e) ==
    \/ e.type = "set_status"
    \/ e.type = "close_link" /\ NothingToClose(d, acc, e)
    \/ /\ e.type = "record" /\ Wf[w].action = "status"
       /\ HeadReadable(d, acc.obj) /\ HeadVersion(d, acc.obj).status = Wf[w].status

\* Creating, updating, changing a status and closing a link are each one write.
LEMMA CreateShape ==
    ASSUME NEW d, NEW acc, NEW W, NEW c \in Classes, NEW payload \in Payloads, NEW status,
           NEW skips, Ready(d, acc, W), acc.res = "ok"
    PROVE  LET new == CreateOps(d, acc, c, payload, status) IN
           /\ Shape(d, acc, W, new, c, Minted(d, acc, c),
                    NewStatus(c, status), payload, skips)
           /\ Steady(acc, new)
           /\ new.res = "ok" => /\ new.created = Minted(d, acc, c)
                                /\ Minted(d, acc, c) \in Unused(d, acc, c)
  <1> DEFINE free  == Unused(d, acc, c)
             o     == Minted(d, acc, c)
             moved == NewStatus(c, status)
             b     == BuildRecord(d, acc, c, o, 1, moved, payload)
             new   == [b EXCEPT !.pending = @ \cup {o}, !.created = o]
             pend  == acc.pending \cup {o}
  <1>1. CASE /\ free # {} /\ moved \in Class[c].statuses
             /\ CanBuild(d, acc.pending, c, o, payload)
    <2>0. o \in free
      BY <1>1 DEF Minted
    <2>1. o \in Objects /\ ~Registered(d, o) /\ o \notin acc.pending
      BY <2>0 DEF Unused
    <2>2. moved \in STRING
      BY <1>1, PackIsValid DEF ValidClass
    <2> HIDE DEF o, moved
    <2>3. Writes(d, acc, W, c, o, 1, moved, payload, pend)
      BY <1>1, <2>1, <2>2 DEF Writes, Ready, Targets, Accs
    <2>4. b \in Accs /\ b.pending = acc.pending /\ Steady(acc, b)
      BY <2>3, BuiltAcc
    <2> HIDE DEF b
    <2>5. /\ new \in Accs /\ new.db = b.db /\ new.opened = b.opened
          /\ new.pending = pend /\ Steady(acc, new) /\ new.created = o
      BY <2>1, <2>4 DEF Accs, Steady
    <2> HIDE DEF new
    <2>6. Wrote(d, acc, W, new, c, o, moved, payload)
      BY <2>3, <2>5 DEF Wrote, b
    <2>7. CreateOps(d, acc, c, payload, status) = new
      BY <1>1 DEF CreateOps, new, b, o, moved, Minted, NewStatus
    <2> QED
      BY <2>0, <2>5, <2>6, <2>7 DEF Shape, o, moved
  <1>2. CASE ~(/\ free # {} /\ moved \in Class[c].statuses
               /\ CanBuild(d, acc.pending, c, o, payload))
    <2>1. CreateOps(d, acc, c, payload, status) \in {Fail(acc), OutOfIds(acc)}
      BY <1>2 DEF CreateOps, Minted, NewStatus
    <2>2. Fail(acc).res # "ok" /\ OutOfIds(acc).res # "ok"
      BY DEF Ready, Accs, Fail, OutOfIds
    <2> HIDE DEF o, moved
    <2> QED
      BY <2>1, <2>2, IdleShape DEF o, moved
  <1> QED
    BY <1>1, <1>2

LEMMA UpdateShape ==
    ASSUME NEW d, NEW acc, NEW W, NEW c \in Classes, NEW o \in Objects \cup {None},
           NEW payload \in Payloads, NEW status, NEW skips, Ready(d, acc, W)
    PROVE  LET new == UpdateOps(d, acc, c, o, payload, status) IN
           /\ Shape(d, acc, W, new, c, o,
                    StayOr(d, o, status), payload, skips)
           /\ Steady(acc, new)
           /\ Idle(acc, new) \/ Registered(d, o)
  <1> DEFINE head  == d.objects[o]
             moved == StayOr(d, o, status)
             b     == BuildRecord(d, acc, c, o, NextVersion(head), moved, payload)
  <1>1. CASE /\ o # None /\ head # None /\ head.class = c /\ ~head.erased
             /\ moved \in Class[c].statuses /\ CanBuild(d, acc.pending, c, o, payload)
             /\ ~(head.head >= MaxVersions)
    <2>1. d \in Dbs
      BY DEF Ready, DbInv
    <2>2. head \in ObjectRows
      BY <1>1, <2>1 DEF Dbs
    <2>3. head.head + 1 \in Nat \ {0}
      BY <2>2 DEF ObjectRows
    <2>4. moved \in STRING
      BY <1>1, PackIsValid DEF ValidClass
    <2>5. Targets(d, acc, c, o, head.head + 1, acc.pending)
      BY <1>1 DEF Targets, Registered
    <2>6. Writes(d, acc, W, c, o, NextVersion(head), moved, payload, acc.pending)
      BY <1>1, <2>3, <2>4, <2>5 DEF Writes, Ready, Accs, NextVersion
    <2>7. UpdateOps(d, acc, c, o, payload, status) = b
      BY <1>1 DEF UpdateOps, StayOr
    <2> HIDE DEF moved
    <2>8. b \in Accs /\ b.pending = acc.pending /\ Steady(acc, b)
      BY <2>6, BuiltAcc
    <2>9. Wrote(d, acc, W, b, c, o, moved, payload)
      BY <2>6, <2>8 DEF Wrote
    <2> QED
      BY <1>1, <2>7, <2>8, <2>9 DEF Shape, moved, Registered
  <1>2. CASE ~(/\ o # None /\ head # None /\ head.class = c /\ ~head.erased
               /\ moved \in Class[c].statuses /\ CanBuild(d, acc.pending, c, o, payload)
               /\ ~(head.head >= MaxVersions))
    <2>1. UpdateOps(d, acc, c, o, payload, status) \in {Fail(acc), OutOfIds(acc)}
      BY <1>2 DEF UpdateOps, StayOr
    <2> HIDE DEF moved
    <2> QED
      BY <2>1, IdleShape, IdleEnds DEF moved
  <1> QED
    BY <1>1, <1>2

\* The payload a status change carries over.
LEMMA HeadPayloadType ==
    ASSUME NEW d \in Dbs, NEW o \in Objects, d.versions[o] # <<>>
    PROVE  HeadPayload(d, o) \in Payloads
  <1>1. d.versions[o] \in Seq(VersionRows)
    BY DEF Dbs
  <1>2. d.versions[o][Len(d.versions[o])] \in VersionRows
    BY <1>1
  <1> QED
    BY <1>2 DEF HeadPayload, HeadVersion, VersionRows, Payloads

LEMMA StatusShape ==
    ASSUME NEW d, NEW acc, NEW W, NEW c \in Classes, NEW o \in Objects \cup {None},
           NEW status, NEW skips, Ready(d, acc, W),
           HeadReadable(d, o) /\ HeadVersion(d, o).status = status => skips
    PROVE  LET new == StatusOps(d, acc, c, o, status) IN
           /\ Shape(d, acc, W, new, c, o,
                    StayOr(d, o, status),
                    HeadPayload(d, o), skips)
           /\ Steady(acc, new)
           /\ Idle(acc, new) \/ Registered(d, o)
  <1> DEFINE moved == StayOr(d, o, status)
  <1>1. CASE HeadReadable(d, o) /\ HeadVersion(d, o).status # status
    <2>1. HeadPayload(d, o) \in Payloads
      BY <1>1, HeadPayloadType DEF HeadReadable, Ready, DbInv
    <2>2. StatusOps(d, acc, c, o, status) = UpdateOps(d, acc, c, o, HeadPayload(d, o), status)
      BY <1>1 DEF StatusOps
    <2> HIDE DEF moved
    <2>3. LET new == UpdateOps(d, acc, c, o, HeadPayload(d, o), status) IN
          /\ Shape(d, acc, W, new, c, o, moved, HeadPayload(d, o), skips)
          /\ Steady(acc, new)
          /\ Idle(acc, new) \/ Registered(d, o)
      BY <2>1, UpdateShape DEF moved
    <2> QED
      BY <2>2, <2>3 DEF moved
  <1>2. CASE HeadReadable(d, o) /\ HeadVersion(d, o).status = status
    <2>1. StatusOps(d, acc, c, o, status) = acc
      BY <1>2 DEF StatusOps
    <2> HIDE DEF moved
    <2> QED
      BY <1>2, <2>1, IdleShape DEF Steady, Idle, moved
  <1>3. CASE ~HeadReadable(d, o)
    <2>1. StatusOps(d, acc, c, o, status) = Fail(acc)
      BY <1>3 DEF StatusOps
    <2> HIDE DEF moved
    <2> QED
      BY <2>1, IdleShape, IdleEnds DEF moved
  <1> QED
    BY <1>1, <1>2, <1>3

LEMMA CloseShape ==
    ASSUME NEW d, NEW acc, NEW W, NEW e, e.class \in Classes, NEW skips, Ready(d, acc, W),
           NothingToClose(d, acc, e) => skips
    PROVE  LET new    == CloseLink(d, acc, e)
               target == ToClose(d, acc, e) IN
           /\ Shape(d, acc, W, new, e.class, target,
                    StayOr(d, target, e.status),
                    HeadPayload(d, target), skips)
           /\ Steady(acc, new)
           /\ Idle(acc, new) \/ target \in Closes(d, acc, e)
  <1> DEFINE found  == Closes(d, acc, e)
             target == ToClose(d, acc, e)
             moved  == StayOr(d, target, e.status)
  <1>1. CASE found # {} /\ HeadReadable(d, target)
    <2>0. target \in found
      BY <1>1 DEF ToClose
    <2>1. target \in Objects
      BY <2>0 DEF Closes, Linked
    <2>2. CloseLink(d, acc, e)
            = UpdateOps(d, acc, e.class, target, HeadPayload(d, target), e.status)
      BY <1>1 DEF CloseLink, Closes, ToClose
    <2>3. HeadPayload(d, target) \in Payloads
      BY <1>1, <2>1, HeadPayloadType DEF HeadReadable, Ready, DbInv
    <2> QED
      BY <2>0, <2>1, <2>2, <2>3, UpdateShape
  <1>2. CASE found = {} /\ e.optional
    <2>1. CloseLink(d, acc, e) = acc /\ skips
      BY <1>2 DEF CloseLink, Closes, NothingToClose
    <2> HIDE DEF moved
    <2> QED
      BY <2>1, IdleShape DEF Steady, Idle, moved
  <1>3. CASE (found = {} /\ ~e.optional) \/ (found # {} /\ ~HeadReadable(d, target))
    <2>1. CloseLink(d, acc, e) = Fail(acc)
      BY <1>3 DEF CloseLink, Closes, ToClose
    <2> HIDE DEF moved
    <2> QED
      BY <2>1, IdleShape, IdleEnds DEF moved
  <1> QED
    BY <1>1, <1>2, <1>3

\* Every effect of a workflow writes the class it declares, or nothing.
EffectDone(d, acc, W, new, w, payload, e) ==
    Shape(d, acc, W, new, Written(w, e), Target(d, acc, w, payload, e),
          Moved(d, acc, w, payload, e), Carried(d, acc, w, payload, e),
          Skips(d, acc, w, payload, e))
\* What templates and effects call the object stays, except that a created
\* record becomes it.
Context(d, acc, new, w, e) ==
    /\ Wf[w].action # "create" /\ acc.obj # None => new.obj = acc.obj
    /\ ~(e.type = "record" /\ Wf[w].action = "create") => new.ctx = acc.ctx
    /\ e.type = "record" /\ Wf[w].action = "create" /\ new.res = "ok"
        => new.ctx = Minted(d, acc, Wf[w].class)

\* A creation takes an identifier nobody uses; anything else writes a record
\* that is there, and closing a link one of the links it looked for.
Aimed(d, acc, new, w, payload, e) ==
    LET o == Target(d, acc, w, payload, e) IN
    /\ Creates(w, e) /\ new.res = "ok" => o \in Unused(d, acc, Written(w, e))
    /\ ~Creates(w, e) => Idle(acc, new) \/ Registered(d, o)
    /\ e.type = "close_link" => Idle(acc, new) \/ o \in Closes(d, acc, e)

LEMMA EffectShape ==
    ASSUME NEW d, NEW acc, NEW W, NEW w \in Workflows, NEW payload \in Payloads,
           NEW i \in DOMAIN Wf[w].effects, Ready(d, acc, W), acc.res = "ok"
    PROVE  LET e   == Wf[w].effects[i]
               new == NextEffect(d, acc, w, payload, e)
           IN  /\ EffectDone(d, acc, W, new, w, payload, e)
               /\ Context(d, acc, new, w, e)
               /\ Aimed(d, acc, new, w, payload, e)
  <1> DEFINE e   == Wf[w].effects[i]
             new == NextEffect(d, acc, w, payload, e)
  <1>1. ValidEffect(e) /\ Wf[w].class \in Classes
        /\ Wf[w].action \in {"create", "update", "status", "correct"}
    BY PackIsValid DEF ValidWorkflow
  <1>2. acc \in Accs /\ acc.obj \in Objects \cup {None} /\ acc.ctx \in Objects \cup {None}
    BY DEF Ready, Accs
  <1> HIDE DEF e
  <1>3. CASE e.type = "record" /\ Wf[w].action = "create"
    <2> DEFINE keep  == ""
               made  == CreateOps(d, acc, Wf[w].class, payload, keep)
               moved == NewStatus(Wf[w].class, keep)
    <2>1. new = [made EXCEPT !.obj = made.created, !.ctx = made.created]
      BY <1>3 DEF NextEffect, OneEffect, RecordEffect
    <2> HIDE DEF keep
    <2>2. /\ Shape(d, acc, W, made, Wf[w].class, Minted(d, acc, Wf[w].class),
                   moved, payload, Skips(d, acc, w, payload, e))
          /\ Steady(acc, made)
          /\ made.res = "ok" => /\ made.created = Minted(d, acc, Wf[w].class)
                                /\ Minted(d, acc, Wf[w].class) \in Unused(d, acc, Wf[w].class)
      BY <1>1, CreateShape
    <2>3. /\ Written(w, e) = Wf[w].class
          /\ Target(d, acc, w, payload, e) = Minted(d, acc, Wf[w].class)
          /\ Moved(d, acc, w, payload, e) = moved
          /\ Carried(d, acc, w, payload, e) = payload
      BY <1>3 DEF Written, Target, Creates, Moved, Declared, Carried, NewStatus, keep
    <2> HIDE DEF made, new, moved
    <2>4. Shape(d, acc, W, new, Wf[w].class, Minted(d, acc, Wf[w].class),
                moved, payload, Skips(d, acc, w, payload, e))
      <3>1. Renamed(made, new)
        BY <2>1 DEF Renamed
      <3> QED
        BY <2>2, <3>1, RenamedShape DEF Shape
    <2>5. new.res = made.res /\ new.ctx = made.created
      BY <2>1, <2>2 DEF Shape, Accs
    <2>6. EffectDone(d, acc, W, new, w, payload, e)
      BY <2>3, <2>4 DEF EffectDone, Shape
    <2>7. Context(d, acc, new, w, e)
      BY <1>3, <2>2, <2>5 DEF Context
    <2>8. Aimed(d, acc, new, w, payload, e)
      BY <1>3, <2>2, <2>3, <2>5 DEF Aimed, Creates
    <2> QED
      BY <2>6, <2>7, <2>8 DEF new, e
  <1>4. CASE e.type = "record" /\ Wf[w].action \in {"update", "correct"}
    <2>1. new = UpdateOps(d, acc, Wf[w].class, acc.obj, payload, "")
      BY <1>4 DEF NextEffect, OneEffect, RecordEffect
    <2>2. /\ Written(w, e) = Wf[w].class
          /\ Target(d, acc, w, payload, e) = acc.obj
          /\ Moved(d, acc, w, payload, e) = StayOr(d, acc.obj, "")
          /\ Carried(d, acc, w, payload, e) = payload
      BY <1>4 DEF Written, Target, Creates, Moved, Declared, Carried, StayOr, NewStatus
    <2> HIDE DEF new
    <2>3. /\ Shape(d, acc, W, new, Wf[w].class, acc.obj, StayOr(d, acc.obj, ""), payload,
                   Skips(d, acc, w, payload, e))
          /\ Steady(acc, new)
          /\ Idle(acc, new) \/ Registered(d, acc.obj)
      BY <1>1, <1>2, <2>1, UpdateShape
    <2>4. Aimed(d, acc, new, w, payload, e)
      BY <1>4, <2>2, <2>3 DEF Aimed, Creates
    <2> QED
      BY <1>4, <2>2, <2>3, <2>4 DEF EffectDone, Context, Steady, new, e
  <1>5. CASE e.type = "record" /\ Wf[w].action = "status"
    <2> DEFINE moved == StayOr(d, acc.obj, Wf[w].status)
    <2>1. new = StatusOps(d, acc, Wf[w].class, acc.obj, Wf[w].status)
      BY <1>5 DEF NextEffect, OneEffect, RecordEffect
    <2>2. /\ Written(w, e) = Wf[w].class
          /\ Target(d, acc, w, payload, e) = acc.obj
          /\ Moved(d, acc, w, payload, e) = moved
          /\ Carried(d, acc, w, payload, e) = HeadPayload(d, acc.obj)
      BY <1>5 DEF Written, Target, Creates, Moved, Declared, Carried, StayOr, NewStatus
    <2>3. HeadReadable(d, acc.obj) /\ HeadVersion(d, acc.obj).status = Wf[w].status
            => Skips(d, acc, w, payload, e)
      BY <1>5 DEF Skips
    <2> HIDE DEF new
    <2>4. /\ Shape(d, acc, W, new, Wf[w].class, acc.obj, moved, HeadPayload(d, acc.obj),
                   Skips(d, acc, w, payload, e))
          /\ Steady(acc, new)
          /\ Idle(acc, new) \/ Registered(d, acc.obj)
      BY <1>1, <1>2, <2>1, <2>3, StatusShape
    <2> HIDE DEF moved
    <2>5. Aimed(d, acc, new, w, payload, e)
      BY <1>5, <2>2, <2>4 DEF Aimed, Creates
    <2> QED
      BY <1>5, <2>2, <2>4, <2>5 DEF EffectDone, Context, Steady, new, e
  <1>6. CASE e.type = "set_status"
    <2> DEFINE target == StatusTarget(acc, e, payload)
               moved  == StayOr(d, target, e.status)
               quiet  == Skips(d, acc, w, payload, e)
    <2>1. /\ target \in Objects \cup {None} /\ e.class \in Classes
          /\ Written(w, e) = e.class /\ quiet
          /\ Target(d, acc, w, payload, e) = target
          /\ Moved(d, acc, w, payload, e) = moved
          /\ Carried(d, acc, w, payload, e) = HeadPayload(d, target)
      BY <1>1, <1>2, <1>6
      DEF ValidEffect, StatusTarget, Payloads, Written, Target, Creates, Moved, Declared,
          Carried, Skips, StayOr
    <2>2. new \in {acc, StatusOps(d, acc, e.class, target, e.status)}
      BY <1>6 DEF NextEffect, OneEffect, StatusTarget
    <2> HIDE DEF new, target, quiet
    <2>3. /\ Shape(d, acc, W, new, e.class, target, moved, HeadPayload(d, target), quiet)
          /\ Steady(acc, new)
          /\ Idle(acc, new) \/ Registered(d, target)
      <3>1. CASE new = acc
        <4> HIDE DEF moved
        <4> QED
          BY <2>1, <3>1, IdleShape DEF Steady, Idle
      <3>2. CASE new = StatusOps(d, acc, e.class, target, e.status)
        BY <2>1, <3>2, StatusShape
      <3> QED
        BY <2>2, <3>1, <3>2
    <2> HIDE DEF moved
    <2>4. Aimed(d, acc, new, w, payload, e)
      BY <1>6, <2>1, <2>3 DEF Aimed, Creates
    <2> QED
      BY <1>6, <2>1, <2>3, <2>4 DEF EffectDone, Context, Steady, new, e, quiet
  <1>7. CASE e.type \in {"create_object", "open_link"}
    <2> DEFINE filled == EffectPayload(acc, e, payload)
               made   == CreateOps(d, acc, e.class, filled, e.status)
               moved  == NewStatus(e.class, e.status)
    <2>1. e.class \in Classes /\ filled \in Payloads
      BY <1>1, <1>2, <1>7 DEF ValidEffect, EffectPayload, Payloads
    <2>2. new = IF e.type = "create_object" /\ acc.obj = None
                THEN [made EXCEPT !.obj = made.created] ELSE made
      BY <1>7 DEF NextEffect, OneEffect
    <2>3. /\ Written(w, e) = e.class
          /\ Target(d, acc, w, payload, e) = Minted(d, acc, e.class)
          /\ Moved(d, acc, w, payload, e) = moved
          /\ Carried(d, acc, w, payload, e) = filled
      BY <1>7 DEF Written, Target, Creates, Moved, Declared, Carried, StayOr, NewStatus
    <2> HIDE DEF filled
    <2>4. /\ Shape(d, acc, W, made, e.class, Minted(d, acc, e.class), moved, filled,
                   Skips(d, acc, w, payload, e))
          /\ Steady(acc, made)
          /\ made.res = "ok" => Minted(d, acc, e.class) \in Unused(d, acc, e.class)
      BY <2>1, CreateShape
    <2> HIDE DEF made, new, moved
    <2>5. Shape(d, acc, W, new, e.class, Minted(d, acc, e.class), moved, filled,
                Skips(d, acc, w, payload, e))
      <3>1. CASE new = made
        BY <2>4, <3>1
      <3>2. CASE new = [made EXCEPT !.obj = made.created]
        <4>1. Renamed(made, new)
          BY <3>2 DEF Renamed
        <4> QED
          BY <2>4, <4>1, RenamedShape DEF Shape
      <3> QED
        BY <2>2, <3>1, <3>2
    <2>6. /\ acc.obj # None => new.obj = acc.obj
          /\ new.ctx = acc.ctx /\ new.res = made.res
      BY <2>2, <2>4 DEF Steady, Shape, Accs
    <2>7. Aimed(d, acc, new, w, payload, e)
      BY <1>7, <2>3, <2>4, <2>6 DEF Aimed, Creates
    <2> QED
      BY <1>7, <2>3, <2>5, <2>6, <2>7 DEF EffectDone, Context, new, e
  <1>8. CASE e.type = "close_link"
    <2> DEFINE target == ToClose(d, acc, e)
               moved  == StayOr(d, target, e.status)
    <2>1. new = CloseLink(d, acc, e) /\ e.class \in Classes
      BY <1>1, <1>8 DEF NextEffect, OneEffect, ValidEffect
    <2>2. /\ Written(w, e) = e.class
          /\ Target(d, acc, w, payload, e) = target
          /\ Moved(d, acc, w, payload, e) = moved
          /\ Carried(d, acc, w, payload, e) = HeadPayload(d, target)
          /\ NothingToClose(d, acc, e) => Skips(d, acc, w, payload, e)
      BY <1>8 DEF Written, Target, Creates, Moved, Declared, Carried, Skips, StayOr
    <2> HIDE DEF new
    <2>3. /\ Shape(d, acc, W, new, e.class, target, moved, HeadPayload(d, target),
                   Skips(d, acc, w, payload, e))
          /\ Steady(acc, new)
          /\ Idle(acc, new) \/ target \in Closes(d, acc, e)
      BY <2>1, <2>2, CloseShape
    <2> HIDE DEF moved
    <2>4. Aimed(d, acc, new, w, payload, e)
      BY <1>8, <2>2, <2>3 DEF Aimed, Creates, Closes, Linked
    <2> QED
      BY <1>8, <2>2, <2>3, <2>4 DEF EffectDone, Context, Steady, new, e
  <1> QED
    BY <1>1, <1>3, <1>4, <1>5, <1>6, <1>7, <1>8 DEF ValidEffect

\* What is true of the write set after i effects.
WrittenBy(w, i) == {Written(w, Wf[w].effects[j]) : j \in 1..i}
WalkInv(d, acc, W) ==
    /\ acc \in Accs
    /\ Progress(d, acc.db, acc.pending, acc.opened, W)
    /\ WritesApart => Indexed(acc.db) /\ Sealed(acc.db)

\* The empty write set, and one effect more.
LEMMA WalkStart ==
    ASSUME NEW d, DbInv(d), NEW obj \in Objects \cup {None}
    PROVE  WalkInv(d, NoWrites(d, obj), {})
  <1> DEFINE a == NoWrites(d, obj)
  <1>1. d \in Dbs
    BY DEF DbInv
  <1>2. a \in Accs /\ a.db = d /\ a.pending = {} /\ a.opened = {}
    BY <1>1 DEF NoWrites, Accs
  <1> HIDE DEF a
  <1>3. Progress(d, a.db, a.pending, a.opened, {})
    BY <1>1, <1>2 DEF Progress, Untouched, DbInv
  <1> QED
    BY <1>2, <1>3 DEF WalkInv, DbInv, a

LEMMA WalkStep ==
    ASSUME NEW d, DbInv(d), now \in Nat, NEW acc, NEW w \in Workflows,
           NEW payload \in Payloads, NEW i \in DOMAIN Wf[w].effects, i - 1 \in Nat,
           WalkInv(d, acc, WrittenBy(w, i - 1))
    PROVE  WalkInv(d, NextEffect(d, acc, w, payload, Wf[w].effects[i]), WrittenBy(w, i))
  <1> DEFINE W   == WrittenBy(w, i - 1)
             c   == Written(w, Wf[w].effects[i])
             new == NextEffect(d, acc, w, payload, Wf[w].effects[i])
  <1>1. /\ \A j \in DOMAIN Wf[w].effects : Written(w, Wf[w].effects[j]) \in Classes
        /\ Len(Wf[w].effects) \in Nat /\ DOMAIN Wf[w].effects = 1..Len(Wf[w].effects)
    BY PackIsValid DEF Written, ValidWorkflow, ValidEffect, ListsEffects
  <1>2. W \in SUBSET Classes /\ c \in Classes
    BY <1>1 DEF WrittenBy
  <1>3. WrittenBy(w, i) = W \cup {c}
    <2>1. 1..i = 1..(i - 1) \cup {i}
      BY <1>1
    <2> QED
      BY <2>1 DEF WrittenBy
  <1>4. WritesApart => /\ Class[c].natural => c \notin W
                       /\ \A c1 \in W : ~SharesScope(c1, c)
    <2> SUFFICES ASSUME WritesApart, NEW j \in 1..(i - 1)
                 PROVE  /\ Class[c].natural => c # Written(w, Wf[w].effects[j])
                        /\ ~SharesScope(Written(w, Wf[w].effects[j]), c)
      BY DEF WrittenBy
    <2>1. j \in DOMAIN Wf[w].effects /\ j # i
      BY <1>1
    <2> QED
      BY <2>1 DEF WritesApart
  <1> DEFINE e == Wf[w].effects[i]
             o == Target(d, acc, w, payload, e)
             status == Moved(d, acc, w, payload, e)
             p == Carried(d, acc, w, payload, e)
  <1>5. /\ new \in Accs
        /\ Idle(acc, new) \/ Wrote(d, acc, W, new, c, o, status, p)
    <2>1. CASE acc.res # "ok"
      BY <2>1 DEF NextEffect, WalkInv, Idle
    <2>2. CASE acc.res = "ok"
      <3>1. EffectDone(d, acc, W, new, w, payload, e)
        BY <1>2, <2>2, EffectShape DEF Ready, WalkInv
      <3> QED
        BY <3>1 DEF EffectDone, Shape
    <2> QED
      BY <2>1, <2>2
  <1> HIDE DEF W, c, new, o, status, p
  <1>6. CASE Idle(acc, new)
    <2>1. Progress(d, acc.db, acc.pending, acc.opened, W \cup {c})
      BY DEF WalkInv, Progress, Touched, W
    <2> QED
      BY <1>3, <1>5, <1>6, <2>1 DEF WalkInv, Idle, new
  <1>7. CASE Wrote(d, acc, W, new, c, o, status, p)
    <2>1. PICK v, pending :
            /\ Writes(d, acc, W, c, o, v, status, p, pending)
            /\ new.db = BuildRecord(d, acc, c, o, v, status, p).db
            /\ new.opened = BuildRecord(d, acc, c, o, v, status, p).opened
            /\ new.pending = pending
      BY <1>7 DEF Wrote
    <2>2. Progress(d, new.db, new.pending, new.opened, W \cup {c})
      BY <2>1, WriteKeeps
    <2>3. WritesApart => Indexed(new.db)
      BY <1>4, <2>1, WriteKeepsIndex DEF WalkInv
    <2>4. WritesApart => Sealed(new.db)
      BY <1>4, <2>1, WriteKeepsSealed DEF WalkInv
    <2> QED
      BY <1>3, <1>5, <2>2, <2>3, <2>4 DEF WalkInv, new
  <1> QED
    BY <1>5, <1>6, <1>7

\* The whole write set of a decision.
LEMMA WalkEnds ==
    ASSUME NEW d, DbInv(d), now \in Nat, NEW w \in Workflows,
           NEW obj \in Objects \cup {None}, NEW payload \in Payloads
    PROVE  \A n \in 0..Len(Wf[w].effects) :
               WalkInv(d, WriteSets(d, w, obj, payload, Wf[w].effects)[n], WrittenBy(w, n))
  <1> DEFINE N == Len(Wf[w].effects)
             g == WriteSets(d, w, obj, payload, Wf[w].effects)
             Bad == {n \in 0..N : ~WalkInv(d, g[n], WrittenBy(w, n))}
  <1>1. N \in Nat /\ DOMAIN Wf[w].effects = 1..N
    BY PackIsValid DEF ListsEffects
  <1>2. /\ g[0] = NoWrites(d, obj)
        /\ \A i \in 1..N : g[i] = NextEffect(d, g[i - 1], w, payload, Wf[w].effects[i])
    BY <1>1, WalkSteps
  <1> HIDE DEF N, g
  <1> SUFFICES ASSUME Bad # {} PROVE FALSE
    BY <1>1 DEF N, g
  <1>3. PICK n \in Bad : \A m \in Bad : n <= m
    <2>1. Bad \in SUBSET Nat
      BY <1>1
    <2> HIDE DEF Bad
    <2> QED
      BY <2>1, NatMin
  <1>4. n \in 0..N /\ ~WalkInv(d, g[n], WrittenBy(w, n))
    BY <1>3
  <1>5. CASE n = 0
    <2>1. WrittenBy(w, 0) = {}
      BY DEF WrittenBy
    <2> QED
      BY <1>2, <1>4, <1>5, <2>1, WalkStart
  <1>6. CASE n \in 1..N
    <2>1. n - 1 \in 0..N /\ n - 1 \notin Bad
      BY <1>1, <1>3, <1>6
    <2>2. WalkInv(d, g[n - 1], WrittenBy(w, n - 1))
      BY <2>1
    <2>3. n - 1 \in Nat /\ n \in DOMAIN Wf[w].effects
      BY <1>1, <1>6
    <2>4. g[n] = NextEffect(d, g[n - 1], w, payload, Wf[w].effects[n])
      BY <1>2, <1>6
    <2> QED
      BY <1>4, <2>2, <2>3, <2>4, WalkStep
  <1> QED
    BY <1>1, <1>4, <1>5, <1>6

\* A decision that succeeds.
LEMMA DecisionMade ==
    ASSUME NEW d, DbInv(d), now \in Nat, NEW w \in Workflows,
           NEW obj \in Objects \cup {None}, NEW payload \in Payloads,
           EffectOps(d, w, obj, payload).res = "ok"
    PROVE  \E W : WalkInv(d, EffectOps(d, w, obj, payload), W)
  <1> DEFINE a == WriteSets(d, w, obj, payload, Wf[w].effects)[Len(Wf[w].effects)]
  <1>0. Len(Wf[w].effects) \in 0..Len(Wf[w].effects)
    BY PackIsValid DEF ListsEffects
  <1>1. WalkInv(d, a, WrittenBy(w, Len(Wf[w].effects)))
    BY <1>0, WalkEnds
  <1>2. EffectOps(d, w, obj, payload) \in {a, Fail(a)}
    BY DEF EffectOps
  <1> HIDE DEF a
  <1>3. Fail(a).res # "ok"
    BY <1>1 DEF WalkInv, Fail, Accs
  <1> QED
    BY <1>1, <1>2, <1>3

----------------------------------------------------------------------------
(* The steps of the register.                                              *)

\* Versions are only added, or emptied; what was erased stays as it is.
Kept(d, x) ==
    \A o \in Objects :
        /\ Len(x.versions[o]) \in {Len(d.versions[o]), Len(d.versions[o]) + 1}
        /\ \A v \in DOMAIN d.versions[o] :
            \/ x.versions[o][v] = d.versions[o][v]
            \/ x.versions[o][v] = [d.versions[o][v] EXCEPT !.pruned = TRUE]
ErasedKept(d, x) ==
    \A o \in Objects :
        Registered(d, o) /\ d.objects[o].erased =>
            /\ x.objects[o] = d.objects[o]
            /\ x.deks[<<"subject", o>>].state = "destroyed"

\* A finished write set may be committed.
LEMMA DecisionKeeps ==
    ASSUME NEW d, DbInv(d), NEW a, NEW W, WalkInv(d, a, W)
    PROVE  DbInv(a.db) /\ Kept(d, a.db) /\ ErasedKept(d, a.db)
  <1> DEFINE x == a.db
  <1>1. /\ d \in Dbs /\ x \in Dbs
        /\ Progress(d, x, a.pending, a.opened, W)
        /\ WritesApart => Indexed(x) /\ Sealed(x)
    BY DEF DbInv, WalkInv, Accs
  <1> HIDE DEF x
  <1>2. ASSUME NEW o \in Objects
        PROVE  /\ d.versions[o] \in Seq(VersionRows)
               /\ <<"subject", o>> \in RecordScopes
    BY <1>1 DEF Dbs, RecordScopes
  <1>3. \A o \in Objects : Untouched(d, x, o) \/ Touched(d, x, W, o)
    BY <1>1 DEF Progress
  <1>4. ASSUME NEW o \in Objects, Touched(d, x, W, o)
        PROVE  /\ Len(x.versions[o]) = Len(d.versions[o]) + 1
               /\ \A v \in DOMAIN d.versions[o] : x.versions[o][v] = d.versions[o][v]
               /\ x.objects[o].head = Len(x.versions[o])
               /\ x.objects[o].status = HeadVersion(x, o).status
               /\ ~HeadVersion(x, o).pruned
    <2>1. PICK row \in VersionRows :
            /\ x.versions[o] = Append(d.versions[o], row)
            /\ row.status = x.objects[o].status
            /\ ~row.pruned
      BY <1>4 DEF Touched
    <2>2. /\ Len(x.versions[o]) = Len(d.versions[o]) + 1
          /\ \A v \in DOMAIN d.versions[o] : x.versions[o][v] = d.versions[o][v]
          /\ HeadVersion(x, o) = row
      BY <1>2, <2>1 DEF HeadVersion
    <2> QED
      BY <1>4, <2>1, <2>2 DEF Touched
  <1>5. Heads(x)
    <2> SUFFICES ASSUME NEW o \in Objects
                 PROVE  IF Registered(x, o)
                        THEN /\ x.objects[o].head = Len(x.versions[o])
                             /\ x.objects[o].status = HeadVersion(x, o).status
                             /\ ~HeadVersion(x, o).pruned
                        ELSE x.versions[o] = <<>>
      BY DEF Heads
    <2>1. CASE Untouched(d, x, o)
      BY <2>1 DEF Untouched, DbInv, Heads, Registered, HeadVersion
    <2>2. CASE Touched(d, x, W, o)
      BY <1>4, <2>2 DEF Touched
    <2> QED
      BY <1>3, <2>1, <2>2
  <1>6. Burnt(x)
    BY <1>1, <1>2, <1>3 DEF Burnt, DbInv, Progress, Untouched, Touched, Registered
  <1>7. Kept(d, x)
    BY <1>2, <1>3, <1>4 DEF Kept, Untouched
  <1>8. ErasedKept(d, x)
    BY <1>1, <1>2, <1>3 DEF ErasedKept, DbInv, Burnt, Progress, Untouched, Touched
  <1> QED
    BY <1>1, <1>5, <1>6, <1>7, <1>8 DEF DbInv, Progress, x

\* A prune empties versions that are not heads.
LEMMA PruneKeeps ==
    ASSUME DbInv(db), NEW id, NEW only, Prune(id, only)
    PROVE  DbInv(db') /\ Kept(db, db') /\ ErasedKept(db, db')
  <1> DEFINE Cut(o, v) == <<o, v>> \in Prunable(id, only)
             Row(o, v) == IF Cut(o, v) THEN [db.versions[o][v] EXCEPT !.pruned = TRUE]
                          ELSE db.versions[o][v]
             new == [o \in Objects |-> [v \in DOMAIN db.versions[o] |-> Row(o, v)]]
  <1>1. db \in Dbs /\ db' = [db EXCEPT !.versions = new]
    BY DEF DbInv, Prune
  <1>2. ASSUME NEW o \in Objects
        PROVE  /\ db.versions[o] \in Seq(VersionRows)
               /\ new[o] = [v \in DOMAIN db.versions[o] |-> Row(o, v)]
    BY <1>1 DEF Dbs
  <1>3. ASSUME NEW o \in Objects, NEW v \in DOMAIN db.versions[o]
        PROVE  /\ db.versions[o][v] \in VersionRows
               /\ Row(o, v) \in VersionRows
               /\ Row(o, v).status = db.versions[o][v].status
               /\ Row(o, v).scope = db.versions[o][v].scope
               /\ Row(o, v).dek = db.versions[o][v].dek
               /\ db.versions[o][v].pruned => Row(o, v).pruned
    <2>1. db.versions[o][v] \in VersionRows
      BY <1>2
    <2> QED
      BY <2>1 DEF VersionRows
  <1>4. ASSUME NEW o \in Objects, Registered(db, o), NEW v \in DOMAIN db.versions[o],
               v = db.objects[o].head
        PROVE  Row(o, v) = db.versions[o][v]
    <2>1. db.objects[o].head \in Nat
      BY <1>1, <1>4 DEF Registered, Dbs, ObjectRows
    <2>2. ~Cut(o, v)
      BY <1>4, <2>1 DEF Prunable, Superseded
    <2> QED
      BY <2>2
  <1> HIDE DEF Cut, Row
  <1>5. ASSUME NEW o \in Objects
        PROVE  /\ new[o] \in Seq(VersionRows)
               /\ Len(new[o]) = Len(db.versions[o]) /\ DOMAIN new[o] = DOMAIN db.versions[o]
               /\ \A v \in DOMAIN db.versions[o] : new[o][v] = Row(o, v)
    BY <1>2, <1>3
  <1>6. new \in [Objects -> Seq(VersionRows)]
    BY <1>5
  <1> HIDE DEF new
  <1>7. /\ db' \in Dbs /\ db'.versions = new /\ db'.objects = db.objects
        /\ db'.naturalKeys = db.naturalKeys /\ db'.deks = db.deks
    BY <1>1, <1>6 DEF Dbs
  <1>8. Heads(db)'
    <2> SUFFICES ASSUME NEW o \in Objects
                 PROVE  IF Registered(db', o)
                        THEN /\ db'.objects[o].head = Len(db'.versions[o])
                             /\ db'.objects[o].status = HeadVersion(db', o).status
                             /\ ~HeadVersion(db', o).pruned
                        ELSE db'.versions[o] = <<>>
      BY DEF Heads
    <2>1. CASE Registered(db, o)
      <3>1. db.objects[o].head = Len(db.versions[o]) /\ db.objects[o].head \in Nat \ {0}
        BY <1>1, <2>1 DEF DbInv, Heads, Registered, Dbs, ObjectRows
      <3>2. Len(db.versions[o]) \in DOMAIN db.versions[o]
        BY <1>2, <3>1
      <3>3. new[o][Len(new[o])] = HeadVersion(db, o)
        BY <1>4, <1>5, <2>1, <3>1, <3>2 DEF HeadVersion
      <3> QED
        BY <1>5, <1>7, <2>1, <3>3 DEF DbInv, Heads, Registered, HeadVersion
    <2>2. CASE ~Registered(db, o)
      BY <1>2, <1>5, <1>7, <2>2 DEF DbInv, Heads, Registered
    <2> QED
      BY <2>1, <2>2
  <1>9. Scoped(db)'
    BY <1>3, <1>5, <1>7 DEF DbInv, Scoped, ScopeOf, Registered
  <1>10. Burnt(db)'
    BY <1>7 DEF DbInv, Burnt, Registered
  <1>11. Indexed(db) => Indexed(db)'
    <2> SUFFICES ASSUME Indexed(db), NEW c \in Classes, NEW k \in Keys \cup Objects,
                        NEW u \in Objects
                 PROVE  db'.naturalKeys[<<c, k>>] = u
                          <=> /\ Registered(db', u) /\ Class[c].natural
                              /\ db'.objects[u].class = c /\ db'.objects[u].key = k
      BY DEF Indexed
    <2>1. db.naturalKeys[<<c, k>>] = u
            <=> /\ Registered(db, u) /\ Class[c].natural
                /\ db.objects[u].class = c /\ db.objects[u].key = k
      BY DEF Indexed
    <2> QED
      BY <1>7, <2>1 DEF Registered
  <1>12. Sealed(db) => Sealed(db)'
    BY <1>3, <1>5, <1>7 DEF Sealed, Opens
  <1>13. Kept(db, db')
    BY <1>5, <1>7 DEF Kept, Row
  <1>14. ErasedKept(db, db')
    BY <1>7 DEF DbInv, Burnt, ErasedKept
  <1> QED
    BY <1>7, <1>8, <1>9, <1>10, <1>11, <1>12, <1>13, <1>14 DEF DbInv

\* An erasure destroys one key and marks one object.
LEMMA EraseKeeps ==
    ASSUME DbInv(db), NEW id, NEW o \in Objects, Erase(id, o)
    PROVE  /\ DbInv(db') /\ Kept(db, db') /\ ErasedKept(db, db')
           /\ \A s \in RecordScopes \ {<<"subject", o>>} : db'.deks[s] = db.deks[s]
  <1> DEFINE key == <<"subject", o>>
             gone == [db.deks[key] EXCEPT !.state = "destroyed"]
             mark == [db.objects[o] EXCEPT !.erased = TRUE]
  <1>1. /\ db \in Dbs /\ Registered(db, o) /\ ~db.objects[o].erased
        /\ db' = [db EXCEPT !.deks[key].state = "destroyed", !.objects[o].erased = TRUE]
    BY DEF DbInv, Erase
  <1>2. key \in RecordScopes /\ db.deks[key] \in Deks /\ db.objects[o] \in ObjectRows
    BY <1>1 DEF RecordScopes, Dbs, Registered
  <1>3. /\ gone \in Deks /\ gone.state = "destroyed"
        /\ mark \in ObjectRows /\ mark # None
        /\ mark.class = db.objects[o].class /\ mark.key = db.objects[o].key
        /\ mark.head = db.objects[o].head /\ mark.status = db.objects[o].status
        /\ mark.erased
    <2>1. gone \in Deks /\ gone.state = "destroyed"
      BY <1>2 DEF Deks, KeyState
    <2>2. /\ mark \in ObjectRows
          /\ mark.class = db.objects[o].class /\ mark.key = db.objects[o].key
          /\ mark.head = db.objects[o].head /\ mark.status = db.objects[o].status
          /\ mark.erased
      BY <1>2 DEF ObjectRows
    <2> QED
      BY <2>1, <2>2, NoneIsNothing
  <1>4. /\ db'.objects = [db.objects EXCEPT ![o] = mark]
        /\ db'.deks = [db.deks EXCEPT ![key] = gone]
        /\ db'.versions = db.versions /\ db'.naturalKeys = db.naturalKeys
    BY <1>1 DEF Dbs
  <1> HIDE DEF gone, mark
  <1>5. db' = [objects |-> db'.objects, versions |-> db'.versions,
               naturalKeys |-> db'.naturalKeys, deks |-> db'.deks]
    BY <1>1 DEF Dbs
  <1>6. db' \in Dbs
    BY <1>1, <1>3, <1>4, <1>5 DEF Dbs
  <1>7. /\ db'.objects[o] = mark /\ db'.deks[key] = gone
        /\ \A u \in Objects \ {o} : db'.objects[u] = db.objects[u]
        /\ \A s \in RecordScopes \ {key} : db'.deks[s] = db.deks[s]
    BY <1>1, <1>2, <1>4 DEF Dbs
  <1>8. \A u \in Objects : /\ Registered(db', u) = Registered(db, u)
                           /\ Registered(db, u) => /\ db'.objects[u].class = db.objects[u].class
                                                   /\ db'.objects[u].key = db.objects[u].key
                                                   /\ db'.objects[u].head = db.objects[u].head
                                                   /\ db'.objects[u].status = db.objects[u].status
    BY <1>1, <1>3, <1>7 DEF Registered
  <1>9. Heads(db)'
    BY <1>4, <1>8 DEF DbInv, Heads, HeadVersion
  <1>10. Scoped(db)'
    <2>1. ASSUME NEW u \in Objects, Registered(db, u)
          PROVE  ScopeOf(db', u) = ScopeOf(db, u) /\ ScopeOf(db, u) \in RecordScopes \cup {None}
      BY <1>1, <1>8, <2>1, ScopeType DEF ScopeOf, Registered, Dbs, ObjectRows
    <2> QED
      BY <1>3, <1>4, <1>7, <1>8, <2>1 DEF DbInv, Scoped
  <1>11. \A u \in Objects : <<"subject", u>> \in RecordScopes
    BY DEF RecordScopes
  <1>12. Burnt(db)'
    BY <1>3, <1>7, <1>8, <1>11 DEF DbInv, Burnt
  <1>13. Indexed(db) => Indexed(db)'
    <2> SUFFICES ASSUME Indexed(db), NEW c \in Classes, NEW k \in Keys \cup Objects,
                        NEW u \in Objects
                 PROVE  db'.naturalKeys[<<c, k>>] = u
                          <=> /\ Registered(db', u) /\ Class[c].natural
                              /\ db'.objects[u].class = c /\ db'.objects[u].key = k
      BY DEF Indexed
    <2>1. db.naturalKeys[<<c, k>>] = u
            <=> /\ Registered(db, u) /\ Class[c].natural
                /\ db.objects[u].class = c /\ db.objects[u].key = k
      BY DEF Indexed
    <2> QED
      BY <1>4, <1>8, <2>1
  <1>14. Sealed(db) => Sealed(db)'
    <2> SUFFICES ASSUME NEW u \in Objects, NEW v \in DOMAIN db.versions[u],
                        Opens(db, db.versions[u][v])
                 PROVE  Opens(db', db.versions[u][v])
      BY <1>4 DEF Sealed
    <2>1. db.versions[u] \in Seq(VersionRows)
      BY <1>1 DEF Dbs
    <2>2. db.versions[u][v] \in VersionRows
      BY <2>1
    <2>3. db.versions[u][v].scope \in RecordScopes \cup {None}
      BY <2>2 DEF VersionRows
    <2> QED
      BY <1>3, <1>7, <2>3 DEF Opens
  <1>15. Kept(db, db')
    BY <1>4 DEF Kept
  <1>16. ErasedKept(db, db')
    BY <1>1, <1>3, <1>7, <1>11 DEF DbInv, Burnt, ErasedKept
  <1> QED
    BY <1>6, <1>7, <1>9, <1>10, <1>12, <1>13, <1>14, <1>15, <1>16 DEF DbInv

\* The seeded store: the tables a fresh register starts from.
LEMMA SeedIsSound == DbInv(SeedDb)
  <1> DEFINE d        == SeedDb
             has(o)   == Seed[o] # None
             c(o)     == ClassOf[o]
             key(o)   == NaturalKey(c(o), o, Seed[o])
             scope(o) == DekScope(c(o), o)
             under(s) == {o \in Objects : has(o) /\ scope(o) = s}
             dek(s)   == IF s = None \/ under(s) = {} THEN NoDek
                         ELSE [state |-> "live", id |-> <<CHOOSE o \in under(s) : TRUE, 1>>]
             named(ck) == {o \in Objects : /\ has(o) /\ c(o) = ck[1]
                                           /\ Class[c(o)].natural /\ key(o) = ck[2]}
             head(o)  == [class |-> c(o), key |-> key(o), head |-> 1,
                          status |-> Class[c(o)].initial, erased |-> FALSE]
             row(o)   == [key |-> Seed[o].key, ref |-> Seed[o].ref,
                          status |-> Class[c(o)].initial, scope |-> scope(o),
                          dek |-> dek(scope(o)).id, created |-> 0, pruned |-> FALSE]
  <1>1. d = [objects     |-> [o \in Objects |-> IF ~has(o) THEN None ELSE head(o)],
             versions    |-> [o \in Objects |-> IF ~has(o) THEN <<>> ELSE <<row(o)>>],
             naturalKeys |-> [ck \in IndexKeys |->
                IF named(ck) = {} THEN None ELSE CHOOSE o \in named(ck) : TRUE],
             deks        |-> [s \in RecordScopes |-> dek(s)]]
    BY DEF SeedDb
  <1> HIDE DEF d
  <1>2. /\ \A o \in Objects : d.objects[o] = IF ~has(o) THEN None ELSE head(o)
        /\ \A o \in Objects : d.versions[o] = IF ~has(o) THEN <<>> ELSE <<row(o)>>
        /\ \A ck \in IndexKeys :
            d.naturalKeys[ck] = IF named(ck) = {} THEN None ELSE CHOOSE o \in named(ck) : TRUE
        /\ \A s \in RecordScopes : d.deks[s] = dek(s)
    BY <1>1
  <1>3. ASSUME NEW s
        PROVE  /\ dek(s) \in Deks
               /\ s # None /\ under(s) # {} => dek(s).state = "live"
    <2>1. CASE s = None \/ under(s) = {}
      BY <2>1 DEF NoDek, Deks, KeyState, DekIds
    <2>2. CASE s # None /\ under(s) # {}
      <3>1. (CHOOSE o \in under(s) : TRUE) \in Objects
        BY <2>2
      <3> QED
        BY <2>2, <3>1 DEF Deks, KeyState, DekIds
    <2> QED
      BY <2>1, <2>2
  <1>4. ASSUME NEW o \in Objects, has(o)
        PROVE  /\ c(o) \in Classes /\ Seed[o] \in Payloads
               /\ key(o) \in Keys \cup Objects
               /\ Class[c(o)].initial \in STRING
               /\ scope(o) \in RecordScopes \cup {None}
    <2>1. c(o) \in Classes /\ Seed[o] \in Payloads
      BY <1>4, SeedIsLegal
    <2>2. Seed[o].key \in Keys \cup {None}
      BY <2>1 DEF Payloads
    <2>3. key(o) \in Keys \cup Objects
      BY <2>2 DEF NaturalKey
    <2>4. Class[c(o)].initial \in STRING
      BY <2>1, PackIsValid DEF ValidClass
    <2> QED
      BY <2>1, <2>3, <2>4, ScopeType
  <1> HIDE DEF dek, key, scope, named, under
  <1>5. ASSUME NEW o \in Objects, has(o)
        PROVE  /\ head(o) \in ObjectRows /\ head(o) # None
               /\ row(o) \in VersionRows
    <2>1. head(o) \in ObjectRows
      BY <1>4, <1>5 DEF ObjectRows
    <2>2. row(o) \in VersionRows
      <3>1. dek(scope(o)).id \in DekIds
        BY <1>3 DEF Deks
      <3>2. Seed[o].key \in Keys \cup {None} /\ Seed[o].ref \in Objects \cup {None}
        BY <1>4, <1>5 DEF Payloads
      <3> QED
        BY <1>4, <1>5, <3>1, <3>2 DEF VersionRows
    <2> QED
      BY <2>1, <2>2, NoneIsNothing
  <1>6. ASSUME NEW o \in Objects
        PROVE  /\ Registered(d, o) <=> has(o)
               /\ has(o) => /\ d.objects[o].class = c(o) /\ d.objects[o].key = key(o)
                            /\ d.objects[o].head = 1 /\ ~d.objects[o].erased
                            /\ d.objects[o].status = Class[c(o)].initial
               /\ has(o) => /\ d.versions[o] \in Seq(VersionRows)
                            /\ Len(d.versions[o]) = 1 /\ DOMAIN d.versions[o] = {1}
                            /\ d.versions[o][1].status = Class[c(o)].initial
                            /\ d.versions[o][1].scope = scope(o)
                            /\ d.versions[o][1].dek = dek(scope(o)).id
                            /\ ~d.versions[o][1].pruned
               /\ ~has(o) => d.versions[o] = <<>>
    <2>1. CASE has(o)
      <3>1. d.objects[o] = head(o) /\ d.versions[o] = <<row(o)>>
        BY <1>2, <2>1
      <3>2. Registered(d, o)
        BY <1>5, <2>1, <3>1 DEF Registered
      <3>3. /\ d.objects[o].class = c(o) /\ d.objects[o].key = key(o)
            /\ d.objects[o].head = 1 /\ ~d.objects[o].erased
            /\ d.objects[o].status = Class[c(o)].initial
        BY <3>1
      <3>4. row(o) \in VersionRows
        BY <1>5, <2>1
      <3>5. /\ row(o).status = Class[c(o)].initial /\ row(o).scope = scope(o)
            /\ row(o).dek = dek(scope(o)).id /\ ~row(o).pruned
        OBVIOUS
      <3> HIDE DEF row
      <3>6. /\ d.versions[o] \in Seq(VersionRows)
            /\ Len(d.versions[o]) = 1 /\ DOMAIN d.versions[o] = {1}
            /\ d.versions[o][1] = row(o)
        BY <3>1, <3>4
      <3> QED
        BY <2>1, <3>2, <3>3, <3>5, <3>6
    <2>2. CASE ~has(o)
      BY <1>2, <2>2 DEF Registered
    <2> QED
      BY <2>1, <2>2
  <1> HIDE DEF has, c
  <1>7. d \in Dbs
    <2>1. \A o \in Objects : d.objects[o] \in ObjectRows \cup {None}
      BY <1>2, <1>5
    <2>2. \A o \in Objects : d.versions[o] \in Seq(VersionRows)
      <3>1. <<>> \in Seq(VersionRows)
        OBVIOUS
      <3> QED
        BY <1>6, <3>1
    <2>3. \A ck \in IndexKeys : d.naturalKeys[ck] \in Objects \cup {None}
      BY <1>2 DEF named
    <2>4. \A s \in RecordScopes : d.deks[s] \in Deks
      BY <1>2, <1>3
    <2>5. /\ d.objects \in [Objects -> ObjectRows \cup {None}]
          /\ d.versions \in [Objects -> Seq(VersionRows)]
          /\ d.naturalKeys \in [IndexKeys -> Objects \cup {None}]
          /\ d.deks \in [RecordScopes -> Deks]
      <3>1. /\ d.objects = [o \in Objects |-> d.objects[o]]
            /\ d.versions = [o \in Objects |-> d.versions[o]]
            /\ d.naturalKeys = [ck \in IndexKeys |-> d.naturalKeys[ck]]
            /\ d.deks = [s \in RecordScopes |-> d.deks[s]]
        BY <1>1
      <3> QED
        BY <2>1, <2>2, <2>3, <2>4, <3>1
    <2>6. d = [objects |-> d.objects, versions |-> d.versions,
               naturalKeys |-> d.naturalKeys, deks |-> d.deks]
      BY <1>1
    <2> QED
      BY <2>5, <2>6 DEF Dbs
  <1>8. Heads(d)
    BY <1>6 DEF Heads, HeadVersion
  <1>9. \A o \in Objects : has(o) => ScopeOf(d, o) = scope(o)
    BY <1>6 DEF ScopeOf, scope, c
  <1>10. ASSUME NEW o \in Objects, has(o), scope(o) # None
         PROVE  d.deks[scope(o)] = dek(scope(o)) /\ d.deks[scope(o)].state = "live"
    <2>1. scope(o) \in RecordScopes
      BY <1>4, <1>10
    <2>2. under(scope(o)) # {}
      BY <1>10 DEF under
    <2> QED
      BY <1>2, <1>3, <1>10, <2>1, <2>2
  <1>11. Scoped(d)
    BY <1>6, <1>9, <1>10 DEF Scoped
  <1>12. Burnt(d)
    BY <1>6 DEF Burnt
  <1>13. Sealed(d)
    BY <1>6, <1>10 DEF Sealed, Opens
  <1>14. Indexed(d)
    <2> SUFFICES ASSUME NEW e \in Classes, NEW k \in Keys \cup Objects, NEW o \in Objects
                 PROVE  d.naturalKeys[<<e, k>>] = o
                          <=> /\ Registered(d, o) /\ Class[e].natural
                              /\ d.objects[o].class = e /\ d.objects[o].key = k
      BY DEF Indexed
    <2> DEFINE S == named(<<e, k>>)
    <2>1. <<e, k>> \in IndexKeys
      BY DEF IndexKeys
    <2>2. d.naturalKeys[<<e, k>>] = IF S = {} THEN None ELSE CHOOSE q \in S : TRUE
      BY <1>2, <2>1
    <2>3. o \in S <=> /\ Registered(d, o) /\ Class[e].natural
                      /\ d.objects[o].class = e /\ d.objects[o].key = k
      BY <1>6 DEF named
    <2>4. \A q, r \in S : q = r
      BY SeedIsLegal DEF named, key, has, c
    <2>5. S \subseteq Objects
      BY DEF named
    <2> HIDE DEF S
    <2> QED
      BY <2>2, <2>3, <2>4, <2>5, NoneIsNothing
  <1> QED
    BY <1>7, <1>8, <1>11, <1>12, <1>13, <1>14 DEF DbInv, d

\* The inductive invariant of the record store: a proposal that was never made
\* has no key, and the tables satisfy DbInv.
RegInv ==
    /\ TypeOK
    /\ DbInv(db)
    /\ DeadKeysForgotten
    /\ \A t \in Tasks : tasks[t] = None => taskKey[t] = "none"
Moves == RegInv' /\ Kept(db, db') /\ ErasedKept(db, db')

TaskScopes == {TaskScope(t) : t \in Tasks}

\* The key of a proposal is no record's key and no other proposal's.
LEMMA ScopesDiffer ==
    /\ \A t : TaskScope(t) \notin RecordScopes
    /\ \A t, u : TaskScope(t) = TaskScope(u) => t = u
  BY DEF TaskScope, RecordScopes

LEMMA RowsAreRows == \A r \in TaskRows : r # None
  BY NoneIsNothing

LEMMA SameTables == DbInv(db) => Kept(db, db) /\ ErasedKept(db, db)
  <1> SUFFICES ASSUME DbInv(db) PROVE Kept(db, db) /\ ErasedKept(db, db)
    OBVIOUS
  <1>1. Kept(db, db)
    BY DEF Kept
  <1>2. ErasedKept(db, db)
    BY DEF ErasedKept, DbInv, Burnt
  <1> QED
    BY <1>1, <1>2

\* A step that changes at most one proposal and the keys in memory.
LEMMA TaskMoves ==
    ASSUME RegInv, UNCHANGED <<db, now>>, NEW t \in Tasks, NEW row \in TaskRows,
           NEW k \in KeyState, tasks' = [tasks EXCEPT ![t] = row],
           taskKey' = [taskKey EXCEPT ![t] = k],
           \A s \in cache' : s \in cache \/ s = TaskScope(t),
           TaskScope(t) \in cache' => k = "live"
    PROVE  Moves
  <1>1. /\ tasks \in [Tasks -> TaskRows \cup {None}] /\ taskKey \in [Tasks -> KeyState]
        /\ cache \in SUBSET (RecordScopes \cup TaskScopes)
        /\ TaskScope(t) \in TaskScopes
    BY DEF RegInv, TypeOK, TaskScopes
  <1>2. TypeOK'
    <2>1. tasks' \in [Tasks -> TaskRows \cup {None}] /\ taskKey' \in [Tasks -> KeyState]
      BY <1>1
    <2>2. cache' \in SUBSET (RecordScopes \cup TaskScopes)
      BY <1>1
    <2> QED
      BY <2>1, <2>2 DEF RegInv, TypeOK, TaskScopes
  <1>3. DeadKeysForgotten'
    <2>1. \A s \in RecordScopes : s \in cache' => db'.deks[s].state = "live"
      BY ScopesDiffer DEF RegInv, DeadKeysForgotten
    <2>2. \A u \in Tasks : TaskScope(u) \in cache' => taskKey'[u] = "live"
      BY <1>1, ScopesDiffer DEF RegInv, DeadKeysForgotten
    <2> QED
      BY <2>1, <2>2 DEF DeadKeysForgotten
  <1>4. \A u \in Tasks : tasks'[u] = None => taskKey'[u] = "none"
    BY <1>1, RowsAreRows DEF RegInv
  <1>5. DbInv(db)' /\ Kept(db, db') /\ ErasedKept(db, db')
    <2>1. DbInv(db) /\ db' = db
      BY DEF RegInv
    <2> QED
      BY <2>1, SameTables DEF DbInv
  <1> QED
    BY <1>2, <1>3, <1>4, <1>5 DEF Moves, RegInv

\* A proposal left open, ended, approved, or decided by policy.
LEMMA LeaveMoves ==
    ASSUME RegInv, NEW t \in Tasks, NEW row \in TaskRows, NEW k \in KeyState,
           LeaveOpen(t, row, k), tasks[t] = None \/ k = taskKey[t],
           cache' = {} \/ cache' = cache \cup OpenedTask(t, k)
    PROVE  Moves
  <1>1. \A s \in cache' : s \in cache \/ s = TaskScope(t)
    BY DEF OpenedTask
  <1>2. TaskScope(t) \in cache' => k = "live"
    BY DEF OpenedTask, RegInv, DeadKeysForgotten
  <1> QED
    BY <1>1, <1>2, TaskMoves DEF LeaveOpen

LEMMA EndMoves ==
    ASSUME RegInv, NEW t \in Tasks, NEW row \in TaskRows, EndProposal(t, row)
    PROVE  Moves
  <1>1. taskKey[t] \in KeyState
    BY DEF RegInv, TypeOK
  <1>2. CloseProposal(taskKey[t]) \in KeyState
    BY <1>1 DEF CloseProposal, KeyState
  <1>3. taskKey' = [taskKey EXCEPT ![t] = CloseProposal(taskKey[t])]
    BY DEF EndProposal
  <1>4. /\ \A s \in cache' : s \in cache
        /\ TaskScope(t) \notin cache'
    BY DEF EndProposal, Forget
  <1> QED
    BY <1>2, <1>3, <1>4, TaskMoves DEF EndProposal

LEMMA ApproveMoves ==
    ASSUME RegInv, NEW t \in Tasks, NEW row \in TaskRows, NEW k \in KeyState,
           NEW by \in Subs \cup {PolicySub}, ApproveTask(t, row, k, by)
    PROVE  Moves
  <1> DEFINE done == DecideResult(row.wf, row.obj, row.payload, by)
             new  == [row EXCEPT !.state = "approved", !.obj = done.obj, !.decidedBy = by]
  <1>1. /\ done.res = "ok" /\ db' = done.db
        /\ tasks' = [tasks EXCEPT ![t] = new]
        /\ taskKey' = [taskKey EXCEPT ![t] = CloseProposal(k)]
        /\ cache' = Forget(cache \cup done.opened, TaskScope(t))
        /\ now' = now
    BY DEF ApproveTask
  <1>2. /\ row.wf \in Workflows /\ row.obj \in Objects \cup {None} /\ row.payload \in Payloads
    BY DEF TaskRows
  <1>3. DbInv(db) /\ now \in Nat
    BY DEF RegInv, TypeOK
  <1>4. done = EffectOps(db, row.wf, row.obj, row.payload)
    BY <1>1 DEF DecideResult
  <1> HIDE DEF done
  <1>5. PICK W : WalkInv(db, done, W)
    BY <1>1, <1>2, <1>3, <1>4, DecisionMade
  <1>6. DbInv(done.db) /\ Kept(db, done.db) /\ ErasedKept(db, done.db)
    BY <1>3, <1>5, DecisionKeeps
  <1>7. /\ done.obj \in Objects \cup {None}
        /\ done.opened \in SUBSET RecordScopes
        /\ \A s \in done.opened : db.deks[s].state = "live"
        /\ \A s \in RecordScopes : db.deks[s].state = "live" => done.db.deks[s].state = "live"
    BY <1>5 DEF WalkInv, Accs, Progress
  <1>8. new \in TaskRows
    BY <1>7 DEF TaskRows, TerminalStates, PolicySub
  <1>9. CloseProposal(k) \in KeyState
    BY DEF CloseProposal, KeyState
  <1> HIDE DEF new
  <1>10. /\ tasks \in [Tasks -> TaskRows \cup {None}] /\ taskKey \in [Tasks -> KeyState]
         /\ cache \in SUBSET (RecordScopes \cup TaskScopes)
    BY DEF RegInv, TypeOK, TaskScopes
  <1>11. TypeOK'
    <2>1. tasks' \in [Tasks -> TaskRows \cup {None}] /\ taskKey' \in [Tasks -> KeyState]
      BY <1>1, <1>8, <1>9, <1>10
    <2>2. cache' \in SUBSET (RecordScopes \cup TaskScopes)
      BY <1>1, <1>7, <1>10 DEF Forget
    <2>3. db' \in Dbs /\ now' \in Nat
      BY <1>1, <1>3, <1>6 DEF DbInv
    <2> QED
      BY <2>1, <2>2, <2>3 DEF TypeOK, TaskScopes
  <1>12. DeadKeysForgotten'
    <2>1. \A s \in RecordScopes : s \in cache' => db'.deks[s].state = "live"
      BY <1>1, <1>7 DEF RegInv, DeadKeysForgotten, Forget
    <2>2. ASSUME NEW u \in Tasks, TaskScope(u) \in cache' PROVE taskKey'[u] = "live"
      <3>1. u # t /\ TaskScope(u) \in cache
        BY <1>1, <1>7, <2>2, ScopesDiffer DEF Forget
      <3> QED
        BY <1>1, <1>10, <3>1 DEF RegInv, DeadKeysForgotten
    <2> QED
      BY <2>1, <2>2 DEF DeadKeysForgotten
  <1>13. \A u \in Tasks : tasks'[u] = None => taskKey'[u] = "none"
    BY <1>1, <1>8, <1>10, RowsAreRows DEF RegInv
  <1>14. DbInv(db)'
    BY <1>1, <1>6
  <1> QED
    BY <1>1, <1>6, <1>11, <1>12, <1>13, <1>14 DEF Moves, RegInv

LEMMA PolicyMoves ==
    ASSUME RegInv, NEW t \in Tasks, NEW row \in TaskRows, NEW k \in KeyState,
           tasks[t] = None \/ k = taskKey[t],
           ThenUnderPolicy(t, row, k) \/ ThenWait(t, row, k)
    PROVE  Moves
  BY ApproveMoves, LeaveMoves DEF ThenUnderPolicy, ThenWait

\* The handlers of the workflow.
LEMMA ProposeMoves ==
    ASSUME RegInv, NEW p \in Subs, NEW w \in Workflows, NEW o \in Objects \cup {None},
           NEW payload \in Wf[w].inputs, Propose(p, w, o, payload)
    PROVE  Moves
  <1> DEFINE free == {t \in Tasks : tasks[t] = None}
             t    == CHOOSE x \in free : TRUE
             row  == NewTask(p, w, o, payload)
             k    == IF Wf[w].pii THEN "live" ELSE "none"
  <1>1. free # {} /\ (ThenUnderPolicy(t, row, k) \/ ThenWait(t, row, k))
    BY DEF Propose
  <1>2. t \in Tasks /\ tasks[t] = None
    BY <1>1
  <1>3. payload \in Payloads /\ payload.buyer \in Subs \cup {None}
    BY InputsFitSchema DEF Payloads
  <1>4. row \in TaskRows
    BY <1>3 DEF NewTask, TaskRows, OpenStates
  <1>5. k \in KeyState
    BY DEF KeyState
  <1> HIDE DEF free, t, row, k
  <1> QED
    BY <1>1, <1>2, <1>4, <1>5, PolicyMoves

LEMMA AnswerMoves ==
    ASSUME RegInv, NEW p \in Subs, NEW t \in Tasks,
           Accept(p, t) \/ Decline(p, t) \/ Approve(p, t) \/ Reject(p, t) \/ Withdraw(p, t)
    PROVE  Moves
  <1> DEFINE accepted  == [tasks[t] EXCEPT !.state = "awaiting_review", !.answer = "accepted"]
             declined  == [tasks[t] EXCEPT !.state = "rejected", !.answer = "declined"]
             rejected  == [tasks[t] EXCEPT !.state = "rejected", !.decidedBy = p]
             withdrawn == [tasks[t] EXCEPT !.state = "withdrawn", !.decidedBy = p]
  <1>1. tasks[t] # None
    BY DEF Accept, Decline, Approve, Reject, Withdraw, MayDecide
  <1>2. tasks[t] \in TaskRows /\ taskKey[t] \in KeyState
    BY <1>1 DEF RegInv, TypeOK
  <1>3. accepted \in TaskRows /\ declined \in TaskRows
    BY <1>2 DEF TaskRows, OpenStates, TerminalStates
  <1>4. rejected \in TaskRows /\ withdrawn \in TaskRows
    BY <1>2 DEF TaskRows, TerminalStates
  <1> HIDE DEF accepted, declined, rejected, withdrawn
  <1>5. CASE Accept(p, t)
    <2>1. ThenUnderPolicy(t, accepted, taskKey[t]) \/ ThenWait(t, accepted, taskKey[t])
      BY <1>5 DEF Accept, accepted
    <2> QED
      BY <1>2, <1>3, <2>1, PolicyMoves
  <1>6. CASE Approve(p, t)
    BY <1>2, <1>6, ApproveMoves DEF Approve
  <1>7. CASE Decline(p, t) \/ Reject(p, t) \/ Withdraw(p, t)
    <2>1. EndProposal(t, declined) \/ EndProposal(t, rejected) \/ EndProposal(t, withdrawn)
      BY <1>7 DEF Decline, Reject, Withdraw, declined, rejected, withdrawn
    <2> QED
      BY <1>3, <1>4, <2>1, EndMoves
  <1> QED
    BY <1>5, <1>6, <1>7

\* Retention and erasure.
LEMMA PruneMoves ==
    ASSUME RegInv, NEW id, NEW only, Prune(id, only)
    PROVE  Moves
  <1>1. DbInv(db') /\ Kept(db, db') /\ ErasedKept(db, db')
    BY PruneKeeps DEF RegInv
  <1>2. UNCHANGED <<tasks, taskKey, cache, now>>
    BY DEF Prune
  <1>3. db'.deks = db.deks
    BY DEF Prune, RegInv, TypeOK, Dbs
  <1> QED
    BY <1>1, <1>2, <1>3 DEF Moves, RegInv, TypeOK, DbInv, DeadKeysForgotten

LEMMA EraseMoves ==
    ASSUME RegInv, NEW id, NEW o \in Objects, Erase(id, o)
    PROVE  Moves
  <1>1. /\ DbInv(db') /\ Kept(db, db') /\ ErasedKept(db, db')
        /\ \A s \in RecordScopes \ {<<"subject", o>>} : db'.deks[s] = db.deks[s]
    BY EraseKeeps DEF RegInv
  <1>2. UNCHANGED <<tasks, taskKey, now>> /\ cache' = cache \ {<<"subject", o>>}
    BY DEF Erase, Forget
  <1>3. DeadKeysForgotten'
    BY <1>1, <1>2 DEF RegInv, DeadKeysForgotten
  <1>4. TypeOK'
    BY <1>1, <1>2 DEF RegInv, TypeOK, DbInv
  <1>5. \A t \in Tasks : tasks'[t] = None => taskKey'[t] = "none"
    BY <1>2 DEF RegInv
  <1>6. DbInv(db)'
    BY <1>1
  <1> QED
    BY <1>1, <1>3, <1>4, <1>5, <1>6 DEF Moves, RegInv

\* Reads, restarts and the clock change no table.
LEMMA QuietMoves ==
    ASSUME RegInv, UNCHANGED <<db, tasks, taskKey>>, now' \in Nat,
           cache' \in SUBSET (RecordScopes \cup {TaskScope(t) : t \in Tasks}),
           DeadKeysForgotten'
    PROVE  Moves
  <1>1. Kept(db, db') /\ ErasedKept(db, db')
    BY SameTables DEF RegInv
  <1>2. DbInv(db)'
    BY DEF RegInv
  <1>3. TypeOK'
    BY DEF RegInv, TypeOK
  <1>4. \A t \in Tasks : tasks'[t] = None => taskKey'[t] = "none"
    BY DEF RegInv
  <1> QED
    BY <1>1, <1>2, <1>3, <1>4 DEF Moves, RegInv

\* Reading opens a key that is live.
LEMMA ReadMoves ==
    ASSUME RegInv,
           \/ \E t \in Tasks : ReadTask(t)
           \/ \E o \in Objects, v \in 1..MaxVersions : ReadVersion(o, v)
    PROVE  Moves
  <1>1. now \in Nat /\ cache \in SUBSET (RecordScopes \cup {TaskScope(t) : t \in Tasks})
    BY DEF RegInv, TypeOK
  <1>2. ASSUME NEW t \in Tasks, ReadTask(t) PROVE Moves
    <2>1. /\ UNCHANGED <<db, tasks, taskKey, now>> /\ taskKey[t] = "live"
          /\ cache' = cache \cup {TaskScope(t)}
      BY <1>2 DEF ReadTask
    <2>2. DeadKeysForgotten'
      BY <2>1, ScopesDiffer DEF RegInv, DeadKeysForgotten
    <2> QED
      BY <1>1, <2>1, <2>2, QuietMoves
  <1>3. ASSUME NEW o \in Objects, NEW v, ReadVersion(o, v) PROVE Moves
    <2> DEFINE s == db.versions[o][v].scope
    <2>1. /\ UNCHANGED <<db, tasks, taskKey, now>>
          /\ v \in DOMAIN db.versions[o] /\ s # None /\ db.deks[s].state = "live"
          /\ cache' = cache \cup {s}
      BY <1>3 DEF ReadVersion
    <2>2. db.versions[o] \in Seq(VersionRows)
      BY DEF RegInv, TypeOK, Dbs
    <2>3. db.versions[o][v] \in VersionRows
      BY <2>1, <2>2
    <2>4. s \in RecordScopes
      BY <2>1, <2>3 DEF VersionRows
    <2> HIDE DEF s
    <2>5. DeadKeysForgotten'
      BY <2>1, <2>4, ScopesDiffer DEF RegInv, DeadKeysForgotten
    <2> QED
      BY <1>1, <2>1, <2>4, <2>5, QuietMoves
  <1> QED
    BY <1>2, <1>3

\* Every step of the register.
LEMMA NextMoves == RegInv /\ [Next]_vars => Moves
  <1> SUFFICES ASSUME RegInv, [Next]_vars PROVE Moves
    OBVIOUS
  <1>1. ASSUME NEW p \in Subs, NEW w \in Workflows, NEW o \in Objects \cup {None},
               NEW payload \in Wf[w].inputs, Propose(p, w, o, payload)
        PROVE  Moves
    BY <1>1, ProposeMoves
  <1>2. ASSUME NEW p \in Subs, NEW t \in Tasks,
               Accept(p, t) \/ Decline(p, t) \/ Approve(p, t) \/ Reject(p, t) \/ Withdraw(p, t)
        PROVE  Moves
    BY <1>2, AnswerMoves
  <1>3. ASSUME NEW id \in Policies, NEW only, Prune(id, only)
        PROVE  Moves
    BY <1>3, PruneMoves
  <1>4. ASSUME NEW id \in Policies, NEW o \in Objects, Erase(id, o)
        PROVE  Moves
    BY <1>4, EraseMoves
  <1>5. CASE \/ \E t \in Tasks : ReadTask(t)
             \/ \E o \in Objects, v \in 1..MaxVersions : ReadVersion(o, v)
    BY <1>5, ReadMoves
  <1>6. CASE Restart
    <2>1. DeadKeysForgotten'
      BY <1>6 DEF Restart, DeadKeysForgotten
    <2> QED
      BY <1>6, <2>1, QuietMoves DEF Restart, RegInv, TypeOK
  <1>7. CASE Tick \/ UNCHANGED vars
    <2>1. UNCHANGED <<db, tasks, taskKey, cache>> /\ now' \in Nat
      BY <1>7 DEF Tick, vars, RegInv, TypeOK
    <2>2. DeadKeysForgotten'
      BY <2>1 DEF RegInv, DeadKeysForgotten
    <2> QED
      BY <2>1, <2>2, QuietMoves DEF RegInv, TypeOK
  <1> QED
    BY <1>1, <1>2, <1>3, <1>4, <1>5, <1>6, <1>7 DEF Next

LEMMA InitRegInv == Init => RegInv
  <1> SUFFICES ASSUME Init PROVE RegInv
    OBVIOUS
  <1>1. DbInv(db)
    BY SeedIsSound DEF Init
  <1>2. TypeOK
    BY <1>1 DEF Init, TypeOK, DbInv, KeyState
  <1> QED
    BY <1>1, <1>2 DEF Init, RegInv, DeadKeysForgotten

\* The invariant behind the theorems on the record store.
THEOREM RecordInvariant == Spec => []RegInv
  <1>1. RegInv /\ [Next]_vars => RegInv'
    BY NextMoves DEF Moves
  <1> QED
    BY InitRegInv, <1>1, PTL DEF Spec

\* Every table keeps its schema.
THEOREM TypeCorrect == Spec => []TypeOK
  <1>1. RegInv => TypeOK
    BY DEF RegInv
  <1> QED
    BY <1>1, RecordInvariant, PTL

\* For every pack, the head row of every object is its newest version, agrees
\* with it, and retention never emptied it (buildRecordOps, Prune).
THEOREM HeadsAreCurrent == Spec => []HeadCurrent
  <1>1. RegInv => HeadCurrent
    BY DEF RegInv, DbInv, Heads, HeadCurrent
  <1> QED
    BY <1>1, RecordInvariant, PTL

\* For every pack, no key that was destroyed, of a subject or of a proposal, is
\* still held in memory (Forget in closeProposal and Erase).
THEOREM DestroyedKeysAreForgotten == Spec => []DeadKeysForgotten
  <1>1. RegInv => DeadKeysForgotten
    BY DEF RegInv
  <1> QED
    BY <1>1, RecordInvariant, PTL

\* For every pack, history only grows (mutations.go).
THEOREM HistoryIsKept == Spec => HistoryAppendOnly
  <1>1. RegInv /\ [Next]_vars =>
            [\A o \in Objects :
                /\ Len(db'.versions[o]) \in {Len(db.versions[o]), Len(db.versions[o]) + 1}
                /\ \A v \in DOMAIN db.versions[o] :
                    LET old == db.versions[o][v]  new == db'.versions[o][v]
                    IN  new = old \/ new = [old EXCEPT !.pruned = TRUE]]_vars
    BY NextMoves DEF Moves, Kept
  <1> QED
    BY <1>1, RecordInvariant, PTL DEF Spec, HistoryAppendOnly

\* For every pack, an erased subject stays erased (updateOps, ensureDEK).
THEOREM ErasureIsFinal == Spec => ErasedForever
  <1>1. RegInv /\ [Next]_vars =>
            [\A o \in Objects :
                Registered(db, o) /\ db.objects[o].erased =>
                    /\ db'.objects[o] = db.objects[o]
                    /\ db'.deks[<<"subject", o>>].state = "destroyed"]_vars
    BY NextMoves DEF Moves, ErasedKept
  <1> QED
    BY <1>1, RecordInvariant, PTL DEF Spec, ErasedForever

\* Where no workflow writes twice under one natural key class or one shared
\* key, no write leaves a row nobody can open (ensureDEK, readVersion).
THEOREM RecordsStayReadable == WritesApart => (Spec => []Readable)
  <1> SUFFICES ASSUME WritesApart PROVE Spec => []Readable
    OBVIOUS
  <1>1. RegInv => Readable
    BY DEF RegInv, DbInv, Sealed, Readable
  <1> QED
    BY <1>1, RecordInvariant, PTL

\* Under the same condition, the natural key index holds exactly the keys of the
\* registered objects (checkNaturalKey, buildRecordOps).
THEOREM IndexIsExact == WritesApart => (Spec => []IndexExact)
  <1> SUFFICES ASSUME WritesApart PROVE Spec => []IndexExact
    OBVIOUS
  <1>1. RegInv => IndexExact
    BY DEF RegInv, DbInv, Indexed, IndexExact
  <1> QED
    BY <1>1, RecordInvariant, PTL

----------------------------------------------------------------------------
(* What a step decides.                                                    *)

\* A proposal names the record it is about, of the class of its workflow,
\* unless its workflow registers one.
About(d, row) ==
    /\ (Wf[row.wf].action = "create") = (row.obj = None)
    /\ row.obj # None => /\ Registered(d, row.obj)
                         /\ d.objects[row.obj].class = Wf[row.wf].class
Open(row) == row # None /\ row.state \in OpenStates
AboutInv == \A t \in Tasks : Open(tasks[t]) => About(db, tasks[t])

\* The four kinds of steps: an approval, a move of one proposal that approves
\* nothing, a prune and an erasure.
Approves(t, row, k, by) ==
    /\ row \in TaskRows /\ k \in KeyState /\ by \in Subs \cup {PolicySub}
    /\ ApproveTask(t, row, k, by)
    /\ About(db, row)
    /\ ~Ended(tasks[t])
Handles(t, row) ==
    /\ tasks' = [tasks EXCEPT ![t] = row]
    /\ row \in TaskRows
    /\ ~Ended(tasks[t])
    /\ row.state # "approved"
    /\ tasks[t] = None => row.state \in OpenStates
    /\ row.state \in OpenStates => About(db, row)
StepKind ==
    \/ \E t \in Tasks : \E row, k, by : Approves(t, row, k, by)
    \/ db' = db /\ (tasks' = tasks \/ \E t \in Tasks : \E row : Handles(t, row))
    \/ tasks' = tasks /\ \E id \in Policies : \E only : Prune(id, only)
    \/ tasks' = tasks /\ \E id \in Policies : \E o \in Objects : Erase(id, o)

LEMMA PolicyKind ==
    ASSUME NEW t \in Tasks, NEW row \in TaskRows, NEW k \in KeyState,
           ThenUnderPolicy(t, row, k) \/ ThenWait(t, row, k),
           About(db, row), ~Ended(tasks[t]), row.state \in OpenStates
    PROVE  StepKind
  <1>1. CASE ApproveTask(t, row, k, PolicySub)
    BY <1>1 DEF StepKind, Approves
  <1>2. CASE LeaveOpen(t, row, k)
    <2>1. Handles(t, row) /\ db' = db
      BY <1>2, StatesDiffer DEF LeaveOpen, Handles, OpenStates
    <2> QED
      BY <2>1 DEF StepKind
  <1> QED
    BY <1>1, <1>2 DEF ThenUnderPolicy, ThenWait

LEMMA ProposeKind ==
    ASSUME RegInv, NEW p \in Subs, NEW w \in Workflows, NEW o \in Objects \cup {None},
           NEW payload \in Wf[w].inputs, Propose(p, w, o, payload)
    PROVE  StepKind
  <1> DEFINE free == {t \in Tasks : tasks[t] = None}
             t    == CHOOSE x \in free : TRUE
             row  == NewTask(p, w, o, payload)
             k    == IF Wf[w].pii THEN "live" ELSE "none"
  <1>1. /\ free # {} /\ (ThenUnderPolicy(t, row, k) \/ ThenWait(t, row, k))
        /\ (Wf[w].action = "create") = (o = None)
        /\ o # None => Registered(db, o) /\ db.objects[o].class = Wf[w].class
    BY DEF Propose
  <1>2. t \in Tasks /\ ~Ended(tasks[t])
    BY <1>1 DEF Ended
  <1>3. payload \in Payloads /\ payload.buyer \in Subs \cup {None}
    BY InputsFitSchema DEF Payloads
  <1>4. /\ row \in TaskRows /\ row.wf = w /\ row.obj = o /\ row.state \in OpenStates
    BY <1>3 DEF NewTask, TaskRows, OpenStates
  <1>5. k \in KeyState
    BY DEF KeyState
  <1> HIDE DEF free, t, row, k
  <1>6. About(db, row)
    BY <1>1, <1>4 DEF About
  <1> QED
    BY <1>1, <1>2, <1>4, <1>5, <1>6, PolicyKind

LEMMA AnswerKind ==
    ASSUME RegInv, AboutInv, NEW p \in Subs, NEW t \in Tasks,
           Accept(p, t) \/ Decline(p, t) \/ Approve(p, t) \/ Reject(p, t) \/ Withdraw(p, t)
    PROVE  StepKind
  <1> DEFINE accepted  == [tasks[t] EXCEPT !.state = "awaiting_review", !.answer = "accepted"]
             declined  == [tasks[t] EXCEPT !.state = "rejected", !.answer = "declined"]
             rejected  == [tasks[t] EXCEPT !.state = "rejected", !.decidedBy = p]
             withdrawn == [tasks[t] EXCEPT !.state = "withdrawn", !.decidedBy = p]
  <1>1. tasks[t] # None /\ tasks[t].state \in OpenStates
    BY DEF Accept, Decline, Approve, Reject, Withdraw, MayDecide, OpenStates
  <1>2. tasks[t] \in TaskRows /\ taskKey[t] \in KeyState
    BY <1>1 DEF RegInv, TypeOK
  <1>3. About(db, tasks[t]) /\ ~Ended(tasks[t])
    BY <1>1, StatesDiffer DEF AboutInv, Open, Ended
  <1>4. /\ accepted \in TaskRows /\ declined \in TaskRows
        /\ accepted.wf = tasks[t].wf /\ accepted.obj = tasks[t].obj
        /\ accepted.state = "awaiting_review" /\ declined.state = "rejected"
    BY <1>2 DEF TaskRows, OpenStates, TerminalStates
  <1>5. /\ rejected \in TaskRows /\ withdrawn \in TaskRows
        /\ rejected.state = "rejected" /\ withdrawn.state = "withdrawn"
    BY <1>2 DEF TaskRows, TerminalStates
  <1> HIDE DEF accepted, declined, rejected, withdrawn
  <1>6. CASE Accept(p, t)
    <2>1. ThenUnderPolicy(t, accepted, taskKey[t]) \/ ThenWait(t, accepted, taskKey[t])
      BY <1>6 DEF Accept, accepted
    <2>2. About(db, accepted) /\ accepted.state \in OpenStates
      BY <1>3, <1>4 DEF About, OpenStates
    <2> QED
      BY <1>2, <1>3, <1>4, <2>1, <2>2, PolicyKind
  <1>7. CASE Approve(p, t)
    BY <1>2, <1>3, <1>7 DEF Approve, StepKind, Approves
  <1>8. CASE Decline(p, t) \/ Reject(p, t) \/ Withdraw(p, t)
    <2>1. PICK r \in {declined, rejected, withdrawn} : EndProposal(t, r)
      BY <1>8 DEF Decline, Reject, Withdraw, declined, rejected, withdrawn
    <2>2. r \in TaskRows /\ r.state \in {"rejected", "withdrawn"}
      BY <1>4, <1>5, <2>1
    <2>3. Handles(t, r) /\ db' = db
      BY <1>1, <1>3, <2>1, <2>2 DEF EndProposal, Handles, OpenStates
    <2> QED
      BY <2>3 DEF StepKind
  <1> QED
    BY <1>6, <1>7, <1>8

LEMMA NextKind == RegInv /\ AboutInv /\ [Next]_vars => StepKind
  <1> SUFFICES ASSUME RegInv, AboutInv, [Next]_vars PROVE StepKind
    OBVIOUS
  <1>1. ASSUME NEW p \in Subs, NEW w \in Workflows, NEW o \in Objects \cup {None},
               NEW payload \in Wf[w].inputs, Propose(p, w, o, payload)
        PROVE  StepKind
    BY <1>1, ProposeKind
  <1>2. ASSUME NEW p \in Subs, NEW t \in Tasks,
               Accept(p, t) \/ Decline(p, t) \/ Approve(p, t) \/ Reject(p, t) \/ Withdraw(p, t)
        PROVE  StepKind
    BY <1>2, AnswerKind
  <1>3. ASSUME NEW id \in Policies, NEW only, Prune(id, only)
        PROVE  StepKind
    BY <1>3 DEF Prune, StepKind
  <1>4. ASSUME NEW id \in Policies, NEW o \in Objects, Erase(id, o)
        PROVE  StepKind
    BY <1>4 DEF Erase, StepKind
  <1>5. CASE \/ \E t \in Tasks : ReadTask(t)
             \/ \E o \in Objects, v \in 1..MaxVersions : ReadVersion(o, v)
             \/ Restart \/ Tick \/ UNCHANGED vars
    BY <1>5 DEF ReadTask, ReadVersion, Restart, Tick, vars, StepKind
  <1> QED
    BY <1>1, <1>2, <1>3, <1>4, <1>5 DEF Next

\* Records stay registered, in their class.
Persist(d, x) ==
    \A o \in Objects : Registered(d, o) =>
        Registered(x, o) /\ x.objects[o].class = d.objects[o].class

\* A decision as the write set it commits.
Decides(row, done) ==
    /\ done = EffectOps(db, row.wf, row.obj, row.payload)
    /\ done.res = "ok" /\ db' = done.db
    /\ \E W : WalkInv(db, done, W)
LEMMA ApprovalDecides ==
    ASSUME RegInv, NEW t \in Tasks, NEW row, NEW k, NEW by, Approves(t, row, k, by)
    PROVE  /\ Decides(row, DecideResult(row.wf, row.obj, row.payload, by))
           /\ row.wf \in Workflows /\ row.obj \in Objects \cup {None}
           /\ row.payload \in Payloads
  <1> DEFINE done == DecideResult(row.wf, row.obj, row.payload, by)
  <1>1. done.res = "ok" /\ db' = done.db
    BY DEF Approves, ApproveTask
  <1>2. /\ row.wf \in Workflows /\ row.obj \in Objects \cup {None} /\ row.payload \in Payloads
    BY DEF TaskRows, Approves
  <1>3. DbInv(db) /\ now \in Nat
    BY DEF RegInv, TypeOK
  <1>4. done = EffectOps(db, row.wf, row.obj, row.payload)
    BY <1>1 DEF DecideResult
  <1> HIDE DEF done
  <1>5. \E W : WalkInv(db, done, W)
    BY <1>1, <1>2, <1>3, <1>4, DecisionMade
  <1> QED
    BY <1>1, <1>2, <1>4, <1>5 DEF Decides, done

LEMMA StepPersists == RegInv /\ StepKind => Persist(db, db')
  <1> SUFFICES ASSUME RegInv, StepKind PROVE Persist(db, db')
    OBVIOUS
  <1>1. ASSUME NEW t \in Tasks, NEW row, NEW k, NEW by, Approves(t, row, k, by)
        PROVE  Persist(db, db')
    <2>1. PICK done, W : WalkInv(db, done, W) /\ db' = done.db
      BY <1>1, ApprovalDecides DEF Decides
    <2>2. \A o \in Objects : Untouched(db, db', o) \/ Touched(db, db', W, o)
      BY <2>1 DEF WalkInv, Progress
    <2> QED
      BY <2>2 DEF Untouched, Touched, Persist, Registered
  <1>2. ASSUME db' = db PROVE Persist(db, db')
    BY <1>2 DEF Persist
  <1>3. ASSUME NEW id, NEW only, Prune(id, only) PROVE Persist(db, db')
    <2>1. db'.objects = db.objects
      BY <1>3 DEF Prune, RegInv, TypeOK, Dbs
    <2> QED
      BY <2>1 DEF Persist, Registered
  <1>4. ASSUME NEW id, NEW o \in Objects, Erase(id, o) PROVE Persist(db, db')
    <2>1. db.objects \in [Objects -> ObjectRows \cup {None}] /\ db.objects[o] # None
      BY <1>4 DEF RegInv, TypeOK, Dbs, Erase, Registered
    <2>2. db'.objects = [db.objects EXCEPT ![o] = [db.objects[o] EXCEPT !.erased = TRUE]]
      BY <1>4 DEF Erase, RegInv, TypeOK, Dbs
    <2>3. /\ [db.objects[o] EXCEPT !.erased = TRUE] \in ObjectRows
          /\ [db.objects[o] EXCEPT !.erased = TRUE].class = db.objects[o].class
      BY <2>1 DEF ObjectRows
    <2> QED
      BY <2>1, <2>2, <2>3, NoneIsNothing DEF Persist, Registered
  <1> QED
    BY <1>1, <1>2, <1>3, <1>4 DEF StepKind

LEMMA StepKeepsAbout == RegInv /\ AboutInv /\ StepKind => AboutInv'
  <1> SUFFICES ASSUME RegInv, AboutInv, StepKind, NEW u \in Tasks, Open(tasks'[u])
               PROVE  About(db', tasks'[u])
    BY DEF AboutInv
  <1>1. Persist(db, db')
    BY StepPersists
  <1>2. tasks \in [Tasks -> TaskRows \cup {None}]
    BY DEF RegInv, TypeOK
  <1>3. About(db, tasks'[u]) /\ tasks'[u] \in TaskRows
    <2>1. ASSUME NEW t \in Tasks, NEW row, NEW k, NEW by, Approves(t, row, k, by)
          PROVE  About(db, tasks'[u]) /\ tasks'[u] \in TaskRows
      <3> DEFINE done == DecideResult(row.wf, row.obj, row.payload, by)
                 new  == [row EXCEPT !.state = "approved", !.obj = done.obj, !.decidedBy = by]
      <3>1. tasks' = [tasks EXCEPT ![t] = new]
        BY <2>1 DEF Approves, ApproveTask
      <3>2. new.state = "approved"
        BY <2>1 DEF Approves, TaskRows
      <3> HIDE DEF new
      <3>3. u # t
        BY <1>2, <3>1, <3>2 DEF Open, OpenStates
      <3> QED
        BY <1>2, <3>1, <3>3 DEF AboutInv, Open
    <2>2. ASSUME NEW t \in Tasks, NEW row, Handles(t, row)
          PROVE  About(db, tasks'[u]) /\ tasks'[u] \in TaskRows
      BY <1>2, <2>2 DEF Handles, AboutInv, Open
    <2>3. ASSUME tasks' = tasks
          PROVE  About(db, tasks'[u]) /\ tasks'[u] \in TaskRows
      BY <1>2, <2>3 DEF AboutInv, Open
    <2> QED
      BY <2>1, <2>2, <2>3 DEF StepKind
  <1> QED
    BY <1>1, <1>3 DEF About, Persist, TaskRows

\* Every open proposal is still about what it was proposed on (Propose).
THEOREM ProposalsKeepTheirRecord == Spec => []AboutInv
  <1>1. Init => AboutInv
    BY DEF Init, AboutInv, Open
  <1>2. RegInv /\ AboutInv /\ [Next]_vars => AboutInv'
    BY NextKind, StepKeepsAbout
  <1> QED
    BY <1>1, <1>2, RecordInvariant, PTL DEF Spec

----------------------------------------------------------------------------
(* A decision, effect by effect.                                           *)

\* What the i-th effect of a workflow did, and the write sets of a walk that
\* has not failed.
Effected(d, acc, new, w, payload, i) ==
    /\ Ready(d, acc, WrittenBy(w, i - 1))
    /\ EffectDone(d, acc, WrittenBy(w, i - 1), new, w, payload, Wf[w].effects[i])
    /\ Context(d, acc, new, w, Wf[w].effects[i])
    /\ Aimed(d, acc, new, w, payload, Wf[w].effects[i])
Walk(d, w, obj, payload) == WriteSets(d, w, obj, payload, Wf[w].effects)
Last(w) == Len(Wf[w].effects)

LEMMA WalkTrace ==
    ASSUME NEW d, DbInv(d), now \in Nat, NEW w \in Workflows,
           NEW obj \in Objects \cup {None}, NEW payload \in Payloads
    PROVE  LET g == Walk(d, w, obj, payload) IN
           /\ Last(w) \in Nat /\ Effects(w) = 1..Last(w)
           /\ g[0] = NoWrites(d, obj)
           /\ \A i \in 0..Last(w) : WalkInv(d, g[i], WrittenBy(w, i))
           /\ \A i \in 1..Last(w) : g[i].res = "ok" =>
                g[i - 1].res = "ok" /\ Effected(d, g[i - 1], g[i], w, payload, i)
  <1> DEFINE g == Walk(d, w, obj, payload)
             N == Last(w)
  <1>1. N \in Nat /\ DOMAIN Wf[w].effects = 1..N
    BY PackIsValid DEF ListsEffects, Last
  <1>2. /\ g[0] = NoWrites(d, obj)
        /\ \A i \in 1..N : g[i] = NextEffect(d, g[i - 1], w, payload, Wf[w].effects[i])
    BY <1>1, WalkSteps DEF Walk, Last
  <1>3. \A i \in 0..N : WalkInv(d, g[i], WrittenBy(w, i))
    BY WalkEnds DEF Walk, Last
  <1> HIDE DEF g, N
  <1>4. ASSUME NEW i \in 1..N, g[i].res = "ok"
        PROVE  g[i - 1].res = "ok" /\ Effected(d, g[i - 1], g[i], w, payload, i)
    <2>1. i - 1 \in 0..N /\ i \in DOMAIN Wf[w].effects
      BY <1>1
    <2>2. WalkInv(d, g[i - 1], WrittenBy(w, i - 1))
      BY <1>3, <2>1
    <2>3. WrittenBy(w, i - 1) \in SUBSET Classes
      <3>1. \A j \in DOMAIN Wf[w].effects : Written(w, Wf[w].effects[j]) \in Classes
        BY PackIsValid DEF Written, ValidWorkflow, ValidEffect
      <3> QED
        BY <1>1, <3>1 DEF WrittenBy
    <2>4. Ready(d, g[i - 1], WrittenBy(w, i - 1))
      BY <2>2, <2>3 DEF Ready, WalkInv
    <2>5. g[i] = NextEffect(d, g[i - 1], w, payload, Wf[w].effects[i])
      BY <1>2
    <2>6. g[i - 1].res = "ok"
      BY <1>4, <2>5 DEF NextEffect
    <2> QED
      BY <2>1, <2>4, <2>5, <2>6, EffectShape DEF Effected
  <1> QED
    BY <1>1, <1>2, <1>3, <1>4 DEF Effects, g, N

\* What holds at the start and after each effect holds at the end.
LEMMA WalkInduction ==
    ASSUME NEW N \in Nat, NEW Good, 0 \in Good,
           \A n \in 1..N : n - 1 \in Good => n \in Good
    PROVE  N \in Good
  <1> DEFINE Bad == {n \in 0..N : n \notin Good}
  <1> SUFFICES ASSUME Bad # {} PROVE FALSE
    OBVIOUS
  <1>1. PICK n \in Bad : \A m \in Bad : n <= m
    <2>1. Bad \in SUBSET Nat
      OBVIOUS
    <2> HIDE DEF Bad
    <2> QED
      BY <2>1, NatMin
  <1>2. n \in 1..N /\ n - 1 \in 0..N /\ n - 1 \notin Bad
    BY <1>1
  <1> QED
    BY <1>1, <1>2

\* A decision that succeeds is a walk that did.
LEMMA DecisionWalks ==
    ASSUME NEW d, DbInv(d), now \in Nat, NEW w \in Workflows,
           NEW obj \in Objects \cup {None}, NEW payload \in Payloads,
           EffectOps(d, w, obj, payload).res = "ok"
    PROVE  EffectOps(d, w, obj, payload) = Walk(d, w, obj, payload)[Last(w)]
  <1> DEFINE a == Walk(d, w, obj, payload)[Last(w)]
  <1>1. Last(w) \in 0..Last(w)
    BY WalkTrace
  <1>2. a \in Accs
    BY <1>1, WalkTrace DEF WalkInv
  <1>3. EffectOps(d, w, obj, payload) \in {a, Fail(a)}
    BY DEF EffectOps, Walk, Last
  <1> HIDE DEF a
  <1>4. Fail(a).res # "ok"
    BY <1>2 DEF Fail, Accs
  <1> QED
    BY <1>3, <1>4 DEF a

\* A decision on a record stays about that record, and is what its templates
\* call the object; one that registers a record has none until it has.
Placed(acc, w, obj) ==
    IF Wf[w].action # "create" THEN obj # None => acc.obj = obj /\ acc.ctx = obj
    ELSE obj = None => acc.ctx = None \/ acc.ctx \in acc.pending

LEMMA PlacedStep ==
    ASSUME NEW d, NEW acc, NEW new, NEW w \in Workflows, NEW obj, NEW payload,
           NEW i \in Effects(w),
           Effected(d, acc, new, w, payload, i), new.res = "ok", Placed(acc, w, obj)
    PROVE  Placed(new, w, obj) /\ acc.pending \subseteq new.pending
  <1> DEFINE e == Wf[w].effects[i]
             o == Target(d, acc, w, payload, e)
  <1>1. Context(d, acc, new, w, e) /\ Aimed(d, acc, new, w, payload, e)
    BY DEF Effected
  <1>2. \/ Idle(acc, new) /\ Skips(d, acc, w, payload, e)
        \/ \E v : Targets(d, acc, Written(w, e), o, v, new.pending)
    BY DEF Effected, EffectDone, Shape, Wrote, Writes
  <1> HIDE DEF e
  <1>3. acc.pending \subseteq new.pending
    BY <1>2 DEF Idle, Targets
  <1>4. CASE Wf[w].action # "create"
    BY <1>1, <1>3, <1>4 DEF Placed, Context
  <1>5. CASE Wf[w].action = "create" /\ e.type # "record"
    BY <1>1, <1>3, <1>5 DEF Placed, Context
  <1>6. CASE Wf[w].action = "create" /\ e.type = "record"
    <2>1. Creates(w, e) /\ ~Skips(d, acc, w, payload, e) /\ Written(w, e) = Wf[w].class
      BY <1>6 DEF Creates, Skips, Written
    <2>2. o = Minted(d, acc, Wf[w].class) /\ new.ctx = o
      BY <1>1, <1>6, <2>1 DEF Context, Target
    <2>3. o \in Unused(d, acc, Written(w, e))
      BY <1>1, <2>1 DEF Aimed
    <2>4. o \in new.pending
      BY <1>2, <2>1, <2>3 DEF Targets, Unused
    <2> QED
      BY <1>3, <1>6, <2>2, <2>4 DEF Placed
  <1> QED
    BY <1>4, <1>5, <1>6

LEMMA WalkPlaced ==
    ASSUME NEW d, DbInv(d), now \in Nat, NEW w \in Workflows,
           NEW obj \in Objects \cup {None}, NEW payload \in Payloads,
           NEW n \in 0..Last(w), Walk(d, w, obj, payload)[n].res = "ok"
    PROVE  Placed(Walk(d, w, obj, payload)[n], w, obj)
  <1> DEFINE g == Walk(d, w, obj, payload)
             Good == {i \in 0..n : g[i].res = "ok" => Placed(g[i], w, obj)}
  <1>1. /\ Last(w) \in Nat /\ Effects(w) = 1..Last(w)
        /\ g[0] = NoWrites(d, obj)
        /\ \A i \in 1..Last(w) : g[i].res = "ok" =>
             g[i - 1].res = "ok" /\ Effected(d, g[i - 1], g[i], w, payload, i)
    BY WalkTrace
  <1> HIDE DEF g
  <1>2. 0 \in Good
    BY <1>1 DEF Placed, NoWrites
  <1>3. ASSUME NEW i \in 1..n, i - 1 \in Good PROVE i \in Good
    <2> SUFFICES ASSUME g[i].res = "ok" PROVE Placed(g[i], w, obj)
      BY <1>1
    <2>1. i \in 1..Last(w) /\ i \in Effects(w)
      BY <1>1
    <2>2. g[i - 1].res = "ok" /\ Effected(d, g[i - 1], g[i], w, payload, i)
      BY <1>1, <2>1
    <2>3. Placed(g[i - 1], w, obj)
      BY <1>3, <2>2
    <2> QED
      BY <2>1, <2>2, <2>3, PlacedStep
  <1>4. n \in Good
    <2>1. n \in Nat
      BY <1>1
    <2> HIDE DEF Good
    <2> QED
      BY <1>2, <1>3, <2>1, WalkInduction
  <1> QED
    BY <1>4 DEF g

----------------------------------------------------------------------------
(* Approvals are justified.                                                *)

\* A row whose conditions hold in the state before the step that approves it.
Justified(row) ==
    \A i \in DOMAIN Wf[row.wf].conditions :
        Wf[row.wf].conditions[i].on_fail = "reject" \/ row.decidedBy = PolicySub
            => ConditionHolds(db, Wf[row.wf].conditions[i], DecidedOn(row), row.payload)

LEMMA ApprovalJustified ==
    ASSUME RegInv, NEW t \in Tasks, NEW row, NEW k, NEW by, Approves(t, row, k, by)
    PROVE  \E new : tasks' = [tasks EXCEPT ![t] = new] /\ Justified(new)
  <1> DEFINE done == DecideResult(row.wf, row.obj, row.payload, by)
             new  == [row EXCEPT !.state = "approved", !.obj = done.obj, !.decidedBy = by]
             ks   == Wf[row.wf].conditions
             failing == {i \in DOMAIN ks : ~ConditionHolds(db, ks[i], row.obj, row.payload)}
             rejects == {i \in failing : ks[i].on_fail = "reject"}
             ev == EvaluateConditions(db, row.wf, row.obj, row.payload)
  <1>1. done.res = "ok" /\ tasks' = [tasks EXCEPT ![t] = new]
    BY DEF Approves, ApproveTask
  <1>2. /\ row.wf \in Workflows /\ row.obj \in Objects \cup {None} /\ row.payload \in Payloads
        /\ done = EffectOps(db, row.wf, row.obj, row.payload)
        /\ DbInv(db) /\ now \in Nat
    BY ApprovalDecides DEF Decides, RegInv, TypeOK
  <1>3. /\ new.wf = row.wf /\ new.obj = done.obj /\ new.decidedBy = by
        /\ new.payload = row.payload
    BY DEF Approves, TaskRows
  <1>4. ~ev.reject /\ ~(ev.blocked /\ by = PolicySub)
    BY <1>1 DEF DecideResult
  <1>5. /\ rejects = {}
        /\ by = PolicySub => failing = {}
    BY <1>4 DEF EvaluateConditions
  <1>6. DecidedOn(new) = row.obj
    <2>1. CASE Wf[row.wf].action = "create"
      BY <1>3, <2>1 DEF DecidedOn, Approves, About
    <2>2. CASE Wf[row.wf].action # "create"
      <3>1. row.obj # None
        BY <2>2 DEF Approves, About
      <3>2. Last(row.wf) \in 0..Last(row.wf)
        BY <1>2, WalkTrace
      <3> HIDE DEF done, new
      <3>3. done = Walk(db, row.wf, row.obj, row.payload)[Last(row.wf)]
        BY <1>1, <1>2, DecisionWalks
      <3>4. Placed(done, row.wf, row.obj)
        BY <1>1, <1>2, <3>2, <3>3, WalkPlaced
      <3> QED
        BY <1>3, <2>2, <3>1, <3>4 DEF Placed, DecidedOn
    <2> QED
      BY <2>1, <2>2
  <1> HIDE DEF new
  <1>7. Justified(new)
    BY <1>3, <1>5, <1>6 DEF Justified
  <1> QED
    BY <1>1, <1>7

\* For every pack, an approval is justified in the state it is taken in: no
\* condition that rejects fails there, and none at all when policy decided alone
\* (evaluateConditions, decide).
THEOREM ConditionsAreMet == Spec => ConditionsMet
  <1>1. RegInv /\ AboutInv /\ [Next]_vars =>
            [\A t \in Tasks :
                tasks'[t] # tasks[t] /\ tasks'[t] # None /\ tasks'[t].state = "approved" =>
                    LET row == tasks'[t]  ks == Wf[row.wf].conditions
                    IN  \A i \in DOMAIN ks :
                            ks[i].on_fail = "reject" \/ row.decidedBy = PolicySub
                                => ConditionHolds(db, ks[i], DecidedOn(row), row.payload)]_vars
    <2> SUFFICES ASSUME RegInv, AboutInv, [Next]_vars, NEW t \in Tasks,
                        tasks'[t] # tasks[t], tasks'[t] # None, tasks'[t].state = "approved"
                 PROVE  Justified(tasks'[t])
      BY DEF Justified
    <2>1. StepKind
      BY NextKind
    <2>2. tasks \in [Tasks -> TaskRows \cup {None}]
      BY DEF RegInv, TypeOK
    <2>3. PICK u \in Tasks : \E row, k, by : Approves(u, row, k, by)
      BY <2>1, <2>2 DEF StepKind, Handles
    <2>4. PICK row, k, by : Approves(u, row, k, by)
      BY <2>3
    <2>5. PICK new : tasks' = [tasks EXCEPT ![u] = new] /\ Justified(new)
      BY <2>4, ApprovalJustified
    <2> QED
      BY <2>2, <2>5
  <1> QED
    BY <1>1, RecordInvariant, ProposalsKeepTheirRecord, PTL DEF Spec, ConditionsMet

----------------------------------------------------------------------------
(* The register implements its abstract governance.                        *)

\* A decision adds at most one version to a record.
LEMMA DecisionExtends ==
    ASSUME NEW d, d \in Dbs, NEW a, NEW W, WalkInv(d, a, W), NEW o \in Objects
    PROVE  a.db.versions[o] = d.versions[o]
           \/ Abstract!Extended(d.versions[o], a.db.versions[o])
  <1>1. d.versions[o] \in Seq(VersionRows)
    BY DEF Dbs
  <1>2. Untouched(d, a.db, o) \/ Touched(d, a.db, W, o)
    BY DEF WalkInv, Progress
  <1>3. CASE Touched(d, a.db, W, o)
    <2>1. PICK row \in VersionRows :
            a.db.versions[o] = Append(d.versions[o], row) /\ ~row.pruned
      BY <1>3 DEF Touched
    <2> DEFINE old == d.versions[o]
               new == Append(old, row)
    <2>2. Len(new) = Len(old) + 1 /\ new[Len(new)] = row
      BY <1>1
    <2>3. \A v \in DOMAIN old : new[v] = old[v]
      BY <1>1
    <2> HIDE DEF new
    <2> QED
      BY <2>1, <2>2, <2>3 DEF Abstract!Extended, new
  <1> QED
    BY <1>2, <1>3 DEF Untouched

\* A prune empties versions and removes none.
LEMMA PruneEmpties ==
    ASSUME db \in Dbs, NEW id, NEW only, Prune(id, only), NEW o \in Objects
    PROVE  Abstract!Emptied(db.versions[o], db'.versions[o])
  <1> DEFINE Row(v) == IF <<o, v>> \in Prunable(id, only)
                       THEN [db.versions[o][v] EXCEPT !.pruned = TRUE]
                       ELSE db.versions[o][v]
             old == db.versions[o]
             new == [v \in DOMAIN old |-> Row(v)]
  <1>1. db'.versions[o] = new
    BY DEF Prune, Dbs
  <1>2. old \in Seq(VersionRows)
    BY DEF Dbs
  <1> HIDE DEF Row
  <1>3. Len(old) \in Nat /\ DOMAIN old = 1..Len(old)
    BY <1>2
  <1>4. Len(new) = Len(old)
    BY <1>3
  <1>5. \A v \in DOMAIN old : new[v] = old[v] \/ new[v] = [old[v] EXCEPT !.pruned = TRUE]
    BY DEF Row
  <1> HIDE DEF old, new
  <1> QED
    BY <1>1, <1>4, <1>5 DEF Abstract!Emptied, old

Phases == [t \in Tasks |-> Phase(tasks[t])]
PhaseSet(t, how) == Phases' = [Phases EXCEPT ![t] = how]

LEMMA PhaseMoves ==
    ASSUME tasks \in [Tasks -> TaskRows \cup {None}], NEW t \in Tasks, NEW row,
           tasks' = [tasks EXCEPT ![t] = row]
    PROVE  PhaseSet(t, Phase(row))
  <1>1. \A u \in Tasks : tasks'[u] = IF u = t THEN row ELSE tasks[u]
    OBVIOUS
  <1> QED
    BY <1>1 DEF PhaseSet, Phases

LEMMA GovernedStep ==
    ASSUME RegInv, StepKind
    PROVE  [Abstract!Next]_<<Phases, db.versions>>
  <1>1. tasks \in [Tasks -> TaskRows \cup {None}] /\ db \in Dbs
    BY DEF RegInv, TypeOK
  <1>2. ASSUME NEW t \in Tasks, ~Ended(tasks[t])
        PROVE  /\ tasks[t] = None => Phase(tasks[t]) = "none"
               /\ tasks[t] # None => Phase(tasks[t]) = "open"
    BY <1>1, <1>2 DEF Ended, Phase, TaskRows
  <1>3. ASSUME NEW t \in Tasks, NEW row, NEW k, NEW by, Approves(t, row, k, by)
        PROVE  Abstract!Approve(t)
    <2>1. PhaseSet(t, "approved")
      <3> DEFINE done == DecideResult(row.wf, row.obj, row.payload, by)
                 new  == [row EXCEPT !.state = "approved", !.obj = done.obj, !.decidedBy = by]
      <3>1. tasks' = [tasks EXCEPT ![t] = new] /\ row \in TaskRows
        BY <1>3 DEF Approves, ApproveTask
      <3>2. new.state = "approved" /\ new # None
        <4>1. DOMAIN new = TaskFields /\ new.state = "approved"
          BY <3>1 DEF TaskRows, TaskFields
        <4>2. done.obj \in Objects \cup {None}
          BY <1>3, ApprovalDecides DEF Decides, WalkInv, Accs
        <4> HIDE DEF done
        <4>3. new \in TaskRows
          BY <1>3, <4>2 DEF Approves, TaskRows, TerminalStates, PolicySub
        <4> QED
          BY <4>1, <4>3, RowsAreRows
      <3> HIDE DEF new
      <3>3. Phase(new) = "approved"
        BY <3>2 DEF Phase, OpenStates
      <3> QED
        BY <1>1, <3>1, <3>3, PhaseMoves
    <2>2. Phases[t] \in {"none", "open"}
      BY <1>2, <1>3 DEF Approves, Phases
    <2>3. PICK done, W : WalkInv(db, done, W) /\ db' = done.db
      BY <1>3, ApprovalDecides DEF Decides
    <2>4. \A o \in Objects : db'.versions[o] = db.versions[o]
                             \/ Abstract!Extended(db.versions[o], db'.versions[o])
      BY <1>1, <2>3, DecisionExtends
    <2> QED
      BY <2>1, <2>2, <2>4 DEF Abstract!Approve, Abstract!Undecided, Phases, PhaseSet
  <1>4. ASSUME NEW t \in Tasks, NEW row, Handles(t, row), db' = db
        PROVE  [Abstract!Next]_<<Phases, db.versions>>
    <2>1. PhaseSet(t, Phase(row)) /\ row # None
      BY <1>1, <1>4, PhaseMoves, RowsAreRows DEF Handles
    <2>2. CASE tasks[t] = None
      <3>1. Phases[t] = "none" /\ Phase(row) = "open"
        BY <1>4, <2>1, <2>2 DEF Handles, Phase, Phases
      <3>2. Abstract!Propose(t)
        BY <1>4, <2>1, <3>1 DEF Abstract!Propose, PhaseSet, Phases
      <3> QED
        BY <3>2 DEF Abstract!Next
    <2>3. CASE tasks[t] # None /\ row.state \in OpenStates
      <3>1. Phases[t] = "open" /\ Phase(row) = "open"
        BY <1>2, <1>4, <2>1, <2>3 DEF Handles, Phase, Phases
      <3>2. Phases' = Phases
        BY <2>1, <3>1 DEF PhaseSet, Phases
      <3> QED
        BY <1>4, <3>2
    <2>4. CASE tasks[t] # None /\ row.state \notin OpenStates
      <3>1. Phases[t] = "open" /\ Phase(row) \in {"rejected", "withdrawn"}
        BY <1>2, <1>4, <2>1, <2>4 DEF Handles, Phase, Phases, TaskRows, TerminalStates
      <3>2. Abstract!Refuse(t, Phase(row))
        BY <1>4, <2>1, <3>1 DEF Abstract!Refuse, PhaseSet, Phases
      <3> QED
        BY <3>1, <3>2 DEF Abstract!Next
    <2> QED
      BY <2>2, <2>3, <2>4
  <1>5. ASSUME tasks' = tasks, db' = db
        PROVE  [Abstract!Next]_<<Phases, db.versions>>
    BY <1>5 DEF Phases
  <1>6. ASSUME NEW id, NEW only, Prune(id, only), tasks' = tasks
        PROVE  Abstract!Next
    <2>1. \A o \in Objects : Abstract!Emptied(db.versions[o], db'.versions[o])
      BY <1>1, <1>6, PruneEmpties
    <2> QED
      BY <1>6, <2>1 DEF Abstract!Next, Abstract!Retain
  <1>7. ASSUME NEW id, NEW o \in Objects, Erase(id, o), tasks' = tasks
        PROVE  [Abstract!Next]_<<Phases, db.versions>>
    <2>1. db'.versions = db.versions
      BY <1>1, <1>7 DEF Erase, Dbs
    <2> QED
      BY <1>7, <2>1 DEF Phases
  <1>8. CASE \E t \in Tasks : \E row, k, by : Approves(t, row, k, by)
    BY <1>3, <1>8 DEF Abstract!Next
  <1> QED
    BY <1>4, <1>5, <1>6, <1>7, <1>8 DEF StepKind

\* For every pack, records change only by approvals, each proposal is taken up
\* once, and retention removes no version: the register implements Governance
\* (decide, effectOps, Withdraw, Prune).
THEOREM RegisterIsGoverned == Spec => Governed
  <1>1. Init => Abstract!Init
    BY DEF Init, Abstract!Init, Phase
  <1>2. RegInv /\ AboutInv /\ [Next]_vars =>
            [Abstract!Next]_<<[t \in Tasks |-> Phase(tasks[t])], db.versions>>
    BY NextKind, GovernedStep DEF Phases
  <1> QED
    BY <1>1, <1>2, RecordInvariant, ProposalsKeepTheirRecord, PTL
    DEF Spec, Governed, Abstract!Spec

----------------------------------------------------------------------------
(* References.                                                             *)

\* Every identifier carries its class, and every reference resolves.
Classed(d) ==
    \A o \in Objects : Registered(d, o) => d.objects[o].class = ClassOf[o]
Resolves(d, c, r) == r # None => Registered(d, r) /\ d.objects[r].class = Class[c].ref
Resolved(d) ==
    \A o \in Objects : \A v \in DOMAIN d.versions[o] :
        Resolves(d, d.objects[o].class, d.versions[o][v].ref)

\* A write, read back: object `o` of class `c` has a version more, with `status`
\* and the reference of `p`; it was there, or its identifier was new.
Reads(d, acc, new, c, o, status, p) ==
    /\ o \in Objects /\ c \in Classes
    /\ new.db.objects[o].class = c /\ new.db.objects[o].status = status
    /\ \E row \in VersionRows : row.ref = p.ref /\ Appended(d, new.db, o, row)
    /\ \A u \in Objects \ {o} : /\ new.db.objects[u] = acc.db.objects[u]
                                /\ new.db.versions[u] = acc.db.versions[u]
    /\ ReferencesHold(d, acc.pending, c, p)
    /\ \/ /\ Registered(d, o) /\ d.objects[o].class = c
          /\ new.pending = acc.pending
       \/ /\ ~Registered(d, o) /\ o \notin acc.pending /\ ~Registered(acc.db, o)
          /\ new.pending = acc.pending \cup {o}

LEMMA WroteReads ==
    ASSUME NEW d, NEW acc, NEW W, NEW new, NEW c, NEW o, NEW status, NEW p,
           Wrote(d, acc, W, new, c, o, status, p)
    PROVE  /\ Reads(d, acc, new, c, o, status, p)
           /\ Progress(d, new.db, new.pending, new.opened, W \cup {c})
  <1>1. PICK v, pending :
          /\ Writes(d, acc, W, c, o, v, status, p, pending)
          /\ new.db = BuildRecord(d, acc, c, o, v, status, p).db
          /\ new.opened = BuildRecord(d, acc, c, o, v, status, p).opened
          /\ new.pending = pending
    BY DEF Wrote
  <1>2. /\ Appended(d, new.db, o, NewRow(d, c, o, v, status, p))
        /\ Progress(d, new.db, new.pending, new.opened, W \cup {c})
    BY <1>1, WriteKeeps
  <1>3. /\ new.db.objects[o] = NewHead(c, o, v, status, p)
        /\ \A u \in Objects \ {o} : /\ new.db.objects[u] = acc.db.objects[u]
                                    /\ new.db.versions[u] = acc.db.versions[u]
    BY <1>1, WrittenTables
  <1>4. /\ NewRow(d, c, o, v, status, p).ref = p.ref
        /\ NewHead(c, o, v, status, p).class = c
        /\ NewHead(c, o, v, status, p).status = status
    BY DEF NewRow, NewHead
  <1>5. NewRow(d, c, o, v, status, p) \in VersionRows
    <2>1. /\ d \in Dbs /\ o \in Objects /\ c \in Classes /\ v \in Nat \ {0}
          /\ p \in Payloads /\ status \in STRING /\ now \in Nat
      BY <1>1 DEF Writes, DbInv
    <2>2. DekScope(c, o) \in RecordScopes \cup {None} /\ EnsureDEK(d, DekScope(c, o), o, v) \in Deks
      BY <2>1, ScopeType, DekType
    <2> QED
      BY <2>1, <2>2 DEF NewRow, VersionRows, Payloads, Deks
  <1>6. /\ ReferencesHold(d, acc.pending, c, p) /\ o \in Objects /\ c \in Classes
        /\ Targets(d, acc, c, o, v, pending)
        /\ Progress(d, acc.db, acc.pending, acc.opened, W)
    BY <1>1 DEF Writes, CanBuild
  <1>7. ~Registered(d, o) => ~Registered(acc.db, o)
    BY <1>6 DEF Targets, Progress, Untouched, Touched, Registered
  <1> QED
    BY <1>1, <1>2, <1>3, <1>4, <1>5, <1>6, <1>7 DEF Reads, Targets

\* What an effect that succeeded did, read back.
LEMMA EffectReads ==
    ASSUME NEW d, NEW acc, NEW new, NEW w, NEW payload, NEW i,
           Effected(d, acc, new, w, payload, i), new.res = "ok"
    PROVE  LET e == Wf[w].effects[i] IN
           \/ Idle(acc, new) /\ Skips(d, acc, w, payload, e)
           \/ Reads(d, acc, new, Written(w, e), Target(d, acc, w, payload, e),
                    Moved(d, acc, w, payload, e), Carried(d, acc, w, payload, e))
  BY WroteReads DEF Effected, EffectDone, Shape

\* The store under a walk: what it had stays, and what is pending is new.
Grows(d, acc) ==
    /\ Persist(d, acc.db)
    /\ \A o \in Objects : Registered(acc.db, o) => Registered(d, o) \/ o \in acc.pending
    /\ \A o \in acc.pending : o \in Objects /\ ~Registered(d, o) /\ Registered(acc.db, o)

LEMMA WalkGrows ==
    ASSUME NEW d, NEW acc, NEW W, acc \in Accs, Progress(d, acc.db, acc.pending, acc.opened, W),
           \A o \in acc.pending : ~Registered(d, o)
    PROVE  Grows(d, acc)
  <1>1. acc.pending \subseteq Objects
    BY DEF Accs
  <1>2. \A o \in Objects :
            \/ Untouched(d, acc.db, o) /\ o \notin acc.pending
            \/ Touched(d, acc.db, W, o) /\ (Registered(d, o) \/ o \in acc.pending)
    BY DEF Progress
  <1>3. Persist(d, acc.db)
    BY <1>2 DEF Persist, Untouched, Touched, Registered
  <1>4. \A o \in Objects : Registered(acc.db, o) => Registered(d, o) \/ o \in acc.pending
    BY <1>2 DEF Untouched, Registered
  <1>5. \A o \in acc.pending : o \in Objects /\ ~Registered(d, o) /\ Registered(acc.db, o)
    BY <1>1, <1>2 DEF Touched
  <1> QED
    BY <1>3, <1>4, <1>5 DEF Grows

\* The versions of a written record, and of every other.
LEMMA ReadVersions ==
    ASSUME NEW d \in Dbs, NEW acc, NEW new, NEW c, NEW o, NEW status, NEW p,
           Reads(d, acc, new, c, o, status, p)
    PROVE  /\ HeadVersion(new.db, o).ref = p.ref
           /\ \A v \in DOMAIN new.db.versions[o] :
                \/ v \in DOMAIN d.versions[o] /\ new.db.versions[o][v] = d.versions[o][v]
                \/ new.db.versions[o][v].ref = p.ref
           /\ \A u \in Objects \ {o} :
                /\ new.db.objects[u] = acc.db.objects[u]
                /\ new.db.versions[u] = acc.db.versions[u]
                /\ HeadVersion(new.db, u) = HeadVersion(acc.db, u)
  <1>1. PICK row \in VersionRows :
          row.ref = p.ref /\ new.db.versions[o] = Append(d.versions[o], row)
    BY DEF Reads, Appended
  <1>2. d.versions[o] \in Seq(VersionRows)
    BY DEF Reads, Dbs
  <1> DEFINE old == d.versions[o]
             all == Append(old, row)
  <1>3. /\ Len(all) = Len(old) + 1 /\ all[Len(all)] = row
        /\ \A v \in DOMAIN all : (v \in DOMAIN old /\ all[v] = old[v]) \/ all[v] = row
    BY <1>2
  <1> HIDE DEF all
  <1>4. HeadVersion(new.db, o) = row
    BY <1>1, <1>3 DEF HeadVersion, all
  <1> QED
    BY <1>1, <1>3, <1>4 DEF Reads, HeadVersion, all

\* What the effects of a decision rely on, and keep.
Base(d, acc, w, obj) ==
    /\ Grows(d, acc)
    /\ Placed(acc, w, obj)
    /\ Classed(acc.db)
    /\ Resolved(acc.db)

LEMMA ReadsResolve ==
    ASSUME NEW d, NEW acc, NEW new, NEW c, NEW o, NEW status, NEW p,
           DbInv(d), Classed(d), Resolved(d), Grows(d, acc), Classed(acc.db), Resolved(acc.db),
           Reads(d, acc, new, c, o, status, p), p \in Payloads, Grows(d, new),
           acc.db \in Dbs, new.db \in Dbs
    PROVE  Resolved(new.db)
  <1> SUFFICES ASSUME NEW u \in Objects, NEW v \in DOMAIN new.db.versions[u],
                      new.db.versions[u][v].ref # None
               PROVE  LET r == new.db.versions[u][v].ref IN
                      /\ Registered(new.db, r)
                      /\ new.db.objects[r].class = Class[new.db.objects[u].class].ref
    BY DEF Resolved, Resolves
  <1> DEFINE r == new.db.versions[u][v].ref
  <1>1. /\ d \in Dbs /\ o \in Objects
        /\ new.db.versions[u] \in Seq(VersionRows)
    BY DEF DbInv, Dbs, Reads
  <1>2. new.db.versions[u][v] \in VersionRows
    BY <1>1
  <1>3. r \in Objects
    BY <1>2 DEF VersionRows
  <1>4. ASSUME Registered(acc.db, r)
        PROVE  Registered(new.db, r) /\ new.db.objects[r].class = acc.db.objects[r].class
    <2>1. CASE r # o
      BY <1>3, <1>4, <2>1 DEF Reads, Registered
    <2>2. CASE r = o
      BY <1>3, <1>4, <2>2 DEF Reads, Grows, Persist
    <2> QED
      BY <2>1, <2>2
  <1>5. CASE u # o
    <2>1. /\ new.db.versions[u] = acc.db.versions[u]
          /\ new.db.objects[u] = acc.db.objects[u]
      BY <1>5 DEF Reads
    <2>2. Registered(acc.db, r) /\ acc.db.objects[r].class = Class[acc.db.objects[u].class].ref
      BY <2>1 DEF Resolved, Resolves
    <2> QED
      BY <1>4, <2>1, <2>2
  <1>6. CASE u = o /\ v \in DOMAIN d.versions[o] /\ new.db.versions[o][v] = d.versions[o][v]
    <2>1. Registered(d, o)
      BY <1>1, <1>6 DEF DbInv, Heads
    <2>2. d.objects[o].class = c /\ new.db.objects[o].class = c
      BY <2>1 DEF Reads
    <2>3. Registered(d, r) /\ d.objects[r].class = Class[c].ref
      BY <1>1, <1>6, <2>2 DEF Resolved, Resolves
    <2> QED
      BY <1>3, <1>6, <2>2, <2>3 DEF Grows, Persist
  <1>7. CASE u = o /\ r = p.ref
    <2>1. new.db.objects[o].class = c
      BY DEF Reads
    <2>2. \/ r \in acc.pending /\ ClassOf[r] = Class[c].ref
          \/ Registered(d, r) /\ d.objects[r].class = Class[c].ref
      BY <1>7 DEF Reads, ReferencesHold
    <2>3. CASE r \in acc.pending /\ ClassOf[r] = Class[c].ref
      <3>1. Registered(acc.db, r) /\ acc.db.objects[r].class = Class[c].ref
        BY <1>3, <2>3 DEF Grows, Classed
      <3> QED
        BY <1>4, <1>7, <2>1, <3>1
    <2>4. CASE Registered(d, r) /\ d.objects[r].class = Class[c].ref
      BY <1>3, <1>7, <2>1, <2>4 DEF Grows, Persist
    <2> QED
      BY <2>2, <2>3, <2>4
  <1>8. \A x \in DOMAIN new.db.versions[o] :
            \/ x \in DOMAIN d.versions[o] /\ new.db.versions[o][x] = d.versions[o][x]
            \/ new.db.versions[o][x].ref = p.ref
    BY <1>1, ReadVersions
  <1> QED
    BY <1>5, <1>6, <1>7, <1>8

LEMMA BaseStep ==
    ASSUME NEW d, NEW acc, NEW new, NEW w \in Workflows, NEW obj, NEW payload \in Payloads,
           NEW i \in Effects(w), NEW W,
           Effected(d, acc, new, w, payload, i), new.res = "ok", Base(d, acc, w, obj),
           WalkInv(d, new, W), DbInv(d), Classed(d), Resolved(d)
    PROVE  Base(d, new, w, obj)
  <1> DEFINE e == Wf[w].effects[i]
             c == Written(w, e)
             o == Target(d, acc, w, payload, e)
             status == Moved(d, acc, w, payload, e)
             p == Carried(d, acc, w, payload, e)
  <1>1. Placed(new, w, obj)
    BY PlacedStep DEF Base
  <1>2. CASE Idle(acc, new)
    BY <1>1, <1>2 DEF Base, Idle, Grows
  <1>3. CASE ~Idle(acc, new)
    <2>1. Aimed(d, acc, new, w, payload, e) /\ Reads(d, acc, new, c, o, status, p)
      BY <1>3, EffectReads DEF Effected
    <2>2. p \in Payloads
      BY <1>3 DEF Effected, EffectDone, Shape, Wrote, Writes
    <2>3. acc \in Accs /\ new \in Accs /\ acc.db \in Dbs /\ new.db \in Dbs
      BY DEF Effected, Ready, WalkInv, Accs
    <2> HIDE DEF e, c, o, status, p
    <2>4. ASSUME ~Registered(d, o) PROVE ClassOf[o] = c
      BY <1>3, <2>1, <2>4 DEF Aimed, Unused, o, c
    <2>5. \A u \in new.pending : ~Registered(d, u)
      BY <2>1 DEF Reads, Base, Grows
    <2>6. Grows(d, new)
      BY <2>3, <2>5, WalkGrows DEF WalkInv
    <2>7. Classed(new.db)
      <3> SUFFICES ASSUME NEW u \in Objects, Registered(new.db, u)
                   PROVE  new.db.objects[u].class = ClassOf[u]
        BY DEF Classed
      <3>1. CASE u = o
        BY <2>1, <2>4, <3>1 DEF Reads, Classed
      <3>2. CASE u # o
        BY <2>1, <3>2 DEF Reads, Base, Classed, Registered
      <3> QED
        BY <3>1, <3>2
    <2>8. Resolved(new.db)
      BY <2>1, <2>2, <2>3, <2>6, ReadsResolve DEF Base
    <2> QED
      BY <1>1, <2>6, <2>7, <2>8 DEF Base
  <1> QED
    BY <1>2, <1>3

LEMMA WalkBase ==
    ASSUME NEW d, DbInv(d), now \in Nat, Classed(d), Resolved(d), NEW w \in Workflows,
           NEW obj \in Objects \cup {None}, NEW payload \in Payloads,
           NEW n \in 0..Last(w), Walk(d, w, obj, payload)[n].res = "ok"
    PROVE  Base(d, Walk(d, w, obj, payload)[n], w, obj)
  <1> DEFINE g == Walk(d, w, obj, payload)
             Good == {i \in 0..n : g[i].res = "ok" => Base(d, g[i], w, obj)}
  <1>1. /\ Last(w) \in Nat /\ Effects(w) = 1..Last(w)
        /\ g[0] = NoWrites(d, obj)
        /\ \A i \in 0..Last(w) : WalkInv(d, g[i], WrittenBy(w, i))
        /\ \A i \in 1..Last(w) : g[i].res = "ok" =>
             g[i - 1].res = "ok" /\ Effected(d, g[i - 1], g[i], w, payload, i)
    BY WalkTrace
  <1> HIDE DEF g
  <1>2. 0 \in Good
    BY <1>1 DEF Placed, NoWrites, Base, Grows, Persist
  <1>3. ASSUME NEW i \in 1..n, i - 1 \in Good PROVE i \in Good
    <2> SUFFICES ASSUME g[i].res = "ok" PROVE Base(d, g[i], w, obj)
      BY <1>1
    <2>1. i \in 1..Last(w) /\ i \in Effects(w) /\ i \in 0..Last(w)
      BY <1>1
    <2>2. g[i - 1].res = "ok" /\ Effected(d, g[i - 1], g[i], w, payload, i)
      BY <1>1, <2>1
    <2>3. Base(d, g[i - 1], w, obj)
      BY <1>3, <2>2
    <2> QED
      BY <1>1, <2>1, <2>2, <2>3, BaseStep
  <1>4. n \in Good
    <2>1. n \in Nat
      BY <1>1
    <2> HIDE DEF Good
    <2> QED
      BY <1>2, <1>3, <2>1, WalkInduction
  <1> QED
    BY <1>4 DEF g

\* Retention leaves classes, statuses and references as they are.
Alike(d, x) ==
    \A o \in Objects :
        /\ Registered(x, o) <=> Registered(d, o)
        /\ x.objects[o].class = d.objects[o].class
        /\ x.objects[o].status = d.objects[o].status
        /\ Len(x.versions[o]) = Len(d.versions[o])
        /\ DOMAIN x.versions[o] = DOMAIN d.versions[o]
        /\ \A v \in DOMAIN d.versions[o] : x.versions[o][v].ref = d.versions[o][v].ref

LEMMA PruneAlike ==
    ASSUME RegInv, NEW id, NEW only, Prune(id, only)
    PROVE  Alike(db, db')
  <1>1. db \in Dbs
    BY DEF RegInv, TypeOK
  <1>2. db'.objects = db.objects
    BY <1>1 DEF Prune, Dbs
  <1> SUFFICES ASSUME NEW o \in Objects
               PROVE  /\ Len(db'.versions[o]) = Len(db.versions[o])
                      /\ DOMAIN db'.versions[o] = DOMAIN db.versions[o]
                      /\ \A v \in DOMAIN db.versions[o] :
                            db'.versions[o][v].ref = db.versions[o][v].ref
    BY <1>2 DEF Alike, Registered
  <1> DEFINE Row(v) == IF <<o, v>> \in Prunable(id, only)
                       THEN [db.versions[o][v] EXCEPT !.pruned = TRUE]
                       ELSE db.versions[o][v]
             old == db.versions[o]
             new == [v \in DOMAIN old |-> Row(v)]
  <1>3. db'.versions[o] = new
    BY <1>1 DEF Prune, Dbs
  <1>4. old \in Seq(VersionRows)
    BY <1>1 DEF Dbs
  <1>5. Len(old) \in Nat /\ DOMAIN old = 1..Len(old) /\ \A v \in DOMAIN old : old[v] \in VersionRows
    BY <1>4
  <1>6. ASSUME NEW v \in DOMAIN old PROVE Row(v).ref = old[v].ref
    BY <1>5 DEF VersionRows
  <1> HIDE DEF Row
  <1>7. Len(new) = Len(old)
    BY <1>5
  <1> HIDE DEF old
  <1> QED
    BY <1>3, <1>6, <1>7 DEF old

LEMMA EraseAlike ==
    ASSUME RegInv, NEW id, NEW o \in Objects, Erase(id, o)
    PROVE  Alike(db, db')
  <1>1. /\ db \in Dbs
        /\ db.objects \in [Objects -> ObjectRows \cup {None}] /\ db.objects[o] # None
    BY DEF RegInv, TypeOK, Dbs, Erase, Registered
  <1>2. /\ db'.objects = [db.objects EXCEPT ![o] = [db.objects[o] EXCEPT !.erased = TRUE]]
        /\ db'.versions = db.versions
    BY <1>1 DEF Erase, Dbs
  <1>3. /\ [db.objects[o] EXCEPT !.erased = TRUE] \in ObjectRows
        /\ [db.objects[o] EXCEPT !.erased = TRUE].class = db.objects[o].class
        /\ [db.objects[o] EXCEPT !.erased = TRUE].status = db.objects[o].status
    BY <1>1 DEF ObjectRows
  <1> QED
    BY <1>1, <1>2, <1>3, NoneIsNothing DEF Alike, Registered

LEMMA AlikeResolved ==
    ASSUME NEW d \in Dbs, NEW x, Alike(d, x), Classed(d), Resolved(d)
    PROVE  Classed(x) /\ Resolved(x)
  <1>1. Classed(x)
    BY DEF Alike, Classed
  <1>2. ASSUME NEW o \in Objects, NEW v \in DOMAIN x.versions[o], x.versions[o][v].ref # None
        PROVE  LET r == x.versions[o][v].ref IN
               Registered(x, r) /\ x.objects[r].class = Class[x.objects[o].class].ref
    <2>1. v \in DOMAIN d.versions[o] /\ x.versions[o][v].ref = d.versions[o][v].ref
      BY <1>2 DEF Alike
    <2>2. d.versions[o] \in Seq(VersionRows)
      BY DEF Dbs
    <2>3. d.versions[o][v] \in VersionRows
      BY <2>1, <2>2
    <2>4. d.versions[o][v].ref \in Objects
      BY <1>2, <2>1, <2>3 DEF VersionRows
    <2> QED
      BY <1>2, <2>1, <2>4 DEF Alike, Resolved, Resolves
  <1> QED
    BY <1>1, <1>2 DEF Resolved, Resolves

\* A step either approves, or leaves the record tables alike.
Approval(row, done) ==
    /\ row.wf \in Workflows /\ row.obj \in Objects \cup {None} /\ row.payload \in Payloads
    /\ About(db, row)
    /\ done = Walk(db, row.wf, row.obj, row.payload)[Last(row.wf)]
    /\ done.res = "ok" /\ db' = done.db
    /\ \A i \in DOMAIN Wf[row.wf].conditions :
        Wf[row.wf].conditions[i].on_fail = "reject"
            => ConditionHolds(db, Wf[row.wf].conditions[i], row.obj, row.payload)

LEMMA StepApproves ==
    ASSUME RegInv, AboutInv, [Next]_vars
    PROVE  Alike(db, db') \/ \E row, done : Approval(row, done)
  <1>1. StepKind
    BY NextKind
  <1>2. ASSUME NEW t \in Tasks, NEW row, NEW k, NEW by, Approves(t, row, k, by)
        PROVE  \E done : Approval(row, done)
    <2> DEFINE done == DecideResult(row.wf, row.obj, row.payload, by)
               ks == Wf[row.wf].conditions
               failing == {i \in DOMAIN ks : ~ConditionHolds(db, ks[i], row.obj, row.payload)}
               ev == EvaluateConditions(db, row.wf, row.obj, row.payload)
    <2>1. /\ row.wf \in Workflows /\ row.obj \in Objects \cup {None} /\ row.payload \in Payloads
          /\ done = EffectOps(db, row.wf, row.obj, row.payload)
          /\ done.res = "ok" /\ db' = done.db /\ DbInv(db) /\ now \in Nat
      BY <1>2, ApprovalDecides DEF Decides, RegInv, TypeOK
    <2>2. ~ev.reject
      BY <2>1 DEF DecideResult
    <2>3. {i \in failing : ks[i].on_fail = "reject"} = {}
      BY <2>2 DEF EvaluateConditions
    <2> HIDE DEF done
    <2>4. done = Walk(db, row.wf, row.obj, row.payload)[Last(row.wf)]
      BY <2>1, DecisionWalks
    <2>5. About(db, row)
      BY <1>2 DEF Approves
    <2> QED
      BY <2>1, <2>3, <2>4, <2>5 DEF Approval
  <1>3. ASSUME db' = db PROVE Alike(db, db')
    BY <1>3 DEF Alike
  <1> QED
    BY <1>1, <1>2, <1>3, PruneAlike, EraseAlike DEF StepKind

LEMMA ApprovalBase ==
    ASSUME RegInv, Classed(db), Resolved(db), NEW row, NEW done, Approval(row, done)
    PROVE  Base(db, done, row.wf, row.obj)
  <1>1. DbInv(db) /\ now \in Nat
    BY DEF RegInv, TypeOK
  <1>2. Last(row.wf) \in 0..Last(row.wf)
    BY <1>1, WalkTrace DEF Approval
  <1> QED
    BY <1>1, <1>2, WalkBase DEF Approval

\* The seeded store.
LEMMA SeedTables ==
    ASSUME NEW o \in Objects
    PROVE  /\ Registered(SeedDb, o) <=> Seed[o] # None
           /\ Seed[o] # None => /\ SeedDb.objects[o].class = ClassOf[o]
                                /\ SeedDb.objects[o].status = Class[ClassOf[o]].initial
                                /\ DOMAIN SeedDb.versions[o] = {1}
                                /\ SeedDb.versions[o][1].ref = Seed[o].ref
                                /\ HeadVersion(SeedDb, o).ref = Seed[o].ref
           /\ Seed[o] = None => SeedDb.versions[o] = <<>>
  <1>1. SeedDb \in Dbs
    BY SeedIsSound DEF DbInv
  <1>2. CASE Seed[o] = None
    BY <1>2 DEF SeedDb, Registered
  <1>3. CASE Seed[o] # None
    <2>1. /\ SeedDb.objects[o].class = ClassOf[o]
          /\ SeedDb.objects[o].status = Class[ClassOf[o]].initial
      BY <1>3 DEF SeedDb
    <2> DEFINE under(s) == {u \in Objects : Seed[u] # None /\ DekScope(ClassOf[u], u) = s}
               dek(s)   == IF s = None \/ under(s) = {} THEN NoDek
                           ELSE [state |-> "live", id |-> <<CHOOSE u \in under(s) : TRUE, 1>>]
               row      == [key |-> Seed[o].key, ref |-> Seed[o].ref,
                            status |-> Class[ClassOf[o]].initial,
                            scope |-> DekScope(ClassOf[o], o),
                            dek |-> dek(DekScope(ClassOf[o], o)).id,
                            created |-> 0, pruned |-> FALSE]
    <2>2. SeedDb.versions[o] = <<row>> /\ row.ref = Seed[o].ref
      BY <1>3 DEF SeedDb
    <2> HIDE DEF row
    <2>3. Registered(SeedDb, o)
      <3>1. DbInv(SeedDb)
        BY SeedIsSound
      <3>2. ~Registered(SeedDb, o) => SeedDb.versions[o] = <<>>
        BY <3>1 DEF DbInv, Heads
      <3> QED
        BY <2>2, <3>2
    <2> QED
      BY <1>3, <2>1, <2>2, <2>3 DEF HeadVersion
  <1> QED
    BY <1>2, <1>3

RefInv == Classed(db) /\ Resolved(db)
LEMMA InitRefInv == Init => RefInv
  <1> SUFFICES ASSUME db = SeedDb PROVE RefInv
    BY DEF Init
  <1>1. Classed(db)
    BY SeedTables DEF Classed
  <1>2. ASSUME NEW o \in Objects, NEW v \in DOMAIN db.versions[o], db.versions[o][v].ref # None
        PROVE  LET r == db.versions[o][v].ref IN
               Registered(db, r) /\ db.objects[r].class = Class[db.objects[o].class].ref
    <2>1. Seed[o] # None
      BY <1>2, SeedTables
    <2>2. db.versions[o][v].ref = Seed[o].ref /\ db.objects[o].class = ClassOf[o]
      BY <2>1, SeedTables
    <2>3. Seed[o] \in Payloads
      BY <2>1, SeedIsLegal
    <2>4. Seed[o].ref \in Objects
      BY <1>2, <2>2, <2>3 DEF Payloads
    <2>5. Seed[Seed[o].ref] # None /\ ClassOf[Seed[o].ref] = Class[ClassOf[o]].ref
      BY <1>2, <2>1, <2>2, SeedIsLegal
    <2> QED
      BY <2>2, <2>4, <2>5, SeedTables
  <1> QED
    BY <1>1, <1>2 DEF RefInv, Resolved, Resolves

\* Identifiers keep the class they were minted for, and every reference of every
\* version resolves (NewObjectID, checkReferences).
THEOREM ReferenceInvariant == Spec => []RefInv
  <1>1. RegInv /\ AboutInv /\ RefInv /\ [Next]_vars => RefInv'
    <2> SUFFICES ASSUME RegInv, AboutInv, RefInv, [Next]_vars PROVE Classed(db') /\ Resolved(db')
      BY DEF RefInv, Classed, Resolved, Resolves, Registered
    <2>1. CASE Alike(db, db')
      BY <2>1, AlikeResolved DEF RefInv, RegInv, TypeOK
    <2>2. ASSUME NEW row, NEW done, Approval(row, done) PROVE Classed(db') /\ Resolved(db')
      BY <2>2, ApprovalBase DEF RefInv, Base, Approval
    <2> QED
      BY <2>1, <2>2, StepApproves
  <1> QED
    BY <1>1, InitRefInv, RecordInvariant, ProposalsKeepTheirRecord, PTL DEF Spec

\* For every pack, no version of any record refers to something that is not
\* registered or is of another class than its schema says (checkReferences).
THEOREM ReferencesAlwaysResolve == Spec => []ReferencesResolve
  <1>1. RefInv => ReferencesResolve
    BY DEF RefInv, Resolved, Resolves, ReferencesResolve
  <1> QED
    BY <1>1, ReferenceInvariant, PTL

----------------------------------------------------------------------------
(* Links.                                                                  *)

\* A link in force, and what it points at.
Live(d, a, l, m) == Registered(d, a) /\ d.objects[a].class = l /\ d.objects[a].status = m
RefOf(d, a) == HeadVersion(d, a).ref

LEMMA LinkedMeans ==
    ASSUME NEW d, NEW l, NEW o, NEW m, NEW a \in Objects
    PROVE  a \in Linked(d, l, o, m) <=> Live(d, a, l, m) /\ RefOf(d, a) = o
  BY DEF Linked, Live, RefOf

Opening(d, acc, w, payload, e, l, m) ==
    /\ e.type \in {"create_object", "open_link"}
    /\ e.class = l /\ NewStatus(l, e.status) = m /\ Creates(w, e)
    /\ Carried(d, acc, w, payload, e).ref = IF e.ref = "object" THEN acc.ctx ELSE None

\* Where a pack keeps links single, only the creation of a link puts one in force.
LEMMA OnlyOpens ==
    ASSUME NEW d, NEW acc, NEW w \in Workflows, NEW payload, NEW i \in Effects(w), NEW l, NEW m,
           ~Rewrites(w, i, l, m), Written(w, Wf[w].effects[i]) = l,
           Moved(d, acc, w, payload, Wf[w].effects[i]) = m
    PROVE  Opening(d, acc, w, payload, Wf[w].effects[i], l, m)
  <1> DEFINE e == Wf[w].effects[i]
  <1>1. ValidEffect(e) /\ Wf[w].action \in {"create", "update", "status", "correct"}
    BY PackIsValid DEF ValidWorkflow, Effects
  <1> HIDE DEF e
  <1>2. ~Rewrites(w, i, l, m) => e.type # "record"
    <2> SUFFICES ASSUME e.type = "record" PROVE Rewrites(w, i, l, m)
      OBVIOUS
    <2>1. Wf[w].class = l
      BY DEF Written, e
    <2>2. CASE Wf[w].action = "create"
      <3>1. Moved(d, acc, w, payload, e) = Class[l].initial
        BY <2>1, <2>2 DEF Moved, Declared, Creates, Written
      <3> QED
        BY <2>1, <2>2, <3>1 DEF Rewrites, e
    <2>3. CASE Wf[w].action \in {"update", "correct"}
      BY <2>1, <2>3 DEF Rewrites, e
    <2>4. CASE Wf[w].action = "status"
      <3>1. Wf[w].status # "" => Moved(d, acc, w, payload, e) = Wf[w].status
        BY <2>4 DEF Moved, Declared
      <3> QED
        BY <2>1, <2>4, <3>1 DEF Rewrites, e
    <2> QED
      BY <1>1, <2>2, <2>3, <2>4
  <1>3. ~Rewrites(w, i, l, m) => e.type \notin {"set_status", "close_link"}
    <2> SUFFICES ASSUME e.type \in {"set_status", "close_link"} PROVE Rewrites(w, i, l, m)
      OBVIOUS
    <2>1. e.class = l
      BY DEF Written, e
    <2>2. e.status # "" => Moved(d, acc, w, payload, e) = e.status
      BY DEF Moved, Declared
    <2> QED
      BY <2>1, <2>2 DEF Rewrites, e
  <1>4. e.type \in {"create_object", "open_link"}
    BY <1>1, <1>2, <1>3 DEF ValidEffect
  <1>5. e.class = l /\ Creates(w, e)
    BY <1>4 DEF Written, Creates, e
  <1>6. Moved(d, acc, w, payload, e) = NewStatus(l, e.status)
    BY <1>4, <1>5 DEF Moved, Declared, NewStatus, Written
  <1>7. Carried(d, acc, w, payload, e) = EffectPayload(acc, e, payload)
    BY <1>4 DEF Carried
  <1>8. EffectPayload(acc, e, payload).ref = IF e.ref = "object" THEN acc.ctx ELSE None
    BY DEF EffectPayload
  <1> QED
    BY <1>4, <1>5, <1>6, <1>7, <1>8 DEF Opening, e

\* Links in force after n effects: those of the store, still pointing where they
\* did, and those the walk opened to the object of the decision.
Pointed(acc, w, obj) == IF Wf[w].action = "create" THEN acc.pending \cup {None} ELSE {obj}
OldLink(d, acc, a, l, m) == Live(d, a, l, m) /\ RefOf(acc.db, a) = RefOf(d, a)
NewLink(acc, w, obj, n, a, l, m) ==
    /\ a \in acc.pending
    /\ \/ RefOf(acc.db, a) = None
       \/ /\ \E j \in 1..n : OpensLink(w, j, l, m)
          /\ RefOf(acc.db, a) \in Pointed(acc, w, obj)
Traced(d, acc, w, obj, n, l, m) ==
    \A a \in Objects : Live(acc.db, a, l, m) =>
        OldLink(d, acc, a, l, m) \/ NewLink(acc, w, obj, n, a, l, m)
\* One of the new ones at most points anywhere, and once the walk has closed a
\* link the object of the decision has lost its own.
Lone(acc, l, m) ==
    \A a, b \in acc.pending :
        /\ Live(acc.db, a, l, m) /\ RefOf(acc.db, a) # None
        /\ Live(acc.db, b, l, m) /\ RefOf(acc.db, b) # None
        => a = b
Closed(d, acc, w, obj, n, l, m) ==
    Wf[w].action # "create" /\ (\E j \in 1..n : ClosesLink(w, j, l, m)) =>
        \A a \in Linked(d, l, obj, m) : acc.db.objects[a].status # m
LinkWalk(d, acc, w, obj, n, l, m) ==
    /\ Traced(d, acc, w, obj, n, l, m)
    /\ Lone(acc, l, m)
    /\ Closed(d, acc, w, obj, n, l, m)

SingleIn(d, l, m) == \A o \in Objects : \A a, b \in Linked(d, l, o, m) : a = b

\* What a step of the walk may use.
Fits(w, obj) == (Wf[w].action = "create") = (obj = None)
LinkStepFrom(d, acc, new, w, obj, payload, n) ==
    /\ w \in Workflows /\ obj \in Objects \cup {None} /\ payload \in Payloads
    /\ n \in Effects(w) /\ Effects(w) = 1..Last(w) /\ Last(w) \in Nat
    /\ Fits(w, obj)
    /\ DbInv(d) /\ Resolved(d) /\ Base(d, acc, w, obj) /\ Base(d, new, w, obj)
    /\ Effected(d, acc, new, w, payload, n) /\ new.res = "ok"

LEMMA ContextOf ==
    ASSUME NEW d, NEW acc, NEW new, NEW w, NEW obj, NEW payload, NEW n,
           LinkStepFrom(d, acc, new, w, obj, payload, n)
    PROVE  /\ acc.ctx \in Pointed(acc, w, obj)
           /\ Wf[w].action # "create" => acc.ctx = obj /\ acc.obj = obj /\ obj \in Objects
  BY DEF LinkStepFrom, Base, Placed, Pointed, Fits

LEMMA ClosesOwn ==
    ASSUME NEW d, NEW acc, NEW new, NEW w, NEW obj, NEW payload, NEW n, NEW l, NEW m,
           LinkStepFrom(d, acc, new, w, obj, payload, n),
           Wf[w].action # "create", ClosesLink(w, n, l, m)
    PROVE  LET e == Wf[w].effects[n] IN
           /\ Closes(d, acc, e) = Linked(d, l, obj, m)
           /\ Skips(d, acc, w, payload, e) => Linked(d, l, obj, m) = {}
           /\ Linked(d, l, obj, m) # {} => Target(d, acc, w, payload, e) \in Linked(d, l, obj, m)
  <1> DEFINE e == Wf[w].effects[n]
  <1>1. e.type = "close_link" /\ e.class = l /\ e.match = m
    BY DEF ClosesLink
  <1>2. Closes(d, acc, e) = Linked(d, l, obj, m)
    BY <1>1, ContextOf DEF Closes
  <1> HIDE DEF e
  <1>3. Skips(d, acc, w, payload, e) => Linked(d, l, obj, m) = {}
    BY <1>1, <1>2 DEF Skips, NothingToClose
  <1>4. Target(d, acc, w, payload, e) = ToClose(d, acc, e)
    BY <1>1 DEF Target, Creates
  <1>5. Closes(d, acc, e) # {} => ToClose(d, acc, e) \in Closes(d, acc, e)
    BY DEF ToClose
  <1> QED
    BY <1>2, <1>3, <1>4, <1>5 DEF e

LEMMA IdleLinks ==
    ASSUME NEW d, NEW acc, NEW new, NEW w, NEW obj, NEW payload, NEW n, NEW l, NEW m,
           LinkStepFrom(d, acc, new, w, obj, payload, n),
           LinkWalk(d, acc, w, obj, n - 1, l, m),
           Idle(acc, new), Skips(d, acc, w, payload, Wf[w].effects[n])
    PROVE  LinkWalk(d, new, w, obj, n, l, m)
  <1>1. /\ new.db = acc.db /\ new.pending = acc.pending
        /\ n \in Nat /\ 1..(n - 1) \subseteq 1..n
        /\ \A j \in 1..n : j \in 1..(n - 1) \/ j = n
    BY DEF Idle, LinkStepFrom
  <1>2. Traced(d, new, w, obj, n, l, m)
    BY <1>1 DEF LinkWalk, Traced, OldLink, NewLink, Pointed
  <1>3. Lone(new, l, m)
    BY <1>1 DEF LinkWalk, Lone
  <1>4. Closed(d, new, w, obj, n, l, m)
    <2> SUFFICES ASSUME Wf[w].action # "create", NEW j \in 1..n, ClosesLink(w, j, l, m),
                        NEW a \in Linked(d, l, obj, m)
                 PROVE  new.db.objects[a].status # m
      BY DEF Closed
    <2>1. CASE j \in 1..(n - 1)
      BY <1>1, <2>1 DEF LinkWalk, Closed
    <2>2. CASE j = n
      BY <2>2, ClosesOwn
    <2> QED
      BY <1>1, <2>1, <2>2
  <1> QED
    BY <1>2, <1>3, <1>4 DEF LinkWalk

\* A write that puts a link in force opened it.
LEMMA OpenedLink ==
    ASSUME NEW d, NEW acc, NEW new, NEW w, NEW obj, NEW payload, NEW n, NEW l, NEW m, NEW o,
           NEW c, NEW status, NEW p, LinkStepFrom(d, acc, new, w, obj, payload, n),
           o = Target(d, acc, w, payload, Wf[w].effects[n]),
           c = Written(w, Wf[w].effects[n]),
           status = Moved(d, acc, w, payload, Wf[w].effects[n]),
           p = Carried(d, acc, w, payload, Wf[w].effects[n]),
           Reads(d, acc, new, c, o, status, p),
           ~Rewrites(w, n, l, m), c = l, status = m
    PROVE  /\ o \in new.pending /\ ~Registered(d, o)
           /\ \/ RefOf(new.db, o) = None
              \/ OpensLink(w, n, l, m) /\ RefOf(new.db, o) \in Pointed(new, w, obj)
  <1> DEFINE e == Wf[w].effects[n]
  <1>1. w \in Workflows /\ n \in Effects(w) /\ d \in Dbs
    BY DEF LinkStepFrom, DbInv
  <1>2. /\ e.type \in {"create_object", "open_link"}
        /\ e.class = l /\ NewStatus(l, e.status) = m /\ Creates(w, e)
        /\ p.ref = IF e.ref = "object" THEN acc.ctx ELSE None
    <2>1. Written(w, e) = l /\ Moved(d, acc, w, payload, e) = m
      OBVIOUS
    <2>2. Opening(d, acc, w, payload, e, l, m)
      BY <1>1, <2>1, OnlyOpens
    <2> QED
      BY <2>2 DEF Opening
  <1>3. o \in Unused(d, acc, l)
    BY <1>2 DEF LinkStepFrom, Effected, Aimed
  <1>4. ~Registered(d, o) /\ o \in new.pending /\ acc.pending \subseteq new.pending
    BY <1>3 DEF Unused, Reads
  <1>5. RefOf(new.db, o) = p.ref
    BY <1>1, ReadVersions DEF RefOf
  <1>6. acc.ctx \in Pointed(new, w, obj)
    <2>1. acc.ctx \in Pointed(acc, w, obj)
      BY ContextOf
    <2> QED
      BY <1>4, <2>1 DEF Pointed
  <1>7. e.ref = "object" => OpensLink(w, n, l, m)
    BY <1>2 DEF OpensLink
  <1> QED
    BY <1>2, <1>4, <1>5, <1>6, <1>7

LEMMA ReadLinks ==
    ASSUME NEW d, NEW acc, NEW new, NEW w, NEW obj, NEW payload, NEW n, NEW l, NEW m, NEW o,
           NEW c, NEW status, NEW p, LinkStepFrom(d, acc, new, w, obj, payload, n),
           o = Target(d, acc, w, payload, Wf[w].effects[n]),
           c = Written(w, Wf[w].effects[n]),
           status = Moved(d, acc, w, payload, Wf[w].effects[n]),
           p = Carried(d, acc, w, payload, Wf[w].effects[n]),
           Reads(d, acc, new, c, o, status, p),
           LinkWalk(d, acc, w, obj, n - 1, l, m), Single(l, m), SingleIn(d, l, m)
    PROVE  LinkWalk(d, new, w, obj, n, l, m)
  <1>1. /\ w \in Workflows /\ n \in Effects(w) /\ d \in Dbs /\ o \in Objects
        /\ n \in Nat /\ 1..(n - 1) \subseteq 1..n /\ n \in 1..n /\ n \notin 1..(n - 1)
        /\ \A j \in 1..n : j \in 1..(n - 1) \/ j = n
        /\ \A j \in 1..n : j \in Effects(w)
    BY DEF LinkStepFrom, DbInv, Reads
  <1>2. /\ ~Rewrites(w, n, l, m)
        /\ OpensLink(w, n, l, m) => \A j \in Effects(w) : OpensLink(w, j, l, m) => j = n
    BY <1>1 DEF Single
  <1>3. \A a \in Objects \ {o} : /\ Live(new.db, a, l, m) <=> Live(acc.db, a, l, m)
                                 /\ RefOf(new.db, a) = RefOf(acc.db, a)
                                 /\ new.db.objects[a] = acc.db.objects[a]
    BY <1>1, ReadVersions DEF Live, RefOf, Registered
  <1>4. acc.pending \subseteq new.pending /\ new.pending \subseteq acc.pending \cup {o}
    BY DEF Reads
  <1>5. ASSUME Live(new.db, o, l, m)
        PROVE  /\ o \in new.pending /\ ~Registered(d, o)
               /\ \/ RefOf(new.db, o) = None
                  \/ OpensLink(w, n, l, m) /\ RefOf(new.db, o) \in Pointed(new, w, obj)
    <2>1. c = l /\ status = m
      BY <1>5 DEF Live, Reads
    <2> QED
      BY <1>2, <2>1, OpenedLink
  <1>6. Traced(d, new, w, obj, n, l, m)
    <2> SUFFICES ASSUME NEW a \in Objects, Live(new.db, a, l, m)
                 PROVE  OldLink(d, new, a, l, m) \/ NewLink(new, w, obj, n, a, l, m)
      BY DEF Traced
    <2>1. CASE a = o
      BY <1>1, <1>5, <2>1 DEF NewLink
    <2>2. CASE a # o
      <3>1. OldLink(d, acc, a, l, m) \/ NewLink(acc, w, obj, n - 1, a, l, m)
        BY <1>3, <2>2 DEF LinkWalk, Traced
      <3>2. CASE OldLink(d, acc, a, l, m)
        BY <1>3, <2>2, <3>2 DEF OldLink
      <3>3. CASE NewLink(acc, w, obj, n - 1, a, l, m)
        BY <1>1, <1>3, <1>4, <2>2, <3>3 DEF NewLink, Pointed
      <3> QED
        BY <3>1, <3>2, <3>3
    <2> QED
      BY <2>1, <2>2
  <1>7. ASSUME NEW a \in new.pending, a # o, Live(new.db, a, l, m), RefOf(new.db, a) # None,
               Live(new.db, o, l, m), RefOf(new.db, o) # None
        PROVE  FALSE
    <2>1. OpensLink(w, n, l, m)
      BY <1>5, <1>7
    <2>2. a \in Objects /\ ~Registered(d, a)
      BY <1>7 DEF LinkStepFrom, Base, Grows
    <2>3. Live(acc.db, a, l, m) /\ RefOf(acc.db, a) # None
      BY <1>3, <1>7, <2>2
    <2>4. NewLink(acc, w, obj, n - 1, a, l, m)
      BY <2>2, <2>3 DEF LinkWalk, Traced, OldLink, Live
    <2>5. \E j \in 1..(n - 1) : OpensLink(w, j, l, m)
      BY <2>3, <2>4 DEF NewLink
    <2> QED
      BY <1>1, <1>2, <2>1, <2>5
  <1>8. Lone(new, l, m)
    <2> SUFFICES ASSUME NEW a \in new.pending, NEW b \in new.pending,
                        Live(new.db, a, l, m), RefOf(new.db, a) # None,
                        Live(new.db, b, l, m), RefOf(new.db, b) # None, a # b
                 PROVE  FALSE
      BY DEF Lone
    <2>1. CASE a = o \/ b = o
      BY <1>7, <2>1
    <2>2. CASE a # o /\ b # o
      <3>1. a \in acc.pending /\ b \in acc.pending /\ a \in Objects /\ b \in Objects
        BY <1>4, <2>2 DEF LinkStepFrom, Base, Grows
      <3> QED
        BY <1>3, <2>2, <3>1 DEF LinkWalk, Lone
    <2> QED
      BY <2>1, <2>2
  <1>9. Closed(d, new, w, obj, n, l, m)
    <2> SUFFICES ASSUME Wf[w].action # "create", NEW j \in 1..n, ClosesLink(w, j, l, m),
                        NEW a \in Linked(d, l, obj, m), new.db.objects[a].status = m
                 PROVE  FALSE
      BY DEF Closed
    <2>1. a \in Objects /\ Registered(d, a) /\ d.objects[a].class = l
      BY DEF Linked
    <2>2. a # o
      <3> SUFFICES ASSUME a = o PROVE FALSE
        OBVIOUS
      <3>1. c = l /\ status = m
        BY <2>1 DEF Reads
      <3> QED
        BY <1>2, <2>1, <3>1, OpenedLink
    <2>3. acc.db.objects[a].status = m
      BY <1>3, <2>1, <2>2
    <2>4. CASE j \in 1..(n - 1)
      BY <2>3, <2>4 DEF LinkWalk, Closed
    <2>5. CASE j = n
      <3>1. o \in Linked(d, l, obj, m)
        BY <2>5, ClosesOwn
      <3>2. obj \in Objects
        BY ContextOf
      <3> QED
        BY <2>2, <3>1, <3>2 DEF SingleIn
    <2> QED
      BY <1>1, <2>4, <2>5
  <1> QED
    BY <1>6, <1>8, <1>9 DEF LinkWalk

LEMMA LinkStep ==
    ASSUME NEW d, NEW acc, NEW new, NEW w, NEW obj, NEW payload, NEW n, NEW l, NEW m,
           LinkStepFrom(d, acc, new, w, obj, payload, n),
           LinkWalk(d, acc, w, obj, n - 1, l, m), Single(l, m), SingleIn(d, l, m)
    PROVE  LinkWalk(d, new, w, obj, n, l, m)
  <1> DEFINE e == Wf[w].effects[n]
  <1>1. \/ Idle(acc, new) /\ Skips(d, acc, w, payload, e)
        \/ Reads(d, acc, new, Written(w, e), Target(d, acc, w, payload, e),
                 Moved(d, acc, w, payload, e), Carried(d, acc, w, payload, e))
    BY EffectReads DEF LinkStepFrom
  <1> QED
    BY <1>1, IdleLinks, ReadLinks

\* A store the effects of a decision may be computed from.
Sound(d, w, obj, payload) ==
    /\ DbInv(d) /\ now \in Nat /\ Classed(d) /\ Resolved(d)
    /\ w \in Workflows /\ obj \in Objects \cup {None} /\ payload \in Payloads
    /\ Fits(w, obj)

LEMMA WalkLinkStep ==
    ASSUME NEW d, NEW w, NEW obj, NEW payload, Sound(d, w, obj, payload), NEW i \in 1..Last(w),
           Walk(d, w, obj, payload)[i].res = "ok"
    PROVE  /\ Walk(d, w, obj, payload)[i - 1].res = "ok"
           /\ LinkStepFrom(d, Walk(d, w, obj, payload)[i - 1], Walk(d, w, obj, payload)[i],
                           w, obj, payload, i)
  <1> DEFINE g == Walk(d, w, obj, payload)
  <1>1. /\ Last(w) \in Nat /\ Effects(w) = 1..Last(w)
        /\ g[i - 1].res = "ok" /\ Effected(d, g[i - 1], g[i], w, payload, i)
    BY WalkTrace DEF Sound
  <1>2. i \in 0..Last(w) /\ i - 1 \in 0..Last(w)
    BY <1>1
  <1>3. Base(d, g[i - 1], w, obj) /\ Base(d, g[i], w, obj)
    BY <1>1, <1>2, WalkBase DEF Sound
  <1> QED
    BY <1>1, <1>3 DEF LinkStepFrom, Sound

LEMMA WalkLinks ==
    ASSUME NEW d, NEW w, NEW obj, NEW payload, Sound(d, w, obj, payload), NEW l, NEW m,
           Single(l, m), SingleIn(d, l, m), Walk(d, w, obj, payload)[Last(w)].res = "ok"
    PROVE  LinkWalk(d, Walk(d, w, obj, payload)[Last(w)], w, obj, Last(w), l, m)
  <1> DEFINE g == Walk(d, w, obj, payload)
             N == Last(w)
             Good == {i \in 0..N : g[i].res = "ok" => LinkWalk(d, g[i], w, obj, i, l, m)}
  <1>1. N \in Nat /\ g[0] = NoWrites(d, obj)
    BY WalkTrace DEF Sound
  <1>2. \A i \in 1..N : g[i].res = "ok" =>
            g[i - 1].res = "ok" /\ LinkStepFrom(d, g[i - 1], g[i], w, obj, payload, i)
    BY WalkLinkStep
  <1> HIDE DEF g, N
  <1>3. 0 \in Good
    <2>1. g[0].db = d /\ g[0].pending = {}
      BY <1>1 DEF NoWrites
    <2>2. LinkWalk(d, g[0], w, obj, 0, l, m)
      BY <2>1 DEF LinkWalk, Traced, OldLink, Lone, Closed
    <2> QED
      BY <1>1, <2>2
  <1>4. ASSUME NEW i \in 1..N, i - 1 \in Good PROVE i \in Good
    <2> SUFFICES ASSUME g[i].res = "ok" PROVE LinkWalk(d, g[i], w, obj, i, l, m)
      BY <1>1
    <2>1. g[i - 1].res = "ok" /\ LinkStepFrom(d, g[i - 1], g[i], w, obj, payload, i)
      BY <1>2
    <2>2. LinkWalk(d, g[i - 1], w, obj, i - 1, l, m)
      BY <1>4, <2>1
    <2> QED
      BY <2>1, <2>2, LinkStep
  <1>5. N \in Good
    <2> HIDE DEF Good
    <2> QED
      BY <1>1, <1>3, <1>4, WalkInduction
  <1> QED
    BY <1>5 DEF g, N

\* A registered record has a newest version, and what that refers to is there.
LEMMA HeadThere ==
    ASSUME NEW d, DbInv(d), NEW a \in Objects, Registered(d, a)
    PROVE  Len(d.versions[a]) \in DOMAIN d.versions[a]
  <1>1. d.versions[a] \in Seq(VersionRows) /\ d.objects[a].head \in Nat \ {0}
    BY DEF DbInv, Dbs, ObjectRows, Registered
  <1>2. d.objects[a].head = Len(d.versions[a])
    BY DEF DbInv, Heads
  <1> QED
    BY <1>1, <1>2

LEMMA HeadResolves ==
    ASSUME NEW d, DbInv(d), Resolved(d), NEW a \in Objects, Registered(d, a),
           HeadVersion(d, a).ref # None
    PROVE  Registered(d, HeadVersion(d, a).ref)
  BY HeadThere DEF Resolved, Resolves, HeadVersion

\* The links in force after a decision: those of the store, and those opened.
Origin(d, acc, w, obj, l, m, o, a) ==
    /\ a \in Objects /\ RefOf(acc.db, a) = o /\ o # None /\ Live(acc.db, a, l, m)
    /\ \/ a \in Linked(d, l, o, m) /\ Registered(d, o)
       \/ /\ a \in acc.pending /\ o \in Pointed(acc, w, obj)
          /\ \E j \in Effects(w) : OpensLink(w, j, l, m)

LEMMA LinkOrigin ==
    ASSUME NEW d, NEW w, NEW obj, NEW payload, Sound(d, w, obj, payload), NEW l, NEW m,
           NEW acc, LinkWalk(d, acc, w, obj, Last(w), l, m), Effects(w) = 1..Last(w),
           NEW o \in Objects, NEW a \in Linked(acc.db, l, o, m)
    PROVE  Origin(d, acc, w, obj, l, m, o, a)
  <1>1. a \in Objects /\ Live(acc.db, a, l, m) /\ RefOf(acc.db, a) = o /\ o # None
    BY NoneIsNothing DEF Linked, Live, RefOf
  <1>2. OldLink(d, acc, a, l, m) \/ NewLink(acc, w, obj, Last(w), a, l, m)
    BY <1>1 DEF LinkWalk, Traced
  <1>3. CASE OldLink(d, acc, a, l, m)
    <2>1. a \in Linked(d, l, o, m) /\ Registered(d, a) /\ HeadVersion(d, a).ref = o
      BY <1>1, <1>3 DEF OldLink, Live, Linked, RefOf
    <2>2. Registered(d, o)
      BY <1>1, <2>1, HeadResolves DEF Sound
    <2> QED
      BY <1>1, <2>1, <2>2 DEF Origin
  <1>4. CASE NewLink(acc, w, obj, Last(w), a, l, m)
    BY <1>1, <1>4 DEF NewLink, Origin
  <1> QED
    BY <1>2, <1>3, <1>4

\* A decision keeps links single.
LEMMA DecisionSingle ==
    ASSUME NEW d, NEW w, NEW obj, NEW payload, Sound(d, w, obj, payload), NEW l, NEW m,
           Single(l, m), SingleIn(d, l, m), Walk(d, w, obj, payload)[Last(w)].res = "ok"
    PROVE  SingleIn(Walk(d, w, obj, payload)[Last(w)].db, l, m)
  <1> DEFINE acc == Walk(d, w, obj, payload)[Last(w)]
  <1>1. LinkWalk(d, acc, w, obj, Last(w), l, m)
    BY WalkLinks
  <1>2. Last(w) \in Nat /\ Effects(w) = 1..Last(w) /\ Last(w) \in 0..Last(w)
    BY WalkTrace DEF Sound
  <1>3. Base(d, acc, w, obj)
    BY <1>2, WalkBase DEF Sound
  <1> HIDE DEF acc
  <1>4. \A o \in Objects : \A a \in Linked(acc.db, l, o, m) : Origin(d, acc, w, obj, l, m, o, a)
    BY <1>1, <1>2, LinkOrigin
  <1>5. ASSUME NEW o \in Objects, NEW a \in Linked(d, l, o, m), Registered(d, o),
               o \in Pointed(acc, w, obj), \E j \in Effects(w) : OpensLink(w, j, l, m)
        PROVE  ~Live(acc.db, a, l, m)
    <2>1. o # None
      BY NoneIsNothing
    <2>2. Wf[w].action # "create" /\ o = obj
      BY <1>3, <1>5, <2>1 DEF Pointed, Base, Grows
    <2>3. \E j \in Effects(w) : ClosesLink(w, j, l, m)
      BY <1>5, <2>2 DEF Single, Sound
    <2>4. acc.db.objects[a].status # m
      BY <1>1, <1>2, <1>5, <2>2, <2>3 DEF LinkWalk, Closed
    <2> QED
      BY <2>4 DEF Live
  <1>6. ASSUME NEW o \in Objects, NEW a \in Linked(acc.db, l, o, m),
               NEW b \in Linked(acc.db, l, o, m)
        PROVE  a = b
    <2>1. Origin(d, acc, w, obj, l, m, o, a) /\ Origin(d, acc, w, obj, l, m, o, b)
      BY <1>4
    <2>2. CASE a \in acc.pending /\ b \in acc.pending
      BY <1>1, <2>1, <2>2 DEF LinkWalk, Lone, Origin
    <2>3. CASE a \in Linked(d, l, o, m) /\ b \in Linked(d, l, o, m)
      BY <2>3 DEF SingleIn
    <2>4. CASE a \notin acc.pending /\ b \notin Linked(d, l, o, m)
      BY <1>5, <2>1, <2>4 DEF Origin
    <2>5. CASE b \notin acc.pending /\ a \notin Linked(d, l, o, m)
      BY <1>5, <2>1, <2>5 DEF Origin
    <2> QED
      BY <2>1, <2>2, <2>3, <2>4, <2>5 DEF Origin
  <1> QED
    BY <1>6 DEF SingleIn, acc

\* Retention changes no link.
LEMMA AlikeLinked ==
    ASSUME NEW d, DbInv(d), NEW x, Alike(d, x), NEW l, NEW o, NEW m
    PROVE  Linked(x, l, o, m) = Linked(d, l, o, m)
  <1>1. ASSUME NEW a \in Objects, Registered(d, a)
        PROVE  HeadVersion(x, a).ref = HeadVersion(d, a).ref
    <2>1. Len(d.versions[a]) \in DOMAIN d.versions[a]
      BY <1>1, HeadThere
    <2> QED
      BY <2>1 DEF Alike, HeadVersion
  <1> QED
    BY <1>1 DEF Linked, Alike

LEMMA ApprovalSound ==
    ASSUME RegInv, RefInv, NEW row, NEW done, Approval(row, done)
    PROVE  /\ Sound(db, row.wf, row.obj, row.payload)
           /\ done = Walk(db, row.wf, row.obj, row.payload)[Last(row.wf)]
           /\ done.res = "ok" /\ db' = done.db
  BY DEF RegInv, TypeOK, RefInv, Approval, About, Sound, Fits

\* Where a pack's workflows end the link they replace, no object ever has two
\* (closeLinkOps, effectOps).
THEOREM LinksStaySingle == Spec => []LinksSingle
  <1>1. Init => LinksSingle
    <2> SUFFICES ASSUME db = SeedDb, NEW x \in SingleLinks, NEW o \in Objects,
                        NEW a \in Linked(db, x[1], o, x[2]), NEW b \in Linked(db, x[1], o, x[2])
                 PROVE  a = b
      BY DEF Init, LinksSingle
    <2>1. ASSUME NEW u \in Linked(db, x[1], o, x[2])
          PROVE  /\ u \in Objects /\ Seed[u] # None /\ ClassOf[u] = x[1] /\ Seed[u].ref = o
                 /\ Class[x[1]].initial = x[2]
      BY <2>1, SeedTables DEF Linked
    <2>2. o # None
      BY NoneIsNothing
    <2>3. Single(x[1], x[2])
      BY PackKeepsLinks
    <2> QED
      BY <2>1, <2>2, <2>3 DEF Single
  <1>2. RegInv /\ AboutInv /\ RefInv /\ LinksSingle /\ [Next]_vars => LinksSingle'
    <2> SUFFICES ASSUME RegInv, AboutInv, RefInv, LinksSingle, [Next]_vars,
                        NEW x \in SingleLinks
                 PROVE  SingleIn(db', x[1], x[2])
      BY DEF LinksSingle, SingleIn
    <2>1. Single(x[1], x[2]) /\ SingleIn(db, x[1], x[2])
      BY PackKeepsLinks DEF LinksSingle, SingleIn
    <2>2. CASE Alike(db, db')
      BY <2>1, <2>2, AlikeLinked DEF RegInv, SingleIn
    <2>3. ASSUME NEW row, NEW done, Approval(row, done) PROVE SingleIn(db', x[1], x[2])
      BY <2>1, <2>3, ApprovalSound, DecisionSingle
    <2> QED
      BY <2>2, <2>3, StepApproves
  <1> QED
    BY <1>1, <1>2, RecordInvariant, ProposalsKeepTheirRecord, ReferenceInvariant, PTL DEF Spec

\* Records that are in a status after n effects: they were, or the decision is
\* about them and moved them there.
Entered(d, acc, w, obj, n, c, s) ==
    \A o \in Objects : Live(acc.db, o, c, s) =>
        \/ Live(d, o, c, s)
        \/ o = obj /\ Wf[w].action # "create" /\ \E j \in 1..n : Enters(w, j, c, s)

\* A record moves to the status only by a workflow of its own.
OwnMove(w, i, c, s) ==
    /\ s # "" /\ Class[c].initial # s
    /\ Enters(w, i, c, s) => Wf[w].effects[i].type = "record"

\* Anything but a creation writes a record that is there.
LEMMA WritesThere ==
    ASSUME NEW d, NEW acc, NEW new, NEW w, NEW payload, NEW e, NEW c, NEW o, NEW status, NEW p,
           Aimed(d, acc, new, w, payload, e), ~Creates(w, e),
           o = Target(d, acc, w, payload, e), Reads(d, acc, new, c, o, status, p)
    PROVE  Registered(d, o) /\ d.objects[o].class = c
  BY DEF Aimed, Reads, Idle

LEMMA OnlyEnters ==
    ASSUME NEW d, NEW acc, NEW new, NEW w, NEW obj, NEW payload, NEW n, NEW c, NEW s,
           LinkStepFrom(d, acc, new, w, obj, payload, n), NEW o, NEW status, NEW p,
           o = Target(d, acc, w, payload, Wf[w].effects[n]),
           c = Written(w, Wf[w].effects[n]),
           status = Moved(d, acc, w, payload, Wf[w].effects[n]),
           Reads(d, acc, new, c, o, status, p), status = s,
           OwnMove(w, n, c, s)
    PROVE  \/ Live(d, o, c, s)
           \/ o = obj /\ Wf[w].action # "create" /\ Enters(w, n, c, s)
  <1> DEFINE e == Wf[w].effects[n]
  <1>1. ValidEffect(e) /\ Wf[w].action \in {"create", "update", "status", "correct"}
    BY PackIsValid DEF ValidWorkflow, Effects, LinkStepFrom
  <1>2. Aimed(d, acc, new, w, payload, e)
    BY DEF LinkStepFrom, Effected
  <1>3. c = Written(w, e) /\ o = Target(d, acc, w, payload, e)
        /\ s = Moved(d, acc, w, payload, e) /\ (Enters(w, n, c, s) => e.type = "record")
        /\ Class[c].initial # s
    BY DEF OwnMove
  <1>4. Enters(w, n, c, s) <=>
          \/ e.type = "record" /\ Wf[w].class = c /\ Wf[w].action = "status" /\ Wf[w].status = s
          \/ e.type \in {"set_status", "close_link"} /\ e.class = c /\ e.status = s
          \/ e.type \in {"create_object", "open_link"} /\ e.class = c /\ NewStatus(c, e.status) = s
    BY DEF Enters
  <1> HIDE DEF e
  <1>5. CASE e.type = "record" /\ Wf[w].action = "create"
    BY <1>3, <1>5 DEF Moved, Declared, Creates, Written
  <1>6. CASE e.type \in {"create_object", "open_link"}
    <2>1. c = e.class
      BY <1>3, <1>6 DEF Written
    <2>2. s = NewStatus(c, e.status)
      BY <1>3, <1>6, <2>1 DEF Moved, Declared, Creates, Written, NewStatus
    <2> QED
      BY <1>3, <1>4, <1>6, <2>1, <2>2
  <1>7. CASE ~Creates(w, e) /\ Declared(w, e) = ""
    <2>1. s = d.objects[o].status
      BY <1>3, <1>7 DEF Moved
    <2>2. Registered(d, o) /\ d.objects[o].class = c
      BY <1>2, <1>3, <1>7, WritesThere
    <2> QED
      BY <2>1, <2>2 DEF Live
  <1>8. CASE ~Creates(w, e) /\ Declared(w, e) # ""
    <2>1. s = Declared(w, e)
      BY <1>3, <1>8 DEF Moved
    <2>2. CASE e.type = "record"
      <3>1. Wf[w].action = "status" /\ Wf[w].status = s /\ Wf[w].class = c
        BY <1>3, <1>8, <2>1, <2>2 DEF Declared, Written
      <3>2. o = acc.obj
        BY <1>3, <1>8, <2>2 DEF Target
      <3>3. acc.obj = obj
        <4>1. Wf[w].action # "create"
          BY <3>1
        <4> QED
          BY <4>1, ContextOf
      <3> QED
        BY <1>4, <2>2, <3>1, <3>2, <3>3
    <2>3. CASE e.type # "record"
      <3>1. e.type \in {"set_status", "close_link"} /\ e.status = s /\ e.class = c
        BY <1>1, <1>3, <1>8, <2>1, <2>3 DEF ValidEffect, Declared, Creates, Written
      <3> QED
        BY <1>3, <1>4, <2>3, <3>1
    <2> QED
      BY <2>2, <2>3
  <1> QED
    BY <1>5, <1>6, <1>7, <1>8 DEF Creates

LEMMA EnteredStep ==
    ASSUME NEW d, NEW acc, NEW new, NEW w, NEW obj, NEW payload, NEW n, NEW c, NEW s,
           LinkStepFrom(d, acc, new, w, obj, payload, n), OwnMove(w, n, c, s),
           Entered(d, acc, w, obj, n - 1, c, s)
    PROVE  Entered(d, new, w, obj, n, c, s)
  <1> DEFINE e == Wf[w].effects[n]
  <1>1. /\ d \in Dbs /\ n \in Nat /\ 1..(n - 1) \subseteq 1..n /\ n \in 1..n
    BY DEF LinkStepFrom, DbInv
  <1>2. CASE Idle(acc, new)
    BY <1>1, <1>2 DEF Idle, Entered
  <1>3. CASE Reads(d, acc, new, Written(w, e), Target(d, acc, w, payload, e),
                   Moved(d, acc, w, payload, e), Carried(d, acc, w, payload, e))
    <2> DEFINE o == Target(d, acc, w, payload, e)
               status == Moved(d, acc, w, payload, e)
               p == Carried(d, acc, w, payload, e)
               k == Written(w, e)
    <2>1. Reads(d, acc, new, k, o, status, p)
      BY <1>3
    <2>2. k = c /\ status = s => \/ Live(d, o, c, s)
                                 \/ o = obj /\ Wf[w].action # "create" /\ Enters(w, n, c, s)
      BY <2>1, OnlyEnters
    <2> HIDE DEF o, status, p, k
    <2> SUFFICES ASSUME NEW u \in Objects, Live(new.db, u, c, s)
                 PROVE  \/ Live(d, u, c, s)
                        \/ /\ u = obj /\ Wf[w].action # "create"
                           /\ \E j \in 1..n : Enters(w, j, c, s)
      BY DEF Entered
    <2>3. CASE u = o
      BY <1>1, <2>1, <2>2, <2>3 DEF Live, Reads
    <2>4. CASE u # o
      <3>1. Live(acc.db, u, c, s)
        BY <2>1, <2>4 DEF Live, Reads, Registered
      <3> QED
        BY <1>1, <3>1 DEF Entered
    <2> QED
      BY <2>3, <2>4
  <1> QED
    BY <1>2, <1>3, EffectReads DEF LinkStepFrom

LEMMA WalkEntered ==
    ASSUME NEW d, NEW w, NEW obj, NEW payload, Sound(d, w, obj, payload), NEW c, NEW s,
           \A i \in Effects(w) : OwnMove(w, i, c, s),
           Walk(d, w, obj, payload)[Last(w)].res = "ok"
    PROVE  Entered(d, Walk(d, w, obj, payload)[Last(w)], w, obj, Last(w), c, s)
  <1> DEFINE g == Walk(d, w, obj, payload)
             N == Last(w)
             Good == {i \in 0..N : g[i].res = "ok" => Entered(d, g[i], w, obj, i, c, s)}
  <1>1. N \in Nat /\ g[0] = NoWrites(d, obj) /\ Effects(w) = 1..N
    BY WalkTrace DEF Sound
  <1>2. \A i \in 1..N : g[i].res = "ok" =>
            g[i - 1].res = "ok" /\ LinkStepFrom(d, g[i - 1], g[i], w, obj, payload, i)
    BY WalkLinkStep
  <1> HIDE DEF g, N
  <1>3. 0 \in Good
    <2>1. g[0].db = d
      BY <1>1 DEF NoWrites
    <2>2. Entered(d, g[0], w, obj, 0, c, s)
      BY <2>1 DEF Entered
    <2> QED
      BY <1>1, <2>2
  <1>4. ASSUME NEW i \in 1..N, i - 1 \in Good PROVE i \in Good
    <2> SUFFICES ASSUME g[i].res = "ok" PROVE Entered(d, g[i], w, obj, i, c, s)
      BY <1>1
    <2>1. g[i - 1].res = "ok" /\ LinkStepFrom(d, g[i - 1], g[i], w, obj, payload, i)
      BY <1>2
    <2>2. Entered(d, g[i - 1], w, obj, i - 1, c, s)
      BY <1>4, <2>1
    <2> QED
      BY <1>1, <2>1, <2>2, EnteredStep
  <1>5. N \in Good
    <2> HIDE DEF Good
    <2> QED
      BY <1>1, <1>3, <1>4, WalkInduction
  <1> QED
    BY <1>5 DEF g, N

SeveredIn(d, c, s, l, m) ==
    \A o \in Objects : Live(d, o, c, s) => Linked(d, l, o, m) = {}

\* No condition that rejects failed, so the record was in none of the statuses
\* its workflow is refused in.
Allowed(d, w, obj, payload) ==
    \A i \in DOMAIN Wf[w].conditions :
        Wf[w].conditions[i].on_fail = "reject"
            => ConditionHolds(d, Wf[w].conditions[i], obj, payload)
LEMMA NotRefused ==
    ASSUME NEW d, NEW w, NEW obj, NEW payload, NEW s, Allowed(d, w, obj, payload),
           RefusedIn(w, s)
    PROVE  d.objects[obj].status # s
  BY DEF Allowed, RefusedIn, ConditionHolds

\* A decision keeps severed links severed.
LEMMA DecisionSevers ==
    ASSUME NEW d, NEW w, NEW obj, NEW payload, Sound(d, w, obj, payload),
           NEW c, NEW s, NEW l, NEW m, Severs(c, s, l, m), Single(l, m), SingleIn(d, l, m),
           SeveredIn(d, c, s, l, m), Allowed(d, w, obj, payload),
           obj # None => d.objects[obj].class = Wf[w].class,
           Walk(d, w, obj, payload)[Last(w)].res = "ok"
    PROVE  SeveredIn(Walk(d, w, obj, payload)[Last(w)].db, c, s, l, m)
  <1> DEFINE acc == Walk(d, w, obj, payload)[Last(w)]
  <1>1. LinkWalk(d, acc, w, obj, Last(w), l, m)
    BY WalkLinks
  <1>2. Last(w) \in Nat /\ Effects(w) = 1..Last(w) /\ Last(w) \in 0..Last(w)
    BY WalkTrace DEF Sound
  <1>3. Base(d, acc, w, obj)
    BY <1>2, WalkBase DEF Sound
  <1>4. /\ s # "" /\ Class[c].initial # s /\ w \in Workflows
        /\ \A i \in Effects(w) :
            /\ Enters(w, i, c, s) =>
                /\ Wf[w].effects[i].type = "record"
                /\ \E j \in Effects(w) : ClosesLink(w, j, l, m)
                /\ \A j \in Effects(w) : ~OpensLink(w, j, l, m)
            /\ OpensLink(w, i, l, m) /\ Wf[w].class = c /\ Wf[w].action # "create"
                => RefusedIn(w, s)
    BY DEF Severs, Sound
  <1>5. Entered(d, acc, w, obj, Last(w), c, s)
    <2>1. \A i \in Effects(w) : OwnMove(w, i, c, s)
      BY <1>4 DEF OwnMove
    <2> QED
      BY <2>1, WalkEntered
  <1> HIDE DEF acc
  <1> SUFFICES ASSUME NEW o \in Objects, Live(acc.db, o, c, s), NEW a \in Linked(acc.db, l, o, m)
               PROVE  FALSE
    BY DEF SeveredIn, acc
  <1>6. Origin(d, acc, w, obj, l, m, o, a)
    BY <1>1, <1>2, LinkOrigin
  <1>7. CASE Live(d, o, c, s)
    <2>1. a \notin Linked(d, l, o, m)
      BY <1>7 DEF SeveredIn
    <2>2. PICK j \in Effects(w) : OpensLink(w, j, l, m)
      BY <1>6, <2>1 DEF Origin
    <2>3. o \in Pointed(acc, w, obj) /\ o # None /\ Registered(d, o)
      BY <1>6, <1>7, <2>1 DEF Origin, Live
    <2>4. Wf[w].action # "create" /\ o = obj
      BY <1>3, <2>3 DEF Pointed, Base, Grows
    <2>5. Wf[w].class = c /\ d.objects[obj].status = s
      BY <1>7, <2>3, <2>4 DEF Live
    <2> QED
      BY <1>4, <2>2, <2>4, <2>5, NotRefused
  <1>8. CASE o = obj /\ Wf[w].action # "create" /\ \E j \in 1..Last(w) : Enters(w, j, c, s)
    <2>1. /\ \E j \in Effects(w) : ClosesLink(w, j, l, m)
          /\ \A j \in Effects(w) : ~OpensLink(w, j, l, m)
      BY <1>2, <1>4, <1>8
    <2>2. a \in Linked(d, l, obj, m) /\ Live(acc.db, a, l, m)
      BY <1>6, <1>8, <2>1 DEF Origin
    <2> QED
      BY <1>1, <1>2, <1>8, <2>1, <2>2 DEF LinkWalk, Closed, Live
  <1> QED
    BY <1>5, <1>7, <1>8 DEF Entered

\* Where a pack moves a record to a severing status only together with the end of
\* its link, and refuses to open one afterwards, no record in that status has
\* one, whatever was proposed before (evaluateConditions, effectOps).
THEOREM SeveredLinks == Spec => []LinksSevered
  <1>1. Init => LinksSevered
    <2> SUFFICES ASSUME db = SeedDb, NEW x \in Severances, NEW o \in Objects,
                        Registered(db, o), db.objects[o].class = x[1],
                        db.objects[o].status = x[2]
                 PROVE  FALSE
      BY DEF Init, LinksSevered
    <2>1. Class[x[1]].initial # x[2]
      BY PackKeepsLinks DEF Severs
    <2> QED
      BY <2>1, SeedTables
  <1>2. RegInv /\ AboutInv /\ RefInv /\ LinksSingle /\ LinksSevered /\ [Next]_vars
            => LinksSevered'
    <2> SUFFICES ASSUME RegInv, AboutInv, RefInv, LinksSingle, LinksSevered, [Next]_vars,
                        NEW x \in Severances
                 PROVE  SeveredIn(db', x[1], x[2], x[3], x[4])
      BY DEF LinksSevered, SeveredIn, Live
    <2>1. Severs(x[1], x[2], x[3], x[4]) /\ SeveredIn(db, x[1], x[2], x[3], x[4])
      BY PackKeepsLinks DEF LinksSevered, SeveredIn, Live
    <2>2. <<x[3], x[4]>> \in SingleLinks
      BY <2>1 DEF Severs
    <2>3. Single(x[3], x[4]) /\ SingleIn(db, x[3], x[4])
      BY <2>2, PackKeepsLinks DEF LinksSingle, SingleIn
    <2>4. CASE Alike(db, db')
      BY <2>1, <2>4, AlikeLinked DEF RegInv, SeveredIn, Live, Alike
    <2>5. ASSUME NEW row, NEW done, Approval(row, done)
          PROVE  SeveredIn(db', x[1], x[2], x[3], x[4])
      <3>1. /\ Allowed(db, row.wf, row.obj, row.payload)
            /\ row.obj # None => db.objects[row.obj].class = Wf[row.wf].class
        BY <2>5 DEF Approval, Allowed, About
      <3> QED
        BY <2>1, <2>3, <2>5, <3>1, ApprovalSound, DecisionSevers
    <2> QED
      BY <2>4, <2>5, StepApproves
  <1> QED
    BY <1>1, <1>2, RecordInvariant, ProposalsKeepTheirRecord, ReferenceInvariant,
       LinksStaySingle, PTL DEF Spec

\* Effect n of a workflow wrote object o of class k.
ReadStep(d, acc, new, w, obj, payload, n, k, o, status, p) ==
    /\ LinkStepFrom(d, acc, new, w, obj, payload, n)
    /\ o = Target(d, acc, w, payload, Wf[w].effects[n])
    /\ k = Written(w, Wf[w].effects[n])
    /\ status = Moved(d, acc, w, payload, Wf[w].effects[n])
    /\ p = Carried(d, acc, w, payload, Wf[w].effects[n])
    /\ Reads(d, acc, new, k, o, status, p)

LEMMA StepReads ==
    ASSUME NEW d, NEW acc, NEW new, NEW w, NEW obj, NEW payload, NEW n,
           LinkStepFrom(d, acc, new, w, obj, payload, n)
    PROVE  \/ Idle(acc, new) /\ Skips(d, acc, w, payload, Wf[w].effects[n])
           \/ \E k, o, status, p : ReadStep(d, acc, new, w, obj, payload, n, k, o, status, p)
  BY EffectReads DEF LinkStepFrom, ReadStep

LEMMA ReadTarget ==
    ASSUME NEW d, NEW acc, NEW new, NEW w, NEW obj, NEW payload, NEW n,
           NEW k, NEW o, NEW status, NEW p,
           ReadStep(d, acc, new, w, obj, payload, n, k, o, status, p)
    PROVE  /\ o \in Objects
           /\ Creates(w, Wf[w].effects[n]) => ~Registered(d, o) /\ o \notin acc.pending
           /\ ~Creates(w, Wf[w].effects[n]) => Registered(d, o)
           /\ Registered(d, o) => d.objects[o].class = k
           /\ Registered(new.db, o)
           /\ new.db.objects[o].class = k /\ new.db.objects[o].status = status
  <1> DEFINE e == Wf[w].effects[n]
  <1>1. /\ o = Target(d, acc, w, payload, e) /\ k = Written(w, e)
        /\ Reads(d, acc, new, k, o, status, p) /\ new.res = "ok"
        /\ Aimed(d, acc, new, w, payload, e) /\ Base(d, new, w, obj)
    BY DEF ReadStep, LinkStepFrom, Effected
  <1> HIDE DEF e
  <1>2. Creates(w, e) => o \in Unused(d, acc, k)
    BY <1>1 DEF Aimed
  <1>3. ~Creates(w, e) => Registered(d, o)
    BY <1>1, WritesThere
  <1>4. Registered(new.db, o)
    BY <1>1 DEF Reads, Base, Grows, Persist
  <1> QED
    BY <1>1, <1>2, <1>3, <1>4 DEF Unused, Reads, e

LEMMA ReadOthers ==
    ASSUME NEW d, NEW acc, NEW new, NEW w, NEW obj, NEW payload, NEW n,
           NEW k, NEW o, NEW status, NEW p,
           ReadStep(d, acc, new, w, obj, payload, n, k, o, status, p)
    PROVE  /\ acc.pending \subseteq new.pending /\ new.pending \subseteq acc.pending \cup {o}
           /\ RefOf(new.db, o) = p.ref
           /\ \A a \in Objects \ {o} : \A l, m :
                /\ Live(new.db, a, l, m) <=> Live(acc.db, a, l, m)
                /\ RefOf(new.db, a) = RefOf(acc.db, a)
  <1>1. d \in Dbs /\ Reads(d, acc, new, k, o, status, p)
    BY DEF ReadStep, LinkStepFrom, DbInv
  <1> QED
    BY <1>1, ReadVersions DEF Reads, RefOf, Live, Registered

\* What writes a record of a class that carries a link, and its links.
LEMMA CarriesOwn ==
    ASSUME NEW c, NEW s, NEW l, NEW m, Carries(c, s, l, m), NEW w \in Workflows,
           NEW i \in Effects(w)
    PROVE  LET e == Wf[w].effects[i] IN
           /\ Written(w, e) = c =>
               /\ e.type = "record" /\ Wf[w].class = c
               /\ Wf[w].action = "create" =>
                   /\ \A j \in Effects(w) : Wf[w].effects[j].type = "record" => j = i
                   /\ \E j \in Effects(w) : i < j /\ OpensLink(w, j, l, m)
               /\ Wf[w].action = "status" => Wf[w].status # s
           /\ Written(w, e) = l /\ ~Creates(w, e) =>
               /\ e.type = "close_link" /\ e.match = m /\ e.class = l
               /\ \E j \in Effects(w) : Leaves(w, j, c, s)
  BY DEF Carries, Written, Creates

\* Links of the store stay in force, except those of the object of a decision
\* that moves it out of the carrying status.
Ending(w, c, s) == \E j \in Effects(w) : Leaves(w, j, c, s)
LinksKept(d, acc, w, obj, c, s, l, m) ==
    \A o \in Objects : \A a \in Linked(d, l, o, m) :
        a \in Linked(acc.db, l, o, m) \/ (o = obj /\ Ending(w, c, s))

LEMMA LinksKeptStep ==
    ASSUME NEW d, NEW acc, NEW new, NEW w, NEW obj, NEW payload, NEW n,
           NEW k, NEW o, NEW status, NEW p,
           ReadStep(d, acc, new, w, obj, payload, n, k, o, status, p),
           NEW c, NEW s, NEW l, NEW m, Carries(c, s, l, m),
           LinksKept(d, acc, w, obj, c, s, l, m)
    PROVE  LinksKept(d, new, w, obj, c, s, l, m)
  <1> DEFINE e == Wf[w].effects[n]
  <1> SUFFICES ASSUME NEW u \in Objects, NEW a \in Linked(d, l, u, m)
               PROVE  a \in Linked(new.db, l, u, m) \/ (u = obj /\ Ending(w, c, s))
    BY DEF LinksKept
  <1>1. a \in Objects /\ Live(d, a, l, m) /\ RefOf(d, a) = u
    BY DEF Linked, Live, RefOf
  <1>2. LinkStepFrom(d, acc, new, w, obj, payload, n) /\ w \in Workflows /\ n \in Effects(w)
    BY DEF ReadStep, LinkStepFrom
  <1>3. CASE a # o
    <2>1. Live(new.db, a, l, m) <=> Live(acc.db, a, l, m)
      BY <1>1, <1>3, ReadOthers
    <2>2. RefOf(new.db, a) = RefOf(acc.db, a)
      BY <1>1, <1>3, ReadOthers
    <2> QED
      BY <1>1, <2>1, <2>2, LinkedMeans DEF LinksKept
  <1>4. CASE a = o /\ ~Idle(acc, new)
    <2>1. Registered(d, o) /\ d.objects[o].class = l
      BY <1>1, <1>4 DEF Live
    <2>2. ~Creates(w, e) /\ k = l
      BY <2>1, ReadTarget
    <2>3. Written(w, e) = l
      BY <2>2 DEF ReadStep
    <2>4. /\ e.type = "close_link" /\ e.match = m /\ e.class = l
          /\ \E j \in Effects(w) : Leaves(w, j, c, s)
      BY <1>2, <2>2, <2>3, CarriesOwn
    <2>5. Ending(w, c, s) /\ Wf[w].action = "status"
      BY <2>4 DEF Ending, Leaves
    <2>6. Wf[w].action # "create"
      BY <2>5
    <2>7. acc.ctx = obj
      BY <1>2, <2>6, ContextOf
    <2>8. o \in Closes(d, acc, e)
      <3>1. Aimed(d, acc, new, w, payload, e) /\ o = Target(d, acc, w, payload, e)
            /\ Reads(d, acc, new, k, o, status, p)
        BY DEF ReadStep, LinkStepFrom, Effected
      <3> HIDE DEF e
      <3> QED
        BY <1>4, <2>4, <3>1 DEF Aimed
    <2>9. RefOf(d, o) = obj
      <3>1. Closes(d, acc, e) = Linked(d, l, obj, m)
        BY <2>4, <2>7 DEF Closes
      <3> QED
        BY <2>8, <3>1 DEF Linked, RefOf
    <2> QED
      BY <1>1, <1>4, <2>5, <2>9
  <1>5. CASE Idle(acc, new)
    BY <1>5 DEF Idle, LinksKept
  <1> QED
    BY <1>3, <1>4, <1>5

\* A record of the store is in the carrying status only if it was before, and
\* is not once an effect that moves it out was computed.
StatusKept(d, acc, w, obj, n, c, s) ==
    /\ \A o \in Objects : Registered(d, o) /\ Live(acc.db, o, c, s) => Live(d, o, c, s)
    /\ \A j \in 1..n : Leaves(w, j, c, s) => ~Live(acc.db, obj, c, s)

\* The object of a decision is one of the class of its workflow.
OfClass(d, w, obj) ==
    obj # None => Registered(d, obj) /\ d.objects[obj].class = Wf[w].class

\* A workflow that moves its record to a status other than s.
Departs(w, s) == Wf[w].action = "status" /\ Wf[w].status \notin {s, ""}

\* A write to a record that is there leaves its status, or moves it elsewhere.
LEMMA MovesElsewhere ==
    ASSUME NEW d, NEW acc, NEW new, NEW w, NEW obj, NEW payload, NEW n,
           NEW k, NEW o, NEW status, NEW p,
           ReadStep(d, acc, new, w, obj, payload, n, k, o, status, p),
           NEW c, NEW s, NEW l, NEW m, Carries(c, s, l, m), Registered(d, o), k = c
    PROVE  /\ status # s \/ status = d.objects[o].status
           /\ Departs(w, s) => status # s
  <1> DEFINE e == Wf[w].effects[n]
  <1>1. /\ w \in Workflows /\ n \in Effects(w) /\ Written(w, e) = c
        /\ status = Moved(d, acc, w, payload, e) /\ o = Target(d, acc, w, payload, e)
    BY DEF ReadStep, LinkStepFrom
  <1>2. ~Creates(w, e)
    BY ReadTarget
  <1>3. e.type = "record" /\ (Wf[w].action = "status" => Wf[w].status # s)
    BY <1>1, CarriesOwn
  <1> HIDE DEF e
  <1> QED
    BY <1>1, <1>2, <1>3 DEF Moved, Declared, Departs

\* What an effect that moves a record out of a status is about.
LEMMA LeavesObject ==
    ASSUME NEW d, NEW acc, NEW new, NEW w, NEW obj, NEW payload, NEW n,
           LinkStepFrom(d, acc, new, w, obj, payload, n), OfClass(d, w, obj),
           NEW c, NEW s, NEW j, Leaves(w, j, c, s)
    PROVE  /\ Wf[w].effects[j].type = "record" /\ Wf[w].action = "status"
           /\ Wf[w].status # s /\ Departs(w, s)
           /\ acc.obj = obj /\ obj \in Objects
           /\ Registered(d, obj) /\ d.objects[obj].class = c
  <1>1. /\ Wf[w].effects[j].type = "record" /\ Wf[w].class = c /\ Wf[w].action = "status"
        /\ Wf[w].status # s /\ Departs(w, s)
    BY DEF Leaves, Departs
  <1>2. Wf[w].action # "create"
    BY <1>1
  <1>3. acc.obj = obj /\ obj \in Objects
    BY <1>2, ContextOf
  <1> QED
    BY <1>1, <1>3, NoneIsNothing DEF OfClass

LEMMA StatusKeptStep ==
    ASSUME NEW d, NEW acc, NEW new, NEW w, NEW obj, NEW payload, NEW n,
           LinkStepFrom(d, acc, new, w, obj, payload, n),
           NEW c, NEW s, NEW l, NEW m, Carries(c, s, l, m), OfClass(d, w, obj),
           StatusKept(d, acc, w, obj, n - 1, c, s)
    PROVE  StatusKept(d, new, w, obj, n, c, s)
  <1> DEFINE e == Wf[w].effects[n]
  <1>1. \A j \in 1..n : j \in 1..(n - 1) \/ j = n
    BY DEF LinkStepFrom
  <1>2. CASE Idle(acc, new) /\ Skips(d, acc, w, payload, e)
    <2>1. ASSUME Leaves(w, n, c, s) PROVE ~Live(acc.db, obj, c, s)
      <3>1. /\ e.type = "record" /\ Wf[w].action = "status" /\ Wf[w].status # s
            /\ acc.obj = obj /\ obj \in Objects /\ Registered(d, obj)
        BY <2>1, LeavesObject
      <3>2. HeadVersion(d, obj).status # s
        BY <1>2, <3>1 DEF Skips
      <3>3. d.objects[obj].status # s
        BY <3>1, <3>2 DEF LinkStepFrom, DbInv, Heads
      <3> QED
        BY <3>1, <3>3 DEF StatusKept, Live
    <2>2. new.db = acc.db
      BY <1>2 DEF Idle
    <2> QED
      BY <1>1, <2>1, <2>2 DEF StatusKept
  <1>3. ASSUME NEW k, NEW o, NEW status, NEW p,
               ReadStep(d, acc, new, w, obj, payload, n, k, o, status, p)
        PROVE  StatusKept(d, new, w, obj, n, c, s)
    <2>1. ASSUME NEW u \in Objects, Registered(d, u), Live(new.db, u, c, s)
          PROVE  Live(d, u, c, s)
      <3>1. CASE u = o
        <4>1. k = c /\ status = s /\ d.objects[o].class = c
          BY <1>3, <2>1, <3>1, ReadTarget DEF Live
        <4>2. d.objects[o].status = s
          BY <1>3, <2>1, <3>1, <4>1, MovesElsewhere
        <4> QED
          BY <2>1, <3>1, <4>1, <4>2 DEF Live
      <3>2. CASE u # o
        <4>1. Live(acc.db, u, c, s)
          BY <1>3, <2>1, <3>2, ReadOthers
        <4> QED
          BY <2>1, <4>1 DEF StatusKept
      <3> QED
        BY <3>1, <3>2
    <2>2. ASSUME NEW j \in 1..n, Leaves(w, j, c, s) PROVE ~Live(new.db, obj, c, s)
      <3>1. /\ Wf[w].effects[j].type = "record" /\ Wf[w].action = "status"
            /\ Departs(w, s) /\ acc.obj = obj /\ obj \in Objects
            /\ Registered(d, obj) /\ d.objects[obj].class = c
        BY <2>2, LeavesObject
      <3>2. CASE o = obj
        <4>1. k = c /\ new.db.objects[o].status = status
          BY <1>3, <3>1, <3>2, ReadTarget
        <4>2. status # s
          BY <1>3, <3>1, <3>2, <4>1, MovesElsewhere
        <4> QED
          BY <3>2, <4>1, <4>2 DEF Live
      <3>3. CASE o # obj
        <4>1. j \in 1..(n - 1)
          <5> SUFFICES ASSUME j = n PROVE o = obj
            BY <1>1, <3>3
          <5>1. e.type = "record" /\ o = Target(d, acc, w, payload, e)
            BY <1>3, <3>1 DEF ReadStep
          <5> HIDE DEF e
          <5> QED
            BY <3>1, <5>1 DEF Target, Creates
        <4>2. ~Live(acc.db, obj, c, s)
          BY <2>2, <4>1 DEF StatusKept
        <4> QED
          BY <1>3, <3>1, <3>3, <4>2, ReadOthers
      <3> QED
        BY <3>2, <3>3
    <2> QED
      BY <2>1, <2>2 DEF StatusKept
  <1> QED
    BY <1>2, <1>3, StepReads

\* What a decision registers of the class, it registers as the object of its
\* workflow, and that has its link once the effect that opens it was computed.
OpenedAfter(w, n, l, m) ==
    \E i, j \in 1..n : i < j /\ Wf[w].effects[i].type = "record" /\ OpensLink(w, j, l, m)
RegistersOne(acc, w, n, c, o) ==
    /\ acc.ctx = o /\ Wf[w].action = "create" /\ Wf[w].class = c
    /\ \E i \in 1..n : Wf[w].effects[i].type = "record"
LinkOf(acc, o, l, m) == \E a \in acc.pending : a \in Linked(acc.db, l, o, m)
NewCarried(acc, w, n, c, l, m) ==
    \A o \in acc.pending : ClassOf[o] = c =>
        /\ RegistersOne(acc, w, n, c, o)
        /\ OpenedAfter(w, n, l, m) => LinkOf(acc, o, l, m)

\* The record effect of such a workflow is its only one.
LEMMA RecordOnce ==
    ASSUME NEW c, NEW s, NEW l, NEW m, Carries(c, s, l, m), NEW w \in Workflows,
           Wf[w].action = "create", Wf[w].class = c,
           NEW i \in Effects(w), Wf[w].effects[i].type = "record",
           NEW j \in Effects(w), Wf[w].effects[j].type = "record"
    PROVE  i = j
  <1>1. Written(w, Wf[w].effects[i]) = c
    BY DEF Written
  <1> QED
    BY <1>1, CarriesOwn

\* An effect that registers a record of the class.
LEMMA RegistersStep ==
    ASSUME NEW d, NEW acc, NEW new, NEW w, NEW obj, NEW payload, NEW n,
           NEW k, NEW o, NEW status, NEW p,
           ReadStep(d, acc, new, w, obj, payload, n, k, o, status, p),
           NEW c, NEW s, NEW l, NEW m, Carries(c, s, l, m), k = c, o \in new.pending
    PROVE  /\ RegistersOne(new, w, n, c, o)
           /\ ~OpenedAfter(w, n, l, m)
           /\ Wf[w].effects[n].type = "record"
  <1> DEFINE e == Wf[w].effects[n]
  <1>1. /\ w \in Workflows /\ n \in Effects(w) /\ n \in Nat /\ n \in 1..n
        /\ \A j \in 1..n : j \in Effects(w) /\ j \in Nat /\ j <= n
        /\ Written(w, e) = c /\ o = Target(d, acc, w, payload, e) /\ new.res = "ok"
        /\ Context(d, acc, new, w, e) /\ Base(d, new, w, obj)
    BY DEF ReadStep, LinkStepFrom, Effected
  <1>2. e.type = "record" /\ Wf[w].class = c
    BY <1>1, CarriesOwn
  <1>3. ~Registered(d, o)
    BY <1>1 DEF Base, Grows
  <1>4. Creates(w, e)
    BY <1>3, ReadTarget
  <1> HIDE DEF e
  <1>5. Wf[w].action = "create"
    BY <1>2, <1>4 DEF Creates
  <1>6. new.ctx = o
    <2>1. new.ctx = Minted(d, acc, Wf[w].class)
      BY <1>1, <1>2, <1>5 DEF Context
    <2>2. o = Minted(d, acc, Written(w, e))
      BY <1>1, <1>2, <1>4 DEF Target
    <2> QED
      BY <1>1, <1>2, <2>1, <2>2
  <1>7. ~OpenedAfter(w, n, l, m)
    <2> SUFFICES ASSUME NEW i \in 1..n, NEW j \in 1..n, i < j,
                        Wf[w].effects[i].type = "record"
                 PROVE  FALSE
      BY DEF OpenedAfter
    <2>1. i = n
      BY <1>1, <1>2, <1>5, RecordOnce DEF e
    <2> QED
      BY <1>1, <2>1
  <1> QED
    BY <1>1, <1>2, <1>5, <1>6, <1>7 DEF RegistersOne, e

\* An effect that opens a link leaves one to the object of the templates.
LEMMA OpensStep ==
    ASSUME NEW d, NEW acc, NEW new, NEW w, NEW obj, NEW payload, NEW n,
           NEW k, NEW o, NEW status, NEW p,
           ReadStep(d, acc, new, w, obj, payload, n, k, o, status, p),
           NEW l, NEW m, OpensLink(w, n, l, m)
    PROVE  o \in new.pending /\ o \in Linked(new.db, l, acc.ctx, m)
  <1> DEFINE e == Wf[w].effects[n]
  <1>1. /\ e.type \in {"create_object", "open_link"}
        /\ e.class = l /\ NewStatus(l, e.status) = m /\ e.ref = "object"
    BY DEF OpensLink
  <1>2. /\ status = Moved(d, acc, w, payload, e) /\ p = Carried(d, acc, w, payload, e)
        /\ k = Written(w, e) /\ Base(d, new, w, obj)
    BY DEF ReadStep, LinkStepFrom
  <1> HIDE DEF e
  <1>3. k = l /\ Creates(w, e)
    BY <1>1, <1>2 DEF Written, Creates
  <1>4. status = m
    BY <1>1, <1>2, <1>3 DEF Moved, Declared, NewStatus
  <1>5. p.ref = acc.ctx
    <2>1. p = EffectPayload(acc, e, payload)
      BY <1>1, <1>2 DEF Carried
    <2> QED
      BY <1>1, <2>1 DEF EffectPayload
  <1>6. o \in Objects /\ Live(new.db, o, l, m) /\ ~Registered(d, o)
    BY <1>3, <1>4, ReadTarget DEF Live, e
  <1>7. RefOf(new.db, o) = acc.ctx
    BY <1>5, ReadOthers
  <1>8. o \in new.pending
    BY <1>2, <1>6 DEF Base, Grows, Live
  <1> QED
    BY <1>6, <1>7, <1>8, LinkedMeans

LEMMA NewCarriedStep ==
    ASSUME NEW d, NEW acc, NEW new, NEW w, NEW obj, NEW payload, NEW n,
           LinkStepFrom(d, acc, new, w, obj, payload, n),
           NEW c, NEW s, NEW l, NEW m, Carries(c, s, l, m),
           NewCarried(acc, w, n - 1, c, l, m)
    PROVE  NewCarried(new, w, n, c, l, m)
  <1> DEFINE e == Wf[w].effects[n]
  <1>1. /\ w \in Workflows /\ n \in Effects(w) /\ n \in Nat /\ n \in 1..n
        /\ 1..(n - 1) \subseteq 1..n
        /\ \A i, j \in 1..n : i < j => i \in 1..(n - 1) /\ (j \in 1..(n - 1) \/ j = n)
        /\ \A j \in 1..n : j \in Effects(w) /\ (j \in 1..(n - 1) => j # n)
        /\ Context(d, acc, new, w, e) /\ Base(d, acc, w, obj) /\ Base(d, new, w, obj)
    BY DEF LinkStepFrom, Effected
  <1> SUFFICES ASSUME NEW u \in new.pending, ClassOf[u] = c
               PROVE  /\ RegistersOne(new, w, n, c, u)
                      /\ OpenedAfter(w, n, l, m) => LinkOf(new, u, l, m)
    BY DEF NewCarried
  <1>2. ASSUME u \in acc.pending PROVE RegistersOne(new, w, n, c, u) /\ acc.ctx = u
    <2>1. RegistersOne(acc, w, n - 1, c, u)
      BY <1>2 DEF NewCarried
    <2>2. PICK i \in 1..(n - 1) : Wf[w].effects[i].type = "record"
      BY <2>1 DEF RegistersOne
    <2>3. acc.ctx = u /\ Wf[w].action = "create" /\ Wf[w].class = c
      BY <2>1 DEF RegistersOne
    <2>4. e.type # "record"
      BY <1>1, <2>2, <2>3, RecordOnce
    <2>5. new.ctx = acc.ctx
      BY <1>1, <2>4 DEF Context
    <2> QED
      BY <1>1, <2>2, <2>3, <2>5 DEF RegistersOne
  <1>3. ASSUME OpenedAfter(w, n, l, m)
        PROVE  OpenedAfter(w, n - 1, l, m) \/ OpensLink(w, n, l, m)
    BY <1>1, <1>3 DEF OpenedAfter
  <1>4. CASE Idle(acc, new) /\ Skips(d, acc, w, payload, e)
    <2>1. u \in acc.pending /\ new.db = acc.db /\ new.pending = acc.pending
      BY <1>4 DEF Idle
    <2>2. ~OpensLink(w, n, l, m)
      BY <1>4 DEF Skips, OpensLink
    <2> QED
      BY <1>2, <1>3, <2>1, <2>2 DEF NewCarried, LinkOf
  <1>5. ASSUME NEW k, NEW o, NEW status, NEW p,
               ReadStep(d, acc, new, w, obj, payload, n, k, o, status, p)
        PROVE  /\ RegistersOne(new, w, n, c, u)
               /\ OpenedAfter(w, n, l, m) => LinkOf(new, u, l, m)
    <2>1. acc.pending \subseteq new.pending /\ new.pending \subseteq acc.pending \cup {o}
      BY <1>5, ReadOthers
    <2>2. CASE u \notin acc.pending
      <3>1. u = o
        BY <2>1, <2>2
      <3>2. k = c
        <4>1. o \in Objects /\ Registered(new.db, o) /\ new.db.objects[o].class = k
          BY <1>5, ReadTarget
        <4> QED
          BY <1>1, <3>1, <4>1 DEF Base, Classed
      <3> QED
        BY <1>5, <3>1, <3>2, RegistersStep
    <2>3. CASE u \in acc.pending
      <3>1. RegistersOne(new, w, n, c, u) /\ acc.ctx = u
        BY <1>2, <2>3
      <3>2. CASE OpensLink(w, n, l, m)
        BY <1>5, <3>1, <3>2, OpensStep DEF LinkOf
      <3>3. ASSUME OpenedAfter(w, n - 1, l, m) PROVE LinkOf(new, u, l, m)
        <4>1. PICK a \in acc.pending : a \in Linked(acc.db, l, u, m)
          BY <2>3, <3>3 DEF NewCarried, LinkOf
        <4>2. a \in Objects /\ ~Registered(d, a)
          BY <1>1, <4>1 DEF Base, Grows
        <4>3. a # o
          BY <1>5, <4>1, <4>2, ReadTarget
        <4>4. Live(acc.db, a, l, m) /\ RefOf(acc.db, a) = u
          BY <4>1, <4>2, LinkedMeans
        <4>5. Live(new.db, a, l, m) /\ RefOf(new.db, a) = u
          BY <1>5, <4>2, <4>3, <4>4, ReadOthers
        <4> QED
          BY <2>1, <4>1, <4>2, <4>5, LinkedMeans DEF LinkOf
      <3> QED
        BY <1>3, <3>1, <3>2, <3>3
    <2> QED
      BY <2>2, <2>3
  <1> QED
    BY <1>4, <1>5, StepReads

\* The three together, after n effects.
CarryWalk(d, acc, w, obj, n, c, s, l, m) ==
    /\ LinksKept(d, acc, w, obj, c, s, l, m)
    /\ StatusKept(d, acc, w, obj, n, c, s)
    /\ NewCarried(acc, w, n, c, l, m)

LEMMA CarryStep ==
    ASSUME NEW d, NEW acc, NEW new, NEW w, NEW obj, NEW payload, NEW n,
           LinkStepFrom(d, acc, new, w, obj, payload, n),
           NEW c, NEW s, NEW l, NEW m, Carries(c, s, l, m),
           OfClass(d, w, obj),
           CarryWalk(d, acc, w, obj, n - 1, c, s, l, m)
    PROVE  CarryWalk(d, new, w, obj, n, c, s, l, m)
  <1>1. /\ LinksKept(d, acc, w, obj, c, s, l, m)
        /\ StatusKept(d, acc, w, obj, n - 1, c, s)
        /\ NewCarried(acc, w, n - 1, c, l, m)
    BY DEF CarryWalk
  <1>2. LinksKept(d, new, w, obj, c, s, l, m)
    <2>1. CASE Idle(acc, new)
      BY <1>1, <2>1 DEF Idle, LinksKept
    <2>2. ASSUME NEW k, NEW o, NEW status, NEW p,
                 ReadStep(d, acc, new, w, obj, payload, n, k, o, status, p)
          PROVE  LinksKept(d, new, w, obj, c, s, l, m)
      BY <1>1, <2>2, LinksKeptStep
    <2> QED
      BY <2>1, <2>2, StepReads
  <1>3. StatusKept(d, new, w, obj, n, c, s)
    BY <1>1, StatusKeptStep
  <1>4. NewCarried(new, w, n, c, l, m)
    BY <1>1, NewCarriedStep
  <1> QED
    BY <1>2, <1>3, <1>4 DEF CarryWalk

LEMMA WalkCarries ==
    ASSUME NEW d, NEW w, NEW obj, NEW payload, Sound(d, w, obj, payload),
           NEW c, NEW s, NEW l, NEW m, Carries(c, s, l, m),
           OfClass(d, w, obj),
           Walk(d, w, obj, payload)[Last(w)].res = "ok"
    PROVE  CarryWalk(d, Walk(d, w, obj, payload)[Last(w)], w, obj, Last(w), c, s, l, m)
  <1> DEFINE g == Walk(d, w, obj, payload)
             N == Last(w)
             Good == {i \in 0..N : g[i].res = "ok" => CarryWalk(d, g[i], w, obj, i, c, s, l, m)}
  <1>1. N \in Nat /\ g[0] = NoWrites(d, obj)
    BY WalkTrace DEF Sound
  <1>2. \A i \in 1..N : g[i].res = "ok" =>
            g[i - 1].res = "ok" /\ LinkStepFrom(d, g[i - 1], g[i], w, obj, payload, i)
    BY WalkLinkStep
  <1> HIDE DEF g, N
  <1>3. 0 \in Good
    <2>1. g[0].db = d /\ g[0].pending = {}
      BY <1>1 DEF NoWrites
    <2>2. LinksKept(d, g[0], w, obj, c, s, l, m)
      BY <2>1 DEF LinksKept
    <2>3. StatusKept(d, g[0], w, obj, 0, c, s)
      BY <2>1 DEF StatusKept
    <2>4. NewCarried(g[0], w, 0, c, l, m)
      BY <2>1 DEF NewCarried
    <2>5. CarryWalk(d, g[0], w, obj, 0, c, s, l, m)
      BY <2>2, <2>3, <2>4 DEF CarryWalk
    <2> QED
      BY <1>1, <2>5
  <1>4. ASSUME NEW i \in 1..N, i - 1 \in Good PROVE i \in Good
    <2> SUFFICES ASSUME g[i].res = "ok" PROVE CarryWalk(d, g[i], w, obj, i, c, s, l, m)
      BY <1>1
    <2>1. g[i - 1].res = "ok" /\ LinkStepFrom(d, g[i - 1], g[i], w, obj, payload, i)
      BY <1>2
    <2>2. CarryWalk(d, g[i - 1], w, obj, i - 1, c, s, l, m)
      BY <1>4, <2>1
    <2> QED
      BY <2>1, <2>2, CarryStep
  <1>5. N \in Good
    <2> HIDE DEF Good
    <2> QED
      BY <1>1, <1>3, <1>4, WalkInduction
  <1> QED
    BY <1>5 DEF g, N

CarriedIn(d, c, s, l, m) ==
    \A o \in Objects :
        Registered(d, o) /\ d.objects[o].class = c /\ d.objects[o].status = s
            => Linked(d, l, o, m) # {}

\* A decision leaves no record without the link it carries.
LEMMA DecisionCarries ==
    ASSUME NEW d, NEW w, NEW obj, NEW payload, Sound(d, w, obj, payload),
           NEW c, NEW s, NEW l, NEW m, Carries(c, s, l, m),
           CarriedIn(d, c, s, l, m), OfClass(d, w, obj),
           Walk(d, w, obj, payload)[Last(w)].res = "ok"
    PROVE  CarriedIn(Walk(d, w, obj, payload)[Last(w)].db, c, s, l, m)
  <1> DEFINE acc == Walk(d, w, obj, payload)[Last(w)]
  <1>1. CarryWalk(d, acc, w, obj, Last(w), c, s, l, m)
    BY WalkCarries
  <1>2. Last(w) \in Nat /\ Effects(w) = 1..Last(w) /\ Last(w) \in 0..Last(w) /\ w \in Workflows
    BY WalkTrace DEF Sound
  <1>3. Base(d, acc, w, obj) /\ Classed(d)
    BY <1>2, WalkBase DEF Sound
  <1> HIDE DEF acc
  <1> SUFFICES ASSUME NEW o \in Objects, Registered(acc.db, o), acc.db.objects[o].class = c,
                      acc.db.objects[o].status = s
               PROVE  Linked(acc.db, l, o, m) # {}
    BY DEF CarriedIn, acc
  <1>4. ClassOf[o] = c /\ Live(acc.db, o, c, s)
    BY <1>3 DEF Base, Classed, Live
  <1>5. CASE Registered(d, o)
    <2>1. Live(d, o, c, s)
      BY <1>1, <1>4, <1>5 DEF CarryWalk, StatusKept
    <2>2. PICK a \in Objects : a \in Linked(d, l, o, m)
      BY <2>1 DEF CarriedIn, Linked, Live
    <2>3. ~(o = obj /\ Ending(w, c, s))
      BY <1>1, <1>2, <1>4 DEF CarryWalk, StatusKept, Ending
    <2> QED
      BY <1>1, <2>2, <2>3 DEF CarryWalk, LinksKept
  <1>6. CASE ~Registered(d, o)
    <2>1. o \in acc.pending
      BY <1>3, <1>6 DEF Base, Grows
    <2>2. RegistersOne(acc, w, Last(w), c, o)
      BY <1>1, <1>4, <2>1 DEF CarryWalk, NewCarried
    <2>3. PICK i \in Effects(w) : Wf[w].effects[i].type = "record"
      BY <1>2, <2>2 DEF RegistersOne
    <2>4. Wf[w].action = "create" /\ Written(w, Wf[w].effects[i]) = c
      BY <2>2, <2>3 DEF RegistersOne, Written
    <2>5. \E j \in Effects(w) : i < j /\ OpensLink(w, j, l, m)
      BY <1>2, <2>4, CarriesOwn
    <2>6. OpenedAfter(w, Last(w), l, m)
      BY <1>2, <2>3, <2>5 DEF OpenedAfter
    <2> QED
      BY <1>1, <1>4, <2>1, <2>6 DEF CarryWalk, NewCarried, LinkOf
  <1> QED
    BY <1>5, <1>6

\* Where a pack registers a record together with its link, ends the link only
\* where it moves the record out of the carrying status, and never moves it back,
\* no record in that status is ever without its link, however decisions race
\* (effectOps, closeLinkOps).
THEOREM LinksAreCarried == Spec => []LinksCarried
  <1>1. Init => LinksCarried
    <2> SUFFICES ASSUME db = SeedDb, NEW x \in Carriages, NEW o \in Objects,
                        Registered(db, o), db.objects[o].class = x[1]
                 PROVE  \E a \in Objects : a \in Linked(db, x[3], o, x[4])
      BY DEF Init, LinksCarried
    <2>1. Seed[o] # None /\ ClassOf[o] = x[1]
      BY SeedTables
    <2>2. Carries(x[1], x[2], x[3], x[4])
      BY PackKeepsLinks
    <2>3. /\ Class[x[3]].initial = x[4]
          /\ \E a \in Objects : Seed[a] # None /\ ClassOf[a] = x[3] /\ Seed[a].ref = o
      BY <2>1, <2>2 DEF Carries
    <2>4. PICK a \in Objects : Seed[a] # None /\ ClassOf[a] = x[3] /\ Seed[a].ref = o
      BY <2>3
    <2>5. /\ Registered(db, a) /\ db.objects[a].class = x[3]
          /\ db.objects[a].status = x[4] /\ HeadVersion(db, a).ref = o
      BY <2>3, <2>4, SeedTables
    <2> QED
      BY <2>5 DEF Linked
  <1>2. RegInv /\ AboutInv /\ RefInv /\ LinksCarried /\ [Next]_vars => LinksCarried'
    <2> SUFFICES ASSUME RegInv, AboutInv, RefInv, LinksCarried, [Next]_vars,
                        NEW x \in Carriages
                 PROVE  CarriedIn(db', x[1], x[2], x[3], x[4])
      BY DEF LinksCarried, CarriedIn
    <2>1. /\ Carries(x[1], x[2], x[3], x[4])
          /\ CarriedIn(db, x[1], x[2], x[3], x[4])
      BY PackKeepsLinks DEF LinksCarried, CarriedIn
    <2>2. CASE Alike(db, db')
      BY <2>1, <2>2, AlikeLinked DEF RegInv, CarriedIn, Alike
    <2>3. ASSUME NEW row, NEW done, Approval(row, done)
          PROVE  CarriedIn(db', x[1], x[2], x[3], x[4])
      <3>1. OfClass(db, row.wf, row.obj)
        BY <2>3 DEF Approval, About, OfClass
      <3> QED
        BY <2>1, <2>3, <3>1, ApprovalSound, DecisionCarries
    <2> QED
      BY <2>2, <2>3, StepApproves
  <1> QED
    BY <1>1, <1>2, RecordInvariant, ProposalsKeepTheirRecord, ReferenceInvariant, PTL DEF Spec
=============================================================================
