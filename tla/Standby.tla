------------------------------ MODULE Standby -------------------------------
(***************************************************************************)
(* The warm standby (cmd/register/standby.go) and the export and import it *)
(* is made of (internal/register/admin.go).                                *)
(*                                                                         *)
(* The standby copies the primary's ledger leaf by leaf, in pages.  A page *)
(* is read under the primary's lock and imported under the standby's; the  *)
(* primary commits between two pages, so a copy may be put together from   *)
(* several versions.  Meanwhile the standby is a register of its own: its  *)
(* first start writes leaves and it answers requests.                      *)
(*                                                                         *)
(* A root commits to every leaf, so it is modelled by the leaves.  Restore *)
(* and the version stamp are the ledger's (external), as Import uses them: *)
(* leaves are put where they were, and none is removed.                    *)
(***************************************************************************)
EXTENDS Naturals, Sequences, FiniteSets

CONSTANTS
    Paths,          \* leaf positions: numbers, in the order an export walks them
    Values,         \* what the primary may store in a leaf
    Own,            \* what the standby's own start or requests store
    Absent,         \* no leaf at this position
    First,          \* the primary's leaves at its first version
    Started,        \* what a standby's first start may have left in its store
    PageSize,       \* the export's limit
    MaxVersion,     \* bound: versions of the primary
    MaxLeaves,      \* bound: leaves one commit changes
    MaxLocal,       \* bound: requests that write to the standby
    MaxFailures,    \* bound: pulls that fail and restarts
    None

Leaves == [Paths -> Values \cup {Absent}]
Store  == [Paths -> Values \cup {Absent, Own}]

ASSUME PathsAreOrdered == Paths \subseteq Nat \ {0}
ASSUME PageHoldsALeaf == PageSize \in Nat \ {0}
ASSUME StartsWithLeaves == First \in Leaves /\ Started \subseteq Store
\* What the standby writes carries its own transaction's identifier.
ASSUME OwnIsForeign == Own \notin Values \cup {Absent}

VARIABLES
    hist,       \* the primary's leaves, version by version
    store,      \* the standby's leaves
    version,    \* the standby's ledger version
    pull,       \* followPrimary's progress through pullOnce
    report,     \* standbyState, or None before the first pull has ended
    local, failures

vars == <<hist, store, version, pull, report, local, failures>>

Primary == hist[Len(hist)]
Waiting == [at |-> "tick", after |-> 0, chunk |-> None, status |-> None]

----------------------------------------------------------------------------
(* The primary.                                                            *)

\* A governance action: one commit, one version; leaves are put and deleted.
Commit(ps, vs) ==
    /\ Len(hist) < MaxVersion
    /\ hist' = Append(hist, [p \in Paths |-> IF p \in ps THEN vs[p] ELSE Primary[p]])
    /\ \A p \in ps : vs[p] # Primary[p]
    /\ UNCHANGED <<store, version, pull, report, local, failures>>

\* SnapshotLeaves: the leaves after a position, in order, up to the limit.
LaterOrAt(after) == {p \in Paths : p >= after /\ Primary[p] # Absent}
Later(after) == {p \in Paths : p > after /\ Primary[p] # Absent}
Page(after) ==
    {p \in Later(after) : Cardinality({q \in Later(after) : q < p}) < PageSize}

\* Export: root, version and page are read under one lock.
Export(after) ==
    [version |-> Len(hist), root |-> Primary,
     leaves |-> Page(after), done |-> Page(after) = Later(after)]

----------------------------------------------------------------------------
(* followPrimary and pullOnce.                                             *)

\* Whatever ends the pull with an error is reported.
FailQuietly ==
    /\ pull' = Waiting
    /\ UNCHANGED report
Fail ==
    /\ pull' = Waiting
    /\ report' = [healthy |-> FALSE]

StartPull ==
    /\ pull.at = "tick"
    /\ pull' = [Waiting EXCEPT !.at = "fetch"]
    /\ UNCHANGED <<hist, store, version, report, local, failures>>

\* fetchChunk, answered by the primary.
FetchChunk ==
    /\ pull.at = "fetch"
    /\ pull' = [pull EXCEPT !.at = "import", !.chunk = Export(pull.after)]
    /\ UNCHANGED <<hist, store, version, report, local, failures>>

\* The primary cannot be reached, refuses, or answers with something else; or
\* the standby's own status cannot be read.
PullFails ==
    /\ pull.at \in {"fetch", "status"}
    /\ failures < MaxFailures /\ failures' = failures + 1
    /\ Fail
    /\ UNCHANGED <<hist, store, version, local>>

Restored == [p \in Paths |-> IF p \in pull.chunk.leaves THEN pull.chunk.root[p] ELSE store[p]]

\* Import of a page that is not the last: the next one starts after it.
ImportPage ==
    /\ pull.at = "import" /\ ~pull.chunk.done
    /\ store' = Restored
    /\ pull' = [pull EXCEPT !.at = "fetch",
                            !.after = CHOOSE p \in pull.chunk.leaves : \A q \in pull.chunk.leaves : q <= p]
    /\ UNCHANGED <<hist, version, report, local, failures>>

\* Import of the last page: the version is stamped, and the restored root has
\* to be the root the page came with.
ImportLast ==
    /\ pull.at = "import" /\ pull.chunk.done
    /\ store' = Restored
    /\ version' = pull.chunk.version
    /\ IF Restored = pull.chunk.root
       THEN pull' = [pull EXCEPT !.at = "status"] /\ UNCHANGED report
       ELSE Fail
    /\ UNCHANGED <<hist, local, failures>>

\* Restoring or stamping fails, the leaves already in place or not.
ImportFails ==
    /\ pull.at = "import"
    /\ failures < MaxFailures /\ failures' = failures + 1
    /\ store' \in {store, Restored}
    /\ Fail
    /\ UNCHANGED <<hist, version, local>>

\* Status: the standby's root and version, read under a lock of their own.
ReadStatus ==
    /\ pull.at = "status"
    /\ pull' = [pull EXCEPT !.at = "report", !.status = [root |-> store, version |-> version]]
    /\ UNCHANGED <<hist, store, version, report, local, failures>>

\* What setStandbyState is given.
PositionAssumed == [healthy |-> TRUE, primary |-> pull.chunk.version, local |-> pull.status]
Position == [healthy |-> pull.status.root = pull.chunk.root,
             primary |-> pull.chunk.version, local |-> pull.status]
Report ==
    /\ pull.at = "report"
    /\ report' = Position
    /\ pull' = Waiting
    /\ UNCHANGED <<hist, store, version, local, failures>>

----------------------------------------------------------------------------
(* The standby's own life.                                                 *)

\* A request the standby answers writes to its store.
LocalWrite(p) ==
    /\ local < MaxLocal
    /\ store[p] # Own
    /\ local' = local + 1
    /\ store' = [store EXCEPT ![p] = Own]
    /\ version' = version + 1
    /\ UNCHANGED <<hist, pull, report, failures>>

\* The pull and the report are in memory; the store, its pack already in line,
\* is as it was.
Restart ==
    /\ failures < MaxFailures /\ failures' = failures + 1
    /\ pull' = Waiting /\ report' = None
    /\ UNCHANGED <<hist, store, version, local>>

Init ==
    /\ hist = <<First>>
    /\ store \in Started /\ version = 0
    /\ pull = Waiting /\ report = None
    /\ local = 0 /\ failures = 0

PullStep == StartPull \/ FetchChunk \/ ImportPage \/ ImportLast \/ ReadStatus \/ Report

Next ==
    \/ \E ps \in {q \in SUBSET Paths : Cardinality(q) \in 1..MaxLeaves} :
        \E vs \in [ps -> Values \cup {Absent}] : Commit(ps, vs)
    \/ PullStep
    \/ PullFails \/ ImportFails
    \/ \E p \in Paths : LocalWrite(p)
    \/ Restart

Spec == Init /\ [][Next]_vars

\* The ticker goes on and a pull that began is carried on; every request has a
\* timeout.
FairSpec == Spec /\ WF_vars(PullStep)

----------------------------------------------------------------------------
(* Properties.                                                             *)

Snapshots == {"tick", "fetch", "import", "status", "report"}
TypeOK ==
    /\ hist \in Seq(Leaves) /\ hist # <<>>
    /\ store \in Store /\ version \in Nat
    /\ DOMAIN pull = {"at", "after", "chunk", "status"} /\ pull.at \in Snapshots
    /\ pull.at \in {"import", "status", "report"} =>
        /\ pull.chunk.version \in 1..Len(hist)
        /\ pull.chunk.root = hist[pull.chunk.version]
        /\ pull.chunk.leaves \subseteq {p \in Paths : pull.chunk.root[p] # Absent}

Healthy == report # None /\ report.healthy

\* A standby that says it is healthy held, when it looked, exactly the leaves
\* the primary had at the version it names: no copy put together from two
\* versions, and none with a leaf of the standby's own, is reported as one ("a
\* standby that cannot prove it matches is not a standby").
HealthyIsCopy ==
    Healthy => report.local = [root |-> hist[report.primary], version |-> report.primary]

\* Between two pulls a healthy report describes the store that a promotion
\* would take, unless the standby itself was written to since: a pull that
\* broke off half way has withdrawn it ("the same check is what makes a
\* promotion safe").
CopyBetweenPulls ==
    Healthy /\ pull.at = "tick" /\ (\A p \in Paths : store[p] # Own)
        => store = hist[report.primary]

\* Leaves only the standby has: its own, or deleted on the primary since they
\* were copied.  Import never removes one.
Strays == {p \in Paths : store[p] # Absent /\ Primary[p] = Absent}

\* Once the primary is quiet the standby becomes a copy of it and says so, after
\* any failures and restarts (followPrimary); the one exception the code has is
\* a store that holds a leaf the primary does not.
CatchesUp == <>[](Strays # {}) \/ <>[](Healthy /\ store = Primary)

=============================================================================
