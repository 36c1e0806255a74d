------------------------------ MODULE Lineage -------------------------------
(***************************************************************************)
(* Checkpoints, the lineage chain and audits                               *)
(* (internal/register/checkpoints.go, audit.go, the evidence reads of      *)
(* query.go, the history collection of retention.go) and the offline       *)
(* checks of cmd/register-verify.                                          *)
(*                                                                         *)
(* The ledger is a sequence of commits.  A root commits to everything up   *)
(* to its version and a head to the roots before it, so a root is modelled *)
(* by the commits it covers and a head by the links it was folded from:    *)
(* two hashes are equal exactly when what they cover is.                   *)
(* Checkpoints lie beside the ledger, keyed by version; the last one is    *)
(* also held in memory.  The volume may be restored from a backup, which   *)
(* takes the ledger and its checkpoints back together.                     *)
(***************************************************************************)
EXTENDS Naturals, Sequences, FiniteSets

CONSTANTS
    Contents,       \* what a commit may write
    MaxVersion,     \* bound: versions of the ledger
    MaxRestores,    \* bound: restores from a backup
    MaxHeld,        \* bound: checkpoints the customer keeps
    None

ASSUME BoundIsNat == MaxVersion \in Nat

VARIABLES
    hist,       \* the commits of the ledger; version = Len(hist)
    oldest,     \* ledger.Prune: root records below this version are gone
    ckpts,      \* the checkpoint keyspace: version -> checkpoint or None
    last,       \* Register.lastCkpt
    held,       \* checkpoints the customer kept
    bundle,     \* the evidence the last step gave out
    lastAudit,  \* the anchor of the last closed audit
    backup,     \* a copy of the volume
    lost,       \* histories a restore abandoned
    restores

disk == <<hist, oldest, ckpts>>
vars == <<disk, last, held, bundle, lastAudit, backup, lost, restores>>

Versions == 0..MaxVersion

----------------------------------------------------------------------------
(* The ledger (external), as the register uses it.                         *)

RootAt(h, v) == SubSeq(h, 1, v)
HistoryLink(head, prevRoot, v) == Append(head, <<prevRoot, v>>)
HeadAt(h, v) == [i \in 1..v |-> <<RootAt(h, i - 1), i>>]
Version == Len(hist)

\* VerifyHistory walks the root records from the anchor to the live version.
VerifyHistory(v, head) ==
    /\ oldest <= v
    /\ v <= Version
    /\ head = HeadAt(hist, v)

\* Roots: what the register serves for (from, to], from a history it kept.
RootsOf(h, from, to) == [i \in 1..(to - from) |-> RootAt(h, from + i)]

----------------------------------------------------------------------------
(* Checkpoints.                                                            *)

Refs == [version : Nat, root : Seq(Contents)]
Checkpoints == [version : Nat, root : Seq(Contents), head : Seq(Seq(Contents) \X Nat),
                previous : Refs \cup {None}]
ASSUME NoneIsNoCheckpoint == None \notin Checkpoints

Ref(c) == IF c = None THEN None ELSE [version |-> c.version, root |-> c.root]

\* issueCheckpoint: nothing when the state has not moved.
Checkpoint == [version |-> Version, root |-> RootAt(hist, Version),
               head |-> HeadAt(hist, Version), previous |-> Ref(last)]
Moved == last = None \/ last.version # Version

Issue ==
    IF Moved
    THEN /\ ckpts' = [ckpts EXCEPT ![Version] = Checkpoint]
         /\ last' = Checkpoint
    ELSE UNCHANGED <<ckpts, last>>

\* loadLastCheckpoint: the newest of the keyspace.
OldestOf(ks) ==
    LET vs == {v \in Versions : ks[v] # None}
    IN  IF vs = {} THEN None ELSE ks[CHOOSE v \in vs : \A w \in vs : w >= v]
NewestOf(ks) ==
    LET vs == {v \in Versions : ks[v] # None}
    IN  IF vs = {} THEN None ELSE ks[CHOOSE v \in vs : \A w \in vs : w <= v]

\* Whoever is given a checkpoint may keep it.
Keep(c) == held' = held \/ (Cardinality(held) < MaxHeld /\ held' = held \cup {c})

\* IssueCheckpoint, scheduled, manual or at bootstrap: the caller is given it.
IssueCheckpoint ==
    /\ Issue
    /\ Keep(last')
    /\ bundle' = None
    /\ UNCHANGED <<hist, oldest, lastAudit, backup, lost, restores>>

\* anchorCurrentState
AnchorStale == IF last = None THEN Issue ELSE UNCHANGED <<ckpts, last>>
AnchorCurrentState == Issue

\* Evidence: the state is anchored first, then read, under one lock.
Evidence ==
    /\ AnchorCurrentState
    /\ bundle' = [version |-> Version, root |-> RootAt(hist, Version), anchor |-> last']
    /\ Keep(last')
    /\ UNCHANGED <<hist, oldest, lastAudit, backup, lost, restores>>

----------------------------------------------------------------------------
(* Commits, audits and retention.                                          *)

\* Any governance action: one commit, one version.
Commit(x) ==
    /\ Version < MaxVersion
    /\ hist' = Append(hist, x)
    /\ bundle' = None
    /\ UNCHANGED <<oldest, ckpts, last, held, lastAudit, backup, lost, restores>>

\* Audit: verify from an anchor, sign a new one, commit the audit transaction,
\* and collect.  `upto` is where the call ends: it completes, or its commit
\* fails after the anchor was signed, or the process stops before the prune.
PruneAt(v) == v

Audit(from, x, collect, upto) ==
    /\ VerifyHistory(from.version, from.head)
    /\ Version < MaxVersion
    /\ Issue
    /\ hist' = IF upto = "anchor" THEN hist ELSE Append(hist, x)
    /\ IF upto = "done"
       THEN /\ Keep(last')
            /\ lastAudit' = last'
            /\ oldest' = IF collect /\ PruneAt(last'.version) > oldest
                         THEN PruneAt(last'.version) ELSE oldest
       ELSE UNCHANGED <<held, lastAudit, oldest>>
    /\ bundle' = None
    /\ UNCHANGED <<backup, lost, restores>>

\* Prune with collect_history: the transaction commits and the ledger's
\* history before it goes, or the process stops between the two.
PruneCollecting(x) ==
    /\ Version < MaxVersion
    /\ hist' = Append(hist, x)
    /\ oldest' \in {oldest, IF Version > oldest THEN Version ELSE oldest}
    /\ bundle' = None
    /\ UNCHANGED <<ckpts, last, held, lastAudit, backup, lost, restores>>

----------------------------------------------------------------------------
(* Restarts and backups.                                                   *)

Restart ==
    /\ last' = NewestOf(ckpts)
    /\ bundle' = None
    /\ UNCHANGED <<disk, held, lastAudit, backup, lost, restores>>

Backup ==
    /\ backup = None
    /\ backup' = [hist |-> hist, oldest |-> oldest, ckpts |-> ckpts]
    /\ bundle' = None
    /\ UNCHANGED <<disk, last, held, lastAudit, lost, restores>>

Restore ==
    /\ backup # None
    /\ restores < MaxRestores
    /\ hist' = backup.hist
    /\ oldest' = backup.oldest
    /\ ckpts' = backup.ckpts
    /\ last' = NewestOf(backup.ckpts)
    /\ lost' = lost \cup {hist}
    /\ restores' = restores + 1
    /\ bundle' = None
    /\ UNCHANGED <<held, lastAudit, backup>>

\* An audit starts from genesis or from an anchor the customer kept.
Genesis == [version |-> 0, head |-> <<>>]

Init ==
    /\ hist = <<>> /\ oldest = 0
    /\ ckpts = [v \in Versions |-> None]
    /\ last = None
    /\ held = {} /\ bundle = None /\ lastAudit = None
    /\ backup = None /\ lost = {} /\ restores = 0

Next ==
    \/ \E x \in Contents :
        \/ Commit(x)
        \/ \E from \in held \cup {Genesis}, collect \in BOOLEAN,
              upto \in {"anchor", "commit", "done"} : Audit(from, x, collect, upto)
        \/ PruneCollecting(x)
    \/ IssueCheckpoint
    \/ Evidence
    \/ Restart
    \/ Backup
    \/ Restore

Spec == Init /\ [][Next]_vars

----------------------------------------------------------------------------
(* cmd/register-verify.                                                    *)

\* verifyChain: no version is claimed with two different roots.
ChainConsistent(cs) == \A a, b \in cs : a.version = b.version => a.root = b.root

\* The loop of VerifyAnchors: each root read makes one link, with the root before
\* it, and the head after the last is compared.
AfterRoots(from, roots) ==
    LET after[i \in 0..Len(roots)] ==
            IF i = 0 THEN [head |-> from.head, prev |-> from.root]
            ELSE [head |-> HistoryLink(after[i - 1].head, after[i - 1].prev, from.version + i),
                  prev |-> roots[i]]
    IN  after
FoldedHead(from, roots) == AfterRoots(from, roots)[Len(roots)].head

\* VerifyAnchors: the roots fold from the earlier head to the later one.
VerifyAnchorsLengthOnly(from, to, roots) ==
    to.version >= from.version /\ Len(roots) = to.version - from.version
VerifyAnchors(from, to, roots) ==
    /\ to.version >= from.version
    /\ Len(roots) = to.version - from.version
    /\ FoldedHead(from, roots) = to.head
    /\ roots # <<>> => roots[Len(roots)] = to.root

----------------------------------------------------------------------------
(* Properties.                                                             *)

IsCheckpoint(c) ==
    /\ c.version \in Versions
    /\ c.root \in Seq(Contents) /\ Len(c.root) = c.version
    /\ Len(c.head) = c.version
    /\ c.previous # None => c.previous.version < c.version

TypeOK ==
    /\ hist \in Seq(Contents) /\ Version <= MaxVersion
    /\ oldest \in 0..Version
    /\ \A v \in Versions : ckpts[v] # None => IsCheckpoint(ckpts[v]) /\ ckpts[v].version = v
    /\ last # None => IsCheckpoint(last)
    /\ \A c \in held : IsCheckpoint(c)
    /\ restores \in 0..MaxRestores

\* Every stored checkpoint names the one stored before it, version and root,
\* across restarts, restores and audits that stopped half way ("each one names
\* the version and root of the one before it").
ChainLinked ==
    \A v \in Versions : ckpts[v] # None =>
        LET before == {w \in Versions : w < v /\ ckpts[w] # None}
        IN  IF before = {} THEN ckpts[v].previous = None
            ELSE \E w \in before : /\ \A u \in before : u <= w
                                   /\ ckpts[v].previous = Ref(ckpts[w])

\* What any evidence was read at is exactly what its checkpoint attests, also
\* when the register was restored in between (VerifyBundleAgainstCheckpoint).
EvidenceAnchored ==
    bundle # None =>
        bundle.anchor.version = bundle.version /\ bundle.anchor.root = bundle.root

Same(a, b) == RootAt(b.root, a.version) = a.root

\* Two checkpoints of different histories never pass both offline checks,
\* whichever history the register serves the roots from; and two of one history
\* pass whenever the register still has it.  The lineage check alone does not
\* see two roots of one version, the chain check alone does not see a fork that
\* was never signed twice at one version.
ForksCaught ==
    \A a, b \in held : a.version <= b.version =>
        /\ \A h \in {hist} \cup lost :
            (/\ Len(h) >= b.version
             /\ ChainConsistent({a, b})
             /\ VerifyAnchors(a, b, RootsOf(h, a.version, b.version))) => Same(a, b)
        /\ (Version >= b.version /\ RootAt(hist, b.version) = b.root /\ Same(a, b))
            => VerifyAnchors(a, b, RootsOf(hist, a.version, b.version))

\* What docs/architecture.md says of collecting history: "verification has to
\* come first, because pruning destroys the root records the check walks".  The
\* anchor of the last closed audit is then a starting point the next one can
\* verify from, as long as the register still is on its history.
NextAuditPossible ==
    (/\ lastAudit # None /\ Version >= lastAudit.version
     /\ RootAt(hist, lastAudit.version) = lastAudit.root)
        => VerifyHistory(lastAudit.version, lastAudit.head)

=============================================================================
