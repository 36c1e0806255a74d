---------------------------- MODULE LineageProofs ---------------------------
(***************************************************************************)
(* For any contents and any length of history, across restarts, restores   *)
(* and audits that stop half way: every stored checkpoint names the one    *)
(* before it, evidence is given out with the checkpoint that attests the   *)
(* state it was read at, and the offline checks tell two histories apart.  *)
(***************************************************************************)
EXTENDS Lineage, WellFoundedInduction, TLAPS

\* The checkpoints kept beside a ledger: each is about the version it is keyed
\* by, none is beyond the ledger, its root and head are the ledger's, and it
\* names the one before it.
Chained(h, ks) ==
    /\ DOMAIN ks = Versions
    /\ \A v \in Versions : ks[v] # None =>
        /\ v <= Len(h) /\ ks[v].version = v /\ ks[v].root = RootAt(h, v)
        /\ ks[v].head = HeadAt(h, v)
        /\ \/ /\ \A w \in Versions : w < v => ks[w] = None
              /\ ks[v].previous = None
           \/ \E w \in Versions :
                /\ w < v /\ ks[w] # None
                /\ \A u \in Versions : w < u /\ u < v => ks[u] = None
                /\ ks[v].previous = Ref(ks[w])

\* The checkpoint in memory is the newest one stored.
IsNewest(c, ks) ==
    \/ c = None /\ \A v \in Versions : ks[v] = None
    \/ \E v \in Versions :
        /\ ks[v] # None /\ c = ks[v] /\ c # None
        /\ \A w \in Versions : v < w => ks[w] = None

IsLedger(h) == h \in Seq(Contents) /\ Len(h) <= MaxVersion

\* What is on a volume.
Stored(h, ks) == IsLedger(h) /\ Chained(h, ks) /\ \E c : IsNewest(c, ks)

\* What a checkpoint the customer holds says of itself: its head is the one its
\* root's history folds to.
Attested(c) ==
    /\ c.version \in Nat /\ c.root \in Seq(Contents) /\ Len(c.root) = c.version
    /\ c.head = HeadAt(c.root, c.version)

\* The inductive invariant; it is as much about a backup as about the volume,
\* for a restore brings the backup's chain back.
Inv ==
    /\ Stored(hist, ckpts) /\ IsNewest(last, ckpts)
    /\ backup # None => Stored(backup.hist, backup.ckpts)
    /\ \A c \in held : Attested(c)
    /\ EvidenceAnchored

\* A root and a head do not depend on what is committed after their version.
LEMMA RootOfAppend ==
    ASSUME NEW h \in Seq(Contents), NEW x \in Contents, NEW v \in Nat, v <= Len(h)
    PROVE  RootAt(Append(h, x), v) = RootAt(h, v) /\ HeadAt(Append(h, x), v) = HeadAt(h, v)
  <1>1. \A i \in 0..v : RootAt(Append(h, x), i) = RootAt(h, i)
    BY DEF RootAt
  <1> QED
    BY <1>1 DEF HeadAt

\* Committing leaves the chain as it was.
LEMMA CommitKeepsChain ==
    ASSUME NEW h, IsLedger(h), NEW ks, Chained(h, ks), NEW x \in Contents, Len(h) < MaxVersion
    PROVE  IsLedger(Append(h, x)) /\ Chained(Append(h, x), ks)
  <1>1. /\ Append(h, x) \in Seq(Contents) /\ Len(Append(h, x)) = Len(h) + 1 /\ Len(h) \in Nat
    BY DEF IsLedger
  <1>2. \A v \in Versions : v <= Len(h) => /\ v <= Len(h) + 1 /\ RootAt(Append(h, x), v) = RootAt(h, v)
                                           /\ HeadAt(Append(h, x), v) = HeadAt(h, v)
    BY <1>1, RootOfAppend, BoundIsNat DEF Versions, IsLedger
  <1>3. IsLedger(Append(h, x))
    BY <1>1, BoundIsNat DEF IsLedger
  <1>4. Chained(Append(h, x), ks)
    BY <1>1, <1>2 DEF Chained
  <1> QED
    BY <1>3, <1>4

\* loadLastCheckpoint finds the newest, if there is one.
LEMMA NewestIsNewest ==
    ASSUME NEW ks, NEW c, IsNewest(c, ks)
    PROVE  IsNewest(NewestOf(ks), ks)
  <1> DEFINE vs == {v \in Versions : ks[v] # None}
  <1>1. CASE vs = {}
    BY <1>1 DEF NewestOf, IsNewest
  <1>2. CASE vs # {}
    <2>1. PICK v \in vs : \A w \in Versions : v < w => ks[w] = None
      BY <1>2 DEF IsNewest
    <2>2. \A w \in vs : w <= v
      BY <2>1, BoundIsNat DEF Versions
    <2> DEFINE m == CHOOSE x \in vs : \A w \in vs : w <= x
    <2>3. m \in vs /\ \A w \in vs : w <= m
      BY <2>1, <2>2
    <2>4. NewestOf(ks) = ks[m]
      BY <1>2 DEF NewestOf
    <2> HIDE DEF m
    <2>5. \A w \in Versions : m < w => ks[w] = None
      BY <2>3, BoundIsNat DEF Versions
    <2> QED
      BY <2>3, <2>4, <2>5 DEF IsNewest
  <1> QED
    BY <1>1, <1>2

\* Roots and heads are sequences.
LEMMA RootsAndHeads ==
    ASSUME NEW h \in Seq(Contents), NEW v \in Nat, v <= Len(h)
    PROVE  /\ RootAt(h, v) \in Seq(Contents)
           /\ HeadAt(h, v) \in Seq(Seq(Contents) \X Nat)
  <1>1. \A i \in 1..v : RootAt(h, i - 1) \in Seq(Contents)
    BY DEF RootAt
  <1>2. HeadAt(h, v) \in [1..v -> Seq(Contents) \X Nat]
    BY <1>1 DEF HeadAt
  <1>3. HeadAt(h, v) \in Seq(Seq(Contents) \X Nat)
    BY <1>2
  <1> QED
    BY <1>3 DEF RootAt

\* What issueCheckpoint signs is a checkpoint.
LEMMA CheckpointIsOne ==
    ASSUME Inv
    PROVE  Checkpoint \in Checkpoints
  <1>1. hist \in Seq(Contents) /\ Version \in Nat /\ Version = Len(hist)
    BY DEF Inv, Stored, IsLedger, Version
  <1>2. Ref(last) \in Refs \cup {None}
    <2>1. CASE last = None
      BY <2>1 DEF Ref
    <2>2. CASE last # None
      <3>1. PICK v \in Versions : last = ckpts[v]
        BY <2>2 DEF Inv, IsNewest
      <3>2. v \in Nat /\ v <= Len(hist) /\ last.version = v /\ last.root = RootAt(hist, v)
        BY <2>2, <3>1, BoundIsNat DEF Inv, Stored, Chained, Versions
      <3> QED
        BY <1>1, <2>2, <3>2, RootsAndHeads DEF Ref, Refs
    <2> QED
      BY <2>1, <2>2
  <1> QED
    BY <1>1, <1>2, RootsAndHeads DEF Checkpoint, Checkpoints

LEMMA CheckpointFields ==
    /\ Checkpoint.version = Version /\ Checkpoint.root = RootAt(hist, Version)
    /\ Checkpoint.head = HeadAt(hist, Version) /\ Checkpoint.previous = Ref(last)
  BY DEF Checkpoint

\* issueCheckpoint extends the chain by one link, or leaves it alone; either way
\* the newest checkpoint is then about the present state.
LEMMA IssueStep ==
    ASSUME Inv, Issue
    PROVE  /\ Chained(hist, ckpts') /\ IsNewest(last', ckpts')
           /\ last'.version = Version /\ last'.root = RootAt(hist, Version)
           /\ last'.head = HeadAt(hist, Version)
  <1>1. Version \in Versions /\ hist \in Seq(Contents) /\ MaxVersion \in Nat
    BY BoundIsNat DEF Inv, Stored, IsLedger, Version, Versions
  <1>2. Chained(hist, ckpts) /\ IsNewest(last, ckpts)
    BY DEF Inv, Stored
  <1>3. CASE ~Moved
    <2>1. UNCHANGED <<ckpts, last>> /\ last # None /\ last.version = Version
      BY <1>3 DEF Issue, Moved
    <2>2. last.root = RootAt(hist, Version) /\ last.head = HeadAt(hist, Version)
      BY <1>2, <2>1 DEF Chained, IsNewest
    <2> QED
      BY <1>2, <2>1, <2>2
  <1>4. CASE Moved
    <2>1. ckpts' = [ckpts EXCEPT ![Version] = Checkpoint] /\ last' = Checkpoint
      BY <1>4 DEF Issue
    <2>2. /\ DOMAIN ckpts' = Versions /\ ckpts'[Version] = Checkpoint
          /\ \A v \in Versions : v # Version => ckpts'[v] = ckpts[v]
      BY <1>1, <1>2, <2>1 DEF Chained
    <2>3. \A v \in Versions : ckpts[v] # None => v < Version
      <3> SUFFICES ASSUME NEW v \in Versions, ckpts[v] # None PROVE v < Version
        OBVIOUS
      <3>1. v <= Version
        BY <1>2 DEF Chained, Version
      <3>2. PICK w \in Versions : /\ last = ckpts[w] /\ last # None
                                  /\ \A u \in Versions : w < u => ckpts[u] = None
        BY <1>2 DEF IsNewest
      <3>3. last.version = w /\ w <= Version /\ w # Version
        BY <1>2, <1>4, <3>2 DEF Chained, Moved, Version
      <3> QED
        BY <1>1, <3>1, <3>2, <3>3 DEF Versions
    <2>4. Checkpoint # None
      BY CheckpointIsOne, NoneIsNoCheckpoint
    <2>5. IsNewest(last', ckpts')
      <3>1. \A w \in Versions : Version < w => ckpts'[w] = None
        BY <1>1, <2>2, <2>3 DEF Versions
      <3> QED
        BY <1>1, <2>1, <2>2, <2>4, <3>1 DEF IsNewest
    <2>6. \/ /\ \A w \in Versions : w < Version => ckpts'[w] = None
             /\ Checkpoint.previous = None
          \/ \E w \in Versions :
                /\ w < Version /\ ckpts'[w] # None
                /\ \A u \in Versions : w < u /\ u < Version => ckpts'[u] = None
                /\ Checkpoint.previous = Ref(ckpts'[w])
      <3>1. CASE last = None /\ \A v \in Versions : ckpts[v] = None
        BY <1>1, <2>2, <3>1, CheckpointFields DEF Ref, Versions
      <3>2. CASE \E v \in Versions : /\ ckpts[v] # None /\ last = ckpts[v] /\ last # None
                                     /\ \A w \in Versions : v < w => ckpts[w] = None
        <4>1. PICK v \in Versions : /\ ckpts[v] # None /\ last = ckpts[v]
                                    /\ \A w \in Versions : v < w => ckpts[w] = None
          BY <3>2
        <4>2. v < Version /\ v # Version /\ ckpts'[v] = ckpts[v]
          BY <1>1, <2>2, <2>3, <4>1 DEF Versions
        <4>3. \A u \in Versions : v < u /\ u < Version => ckpts'[u] = None
          BY <1>1, <2>2, <4>1 DEF Versions
        <4> QED
          BY <4>1, <4>2, <4>3, CheckpointFields
      <3> QED
        BY <1>2, <3>1, <3>2 DEF IsNewest
    <2>7. ASSUME NEW v \in Versions, v # Version, ckpts'[v] # None
          PROVE  /\ v <= Len(hist) /\ ckpts'[v].version = v /\ ckpts'[v].root = RootAt(hist, v)
                 /\ ckpts'[v].head = HeadAt(hist, v)
                 /\ \/ /\ \A w \in Versions : w < v => ckpts'[w] = None
                       /\ ckpts'[v].previous = None
                    \/ \E w \in Versions :
                        /\ w < v /\ ckpts'[w] # None
                        /\ \A u \in Versions : w < u /\ u < v => ckpts'[u] = None
                        /\ ckpts'[v].previous = Ref(ckpts'[w])
      <3>1. ckpts'[v] = ckpts[v] /\ v < Version
        BY <2>2, <2>3, <2>7
      <3>2. \A w \in Versions : w < v => ckpts'[w] = ckpts[w]
        BY <1>1, <2>2, <3>1 DEF Versions
      <3> QED
        BY <1>2, <2>7, <3>1, <3>2 DEF Chained
    <2>8. Chained(hist, ckpts')
      BY <1>1, <2>2, <2>6, <2>7, CheckpointFields DEF Chained, Version, Versions
    <2> QED
      BY <2>1, <2>5, <2>8, CheckpointFields
  <1> QED
    BY <1>3, <1>4

\* Whoever keeps the checkpoint just issued keeps an attested one.
LEMMA KeptIsAttested ==
    ASSUME Inv, Issue, Keep(last') \/ UNCHANGED held
    PROVE  \A c \in held' : Attested(c)
  <1>1. /\ last'.version = Version /\ last'.root = RootAt(hist, Version)
        /\ last'.head = HeadAt(hist, Version)
    BY IssueStep
  <1>2. hist \in Seq(Contents) /\ Version = Len(hist) /\ Version \in Nat
    BY DEF Inv, Stored, IsLedger, Version
  <1>3. RootAt(hist, Version) = hist
    BY <1>2 DEF RootAt
  <1>4. Attested(last')
    BY <1>1, <1>2, <1>3 DEF Attested
  <1>5. held' \subseteq held \cup {last'}
    BY DEF Keep
  <1> QED
    BY <1>4, <1>5 DEF Inv

\* A step that leaves the backup and gives out no evidence.
LEMMA PlainStep ==
    ASSUME Inv, Stored(hist', ckpts'), IsNewest(last', ckpts'), UNCHANGED backup, bundle' = None,
           \A c \in held' : Attested(c)
    PROVE  Inv'
  BY DEF Inv, EvidenceAnchored

LEMMA InitInv == Init => Inv
  <1> SUFFICES ASSUME Init PROVE Inv
    OBVIOUS
  <1>1. /\ hist = <<>> /\ ckpts = [v \in Versions |-> None] /\ last = None
        /\ bundle = None /\ backup = None /\ held = {}
    BY DEF Init
  <1>2. IsLedger(hist)
    BY <1>1, BoundIsNat DEF IsLedger
  <1>3. Chained(hist, ckpts) /\ IsNewest(last, ckpts)
    BY <1>1 DEF Chained, IsNewest
  <1> QED
    BY <1>1, <1>2, <1>3 DEF Inv, Stored, EvidenceAnchored

LEMMA NextInv == Inv /\ [Next]_vars => Inv'
  <1> SUFFICES ASSUME Inv, [Next]_vars PROVE Inv'
    OBVIOUS
  <1>0. /\ IsLedger(hist) /\ Chained(hist, ckpts) /\ IsNewest(last, ckpts)
        /\ \A c \in held : Attested(c)
    BY DEF Inv, Stored
  <1>1. ASSUME NEW x \in Contents, Commit(x) PROVE Inv'
    <2>1. /\ Len(hist) < MaxVersion /\ hist' = Append(hist, x) /\ bundle' = None
          /\ UNCHANGED <<ckpts, last, backup, held>>
      BY <1>1 DEF Commit, Version
    <2>2. Stored(hist', ckpts') /\ IsNewest(last', ckpts')
      BY <1>0, <2>1, CommitKeepsChain DEF Stored
    <2> QED
      BY <1>0, <2>1, <2>2, PlainStep
  <1>2. ASSUME NEW from, NEW x \in Contents, NEW collect \in BOOLEAN,
               NEW upto \in {"anchor", "commit", "done"}, Audit(from, x, collect, upto)
        PROVE  Inv'
    <2>1. /\ Len(hist) < MaxVersion /\ Issue /\ bundle' = None /\ UNCHANGED backup
          /\ hist' = hist \/ hist' = Append(hist, x)
          /\ Keep(last') \/ UNCHANGED held
      BY <1>2 DEF Audit, Version
    <2>2. Chained(hist, ckpts') /\ IsNewest(last', ckpts')
      BY <2>1, IssueStep
    <2>3. Stored(hist', ckpts')
      BY <1>0, <2>1, <2>2, CommitKeepsChain DEF Stored
    <2> QED
      BY <2>1, <2>2, <2>3, PlainStep, KeptIsAttested
  <1>3. ASSUME NEW x \in Contents, PruneCollecting(x) PROVE Inv'
    <2>1. /\ Len(hist) < MaxVersion /\ hist' = Append(hist, x) /\ bundle' = None
          /\ UNCHANGED <<ckpts, last, backup, held>>
      BY <1>3 DEF PruneCollecting, Version
    <2>2. Stored(hist', ckpts') /\ IsNewest(last', ckpts')
      BY <1>0, <2>1, CommitKeepsChain DEF Stored
    <2> QED
      BY <1>0, <2>1, <2>2, PlainStep
  <1>4. ASSUME IssueCheckpoint PROVE Inv'
    <2>1. Issue /\ Keep(last') /\ bundle' = None /\ UNCHANGED <<hist, backup>>
      BY <1>4 DEF IssueCheckpoint
    <2>2. Stored(hist', ckpts') /\ IsNewest(last', ckpts')
      BY <1>0, <2>1, IssueStep DEF Stored
    <2> QED
      BY <2>1, <2>2, PlainStep, KeptIsAttested
  <1>5. ASSUME Evidence PROVE Inv'
    <2>1. /\ Issue /\ Keep(last') /\ UNCHANGED <<hist, backup>>
          /\ bundle' = [version |-> Version, root |-> RootAt(hist, Version), anchor |-> last']
      BY <1>5 DEF Evidence, AnchorCurrentState
    <2>2. /\ Chained(hist, ckpts') /\ IsNewest(last', ckpts')
          /\ last'.version = Version /\ last'.root = RootAt(hist, Version)
      BY <2>1, IssueStep
    <2>3. EvidenceAnchored'
      BY <2>1, <2>2 DEF EvidenceAnchored
    <2> QED
      BY <1>0, <2>1, <2>2, <2>3, KeptIsAttested DEF Inv, Stored
  <1>6. ASSUME Restart PROVE Inv'
    <2>1. last' = NewestOf(ckpts) /\ bundle' = None /\ UNCHANGED <<hist, ckpts, backup, held>>
      BY <1>6 DEF Restart, disk
    <2>2. Stored(hist', ckpts') /\ IsNewest(last', ckpts')
      BY <1>0, <2>1, NewestIsNewest DEF Stored
    <2> QED
      BY <1>0, <2>1, <2>2, PlainStep
  <1>7. ASSUME Backup PROVE Inv'
    <2>1. /\ backup' = [hist |-> hist, oldest |-> oldest, ckpts |-> ckpts]
          /\ bundle' = None /\ UNCHANGED <<hist, ckpts, last, held>>
      BY <1>7 DEF Backup, disk
    <2> QED
      BY <2>1 DEF Inv, EvidenceAnchored
  <1>8. ASSUME Restore PROVE Inv'
    <2>1. /\ backup # None /\ hist' = backup.hist /\ ckpts' = backup.ckpts
          /\ last' = NewestOf(backup.ckpts) /\ bundle' = None /\ UNCHANGED <<backup, held>>
      BY <1>8 DEF Restore
    <2>2. Stored(hist', ckpts')
      BY <2>1 DEF Inv
    <2>3. IsNewest(last', ckpts')
      BY <2>1, <2>2, NewestIsNewest DEF Stored
    <2> QED
      BY <1>0, <2>1, <2>2, <2>3, PlainStep
  <1>9. ASSUME UNCHANGED vars PROVE Inv'
    BY <1>9 DEF vars, disk, Inv, EvidenceAnchored
  <1> QED
    BY <1>1, <1>2, <1>3, <1>4, <1>5, <1>6, <1>7, <1>8, <1>9 DEF Next

LEMMA Invariance == Spec => []Inv
  BY InitInv, NextInv, PTL DEF Spec

\* Every stored checkpoint names the one stored before it, version and root,
\* across restarts, restores and audits that stopped half way (issueCheckpoint,
\* loadLastCheckpoint).
THEOREM CheckpointsAreLinked == Spec => []ChainLinked
  <1>1. Inv => ChainLinked
    <2> SUFFICES ASSUME Inv, NEW v \in Versions, ckpts[v] # None
                 PROVE  LET before == {w \in Versions : w < v /\ ckpts[w] # None}
                        IN  IF before = {} THEN ckpts[v].previous = None
                            ELSE \E w \in before : /\ \A u \in before : u <= w
                                                   /\ ckpts[v].previous = Ref(ckpts[w])
      BY DEF ChainLinked
    <2> DEFINE before == {w \in Versions : w < v /\ ckpts[w] # None}
    <2>1. CASE before = {}
      BY <2>1 DEF Inv, Stored, Chained
    <2>2. CASE before # {}
      <3>1. PICK w \in Versions :
                /\ w < v /\ ckpts[w] # None
                /\ \A u \in Versions : w < u /\ u < v => ckpts[u] = None
                /\ ckpts[v].previous = Ref(ckpts[w])
        BY <2>2 DEF Inv, Stored, Chained
      <3>2. w \in before /\ \A u \in before : u <= w
        BY <3>1, BoundIsNat DEF Versions
      <3> QED
        BY <2>2, <3>1, <3>2
    <2> QED
      BY <2>1, <2>2
  <1> QED
    BY Invariance, <1>1, PTL

\* What evidence was read at is what its checkpoint attests (Evidence,
\* anchorCurrentState).
THEOREM EvidenceIsAnchored == Spec => []EvidenceAnchored
  <1>1. Inv => EvidenceAnchored
    BY DEF Inv
  <1> QED
    BY Invariance, <1>1, PTL

----------------------------------------------------------------------------
(* The offline fold.                                                       *)

\* A set of naturals has a least element.
LEMMA NatMin ==
    ASSUME NEW T \in SUBSET Nat, T # {}
    PROVE  \E x \in T : \A y \in T : x <= y
  <1> DEFINE R == OpToRel(<, Nat)
  <1>1. \A x, y \in Nat : <<x, y>> \in R <=> x < y
    BY DEF OpToRel
  <1>2. IsWellFoundedOn(R, Nat)
    BY NatLessThanWellFounded DEF OpToRel
  <1> HIDE DEF R
  <1>3. PICK x \in T : \A y \in T : ~(<<y, x>> \in R)
    BY <1>2, WFMin
  <1>4. ASSUME NEW y \in T PROVE x <= y
    <2>1. x \in Nat /\ y \in Nat /\ ~(<<y, x>> \in R)
      BY <1>3
    <2>2. ~(y < x)
      BY <1>1, <2>1
    <2> QED
      BY <2>1, <2>2
  <1> QED
    BY <1>4

\* The links of the loop, all of them written down at once: after i roots, the
\* earlier head and one link for each.
Link(from, roots, j) == <<IF j = 1 THEN from.root ELSE roots[j - 1], from.version + j>>
LinksUpTo(from, roots, i) ==
    [j \in 1..(Len(from.head) + i) |->
        IF j <= Len(from.head) THEN from.head[j] ELSE Link(from, roots, j - Len(from.head))]
LastRead(from, roots, i) == IF i = 0 THEN from.root ELSE roots[i]

\* One turn of the loop adds one link.
LEMMA OneLink ==
    ASSUME NEW from, NEW roots, NEW T, from.head \in Seq(T), Len(roots) \in Nat,
           NEW i \in 1..Len(roots)
    PROVE  HistoryLink(LinksUpTo(from, roots, i - 1), LastRead(from, roots, i - 1),
                       from.version + i) = LinksUpTo(from, roots, i)
  <1> DEFINE n == Len(from.head)
             S == {Link(from, roots, j) : j \in 1..Len(roots)} \cup T
             s == LinksUpTo(from, roots, i - 1)
             x == <<LastRead(from, roots, i - 1), from.version + i>>
  <1>1. n \in Nat /\ i \in Nat /\ i >= 1
    OBVIOUS
  <1>2. \A j \in 1..n : from.head[j] \in S
    OBVIOUS
  <1>3. \A j \in 1..(n + (i - 1)) : ~(j <= n) => Link(from, roots, j - n) \in S
    BY <1>1
  <1>4. x = Link(from, roots, i)
    BY <1>1 DEF LastRead, Link
  <1>5. x \in S
    BY <1>4
  <1> HIDE DEF S, x
  <1>6. s \in Seq(S) /\ Len(s) = n + (i - 1)
    BY <1>1, <1>2, <1>3 DEF LinksUpTo
  <1>7. \A j \in 1..(n + (i - 1)) : s[j] = LinksUpTo(from, roots, i)[j]
    BY <1>1 DEF LinksUpTo
  <1>8. LinksUpTo(from, roots, i)[n + i] = x
    BY <1>1, <1>4 DEF LinksUpTo
  <1>9. LinksUpTo(from, roots, i) = [j \in 1..(n + i) |-> LinksUpTo(from, roots, i)[j]]
    BY DEF LinksUpTo
  <1> HIDE DEF s
  <1>10. Append(s, x) = [j \in 1..(n + i) |-> IF j <= n + (i - 1) THEN s[j] ELSE x]
    <2> DEFINE t == Append(s, x)
    <2>1. t \in Seq(S) /\ Len(t) = n + i
      BY <1>1, <1>5, <1>6
    <2>2. t = [j \in 1..(n + i) |-> t[j]]
      <3> HIDE DEF t
      <3>1. t \in [1..Len(t) -> S]
        BY <2>1
      <3> QED
        BY <2>1, <3>1
    <2>3. \A j \in 1..(n + i) : t[j] = IF j <= n + (i - 1) THEN s[j] ELSE x
      BY <1>1, <1>5, <1>6
    <2> HIDE DEF t
    <2> QED
      BY <2>2, <2>3 DEF t
  <1>11. \A j \in 1..(n + i) : (IF j <= n + (i - 1) THEN s[j] ELSE x) = LinksUpTo(from, roots, i)[j]
    BY <1>1, <1>7, <1>8
  <1>12. Append(s, x) = LinksUpTo(from, roots, i)
    BY <1>9, <1>10, <1>11
  <1> QED
    BY <1>12 DEF HistoryLink, s, x

\* What the loop computes, for any roots: a loop that differed would differ first
\* at some root, and there it adds the same link.
LEMMA LoopLinks ==
    ASSUME NEW from, NEW roots, NEW T, from.head \in Seq(T), Len(roots) \in Nat
    PROVE  FoldedHead(from, roots) = LinksUpTo(from, roots, Len(roots))
  <1> DEFINE N == Len(roots)
             Turn(g, i) == IF i = 0 THEN [head |-> from.head, prev |-> from.root]
                           ELSE [head |-> HistoryLink(g[i - 1].head, g[i - 1].prev,
                                                      from.version + i),
                                 prev |-> roots[i]]
             h == [i \in 0..N |-> [head |-> LinksUpTo(from, roots, i),
                                   prev |-> LastRead(from, roots, i)]]
             g == AfterRoots(from, roots)
             Bad == {i \in 0..N : g[i] # h[i]}
  <1>1. LinksUpTo(from, roots, 0) = from.head
    BY DEF LinksUpTo
  <1>2. ASSUME NEW i \in 0..N PROVE h[i] = Turn(h, i)
    <2>1. CASE i = 0
      BY <1>1, <2>1 DEF LastRead
    <2>2. CASE i \in 1..N
      <3>1. h[i - 1].head = LinksUpTo(from, roots, i - 1)
            /\ h[i - 1].prev = LastRead(from, roots, i - 1)
        BY <2>2
      <3>2. h[i] = [head |-> LinksUpTo(from, roots, i), prev |-> roots[i]]
        BY <2>2 DEF LastRead
      <3>3. HistoryLink(h[i - 1].head, h[i - 1].prev, from.version + i)
                = LinksUpTo(from, roots, i)
        BY <2>2, <3>1, OneLink
      <3> HIDE DEF h
      <3> QED
        BY <2>2, <3>2, <3>3
    <2> QED
      BY <2>1, <2>2
  <1>3. h = [i \in 0..N |-> Turn(h, i)]
    <2>1. h = [i \in 0..N |-> h[i]]
      OBVIOUS
    <2> HIDE DEF h, Turn
    <2> QED
      BY <1>2, <2>1
  <1>4. g = [i \in 0..N |-> Turn(g, i)]
    BY <1>3 DEF AfterRoots
  <1> HIDE DEF g, h
  <1>5. Bad = {}
    <2> SUFFICES ASSUME Bad # {} PROVE FALSE
      OBVIOUS
    <2>1. Bad \in SUBSET Nat
      OBVIOUS
    <2>2. PICK i \in Bad : \A j \in Bad : i <= j
      BY <2>1, NatMin
    <2>3. i \in 0..N /\ g[i] # h[i]
      BY <2>2
    <2>4. i # 0 => g[i - 1] = h[i - 1]
      BY <2>2, <2>3
    <2>5. Turn(g, i) = Turn(h, i)
      BY <2>4
    <2>6. g[i] = Turn(g, i)
      BY <1>4, <2>3
    <2> QED
      BY <1>2, <2>3, <2>5, <2>6
  <1>6. g[N] = h[N]
    BY <1>5
  <1>7. h[N].head = LinksUpTo(from, roots, N)
    BY DEF h
  <1> QED
    BY <1>6, <1>7 DEF FoldedHead, g

\* A head is a list of links.
LEMMA HeadIsSeq ==
    ASSUME NEW c, Attested(c)
    PROVE  \E T : c.head \in Seq(T)
  <1>1. c.head \in Seq({<<RootAt(c.root, i - 1), i>> : i \in 1..c.version})
    BY DEF Attested, HeadAt
  <1> QED
    BY <1>1

\* A head that two checkpoints' histories fold to is the same head exactly when
\* the earlier root is a prefix of the later one; the roots the register serves
\* in between do not enter into the first half.
LEMMA FoldTellsHistories ==
    ASSUME NEW a, NEW b, Attested(a), Attested(b), a.version < b.version, NEW h,
           FoldedHead(a, RootsOf(h, a.version, b.version)) = b.head
    PROVE  Same(a, b)
  <1> DEFINE n == a.version
             roots == RootsOf(h, a.version, b.version)
  <1>1. n \in Nat /\ b.version - n \in Nat /\ b.version - n >= 1 /\ n + 1 \in 1..b.version
    BY DEF Attested
  <1>2. Len(roots) = b.version - n
    BY <1>1 DEF RootsOf
  <1>3. \E T : a.head \in Seq(T)
    BY HeadIsSeq
  <1>4. b.head = LinksUpTo(a, roots, Len(roots))
    <2> HIDE DEF roots
    <2> QED
      BY <1>1, <1>2, <1>3, LoopLinks DEF roots
  <1>5. Len(a.head) = n
    BY <1>1 DEF Attested, HeadAt
  <1> HIDE DEF roots
  <1>6. b.head[n + 1] = <<a.root, n + 1>>
    BY <1>1, <1>2, <1>4, <1>5 DEF LinksUpTo, Link
  <1>7. b.head[n + 1] = <<RootAt(b.root, n), n + 1>>
    BY <1>1 DEF Attested, HeadAt
  <1> QED
    BY <1>6, <1>7 DEF Same

\* Two checkpoints of one history pass: the roots it served in between are the
\* ones the later head was made of.
LEMMA OneHistoryFolds ==
    ASSUME NEW a, NEW b, Attested(a), Attested(b), a.version <= b.version,
           NEW h \in Seq(Contents), Len(h) >= b.version, RootAt(h, b.version) = b.root, Same(a, b)
    PROVE  VerifyAnchors(a, b, RootsOf(h, a.version, b.version))
  <1> DEFINE n == a.version
             m == b.version
             roots == RootsOf(h, n, m)
  <1>1. n \in Nat /\ m \in Nat /\ n <= m /\ m - n \in Nat /\ Len(h) \in Nat
    BY DEF Attested
  <1>2. roots = [i \in 1..(m - n) |-> RootAt(h, n + i)] /\ Len(roots) = m - n
    BY <1>1 DEF RootsOf
  <1>3. \A i \in 0..m : RootAt(b.root, i) = RootAt(h, i)
    BY <1>1 DEF RootAt
  <1>4. \A i \in 0..n : RootAt(a.root, i) = RootAt(h, i)
    BY <1>1, <1>3 DEF RootAt, Same
  <1>5. a.root = RootAt(h, n) /\ b.root = RootAt(h, m)
    BY <1>1, <1>3 DEF Same
  <1>6. \A i \in 1..(m - n) : Link(a, roots, i) = <<RootAt(h, n + i - 1), n + i>>
    BY <1>1, <1>2, <1>5 DEF Link
  <1>7. a.head = [i \in 1..n |-> <<RootAt(h, i - 1), i>>]
    BY <1>1, <1>4 DEF Attested, HeadAt
  <1>8. b.head = [i \in 1..m |-> <<RootAt(h, i - 1), i>>]
    BY <1>1, <1>3 DEF Attested, HeadAt
  <1>9. FoldedHead(a, roots) = b.head
    <2>1. Len(a.head) = n /\ \E T : a.head \in Seq(T)
      <3>1. Len(a.head) = n
        BY <1>1, <1>7
      <3> QED
        BY <3>1, HeadIsSeq
    <2>2. n + (m - n) = m
      BY <1>1
    <2>3. \A i \in 1..m : (IF i <= n THEN a.head[i] ELSE Link(a, roots, i - n))
                                = <<RootAt(h, i - 1), i>>
      BY <1>1, <1>6, <1>7 DEF Link
    <2>4. LinksUpTo(a, roots, m - n)
            = [i \in 1..m |-> IF i <= n THEN a.head[i] ELSE Link(a, roots, i - n)]
      BY <2>1, <2>2 DEF LinksUpTo
    <2>5. LinksUpTo(a, roots, m - n) = b.head
      BY <1>8, <2>3, <2>4
    <2>6. Len(roots) = m - n
      BY <1>2
    <2> HIDE DEF roots
    <2> QED
      BY <1>1, <2>1, <2>5, <2>6, LoopLinks
  <1>10. roots # <<>> => roots[Len(roots)] = b.root
    BY <1>1, <1>2, <1>5
  <1> HIDE DEF roots
  <1>11. VerifyAnchors(a, b, roots)
    BY <1>1, <1>2, <1>9, <1>10 DEF VerifyAnchors
  <1> QED
    BY <1>11 DEF roots

\* Two checkpoints of different histories never pass both offline checks, and
\* two of the history the register is on always pass (verifyChain,
\* VerifyAnchors).
THEOREM ForksAreCaught == Spec => []ForksCaught
  <1>1. Inv => ForksCaught
    <2> SUFFICES ASSUME Inv, NEW a \in held, NEW b \in held, a.version <= b.version
                 PROVE  /\ \A h \in {hist} \cup lost :
                            (/\ Len(h) >= b.version
                             /\ ChainConsistent({a, b})
                             /\ VerifyAnchors(a, b, RootsOf(h, a.version, b.version))) => Same(a, b)
                        /\ (Version >= b.version /\ RootAt(hist, b.version) = b.root /\ Same(a, b))
                            => VerifyAnchors(a, b, RootsOf(hist, a.version, b.version))
      BY DEF ForksCaught
    <2>1. Attested(a) /\ Attested(b) /\ hist \in Seq(Contents) /\ Version = Len(hist)
      BY DEF Inv, Stored, IsLedger, Version
    <2>2. ASSUME NEW h, ChainConsistent({a, b}),
                 VerifyAnchors(a, b, RootsOf(h, a.version, b.version))
          PROVE  Same(a, b)
      <3>1. CASE a.version = b.version
        <4>1. a.root = b.root
          BY <2>2, <3>1 DEF ChainConsistent
        <4> QED
          BY <2>1, <3>1, <4>1 DEF Same, RootAt, Attested
      <3>2. CASE a.version < b.version
        BY <2>1, <2>2, <3>2, FoldTellsHistories DEF VerifyAnchors
      <3> QED
        BY <2>1, <3>1, <3>2 DEF Attested
    <2>3. ASSUME Version >= b.version, RootAt(hist, b.version) = b.root, Same(a, b)
          PROVE  VerifyAnchors(a, b, RootsOf(hist, a.version, b.version))
      BY <2>1, <2>3, OneHistoryFolds
    <2> QED
      BY <2>2, <2>3
  <1> QED
    BY Invariance, <1>1, PTL

=============================================================================
