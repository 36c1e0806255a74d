---------------------------- MODULE StandbyProofs ---------------------------
(***************************************************************************)
(* For any leaves, page size and length of history, and any failures,      *)
(* restarts and writes of the standby's own: what a healthy report says    *)
(* was so, and still is between two pulls.                                 *)
(***************************************************************************)
EXTENDS Standby, TLAPS

\* The standby wrote nothing that the last import did not replace.
Untouched == \A p \in Paths : store[p] # Own

\* A copy that passed Import's check is the primary's at the page's version
\* until the standby itself writes; and so is what Status then read.
CheckedCopy ==
    /\ pull.at = "status" /\ Untouched =>
        store = pull.chunk.root /\ version = pull.chunk.version
    /\ pull.at = "report" =>
        /\ pull.status = [root |-> pull.status.root, version |-> pull.status.version]
        /\ pull.status.root = pull.chunk.root => pull.status.version = pull.chunk.version
        /\ Untouched => store = pull.status.root

\* The report names a version the primary has had.
NamesAVersion == Healthy => report.primary \in 1..Len(hist)

\* The inductive invariant.
Inv == TypeOK /\ CheckedCopy /\ NamesAVersion /\ HealthyIsCopy /\ CopyBetweenPulls

\* The primary's leaves at any version are leaves, none of them the standby's.
LEMMA VersionsAreLeaves ==
    ASSUME TypeOK
    PROVE  /\ Len(hist) \in Nat /\ Len(hist) >= 1 /\ Primary \in Leaves
           /\ \A v \in 1..Len(hist) : hist[v] \in Leaves /\ \A p \in Paths : hist[v][p] # Own
  <1>1. Len(hist) \in Nat /\ Len(hist) >= 1
    BY DEF TypeOK
  <1>2. \A v \in 1..Len(hist) : hist[v] \in Leaves
    BY <1>1 DEF TypeOK
  <1>3. \A v \in 1..Len(hist) : \A p \in Paths : hist[v][p] # Own
    BY <1>2, OwnIsForeign DEF Leaves
  <1> QED
    BY <1>1, <1>2, <1>3 DEF Primary

\* Restore puts leaves where they were.
LEMMA RestoredIsStore ==
    ASSUME TypeOK, pull.at = "import"
    PROVE  Restored \in Store
  <1>1. pull.chunk.root \in Leaves
    BY VersionsAreLeaves DEF TypeOK
  <1> QED
    BY <1>1 DEF Restored, Store, Leaves, TypeOK

\* A pull that ends with an error withdraws the report.
LEMMA FailStep ==
    ASSUME Inv, Fail, UNCHANGED hist, store' \in Store, version' \in Nat
    PROVE  Inv'
  <1>1. pull' = Waiting /\ report' = [healthy |-> FALSE]
    BY DEF Fail
  <1>2. pull'.at = "tick" /\ DOMAIN pull' = {"at", "after", "chunk", "status"}
    BY <1>1 DEF Waiting
  <1>3. TypeOK'
    BY <1>2 DEF Inv, TypeOK, Snapshots
  <1>4. ~Healthy'
    BY <1>1 DEF Healthy
  <1> QED
    BY <1>2, <1>3, <1>4 DEF Inv, CheckedCopy, NamesAVersion, HealthyIsCopy, CopyBetweenPulls

LEMMA InitInv == Init => Inv
  <1> SUFFICES ASSUME Init PROVE Inv
    OBVIOUS
  <1>1. hist = <<First>> /\ store \in Store /\ version = 0 /\ pull = Waiting /\ report = None
    BY StartsWithLeaves DEF Init
  <1>2. pull.at = "tick" /\ DOMAIN pull = {"at", "after", "chunk", "status"} /\ ~Healthy
    BY <1>1 DEF Waiting, Healthy
  <1>3. TypeOK
    BY <1>1, <1>2, StartsWithLeaves DEF TypeOK, Snapshots
  <1> QED
    BY <1>2, <1>3 DEF Inv, CheckedCopy, NamesAVersion, HealthyIsCopy, CopyBetweenPulls

LEMMA NextInv == Inv /\ [Next]_vars => Inv'
  <1> SUFFICES ASSUME Inv, [Next]_vars PROVE Inv'
    OBVIOUS
  <1>1. ASSUME NEW ps \in SUBSET Paths, NEW vs \in [ps -> Values \cup {Absent}], Commit(ps, vs)
        PROVE  Inv'
    <2> DEFINE new == [p \in Paths |-> IF p \in ps THEN vs[p] ELSE Primary[p]]
    <2>1. hist' = Append(hist, new) /\ UNCHANGED <<store, version, pull, report>>
      BY <1>1 DEF Commit
    <2>2. new \in Leaves
      BY VersionsAreLeaves DEF Inv, Leaves
    <2> HIDE DEF new
    <2>3. /\ hist' \in Seq(Leaves) /\ hist' # <<>> /\ Len(hist') = Len(hist) + 1
          /\ \A v \in 1..Len(hist) : v \in 1..Len(hist') /\ hist'[v] = hist[v]
      BY <2>1, <2>2 DEF Inv, TypeOK
    <2>4. TypeOK'
      BY <2>1, <2>3 DEF Inv, TypeOK
    <2>5. CheckedCopy'
      BY <2>1 DEF Inv, CheckedCopy, Untouched
    <2>6. NamesAVersion' /\ HealthyIsCopy' /\ CopyBetweenPulls'
      BY <2>1, <2>3 DEF Inv, NamesAVersion, HealthyIsCopy, CopyBetweenPulls, Healthy
    <2> QED
      BY <2>4, <2>5, <2>6 DEF Inv
  <1>2. ASSUME StartPull PROVE Inv'
    <2>1. /\ UNCHANGED <<hist, store, version, report>>
          /\ pull'.at = "fetch" /\ DOMAIN pull' = {"at", "after", "chunk", "status"}
      BY <1>2 DEF StartPull, Waiting
    <2> QED
      BY <2>1 DEF Inv, TypeOK, Snapshots, CheckedCopy, NamesAVersion, HealthyIsCopy, CopyBetweenPulls, Healthy
  <1>3. ASSUME FetchChunk PROVE Inv'
    <2>1. /\ UNCHANGED <<hist, store, version, report>>
          /\ pull'.at = "import" /\ DOMAIN pull' = {"at", "after", "chunk", "status"}
          /\ pull'.chunk = Export(pull.after)
      BY <1>3 DEF FetchChunk, Inv, TypeOK
    <2>2. /\ pull'.chunk.version = Len(hist) /\ pull'.chunk.root = Primary
          /\ pull'.chunk.leaves = Page(pull.after)
      BY <2>1 DEF Export
    <2>3. Page(pull.after) \subseteq {p \in Paths : Primary[p] # Absent}
      BY DEF Page, Later
    <2>4. TypeOK'
      BY <2>1, <2>2, <2>3, VersionsAreLeaves DEF Inv, TypeOK, Snapshots, Primary
    <2> QED
      BY <2>1, <2>4 DEF Inv, CheckedCopy, NamesAVersion, HealthyIsCopy, CopyBetweenPulls, Healthy
  <1>4. ASSUME ImportPage PROVE Inv'
    <2>1. /\ UNCHANGED <<hist, version, report>> /\ store' = Restored /\ pull.at = "import"
          /\ pull'.at = "fetch" /\ DOMAIN pull' = {"at", "after", "chunk", "status"}
      BY <1>4 DEF ImportPage, Inv, TypeOK
    <2>2. store' \in Store
      BY <2>1, RestoredIsStore DEF Inv
    <2> QED
      BY <2>1, <2>2 DEF Inv, TypeOK, Snapshots, CheckedCopy, NamesAVersion, HealthyIsCopy, CopyBetweenPulls, Healthy
  <1>5. ASSUME ImportLast PROVE Inv'
    <2>1. pull.at = "import" /\ store' = Restored /\ version' = pull.chunk.version /\ UNCHANGED hist
      BY <1>5 DEF ImportLast
    <2>2. store' \in Store /\ version' \in Nat
      BY <2>1, RestoredIsStore, VersionsAreLeaves DEF Inv, TypeOK
    <2>3. CASE Restored = pull.chunk.root
      <3>1. UNCHANGED report /\ pull' = [pull EXCEPT !.at = "status"]
        BY <1>5, <2>3 DEF ImportLast
      <3>2. /\ pull'.at = "status" /\ DOMAIN pull' = {"at", "after", "chunk", "status"}
            /\ pull'.chunk = pull.chunk
        BY <3>1 DEF Inv, TypeOK
      <3>3. TypeOK'
        BY <2>1, <2>2, <3>1, <3>2 DEF Inv, TypeOK, Snapshots
      <3> QED
        BY <2>1, <2>3, <3>1, <3>2, <3>3
           DEF Inv, CheckedCopy, NamesAVersion, HealthyIsCopy, CopyBetweenPulls, Healthy
    <2>4. CASE Restored # pull.chunk.root
      BY <1>5, <2>1, <2>2, <2>4, FailStep DEF ImportLast
    <2> QED
      BY <2>3, <2>4
  <1>6. ASSUME ReadStatus PROVE Inv'
    <2>1. /\ UNCHANGED <<hist, store, version, report>> /\ pull.at = "status"
          /\ pull'.at = "report" /\ DOMAIN pull' = {"at", "after", "chunk", "status"}
          /\ pull'.chunk = pull.chunk /\ pull'.status = [root |-> store, version |-> version]
      BY <1>6 DEF ReadStatus, Inv, TypeOK
    <2>2. TypeOK'
      BY <2>1 DEF Inv, TypeOK, Snapshots
    <2>3. store = pull.chunk.root => Untouched
      BY <2>1, VersionsAreLeaves DEF Inv, TypeOK, Untouched
    <2>4. CheckedCopy'
      BY <2>1, <2>3 DEF Inv, CheckedCopy, Untouched
    <2> QED
      BY <2>1, <2>2, <2>4 DEF Inv, NamesAVersion, HealthyIsCopy, CopyBetweenPulls, Healthy
  <1>7. ASSUME Report PROVE Inv'
    <2>1. /\ UNCHANGED <<hist, store, version>> /\ pull.at = "report"
          /\ pull'.at = "tick" /\ DOMAIN pull' = {"at", "after", "chunk", "status"}
      BY <1>7 DEF Report, Waiting
    <2>2. /\ report'.healthy = (pull.status.root = pull.chunk.root)
          /\ report'.primary = pull.chunk.version /\ report'.local = pull.status
      BY <1>7 DEF Report, Position
    <2>3. /\ pull.chunk.version \in 1..Len(hist)
          /\ pull.chunk.root = hist[pull.chunk.version]
      BY <2>1 DEF Inv, TypeOK
    <2>4. TypeOK'
      BY <2>1 DEF Inv, TypeOK, Snapshots
    <2>5. Healthy' => pull.status = [root |-> pull.chunk.root, version |-> pull.chunk.version]
      BY <2>1, <2>2 DEF Inv, CheckedCopy, Healthy
    <2>6. NamesAVersion' /\ HealthyIsCopy'
      BY <2>1, <2>2, <2>3, <2>5 DEF NamesAVersion, HealthyIsCopy
    <2>7. CopyBetweenPulls'
      BY <2>1, <2>2, <2>3, <2>5 DEF Inv, CheckedCopy, CopyBetweenPulls, Untouched
    <2> QED
      BY <2>1, <2>4, <2>6, <2>7 DEF Inv, CheckedCopy
  <1>8. ASSUME PullFails PROVE Inv'
    BY <1>8, FailStep DEF PullFails, Inv, TypeOK
  <1>9. ASSUME ImportFails PROVE Inv'
    <2>1. store' \in Store
      BY <1>9, RestoredIsStore DEF ImportFails, Inv, TypeOK
    <2> QED
      BY <1>9, <2>1, FailStep DEF ImportFails, Inv, TypeOK
  <1>10. ASSUME NEW p \in Paths, LocalWrite(p) PROVE Inv'
    <2>1. /\ UNCHANGED <<hist, pull, report>>
          /\ store' = [store EXCEPT ![p] = Own] /\ version' = version + 1
      BY <1>10 DEF LocalWrite
    <2>2. store' \in Store /\ store'[p] = Own
      BY <2>1 DEF Inv, TypeOK, Store
    <2>3. TypeOK'
      BY <2>1, <2>2 DEF Inv, TypeOK
    <2> QED
      BY <2>1, <2>2, <2>3 DEF Inv, CheckedCopy, Untouched, NamesAVersion, HealthyIsCopy, CopyBetweenPulls, Healthy
  <1>11. ASSUME Restart PROVE Inv'
    <2>1. /\ UNCHANGED <<hist, store, version>> /\ ~Healthy'
          /\ pull'.at = "tick" /\ DOMAIN pull' = {"at", "after", "chunk", "status"}
      BY <1>11 DEF Restart, Waiting, Healthy
    <2> QED
      BY <2>1 DEF Inv, TypeOK, Snapshots, CheckedCopy, NamesAVersion, HealthyIsCopy, CopyBetweenPulls
  <1>12. ASSUME UNCHANGED vars PROVE Inv'
    BY <1>12 DEF vars, Inv, TypeOK, CheckedCopy, Untouched, NamesAVersion, HealthyIsCopy, CopyBetweenPulls, Healthy
  <1> QED
    BY <1>1, <1>2, <1>3, <1>4, <1>5, <1>6, <1>7, <1>8, <1>9, <1>10, <1>11, <1>12 DEF Next, PullStep

LEMMA Invariance == Spec => []Inv
  BY InitInv, NextInv, PTL DEF Spec

\* A standby that says it is healthy held, when it looked, the primary's leaves
\* at the version it names (pullOnce, Import).
THEOREM HealthyReportIsTrue == Spec => []HealthyIsCopy
  <1>1. Inv => HealthyIsCopy
    BY DEF Inv
  <1> QED
    BY Invariance, <1>1, PTL

\* Between two pulls a healthy report describes the store a promotion would
\* take, unless the standby wrote to it (followPrimary).
THEOREM PromotionIsSafe == Spec => []CopyBetweenPulls
  <1>1. Inv => CopyBetweenPulls
    BY DEF Inv
  <1> QED
    BY Invariance, <1>1, PTL

=============================================================================
