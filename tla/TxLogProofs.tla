---------------------------- MODULE TxLogProofs -----------------------------
(***************************************************************************)
(* For every number of callers, every set of requests and every write set: *)
(* commit implements the abstract log, a transaction is logged once, an    *)
(* answer is never lost, and a transaction lands at the version it claims. *)
(* The offline check accepts the log of every such register, and a copy it *)
(* accepts has no gap.                                                     *)
(***************************************************************************)
EXTENDS LogCheck, WellFoundedInduction, TLAPS

\* Row k of the buffer after the first n entries of the write set: the last of
\* them that names k, or the stored row.
BufferOK(ops, n, buf, r) ==
    \A k \in Rows :
        \/ WritesTo(ops, n, k) = {} /\ buf[k] = r[k]
        \/ \E i \in WritesTo(ops, n, k) :
            /\ \A j \in WritesTo(ops, n, k) : j <= i
            /\ buf[k] = ops[i][2]

\* Where a transaction in progress stands.
Progress ==
    txn # None =>
        /\ txn.at = "apply" =>
            /\ txn.before = version
            /\ ~LogHas(log, txn.txid)
            /\ txn.done <= Len(Ops(txn.txid))
            /\ BufferOK(Ops(txn.txid), txn.done, txn.buffer, rows)
        /\ txn.at = "check" => txn.done = 0
        /\ txn.at = "committed" => LogHas(log, txn.txid)

\* The inductive invariant.
Inv == TypeOK /\ Progress /\ OnlyOnce /\ AnswersDurable

\* Whoever holds the store has a transaction in progress.
LEMMA HolderHasTxn ==
    ASSUME TypeOK, NEW c \in Callers, lock = c
    PROVE  txn # None /\ txn \in TxnRows
  BY NoneIsNoCaller DEF TypeOK

\* A write set is a sequence of rows and values.
LEMMA OpsType ==
    ASSUME NEW tx \in TxIds
    PROVE  /\ Ops(tx) \in Seq(Rows \X Values)
           /\ \A i \in 1..Len(Ops(tx)) : Ops(tx)[i] \in Rows \X Values
  <1>1. tx[1] \in Requests
    BY DEF TxIds
  <1>2. Ops(tx) \in Seq(Rows \X Values)
    BY <1>1, WritesAreOps DEF Ops
  <1> QED
    BY <1>2

\* One more entry of the write set.
LEMMA ApplyOneOK ==
    ASSUME NEW ops \in Seq(Rows \X Values), NEW n \in Nat, n < Len(ops),
           NEW buf \in [Rows -> Values \cup {NoWrite}], NEW r,
           BufferOK(ops, n, buf, r)
    PROVE  /\ ApplyOne(buf, ops[n + 1]) \in [Rows -> Values \cup {NoWrite}]
           /\ BufferOK(ops, n + 1, ApplyOne(buf, ops[n + 1]), r)
  <1> DEFINE op  == ops[n + 1]
             new == ApplyOne(buf, op)
  <1>1. op \in Rows \X Values
    BY n + 1 \in 1..Len(ops)
  <1>2. op[1] \in Rows /\ op[2] \in Values
    BY <1>1
  <1>3. new \in [Rows -> Values \cup {NoWrite}]
    BY <1>2 DEF ApplyOne
  <1>4. ASSUME NEW k \in Rows
        PROVE  \/ WritesTo(ops, n + 1, k) = {} /\ new[k] = r[k]
               \/ \E i \in WritesTo(ops, n + 1, k) :
                    /\ \A j \in WritesTo(ops, n + 1, k) : j <= i
                    /\ new[k] = ops[i][2]
    <2>1. CASE k = op[1]
      <3>1. n + 1 \in WritesTo(ops, n + 1, k)
        BY <2>1 DEF WritesTo
      <3>2. \A j \in WritesTo(ops, n + 1, k) : j <= n + 1
        BY DEF WritesTo
      <3>3. new[k] = ops[n + 1][2]
        BY <2>1, <1>2 DEF ApplyOne
      <3> QED
        BY <3>1, <3>2, <3>3
    <2>2. CASE k # op[1]
      <3>1. WritesTo(ops, n + 1, k) = WritesTo(ops, n, k)
        BY <2>2 DEF WritesTo
      <3>2. new[k] = buf[k]
        BY <2>2, <1>2 DEF ApplyOne
      <3> QED
        BY <3>1, <3>2 DEF BufferOK
    <2> QED
      BY <2>1, <2>2
  <1> QED
    BY <1>3, <1>4 DEF BufferOK

\* What the log has after a transaction is appended.
LEMMA AppendHas ==
    ASSUME NEW l \in Seq(LogRows), NEW row \in LogRows
    PROVE  /\ Append(l, row) \in Seq(LogRows)
           /\ \A tx : LogHas(Append(l, row), tx) <=> LogHas(l, tx) \/ row.txid = tx
  <1>1. /\ Append(l, row) \in Seq(LogRows)
        /\ DOMAIN l = 1..Len(l) /\ DOMAIN Append(l, row) = 1..(Len(l) + 1)
        /\ \A i \in 1..Len(l) : Append(l, row)[i] = l[i]
        /\ Append(l, row)[Len(l) + 1] = row
        /\ Len(l) \in Nat
    OBVIOUS
  <1>2. ASSUME NEW tx
        PROVE  LogHas(Append(l, row), tx) <=> LogHas(l, tx) \/ row.txid = tx
    <2>1. ASSUME LogHas(Append(l, row), tx) PROVE LogHas(l, tx) \/ row.txid = tx
      <3>1. PICK i \in 1..(Len(l) + 1) : Append(l, row)[i].txid = tx
        BY <2>1, <1>1 DEF LogHas
      <3>2. i = Len(l) + 1 \/ i \in 1..Len(l)
        BY <1>1
      <3> QED
        BY <3>1, <3>2, <1>1 DEF LogHas
    <2>2. ASSUME LogHas(l, tx) PROVE LogHas(Append(l, row), tx)
      <3>1. PICK i \in 1..Len(l) : l[i].txid = tx
        BY <2>2, <1>1 DEF LogHas
      <3>2. i \in 1..(Len(l) + 1)
        BY <1>1
      <3> QED
        BY <3>1, <3>2, <1>1 DEF LogHas
    <2>3. ASSUME row.txid = tx PROVE LogHas(Append(l, row), tx)
      <3>1. Len(l) + 1 \in 1..(Len(l) + 1)
        BY <1>1
      <3> QED
        BY <2>3, <3>1, <1>1 DEF LogHas
    <2> QED
      BY <2>1, <2>2, <2>3
  <1> QED
    BY <1>1, <1>2

\* A step that touches neither the log nor the answers nor the notifier keeps
\* the two properties about them.
LEMMA QuietStep ==
    ASSUME OnlyOnce, AnswersDurable, UNCHANGED <<log, answer, told>>
    PROVE  OnlyOnce' /\ AnswersDurable'
  BY DEF OnlyOnce, AnswersDurable, LogHas

LEMMA InitInv == Init => Inv
  <1> SUFFICES ASSUME Init PROVE Inv
    OBVIOUS
  <1> USE DEF Init
  <1>1. TypeOK
    <2>1. 0 \in 0..MaxTime
      BY MaxTimeIsNat
    <2> QED
      BY <2>1 DEF TypeOK
  <1>2. OnlyOnce /\ AnswersDurable
    BY DEF OnlyOnce, AnswersDurable, LogHas
  <1>3. Progress
    BY DEF Progress
  <1> QED
    BY <1>1, <1>2, <1>3 DEF Inv

LEMMA NextInv == Inv /\ [Next]_vars => Inv'
  <1> SUFFICES ASSUME Inv, [Next]_vars PROVE Inv'
    OBVIOUS
  <1> USE DEF Inv
  <1>1. ASSUME NEW c \in Callers, NEW q \in Requests, Enter(c, q) PROVE Inv'
    <2>1. <<q, now>> \in TxIds
      BY DEF TypeOK, TxIds
    <2>2. txn' \in TxnRows
      BY <1>1, <2>1 DEF Enter, TypeOK, TxnRows, Steps
    <2>6. TypeOK'
      BY <1>1, <2>2, NoneIsNoCaller, NoneIsNoTxn DEF Enter, TypeOK
    <2>3. Progress'
      BY <1>1 DEF Enter, Progress
    <2>4. OnlyOnce'
      BY <1>1 DEF Enter, OnlyOnce
    <2>5. AnswersDurable'
      BY <1>1 DEF Enter, AnswersDurable, LogHas, TypeOK
    <2> QED
      BY <2>3, <2>4, <2>5, <2>6
  <1>2. ASSUME NEW c \in Callers, AnswerFromLog(c) PROVE Inv'
    <2>1. txn \in TxnRows
      BY <1>2, HolderHasTxn DEF AnswerFromLog
    <2>2. txn.txid \in TxIds
      BY <2>1 DEF TxnRows
    <2>3. TypeOK'
      BY <1>2, <2>2 DEF AnswerFromLog, Leave, TypeOK
    <2>4. Progress' /\ OnlyOnce'
      BY <1>2 DEF AnswerFromLog, Leave, Progress, OnlyOnce
    <2>5. AnswersDurable'
      BY <1>2 DEF AnswerFromLog, Leave, AnswersDurable, LogHas, TypeOK
    <2> QED
      BY <2>3, <2>4, <2>5
  <1>3. ASSUME NEW c \in Callers, Begin(c) PROVE Inv'
    <2>1. txn \in TxnRows /\ txn # None
      BY <1>3, HolderHasTxn DEF Begin
    <2>2. txn' \in TxnRows
      BY <1>3, <2>1 DEF Begin, TxnRows, TypeOK, Steps
    <2>3. txn'.txid = txn.txid /\ txn'.done = txn.done /\ txn'.before = version
          /\ txn'.buffer = rows /\ txn'.at = "apply"
      BY <1>3, <2>1 DEF Begin, TxnRows
    <2>4. TypeOK'
      BY <1>3, <2>2, NoneIsNoCaller, NoneIsNoTxn DEF Begin, TypeOK
    <2>5. txn'.done = 0
      BY <1>3, <2>1, <2>3 DEF Begin, Progress
    <2>6. BufferOK(Ops(txn'.txid), txn'.done, txn'.buffer, rows')
      BY <1>3, <2>3, <2>5 DEF Begin, BufferOK, WritesTo
    <2>7. Len(Ops(txn'.txid)) \in Nat
      BY <2>2, OpsType DEF TxnRows
    <2>8. Progress'
      BY <1>3, <2>3, <2>5, <2>6, <2>7 DEF Begin, IsNew, Progress, LogHas
    <2> QED
      BY <1>3, <2>4, <2>8, QuietStep DEF Begin
  <1>4. ASSUME NEW c \in Callers, ApplyNext(c) PROVE Inv'
    <2> DEFINE ops == Ops(txn.txid)
               buf == ApplyOne(txn.buffer, ops[txn.done + 1])
    <2>1. txn \in TxnRows /\ txn # None
      BY <1>4, HolderHasTxn DEF ApplyNext
    <2>2. txn.txid \in TxIds /\ txn.done \in Nat /\ txn.buffer \in [Rows -> Values \cup {NoWrite}]
      BY <2>1 DEF TxnRows
    <2>3. ops \in Seq(Rows \X Values) /\ txn.done < Len(ops) /\ Len(ops) \in Nat
      BY <1>4, <2>2, OpsType DEF ApplyNext
    <2>4. BufferOK(ops, txn.done, txn.buffer, rows)
      BY <1>4, <2>1 DEF ApplyNext, Progress
    <2>5. buf \in [Rows -> Values \cup {NoWrite}] /\ BufferOK(ops, txn.done + 1, buf, rows)
      BY <2>2, <2>3, <2>4, ApplyOneOK
    <2>6. txn' = [txn EXCEPT !.done = @ + 1, !.buffer = buf] /\ rows' = rows
      BY <1>4 DEF ApplyNext, Buffered
    <2> HIDE DEF buf
    <2>7. txn' \in TxnRows /\ txn'.txid = txn.txid /\ txn'.done = txn.done + 1
          /\ txn'.buffer = buf /\ txn'.at = "apply" /\ txn'.before = txn.before
      <3>1. txn.at = "apply" /\ txn.done + 1 \in Nat
        BY <1>4, <2>2 DEF ApplyNext
      <3>2. txn' \in TxnRows /\ txn'.txid = txn.txid /\ txn'.done = txn.done + 1
            /\ txn'.buffer = buf
        BY <2>1, <2>5, <2>6, <3>1 DEF TxnRows
      <3>3. txn'.at = "apply" /\ txn'.before = txn.before
        BY <2>1, <2>6, <3>1 DEF TxnRows
      <3> QED
        BY <3>2, <3>3
    <2>8. TypeOK'
      BY <1>4, <2>6, <2>7, NoneIsNoCaller, NoneIsNoTxn DEF ApplyNext, TypeOK
    <2>9. txn.done + 1 <= Len(ops)
      BY <2>2, <2>3
    <2>10. Progress'
      BY <1>4, <2>1, <2>5, <2>6, <2>7, <2>9 DEF ApplyNext, Progress, LogHas
    <2> QED
      BY <1>4, <2>8, <2>10, QuietStep DEF ApplyNext
  <1>5. ASSUME NEW c \in Callers, Commit(c) PROVE Inv'
    <2> DEFINE row == [txid |-> txn.txid, before |-> txn.before, after |-> txn.before + 1]
    <2>1. txn \in TxnRows /\ txn # None
      BY <1>5, HolderHasTxn DEF Commit
    <2>2. row \in LogRows
      BY <2>1 DEF TxnRows, LogRows
    <2>3. log' = Append(log, row)
      BY <1>5 DEF Commit
    <2>4. log' \in Seq(LogRows)
          /\ \A tx : LogHas(log', tx) <=> LogHas(log, tx) \/ row.txid = tx
      BY <2>2, <2>3, AppendHas DEF TypeOK
    <2>5. ~LogHas(log, txn.txid)
      BY <1>5, <2>1 DEF Commit, Progress
    <2>6. txn' \in TxnRows /\ txn'.txid = txn.txid /\ txn'.at = "committed"
      BY <1>5, <2>1 DEF Commit, TxnRows, Steps
    <2>7. rows' \in [Rows -> Values \cup {NoWrite}] /\ version' \in Nat
      BY <1>5, <2>1 DEF Commit, TxnRows, TypeOK
    <2>8. TypeOK'
      BY <1>5, <2>4, <2>6, <2>7, NoneIsNoCaller, NoneIsNoTxn DEF Commit, TypeOK
    <2>9. LogHas(log', txn'.txid)
      BY <2>4, <2>6
    <2>10. Progress'
      BY <2>6, <2>9 DEF Progress
    <2>11. AnswersDurable'
      BY <1>5, <2>4 DEF Commit, AnswersDurable
    <2>12. OnlyOnce'
      <3>1. /\ DOMAIN log = 1..Len(log) /\ DOMAIN log' = 1..(Len(log) + 1) /\ Len(log) \in Nat
            /\ \A i \in 1..Len(log) : log'[i] = log[i]
            /\ log'[Len(log) + 1] = row
        BY <2>2, <2>3 DEF TypeOK
      <3>2. \A i \in 1..Len(log) : log'[i].txid # row.txid
        BY <2>5, <3>1 DEF LogHas
      <3>3. ASSUME NEW i \in 1..(Len(log) + 1), NEW j \in 1..(Len(log) + 1),
                   log'[i].txid = log'[j].txid
            PROVE  i = j
        <4> HIDE DEF row
        <4>1. CASE i \in 1..Len(log) /\ j \in 1..Len(log)
          BY <4>1, <3>1, <3>3 DEF OnlyOnce
        <4>2. CASE i = Len(log) + 1 /\ j \in 1..Len(log)
          BY <4>2, <3>1, <3>2, <3>3
        <4>3. CASE j = Len(log) + 1 /\ i \in 1..Len(log)
          BY <4>3, <3>1, <3>2, <3>3
        <4> QED
          BY <4>1, <4>2, <4>3, <3>1
      <3> QED
        BY <3>1, <3>3 DEF OnlyOnce
    <2> QED
      BY <2>8, <2>10, <2>11, <2>12
  <1>6. ASSUME NEW c \in Callers, Answer(c) PROVE Inv'
    <2>1. txn \in TxnRows /\ txn # None
      BY <1>6, HolderHasTxn DEF Answer
    <2>2. txn.txid \in TxIds /\ LogHas(log, txn.txid)
      BY <1>6, <2>1 DEF Answer, TxnRows, Progress
    <2>3. /\ told' \in Seq(TxIds) /\ DOMAIN told' = 1..(Len(told) + 1) /\ Len(told) \in Nat
          /\ DOMAIN told = 1..Len(told)
          /\ \A i \in 1..Len(told) : told'[i] = told[i]
          /\ told'[Len(told) + 1] = txn.txid
      BY <1>6, <2>2 DEF Answer, TypeOK
    <2>4. TypeOK'
      BY <1>6, <2>2, <2>3 DEF Answer, Leave, TypeOK
    <2>5. Progress' /\ OnlyOnce'
      BY <1>6 DEF Answer, Leave, Progress, OnlyOnce
    <2>6. \A d \in Callers : answer'[d][1] = "ok" => LogHas(log', answer'[d][2])
      BY <1>6, <2>2 DEF Answer, Leave, AnswersDurable, LogHas, TypeOK
    <2>7. ASSUME NEW i \in DOMAIN told' PROVE LogHas(log', told'[i])
      <3>1. log' = log
        BY <1>6 DEF Answer
      <3>2. i \in 1..Len(told) \/ i = Len(told) + 1
        BY <2>3
      <3> QED
        BY <2>2, <2>3, <3>1, <3>2 DEF AnswersDurable
    <2> QED
      BY <2>4, <2>5, <2>6, <2>7 DEF AnswersDurable
  <1>7. ASSUME NEW c \in Callers, Rollback(c) PROVE Inv'
    <2>1. TypeOK'
      BY <1>7 DEF Rollback, Leave, TypeOK
    <2>2. Progress' /\ OnlyOnce'
      BY <1>7 DEF Rollback, Leave, Progress, OnlyOnce
    <2>3. AnswersDurable'
      BY <1>7 DEF Rollback, Leave, AnswersDurable, LogHas, TypeOK
    <2> QED
      BY <2>1, <2>2, <2>3
  <1>8. CASE Crash
    <2>1. TypeOK' /\ Progress'
      BY <1>8 DEF Crash, TypeOK, Progress
    <2> QED
      BY <1>8, <2>1, QuietStep DEF Crash
  <1>9. CASE Migrate
    <2>1. txn = None
      BY <1>9 DEF Migrate, TypeOK
    <2>2. TypeOK' /\ Progress'
      BY <1>9, <2>1 DEF Migrate, TypeOK, Progress
    <2> QED
      BY <1>9, <2>2, QuietStep DEF Migrate
  <1>10. CASE Tick
    <2>1. now' \in 0..MaxTime
      BY <1>10, MaxTimeIsNat DEF Tick, TypeOK
    <2>2. TypeOK'
      BY <1>10, <2>1 DEF Tick, TypeOK
    <2>3. Progress'
      BY <1>10 DEF Tick, Progress, LogHas
    <2> QED
      BY <1>10, <2>2, <2>3, QuietStep DEF Tick
  <1>11. CASE UNCHANGED vars
    <2>1. TypeOK' /\ Progress'
      BY <1>11 DEF vars, TypeOK, Progress, LogHas
    <2> QED
      BY <1>11, <2>1, QuietStep DEF vars
  <1> QED
    BY <1>1, <1>2, <1>3, <1>4, <1>5, <1>6, <1>7, <1>8, <1>9, <1>10, <1>11 DEF Next

\* The values the variables of the transaction machinery take.
THEOREM TypeCorrect == Spec => []TypeOK
  <1>1. Inv => TypeOK
    BY DEF Inv
  <1> QED
    BY InitInv, NextInv, <1>1, PTL DEF Spec

\* However often a request is sent, and wherever the process dies, commit logs
\* it once: the log is searched under the same lock that appends to it.
THEOREM LoggedOnce == Spec => []OnlyOnce
  <1>1. Inv => OnlyOnce
    BY DEF Inv
  <1> QED
    BY InitInv, NextInv, <1>1, PTL DEF Spec

\* No crash takes back what a caller or the notifier was told.
THEOREM NothingTakenBack == Spec => []AnswersDurable
  <1>1. Inv => AnswersDurable
    BY DEF Inv
  <1> QED
    BY InitInv, NextInv, <1>1, PTL DEF Spec

\* A transaction row's version_before and version_after are the ledger's own.
THEOREM VersionsTrue == Spec => LandsWhereItSays
  <1>1. ASSUME Inv, [Next]_vars, log' # log
        PROVE  /\ Len(log') = Len(log) + 1
               /\ log'[Len(log')].before = version
               /\ log'[Len(log')].after = version'
    <2>1. PICK c \in Callers : Commit(c)
      BY <1>1 DEF Next, vars, Enter, AnswerFromLog, Begin, ApplyNext, Answer, Rollback, Crash,
                  Migrate, Tick
    <2> DEFINE row == [txid |-> txn.txid, before |-> txn.before, after |-> txn.before + 1]
    <2>2. txn \in TxnRows /\ txn # None
      BY <1>1, <2>1, HolderHasTxn DEF Commit, Inv
    <2>3. row \in LogRows /\ txn.before = version /\ version' = version + 1
      BY <1>1, <2>1, <2>2 DEF Commit, Inv, Progress, TxnRows, LogRows
    <2>4. log' = Append(log, row) /\ log \in Seq(LogRows)
      BY <1>1, <2>1 DEF Commit, Inv, TypeOK
    <2>5. Len(log') = Len(log) + 1 /\ log'[Len(log')] = row
      BY <2>3, <2>4
    <2> QED
      BY <2>3, <2>5
  <1>2. Inv /\ [Next]_vars =>
          [log' # log => /\ Len(log') = Len(log) + 1
                         /\ log'[Len(log')].before = version
                         /\ log'[Len(log')].after = version']_vars
    BY <1>1
  <1> QED
    BY InitInv, NextInv, <1>2, PTL DEF Spec, LandsWhereItSays

\* When every entry of the write set is in the buffer, the buffer is what the
\* abstract transaction makes of the rows.
LEMMA BufferIsEffect ==
    ASSUME NEW tx \in TxIds, NEW buf \in [Rows -> Values \cup {NoWrite}],
           NEW r \in [Rows -> Values \cup {NoWrite}],
           BufferOK(Ops(tx), Len(Ops(tx)), buf, r)
    PROVE  buf = Abs!Applied(tx, r)
  <1> DEFINE ops == Ops(tx)
             n   == Len(ops)
  <1>1. ops \in Seq(Rows \X Values) /\ \A i \in 1..n : ops[i] \in Rows \X Values
    BY OpsType
  <1>2. \A k \in Rows : Effect[tx][k] = LastWrite(ops, n, k)
    BY DEF Effect
  <1>3. ASSUME NEW k \in Rows
        PROVE  buf[k] = IF LastWrite(ops, n, k) = NoWrite THEN r[k] ELSE LastWrite(ops, n, k)
    <2> DEFINE ws == WritesTo(ops, n, k)
    <2>1. CASE ws = {} /\ buf[k] = r[k]
      BY <2>1 DEF LastWrite
    <2>2. CASE \E i \in ws : (\A j \in ws : j <= i) /\ buf[k] = ops[i][2]
      <3>1. PICK i \in ws : (\A j \in ws : j <= i) /\ buf[k] = ops[i][2]
        BY <2>2
      <3>2. \A a, b \in ws : a <= b /\ b <= a => a = b
        BY DEF WritesTo
      <3>3. (CHOOSE a \in ws : \A j \in ws : j <= a) = i
        BY <3>1, <3>2
      <3>4. LastWrite(ops, n, k) = ops[i][2]
        BY <3>1, <3>3 DEF LastWrite
      <3>5. ops[i][2] \in Values
        BY <3>1, <1>1 DEF WritesTo
      <3> QED
        BY <3>1, <3>4, <3>5, NoWriteIsNoValue
    <2> QED
      BY <2>1, <2>2 DEF BufferOK
  <1>4. Abs!Applied(tx, r) =
          [k \in Rows |-> IF LastWrite(ops, n, k) = NoWrite THEN r[k] ELSE LastWrite(ops, n, k)]
    BY <1>2 DEF Abs!Applied
  <1> QED
    BY <1>3, <1>4

\* commit implements the abstract log: whatever the interleaving, the failures
\* and the crashes, the rows change by whole transactions and in log order.
THEOREM CommitsAreAtomic == Spec => Atomic
  <1> DEFINE txids == [i \in DOMAIN log |-> log[i].txid]
  <1>1. Init => Abs!Init
    BY DEF Init, Abs!Init
  <1>2. ASSUME Inv, [Next]_vars PROVE [Abs!Next]_<<txids, rows>>
    <2>1. ASSUME NEW c \in Callers, Commit(c) PROVE Abs!Next
      <3> DEFINE row == [txid |-> txn.txid, before |-> txn.before, after |-> txn.before + 1]
      <3>1. txn \in TxnRows /\ txn # None
        BY <1>2, <2>1, HolderHasTxn DEF Commit, Inv
      <3>2. row \in LogRows /\ txn.txid \in TxIds
        BY <3>1 DEF TxnRows, LogRows
      <3>3. log' = Append(log, row) /\ log \in Seq(LogRows)
        BY <1>2, <2>1 DEF Commit, Inv, TypeOK
      <3>4. ~LogHas(log, txn.txid) /\ BufferOK(Ops(txn.txid), Len(Ops(txn.txid)), txn.buffer, rows)
        BY <1>2, <2>1, <3>1 DEF Commit, Inv, Progress
      <3>5. rows' = Abs!Applied(txn.txid, rows)
        BY <1>2, <2>1, <3>1, <3>2, <3>4, BufferIsEffect DEF Commit, Inv, TypeOK, TxnRows
      <3>6. ~Abs!InLog(txids, txn.txid)
        BY <3>4 DEF LogHas, Abs!InLog
      <3>7. txids' = Append(txids, txn.txid)
        <4>1. /\ Len(log) \in Nat /\ DOMAIN log = 1..Len(log)
              /\ DOMAIN log' = 1..(Len(log) + 1)
              /\ \A i \in 1..Len(log) : log'[i] = log[i]
              /\ log'[Len(log) + 1] = row
          BY <3>2, <3>3
        <4>2. \A i \in 1..Len(log) : log[i].txid \in TxIds
          <5>1. \A i \in 1..Len(log) : log[i] \in LogRows
            BY <3>3
          <5> QED
            BY <5>1 DEF LogRows
        <4>3. txids \in Seq(TxIds) /\ Len(txids) = Len(log)
          BY <4>1, <4>2
        <4>4. \A i \in 1..(Len(log) + 1) : txids'[i] = Append(txids, txn.txid)[i]
          BY <3>2, <4>1, <4>3
        <4>5. Append(txids, txn.txid) \in Seq(TxIds) /\ Len(Append(txids, txn.txid)) = Len(log) + 1
          BY <3>2, <4>3, <4>1
        <4> QED
          BY <4>1, <4>4, <4>5
      <3> QED
        BY <3>2, <3>5, <3>6, <3>7 DEF Abs!Next, Abs!Act
    <2>2. (log' = log /\ rows' = rows) \/ \E c \in Callers : Commit(c)
      BY <1>2 DEF Next, vars, Enter, AnswerFromLog, Begin, ApplyNext, Buffered, Answer, Rollback,
                  Crash, Migrate, Tick
    <2>3. CASE log' = log /\ rows' = rows
      BY <2>3
    <2> QED
      BY <2>1, <2>2, <2>3
  <1>3. Inv /\ [Next]_vars => [Abs!Next]_<<txids, rows>>
    BY <1>2
  <1> QED
    BY InitInv, NextInv, <1>1, <1>3, PTL DEF Spec, Atomic, Abs!Spec

----------------------------------------------------------------------------
(* The offline check of the log.                                           *)

\* A set of naturals has a least element.
LEMMA NatMin ==
    ASSUME NEW T \in SUBSET Nat, T # {}
    PROVE  \E x \in T : \A y \in T : x <= y
  <1> DEFINE R == OpToRel(<, Nat)
  <1>1. \A x, y \in Nat : <<x, y>> \in R <=> x < y
    BY DEF OpToRel
  <1>2. IsWellFoundedOn(R, Nat)
    BY NatLessThanWellFounded DEF OpToRel
  <1> HIDE DEF R
  <1>3. PICK x \in T : \A y \in T : ~(<<y, x>> \in R)
    BY <1>2, WFMin
  <1>4. ASSUME NEW y \in T PROVE x <= y
    <2>1. x \in Nat /\ y \in Nat /\ ~(<<y, x>> \in R)
      BY <1>3
    <2>2. ~(y < x)
      BY <1>1, <2>1
    <2> QED
      BY <2>1, <2>2
  <1> QED
    BY <1>4

\* A set of naturals below a bound has a greatest element.
LEMMA NatMax ==
    ASSUME NEW n \in Nat, NEW S \in SUBSET (0..n), S # {}
    PROVE  \E x \in S : \A y \in S : y <= x
  <1> DEFINE T == {m \in Nat : \E x \in S : m = n - x}
  <1>1. T \in SUBSET Nat /\ T # {}
    <2>1. PICK x \in S : TRUE
      OBVIOUS
    <2>2. n - x \in T
      OBVIOUS
    <2> QED
      BY <2>2
  <1>2. PICK m \in T : \A k \in T : m <= k
    BY <1>1, NatMin
  <1>3. PICK x \in S : m = n - x
    OBVIOUS
  <1>4. \A y \in S : n - y \in T
    OBVIOUS
  <1> QED
    BY <1>2, <1>3, <1>4

\* Every row is one commit, and later rows are later versions.
VersionsRise ==
    /\ \A i \in DOMAIN log : log[i].after = log[i].before + 1 /\ log[i].after <= version
    /\ \A i, j \in DOMAIN log : i < j => log[i].after < log[j].after

\* A checkpoint counts rows that were committed by its version.
AnchorsTrue ==
    \A a \in anchors :
        /\ a.version \in Nat /\ a.txSeq \in 0..Len(log)
        /\ \A i \in DOMAIN log : i <= a.txSeq => log[i].after <= a.version

AuditInv == Inv /\ VersionsRise /\ AnchorsTrue

\* A step either leaves the log and does not lower the version, or appends a row
\* for the version it commits.
LEMMA LogSteps ==
    ASSUME Inv, [Next]_vars
    PROVE  \/ log' = log /\ version' \in Nat /\ version' >= version
           \/ \E row \in LogRows : /\ log' = Append(log, row) /\ version' = version + 1
                                   /\ row.before = version /\ row.after = version + 1
  <1>1. version \in Nat
    BY DEF Inv, TypeOK
  <1>2. ASSUME NEW c \in Callers, Commit(c)
        PROVE  \E row \in LogRows : /\ log' = Append(log, row) /\ version' = version + 1
                                    /\ row.before = version /\ row.after = version + 1
    <2> DEFINE row == [txid |-> txn.txid, before |-> txn.before, after |-> txn.before + 1]
    <2>1. txn \in TxnRows /\ txn # None
      BY <1>2, HolderHasTxn DEF Commit, Inv
    <2>2. row \in LogRows /\ txn.before = version
      BY <1>2, <2>1 DEF Commit, Inv, Progress, TxnRows, LogRows
    <2>3. log' = Append(log, row) /\ version' = version + 1
      BY <1>2 DEF Commit
    <2>4. row.before = version /\ row.after = version + 1
      BY <2>2
    <2> QED
      BY <2>2, <2>3, <2>4
  <1>3. (log' = log /\ version' = version) \/ Migrate \/ \E c \in Callers : Commit(c)
    BY DEF Next, vars, Enter, AnswerFromLog, Begin, ApplyNext, Answer, Rollback, Crash, Tick
  <1>4. CASE Migrate
    BY <1>1, <1>4 DEF Migrate
  <1> QED
    BY <1>1, <1>2, <1>3, <1>4

LEMMA AuditNextInv == AuditInv /\ [AuditNext]_auditVars => AuditInv'
  <1> SUFFICES ASSUME AuditInv, [AuditNext]_auditVars PROVE AuditInv'
    OBVIOUS
  <1>0. /\ log \in Seq(LogRows) /\ Len(log) \in Nat /\ DOMAIN log = 1..Len(log) /\ version \in Nat
        /\ \A i \in 1..Len(log) : log[i] \in LogRows /\ log[i].after \in Nat
    <2>1. log \in Seq(LogRows) /\ version \in Nat
      BY DEF AuditInv, Inv, TypeOK
    <2>2. \A i \in 1..Len(log) : log[i] \in LogRows
      BY <2>1
    <2> QED
      BY <2>1, <2>2 DEF LogRows
  <1>1. CASE [Next]_vars /\ UNCHANGED anchors
    <2>1. Inv'
      BY <1>1, NextInv DEF AuditInv
    <2>2. CASE log' = log /\ version' \in Nat /\ version' >= version
      <3>1. VersionsRise'
        BY <1>0, <2>2 DEF AuditInv, VersionsRise
      <3>2. AnchorsTrue'
        BY <1>1, <2>2 DEF AuditInv, AnchorsTrue
      <3> QED
        BY <2>1, <3>1, <3>2 DEF AuditInv
    <2>3. CASE \E row \in LogRows : /\ log' = Append(log, row) /\ version' = version + 1
                                    /\ row.before = version /\ row.after = version + 1
      <3>1. PICK row \in LogRows : /\ log' = Append(log, row) /\ version' = version + 1
                                   /\ row.before = version /\ row.after = version + 1
        BY <2>3
      <3> DEFINE n == Len(log)
      <3>2. /\ Len(log') = n + 1 /\ DOMAIN log' = 1..(n + 1)
            /\ \A i \in 1..n : log'[i] = log[i]
            /\ log'[n + 1] = row
        BY <1>0, <3>1
      <3>3. \A i \in 1..n : log[i].after <= version /\ log[i].after = log[i].before + 1
        BY <1>0 DEF AuditInv, VersionsRise
      <3>4. VersionsRise'
        <4>1. ASSUME NEW i \in 1..(n + 1)
              PROVE  log'[i].after = log'[i].before + 1 /\ log'[i].after <= version'
          <5>1. CASE i = n + 1
            BY <1>0, <3>1, <3>2, <5>1
          <5>2. CASE i \in 1..n
            BY <1>0, <3>1, <3>2, <3>3, <5>2
          <5> QED
            BY <1>0, <5>1, <5>2
        <4>2. ASSUME NEW i \in 1..(n + 1), NEW j \in 1..(n + 1), i < j
              PROVE  log'[i].after < log'[j].after
          <5>1. i \in 1..n /\ (j = n + 1 \/ j \in 1..n)
            BY <1>0, <4>2
          <5>2. CASE j = n + 1
            BY <1>0, <3>1, <3>2, <3>3, <5>1, <5>2
          <5>3. CASE j \in 1..n
            BY <1>0, <3>2, <4>2, <5>1, <5>3 DEF AuditInv, VersionsRise
          <5> QED
            BY <5>1, <5>2, <5>3
        <4> QED
          BY <3>2, <4>1, <4>2 DEF VersionsRise
      <3>5. AnchorsTrue'
        <4> SUFFICES ASSUME NEW a \in anchors'
                     PROVE  /\ a.version \in Nat /\ a.txSeq \in 0..Len(log')
                            /\ \A i \in DOMAIN log' : i <= a.txSeq => log'[i].after <= a.version
          BY DEF AnchorsTrue
        <4>1. /\ a.version \in Nat /\ a.txSeq \in 0..n
              /\ \A i \in 1..n : i <= a.txSeq => log[i].after <= a.version
          BY <1>0, <1>1 DEF AuditInv, AnchorsTrue
        <4>2. a.txSeq \in 0..(n + 1) /\ \A i \in 1..(n + 1) : i <= a.txSeq => i \in 1..n
          BY <1>0, <4>1
        <4> QED
          BY <3>2, <4>1, <4>2
      <3> QED
        BY <2>1, <3>4, <3>5 DEF AuditInv
    <2> QED
      BY <1>1, <2>2, <2>3, LogSteps DEF AuditInv
  <1>2. CASE IssueCheckpoint
    <2>1. UNCHANGED vars
      BY <1>2 DEF IssueCheckpoint
    <2>2. Inv'
      BY <2>1, NextInv DEF AuditInv
    <2>3. log' = log /\ version' = version
      BY <2>1 DEF vars
    <2>4. VersionsRise'
      BY <2>3 DEF AuditInv, VersionsRise
    <2>5. AnchorsTrue'
      <3> DEFINE new == [version |-> version, txSeq |-> Len(log)]
      <3>1. anchors' = anchors \cup {new}
        BY <1>2 DEF IssueCheckpoint
      <3>2. /\ new.version \in Nat /\ new.txSeq \in 0..Len(log)
            /\ \A i \in DOMAIN log : i <= new.txSeq => log[i].after <= new.version
        BY <1>0 DEF AuditInv, VersionsRise
      <3> HIDE DEF new
      <3> QED
        BY <2>3, <3>1, <3>2 DEF AuditInv, AnchorsTrue
    <2> QED
      BY <2>2, <2>4, <2>5 DEF AuditInv
  <1> QED
    BY <1>1, <1>2 DEF AuditNext, auditVars

\* What verifyLogCompleteness finds in the first n rows of an honest log.
LEMMA PrefixFacts ==
    ASSUME AuditInv, NEW n \in DOMAIN log
    PROVE  Complete(1..n)
  <1>1. /\ n \in Nat /\ n >= 1 /\ n <= Len(log) /\ Len(log) \in Nat /\ DOMAIN log = 1..Len(log)
        /\ \A i \in DOMAIN log : log[i].after \in Nat
    <2>1. log \in Seq(LogRows)
      BY DEF AuditInv, Inv, TypeOK
    <2>2. \A i \in DOMAIN log : log[i] \in LogRows
      BY <2>1
    <2> QED
      BY <2>1, <2>2 DEF LogRows
  <1>2. Highest(1..n) = n
    BY <1>1 DEF Highest
  <1>3. Lowest(1..n) = 1
    BY <1>1 DEF Lowest
  <1>4. HighestVersion(1..n) = log[n].after
    <2> DEFINE vs == {log[i].after : i \in 1..n}
    <2>1. log[n].after \in vs /\ \A w \in vs : w \in Nat /\ w <= log[n].after
      <3>1. ASSUME NEW i \in 1..n PROVE log[i].after \in Nat /\ log[i].after <= log[n].after
        BY <1>1 DEF AuditInv, VersionsRise
      <3> QED
        BY <1>1, <3>1
    <2>2. \A v \in vs : (\A w \in vs : w <= v) => v = log[n].after
      BY <2>1
    <2>3. HighestVersion(1..n) = CHOOSE v \in vs : \A w \in vs : w <= v
      BY DEF HighestVersion
    <2> HIDE DEF vs
    <2> QED
      BY <2>1, <2>2, <2>3
  <1>5. Continuous(1..n)
    BY <1>1, <1>3 DEF Continuous, AuditInv, VersionsRise
  <1>6. ShortFor(1..n) = {}
    <2> SUFFICES ASSUME NEW a \in anchors, a.txSeq > n, a.version <= log[n].after PROVE FALSE
      BY <1>2, <1>4 DEF ShortFor
    <2>1. a.version \in Nat /\ a.txSeq \in 0..Len(log)
          /\ \A i \in DOMAIN log : i <= a.txSeq => log[i].after <= a.version
      BY DEF AuditInv, AnchorsTrue
    <2>2. n + 1 \in DOMAIN log /\ n < n + 1 /\ n + 1 <= a.txSeq
      BY <1>1, <2>1
    <2>3. log[n].after < log[n + 1].after /\ log[n + 1].after <= a.version
      BY <2>1, <2>2 DEF AuditInv, VersionsRise
    <2> QED
      BY <1>1, <2>1, <2>2, <2>3
  <1> QED
    BY <1>3, <1>5, <1>6 DEF Complete

\* A copy without a gap that begins at the beginning is a prefix.
LEMMA NoGapIsPrefix ==
    ASSUME NEW n \in Nat, NEW seqs \in SUBSET (1..n), seqs # {}, Lowest(seqs) = 1,
           \A i \in seqs : i = Lowest(seqs) \/ i - 1 \in seqs
    PROVE  seqs = 1..Highest(seqs)
  <1>1. PICK top \in seqs : \A y \in seqs : y <= top
    <2>1. seqs \in SUBSET (0..n)
      OBVIOUS
    <2> QED
      BY <2>1, NatMax
  <1>2. Highest(seqs) = top
    <2>1. \A i \in seqs : (\A j \in seqs : j <= i) => i = top
      BY <1>1
    <2> QED
      BY <1>1, <2>1 DEF Highest
  <1> DEFINE gaps == (1..top) \ seqs
  <1>3. gaps = {}
    <2> SUFFICES ASSUME gaps # {} PROVE FALSE
      OBVIOUS
    <2>1. top \in Nat /\ gaps \in SUBSET (0..top)
      OBVIOUS
    <2>2. PICK g \in gaps : \A y \in gaps : y <= g
      BY <2>1, NatMax
    <2>3. g + 1 \in 1..top /\ g + 1 \notin gaps
      BY <1>1, <2>1, <2>2
    <2>4. g + 1 \in seqs /\ g + 1 # 1 /\ (g + 1) - 1 = g
      BY <2>1, <2>3
    <2> QED
      BY <2>2, <2>4
  <1>4. seqs \subseteq 1..top
    BY <1>1
  <1> QED
    BY <1>2, <1>3, <1>4

\* The log of an honest register is found complete whenever it was fetched, and
\* a copy that is found complete has no gap before its own last entry
\* (verifyLogCompleteness).
THEOREM LogIsAccepted == AuditSpec => []AcceptedLog
  <1>1. AuditInit => AuditInv
    BY InitInv DEF AuditInit, Init, AuditInv, VersionsRise, AnchorsTrue
  <1>2. ASSUME AuditInv PROVE AcceptedLog
    <2>1. ASSUME NEW seqs \in Copies, Complete(seqs) PROVE seqs = 1..Highest(seqs)
      <3>1. Len(log) \in Nat /\ seqs \in SUBSET (1..Len(log)) /\ seqs # {}
        <4>1. log \in Seq(LogRows)
          BY <1>2 DEF AuditInv, Inv, TypeOK
        <4>2. seqs \subseteq DOMAIN log /\ seqs # {}
          BY DEF Copies
        <4> QED
          BY <4>1, <4>2
      <3>2. /\ Lowest(seqs) = 1
            /\ \A i \in seqs : i = Lowest(seqs) \/ i - 1 \in seqs
        BY <2>1 DEF Complete, Continuous
      <3> QED
        BY <3>1, <3>2, NoGapIsPrefix
    <2> QED
      BY <1>2, <2>1, PrefixFacts DEF AcceptedLog
  <1> QED
    BY <1>1, <1>2, AuditNextInv, PTL DEF AuditSpec

=============================================================================
