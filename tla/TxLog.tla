------------------------------- MODULE TxLog --------------------------------
(***************************************************************************)
(* The transaction machinery (internal/register/register.go: commit, apply,*)
(* transactionID) over the store's one mutex and one SQL transaction       *)
(* (internal/store/store.go: Do, Begin, Commit, Rollback).                 *)
(*                                                                         *)
(* Calls run concurrently and hold the store one at a time.  Inside, a     *)
(* transaction is buffered statement by statement and lands as one ledger  *)
(* commit; a statement may fail, and the process may die between any two   *)
(* steps.  A caller who got no answer sends the same request again.        *)
(***************************************************************************)
EXTENDS Naturals, Sequences, FiniteSets

CONSTANTS
    Callers,    \* requests in flight
    Requests,   \* what a request asks for: an envelope without its timestamp
    Rows,       \* primary keys of the rows a write set may name
    Writes,     \* request -> sequence of <<row, value>>, its write set
    Values,     \* the values written (a deletion writes one of its own)
    NoWrite,    \* the value of a row nobody wrote
    MaxTime,    \* bound: the clock stops here
    MaxVersion, \* bound: versions of the ledger
    None

ASSUME WritesAreOps == Writes \in [Requests -> Seq(Rows \X Values)]
ASSUME NoWriteIsNoValue == NoWrite \notin Values
ASSUME NoneIsNoCaller == None \notin Callers
ASSUME MaxTimeIsNat == MaxTime \in Nat

VARIABLES
    log,        \* the transactions table: [txid, before, after], in seq order
    rows,       \* every other table
    version,    \* the ledger's version
    lock,       \* store.mu: the caller inside Do, or None
    txn,        \* the holder's progress through commit, or None
    answer,     \* what each caller was last told
    told,       \* transactions the notifier was given
    now

durable == <<log, rows, version>>
vars == <<log, rows, version, lock, txn, answer, told, now>>

\* transactionID: the envelope carries the time of the call in seconds.
TxIds == Requests \X (0..MaxTime)
Ops(tx) == Writes[tx[1]]

LogRows == [txid : TxIds, before : Nat, after : Nat]
Steps   == {"check", "apply", "committed"}
TxnRows == [txid : TxIds, at : Steps, before : Nat, done : Nat,
            buffer : [Rows -> Values \cup {NoWrite}]]

ASSUME NoneIsNoTxn == None \notin TxnRows

TypeOK ==
    /\ log \in Seq(LogRows)
    /\ rows \in [Rows -> Values \cup {NoWrite}]
    /\ version \in Nat
    /\ lock \in Callers \cup {None}
    /\ txn \in TxnRows \cup {None}
    /\ lock = None <=> txn = None
    /\ answer \in [Callers -> {<<"none">>, <<"error">>} \cup ({"ok"} \X TxIds)]
    /\ told \in Seq(TxIds)
    /\ now \in 0..MaxTime

----------------------------------------------------------------------------

LogHas(l, tx) == \E i \in DOMAIN l : l[i].txid = tx

\* applyOne: an upsert of one row.
ApplyOne(buf, op) == [buf EXCEPT ![op[1]] = op[2]]

\* store.Do: the caller takes the store and its request gets its timestamp.
Enter(c, q) ==
    /\ lock = None
    /\ lock' = c
    /\ answer' = [answer EXCEPT ![c] = <<"none">>]
    /\ txn' = [txid |-> <<q, now>>, at |-> "check", before |-> version, done |-> 0,
               buffer |-> rows]
    /\ UNCHANGED <<log, rows, version, told, now>>

\* Do returns: the mutex is released and the caller told.
Leave(c, what) ==
    /\ lock' = None
    /\ txn' = None
    /\ answer' = [answer EXCEPT ![c] = what]

\* commit: a transaction id already in the log is answered from it.
AnswerFromLog(c) ==
    /\ lock = c
    /\ txn.at = "check"
    /\ LogHas(log, txn.txid)
    /\ Leave(c, <<"ok", txn.txid>>)
    /\ UNCHANGED <<log, rows, version, told, now>>

\* commit: the log does not have it; BEGIN, on the root and version read here.
IsNewUnchecked(tx) == TRUE
IsNew(tx) == ~LogHas(log, tx)
Begin(c) ==
    /\ lock = c
    /\ txn.at = "check"
    /\ IsNew(txn.txid)
    /\ txn' = [txn EXCEPT !.at = "apply", !.before = version, !.buffer = rows]
    /\ UNCHANGED <<log, rows, version, lock, answer, told, now>>

\* apply, one entry of the write set: buffered, not stored.
Stored(buf) == buf
Buffered(buf) == rows
ApplyNext(c) ==
    /\ lock = c
    /\ txn.at = "apply"
    /\ txn.done < Len(Ops(txn.txid))
    /\ LET buf == ApplyOne(txn.buffer, Ops(txn.txid)[txn.done + 1])
       IN  /\ txn' = [txn EXCEPT !.done = @ + 1, !.buffer = buf]
           /\ rows' = Buffered(buf)
    /\ UNCHANGED <<log, version, lock, answer, told, now>>

\* COMMIT: the transaction row and its effects are one ledger commit.
Commit(c) ==
    /\ lock = c
    /\ txn.at = "apply"
    /\ txn.done = Len(Ops(txn.txid))
    /\ version < MaxVersion
    /\ log' = Append(log, [txid |-> txn.txid, before |-> txn.before, after |-> txn.before + 1])
    /\ rows' = txn.buffer
    /\ version' = version + 1
    /\ txn' = [txn EXCEPT !.at = "committed"]
    /\ UNCHANGED <<lock, answer, told, now>>

AnswerEarly(c) ==
    /\ lock = c
    /\ txn.at \in {"apply", "committed"}
    /\ told' = Append(told, txn.txid)
    /\ Leave(c, <<"ok", txn.txid>>)
    /\ UNCHANGED <<log, rows, version, now>>
\* The notifier is told inside the lock, and the caller gets the transaction.
Answer(c) ==
    /\ lock = c
    /\ txn.at = "committed"
    /\ told' = Append(told, txn.txid)
    /\ Leave(c, <<"ok", txn.txid>>)
    /\ UNCHANGED <<log, rows, version, now>>

\* The envelope does not validate, or a statement fails before the commit: the
\* error is returned, after the deferred ROLLBACK if BEGIN had run.
Rollback(c) ==
    /\ lock = c
    /\ txn.at \in {"check", "apply"}
    /\ Leave(c, <<"error">>)
    /\ UNCHANGED <<log, rows, version, told, now>>

\* The process dies: the buffer and every answer not yet given are gone.
Crash ==
    /\ lock' = None
    /\ txn' = None
    /\ UNCHANGED <<log, rows, version, answer, told, now>>

MigrateUnlocked ==
    /\ version < MaxVersion
    /\ version' = version + 1
    /\ UNCHANGED <<log, rows, lock, txn, answer, told, now>>
\* Migrate and ensureProjections: a statement outside a transaction is a
\* ledger commit of its own, and no row of the log describes it.
Migrate ==
    /\ lock = None
    /\ version < MaxVersion
    /\ version' = version + 1
    /\ UNCHANGED <<log, rows, lock, txn, answer, told, now>>

Tick ==
    /\ now < MaxTime
    /\ now' = now + 1
    /\ UNCHANGED <<log, rows, version, lock, txn, answer, told>>

----------------------------------------------------------------------------

Init ==
    /\ log = <<>>
    /\ rows = [k \in Rows |-> NoWrite]
    /\ version = 0
    /\ lock = None
    /\ txn = None
    /\ answer = [c \in Callers |-> <<"none">>]
    /\ told = <<>>
    /\ now = 0

Next ==
    \/ \E c \in Callers :
        \/ \E q \in Requests : Enter(c, q)
        \/ AnswerFromLog(c) \/ Begin(c) \/ ApplyNext(c) \/ Commit(c) \/ Answer(c) \/ Rollback(c)
    \/ Crash
    \/ Migrate
    \/ Tick

Spec == Init /\ [][Next]_vars

----------------------------------------------------------------------------
(* Properties.                                                             *)

\* A request that is sent again, after a crash took its answer or because two
\* callers send it at once, is in the log once.
OnlyOnce == \A i, j \in DOMAIN log : log[i].txid = log[j].txid => i = j

\* Whatever a caller was told happened is in the log, and the notifier hears of
\* no transaction that is not, whenever the process dies (Commit, Answer).
AnswersDurable ==
    /\ \A c \in Callers : answer[c][1] = "ok" => LogHas(log, answer[c][2])
    /\ \A i \in DOMAIN told : LogHas(log, told[i])

\* The versions a transaction row claims are the ones it was committed at: no
\* other statement, a schema change included, slips between the version it read
\* and its commit ("an action must be one commit").
LandsWhereItSays ==
    [][log' # log => /\ Len(log') = Len(log) + 1
                     /\ log'[Len(log')].before = version
                     /\ log'[Len(log')].after = version']_vars

\* The value a write set leaves in a row, if it writes it.
WritesTo(ops, n, k) == {i \in 1..n : ops[i][1] = k}
LastWrite(ops, n, k) ==
    LET ws == WritesTo(ops, n, k)
    IN  IF ws = {} THEN NoWrite ELSE ops[CHOOSE i \in ws : \A j \in ws : j <= i][2]

Effect == [tx \in TxIds |-> [k \in Rows |-> LastWrite(Ops(tx), Len(Ops(tx)), k)]]

Abs == INSTANCE Log WITH log <- [i \in DOMAIN log |-> log[i].txid]

\* commit implements the abstract log: seen from outside, the rows change only
\* by whole transactions, in the order of the log.
Atomic == Abs!Spec

=============================================================================
