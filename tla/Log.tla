-------------------------------- MODULE Log ---------------------------------
(***************************************************************************)
(* What commit promises its callers: the register's rows change only by    *)
(* whole transactions, each one is in the log, and none is applied twice.  *)
(***************************************************************************)
EXTENDS Sequences

CONSTANTS
    TxIds,      \* transaction identifiers
    Rows,       \* primary keys
    Effect      \* what a transaction does to the rows: Effect[tx][row] is the
                \* value written, or NoWrite

CONSTANT NoWrite

VARIABLES log, rows

Applied(tx, r) == [k \in Rows |-> IF Effect[tx][k] = NoWrite THEN r[k] ELSE Effect[tx][k]]

InLog(l, tx) == \E i \in DOMAIN l : l[i] = tx

Act(tx) ==
    /\ ~InLog(log, tx)
    /\ log' = Append(log, tx)
    /\ rows' = Applied(tx, rows)

Init == log = <<>> /\ rows = [k \in Rows |-> NoWrite]

Next == \E tx \in TxIds : Act(tx)

Spec == Init /\ [][Next]_<<log, rows>>

=============================================================================
