------------------------------ MODULE LogCheck ------------------------------
(***************************************************************************)
(* What an auditor can tell about the transaction log from signed          *)
(* checkpoints: `register-verify chain --log` (cmd/register-verify/        *)
(* main.go: verifyLogCompleteness) over the log commit writes and the      *)
(* checkpoints issueCheckpoint signs (internal/register/checkpoints.go).   *)
(*                                                                         *)
(* The log is only ever appended to, so a copy fetched earlier is a prefix *)
(* of the log, and a copy from which entries were left out is a set of     *)
(* sequence numbers.  Checkpoints and log are fetched by different calls,  *)
(* in any order.                                                           *)
(***************************************************************************)
EXTENDS TxLog

CONSTANT MaxAnchors     \* bound: checkpoints

VARIABLE anchors        \* the checkpoints signed so far: [version, txSeq]

auditVars == <<vars, anchors>>

\* issueCheckpoint, with checkpointSummary's highest sequence number: under the
\* lock, and none when the version has not moved.
IssueCheckpoint ==
    /\ lock = None
    /\ Cardinality(anchors) < MaxAnchors
    /\ \A a \in anchors : a.version # version
    /\ anchors' = anchors \cup {[version |-> version, txSeq |-> Len(log)]}
    /\ UNCHANGED vars

AuditInit == Init /\ anchors = {}
AuditNext == (Next /\ UNCHANGED anchors) \/ IssueCheckpoint
AuditSpec == AuditInit /\ [][AuditNext]_auditVars

----------------------------------------------------------------------------
(* verifyLogCompleteness, of the rows with these sequence numbers.         *)

Highest(seqs) == CHOOSE i \in seqs : \A j \in seqs : j <= i
Lowest(seqs)  == CHOOSE i \in seqs : \A j \in seqs : i <= j

\* No number is missing between two others, and every row is one commit.
Continuous(seqs) ==
    /\ \A i \in seqs : i = Lowest(seqs) \/ i - 1 \in seqs
    /\ \A i \in seqs : log[i].after = log[i].before + 1

HighestVersion(seqs) ==
    LET vs == {log[i].after : i \in seqs} IN CHOOSE v \in vs : \A w \in vs : w <= v

\* The checkpoints the log is found too short for.
ShortForAny(seqs) == {a \in anchors : a.txSeq > Highest(seqs)}
ShortFor(seqs) ==
    {a \in anchors : a.txSeq > Highest(seqs) /\ a.version <= HighestVersion(seqs)}

\* The verdict "the log is as long as every signed checkpoint says it was".
Complete(seqs) == Continuous(seqs) /\ ShortFor(seqs) = {} /\ Lowest(seqs) = 1

----------------------------------------------------------------------------
(* Properties.                                                             *)

Copies == (SUBSET DOMAIN log) \ {{}}

\* The log of an honest register is found complete, whether it was fetched
\* before or after the checkpoints it is held against, whatever crashed, was
\* rolled back or retried; and a copy that is found complete leaves out nothing
\* before its own last entry (verifyLogCompleteness).
AcceptedLog ==
    /\ \A n \in DOMAIN log : Complete(1..n)
    /\ \A seqs \in Copies : Complete(seqs) => seqs = 1..Highest(seqs)

\* What the comment on verifyLogCompleteness says: "the log cannot be shorter
\* than the signatures say it was".
NotShorterThanSigned ==
    \A seqs \in Copies : Complete(seqs) => \A a \in anchors : a.txSeq <= Highest(seqs)

=============================================================================
