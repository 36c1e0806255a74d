----------------------------- MODULE Governance -----------------------------
(***************************************************************************)
(* What the register promises about change: a record gains a version only  *)
(* in the step that approves a proposal, one version at most; a proposal    *)
(* that ended is never taken up again; and retention empties versions but  *)
(* removes none.                                                           *)
(***************************************************************************)
EXTENDS Naturals, Sequences

CONSTANTS
    Proposals,  \* identifiers of proposals
    Records,    \* identifiers of records
    Start       \* the history of every record before the first proposal

VARIABLES
    phase,      \* where each proposal stands
    history     \* the versions of each record

Undecided == {"none", "open"}

\* One version more, with its content, behind the ones that were there.
Extended(old, new) ==
    /\ Len(new) = Len(old) + 1
    /\ \A v \in DOMAIN old : new[v] = old[v]
    /\ ~new[Len(new)].pruned

\* The same versions, some of them without their content.
Emptied(old, new) ==
    /\ Len(new) = Len(old)
    /\ \A v \in DOMAIN old : new[v] = old[v] \/ new[v] = [old[v] EXCEPT !.pruned = TRUE]

Propose(p) ==
    /\ phase[p] = "none"
    /\ phase' = [phase EXCEPT ![p] = "open"]
    /\ UNCHANGED history

Refuse(p, how) ==
    /\ phase[p] = "open"
    /\ phase' = [phase EXCEPT ![p] = how]
    /\ UNCHANGED history

\* An automatic approval may follow its proposal at once.
Approve(p) ==
    /\ phase[p] \in Undecided
    /\ phase' = [phase EXCEPT ![p] = "approved"]
    /\ \A r \in Records : history'[r] = history[r] \/ Extended(history[r], history'[r])

Retain ==
    /\ UNCHANGED phase
    /\ \A r \in Records : Emptied(history[r], history'[r])

Init ==
    /\ phase = [p \in Proposals |-> "none"]
    /\ history = Start

Next ==
    \/ \E p \in Proposals :
        \/ Propose(p)
        \/ \E how \in {"rejected", "withdrawn"} : Refuse(p, how)
        \/ Approve(p)
    \/ Retain

Spec == Init /\ [][Next]_<<phase, history>>

=============================================================================
