------------------------------ MODULE Webhook -------------------------------
(***************************************************************************)
(* Notifying subscribers (internal/webhook/webhook.go, and the places in   *)
(* internal/register that call the notifier).                              *)
(*                                                                         *)
(* A commit notifies while it still holds the store; a scheduled or audit  *)
(* checkpoint notifies after it has let go.  The queue is bounded and      *)
(* lossy.  One worker takes jobs off it, reads the subscribers from the    *)
(* store (so it needs the lock the committers hold), and posts to each of  *)
(* them with a bounded number of attempts.  Queue and outcomes live in     *)
(* memory only.  A job is its event and the ledger version it is about.    *)
(***************************************************************************)
EXTENDS Naturals, Sequences, FiniteSets

CONSTANTS
    Callers,        \* concurrent calls into the register
    Subscribers,
    Wants,          \* subscriber -> events it filters on
    QueueCap,       \* capacity of the queue (256)
    Attempts,       \* attempts per subscriber (3)
    MaxDeliveries,  \* outcomes kept (200)
    MaxVersion,     \* bound: commits
    MaxReadErrors,  \* bound: failed reads of the subscriber table
    MaxRestarts,    \* bound: restarts of the process
    None

ASSUME QueueHolds == QueueCap \in Nat \ {0} /\ Attempts \in Nat \ {0} /\ MaxDeliveries \in Nat \ {0}

VARIABLES
    version,    \* ledger version
    ckpt,       \* version of the latest checkpoint
    active,     \* active rows of the webhooks table
    lock,       \* holder of the store, or None
    calls,      \* caller -> the job it is about to announce, or None
    queue,
    worker,     \* [at, job, todo, sub, tried]
    stop,       \* the stop channel is closed
    outcomes,   \* deliveries: the recent outcomes
    latest,     \* subscriber -> version of the last transaction it took in
    errors, restarts

vars == <<version, ckpt, active, lock, calls, queue, worker, stop, outcomes,
          latest, errors, restarts>>
store    == <<version, ckpt, active>>
bounds   == <<errors, restarts>>

Jobs == [event : {"transaction", "checkpoint"}, n : 0..MaxVersion]
ASSUME BoundsAreNat == MaxVersion \in Nat /\ MaxReadErrors \in Nat /\ MaxRestarts \in Nat
ASSUME NoneIsNothing == None \notin Callers /\ None \notin Jobs /\ None \notin Subscribers
Idle == [at |-> "idle", job |-> None, todo |-> {}, sub |-> None, tried |-> 0]

TypeOK ==
    /\ version \in 0..MaxVersion /\ ckpt \in 0..MaxVersion
    /\ active \subseteq Subscribers
    /\ lock \in Callers \cup {None}
    /\ calls \in [Callers -> Jobs \cup {None}]
    /\ queue \in Seq(Jobs) /\ Len(queue) <= QueueCap
    /\ worker \in [at : {"idle", "read", "post", "wait", "stopped"}, job : Jobs \cup {None},
                   todo : SUBSET Subscribers, sub : Subscribers \cup {None}, tried : 0..Attempts]
    /\ stop \in BOOLEAN
    /\ outcomes \in Seq([sub : Subscribers, job : Jobs, status : {"delivered", "failed"}])
    /\ Len(outcomes) <= MaxDeliveries
    /\ latest \in [Subscribers -> 0..MaxVersion]
    /\ errors \in 0..MaxReadErrors /\ restarts \in 0..MaxRestarts

----------------------------------------------------------------------------
(* The callers.                                                            *)

Transaction(n) == [event |-> "transaction", n |-> n]
CheckpointAt(n) == [event |-> "checkpoint", n |-> n]

CommitUnlocked(c) ==
    /\ calls[c] = None /\ lock = None /\ version < MaxVersion
    /\ version' = version + 1
    /\ calls' = [calls EXCEPT ![c] = Transaction(version + 1)]
    /\ UNCHANGED <<ckpt, lock, queue, worker, stop, outcomes, latest, bounds>>
\* commit: the new version is there, the caller still holds the store, and
\* TransactionCommitted comes next.
Commit(c) ==
    /\ calls[c] = None /\ lock = None /\ version < MaxVersion
    /\ version' = version + 1
    /\ lock' = c
    /\ calls' = [calls EXCEPT ![c] = Transaction(version + 1)]
    /\ UNCHANGED <<ckpt, queue, worker, stop, outcomes, latest, bounds>>
CommitRecord(c) == Commit(c) /\ UNCHANGED active

\* SetWebhook: the registration is a commit like any other.
SetWebhook(c, s, on) ==
    /\ Commit(c)
    /\ active' = IF on THEN active \cup {s} ELSE active \ {s}

\* anchorCurrentState: a checkpoint for a state that moved, announced under
\* the lock.
Anchor(c) ==
    /\ calls[c] = None /\ lock = None /\ ckpt # version
    /\ ckpt' = version
    /\ lock' = c
    /\ calls' = [calls EXCEPT ![c] = CheckpointAt(version)]
    /\ UNCHANGED <<version, active, queue, worker, stop, outcomes, latest, bounds>>

\* IssueCheckpoint and Audit: the same, announced after the lock.
IssueCheckpoint(c) ==
    /\ calls[c] = None /\ lock = None /\ ckpt # version
    /\ ckpt' = version
    /\ calls' = [calls EXCEPT ![c] = CheckpointAt(version)]
    /\ UNCHANGED <<version, active, lock, queue, worker, stop, outcomes, latest, bounds>>

\* enqueue: a full queue drops the notification and blocks nobody.
EnqueueBlocking(j) == Len(queue) < QueueCap /\ queue' = Append(queue, j)
Enqueue(j) == queue' = IF Len(queue) < QueueCap THEN Append(queue, j) ELSE queue

\* TransactionCommitted, CheckpointIssued, and the caller's return.
Notify(c) ==
    /\ calls[c] # None
    /\ Enqueue(calls[c])
    /\ calls' = [calls EXCEPT ![c] = None]
    /\ lock' = IF lock = c THEN None ELSE lock
    /\ UNCHANGED <<store, worker, stop, outcomes, latest, bounds>>

----------------------------------------------------------------------------
(* The worker.                                                             *)

Take ==
    /\ worker.at = "idle" /\ queue # <<>>
    /\ worker' = [Idle EXCEPT !.at = "read", !.job = Head(queue)]
    /\ queue' = Tail(queue)
    /\ UNCHANGED <<store, lock, calls, stop, outcomes, latest, bounds>>

StopOnJob ==
    /\ worker.at = "idle" /\ stop /\ queue # <<>>
    /\ worker' = [Idle EXCEPT !.at = "stopped"]
    /\ UNCHANGED <<store, lock, calls, queue, stop, outcomes, latest, bounds>>
Stop ==
    /\ worker.at = "idle" /\ stop
    /\ worker' = [Idle EXCEPT !.at = "stopped"]
    /\ UNCHANGED <<store, lock, calls, queue, stop, outcomes, latest, bounds>>

\* The worker with these subscribers still to tell.
With(todo) ==
    IF todo = {} THEN Idle
    ELSE [worker EXCEPT !.at = "post", !.todo = todo, !.sub = None, !.tried = 0]

\* deliver: the subscribers, read under the lock; an error loses the job.
Read ==
    /\ worker.at = "read" /\ lock = None
    /\ worker' = With({s \in active : worker.job.event \in Wants[s]})
    /\ UNCHANGED <<store, lock, calls, queue, stop, outcomes, latest, bounds>>
ReadFails ==
    /\ worker.at = "read" /\ lock = None /\ errors < MaxReadErrors
    /\ errors' = errors + 1
    /\ worker' = Idle
    /\ UNCHANGED <<store, lock, calls, queue, stop, outcomes, latest, restarts>>

\* record: the outcome, the oldest one falling off, and on to the next
\* subscriber.
Outcome(s, status) == [sub |-> s, job |-> worker.job, status |-> status]
Kept(os) == IF Len(os) > MaxDeliveries THEN Tail(os) ELSE os
RecordThenGiveUp(s, status) ==
    /\ outcomes' = Kept(Append(outcomes, Outcome(s, status)))
    /\ worker' = With(IF status = "failed" THEN {} ELSE worker.todo \ {s})
    /\ UNCHANGED queue
Record(s, status) ==
    /\ outcomes' = Kept(Append(outcomes, Outcome(s, status)))
    /\ worker' = With(worker.todo \ {s})
    /\ UNCHANGED queue

\* post, one attempt.  The endpoint takes it in and says so, takes it in and
\* the answer is lost, answers with an error, or is not reached.
Answers == {"taken", "lost", "refused", "unreached"}
TakenIn(s, answer) ==
    latest' = IF answer \in {"taken", "lost"} /\ worker.job.event = "transaction"
              THEN [latest EXCEPT ![s] = worker.job.n] ELSE latest
Delivered(answer) == answer = "taken"
Post(s, answer) ==
    /\ worker.at = "post" /\ s \in worker.todo
    /\ worker.sub \in {s, None}
    /\ TakenIn(s, answer)
    /\ IF Delivered(answer) THEN Record(s, "delivered")
       ELSE /\ worker' = [worker EXCEPT !.at = "wait", !.sub = s, !.tried = @ + 1]
            /\ UNCHANGED <<queue, outcomes>>
    /\ UNCHANGED <<store, lock, calls, stop, bounds>>

\* The pause after a failed attempt: it ends in another, or after the last one
\* in a failure; a closed stop channel ends it in a failure at once.
PauseEnds ==
    /\ worker.at = "wait"
    /\ IF worker.tried < Attempts
       THEN worker' = [worker EXCEPT !.at = "post"] /\ UNCHANGED <<queue, outcomes>>
       ELSE Record(worker.sub, "failed")
    /\ UNCHANGED <<store, lock, calls, stop, latest, bounds>>
PauseStopped ==
    /\ worker.at = "wait" /\ stop
    /\ Record(worker.sub, "failed")
    /\ UNCHANGED <<store, lock, calls, stop, latest, bounds>>

\* Close
Close ==
    /\ ~stop
    /\ stop' = TRUE
    /\ UNCHANGED <<store, lock, calls, queue, worker, outcomes, latest, bounds>>

\* A restart finds the store as it was and nothing of the dispatcher.
Restart ==
    /\ restarts < MaxRestarts
    /\ restarts' = restarts + 1
    /\ queue' = <<>> /\ worker' = Idle /\ stop' = FALSE /\ outcomes' = <<>>
    /\ lock' = None /\ calls' = [c \in Callers |-> None]
    /\ UNCHANGED <<store, latest, errors>>

Init ==
    /\ version = 0 /\ ckpt = 0 /\ active \in SUBSET Subscribers
    /\ lock = None /\ calls = [c \in Callers |-> None]
    /\ queue = <<>> /\ worker = Idle /\ stop = FALSE /\ outcomes = <<>>
    /\ latest = [s \in Subscribers |-> 0]
    /\ errors = 0 /\ restarts = 0

Deliver ==
    \/ Take \/ Read \/ ReadFails \/ PauseEnds \/ PauseStopped
    \/ \E s \in Subscribers, answer \in Answers : Post(s, answer)

Next ==
    \/ \E c \in Callers :
        \/ CommitRecord(c) \/ Anchor(c) \/ IssueCheckpoint(c) \/ Notify(c)
        \/ \E s \in Subscribers, on \in BOOLEAN : SetWebhook(c, s, on)
    \/ Deliver \/ Stop
    \/ Close \/ Restart

Spec == Init /\ [][Next]_vars

\* A call that is under way goes on; every wait of the worker has a timeout;
\* a select with two ready cases picks either.
FairSpec ==
    /\ Spec
    /\ \A c \in Callers : WF_vars(Notify(c))
    /\ WF_vars(Deliver) /\ SF_vars(Stop)

----------------------------------------------------------------------------
(* Properties.                                                             *)

\* A subscriber takes transactions in in the order of the log, however many
\* attempts each of them needs (deliver, post): it may miss one or see one
\* again, never an older one after a newer one.
InOrder == [][\A s \in Subscribers : latest'[s] >= latest[s]]_vars

\* A commit never waits for a subscriber (enqueue): a call that is about to
\* notify returns, even with the queue full and the worker waiting for the
\* store that call holds.
CallsReturn == \A c \in Callers : (calls[c] # None) ~> (calls[c] = None)

\* Closing the dispatcher ends (Close, Start): the worker leaves whatever it is
\* in the middle of, so a shutdown does not hang (a new process is not closed).
CloseReturns == stop ~> (worker.at = "stopped" \/ ~stop)

\* A transaction the worker has started on reaches an outcome for every
\* subscriber it was to be sent to, whatever the other subscribers' endpoints do
\* (deliver, record), unless the dispatcher is closed or the process restarts.
Told ==
    \A s \in Subscribers : \A n \in 1..MaxVersion :
        (/\ restarts = MaxRestarts
         /\ worker.job = Transaction(n) /\ worker.at = "post" /\ s \in worker.todo)
            ~> (stop \/ \E i \in DOMAIN outcomes :
                           outcomes[i].sub = s /\ outcomes[i].job = Transaction(n))

=============================================================================
