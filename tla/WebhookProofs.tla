---------------------------- MODULE WebhookProofs ---------------------------
(***************************************************************************)
(* For any callers, subscribers, filters, queue and number of attempts: a  *)
(* subscriber takes transactions in in the order of the log.               *)
(***************************************************************************)
EXTENDS Webhook, TLAPS

IsTx(j) == j # None /\ j.event = "transaction"

\* What is on its way, from the latest taken in to the newest version.  The
\* worker's job is not older than what any subscriber has, what is queued not
\* older than that job nor than what was queued before it, and only the caller
\* that holds the store is about to announce a transaction: the newest one.
Ordered ==
    /\ \A s \in Subscribers : latest[s] <= version
    /\ \A c \in Callers : IsTx(calls[c]) => lock = c /\ calls[c].n = version
    /\ IsTx(worker.job) =>
        /\ worker.job.n <= version
        /\ \A s \in Subscribers : latest[s] <= worker.job.n
    /\ \A i \in DOMAIN queue : IsTx(queue[i]) =>
        /\ queue[i].n <= version
        /\ \A s \in Subscribers : latest[s] <= queue[i].n
        /\ IsTx(worker.job) => worker.job.n <= queue[i].n
        /\ \A j \in DOMAIN queue : i < j /\ IsTx(queue[j]) => queue[i].n <= queue[j].n

\* A worker with something to tell has a job, and one that is about to post an
\* attempt left.
WorkerBusy ==
    /\ worker.at \in {"read", "post", "wait"} => worker.job \in Jobs
    /\ worker.at = "post" => worker.tried < Attempts
    /\ worker.at = "wait" => worker.sub \in Subscribers

\* The inductive invariant.
Inv == TypeOK /\ WorkerBusy /\ Ordered

Workers == [at : {"idle", "read", "post", "wait", "stopped"}, job : Jobs \cup {None},
            todo : SUBSET Subscribers, sub : Subscribers \cup {None}, tried : 0..Attempts]

LEMMA IdleIsWorker == Idle \in Workers /\ Idle.at = "idle" /\ Idle.job = None
  BY QueueHolds DEF Idle, Workers

\* An empty queue, and no outcomes.
LEMMA NothingKept ==
    /\ <<>> \in Seq(Jobs) /\ Len(<<>>) <= QueueCap
    /\ <<>> \in Seq([sub : Subscribers, job : Jobs, status : {"delivered", "failed"}])
    /\ Len(<<>>) <= MaxDeliveries
  BY QueueHolds

\* The outcomes kept stay within their limit.
LEMMA KeptIsBounded ==
    ASSUME TypeOK, worker.job \in Jobs, NEW s \in Subscribers,
           NEW status \in {"delivered", "failed"}
    PROVE  LET os == Kept(Append(outcomes, Outcome(s, status)))
           IN  /\ os \in Seq([sub : Subscribers, job : Jobs, status : {"delivered", "failed"}])
               /\ Len(os) <= MaxDeliveries
  <1> DEFINE T  == [sub : Subscribers, job : Jobs, status : {"delivered", "failed"}]
             os == Append(outcomes, Outcome(s, status))
  <1>1. Outcome(s, status) \in T
    BY DEF Outcome
  <1>2. outcomes \in Seq(T) /\ Len(outcomes) <= MaxDeliveries /\ MaxDeliveries \in Nat
    BY QueueHolds DEF TypeOK
  <1>3. os \in Seq(T) /\ Len(os) = Len(outcomes) + 1
    BY <1>1, <1>2
  <1> HIDE DEF os, T
  <1>4. os # <<>> /\ Tail(os) \in Seq(T) /\ Len(Tail(os)) = Len(os) - 1
    BY <1>2, <1>3
  <1>5. Kept(os) \in Seq(T) /\ Len(Kept(os)) <= MaxDeliveries
    BY <1>2, <1>3, <1>4 DEF Kept
  <1> QED
    BY <1>5 DEF os, T

\* Where the worker goes once these subscribers are left.
LEMMA WithIsWorker ==
    ASSUME TypeOK, worker.job \in Jobs, NEW todo \in SUBSET Subscribers
    PROVE  /\ With(todo) \in Workers
           /\ With(todo).at \in {"idle", "post"}
           /\ With(todo).job \in {None, worker.job}
           /\ With(todo).at = "post" => With(todo).job \in Jobs /\ With(todo).tried < Attempts
  <1>1. CASE todo = {}
    BY <1>1, IdleIsWorker DEF With
  <1>2. CASE todo # {}
    <2>1. worker \in Workers
      BY DEF TypeOK, Workers
    <2>2. With(todo) = [worker EXCEPT !.at = "post", !.todo = todo, !.sub = None, !.tried = 0]
      BY <1>2 DEF With
    <2>3. 0 \in 0..Attempts /\ 0 < Attempts
      BY QueueHolds
    <2>4. /\ With(todo) = [at |-> "post", job |-> worker.job, todo |-> todo, sub |-> None, tried |-> 0]
      BY <2>1, <2>2 DEF Workers
    <2> QED
      BY <2>3, <2>4 DEF Workers
  <1> QED
    BY <1>1, <1>2

\* A step of the worker that leaves callers, queue and subscribers' state alone
\* and keeps or drops its job.
LEMMA WorkerStep ==
    ASSUME Inv, UNCHANGED <<version, ckpt, active, lock, calls, queue, stop, latest>>,
           worker' \in Workers, worker'.job \in {None, worker.job}, WorkerBusy',
           outcomes' \in Seq([sub : Subscribers, job : Jobs, status : {"delivered", "failed"}]),
           Len(outcomes') <= MaxDeliveries,
           errors' \in 0..MaxReadErrors, restarts' \in 0..MaxRestarts
    PROVE  Inv'
  <1>1. TypeOK'
    BY DEF Inv, TypeOK, Workers
  <1>2. Ordered'
    BY DEF Inv, Ordered, IsTx
  <1> QED
    BY <1>1, <1>2 DEF Inv

\* A call that commits: the newest version, announced by whoever has the store.
LEMMA CommitStep ==
    ASSUME Inv, NEW c \in Callers, Commit(c), active' \subseteq Subscribers
    PROVE  Inv' /\ UNCHANGED latest
  <1>1. /\ calls[c] = None /\ lock = None /\ version < MaxVersion /\ version' = version + 1
        /\ lock' = c /\ calls' = [calls EXCEPT ![c] = Transaction(version + 1)]
        /\ UNCHANGED <<ckpt, queue, worker, stop, outcomes, latest, errors, restarts>>
    BY DEF Commit, bounds
  <1>2. version \in 0..MaxVersion /\ MaxVersion \in Nat
    BY BoundsAreNat DEF Inv, TypeOK
  <1>3. version' \in 0..MaxVersion /\ Transaction(version + 1) \in Jobs
    BY <1>1, <1>2 DEF Transaction, Jobs
  <1>4. TypeOK'
    BY <1>1, <1>3 DEF Inv, TypeOK
  <1>5. \A d \in Callers : ~IsTx(calls[d])
    BY <1>1, NoneIsNothing DEF Inv, Ordered
  <1>6. \A d \in Callers : IsTx(calls'[d]) => lock' = d /\ calls'[d].n = version'
    BY <1>1, <1>5 DEF Inv, TypeOK, IsTx, Transaction
  <1>7. \A j : (j \in Jobs \/ j = None) /\ IsTx(j) /\ j.n <= version => j.n <= version'
    BY <1>1, <1>2 DEF IsTx, Jobs
  <1>8. \A s \in Subscribers : latest[s] <= version'
    BY <1>1, <1>2 DEF Inv, TypeOK, Ordered
  <1>9. worker.job \in Jobs \cup {None} /\ \A i \in DOMAIN queue : queue[i] \in Jobs
    BY DEF Inv, TypeOK
  <1>10. Ordered'
    BY <1>1, <1>6, <1>7, <1>8, <1>9 DEF Inv, Ordered
  <1> QED
    BY <1>1, <1>4, <1>10 DEF Inv, WorkerBusy

\* A caller that signed a checkpoint announces that.
LEMMA CheckpointStep ==
    ASSUME Inv, NEW c \in Callers, calls[c] = None, lock = None, lock' \in {c, None},
           ckpt' = version, calls' = [calls EXCEPT ![c] = CheckpointAt(version)],
           UNCHANGED <<version, active, queue, worker, stop, outcomes, latest, errors, restarts>>
    PROVE  Inv'
  <1>1. CheckpointAt(version) \in Jobs
    BY DEF CheckpointAt, Jobs, Inv, TypeOK
  <1>2. TypeOK'
    BY <1>1 DEF Inv, TypeOK
  <1>3. \A d \in Callers : ~IsTx(calls'[d])
    BY NoneIsNothing DEF Inv, TypeOK, Ordered, IsTx, CheckpointAt
  <1>4. Ordered'
    BY <1>3 DEF Inv, Ordered
  <1> QED
    BY <1>2, <1>4 DEF Inv, WorkerBusy

\* enqueue: what is announced is the newest, and goes behind the rest.
LEMMA NotifyStep ==
    ASSUME Inv, NEW c \in Callers, Notify(c)
    PROVE  Inv' /\ UNCHANGED latest
  <1> DEFINE j == calls[c]
  <1>1. /\ j # None /\ queue' = IF Len(queue) < QueueCap THEN Append(queue, j) ELSE queue
        /\ calls' = [calls EXCEPT ![c] = None]
        /\ lock' = IF lock = c THEN None ELSE lock
        /\ UNCHANGED <<version, ckpt, active, worker, stop, outcomes, latest, errors, restarts>>
    BY DEF Notify, Enqueue, store, bounds
  <1>2. j \in Jobs
    BY <1>1 DEF Inv, TypeOK
  <1>3. IsTx(j) => j.n = version
    BY DEF Inv, Ordered
  <1>4. \A d \in Callers : IsTx(calls'[d]) => d # c /\ IsTx(calls[d]) /\ calls'[d] = calls[d]
    BY <1>1 DEF Inv, TypeOK, IsTx
  <1>5. \A d \in Callers : IsTx(calls'[d]) => lock' = d /\ calls'[d].n = version'
    BY <1>1, <1>4 DEF Inv, Ordered
  <1> HIDE DEF j
  <1>6. CASE Len(queue) < QueueCap
    <2>1. /\ queue' = Append(queue, j) /\ queue \in Seq(Jobs) /\ Len(queue) \in Nat
          /\ DOMAIN queue = 1..Len(queue) /\ DOMAIN queue' = 1..(Len(queue) + 1)
          /\ queue' \in Seq(Jobs) /\ Len(queue') = Len(queue) + 1
      BY <1>1, <1>2, <1>6 DEF Inv, TypeOK
    <2>2. /\ \A i \in DOMAIN queue : i \in DOMAIN queue' /\ queue'[i] = queue[i]
          /\ queue'[Len(queue) + 1] = j
      BY <2>1
    <2>3. TypeOK'
      <3>1. Len(queue') <= QueueCap
        BY <1>6, <2>1, QueueHolds
      <3> QED
        BY <1>1, <2>1, <3>1 DEF Inv, TypeOK
    <2>4. version \in Nat /\ (\A s \in Subscribers : latest[s] <= version)
          /\ (IsTx(worker.job) => worker.job.n <= version)
          /\ \A i \in DOMAIN queue : IsTx(queue[i]) => queue[i].n <= version
      BY BoundsAreNat DEF Inv, TypeOK, Ordered
    <2>5. ASSUME NEW i \in DOMAIN queue', IsTx(queue'[i])
          PROVE  /\ queue'[i].n <= version
                 /\ \A s \in Subscribers : latest[s] <= queue'[i].n
                 /\ IsTx(worker.job) => worker.job.n <= queue'[i].n
                 /\ \A k \in DOMAIN queue' : i < k /\ IsTx(queue'[k]) => queue'[i].n <= queue'[k].n
      <3>1. CASE i = Len(queue) + 1
        BY <1>3, <2>1, <2>2, <2>4, <2>5, <3>1
      <3>2. CASE i \in DOMAIN queue
        <4>1. ASSUME NEW k \in DOMAIN queue', i < k, IsTx(queue'[k])
              PROVE  queue'[i].n <= queue'[k].n
          <5>1. CASE k \in DOMAIN queue
            BY <2>2, <2>5, <3>2, <4>1, <5>1 DEF Inv, Ordered
          <5>2. CASE k = Len(queue) + 1
            BY <1>3, <2>2, <2>4, <2>5, <3>2, <4>1, <5>2
          <5> QED
            BY <2>1, <5>1, <5>2
        <4> QED
          BY <2>2, <2>5, <3>2, <4>1 DEF Inv, Ordered
      <3> QED
        BY <2>1, <3>1, <3>2
    <2>6. Ordered'
      BY <1>1, <1>5, <2>5 DEF Inv, Ordered
    <2> QED
      BY <1>1, <2>3, <2>6 DEF Inv, WorkerBusy
  <1>7. CASE ~(Len(queue) < QueueCap)
    <2>1. UNCHANGED queue
      BY <1>1, <1>7
    <2>2. TypeOK'
      BY <1>1, <2>1 DEF Inv, TypeOK
    <2>3. Ordered'
      BY <1>1, <1>5, <2>1 DEF Inv, Ordered
    <2> QED
      BY <1>1, <2>2, <2>3 DEF Inv, WorkerBusy
  <1> QED
    BY <1>6, <1>7

\* The worker takes the oldest: nothing behind it is older.
LEMMA TakeStep ==
    ASSUME Inv, Take
    PROVE  Inv' /\ UNCHANGED latest
  <1>1. /\ queue # <<>> /\ queue' = Tail(queue)
        /\ worker' = [Idle EXCEPT !.at = "read", !.job = Head(queue)]
        /\ UNCHANGED <<version, ckpt, active, lock, calls, stop, outcomes, latest, errors, restarts>>
    BY DEF Take, store, bounds
  <1>2. /\ queue \in Seq(Jobs) /\ Len(queue) \in Nat /\ Len(queue) > 0
        /\ DOMAIN queue = 1..Len(queue)
        /\ Head(queue) = queue[1] /\ queue[1] \in Jobs /\ queue' \in Seq(Jobs)
        /\ Len(queue') = Len(queue) - 1 /\ DOMAIN queue' = 1..(Len(queue) - 1)
        /\ \A i \in DOMAIN queue' : queue'[i] = queue[i + 1] /\ i + 1 \in DOMAIN queue
    BY <1>1 DEF Inv, TypeOK
  <1>3. worker' = [at |-> "read", job |-> queue[1], todo |-> {}, sub |-> None, tried |-> 0]
    BY <1>1, <1>2 DEF Idle
  <1>4. worker' \in Workers /\ worker'.job = queue[1] /\ WorkerBusy'
    BY <1>2, <1>3, QueueHolds DEF Workers, WorkerBusy
  <1>5. TypeOK'
    BY <1>1, <1>2, <1>4, QueueHolds DEF Inv, TypeOK, Workers
  <1>6. 1 \in DOMAIN queue
    BY <1>2
  <1>7. IsTx(worker'.job) =>
            /\ worker'.job.n <= version'
            /\ \A s \in Subscribers : latest'[s] <= worker'.job.n
    BY <1>1, <1>4, <1>6 DEF Inv, Ordered
  <1>8. ASSUME NEW i \in DOMAIN queue', IsTx(queue'[i])
        PROVE  /\ queue'[i].n <= version
               /\ \A s \in Subscribers : latest[s] <= queue'[i].n
               /\ IsTx(worker'.job) => worker'.job.n <= queue'[i].n
               /\ \A k \in DOMAIN queue' : i < k /\ IsTx(queue'[k]) => queue'[i].n <= queue'[k].n
    <2>1. i + 1 \in DOMAIN queue /\ queue'[i] = queue[i + 1] /\ 1 < i + 1
      BY <1>2, <1>8
    <2>2. \A k \in DOMAIN queue' : i < k => i + 1 < k + 1 /\ queue'[k] = queue[k + 1] /\ k + 1 \in DOMAIN queue
      BY <1>2
    <2> QED
      BY <1>4, <1>6, <1>8, <2>1, <2>2 DEF Inv, Ordered
  <1>9. Ordered'
    BY <1>1, <1>7, <1>8 DEF Inv, Ordered
  <1> QED
    BY <1>1, <1>4, <1>5, <1>9 DEF Inv

\* The outcome of a subscriber is recorded.
LEMMA RecordStep ==
    ASSUME TypeOK, worker.job \in Jobs, NEW s \in Subscribers,
           NEW status \in {"delivered", "failed"}, Record(s, status)
    PROVE  /\ worker' \in Workers /\ worker'.job \in {None, worker.job} /\ WorkerBusy'
           /\ outcomes' \in Seq([sub : Subscribers, job : Jobs, status : {"delivered", "failed"}])
           /\ Len(outcomes') <= MaxDeliveries
           /\ UNCHANGED queue
  <1>1. worker' = With(worker.todo \ {s}) /\ worker.todo \ {s} \in SUBSET Subscribers
    BY DEF Record, TypeOK
  <1>2. /\ worker' \in Workers /\ worker'.at \in {"idle", "post"} /\ worker'.job \in {None, worker.job}
        /\ worker'.at = "post" => worker'.job \in Jobs /\ worker'.tried < Attempts
    BY <1>1, WithIsWorker
  <1>3. WorkerBusy'
    BY <1>2 DEF WorkerBusy
  <1>4. UNCHANGED queue /\ outcomes' = Kept(Append(outcomes, Outcome(s, status)))
    BY DEF Record
  <1> QED
    BY <1>2, <1>3, <1>4, KeptIsBounded

\* An attempt: the subscriber may take the worker's job in, which is not older
\* than what it has.
LEMMA PostStep ==
    ASSUME Inv, NEW s \in Subscribers, NEW answer \in Answers, Post(s, answer)
    PROVE  Inv' /\ \A x \in Subscribers : latest'[x] >= latest[x]
  <1>1. /\ worker.at = "post" /\ s \in worker.todo /\ TakenIn(s, answer)
        /\ UNCHANGED <<version, ckpt, active, lock, calls, stop, errors, restarts>>
    BY DEF Post, store, bounds
  <1>2. worker \in Workers /\ worker.job \in Jobs /\ worker.tried < Attempts
    BY <1>1 DEF Inv, TypeOK, Workers, WorkerBusy
  <1>3. /\ worker' \in Workers /\ worker'.job \in {None, worker.job} /\ WorkerBusy'
        /\ outcomes' \in Seq([sub : Subscribers, job : Jobs, status : {"delivered", "failed"}])
        /\ Len(outcomes') <= MaxDeliveries
        /\ UNCHANGED queue
    <2>1. CASE Delivered(answer)
      BY <1>2, <2>1, RecordStep DEF Post, Inv
    <2>2. CASE ~Delivered(answer)
      <3>1. worker' = [worker EXCEPT !.at = "wait", !.sub = s, !.tried = @ + 1]
            /\ UNCHANGED <<queue, outcomes>>
        BY <2>2 DEF Post
      <3>2. worker' = [at |-> "wait", job |-> worker.job, todo |-> worker.todo, sub |-> s,
                       tried |-> worker.tried + 1]
        BY <1>2, <3>1 DEF Workers
      <3>3. worker.tried + 1 \in 0..Attempts
        BY <1>2, QueueHolds DEF Workers
      <3>4. worker' \in Workers /\ worker'.job = worker.job /\ WorkerBusy'
        BY <1>2, <3>2, <3>3 DEF Workers, WorkerBusy
      <3> QED
        BY <3>1, <3>4 DEF Inv, TypeOK
    <2> QED
      BY <2>1, <2>2
  <1>4. \/ latest' = latest
        \/ IsTx(worker.job) /\ latest' = [latest EXCEPT ![s] = worker.job.n]
    BY <1>1, <1>2, NoneIsNothing DEF TakenIn, IsTx
  <1>5. worker.job.n \in 0..MaxVersion /\ latest \in [Subscribers -> 0..MaxVersion] /\ MaxVersion \in Nat
    BY <1>2, BoundsAreNat DEF Jobs, Inv, TypeOK
  <1>6. latest' \in [Subscribers -> 0..MaxVersion]
    BY <1>4, <1>5
  <1>7. \A x \in Subscribers : latest'[x] >= latest[x]
    BY <1>4, <1>5 DEF Inv, Ordered
  <1>8. TypeOK'
    BY <1>1, <1>3, <1>6 DEF Inv, TypeOK, Workers
  <1>9. Ordered'
    <2>1. CASE latest' = latest
      BY <1>1, <1>3, <2>1 DEF Inv, Ordered, IsTx
    <2>2. CASE IsTx(worker.job) /\ latest' = [latest EXCEPT ![s] = worker.job.n]
      <3>1. \A x \in Subscribers : latest'[x] = latest[x] \/ latest'[x] = worker.job.n
        BY <1>5, <2>2
      <3>2. worker.job.n <= worker.job.n
        BY <1>5
      <3> QED
        BY <1>1, <1>3, <2>2, <3>1, <3>2 DEF Inv, Ordered, IsTx
    <2> QED
      BY <1>4, <2>1, <2>2
  <1> QED
    BY <1>3, <1>7, <1>8, <1>9 DEF Inv

\* Every step keeps the invariant, and no subscriber goes back.
LEMMA StepKeeps ==
    ASSUME Inv, [Next]_vars
    PROVE  Inv' /\ \A s \in Subscribers : latest'[s] >= latest[s]
  <1>0. \A s \in Subscribers : latest[s] >= latest[s]
    BY BoundsAreNat DEF Inv, TypeOK
  <1>1. ASSUME NEW c \in Callers, CommitRecord(c) PROVE Inv' /\ UNCHANGED latest
    BY <1>1, CommitStep DEF CommitRecord, Inv, TypeOK
  <1>2. ASSUME NEW c \in Callers, NEW s \in Subscribers, NEW on \in BOOLEAN, SetWebhook(c, s, on)
        PROVE  Inv' /\ UNCHANGED latest
    <2>1. Commit(c) /\ active' \subseteq Subscribers
      BY <1>2 DEF SetWebhook, Inv, TypeOK
    <2> QED
      BY <2>1, CommitStep
  <1>3. ASSUME NEW c \in Callers, Anchor(c) PROVE Inv' /\ UNCHANGED latest
    BY <1>3, CheckpointStep DEF Anchor, bounds
  <1>4. ASSUME NEW c \in Callers, IssueCheckpoint(c) PROVE Inv' /\ UNCHANGED latest
    BY <1>4, CheckpointStep DEF IssueCheckpoint, bounds
  <1>5. ASSUME NEW c \in Callers, Notify(c) PROVE Inv' /\ UNCHANGED latest
    BY <1>5, NotifyStep
  <1>6. ASSUME Take PROVE Inv' /\ UNCHANGED latest
    BY <1>6, TakeStep
  <1>7. ASSUME Read PROVE Inv' /\ UNCHANGED latest
    <2>1. /\ worker.at = "read" /\ worker' = With({s \in active : worker.job.event \in Wants[s]})
          /\ UNCHANGED <<version, ckpt, active, lock, calls, queue, stop, outcomes, latest, errors, restarts>>
      BY <1>7 DEF Read, store, bounds
    <2>2. worker.job \in Jobs /\ {s \in active : worker.job.event \in Wants[s]} \in SUBSET Subscribers
      BY <2>1 DEF Inv, TypeOK, WorkerBusy
    <2>3. worker' \in Workers /\ worker'.job \in {None, worker.job} /\ WorkerBusy'
      BY <2>1, <2>2, WithIsWorker DEF Inv, WorkerBusy
    <2> QED
      BY <2>1, <2>3, WorkerStep DEF Inv, TypeOK
  <1>8. ASSUME ReadFails PROVE Inv' /\ UNCHANGED latest
    <2>1. /\ worker' = Idle /\ errors < MaxReadErrors /\ errors' = errors + 1
          /\ UNCHANGED <<version, ckpt, active, lock, calls, queue, stop, outcomes, latest, restarts>>
      BY <1>8 DEF ReadFails, store
    <2>2. errors' \in 0..MaxReadErrors
      BY <2>1, BoundsAreNat DEF Inv, TypeOK
    <2>3. worker' \in Workers /\ worker'.job = None /\ WorkerBusy'
      BY <2>1, IdleIsWorker DEF WorkerBusy
    <2> QED
      BY <2>1, <2>2, <2>3, WorkerStep DEF Inv, TypeOK
  <1>9. ASSUME PauseEnds PROVE Inv' /\ UNCHANGED latest
    <2>1. /\ worker.at = "wait"
          /\ UNCHANGED <<version, ckpt, active, lock, calls, stop, latest, errors, restarts>>
      BY <1>9 DEF PauseEnds, store, bounds
    <2>2. worker \in Workers /\ worker.job \in Jobs /\ worker.sub \in Subscribers
      BY <2>1 DEF Inv, TypeOK, Workers, WorkerBusy
    <2>3. CASE worker.tried < Attempts
      <3>1. worker' = [worker EXCEPT !.at = "post"] /\ UNCHANGED <<queue, outcomes>>
        BY <1>9, <2>3 DEF PauseEnds
      <3>2. worker' \in Workers /\ worker'.job = worker.job /\ WorkerBusy'
        BY <2>2, <2>3, <3>1 DEF Workers, WorkerBusy
      <3> QED
        BY <2>1, <3>1, <3>2, WorkerStep DEF Inv, TypeOK
    <2>4. CASE ~(worker.tried < Attempts)
      <3>1. Record(worker.sub, "failed")
        BY <1>9, <2>4 DEF PauseEnds
      <3> QED
        BY <2>1, <2>2, <3>1, RecordStep, WorkerStep DEF Inv, TypeOK
    <2> QED
      BY <2>3, <2>4
  <1>10. ASSUME PauseStopped PROVE Inv' /\ UNCHANGED latest
    <2>1. /\ worker.at = "wait" /\ Record(worker.sub, "failed")
          /\ UNCHANGED <<version, ckpt, active, lock, calls, stop, latest, errors, restarts>>
      BY <1>10 DEF PauseStopped, store, bounds
    <2>2. worker.job \in Jobs /\ worker.sub \in Subscribers
      BY <2>1 DEF Inv, WorkerBusy
    <2> QED
      BY <2>1, <2>2, RecordStep, WorkerStep DEF Inv, TypeOK
  <1>11. ASSUME NEW s \in Subscribers, NEW answer \in Answers, Post(s, answer)
         PROVE  Inv' /\ \A x \in Subscribers : latest'[x] >= latest[x]
    BY <1>11, PostStep
  <1>12. ASSUME Stop PROVE Inv' /\ UNCHANGED latest
    <2>1. /\ worker' = [Idle EXCEPT !.at = "stopped"]
          /\ UNCHANGED <<version, ckpt, active, lock, calls, queue, stop, outcomes, latest, errors, restarts>>
      BY <1>12 DEF Stop, store, bounds
    <2>2. worker' \in Workers /\ worker'.job = None /\ worker'.at = "stopped"
      BY <2>1, IdleIsWorker DEF Workers
    <2>3. WorkerBusy'
      BY <2>2 DEF WorkerBusy
    <2> QED
      BY <2>1, <2>2, <2>3, WorkerStep DEF Inv, TypeOK
  <1>13. ASSUME Close PROVE Inv' /\ UNCHANGED latest
    <2>1. /\ stop' = TRUE
          /\ UNCHANGED <<version, ckpt, active, lock, calls, queue, worker, outcomes, latest, errors, restarts>>
      BY <1>13 DEF Close, store, bounds
    <2> QED
      BY <2>1 DEF Inv, TypeOK, WorkerBusy, Ordered
  <1>14. ASSUME Restart PROVE Inv' /\ UNCHANGED latest
    <2>1. /\ queue' = <<>> /\ worker' = Idle /\ stop' = FALSE /\ outcomes' = <<>> /\ lock' = None
          /\ calls' = [c \in Callers |-> None] /\ restarts < MaxRestarts /\ restarts' = restarts + 1
          /\ UNCHANGED <<version, ckpt, active, latest, errors>>
      BY <1>14 DEF Restart, store
    <2>2. restarts' \in 0..MaxRestarts
      BY <2>1, BoundsAreNat DEF Inv, TypeOK
    <2>3. TypeOK'
      BY <2>1, <2>2, IdleIsWorker, NothingKept DEF Inv, TypeOK, Workers
    <2>4. Ordered' /\ WorkerBusy'
      BY <2>1, IdleIsWorker DEF Inv, Ordered, WorkerBusy, IsTx
    <2> QED
      BY <2>1, <2>3, <2>4 DEF Inv
  <1>15. ASSUME UNCHANGED vars PROVE Inv' /\ UNCHANGED latest
    BY <1>15 DEF vars, Inv, TypeOK, WorkerBusy, Ordered
  <1> QED
    BY <1>0, <1>1, <1>2, <1>3, <1>4, <1>5, <1>6, <1>7, <1>8, <1>9, <1>10, <1>11, <1>12, <1>13,
       <1>14, <1>15 DEF Next, Deliver

LEMMA InitInv == Init => Inv
  <1> SUFFICES ASSUME Init PROVE Inv
    OBVIOUS
  <1>1. TypeOK
    <2>1. 0 \in 0..MaxVersion /\ 0 \in 0..MaxReadErrors /\ 0 \in 0..MaxRestarts
      BY BoundsAreNat
    <2> QED
      BY <2>1, NothingKept, IdleIsWorker DEF Init, TypeOK, Workers
  <1>2. WorkerBusy /\ Ordered
    BY IdleIsWorker DEF Init, WorkerBusy, Ordered, IsTx
  <1> QED
    BY <1>1, <1>2 DEF Inv

LEMMA Invariance == Spec => []Inv
  <1>1. Inv /\ [Next]_vars => Inv'
    BY StepKeeps
  <1> QED
    BY InitInv, <1>1, PTL DEF Spec

\* The queue, the worker and the kept outcomes stay within their limits, and
\* every field has its type (enqueue, record).
THEOREM TypeCorrect == Spec => []TypeOK
  <1>1. Inv => TypeOK
    BY DEF Inv
  <1> QED
    BY Invariance, <1>1, PTL

\* A subscriber never takes in an older transaction after a newer one, however
\* many attempts each of them needs and whatever is dropped or restarted
\* (commit, enqueue, deliver, post).
THEOREM DeliveredInOrder == Spec => InOrder
  <1>1. Inv /\ [Next]_vars => [\A s \in Subscribers : latest'[s] >= latest[s]]_vars
    BY StepKeeps
  <1> QED
    BY Invariance, <1>1, PTL DEF Spec, InOrder

=============================================================================
