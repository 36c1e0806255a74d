# A verification project for the Privasys register

TLA+ models of the register in this repository, the TLC configurations that
check them on small instances, and TLAPS proofs of the properties that hold for
every instance. `PROJECT.json` lists every run, mutant, theorem, hazard and
finding, and maps each definition to the source lines it models.

## 1. The system

A register keeps records about objects on an authenticated ledger. Every change
is a governance action: an envelope (who, when, why) and a write set, logged and
applied in one ledger commit. Changes are proposed under a workflow of the
loaded *pack*, decided by people or by policy, checkpointed, and audited by a
customer who holds only signed checkpoints.

| Component | State | Operations | Interacts with |
| --- | --- | --- | --- |
| Transactions (`register.go`, `store.go`) | `transactions` rows, the tables, the ledger version, one mutex | `commit`, `apply`, `Begin/Commit/Rollback`, `Do` | everything that writes; notifier |
| Records and workflow (`workflow.go`, `records.go`, `mutations.go`) | `objects`, `record_versions`, `natural_keys`, `dek_keys`, `tasks`; the keyring's cache | `Propose`, `Accept`, `Decide`, `Withdraw` | commit, keyring, pack |
| Retention and erasure (`retention.go`) | marks on versions and objects, destroyed keys | `Prune`, `Erase` | records, ledger history |
| Membership (`members.go`, `invite_mail.go`, `mailing.go`, `rbac.go`) | `members`, `invites`, `invite_recipients`, the reminder pass | grant, revoke, invite, redeem, remind, forget | configure, mail, sign-in |
| Profiles (`identities.go`) | `profiles`, one key per person | `SeeIdentity`, `EraseProfile` | sign-in, grants |
| Checkpoints, evidence, audits (`checkpoints.go`, `query.go`, `audit.go`) | the checkpoint chain, `lastCkpt`, the ledger's history | issue, anchor, evidence, audit | ledger, offline verifier, notifier |
| Offline verifier (`cmd/register-verify`) | what the customer kept | chain, lineage and log completeness checks | checkpoints, the transaction log |
| Configure gate (`handlers.go`, `api.go`, `main.go`) | server state, open store, running loops | `configure`, `Ready`, `Fail`, `close` | deployer, bootstrap |
| Pack reconciliation (`bootstrap.go`) | query tables, their fingerprints, schemas, policies, seed marker | `ensureProjections`, `registerSchema`, `registerPolicy`, `applySeed` | commit, configure |
| Webhooks (`webhook.go`) | bounded queue, worker, outcomes | `enqueue`, `deliver`, `post`, `record`, `Close` | commit (inside the lock), subscribers |
| Standby (`standby.go`, `admin.go`) | a copy of the leaves, the last report | `Export`, `Import`, `pullOnce`, `followPrimary` | primary, its own requests |

What is hard in it:

* **Concurrency.** One mutex serialises the store, so a single `Do` is atomic;
  everything that spans two of them is not: a proposal and its decision, the
  authorisation of a call and the call, `GrantRole`'s read and write of a
  profile, a reminder's mail and its record, `configure`'s look at the server
  and its change of it.
* **Failure.** A crash between two commits (seed, reconciliation, audit and
  prune, mail and mark), or between a commit and its answer.
* **Identity at one-second resolution.** A transaction's id hashes the envelope
  with its timestamp, and an id already in the log is answered from it.
* **Memory beside storage.** The keyring caches unwrapped keys that an erasure
  has to reach; `lastCkpt` caches the chain's end.
* **Write sets built from the store.** Effects of one decision do not see each
  other.
* **Copies taken while the original moves.** A standby reads the primary a page
  at a time; an auditor fetches log and checkpoints by separate calls.
* **A lossy queue fed under a lock its consumer needs.**

`PROJECT.json` `hazards` lists these at their lines with the properties aimed at
them.

## 2. Modules

| Module | Models | State and actions |
| --- | --- | --- |
| `Log` | what `commit` promises (abstract) | a log and rows; one step applies one whole transaction |
| `TxLog` | `commit` in detail | log, rows, version, mutex, the open SQL transaction and its buffer, answers; enter, answer from log, begin, apply one entry, commit, answer, roll back, crash, autocommit statement, clock |
| `Workflow` | workflow, records, retention, erasure | `db` (objects, versions, natural keys, data keys), tasks, proposal keys, keyring cache; one action per API call, with every commit it makes |
| `Governance` | what the register promises about change (abstract) | where each proposal stands, the versions of each record; propose, refuse, approve, retain |
| `Links` | `Workflow`, with the references and links between records | no state of its own: when a pack is written so that its links are kept (`Single`, `Severs`, `Carries`, assumed of the constants as `PackKeepsLinks`), and what then holds |
| `Members` | membership and invitations | members, invites, recipients, the reminder pass, callers already authorised |
| `Profiles` | profiles | profile rows, keys, keyring, calls between their two locks |
| `Lineage` | checkpoints, evidence, audits, offline checks | ledger history, collected prefix, stored chain, `lastCkpt`, what the customer holds, a backup |
| `LogCheck` | `TxLog` with the checkpoints signed over it, and the offline log check | the checkpoints' versions and sequence numbers; the check as an operator on a copy of the log |
| `Gate` | the configure gate | server state, store handles, loops, calls in flight |
| `Reconcile` | `register.New`: replay of a pending transaction, reconciliation with the pack | objects, a pending row, query table, fingerprint, schemas, policy, seed markers, the booting process |
| `Boot` | `Gate` and `Reconcile` composed | both; New runs for the call that opened the store, a commit at a time, and its error or result is that call's next step |
| `Standby` | the warm standby, export and import | the primary's leaves by version, the standby's leaves and version, the pull's position and page, the report |
| `Webhook` | notifications | callers, mutex, queue, worker, outcomes, the last transaction each endpoint took in |
| `TxLogProofs` (also for `LogCheck`), `WorkflowProofs`, `MembersProofs`, `ProfilesProofs`, `LineageProofs`, `BootProofs` (for `Boot`, `Gate`, `Reconcile`), `StandbyProofs`, `WebhookProofs` | theorems | - |
| `MC*` | instances for TLC | constants |

`TxLog` implements `Log` (`Atomic`, an `INSTANCE` under the mapping that keeps
transaction ids and the stored rows). The other modules rely on what that shows:
they take a commit as one step. `Workflow` implements `Governance` (`Governed`):
a proposal maps to undecided, open, or how it ended, a record to its versions.
`Links` extends `Workflow`, and `Boot` extends `Reconcile` and instantiates
`Gate`; `LogCheck` extends `TxLog`.

Abstractions. A payload is its natural key, a companion key, one reference and
one named person; a key is named by the write that minted it; a root is the
sequence of commits it commits to (collision freedom), a chain head the sequence
of its links, a signature an unforgeable record. Workflows, classes, policies
and conditions are constants of the shape `internal/pack` loads, and meet the
rules its `validate` has for them (`PackIsValid`). A payload that leaves the
natural key out is indexed under its object's id (`NaturalKey`), as
`records.go:117` does. `MCVehicles` has every workflow of vehicles and liens of
`packs/car-register/pack.json`, with its conditions and effects; the owner class
and its one workflow are `MCOwners`' subject, and an ownership's second
reference, to the owner, is left out, for a payload has one. Templates and SQL conditions
are what they decide. External code, modelled from its use: the ledger's history
and prune, its reading and restoring of leaves, the engine's
one-handle-per-directory lock, the copy of a volume, a subscriber's endpoint.

## 3. Runs

Every passing run's properties each have a mutant: a plausible bug in one
definition, under which TLC finds that property violated.

### Passing

| Run | Instance | Shows |
| --- | --- | --- |
| `owners` | two subjects, three proposals, two keys, three versions | key index, heads, keys, erasure, terminal states, and that records change only as `Governance` allows: by approvals, a version at a time, the history kept |
| `vehicles` | three vehicles, plates and ownerships (one of each seeded), a lien, three proposals, three versions | references resolve, one owner and one plate at most, neither once scrapped, no plate once exported, always a plate while registered, duties separate, approvals justified where they are applied |
| `members` | two people, three roles, an invitation, three weeks | no clash, last administrator, single use, one recorded reminder, recipients forgotten |
| `profiles` | two people, two calls, four writes | erased stays erased, the keyring holds live keys only |
| `lineage` | three versions, one restore, two checkpoints kept | chain linked, evidence anchored, both offline checks together catch forks |
| `txlog` | two callers, two overlapping write sets, four versions, two seconds, two checkpoints | once, durable, at its version, atomic, found complete offline |
| `boot` | two overlapping calls, a bad document, three packs, a seed record, two attempts that end half way, a restart, an older build's volume | serves an open store in line with its pack, deploys |
| `standby` | three leaf positions in pages of one, three versions, a write of its own, a failure or restart | a healthy report is a copy, also between pulls, catches up |
| `webhook` | two callers, two subscribers, two versions, two attempts, a failed read, a restart | order, no commit waits, close ends, everyone is told |

Bounds. Each is a constant of its module and named there. Two of everything that
can race is enough for every pairwise interleaving; a third proposal or pack adds
the step between two others. Versions and times are bounded so that the boundary
(head and one before it; due and expired; queue full and not) is inside. The
webhook queue has capacity one, so that it is full while the worker waits for the
store and a second caller notifies. Pages of one leaf put a page boundary
between any two leaves, and three versions let the primary commit before and
after it. `vehicles` has three proposals: two that compete and one that decides
the case between them (a registration and a correction that both want one VIN; a
transfer accepted before a scrappage and decided after it). Whether a stolen
vehicle has a plate is left open: `flag_stolen` has no conditions, so it also
moves a vehicle that was scrapped or exported. Deadlock is checked wherever the
system can always step;
`boot` and `webhook` switch it off because a register whose identifiers, commits
and crashes are used up just serves.

Fairness. `boot`: a posted call runs, and the deployer repeats the good document
(strong fairness: it is refused only while another call is in flight or the
register serves); mistakes, errors and restarts are finitely many. `standby`: the
ticker goes on and every request has a timeout; failures, restarts and commits
are finitely many. `members`: the hourly loop goes on after a pass that failed.
`webhook`: a call under way goes on, every wait of the worker has a timeout, and
`select` does not ignore a ready `stop` for ever.

Three liveness properties name the way the code can fail them. `Deploys`:
`Stuck`, a register taken down after its store was installed (a document whose
administrators are refused: nothing closes the store, so `store.Open` refuses
every later call until a restart), and `HalfSeeded`, a boot that ended between
two seed records or before the marker (it comes last, so each later boot fails
on the first record's natural key). `CatchesUp`: `Strays`, a leaf the standby
holds and the primary does not; `Import` removes none, so a standby that wrote
something at its own first start, or a primary that deleted something, keeps the
two roots apart for good. `boot` also assumes that packs only move forward
(`MayRevert = FALSE`): with it switched, `ServesInLine` fails after an
interrupted upgrade, whose new table still has the old fingerprint.

### Where code and documentation disagree

Three runs expect a violation; each has a finding that quotes the line.

| Run | What the counterexample shows |
| --- | --- |
| `lineage_collect` | a collecting retention prune removes the root records the next audit has to walk |
| `gate_race` | of two overlapping configure calls, the second takes the register the first brought up to `failed` |
| `log_short` | a log cut off at its end, before an entry a checkpoint signed, is found "as long as every signed checkpoint says it was": the check is made only for checkpoints at versions the log reaches |

Met while modelling, visible in the models, and not kept as runs:

* An exported vehicle keeps its open ownership: `docs/car-register.md:72-73` says
  of scrappage and export that "the ownership link is closed", and the effects of
  `export_vehicle` (`packs/car-register/pack.json:417-427`) only retire the plate.
  So `MCSeverances` lists the ownership for `scrapped` alone.
* `Erase` leaves an open proposal about the subject readable under the
  proposal's own key (`retention.go:204`; lines 201-202 say "everywhere, at
  once"), and the wraps of the destroyed key stay in the write set of the
  transaction that minted it (`retention.go:263`).
* A failed automatic approval answers with an error after the proposal was
  committed (`workflow.go:199`): `ThenUnderPolicy`, second disjunct.
* Two effects of one decision do not see each other: two records that share a
  class or tenant scope each mint a key and one row is kept (`records.go:346`),
  and a status effect after a record effect on the same object overwrites the
  new version (`mutations.go:96`). The shipped pack has neither shape. Two
  records of one natural key class could take the same key the same way.
  `WritesApart` says that a pack has no such workflow: two of the theorems
  below take it as a hypothesis, and TLC evaluates it for both packs.
* Grant, revoke and the same grant within a second: the last is answered from
  the log and not applied (`register.go:190`): `Members!Commit`.
* A grant that clashes with a role of the token locks the person out
  (`members.go:201`): `Grantable` against `Resolves`.
* A role declared incompatible with itself is accepted (`rbac.go:77`) and can
  be granted (`members.go:205`), after which nobody who holds it can sign in;
  `NoClash` is about two different roles.
* A reminder is mailed before it is recorded (`mailing.go:98`) and can go out
  twice when the record fails or a restart comes between (lines 82-84: "it goes
  out once"): `SendReminder`, `MarkReminded`. `NotRemindedAgain` is what holds.
* A standby that has not finished a pull reports `role: active`
  (`standby.go:169`), and while a pull is under way the last healthy report
  stands over a store that is half replaced; `CopyBetweenPulls` holds between
  pulls only. A standby also accepts writes.
* Two overlapping configure calls that each bring part of the mail settings can
  lose one part (`mailing.go:56`).
* `GrantRole` reads a profile and writes the name under two locks
  (`members.go:163`), so a sign-in between them is overwritten: `ReadHeld`,
  `RecordDisplay`.
* The chain check alone misses a fork signed at different versions
  (`register-verify/main.go:168`), the lineage check alone one at a single
  version; `ForksCaught` needs both.
* The seed's marker carries the pack's version (`bootstrap.go:308`), so the next
  version of a pack seeds a class without natural keys again.
* A scheduled checkpoint is announced after the lock is released, so
  announcements of checkpoints may arrive out of order.

## 4. Proofs

`tlapm` checks every step of the eight proof modules; nothing is taken beyond the
named `ASSUME`s on constants, which TLC evaluates in the runs. They say that
bounds are naturals, that `None` is no member of a set it stands beside, and what
the pack loader has checked. Three theorems have a
hypothesis besides (`WritesApart` for two of them, `ForwardOnly` for one); it is
part of their statement, and TLC evaluates it for the packs of the runs.
`PackKeepsLinks` is an assumption on the pack and on the three sets of links that
are said of it; the three theorems about links use it and no other does, for with
the sets empty every pack meets it. TLC evaluates it for the vehicle pack.

The types (`TypeCorrect`) and `HistoryAppendOnly`, which `Governed` implies, are
proved and in no run.

In every module the property is not inductive as it stands. What had to be added
to it is what the code relies on without saying so.

| Theorem | Property | What the inductive invariant adds, and why |
| --- | --- | --- |
| `TxLogProofs` `TypeCorrect`, `LoggedOnce`, `NothingTakenBack`, `VersionsTrue`, `CommitsAreAtomic` | `TypeOK`, `OnlyOnce`, `AnswersDurable`, `LandsWhereItSays`, `Atomic` | `Progress`: between the look into the log and the commit the transaction is still absent (only the holder of the store writes the log), and the buffer after *n* entries holds, per row, the last of them that names it |
| `TxLogProofs` `LogIsAccepted` | `AcceptedLog` | ledger versions rise along the log (`VersionsRise`), and a checkpoint counts only rows committed by its version (`AnchorsTrue`) |
| `WorkflowProofs` `SeparationOfDuties`, `ProposalKeysEnd`, `EndsAreFinal` | `DutiesSeparate`, `ClosedProposalsSealed`, `TerminalForever` | `TaskInv`: a proposal under review already carries the acceptance; every action is a `TaskStep`, which touches one proposal at most, and only if it had not ended |
| `WorkflowProofs` `TypeCorrect`, `HeadsAreCurrent`, `DestroyedKeysAreForgotten`, `HistoryIsKept`, `ErasureIsFinal`; `RecordsStayReadable`, `IndexIsExact` under `WritesApart` | `TypeOK`, `HeadCurrent`, `DeadKeysForgotten`, `HistoryAppendOnly`, `ErasedForever`; `Readable`, `IndexExact` | `RegInv`: all versions of an object share one scope, a scope in use has a key row (`Scoped`), an erased object's key is destroyed (`Burnt`), a proposal never made has no key |
| `WorkflowProofs` `ConditionsAreMet`, `RegisterIsGoverned` | `ConditionsMet`, `Governed` | `AboutInv`: an open proposal names a registered record of its workflow's class, unless its workflow registers one; every step is an approval, a move of one proposal, a prune or an erasure (`StepKind`) |
| `WorkflowProofs` `ReferencesAlwaysResolve` | `ReferencesResolve` | an object has the class its identifier says (`Classed`); within a walk, a reference to what the walk registers resolves in the write set (`Base`) |
| `WorkflowProofs` `LinksStaySingle`, `SeveredLinks`, `LinksAreCarried` for packs with `PackKeepsLinks` | `LinksSingle`, `LinksSevered`, `LinksCarried` | where each link in force after *n* effects comes from (`LinkWalk`), how a record got its status (`Entered`), which old links are left and which new ones are there (`CarryWalk`) |
| `MembersProofs` `TypeCorrect`, `DutiesStaySeparate`, `RecipientsAreForgotten`, `AdministrationSurvives`, `InvitationsEndOnce`, `RecordedRemindersAreNotRepeated` | `NoClash`, `RecipientsForgotten`, `AlwaysAdministered`, `SpentForGood`, `NotRemindedAgain` | an invitation not yet made has no recipient (`UnmintedBare`); what a pass has still to send is neither recorded nor sent (`PassUnrecorded`) |
| `ProfilesProofs` `KeyringHoldsLiveKeys`, `ErasureIsFinal` | `RingAlive`, `ErasedStays` | `RowsFollowKeys`: a person was seen exactly when there is a key row, and a destroyed key leaves no profile |
| `LineageProofs` `CheckpointsAreLinked`, `EvidenceIsAnchored`, `ForksAreCaught` | `ChainLinked`, `EvidenceAnchored`, `ForksCaught` | the checkpoint in memory is the newest stored, and the backup's chain is as sound as the volume's, for a restore brings it back; each checkpoint given out carries the head of its own root's history |
| `BootProofs` `RequestsReachAnOpenStore` | `ServesOpenStore` | `GateInv`: at most one handle is open, and it belongs to the call between `Open` and install or to the application |
| `BootProofs` `RequestsMeetThePack` under `ForwardOnly` | `ServesInLine` | `RecInv`: the fingerprint was written with the active schema (`Recorded`), and the query table is either complete for that fingerprint or no pack still to come will accept it (`Trusted`); and the application is installed only after `New` ended (`Linked`) |
| `StandbyProofs` `HealthyReportIsTrue`, `PromotionIsSafe` | `HealthyIsCopy`, `CopyBetweenPulls` | a copy that passed Import's check stays the primary's until the standby itself writes, and so does what Status then read (`CheckedCopy`) |
| `WebhookProofs` `TypeCorrect`, `DeliveredInOrder` | `InOrder` | the queue is in the order of the log, above what the worker holds, which is above what any subscriber took in (`Ordered`), and only the caller that holds the store announces a transaction, the newest |

Six arguments are worth following.

*A decision, effect by effect.* `EffectOps` walks the effects of a workflow, each
reading the store as it was before the decision and adding to one write set. The
walk is a recursive function over the effects' positions. `EffectShape` shows
that one effect adds nothing or one record, `WriteKeeps`, `WriteKeepsIndex` and
`WriteKeepsSealed` what that record does to the tables, `WalkEnds` that the whole
walk keeps `WalkInv`. The induction is by least counterexample (`NatMin`, from
the library's `WFMin`): if the write set went wrong after some effect, take the
first. `WritesApart` is needed exactly in `WriteKeepsIndex` and
`WriteKeepsSealed`: what the effects before have written is not in the store a
later one reads, so its check for a free natural key and its look for an existing
key would miss it. The other theorems hold for every pack, the overwritten
version of the note above included.

*What a decision does to links.* The register checks references; that a vehicle
has one owner is nobody's check. `Links` says what a pack has to do for it.
`Single`: a workflow opens one such link at most, and it either registers what
the link points at or ends the link there was. `Severs`: a status is entered only
by a workflow that also ends the link, and workflows that open one are refused in
that status. `Carries`: a record is registered together with its link, a workflow
that ends the link moves the record out of the status as well, and none moves it
back: in the vehicle pack, `registered` and its plate. `WalkTrace` gives the states of the walk, and each
theorem has one invariant of them, by the same induction. `LinkWalk`: a link in
force after *n* effects was in force before and points where it did, or is new
and points at the object of the decision; one new link at most points anywhere;
and once an effect that ends the object's link was computed, the object has lost
it. That last part needs `LinksSingle` itself before the decision: `closeLinkOps`
closes one of the links it finds. `SeveredLinks` rests on the second evaluation
of the conditions (`Allowed`, `NotRefused`): a transfer proposed before a
scrappage is refused after it. `LinksAreCarried` is about absence, so it needs
the opposite direction: `LinksKept` that no effect but an end of the link touches
one, `StatusKept` that no record of the store comes back to the status and that an
effect which moves one out, also one that finds it moved already and writes
nothing, has its result, `NewCarried` that what the walk registers has its link once the
effect that opens it is behind. No effect sees what another writes, so nothing
here depends on the order of the effects except that the record comes before its
link.

*Governance.* `NextKind` sorts the steps, `Decides` says that an approval adds
one version to a record or none. A second effect on a record overwrites the
first one's version before the commit, so the record still gains one.

*The refinement of `commit`.* At the commit, `BufferOK` says that the buffer is the effect
`Log` describes, the last write of each row; every other step of `TxLog` maps to
a stutter.

*The offline fold.* `VerifyAnchors` makes one link per root in a loop.
`LoopLinks` shows, again by least counterexample, that its result is the earlier
head followed by one link for each root, whatever the roots are.
`FoldTellsHistories` reads off the first link: it names the earlier
checkpoint's root, so a later head that the fold reaches commits to that root.
No bound on the length of a history enters.

*Reconciliation after half a boot.* `Trusted` fails if a pack returns whose
fingerprint the marker still carries while the table is another pack's;
`ForwardOnly` excludes that, and `MayRevert = TRUE` shows it (section 3).

Only model-checked, and why:

* liveness (`Deploys`, `CatchesUp`, `ExpiredForgotten`, `CallsReturn`,
  `CloseReturns`, `Told`): fairness and `ENABLED` are beyond this prover;
* the three runs that expect a violation.

## 5. Not modelled

Pure functions over text (JSON schema, canonical JSON, the names, schemas and
queries of a pack), cryptography (ciphers, signatures, inclusion proofs),
transport and presentation (HTTP handlers, explorer, site, UI), and I/O with
other services (mail and its settings, platform manager). Token verification
keeps one thing, the issuer's key set, for five minutes under one lock; it shares
no state with the register. Customer key enrolment writes one row that only the
wrapping of later keys reads.

Left out of modelled parts, with what that means:

* the first administrator's invitation is one action (`BootstrapInvite`), where
  `handlers.go:230-235` asks whether the register is administered and makes the
  invitation under two locks;
* a graceful shutdown (`main.go:137-142`) is a stop at any point, without the
  order in which it drains the server, the worker and the store;
* `Prune` takes all versions that are due, not a batch up to its `LIMIT`: what
  it leaves for the next pass the model takes at once;
* a subscriber's endpoint takes a post in at once or never. One that goes on with
  a post after the client gave up on it may take it in late, so `InOrder` is
  about the order of the posts;
* two effects of one workflow on one natural key class or one shared key:
  `WritesApart` excludes them, as the shipped pack does, and the two theorems that
  need it name it.

## 6. Plan

Order: what every other part rests on first (`TxLog`), then the workflow core,
then the parts that span several commits, then start-up and delivery.

Done: `Log`, `TxLog`, `Workflow`, `Governance`, `Links`, `Members`, `Profiles`,
`Lineage`, `Gate`, `Reconcile`, `Webhook`, `LogCheck`, `Boot`, `Standby`; proofs,
for every value of the constants, of every safety property a passing run checks.

Left to prove: the tables of `Workflow` as the rows of `Log`, which would join
the two refinements (the modules are joined by argument, section 2).

Left to model: customer key enrolment and recovery wraps in `Workflow`, the
merging of mail settings.
