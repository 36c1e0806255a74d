-------------------------------- MODULE Boot --------------------------------
(***************************************************************************)
(* A register from the configure call to its first request: the configure  *)
(* gate (Gate) and the reconciliation of the pack (Reconcile) together, as *)
(* cmd/register/main.go: configure calls register.New between store.Open   *)
(* and the installation of the register.                                   *)
(*                                                                         *)
(* The store's directory admits one open handle, so one New runs at a time *)
(* and Reconcile's process is that of the call whose handle is open.       *)
(***************************************************************************)
EXTENDS Reconcile

CONSTANTS Callers, Docs, Handles, MaxMistakes, MaxRestarts

VARIABLES state, serving, app, open, loops, call, mistakes, restarts

gateVars == <<state, serving, app, open, loops, call, mistakes, restarts>>
bootVars == <<vars, gateVars>>

G == INSTANCE Gate

\* That New fails is no longer the document's doing.
ASSUME DocsAreKinds == Docs \subseteq G!Kinds \ {"badnew"}

\* A handle is a name: there is always one that no call holds.
ASSUME HandlesAreNames ==
    /\ None \notin Handles
    /\ \A f \in [Callers -> Handles \cup {None}] : \E h \in Handles : \A c \in Callers : f[c] # h

----------------------------------------------------------------------------

\* The call reads the gate's state and is let through, or only names
\* administrators on a register that serves.
Arrive(c, doc) == G!Post(c, doc) /\ UNCHANGED vars

\* configure, up to store.Open; the pack is the document's.
Open(c) ==
    /\ G!OpenStore(c)
    /\ IF call'[c].at = "opened" THEN \E p \in Packs : Configure(p) ELSE UNCHANGED vars

\* register.New, a commit at a time.
NewStep(c) ==
    /\ call[c].at = "opened"
    /\ BootStep
    /\ UNCHANGED gateVars

\* register.New returns an error, for its seed or because a statement failed
\* on the way, or there is no verifier for the register it returned: the store
\* is closed and the process lives on.
NewReturnsError(c) == G!NewFails(c) /\ (SeedFails \/ Crash)

\* register.New returns a register, and the application installs it.
NewReturns(c) ==
    /\ G!Install(c)
    /\ proc.at = "ready"
    /\ UNCHANGED vars

Conclude(c) == (G!NameAdmins(c) \/ G!Ready(c) \/ G!Fail(c)) /\ UNCHANGED vars

CallStep(c) == Open(c) \/ NewStep(c) \/ NewReturnsError(c) \/ NewReturns(c) \/ Conclude(c)

\* Requests reach the register once the server is ready.
Serve ==
    /\ state = "ready"
    /\ \E o \in Ids : Amend(o) \/ \E key \in Keys : Register(o, key)
    /\ UNCHANGED gateVars

\* The process dies, at whichever commit New had reached.
Die ==
    /\ G!Restart
    /\ IF proc.at = "down" THEN UNCHANGED vars ELSE Crash

BootInit == Init /\ G!Init

BootNext ==
    \/ \E c \in Callers : CallStep(c) \/ \E doc \in Docs : Arrive(c, doc)
    \/ Serve
    \/ Die

\* A call that was posted runs, and the deployer keeps posting the good
\* document whenever it can.
BootSpec ==
    /\ BootInit /\ [][BootNext]_bootVars
    /\ \A c \in Callers : WF_bootVars(CallStep(c)) /\ SF_bootVars(Arrive(c, "good"))

----------------------------------------------------------------------------
(* Properties.                                                             *)

\* A register that answers requests answers them from a store that is open,
\* and its checkpoint loop signs that same store, however the calls overlap
\* (application.close in configure).
ServesOpenStore == G!ServesOpenStore

\* A register that answers requests has gone through New to its end on the
\* store it answers from: the query table, schema and policy are its pack's
\* and nothing is half applied, whichever earlier calls failed, overlapped or
\* died on the way (configure, reconcilePack, replayPending).
ServesInLine == state = "ready" => proc.at = "ready" /\ InLine

\* A deployer who posts the good document until it is accepted gets a register,
\* whatever was wrong with earlier documents, however its own retries overlap
\* and wherever New died (docs/operations.md: the gate holds every path "until
\* the deployer configures it, and re-arms on every restart").  The two
\* exceptions the code has are a document whose administrators are refused
\* after its store was installed, and a death between two seed records.
Deploys == (state # "ready") ~> (state = "ready" \/ G!Stuck \/ HalfSeeded)

=============================================================================
