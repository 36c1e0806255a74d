-------------------------------- MODULE Gate --------------------------------
(***************************************************************************)
(* The configure gate (internal/api/handlers.go: configure, internal/api/  *)
(* api.go: Ready, Fail, register; cmd/register/main.go: configure, close). *)
(*                                                                         *)
(* A configure call reads the server's state, and only some steps later    *)
(* writes it.  Between them it opens the store, whose directory one open   *)
(* handle at a time can hold (the storage engine's file lock, external),   *)
(* reconciles the pack, installs the register in the application and names *)
(* administrators.  A deployer whose call timed out posts again, so calls  *)
(* overlap.                                                                *)
(*                                                                         *)
(* Here register.New succeeds or fails with the document.  Boot composes   *)
(* this module with Reconcile, which has the steps of New.                 *)
(***************************************************************************)
EXTENDS Naturals

CONSTANTS
    Callers,    \* configure calls in flight
    Docs,       \* documents that may be posted, a subset of Kinds
    Handles,    \* store handles; a closed one nobody names any more is reused
    MaxMistakes,\* bound: documents posted that are not good
    MaxRestarts,\* bound: restarts of the container
    None

\* What is wrong with a document: nothing; its pack or key (found before the
\* store is opened); register.New fails on it; an administrator it names is
\* refused (found after the store is installed).
Kinds == {"good", "badpack", "badnew", "badadmins"}

VARIABLES
    state,      \* Server.state
    serving,    \* the handle Server.reg reads and writes, or None
    app,        \* application.st, or None
    open,       \* handles that are open
    loops,      \* handles a checkpoint loop runs on
    call,       \* each configure call: [at, doc, st]
    mistakes, restarts

vars == <<state, serving, app, open, loops, call, mistakes, restarts>>

bounds == <<mistakes, restarts>>

Idle == [at |-> "idle"]
To(c, at) == call' = [call EXCEPT ![c].at = at]
Finish(c) == call' = [call EXCEPT ![c] = Idle]

\* The call arrives on a register that is not serving.
Post(c, doc) ==
    /\ call[c] = Idle
    /\ state # "ready"
    /\ doc = "good" \/ mistakes < MaxMistakes
    /\ mistakes' = IF doc = "good" THEN mistakes ELSE mistakes + 1
    /\ call' = [call EXCEPT ![c] = [at |-> "configuring", doc |-> doc, st |-> None]]
    /\ UNCHANGED <<state, serving, app, open, loops, restarts>>

\* On a register that is serving, the call names administrators and leaves the
\* rest alone.
PostRunning(c) ==
    /\ call[c] = Idle
    /\ state = "ready"
    /\ UNCHANGED vars

Unused == {h \in Handles \ (open \cup {app, serving}) :
            \A c \in Callers : call[c] # Idle => call[c].st # h}

\* resolvePack, pack.Load and the commitment key, then store.Open: refused
\* while another handle holds the directory.
OpenStore(c) ==
    /\ call[c].at = "configuring"
    /\ IF call[c].doc # "badpack" /\ open = {}
       THEN LET h == CHOOSE x \in Unused : TRUE
            IN  /\ open' = {h}
                /\ call' = [call EXCEPT ![c].at = "opened", ![c].st = h]
       ELSE To(c, "failing") /\ UNCHANGED open
    /\ UNCHANGED <<state, serving, app, loops, bounds>>

\* register.New fails: the store is closed again.
NewFailsOpen(c) ==
    /\ call[c].at = "opened"
    /\ To(c, "failing")
    /\ UNCHANGED <<state, serving, app, open, loops, bounds>>
NewFails(c) ==
    /\ call[c].at = "opened"
    /\ open' = open \ {call[c].st}
    /\ To(c, "failing")
    /\ UNCHANGED <<state, serving, app, loops, bounds>>

\* application.close, of what a previous call installed, and then the new
\* register with its loops.
InstallThenClose(c) ==
    /\ call[c].at = "opened"
    /\ open' = open \ {call[c].st}
    /\ loops' = {}
    /\ app' = None
    /\ To(c, "installed")
    /\ UNCHANGED <<state, serving, bounds>>
Install(c) ==
    /\ call[c].at = "opened"
    /\ open' = open \ {app}
    /\ loops' = {call[c].st}
    /\ app' = call[c].st
    /\ To(c, "installed")
    /\ UNCHANGED <<state, serving, bounds>>

\* bootstrapMembers and configureMail
NameAdmins(c) ==
    /\ call[c].at = "installed"
    /\ To(c, IF call[c].doc = "badadmins" THEN "failing" ELSE "named")
    /\ UNCHANGED <<state, serving, app, open, loops, bounds>>

\* Server.Ready
Ready(c) ==
    /\ call[c].at = "named"
    /\ state' = "ready"
    /\ serving' = call[c].st
    /\ Finish(c)
    /\ UNCHANGED <<app, open, loops, bounds>>

\* Server.Fail
Fail(c) ==
    /\ call[c].at = "failing"
    /\ state' = "failed"
    /\ Finish(c)
    /\ UNCHANGED <<serving, app, open, loops, bounds>>

\* The container restarts: the gate re-arms.
Restart ==
    /\ restarts < MaxRestarts
    /\ restarts' = restarts + 1
    /\ state' = "awaiting_configuration"
    /\ serving' = None /\ app' = None
    /\ open' = {} /\ loops' = {}
    /\ call' = [c \in Callers |-> Idle]
    /\ UNCHANGED mistakes

Init ==
    /\ state = "awaiting_configuration"
    /\ serving = None /\ app = None
    /\ open = {} /\ loops = {}
    /\ call = [c \in Callers |-> Idle]
    /\ mistakes = 0 /\ restarts = 0

Step(c) ==
    \/ OpenStore(c)
    \/ call[c].at = "opened" /\ call[c].doc = "badnew" /\ NewFails(c)
    \/ call[c].at = "opened" /\ call[c].doc # "badnew" /\ Install(c)
    \/ NameAdmins(c) \/ Ready(c) \/ Fail(c)

Next ==
    \/ \E c \in Callers : Step(c) \/ PostRunning(c) \/ \E doc \in Docs : Post(c, doc)
    \/ Restart

Spec == Init /\ [][Next]_vars

----------------------------------------------------------------------------
(* Properties.                                                             *)

\* A register that answers requests answers them from a store that is open,
\* and its checkpoint loop signs that same store, however the calls overlap
\* (application.close in configure).
ServesOpenStore == state = "ready" => serving \in open /\ loops = {serving}

\* What configure's comment says of a later call: "A register that is already
\* serving keeps serving".
KeepsServing == [][state = "ready" /\ state' # "ready" => Restart]_vars

\* A register that was taken down with its store still installed: no later call
\* can open the store, so only a restart helps.
Stuck == state = "failed" /\ app # None

=============================================================================
