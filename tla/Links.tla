------------------------------- MODULE Links --------------------------------
(***************************************************************************)
(* References and links: records of one class that point at a record of    *)
(* another (a plate at its vehicle, an ownership at what is owned), opened *)
(* and closed by the effects of workflows.  The register checks that a     *)
(* reference resolves; that a vehicle has one owner, or a plate while it   *)
(* is on the road, is nobody's check: it follows from how a pack's         *)
(* workflows are written and from a decision being one write set over the  *)
(* state it is taken in.  The first half says when a pack is written so,   *)
(* the second half what then holds.                                        *)
(***************************************************************************)
EXTENDS Workflow

CONSTANTS
    SingleLinks,    \* <<l, m>>: at most one link of class l in status m
    Severances,     \* <<c, s, l, m>>: none for a record of class c in status s
    Carriages       \* <<c, s, l, m>>: one for each record of class c in status s

Effects(w) == DOMAIN Wf[w].effects

\* The status a record is created with (createOps).
NewStatus(c, status) == IF status = "" THEN Class[c].initial ELSE status

\* Effect i opens a link of class l in status m to the object of the decision.
OpensLink(w, i, l, m) ==
    LET e == Wf[w].effects[i] IN
    /\ e.type \in {"create_object", "open_link"}
    /\ e.class = l /\ NewStatus(l, e.status) = m /\ e.ref = "object"

\* Effect i ends such a link.
ClosesLink(w, i, l, m) ==
    LET e == Wf[w].effects[i] IN
    e.type = "close_link" /\ e.class = l /\ e.match = m /\ e.status \notin {m, ""}

\* Effect i may leave a record of class l in status m in any other way.
Rewrites(w, i, l, m) ==
    LET e == Wf[w].effects[i] IN
    \/ /\ e.type = "record" /\ Wf[w].class = l
       /\ \/ Wf[w].action = "create" /\ Class[l].initial = m
          \/ Wf[w].action \in {"update", "correct"}
          \/ Wf[w].action = "status" /\ Wf[w].status \in {m, ""}
    \/ e.type \in {"set_status", "close_link"} /\ e.class = l /\ e.status \in {m, ""}

\* Links only workflows open: one in each workflow that does, and that workflow
\* registers what the link points at, or ends the link it had.
Single(l, m) ==
    /\ \A w \in Workflows : \A i \in Effects(w) :
        /\ ~Rewrites(w, i, l, m)
        /\ OpensLink(w, i, l, m) =>
            /\ \A j \in Effects(w) : OpensLink(w, j, l, m) => j = i
            /\ Wf[w].action = "create" \/ \E j \in Effects(w) : ClosesLink(w, j, l, m)
    /\ \A a, b \in Objects :
        /\ Seed[a] # None /\ ClassOf[a] = l /\ Seed[b] # None /\ ClassOf[b] = l
        /\ Seed[a].ref = Seed[b].ref /\ Seed[a].ref # None /\ Class[l].initial = m
        => a = b

\* A workflow whose approval is refused on a record in status s.
RefusedIn(w, s) ==
    \E i \in DOMAIN Wf[w].conditions :
        LET k == Wf[w].conditions[i]
        IN  k.on_fail = "reject" /\ k.kind = "status_is" /\ k.status # s

\* Effect i may move a record of class c to status s.
Enters(w, i, c, s) ==
    LET e == Wf[w].effects[i] IN
    \/ e.type = "record" /\ Wf[w].class = c /\ Wf[w].action = "status" /\ Wf[w].status = s
    \/ e.type \in {"set_status", "close_link"} /\ e.class = c /\ e.status = s
    \/ e.type \in {"create_object", "open_link"} /\ e.class = c /\ NewStatus(c, e.status) = s

\* A record of class c enters status s only by a workflow of its own that ends
\* its link and opens none, and no workflow opens one afterwards.
Severs(c, s, l, m) ==
    /\ <<l, m>> \in SingleLinks
    /\ s # "" /\ Class[c].initial # s
    /\ \A w \in Workflows : \A i \in Effects(w) :
        /\ Enters(w, i, c, s) =>
            /\ Wf[w].effects[i].type = "record"
            /\ \E j \in Effects(w) : ClosesLink(w, j, l, m)
            /\ \A j \in Effects(w) : ~OpensLink(w, j, l, m)
        /\ OpensLink(w, i, l, m) /\ Wf[w].class = c /\ Wf[w].action # "create"
            => RefusedIn(w, s)

\* Effect i moves a record of class c, the object of the decision, out of status s.
Leaves(w, i, c, s) ==
    /\ Wf[w].effects[i].type = "record" /\ Wf[w].class = c
    /\ Wf[w].action = "status" /\ Wf[w].status \notin {s, ""}

\* Every workflow that registers a record of class c opens its link in the same
\* write set, one that ends the link moves the record out of status s as well,
\* and none moves it back there.
Carries(c, s, l, m) ==
    /\ \A w \in Workflows : \A i \in Effects(w) :
        LET e == Wf[w].effects[i] IN
        /\ Written(w, e) = c =>
            /\ e.type = "record"
            /\ Wf[w].action = "create" =>
                /\ \A j \in Effects(w) : Wf[w].effects[j].type = "record" => j = i
                /\ \E j \in Effects(w) : i < j /\ OpensLink(w, j, l, m)
            /\ Wf[w].action = "status" => Wf[w].status # s
        /\ Written(w, e) = l =>
            \/ e.type \in {"create_object", "open_link"}
            \/ /\ e.type = "close_link" /\ e.match = m
               /\ \E j \in Effects(w) : Leaves(w, j, c, s)
    /\ \A o \in Objects : Seed[o] # None /\ ClassOf[o] = c =>
        /\ Class[l].initial = m
        /\ \E a \in Objects : Seed[a] # None /\ ClassOf[a] = l /\ Seed[a].ref = o

\* The pack keeps the links it is said to keep.
ASSUME PackKeepsLinks ==
    /\ \A x \in SingleLinks : x[1] \in Classes /\ Single(x[1], x[2])
    /\ \A x \in Severances  : Severs(x[1], x[2], x[3], x[4])
    /\ \A x \in Carriages   : Carries(x[1], x[2], x[3], x[4])

----------------------------------------------------------------------------
(* Properties.                                                             *)

\* No version of any record, past or present, refers to something that is not
\* registered or is of another class: a reference to what the same decision
\* registers is checked before that is stored (checkReferences).
ReferencesResolve ==
    \A o \in Objects : \A v \in DOMAIN db.versions[o] :
        LET r == db.versions[o][v].ref
        IN  r # None => /\ Registered(db, r)
                        /\ db.objects[r].class = Class[db.objects[o].class].ref

\* Decisions taken out of order and racing each other never leave an object
\* with two such links: closing the old one and opening the new one are one
\* write set computed from the state of the decision (closeLinkOps).
LinksSingle ==
    \A x \in SingleLinks : \A o \in Objects :
        \A a, b \in Linked(db, x[1], o, x[2]) : a = b

\* A record in a severing status has no such link, even when a workflow that
\* opens one was proposed or accepted before: its conditions are evaluated again
\* at the decision (evaluateConditions, effectOps).
LinksSevered ==
    \A x \in Severances : \A o \in Objects :
        Registered(db, o) /\ db.objects[o].class = x[1] /\ db.objects[o].status = x[2]
            => Linked(db, x[3], o, x[4]) = {}

\* A record in a carrying status is never without its link, however proposals
\* compete for what the link needs and in whatever order the record is moved
\* elsewhere: the record and its link are registered by one write set, and so are
\* its move and the end of the link (effectOps).
LinksCarried ==
    \A x \in Carriages : \A o \in Objects :
        Registered(db, o) /\ db.objects[o].class = x[1] /\ db.objects[o].status = x[2]
            => Linked(db, x[3], o, x[4]) # {}

=============================================================================
