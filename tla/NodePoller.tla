----------------------------- MODULE NodePoller -----------------------------
(***************************************************************************)
(* The node poller (internal/poller) between the nodes table and the       *)
(* registry, with the admin API that writes the table and refreshes nodes  *)
(* synchronously (internal/admin/nodes.go, internal/store/nodes.go).       *)
(*                                                                         *)
(* The poll loop and every admin call are workers that run the same load - *)
(* SetNodes - reconcile - probe - apply sequence concurrently.  Only       *)
(* reconcile and apply hold the poller's lock.                             *)
(***************************************************************************)
EXTENDS NodeRegistry

CONSTANTS
    Loop,          \* the worker that is the startup sweep and then Run
    Admins,        \* the workers that serve admin calls
    NoNode,
    MaxChanges,    \* bound on admin calls
    MaxDead        \* bound on backends that die

ASSUME WorkersAssumption == Loop \notin Admins
ASSUME NoNodeAssumption  == NoNode \notin NodeIds
ASSUME LimitsAssumption  == MaxChanges \in Nat /\ MaxDead \in Nat

VARIABLES
    db,          \* the nodes table, by id
    state,       \* Poller.state: runtime state by node
    lastSpecs,   \* Poller.lastSpecs
    worker,      \* the call each worker is in
    dead,        \* URLs whose backend will never answer again
    gone,        \* nodes whose DELETE was answered 204, not written since
    changes

vars == <<entries, db, state, lastSpecs, worker, dead, gone, changes>>

failureThreshold == 2

Workers == {Loop} \cup Admins
Row     == [enabled : BOOLEAN, url : Urls, pin : Pins]
Runtime == [identity : Target, health : Health, failures : 0..failureThreshold,
            models : Target \cup {NoModels}, recent : BOOLEAN]

Nothing == [n \in {} |-> 0]
Idle    == [pc |-> "idle", op |-> "none", node |-> NoNode, row |-> NoNode,
            specs |-> Nothing, todo |-> {}, sweep |-> TRUE]

Enabled == {n \in DOMAIN db : db[n].enabled}

\* The probing view of the enabled rows.
SpecsOf(rows) == [n \in {m \in DOMAIN rows : rows[m].enabled} |->
                    [url |-> rows[n].url, pin |-> rows[n].pin]]

\* The listener opens once the startup sweep is over.
Serving == ~worker[Loop].sweep

Init ==
    /\ \E known \in SUBSET NodeIds : db \in [known -> Row]
    /\ entries = Nothing /\ state = Nothing /\ lastSpecs = Nothing
    /\ worker = [w \in Workers |->
                   IF w = Loop THEN [Idle EXCEPT !.pc = "load", !.op = "poll"]
                               ELSE Idle]
    /\ dead = {} /\ gone = {} /\ changes = 0

----------------------------------------------------------------------------
(***************************************************************************)
(* Admin calls                                                             *)
(***************************************************************************)

Begin(w, op, n, pc, row) ==
    /\ Serving
    /\ w \in Admins /\ worker[w].pc = "idle"
    /\ changes < MaxChanges /\ changes' = changes + 1
    /\ worker' = [worker EXCEPT ![w] =
                    [Idle EXCEPT !.pc = pc, !.op = op, !.node = n, !.row = row]]

createNode(w, n, url, pin) ==
    /\ n \notin DOMAIN db
    /\ db' = [m \in DOMAIN db \cup {n} |->
                IF m = n THEN [enabled |-> TRUE, url |-> url, pin |-> pin]
                         ELSE db[m]]
    /\ Begin(w, "create", n, "load", NoNode)
    /\ UNCHANGED <<entries, state, lastSpecs, dead, gone>>

\* PUT reads the row, ...
updateNode(w, n) ==
    /\ n \in DOMAIN db
    /\ Begin(w, "update", n, "write", db[n])
    /\ UNCHANGED <<entries, db, state, lastSpecs, dead, gone>>

\* ... changes the fields it names and writes the whole row back.
UpdateWrite(w) ==
    /\ worker[w].pc = "write"
    /\ LET n == worker[w].node
           r == worker[w].row
       IN  /\ \E row \in {[r EXCEPT !.url = u] : u \in Urls}
                         \cup {[r EXCEPT !.pin = p] : p \in Pins}
                         \cup {[r EXCEPT !.enabled = e] : e \in BOOLEAN} :
                 db' = [db EXCEPT ![n] = row]
           /\ gone' = gone \ {n}
    /\ worker' = [worker EXCEPT ![w].pc = "load", ![w].row = NoNode]
    /\ UNCHANGED <<entries, state, lastSpecs, dead, changes>>

\* DELETE disables the row.
deleteNode(w, n) ==
    /\ n \in DOMAIN db
    /\ db' = [db EXCEPT ![n].enabled = FALSE]
    /\ Begin(w, "delete", n, "load", NoNode)
    /\ UNCHANGED <<entries, state, lastSpecs, dead, gone>>

refreshNode(w, n) ==
    /\ n \in DOMAIN db
    /\ Begin(w, "refresh", n, "load", NoNode)
    /\ UNCHANGED <<entries, db, state, lastSpecs, dead, gone>>

----------------------------------------------------------------------------
(***************************************************************************)
(* load                                                                    *)
(***************************************************************************)

ListNodes(w) ==
    /\ worker[w].pc = "load"
    /\ worker' = [worker EXCEPT ![w].pc = "set", ![w].specs = SpecsOf(db)]
    /\ UNCHANGED <<entries, db, state, lastSpecs, dead, gone, changes>>

\* The poll loop goes on with the last known node set; an admin call ends.
\* (A failure of the startup sweep's load ends the process.)
ListNodesFails(w) ==
    /\ worker[w].pc = "load"
    /\ \/ /\ w = Loop /\ Serving
          /\ worker' = [worker EXCEPT ![w].pc = "due", ![w].specs = lastSpecs]
       \/ w \in Admins /\ worker' = [worker EXCEPT ![w] = Idle]
    /\ UNCHANGED <<entries, db, state, lastSpecs, dead, gone, changes>>

LoadRegistry(w) ==
    /\ worker[w].pc = "set"
    /\ SetNodes(worker[w].specs)
    /\ worker' = [worker EXCEPT ![w].pc = "reconcile"]
    /\ UNCHANGED <<db, state, lastSpecs, dead, gone, changes>>

Fresh(target) == [identity |-> target, health |-> "unknown", failures |-> 0,
                  models |-> NoModels, recent |-> FALSE]

\* New nodes start unknown, removed nodes are forgotten, a node whose probe
\* identity changed is reset and the reset is published.
reconcile(w) ==
    /\ worker[w].pc = "reconcile"
    /\ LET specs   == worker[w].specs
           changed == {n \in DOMAIN specs \cap DOMAIN state :
                         state[n].identity # specs[n]}
       IN  /\ state' = [n \in DOMAIN specs |->
                          IF n \in DOMAIN state \ changed THEN state[n]
                                                          ELSE Fresh(specs[n])]
           /\ SetNodeProbe([n \in changed |-> Fresh(specs[n])])
           /\ lastSpecs' = specs
    /\ worker' = [worker EXCEPT ![w].pc = "due"]
    /\ UNCHANGED <<db, dead, gone, changes>>

----------------------------------------------------------------------------
(***************************************************************************)
(* Probes                                                                  *)
(***************************************************************************)

\* Mutant: RefreshNode probes its node without looking for it in the node set.
ProbeAnyway(w) ==
    /\ worker[w].pc = "due"
    /\ LET specs == worker[w].specs
           due   == {n \in DOMAIN specs : n \in DOMAIN state => ~state[n].recent}
       IN  worker' = [worker EXCEPT ![w].pc = "probe",
                        ![w].todo = IF w = Loop THEN due ELSE {worker[w].node}]
    /\ UNCHANGED <<entries, db, state, lastSpecs, dead, gone, changes>>

\* The loop probes the nodes that are due (in the startup sweep all of them
\* are), an admin call the node it is about, if it is still there.
PickDue(w) ==
    /\ worker[w].pc = "due"
    /\ LET specs == worker[w].specs
           due   == {n \in DOMAIN specs : n \in DOMAIN state => ~state[n].recent}
       IN  worker' = [worker EXCEPT ![w].pc = "probe",
                        ![w].todo = IF w = Loop THEN due
                                    ELSE {worker[w].node} \cap DOMAIN specs]
    /\ UNCHANGED <<entries, db, state, lastSpecs, dead, gone, changes>>

\* The next runtime state of node n after a probe of target answered or not.
\* The failure count stops at the threshold: only reaching it matters.
Outcome(n, target, answered, sweep) ==
    LET failures == IF state[n].failures < failureThreshold
                    THEN state[n].failures + 1 ELSE failureThreshold
    IN  IF answered
        THEN [state[n] EXCEPT !.failures = 0, !.health = "healthy",
                              !.models = target, !.recent = TRUE]
        ELSE [state[n] EXCEPT !.failures = failures, !.recent = TRUE,
                              !.health = IF sweep \/ failures >= failureThreshold
                                         THEN "unhealthy" ELSE @]

\* Mutant: a success does not reset the failure counter.
ApplyKeepingFailures(w, n) ==
    /\ worker[w].pc = "probe" /\ n \in worker[w].todo
    /\ worker' = [worker EXCEPT ![w].todo = @ \ {n}]
    /\ LET target == worker[w].specs[n]
       IN  IF n \notin DOMAIN state
           THEN UNCHANGED <<entries, state>>
           ELSE \E answered \in BOOLEAN :
                  /\ answered => target.url \notin dead
                  /\ LET out == [Outcome(n, target, answered, worker[w].sweep)
                                 EXCEPT !.failures = IF answered THEN state[n].failures
                                                                 ELSE @]
                     IN  /\ state' = [state EXCEPT ![n] = out]
                         /\ SetNodeProbe([m \in {n} |-> out])
    /\ UNCHANGED <<db, lastSpecs, dead, gone, changes>>

\* A probe of the target the worker loaded comes back and is applied to
\* whatever the node has become; a node no longer known drops it.
apply(w, n) ==
    /\ worker[w].pc = "probe" /\ n \in worker[w].todo
    /\ worker' = [worker EXCEPT ![w].todo = @ \ {n}]
    /\ LET target == worker[w].specs[n]
       IN  IF n \notin DOMAIN state
           THEN UNCHANGED <<entries, state>>
           ELSE \E answered \in BOOLEAN :
                  /\ answered => target.url \notin dead
                  /\ LET out == Outcome(n, target, answered, worker[w].sweep)
                     IN  /\ state' = [state EXCEPT ![n] = out]
                         /\ SetNodeProbe([m \in {n} |-> out])
    /\ UNCHANGED <<db, lastSpecs, dead, gone, changes>>

\* The cycle, or the admin call, is over.
Return(w) ==
    /\ worker[w].pc = "probe" /\ worker[w].todo = {}
    /\ worker' = [worker EXCEPT ![w] =
                    IF w = Loop THEN [Idle EXCEPT !.pc = "load", !.op = "poll",
                                                  !.sweep = FALSE]
                                ELSE Idle]
    /\ gone' = IF worker[w].op = "delete" /\ worker[w].node \notin Enabled
               THEN gone \cup {worker[w].node} ELSE gone
    /\ UNCHANGED <<entries, db, state, lastSpecs, dead, changes>>

\* A jittered interval after its last probe, a node is due again.
BecomeDue(n) ==
    /\ n \in DOMAIN state /\ state[n].recent
    /\ state' = [state EXCEPT ![n].recent = FALSE]
    /\ UNCHANGED <<entries, db, lastSpecs, worker, dead, gone, changes>>

\* A backend dies for good.
Die(url) ==
    /\ Cardinality(dead) < MaxDead
    /\ dead' = dead \cup {url}
    /\ UNCHANGED <<entries, db, state, lastSpecs, worker, gone, changes>>

Step(w) ==
    \/ UpdateWrite(w)
    \/ ListNodes(w)
    \/ LoadRegistry(w)
    \/ reconcile(w)
    \/ PickDue(w)
    \/ \E n \in NodeIds : apply(w, n)
    \/ Return(w)

Next ==
    \/ \E w \in Admins, n \in NodeIds :
          \/ \E url \in Urls, pin \in Pins : createNode(w, n, url, pin)
          \/ updateNode(w, n)
          \/ deleteNode(w, n)
          \/ refreshNode(w, n)
    \/ \E w \in Workers : Step(w)
    \/ \E w \in Workers : ListNodesFails(w)
    \/ \E n \in NodeIds : BecomeDue(n)
    \/ \E url \in Urls : Die(url)

\* Every goroutine keeps running and time passes; the database answers the
\* loop's reload again and again.
Fairness ==
    /\ \A w \in Workers : WF_vars(Step(w))
    /\ SF_vars(ListNodes(Loop))
    /\ \A n \in NodeIds : WF_vars(BecomeDue(n))

Spec == Init /\ [][Next]_vars /\ Fairness

----------------------------------------------------------------------------
(***************************************************************************)
(* Properties                                                              *)
(***************************************************************************)

\* Rows, runtime state and registry entries are well typed, and a worker only
\* probes nodes of the node set it loaded.
TypeOK ==
    /\ DOMAIN db \subseteq NodeIds /\ \A n \in DOMAIN db : db[n] \in Row
    /\ \A n \in DOMAIN entries : entries[n] \in Entry
    /\ \A n \in DOMAIN state : state[n] \in Runtime
    /\ \A w \in Workers :
         /\ worker[w].todo \subseteq DOMAIN worker[w].specs
         /\ \A n \in DOMAIN worker[w].specs : worker[w].specs[n] \in Target
    /\ dead \subseteq Urls /\ gone \subseteq DOMAIN db

\* Hysteresis, however the probes of the loop and of admin calls interleave:
\* a healthy node has less than failureThreshold failures since its last
\* success, an unhealthy one has at least one.
Hysteresis ==
    \A n \in DOMAIN state :
        /\ state[n].health = "healthy" => state[n].failures < failureThreshold
        /\ state[n].health = "unhealthy" => state[n].failures > 0

\* Once the admin calls are over, routing comes to follow the table and stays
\* there: the registry has exactly the enabled nodes at their current URL, and
\* a node is routable only with the models of its current target and only if
\* its backend is not dead.  Races between loads and late probe results heal.
RoutingConverges ==
    <>[](/\ DOMAIN entries = Enabled
         /\ \A n \in DOMAIN entries :
              /\ entries[n].url = db[n].url
              /\ Routable(n) => /\ entries[n].models = SpecsOf(db)[n]
                                /\ entries[n].url \notin dead)

\* internal/admin/nodes.go on DELETE: "'deleted' must mean 'no longer
\* routable', not 'will stop being routable within a poll interval'."
DeletedMeansUnroutable == \A n \in gone : ~Routable(n)
=============================================================================
