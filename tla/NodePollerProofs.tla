-------------------------- MODULE NodePollerProofs --------------------------
(***************************************************************************)
(* Proofs about NodePoller, for any nodes, URLs and number of admin calls  *)
(* that run beside the poll loop: its type invariant and the hysteresis of *)
(* health.                                                                 *)
(***************************************************************************)
EXTENDS NodePoller, TLAPS

Specs == UNION {[nodes -> Target] : nodes \in SUBSET NodeIds}

Worker == [pc : {"idle", "write", "load", "set", "reconcile", "due", "probe"},
           op : {"none", "poll", "create", "update", "delete", "refresh"},
           node : NodeIds \cup {NoNode}, row : Row \cup {NoNode}, specs : Specs,
           todo : SUBSET NodeIds, sweep : BOOLEAN]

\* What makes TypeOK inductive: the calls are well typed, the row a PUT is to
\* write back is a row, the node a DELETE is about is in the table, and only a
\* worker that probes has nodes left to probe.
WorkersTyped ==
    /\ worker \in [Workers -> Worker]
    /\ lastSpecs \in Specs
    /\ \A w \in Workers :
         /\ worker[w].pc = "write" => worker[w].row \in Row
         /\ worker[w].op = "delete" => worker[w].node \in DOMAIN db
         /\ worker[w].pc # "probe" => worker[w].todo = {}

TypeInv == TypeOK /\ WorkersTyped

\* A table of nodes maps some node ids to their targets.
LEMMA SpecsAre ==
    ASSUME NEW specs
    PROVE  specs \in Specs <=> /\ DOMAIN specs \subseteq NodeIds
                               /\ specs \in [DOMAIN specs -> Target]
  <1>1. ASSUME specs \in Specs
        PROVE  DOMAIN specs \subseteq NodeIds /\ specs \in [DOMAIN specs -> Target]
    <2>1. PICK nodes \in SUBSET NodeIds : specs \in [nodes -> Target]
      BY <1>1 DEF Specs
    <2> QED  BY <2>1
  <1>2. ASSUME DOMAIN specs \subseteq NodeIds, specs \in [DOMAIN specs -> Target]
        PROVE  specs \in Specs
    BY <1>2 DEF Specs
  <1> QED  BY <1>1, <1>2

\* A worker at rest is well typed and has nothing to probe.
LEMMA IdleTyped ==
    /\ Idle \in Worker /\ Idle.pc = "idle" /\ Idle.op = "none" /\ Idle.todo = {}
    /\ Nothing \in Specs
  <1>1. Nothing \in Specs  BY SpecsAre DEF Nothing
  <1> QED  BY <1>1 DEF Idle, Worker

\* The probing view of a well-typed table.
LEMMA SpecsOfTyped == ASSUME TypeOK PROVE SpecsOf(db) \in Specs
  <1>1. DOMAIN SpecsOf(db) = Enabled  BY DEF SpecsOf, Enabled
  <1>2. Enabled \subseteq NodeIds  BY DEF Enabled, TypeOK
  <1>3. ASSUME NEW n \in Enabled PROVE SpecsOf(db)[n] \in Target
    <2>1. db[n] \in Row  BY DEF Enabled, TypeOK
    <2>2. SpecsOf(db)[n] = [url |-> db[n].url, pin |-> db[n].pin]
      BY DEF SpecsOf, Enabled
    <2> QED  BY <2>1, <2>2 DEF Row, Target
  <1>4. SpecsOf(db) \in [Enabled -> Target]
    BY <1>1, <1>3 DEF SpecsOf, Enabled
  <1> QED  BY <1>1, <1>2, <1>4, SpecsAre

\* A worker that moves on keeps the workers well typed.
LEMMA WorkerMoved ==
    ASSUME TypeInv, NEW w \in Workers, NEW next \in Worker,
           worker' = [worker EXCEPT ![w] = next],
           lastSpecs' \in Specs, DOMAIN db \subseteq DOMAIN db',
           next.pc = "write" => next.row \in Row,
           next.op = "delete" => next.node \in DOMAIN db',
           next.todo \subseteq DOMAIN next.specs,
           next.pc # "probe" => next.todo = {}
    PROVE  /\ WorkersTyped'
           /\ \A v \in Workers :
                /\ worker'[v].todo \subseteq DOMAIN worker'[v].specs
                /\ \A n \in DOMAIN worker'[v].specs : worker'[v].specs[n] \in Target
  <1>1. worker' \in [Workers -> Worker]  BY DEF TypeInv, WorkersTyped
  <1>2. ASSUME NEW v \in Workers
        PROVE  /\ worker'[v].pc = "write" => worker'[v].row \in Row
               /\ worker'[v].op = "delete" => worker'[v].node \in DOMAIN db'
               /\ worker'[v].todo \subseteq DOMAIN worker'[v].specs
               /\ worker'[v].pc # "probe" => worker'[v].todo = {}
    <2>1. CASE v = w
      <3>1. worker'[v] = next  BY <2>1 DEF TypeInv, WorkersTyped
      <3> QED  BY <3>1
    <2>2. CASE v # w
      <3>1. worker'[v] = worker[v]  BY <2>2 DEF TypeInv, WorkersTyped
      <3> QED  BY <3>1 DEF TypeInv, WorkersTyped, TypeOK
    <2> QED  BY <2>1, <2>2
  <1>3. ASSUME NEW v \in Workers, NEW n \in DOMAIN worker'[v].specs
        PROVE  worker'[v].specs[n] \in Target
    <2>1. worker'[v].specs \in Specs  BY <1>1 DEF Worker
    <2> QED  BY <2>1, SpecsAre
  <1> QED  BY <1>1, <1>2, <1>3 DEF WorkersTyped

\* The parts of the invariant put together.
LEMMA TypeParts ==
    ASSUME WorkersTyped',
           \A v \in Workers :
                /\ worker'[v].todo \subseteq DOMAIN worker'[v].specs
                /\ \A n \in DOMAIN worker'[v].specs : worker'[v].specs[n] \in Target,
           DOMAIN db' \subseteq NodeIds, \A n \in DOMAIN db' : db'[n] \in Row,
           \A n \in DOMAIN entries' : entries'[n] \in Entry,
           \A n \in DOMAIN state' : state'[n] \in Runtime,
           dead' \subseteq Urls, gone' \subseteq DOMAIN db'
    PROVE  TypeInv'
  BY DEF TypeInv, TypeOK

\* What a worker's step leaves alone.
LEMMA Untouched ==
    ASSUME TypeInv
    PROVE  /\ DOMAIN db \subseteq NodeIds /\ \A n \in DOMAIN db : db[n] \in Row
           /\ \A n \in DOMAIN entries : entries[n] \in Entry
           /\ \A n \in DOMAIN state : state[n] \in Runtime
           /\ dead \subseteq Urls /\ gone \subseteq DOMAIN db
           /\ lastSpecs \in Specs
  BY DEF TypeInv, TypeOK, WorkersTyped

\* An admin call begins.
LEMMA BeginTyped ==
    ASSUME TypeInv, NEW w \in Admins, NEW n \in NodeIds, NEW row \in Row \cup {NoNode},
           NEW op \in {"create", "update", "delete", "refresh"},
           NEW pc \in {"write", "load"}, Begin(w, op, n, pc, row),
           pc = "write" => row \in Row, n \in DOMAIN db', DOMAIN db \subseteq DOMAIN db',
           lastSpecs' = lastSpecs
    PROVE  /\ WorkersTyped'
           /\ \A v \in Workers :
                /\ worker'[v].todo \subseteq DOMAIN worker'[v].specs
                /\ \A m \in DOMAIN worker'[v].specs : worker'[v].specs[m] \in Target
  <1> DEFINE next == [Idle EXCEPT !.pc = pc, !.op = op, !.node = n, !.row = row]
  <1>1. next \in Worker
    BY IdleTyped DEF Worker
  <1>2. /\ next.pc = pc /\ next.op = op /\ next.node = n /\ next.row = row
        /\ next.todo = {}
    BY DEF Idle
  <1>3. worker' = [worker EXCEPT ![w] = next] /\ w \in Workers
    BY DEF Begin, Workers
  <1>4. lastSpecs' \in Specs  BY Untouched
  <1> HIDE DEF next
  <1> QED  BY <1>1, <1>2, <1>3, <1>4, WorkerMoved

\* A node request of the admin API starts a well typed worker.
LEMMA AdminTyped ==
    ASSUME TypeInv, NEW w \in Admins, NEW n \in NodeIds,
           \/ \E url \in Urls, pin \in Pins : createNode(w, n, url, pin)
           \/ updateNode(w, n) \/ deleteNode(w, n) \/ refreshNode(w, n)
    PROVE  TypeInv'
  <1>u. /\ DOMAIN db \subseteq NodeIds /\ \A m \in DOMAIN db : db[m] \in Row
        /\ \A m \in DOMAIN entries : entries[m] \in Entry
        /\ \A m \in DOMAIN state : state[m] \in Runtime
        /\ dead \subseteq Urls /\ gone \subseteq DOMAIN db
    BY Untouched
  <1>1. ASSUME NEW url \in Urls, NEW pin \in Pins, createNode(w, n, url, pin)
        PROVE  TypeInv'
    <2>1. [enabled |-> TRUE, url |-> url, pin |-> pin] \in Row  BY DEF Row
    <2>2. /\ DOMAIN db' = DOMAIN db \cup {n} /\ \A m \in DOMAIN db' : db'[m] \in Row
      BY <1>1, <2>1, <1>u DEF createNode
    <2>3. Begin(w, "create", n, "load", NoNode) /\ UNCHANGED <<entries, state, lastSpecs, dead, gone>>
      BY <1>1 DEF createNode
    <2>4. /\ WorkersTyped'
          /\ \A v \in Workers :
               /\ worker'[v].todo \subseteq DOMAIN worker'[v].specs
               /\ \A m \in DOMAIN worker'[v].specs : worker'[v].specs[m] \in Target
      BY <2>2, <2>3, BeginTyped
    <2> QED  BY <1>u, <2>2, <2>3, <2>4, TypeParts
  <1>2. CASE updateNode(w, n)
    <2>1. /\ n \in DOMAIN db /\ Begin(w, "update", n, "write", db[n])
          /\ UNCHANGED <<entries, db, state, lastSpecs, dead, gone>>
      BY <1>2 DEF updateNode
    <2>2. db[n] \in Row  BY <1>u, <2>1
    <2>3. /\ WorkersTyped'
          /\ \A v \in Workers :
               /\ worker'[v].todo \subseteq DOMAIN worker'[v].specs
               /\ \A m \in DOMAIN worker'[v].specs : worker'[v].specs[m] \in Target
      BY <2>1, <2>2, BeginTyped
    <2> QED  BY <1>u, <2>1, <2>3, TypeParts
  <1>3. CASE deleteNode(w, n)
    <2>1. /\ n \in DOMAIN db /\ Begin(w, "delete", n, "load", NoNode)
          /\ db' = [db EXCEPT ![n].enabled = FALSE]
          /\ UNCHANGED <<entries, state, lastSpecs, dead, gone>>
      BY <1>3 DEF deleteNode
    <2>2. [db[n] EXCEPT !.enabled = FALSE] \in Row  BY <1>u, <2>1 DEF Row
    <2>3. DOMAIN db' = DOMAIN db /\ \A m \in DOMAIN db' : db'[m] \in Row
      BY <1>u, <2>1, <2>2
    <2>4. /\ WorkersTyped'
          /\ \A v \in Workers :
               /\ worker'[v].todo \subseteq DOMAIN worker'[v].specs
               /\ \A m \in DOMAIN worker'[v].specs : worker'[v].specs[m] \in Target
      BY <2>1, <2>3, BeginTyped
    <2> QED  BY <1>u, <2>1, <2>3, <2>4, TypeParts
  <1>4. CASE refreshNode(w, n)
    <2>1. /\ n \in DOMAIN db /\ Begin(w, "refresh", n, "load", NoNode)
          /\ UNCHANGED <<entries, db, state, lastSpecs, dead, gone>>
      BY <1>4 DEF refreshNode
    <2>2. /\ WorkersTyped'
          /\ \A v \in Workers :
               /\ worker'[v].todo \subseteq DOMAIN worker'[v].specs
               /\ \A m \in DOMAIN worker'[v].specs : worker'[v].specs[m] \in Target
      BY <2>1, BeginTyped
    <2> QED  BY <1>u, <2>1, <2>2, TypeParts
  <1> QED  BY <1>1, <1>2, <1>3, <1>4

\* SetNodes and SetNodeProbe keep the registry's entries well typed.
LEMMA SetNodesTyped ==
    ASSUME TypeInv, NEW specs \in Specs, SetNodes(specs)
    PROVE  \A n \in DOMAIN entries' : entries'[n] \in Entry
  <1>1. ASSUME NEW n \in DOMAIN specs PROVE Unprobed(specs[n].url) \in Entry
    <2>1. specs[n] \in Target  BY SpecsAre
    <2> QED  BY <2>1 DEF Unprobed, Entry, Target, Health
  <1>2. DOMAIN entries' = DOMAIN specs  BY DEF SetNodes
  <1>3. \A n \in DOMAIN specs : \/ n \in DOMAIN entries /\ entries'[n] = entries[n]
                                \/ entries'[n] = Unprobed(specs[n].url)
    BY DEF SetNodes
  <1> QED  BY <1>1, <1>2, <1>3, Untouched

\* Publishing probe outcomes keeps the registry entries typed.
LEMMA SetNodeProbeTyped ==
    ASSUME TypeInv, NEW outcomes, SetNodeProbe(outcomes),
           \A n \in DOMAIN outcomes : outcomes[n] \in Runtime
    PROVE  \A n \in DOMAIN entries' : entries'[n] \in Entry
  <1>1. ASSUME NEW n \in DOMAIN entries PROVE entries'[n] \in Entry
    <2>1. entries[n] \in Entry  BY Untouched
    <2>2. CASE n \in DOMAIN outcomes
      <3>1. entries'[n] = [entries[n] EXCEPT !.health = outcomes[n].health,
                                             !.models = outcomes[n].models]
        BY <2>2 DEF SetNodeProbe
      <3>2. outcomes[n].health \in Health /\ outcomes[n].models \in Target \cup {NoModels}
        BY <2>2 DEF Runtime
      <3> QED  BY <2>1, <3>1, <3>2 DEF Entry
    <2>3. CASE n \notin DOMAIN outcomes  BY <2>1, <2>3 DEF SetNodeProbe
    <2> QED  BY <2>2, <2>3
  <1>2. DOMAIN entries' = DOMAIN entries  BY DEF SetNodeProbe
  <1> QED  BY <1>1, <1>2

\* The two ways a node's runtime state is made.
LEMMA FreshTyped ==
    ASSUME NEW target \in Target
    PROVE  /\ Fresh(target) \in Runtime /\ Fresh(target).health = "unknown"
  <1>1. 0 \in 0..failureThreshold  BY DEF failureThreshold
  <1> QED  BY <1>1 DEF Fresh, Runtime, Health

Steady(s) == /\ s.health = "healthy" => s.failures < failureThreshold
             /\ s.health = "unhealthy" => s.failures > 0

\* A probe keeps the runtime state typed and within its hysteresis.
LEMMA OutcomeTyped ==
    ASSUME NEW n \in DOMAIN state, state[n] \in Runtime, NEW target \in Target,
           NEW answered \in BOOLEAN, NEW sweep \in BOOLEAN
    PROVE  /\ Outcome(n, target, answered, sweep) \in Runtime
           /\ Steady(state[n]) => Steady(Outcome(n, target, answered, sweep))
  <1> DEFINE s == state[n]
             f == IF s.failures < failureThreshold THEN s.failures + 1
                  ELSE failureThreshold
             h == IF sweep \/ f >= failureThreshold THEN "unhealthy" ELSE s.health
  <1>1. s \in Runtime /\ s.failures \in 0..2 /\ s.health \in Health
    BY DEF Runtime, failureThreshold
  <1>2. f \in 0..2 /\ f > 0  BY <1>1 DEF failureThreshold
  <1>3. h \in Health  BY <1>1 DEF Health
  <1>4. CASE answered
    <2>1. Outcome(n, target, answered, sweep)
            = [s EXCEPT !.failures = 0, !.health = "healthy", !.models = target,
                        !.recent = TRUE]
      BY <1>4 DEF Outcome
    <2>2. 0 \in 0..failureThreshold /\ "healthy" \in Health
      BY DEF failureThreshold, Health
    <2>3. Outcome(n, target, answered, sweep) \in Runtime
      BY <1>1, <2>1, <2>2 DEF Runtime
    <2>4. /\ Outcome(n, target, answered, sweep).failures = 0
          /\ Outcome(n, target, answered, sweep).health = "healthy"
      BY <1>1, <2>1 DEF Runtime
    <2> QED  BY <2>3, <2>4 DEF Steady, failureThreshold
  <1>5. CASE ~answered
    <2>1. Outcome(n, target, answered, sweep)
            = [s EXCEPT !.failures = f, !.recent = TRUE, !.health = h]
      BY <1>5 DEF Outcome
    <2> HIDE DEF f, h
    <2>2. f \in 0..failureThreshold  BY <1>2 DEF failureThreshold
    <2>3. Outcome(n, target, answered, sweep) \in Runtime
      BY <1>1, <1>3, <2>1, <2>2 DEF Runtime
    <2>4. /\ Outcome(n, target, answered, sweep).failures = f
          /\ Outcome(n, target, answered, sweep).health = h
      BY <1>1, <2>1 DEF Runtime
    <2>5. h = "healthy" => f < failureThreshold
      BY <1>2 DEF h, failureThreshold
    <2> QED  BY <1>2, <2>3, <2>4, <2>5 DEF Steady
  <1> QED  BY <1>4, <1>5

----------------------------------------------------------------------------
(***************************************************************************)
(* The steps of a worker                                                   *)
(***************************************************************************)

AllSteady == \A n \in DOMAIN state : Steady(state[n])

\* A step that moves one worker and touches neither table, registry nor state.
LEMMA QuietMove ==
    ASSUME TypeInv, AllSteady, NEW w \in Workers, NEW next \in Worker,
           worker' = [worker EXCEPT ![w] = next],
           next.pc # "write", next.op = "delete" => next.node \in DOMAIN db,
           next.todo \subseteq DOMAIN next.specs,
           next.pc # "probe" => next.todo = {},
           UNCHANGED <<entries, db, state, lastSpecs, dead>>,
           gone' \subseteq DOMAIN db
    PROVE  TypeInv' /\ AllSteady'
  <1>1. /\ WorkersTyped'
        /\ \A v \in Workers :
             /\ worker'[v].todo \subseteq DOMAIN worker'[v].specs
             /\ \A n \in DOMAIN worker'[v].specs : worker'[v].specs[n] \in Target
    BY WorkerMoved, Untouched
  <1>2. TypeInv'  BY <1>1, Untouched, TypeParts
  <1> QED  BY <1>2 DEF AllSteady

\* Every step of a worker keeps the types and the hysteresis.
LEMMA StepKept ==
    ASSUME TypeInv, AllSteady, NEW w \in Workers, Step(w) \/ ListNodesFails(w)
    PROVE  TypeInv' /\ AllSteady'
  <1> DEFINE k == worker[w]
  <1>k. /\ k \in Worker /\ k.specs \in Specs /\ k.todo \subseteq DOMAIN k.specs
        /\ k.op = "delete" => k.node \in DOMAIN db
        /\ k.pc = "write" => k.row \in Row
        /\ k.pc # "probe" => k.todo = {}
    BY DEF TypeInv, TypeOK, WorkersTyped, Worker
  <1>u. /\ DOMAIN db \subseteq NodeIds /\ \A m \in DOMAIN db : db[m] \in Row
        /\ \A m \in DOMAIN entries : entries[m] \in Entry
        /\ \A m \in DOMAIN state : state[m] \in Runtime
        /\ dead \subseteq Urls /\ gone \subseteq DOMAIN db /\ lastSpecs \in Specs
    BY Untouched
  <1>1. CASE UpdateWrite(w)
    <2> DEFINE next == [k EXCEPT !.pc = "load", !.row = NoNode]
               n == k.node
    <2>1. /\ k.pc = "write" /\ worker' = [worker EXCEPT ![w] = next]
          /\ UNCHANGED <<entries, state, lastSpecs, dead>> /\ gone' = gone \ {n}
      BY <1>1 DEF UpdateWrite
    <2>2. PICK row \in {[k.row EXCEPT !.url = u] : u \in Urls}
                       \cup {[k.row EXCEPT !.pin = p] : p \in Pins}
                       \cup {[k.row EXCEPT !.enabled = e] : e \in BOOLEAN} :
            db' = [db EXCEPT ![n] = row]
      BY <1>1 DEF UpdateWrite
    <2>3. row \in Row  BY <1>k, <2>1 DEF Row
    <2>4. DOMAIN db' = DOMAIN db /\ \A m \in DOMAIN db' : db'[m] \in Row
      BY <1>u, <2>2, <2>3
    <2>5. /\ next \in Worker /\ next.pc = "load" /\ next.op = k.op /\ next.node = k.node
          /\ next.todo = k.todo /\ next.specs = k.specs
      BY <1>k DEF Worker
    <2> HIDE DEF next
    <2>6. /\ WorkersTyped'
          /\ \A v \in Workers :
               /\ worker'[v].todo \subseteq DOMAIN worker'[v].specs
               /\ \A m \in DOMAIN worker'[v].specs : worker'[v].specs[m] \in Target
      BY <1>k, <1>u, <2>1, <2>4, <2>5, WorkerMoved
    <2>7. TypeInv'  BY <1>u, <2>1, <2>4, <2>6, TypeParts
    <2> QED  BY <2>1, <2>7 DEF AllSteady
  <1>2. CASE ListNodes(w)
    <2> DEFINE next == [k EXCEPT !.pc = "set", !.specs = SpecsOf(db)]
    <2>1. /\ k.pc = "load" /\ worker' = [worker EXCEPT ![w] = next]
          /\ UNCHANGED <<entries, db, state, lastSpecs, dead, gone>>
      BY <1>2 DEF ListNodes
    <2>2. SpecsOf(db) \in Specs  BY SpecsOfTyped DEF TypeInv
    <2>3. /\ next \in Worker /\ next.pc = "set" /\ next.op = k.op /\ next.node = k.node
          /\ next.todo = k.todo
      BY <1>k, <2>2 DEF Worker
    <2> HIDE DEF next
    <2> QED  BY <1>k, <1>u, <2>1, <2>3, QuietMove
  <1>3. CASE ListNodesFails(w)
    <2>1. k.pc = "load" /\ UNCHANGED <<entries, db, state, lastSpecs, dead, gone>>
      BY <1>3 DEF ListNodesFails
    <2>2. CASE worker' = [worker EXCEPT ![w].pc = "due", ![w].specs = lastSpecs]
      <3> DEFINE next == [k EXCEPT !.pc = "due", !.specs = lastSpecs]
      <3>1. worker' = [worker EXCEPT ![w] = next]  BY <2>2
      <3>2. /\ next \in Worker /\ next.pc = "due" /\ next.op = k.op
            /\ next.node = k.node /\ next.todo = k.todo
        BY <1>k, <1>u DEF Worker
      <3> HIDE DEF next
      <3> QED  BY <1>k, <1>u, <2>1, <3>1, <3>2, QuietMove
    <2>3. CASE worker' = [worker EXCEPT ![w] = Idle]
      BY <1>u, <2>1, <2>3, IdleTyped, QuietMove
    <2> QED  BY <1>3, <2>2, <2>3 DEF ListNodesFails
  <1>4. CASE LoadRegistry(w)
    <2> DEFINE next == [k EXCEPT !.pc = "reconcile"]
    <2>1. /\ k.pc = "set" /\ SetNodes(k.specs) /\ worker' = [worker EXCEPT ![w] = next]
          /\ UNCHANGED <<db, state, lastSpecs, dead, gone>>
      BY <1>4 DEF LoadRegistry
    <2>2. /\ next \in Worker /\ next.pc = "reconcile" /\ next.op = k.op
          /\ next.node = k.node /\ next.todo = k.todo
      BY <1>k DEF Worker
    <2> HIDE DEF next
    <2>3. /\ WorkersTyped'
          /\ \A v \in Workers :
               /\ worker'[v].todo \subseteq DOMAIN worker'[v].specs
               /\ \A m \in DOMAIN worker'[v].specs : worker'[v].specs[m] \in Target
      BY <1>k, <1>u, <2>1, <2>2, WorkerMoved
    <2>4. \A m \in DOMAIN entries' : entries'[m] \in Entry
      BY <1>k, <2>1, SetNodesTyped
    <2>5. TypeInv'  BY <1>u, <2>1, <2>3, <2>4, TypeParts
    <2> QED  BY <2>1, <2>5 DEF AllSteady
  <1>5. CASE reconcile(w)
    <2> DEFINE next == [k EXCEPT !.pc = "due"]
               changed == {n \in DOMAIN k.specs \cap DOMAIN state :
                             state[n].identity # k.specs[n]}
    <2>1. /\ k.pc = "reconcile" /\ worker' = [worker EXCEPT ![w] = next]
          /\ state' = [n \in DOMAIN k.specs |->
                         IF n \in DOMAIN state \ changed THEN state[n]
                                                         ELSE Fresh(k.specs[n])]
          /\ SetNodeProbe([n \in changed |-> Fresh(k.specs[n])])
          /\ lastSpecs' = k.specs
          /\ UNCHANGED <<db, dead, gone>>
      BY <1>5 DEF reconcile
    <2>2. /\ next \in Worker /\ next.pc = "due" /\ next.op = k.op
          /\ next.node = k.node /\ next.todo = k.todo
      BY <1>k DEF Worker
    <2> HIDE DEF next
    <2>3. ASSUME NEW n \in DOMAIN k.specs
          PROVE  Fresh(k.specs[n]) \in Runtime /\ Steady(Fresh(k.specs[n]))
      <3>1. k.specs[n] \in Target  BY <1>k, SpecsAre
      <3> QED  BY <3>1, FreshTyped DEF Steady
    <2>4. ASSUME NEW n \in DOMAIN state' PROVE state'[n] \in Runtime /\ Steady(state'[n])
      <3>1. n \in DOMAIN k.specs  BY <2>1
      <3>2. \/ n \in DOMAIN state /\ state'[n] = state[n]
            \/ state'[n] = Fresh(k.specs[n])
        BY <2>1, <3>1
      <3> QED  BY <1>u, <2>3, <3>1, <3>2 DEF AllSteady
    <2>5. /\ WorkersTyped'
          /\ \A v \in Workers :
               /\ worker'[v].todo \subseteq DOMAIN worker'[v].specs
               /\ \A m \in DOMAIN worker'[v].specs : worker'[v].specs[m] \in Target
      BY <1>k, <1>u, <2>1, <2>2, WorkerMoved
    <2>6. changed \subseteq DOMAIN k.specs  OBVIOUS
    <2> HIDE DEF changed
    <2>7. \A m \in DOMAIN entries' : entries'[m] \in Entry
      BY <2>1, <2>3, <2>6, SetNodeProbeTyped
    <2>8. TypeInv'  BY <1>u, <2>1, <2>4, <2>5, <2>7, TypeParts
    <2> QED  BY <2>4, <2>8 DEF AllSteady
  <1>6. CASE PickDue(w)
    <2>1. PICK todo \in SUBSET DOMAIN k.specs :
            worker' = [worker EXCEPT ![w].pc = "probe", ![w].todo = todo]
      <3> DEFINE due == {n \in DOMAIN k.specs : n \in DOMAIN state => ~state[n].recent}
                 todo == IF w = Loop THEN due ELSE {k.node} \cap DOMAIN k.specs
      <3>1. worker' = [worker EXCEPT ![w].pc = "probe", ![w].todo = todo]
        BY <1>6 DEF PickDue
      <3>2. todo \in SUBSET DOMAIN k.specs  OBVIOUS
      <3> QED  BY <3>1, <3>2
    <2> DEFINE next == [k EXCEPT !.pc = "probe", !.todo = todo]
    <2>2. worker' = [worker EXCEPT ![w] = next]  BY <2>1
    <2>3. UNCHANGED <<entries, db, state, lastSpecs, dead, gone>>
      BY <1>6 DEF PickDue
    <2>4. todo \in SUBSET NodeIds  BY <1>k, SpecsAre
    <2>5. /\ next \in Worker /\ next.pc = "probe" /\ next.op = k.op
          /\ next.node = k.node /\ next.todo = todo /\ next.specs = k.specs
      BY <1>k, <2>4 DEF Worker
    <2> HIDE DEF next
    <2> QED  BY <1>k, <1>u, <2>2, <2>3, <2>5, QuietMove
  <1>7. ASSUME NEW n \in NodeIds, apply(w, n) PROVE TypeInv' /\ AllSteady'
    <2> DEFINE next == [k EXCEPT !.todo = k.todo \ {n}]
    <2>1. /\ k.pc = "probe" /\ n \in k.todo /\ worker' = [worker EXCEPT ![w] = next]
          /\ UNCHANGED <<db, lastSpecs, dead, gone>>
      BY <1>7 DEF apply
    <2>2. /\ next \in Worker /\ next.pc = "probe" /\ next.op = k.op
          /\ next.node = k.node /\ next.todo \subseteq k.todo /\ next.specs = k.specs
      BY <1>k, <2>1 DEF Worker
    <2> HIDE DEF next
    <2>3. CASE n \notin DOMAIN state
      <3>1. UNCHANGED <<entries, state>>  BY <1>7, <2>3 DEF apply
      <3> QED  BY <1>k, <1>u, <2>1, <2>2, <3>1, QuietMove
    <2>4. CASE n \in DOMAIN state
      <3>1. PICK answered \in BOOLEAN :
              /\ state' = [state EXCEPT ![n] = Outcome(n, k.specs[n], answered, k.sweep)]
              /\ SetNodeProbe([m \in {n} |-> Outcome(n, k.specs[n], answered, k.sweep)])
        BY <1>7, <2>4 DEF apply
      <3> DEFINE out == Outcome(n, k.specs[n], answered, k.sweep)
      <3>2. out \in Runtime /\ Steady(out)
        <4>1. k.specs[n] \in Target /\ k.sweep \in BOOLEAN
          BY <1>k, <2>1, SpecsAre DEF Worker
        <4>2. state[n] \in Runtime /\ Steady(state[n])  BY <1>u, <2>4 DEF AllSteady
        <4> QED  BY <2>4, <4>1, <4>2, OutcomeTyped
      <3> HIDE DEF out
      <3>3. state' = [state EXCEPT ![n] = out] /\ SetNodeProbe([m \in {n} |-> out])
        BY <3>1 DEF out
      <3>4. \A m \in DOMAIN state' : state'[m] \in Runtime /\ Steady(state'[m])
        BY <1>u, <3>2, <3>3 DEF AllSteady
      <3>5. \A m \in DOMAIN entries' : entries'[m] \in Entry
        BY <3>2, <3>3, SetNodeProbeTyped
      <3>6. /\ WorkersTyped'
            /\ \A v \in Workers :
                 /\ worker'[v].todo \subseteq DOMAIN worker'[v].specs
                 /\ \A m \in DOMAIN worker'[v].specs : worker'[v].specs[m] \in Target
        BY <1>k, <1>u, <2>1, <2>2, WorkerMoved
      <3>7. TypeInv'  BY <1>u, <2>1, <3>4, <3>5, <3>6, TypeParts
      <3> QED  BY <3>4, <3>7 DEF AllSteady
    <2> QED  BY <2>3, <2>4
  <1>8. CASE Return(w)
    <2> DEFINE next == IF w = Loop
                       THEN [Idle EXCEPT !.pc = "load", !.op = "poll", !.sweep = FALSE]
                       ELSE Idle
    <2>1. /\ worker' = [worker EXCEPT ![w] = next]
          /\ UNCHANGED <<entries, db, state, lastSpecs, dead>>
          /\ gone' = IF k.op = "delete" /\ k.node \notin Enabled
                     THEN gone \cup {k.node} ELSE gone
      BY <1>8 DEF Return
    <2>2. gone' \subseteq DOMAIN db  BY <1>k, <1>u, <2>1
    <2>3. [Idle EXCEPT !.pc = "load", !.op = "poll", !.sweep = FALSE] \in Worker
      BY IdleTyped DEF Worker
    <2>4. /\ next \in Worker /\ next.pc # "write" /\ next.op # "delete"
          /\ next.todo = {}
      BY <2>3, IdleTyped DEF Idle
    <2> HIDE DEF next
    <2> QED  BY <2>1, <2>2, <2>4, QuietMove
  <1> QED  BY <1>1, <1>2, <1>3, <1>4, <1>5, <1>6, <1>7, <1>8 DEF Step

----------------------------------------------------------------------------
(***************************************************************************)
(* The theorems                                                            *)
(***************************************************************************)

\* They hold at the start.
LEMMA InitKept == Init => TypeInv /\ AllSteady
  <1> SUFFICES ASSUME Init PROVE TypeInv /\ AllSteady  OBVIOUS
  <1> DEFINE first == [Idle EXCEPT !.pc = "load", !.op = "poll"]
  <1>1. worker = [w \in Workers |-> IF w = Loop THEN first ELSE Idle]  BY DEF Init
  <1>2. /\ first \in Worker /\ first.pc = "load" /\ first.op = "poll"
        /\ first.todo = {}
    <2>1. first \in Worker  BY IdleTyped DEF Worker
    <2> QED  BY <2>1 DEF Idle
  <1> HIDE DEF first
  <1>3. /\ lastSpecs = Nothing /\ entries = Nothing /\ state = Nothing
        /\ dead = {} /\ gone = {}
    BY DEF Init
  <1>4. ASSUME NEW w \in Workers
        PROVE  /\ worker[w] \in Worker /\ worker[w].pc # "write"
               /\ worker[w].op # "delete" /\ worker[w].todo = {}
    BY <1>1, <1>2, IdleTyped
  <1>5. WorkersTyped
    BY <1>1, <1>3, <1>4, IdleTyped DEF WorkersTyped
  <1>6. \A w \in Workers : \A n \in DOMAIN worker[w].specs : worker[w].specs[n] \in Target
    BY <1>4, SpecsAre DEF Worker
  <1>7. DOMAIN db \subseteq NodeIds /\ \A n \in DOMAIN db : db[n] \in Row
    BY DEF Init
  <1>8. DOMAIN entries = {} /\ DOMAIN state = {}  BY <1>3 DEF Nothing
  <1> QED  BY <1>3, <1>4, <1>5, <1>6, <1>7, <1>8 DEF TypeInv, TypeOK, AllSteady

\* Every step of the system keeps them.
LEMMA NextKept == TypeInv /\ AllSteady /\ [Next]_vars => TypeInv' /\ AllSteady'
  <1> SUFFICES ASSUME TypeInv, AllSteady, [Next]_vars PROVE TypeInv' /\ AllSteady'
    OBVIOUS
  <1>1. ASSUME NEW w \in Admins, NEW n \in NodeIds,
               \/ \E url \in Urls, pin \in Pins : createNode(w, n, url, pin)
               \/ updateNode(w, n) \/ deleteNode(w, n) \/ refreshNode(w, n)
        PROVE  TypeInv' /\ AllSteady'
    <2>1. TypeInv'  BY <1>1, AdminTyped
    <2>2. state' = state
      BY <1>1 DEF createNode, updateNode, deleteNode, refreshNode
    <2> QED  BY <2>1, <2>2 DEF AllSteady
  <1>2. ASSUME NEW w \in Workers, Step(w) \/ ListNodesFails(w)
        PROVE  TypeInv' /\ AllSteady'
    BY <1>2, StepKept
  <1>3. ASSUME NEW n \in NodeIds, BecomeDue(n) PROVE TypeInv' /\ AllSteady'
    <2> DEFINE next == [state[n] EXCEPT !.recent = FALSE]
    <2>1. /\ n \in DOMAIN state /\ state' = [state EXCEPT ![n] = next]
          /\ UNCHANGED <<entries, db, lastSpecs, worker, dead, gone>>
      BY <1>3 DEF BecomeDue
    <2>2. state[n] \in Runtime  BY <2>1, Untouched
    <2>3. /\ next \in Runtime /\ next.health = state[n].health
          /\ next.failures = state[n].failures
      BY <2>2 DEF Runtime
    <2> HIDE DEF next
    <2>4. Steady(next)  BY <2>1, <2>3 DEF AllSteady, Steady
    <2>5. \A m \in DOMAIN state' : state'[m] \in Runtime /\ Steady(state'[m])
      BY <2>1, <2>3, <2>4, Untouched DEF AllSteady
    <2> QED  BY <2>1, <2>5 DEF AllSteady, TypeInv, TypeOK, WorkersTyped
  <1>4. ASSUME NEW url \in Urls, Die(url) PROVE TypeInv' /\ AllSteady'
    BY <1>4 DEF Die, AllSteady, TypeInv, TypeOK, WorkersTyped
  <1>5. CASE UNCHANGED vars
    BY <1>5 DEF vars, AllSteady, TypeInv, TypeOK, WorkersTyped
  <1> QED  BY <1>1, <1>2, <1>3, <1>4, <1>5 DEF Next

\* Rows, runtime state and registry entries stay well typed, and no worker
\* probes a node outside the node set it loaded (pollCycle, RefreshNode), in
\* any interleaving of the poll loop with admin calls.
THEOREM PollerTyped == Spec => []TypeOK
  <1>1. TypeInv => TypeOK  BY DEF TypeInv
  <1> QED  BY <1>1, InitKept, NextKept, PTL DEF Spec

\* Poller.apply's hysteresis: with probes of the loop and of admin calls
\* applied in any order, to nodes reset or removed meanwhile, a healthy node
\* has fewer than failureThreshold failures since its last success and an
\* unhealthy one has failed at least once.
THEOREM HysteresisHolds == Spec => []Hysteresis
  <1>1. AllSteady => Hysteresis  BY DEF AllSteady, Steady, Hysteresis
  <1> QED  BY <1>1, InitKept, NextKept, PTL DEF Spec
=============================================================================
