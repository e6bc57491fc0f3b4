----------------------------- MODULE Discovery -----------------------------
(***************************************************************************)
(* How nodes find each other.  Every node registers, and again with each   *)
(* heartbeat, at its upper node (as a subnode) and at its registry node    *)
(* (as a neighbor) with the names of all capabilities in its own cache, so *)
(* that capabilities climb the tree.  A control plane task makes its node  *)
(* ask the registry for the neighbors that meet the task's requirements,   *)
(* keep the list in the eligible neighbor cache, and send the task on to   *)
(* the listed neighbors, which do the same until its TTL is used up.       *)
(*                                                                         *)
(* A registration is sent until it is answered, so it may arrive several   *)
(* times.  The registry selects by the exclusive capabilities, then by the *)
(* collective ones, each under the cache's mutex, and then looks up the    *)
(* records under registryMutex: three steps.  A capability (name and       *)
(* value) is a model value; a requirement asks for all of a set and for    *)
(* one of another.                                                         *)
(***************************************************************************)
EXTENDS Naturals, FiniteSets, Sequences

CONSTANTS
  Nodes,
  Caps,
  None,
  Upper,          \* Config.UpperNode of each node, or None
  Registry,       \* Config.RegistryNode of each node, or None
  InitialCaps,    \* public capabilities in the node's configuration
  Unaddressed,    \* nodes that start without an address of their own
  Requirements,   \* what control plane tasks ask for
  Options,        \* their control plane options
  Tasks,          \* control plane tasks received from users
  Receivers,      \* nodes that users send control plane tasks to
  TTLs,           \* the TTLs they come with
  Administered,   \* nodes whose configuration is changed
  Configurations, \* what it is changed to
  MaxChanges,     \* bound of the model: configuration requests
  MaxHandlers     \* bound of the model: registrations that look for the routine

ASSUME DiscoveryAssumption ==
  /\ None \notin Nodes
  /\ Upper \in [Nodes -> Nodes \cup {None}]
  /\ Registry \in [Nodes -> Nodes \cup {None}]
  /\ InitialCaps \in [Nodes -> SUBSET Caps]
  /\ Unaddressed \subseteq Nodes /\ Receivers \subseteq Nodes /\ Administered \subseteq Nodes
  /\ Requirements \subseteq [exclusive : SUBSET Caps, collective : SUBSET Caps]
  /\ Options \subseteq [overwrite : BOOLEAN, parallel : BOOLEAN]
  /\ Configurations \subseteq [caps : SUBSET Caps, addressed : BOOLEAN]
  /\ TTLs \subseteq Nat /\ MaxChanges \in Nat /\ MaxHandlers \in Nat \ {0}

VARIABLES
  config,      \* Config: public capabilities, and whether SelfNode has an address
  subCaps,     \* subnodeCapabilityCache of each node
  neiCaps,     \* neighborCapabilityCache of each node
  Subnodes,
  Neighbors,
  beat,        \* the registration each node has under way, per kind of target
  routine,     \* start of the queue routine of each node (IsBackgroundRoutineStarted)
  eligible,    \* eligibleNeighborCache of each node
  tasks,       \* copies of control plane tasks, by the nodes they came through
  registered,  \* history: what has been registered as a neighbor at each node
  changes      \* configuration requests so far

registryVars == <<subCaps, neiCaps, Subnodes, Neighbors, registered>>
vars == <<config, registryVars, beat, routine, eligible, tasks, changes>>

Kinds == {"upper", "registry"}
Target(n, kind) == IF kind = "upper" THEN Upper[n] ELSE Registry[n]
Registrants == {r \in Nodes \X Kinds : Target(r[1], r[2]) # None}
Idle == [sending |-> FALSE, caps |-> {}]

Put(f, k, v) == [x \in DOMAIN f \cup {k} |-> IF x = k THEN v ELSE f[x]]
-----------------------------------------------------------------------------
(* A capability cache: the nodes of each capability it has an item for. An *)
(* item stays when its last node goes.                                     *)
EmptyCache == [c \in {} |-> {}]

DeleteNode(cache, n) == [c \in DOMAIN cache |-> cache[c] \ {n}]

(* Variant of Set: a node keeps the capabilities it no longer registers.   *)
Set_without_removal(cache, n, caps) ==
  [c \in DOMAIN cache \cup caps |->
     (IF c \in DOMAIN cache THEN cache[c] ELSE {}) \cup (IF c \in caps THEN {n} ELSE {})]

Set(cache, n, caps) ==
  IF caps = {} THEN cache
  ELSE [c \in DOMAIN cache \cup caps |->
          ((IF c \in DOMAIN cache THEN cache[c] ELSE {}) \ {n})
            \cup (IF c \in caps THEN {n} ELSE {})]

GetAllCapabilities(cache) == DOMAIN cache

getNodes(cache, c, filter) == IF c \in DOMAIN cache THEN cache[c] \cap filter ELSE {}

SelectNodesExclusively(cache, caps) ==
  {m \in Nodes : caps # {} /\ \A c \in caps : m \in getNodes(cache, c, Nodes)}

SelectNodesCollectively(cache, caps, filter) ==
  UNION {getNodes(cache, c, filter) : c \in caps}

(* Variant of Candidates: the exclusive nodes do not filter.               *)
Candidates_unfiltered(cache, req) ==
  IF req.exclusive # {} /\ SelectNodesExclusively(cache, req.exclusive) = {} THEN {} ELSE Nodes

(* selectAvaiableNodes: the nodes with all exclusive capabilities, or no    *)
(* filter when there are none.  From these it selects collectively; a      *)
(* requirement without collective capabilities selects no node.            *)
Candidates(cache, req) ==
  IF req.exclusive = {} THEN Nodes ELSE SelectNodesExclusively(cache, req.exclusive)
-----------------------------------------------------------------------------
OwnCapabilities(n) ==
  IF n \in Unaddressed THEN EmptyCache ELSE Set(EmptyCache, n, InitialCaps[n])

Init ==
  /\ config = [n \in Nodes |-> [caps |-> InitialCaps[n], addressed |-> n \notin Unaddressed]]
  /\ subCaps = [n \in Nodes |-> OwnCapabilities(n)]
  /\ neiCaps = [n \in Nodes |-> OwnCapabilities(n)]
  /\ Subnodes = [n \in Nodes |-> {}]
  /\ Neighbors = [n \in Nodes |-> {}]
  /\ beat = [n \in Nodes |-> [k \in Kinds |-> Idle]]
  /\ routine = [n \in Nodes |-> [checking |-> 0, starting |-> 0, started |-> FALSE, running |-> 0]]
  /\ eligible = [n \in Nodes |-> [req \in {} |-> {}]]
  /\ tasks = [p \in {} |-> p]
  /\ registered = [n \in Nodes |-> IF n \in Unaddressed THEN {} ELSE {<<n, InitialCaps[n]>>}]
  /\ changes = 0
-----------------------------------------------------------------------------
(* Registration, and its repetition as heartbeat.                          *)

(* A node without an address looks it up first, and tries again if there   *)
(* is none; its own capabilities are not put in its caches.                *)
RegisterToNode(n, kind) ==
  /\ ~ beat[n][kind].sending
  /\ config' = [config EXCEPT ![n].addressed = TRUE]
  /\ beat' = [beat EXCEPT ![n][kind] = [sending |-> TRUE, caps |-> GetAllCapabilities(subCaps[n])]]
  /\ UNCHANGED <<registryVars, routine, eligible, tasks, changes>>

(* Variant of registerNode: a known node's capabilities are not updated.   *)
registerNode_once(u, n, kind, caps) ==
  IF kind = "upper"
  THEN /\ Subnodes' = [Subnodes EXCEPT ![u] = @ \cup {n}]
       /\ subCaps' = IF n \in Subnodes[u] THEN subCaps ELSE [subCaps EXCEPT ![u] = Set(@, n, caps)]
       /\ UNCHANGED <<Neighbors, neiCaps, registered>>
  ELSE /\ Neighbors' = [Neighbors EXCEPT ![u] = @ \cup {n}]
       /\ neiCaps' = IF n \in Neighbors[u] THEN neiCaps ELSE [neiCaps EXCEPT ![u] = Set(@, n, caps)]
       /\ registered' = [registered EXCEPT ![u] = @ \cup {<<n, caps>>}]
       /\ UNCHANGED <<Subnodes, subCaps>>

(* Variant of registerNode: a neighbor that has capabilities already in the *)
(* cache is taken for a known one.                                          *)
registerNode_unsaved(u, n, kind, caps) ==
  IF kind = "upper"
  THEN /\ Subnodes' = [Subnodes EXCEPT ![u] = @ \cup {n}]
       /\ subCaps' = [subCaps EXCEPT ![u] = Set(@, n, caps)]
       /\ UNCHANGED <<Neighbors, neiCaps, registered>>
  ELSE /\ Neighbors' = [Neighbors EXCEPT ![u] = IF caps = {} THEN @ \cup {n} ELSE @]
       /\ neiCaps' = [neiCaps EXCEPT ![u] = Set(@, n, caps)]
       /\ registered' = [registered EXCEPT ![u] = @ \cup {<<n, caps>>}]
       /\ UNCHANGED <<Subnodes, subCaps>>

registerNode(u, n, kind, caps) ==
  IF kind = "upper"
  THEN /\ Subnodes' = [Subnodes EXCEPT ![u] = @ \cup {n}]
       /\ subCaps' = [subCaps EXCEPT ![u] = Set(@, n, caps)]
       /\ UNCHANGED <<Neighbors, neiCaps, registered>>
  ELSE /\ Neighbors' = [Neighbors EXCEPT ![u] = @ \cup {n}]
       /\ neiCaps' = [neiCaps EXCEPT ![u] = Set(@, n, caps)]
       /\ registered' = [registered EXCEPT ![u] = @ \cup {<<n, caps>>}]
       /\ UNCHANGED <<Subnodes, subCaps>>

(* The registration arrives and is answered; if the answer is lost it is   *)
(* sent again.  The upper node looks whether its queue routine was started *)
(* (a look that would find it started is left out).                        *)
RegisterSubnode(n, kind, answered) ==
  LET u == Target(n, kind) IN
  /\ beat[n][kind].sending
  /\ registerNode(u, n, kind, beat[n][kind].caps)
  /\ beat' = IF answered THEN [beat EXCEPT ![n][kind] = Idle] ELSE beat
  /\ IF kind = "registry" \/ routine[u].started THEN routine' = routine
     ELSE /\ routine[u].checking + routine[u].starting < MaxHandlers
          /\ routine' = [routine EXCEPT ![u].checking = @ + 1]
  /\ UNCHANGED <<config, eligible, tasks, changes>>

(* Check and start are not one step: two first registrations may both find *)
(* the routine not started.                                                *)
CheckRoutine(u) ==
  /\ routine[u].checking > 0
  /\ routine' = [routine EXCEPT ![u].checking = @ - 1, ![u].starting = @ + 1]
  /\ UNCHANGED <<config, registryVars, beat, eligible, tasks, changes>>

(* Variant of StartRoutine: the second start stops the first routine.      *)
StartRoutine_stops_other(u) ==
  /\ routine[u].starting > 0
  /\ routine' = [routine EXCEPT ![u].checking = 0, ![u].starting = @ - 1,
                                ![u].started = TRUE, ![u].running = IF @ > 0 THEN 0 ELSE 1]
  /\ UNCHANGED <<config, registryVars, beat, eligible, tasks, changes>>

(* Registrations that have yet to look will find the routine started.      *)
StartRoutine(u) ==
  /\ routine[u].starting > 0
  /\ routine' = [routine EXCEPT ![u].checking = 0, ![u].starting = @ - 1,
                                ![u].started = TRUE, ![u].running = @ + 1]
  /\ UNCHANGED <<config, registryVars, beat, eligible, tasks, changes>>
-----------------------------------------------------------------------------
(* Requests that change the configuration.                                 *)

UpdateConfigurations(n, caps, addressed) ==
  LET update(cache) ==
        LET kept == IF config[n].addressed /\ ~ addressed THEN DeleteNode(cache, n) ELSE cache
        IN IF addressed THEN Set(kept, n, caps) ELSE kept
  IN
  /\ changes < MaxChanges
  /\ changes' = changes + 1
  /\ config' = [config EXCEPT ![n] = [caps |-> caps, addressed |-> addressed]]
  /\ subCaps' = [subCaps EXCEPT ![n] = update(@)]
  /\ neiCaps' = [neiCaps EXCEPT ![n] = update(@)]
  /\ registered' = IF addressed THEN [registered EXCEPT ![n] = @ \cup {<<n, caps>>}] ELSE registered
  /\ UNCHANGED <<Subnodes, Neighbors, beat, routine, eligible, tasks>>

(* These two change the configuration only, not what is advertised.        *)
AddOrDeleteCapability(n, c) ==
  /\ changes < MaxChanges
  /\ changes' = changes + 1
  /\ \/ c \notin config[n].caps /\ config' = [config EXCEPT ![n].caps = @ \cup {c}]
     \/ c \in config[n].caps /\ config' = [config EXCEPT ![n].caps = @ \ {c}]
  /\ UNCHANGED <<registryVars, beat, routine, eligible, tasks>>
-----------------------------------------------------------------------------
(* Control plane tasks.  A copy is named by the way it took.               *)
Copy(req, opt, ttl) ==
  [req |-> req, opt |-> opt, ttl |-> ttl, pc |-> "discover",
   keys |-> {}, list |-> {}, todo |-> {}, waiting |-> {}]

NodeOf(p) == p[Len(p)]

Step(p, copy) ==
  /\ tasks' = [tasks EXCEPT ![p] = copy]
  /\ UNCHANGED <<config, registryVars, beat, routine, changes>>

Done(copy) == [copy EXCEPT !.pc = "done", !.keys = {}, !.list = {}, !.waiting = {}]

TaskReceiver(t, n, req, opt, ttl) ==
  /\ \A p \in DOMAIN tasks : p[1] # t
  /\ tasks' = Put(tasks, <<t, n>>, Copy(req, opt, ttl))
  /\ UNCHANGED <<config, registryVars, beat, routine, eligible, changes>>

(* Variant of Dispatch: the TTL is not counted down.                       *)
Dispatch_keeps_ttl(copy, list) ==
  IF list = {} THEN Done(copy)
  ELSE [copy EXCEPT !.pc = "dispatch", !.keys = {}, !.list = {}, !.todo = list]

Dispatch(copy, list) ==
  IF list = {} THEN Done(copy)
  ELSE [copy EXCEPT !.pc = "dispatch", !.keys = {}, !.list = {}, !.ttl = @ - 1, !.todo = list]

Cached(n, req) == IF req \in DOMAIN eligible[n] THEN eligible[n][req] ELSE {}

(* Variant of discoverNeighbors: a node processes one task after another.  *)
discoverNeighbors_in_turn(p) ==
  LET copy == tasks[p] IN
  /\ copy.pc = "discover"
  /\ \A q \in DOMAIN tasks : NodeOf(q) = NodeOf(p) => tasks[q].pc \in {"discover", "done"}
  /\ eligible' = eligible
  /\ Step(p, IF copy.ttl = 0 THEN Done(copy) ELSE [copy EXCEPT !.pc = "select"])

(* processControlPlaneTask up to the cache: a task whose TTL is used up is *)
(* only held for a while.                                                  *)
discoverNeighbors(p) ==
  LET copy == tasks[p]
      cached == IF copy.opt.overwrite THEN {} ELSE Cached(NodeOf(p), copy.req)
  IN
  /\ copy.pc = "discover"
  /\ eligible' = eligible
  /\ Step(p, IF copy.ttl = 0 THEN Done(copy)
             ELSE IF cached # {} THEN Dispatch(copy, cached)
             ELSE [copy EXCEPT !.pc = "select"])

(* ListNeighbors at the registry: two selections, each under the cache's   *)
(* mutex, with registrations between them.                                 *)
SelectAtRegistry(p) ==
  LET r == Registry[NodeOf(p)] IN
  /\ tasks[p].pc = "select" /\ r # None
  /\ eligible' = eligible
  /\ Step(p, [tasks[p] EXCEPT !.pc = "collect", !.keys = Candidates(neiCaps[r], tasks[p].req)])

CollectAtRegistry(p) ==
  LET copy == tasks[p]
      r == Registry[NodeOf(p)]
  IN
  /\ copy.pc = "collect"
  /\ eligible' = eligible
  /\ Step(p, [copy EXCEPT !.pc = "lookup",
                 !.keys = SelectNodesCollectively(neiCaps[r], copy.req.collective, copy.keys)])

(* Without an answer from the registry the handler panics, and the request *)
(* of the task ends.  (An answer that is lost later changes no more.)      *)
FetchFails(p) ==
  /\ tasks[p].pc = "select"
  /\ eligible' = eligible
  /\ Step(p, Done(tasks[p]))

(* Variant of LookUpNodes: the registry itself is never listed.            *)
LookUpNodes_without_self(p) ==
  LET r == Registry[NodeOf(p)] IN
  /\ tasks[p].pc = "lookup"
  /\ eligible' = eligible
  /\ Step(p, [tasks[p] EXCEPT !.pc = "answer", !.list = tasks[p].keys \cap Neighbors[r]])

(* ListNeighbors: the records of the selected nodes, under registryMutex.  *)
LookUpNodes(p) ==
  LET r == Registry[NodeOf(p)] IN
  /\ tasks[p].pc = "lookup"
  /\ eligible' = eligible
  /\ Step(p, [tasks[p] EXCEPT !.pc = "answer",
                !.list = {k \in tasks[p].keys : k \in Neighbors[r] \/ (k = r /\ config[r].addressed)}])

StoreEligibleNeighbors(p) ==
  LET n == NodeOf(p) IN
  /\ tasks[p].pc = "answer"
  /\ eligible' = [eligible EXCEPT ![n] = Put(@, tasks[p].req, tasks[p].list)]
  /\ Step(p, Dispatch(tasks[p], tasks[p].list))

(* A neighbor is sent the task, in turn or (in parallel) each by a routine *)
(* of its own; the request may fail, which is only logged.                 *)
dispatchNeighborTask(p, m, arrives) ==
  LET copy == tasks[p] IN
  /\ m \in copy.todo
  /\ copy.opt.parallel \/ copy.waiting = {}
  /\ tasks' = LET sent == [tasks EXCEPT ![p].todo = @ \ {m},
                                        ![p].waiting = IF arrives THEN @ \cup {m} ELSE @]
              IN IF arrives THEN Put(sent, Append(p, m), Copy(copy.req, copy.opt, copy.ttl))
                 ELSE sent
  /\ UNCHANGED <<config, registryVars, beat, routine, eligible, changes>>

(* The neighbor answers when it has processed its copy.                    *)
NeighborDone(p, m) ==
  /\ m \in tasks[p].waiting /\ tasks[Append(p, m)].pc = "done"
  /\ eligible' = eligible
  /\ Step(p, [tasks[p] EXCEPT !.waiting = @ \ {m}])

(* All neighbors have answered, or, in parallel, the node has waited long  *)
(* enough for them.                                                        *)
FinishDispatch(p) ==
  LET copy == tasks[p] IN
  /\ copy.pc = "dispatch"
  /\ (copy.todo = {} /\ copy.waiting = {}) \/ copy.opt.parallel
  /\ eligible' = eligible
  /\ Step(p, Done(copy))
-----------------------------------------------------------------------------
(* Everything a copy does by itself, except giving up.                     *)
Process(p) ==
  \/ discoverNeighbors(p)
  \/ SelectAtRegistry(p) \/ CollectAtRegistry(p)
  \/ Registry[NodeOf(p)] = None /\ FetchFails(p)
  \/ LookUpNodes(p)
  \/ StoreEligibleNeighbors(p)
  \/ \E m \in tasks[p].todo : dispatchNeighborTask(p, m, TRUE)
  \/ \E m \in tasks[p].waiting : NeighborDone(p, m)
  \/ tasks[p].todo \cup tasks[p].waiting = {} /\ FinishDispatch(p)

Next ==
  \/ \E r \in Registrants :
       \/ RegisterToNode(r[1], r[2])
       \/ \E answered \in BOOLEAN : RegisterSubnode(r[1], r[2], answered)
  \/ \E n \in Nodes : CheckRoutine(n) \/ StartRoutine(n)
  \/ \E n \in Administered :
       \/ \E new \in Configurations : UpdateConfigurations(n, new.caps, new.addressed)
       \/ \E c \in Caps : AddOrDeleteCapability(n, c)
  \/ \E t \in Tasks, n \in Receivers, req \in Requirements, opt \in Options, ttl \in TTLs :
       TaskReceiver(t, n, req, opt, ttl)
  \/ \E p \in DOMAIN tasks :
       \/ discoverNeighbors(p) \/ SelectAtRegistry(p) \/ CollectAtRegistry(p) \/ FetchFails(p)
       \/ LookUpNodes(p) \/ StoreEligibleNeighbors(p) \/ FinishDispatch(p)
       \/ \E m \in tasks[p].todo, arrives \in BOOLEAN : dispatchNeighborTask(p, m, arrives)
       \/ \E m \in tasks[p].waiting : NeighborDone(p, m)

Spec == Init /\ [][Next]_vars

(* The heartbeat is a loop of its own per target; a registration is tried  *)
(* until it is answered; a copy of a task has a goroutine of its own.      *)
Fairness ==
  /\ \A r \in Registrants :
       WF_vars(RegisterToNode(r[1], r[2])) /\ WF_vars(RegisterSubnode(r[1], r[2], TRUE))
  /\ \A n \in {Upper[m] : m \in Nodes} \ {None} : WF_vars(CheckRoutine(n)) /\ WF_vars(StartRoutine(n))
  /\ WF_vars(\E p \in DOMAIN tasks : Process(p))

FairSpec == Spec /\ Fairness
-----------------------------------------------------------------------------
CacheType == UNION {[D -> SUBSET Nodes] : D \in SUBSET Caps}

(* Type invariant; a task is sent on at most as often as its TTL says.     *)
TypeOK ==
  /\ config \in [Nodes -> [caps : SUBSET Caps, addressed : BOOLEAN]]
  /\ subCaps \in [Nodes -> CacheType] /\ neiCaps \in [Nodes -> CacheType]
  /\ Subnodes \in [Nodes -> SUBSET Nodes] /\ Neighbors \in [Nodes -> SUBSET Nodes]
  /\ beat \in [Nodes -> [Kinds -> [sending : BOOLEAN, caps : SUBSET Caps]]]
  /\ routine \in [Nodes ->
       [checking : Nat, starting : Nat, started : BOOLEAN, running : Nat]]
  /\ \A n \in Nodes : \A req \in DOMAIN eligible[n] :
       req \in Requirements /\ eligible[n][req] \subseteq Nodes
  /\ \A p \in DOMAIN tasks :
       /\ p \in Seq(Tasks \cup Nodes) /\ Len(p) >= 2
       /\ \E ttl \in TTLs : tasks[p].ttl \in 0 .. ttl /\ Len(p) <= ttl + 2
       /\ tasks[p] \in
            [req : Requirements, opt : Options, ttl : Nat,
             pc : {"discover", "select", "collect", "lookup", "answer", "dispatch", "done"},
             keys : SUBSET Nodes, list : SUBSET Nodes, todo : SUBSET Nodes, waiting : SUBSET Nodes]
  /\ registered \in [Nodes -> SUBSET (Nodes \X SUBSET Caps)]
  /\ changes \in 0 .. MaxChanges

(* Nothing is lost between the selection and the look-up of ListNeighbors: *)
(* every selected node is in the answer, except the registry itself when   *)
(* its address has been taken away.                                        *)
SelectedAreAnswered ==
  \A p \in DOMAIN tasks : tasks[p].pc = "answer" =>
    tasks[p].keys \ tasks[p].list \subseteq {Registry[NodeOf(p)]}

(* A neighbor that is listed for a requirement, in a cache or for a task   *)
(* on its way, has registered with all exclusive capabilities in one       *)
(* registration, and in one with one of the collective capabilities.  They *)
(* need not be the same one: a registration between the two selections can *)
(* have a node listed that never met the requirement at one time.          *)
MeetsExclusive(r, m, req) ==
  \E reg \in registered[r] : reg[1] = m /\ req.exclusive \subseteq reg[2]

MeetsCollective(r, m, req) ==
  \E reg \in registered[r] : reg[1] = m /\ req.collective \cap reg[2] # {}

Meets(r, m, req) == MeetsExclusive(r, m, req) /\ MeetsCollective(r, m, req)

ListedNodesEligible ==
  /\ \A n \in Nodes : \A req \in DOMAIN eligible[n] :
       \A m \in eligible[n][req] : Meets(Registry[n], m, req)
  /\ \A p \in DOMAIN tasks : \A m \in tasks[p].todo :
       Meets(Registry[NodeOf(p)], m, tasks[p].req)

(* A coordinator with subnodes has a routine that serves its queues, or a  *)
(* registration about to start one: the unlocked check never loses it.     *)
QueueRoutineRuns ==
  \A n \in Nodes : Subnodes[n] # {} =>
    routine[n].running + routine[n].checking + routine[n].starting > 0

ListedFor(n, kind, c) ==
  LET u == Target(n, kind)
      cache == IF kind = "upper" THEN subCaps[u] ELSE neiCaps[u]
  IN c \in DOMAIN cache /\ n \in cache[c]

(* However registrations and configuration changes interleave, the nodes   *)
(* come to agree: in the end every node is listed, at its upper node and   *)
(* at its registry, for all that it advertises, which includes all that    *)
(* its subnodes advertise, through any number of levels.                   *)
CapabilitiesPropagate ==
  <>[](\A r \in Registrants, c \in Caps : c \in DOMAIN subCaps[r[1]] => ListedFor(r[1], r[2], c))

(* Every control plane task is answered, although nodes that send it to    *)
(* each other wait for each other.                                         *)
ControlPlaneTaskEnds ==
  \A t \in Tasks :
    (\E p \in DOMAIN tasks : p[1] = t) ~>
      (\A p \in DOMAIN tasks : p[1] = t /\ Len(p) = 2 => tasks[p].pc = "done")
=============================================================================
