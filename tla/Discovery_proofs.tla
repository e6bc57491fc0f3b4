-------------------------- MODULE Discovery_proofs --------------------------
(***************************************************************************)
(* Safety of discovery (module Discovery) for any tree of nodes, any       *)
(* capabilities, requirements and tasks, and any number of registrations.  *)
(***************************************************************************)
EXTENDS Discovery, TLAPS, SequenceTheorems

(* The capabilities for which a cache lists a node. *)
Listed(cache, m) == {c \in DOMAIN cache : m \in cache[c]}

(* What a cache lists a node for is part of one registration of that node. *)
Backed(r) ==
  \A m \in Nodes : Listed(neiCaps[r], m) # {} =>
    \E old \in registered[r] : old[1] = m /\ Listed(neiCaps[r], m) \subseteq old[2]

(* Who is in the cache of a node has a record there, or is the node.       *)
Recorded(r) == \A c \in DOMAIN neiCaps[r] : neiCaps[r][c] \subseteq Neighbors[r] \cup {r}

MeetsAt(r, m, req) == r \in Nodes /\ Meets(r, m, req)

(* A node selected by the exclusive capabilities, if there are any. *)
CandidateAt(r, m, req) == r \in Nodes /\ (req.exclusive = {} \/ MeetsExclusive(r, m, req))

(* The hops a copy has left, one less when it has been passed on.          *)
Hops(p, copy) ==
  \E ttl \in TTLs :
    Len(p) + copy.ttl <= ttl + 2 /\ (copy.todo # {} => Len(p) + copy.ttl <= ttl + 1)

(* What a copy of a control plane task relies on at each stage.            *)
CopyInv(p, copy) ==
  LET r == Registry[NodeOf(p)] IN
  /\ copy \in
       [req : Requirements, opt : Options, ttl : Nat,
        pc : {"discover", "select", "collect", "lookup", "answer", "dispatch", "done"},
        keys : SUBSET Nodes, list : SUBSET Nodes, todo : SUBSET Nodes, waiting : SUBSET Nodes]
  /\ Hops(p, copy)
  /\ copy.pc \in {"select", "collect", "lookup", "answer"} => copy.ttl > 0
  /\ \A m \in copy.keys : IF copy.pc = "collect" THEN CandidateAt(r, m, copy.req) ELSE MeetsAt(r, m, copy.req)
  /\ \A m \in copy.list \cup copy.todo : MeetsAt(r, m, copy.req)
  /\ copy.pc \in {"collect", "lookup"} => r \in Nodes
  /\ copy.pc = "lookup" => copy.keys \subseteq Neighbors[r] \cup {r}
  /\ copy.pc = "answer" => copy.keys \ copy.list \subseteq {r}

Way == {p \in Seq(Tasks \cup Nodes) : Len(p) >= 2 /\ NodeOf(p) \in Nodes}

StateType ==
  /\ config \in [Nodes -> [caps : SUBSET Caps, addressed : BOOLEAN]]
  /\ beat \in [Nodes -> [Kinds -> [sending : BOOLEAN, caps : SUBSET Caps]]]
  /\ changes \in 0 .. MaxChanges

CacheInv ==
  /\ subCaps \in [Nodes -> CacheType] /\ neiCaps \in [Nodes -> CacheType]
  /\ Subnodes \in [Nodes -> SUBSET Nodes] /\ Neighbors \in [Nodes -> SUBSET Nodes]
  /\ registered \in [Nodes -> SUBSET (Nodes \X SUBSET Caps)]
  /\ \A r \in Nodes : Backed(r) /\ Recorded(r)

RoutineInv ==
  /\ routine \in [Nodes -> [checking : Nat, starting : Nat, started : BOOLEAN, running : Nat]]
  /\ \A n \in Nodes : routine[n].started => routine[n].running > 0
  /\ QueueRoutineRuns

EligibleInv ==
  /\ DOMAIN eligible = Nodes
  /\ \A n \in Nodes : \A req \in DOMAIN eligible[n] :
       /\ req \in Requirements /\ eligible[n][req] \subseteq Nodes
       /\ \A m \in eligible[n][req] : MeetsAt(Registry[n], m, req)

TaskInv == \A p \in DOMAIN tasks : p \in Way /\ CopyInv(p, tasks[p])

Inv == StateType /\ CacheInv /\ RoutineInv /\ EligibleInv /\ TaskInv
-----------------------------------------------------------------------------
LEMMA CacheTypes ==
  ASSUME NEW cache
  PROVE  cache \in CacheType <=>
           /\ cache = [c \in DOMAIN cache |-> cache[c]]
           /\ DOMAIN cache \subseteq Caps
           /\ \A c \in DOMAIN cache : cache[c] \subseteq Nodes
  BY DEF CacheType

(* Set lists a node for what it registers, except that registering nothing *)
(* changes nothing; other nodes are not touched.                           *)
LEMMA SetEffect ==
  ASSUME NEW cache \in CacheType, NEW n \in Nodes, NEW caps \in SUBSET Caps
  PROVE  /\ Set(cache, n, caps) \in CacheType
         /\ \A m \in Nodes : m # n => Listed(Set(cache, n, caps), m) = Listed(cache, m)
         /\ \/ Listed(Set(cache, n, caps), n) = caps
            \/ Listed(Set(cache, n, caps), n) = Listed(cache, n)
         /\ \A U : (\A c \in DOMAIN cache : cache[c] \subseteq U) =>
              \A c \in DOMAIN Set(cache, n, caps) : Set(cache, n, caps)[c] \subseteq U \cup {n}
<1>1. CASE caps = {}
  BY <1>1 DEF Set
<1>2. CASE caps # {}
  <2>. DEFINE D == DOMAIN cache \cup caps
              S == [c \in D |-> ((IF c \in DOMAIN cache THEN cache[c] ELSE {}) \ {n})
                                  \cup (IF c \in caps THEN {n} ELSE {})]
  <2>1. Set(cache, n, caps) = S
    BY <1>2 DEF Set
  <2>2. DOMAIN cache \subseteq Caps /\ \A c \in DOMAIN cache : cache[c] \subseteq Nodes
    BY CacheTypes
  <2>3. DOMAIN S = D /\ S = [c \in DOMAIN S |-> S[c]]
    OBVIOUS
  <2>4. \A c \in D : S[c] = ((IF c \in DOMAIN cache THEN cache[c] ELSE {}) \ {n})
                               \cup (IF c \in caps THEN {n} ELSE {})
    OBVIOUS
  <2>. HIDE DEF S
  <2>5. S \in CacheType
    BY <2>2, <2>3, <2>4, CacheTypes
  <2>6. \A m \in Nodes : m # n => Listed(S, m) = Listed(cache, m)
    BY <2>3, <2>4 DEF Listed
  <2>7. Listed(S, n) = caps
    BY <2>3, <2>4 DEF Listed
  <2>8. ASSUME NEW U, \A c \in DOMAIN cache : cache[c] \subseteq U
        PROVE  \A c \in DOMAIN S : S[c] \subseteq U \cup {n}
    BY <2>3, <2>4, <2>8
  <2>. QED
    BY <2>1, <2>5, <2>6, <2>7, <2>8
<1>. QED
  BY <1>1, <1>2

LEMMA DeleteEffect ==
  ASSUME NEW cache \in CacheType, NEW n \in Nodes
  PROVE  /\ DeleteNode(cache, n) \in CacheType
         /\ \A m \in Nodes : m # n => Listed(DeleteNode(cache, n), m) = Listed(cache, m)
         /\ Listed(DeleteNode(cache, n), n) = {}
         /\ \A U : (\A c \in DOMAIN cache : cache[c] \subseteq U) =>
              \A c \in DOMAIN DeleteNode(cache, n) : DeleteNode(cache, n)[c] \subseteq U
<1>1. DOMAIN cache \subseteq Caps /\ \A c \in DOMAIN cache : cache[c] \subseteq Nodes
  BY CacheTypes
<1>. DEFINE S == [c \in DOMAIN cache |-> cache[c] \ {n}]
<1>2. DeleteNode(cache, n) = S
  BY DEF DeleteNode
<1>3. DOMAIN S = DOMAIN cache /\ S = [c \in DOMAIN S |-> S[c]] /\ \A c \in DOMAIN S : S[c] = cache[c] \ {n}
  OBVIOUS
<1>. HIDE DEF S
<1>4. S \in CacheType
  BY <1>1, <1>3, CacheTypes
<1>5. (\A m \in Nodes : m # n => Listed(S, m) = Listed(cache, m)) /\ Listed(S, n) = {}
  BY <1>3 DEF Listed
<1>. QED
  BY <1>2, <1>3, <1>4, <1>5

(* A node selected is listed for what it was selected by. *)
LEMMA CandidateListed ==
  ASSUME NEW cache, NEW req \in Requirements, req.exclusive # {}, NEW m \in Candidates(cache, req)
  PROVE  m \in Nodes /\ req.exclusive \subseteq Listed(cache, m)
  BY DEF Candidates, SelectNodesExclusively, getNodes, Listed

LEMMA CollectedListed ==
  ASSUME NEW cache \in CacheType, NEW caps, NEW filter, NEW m \in SelectNodesCollectively(cache, caps, filter)
  PROVE  /\ m \in Nodes /\ m \in filter
         /\ caps \cap Listed(cache, m) # {}
         /\ \E c \in DOMAIN cache : m \in cache[c]
<1>1. \A c \in DOMAIN cache : cache[c] \subseteq Nodes
  BY CacheTypes
<1>2. PICK c \in caps : c \in DOMAIN cache /\ m \in cache[c] /\ m \in filter
  BY DEF SelectNodesCollectively, getNodes
<1>. QED
  BY <1>1, <1>2 DEF Listed

LEMMA CandidateMeets ==
  ASSUME NEW r \in Nodes, Backed(r), NEW req \in Requirements, NEW m \in Candidates(neiCaps[r], req)
  PROVE  m \in Nodes /\ CandidateAt(r, m, req)
<1>1. CASE req.exclusive = {}
  BY <1>1 DEF Candidates, CandidateAt
<1>2. CASE req.exclusive # {}
  <2>1. m \in Nodes /\ req.exclusive \subseteq Listed(neiCaps[r], m) /\ Listed(neiCaps[r], m) # {}
    BY <1>2, CandidateListed
  <2>2. PICK old \in registered[r] : old[1] = m /\ Listed(neiCaps[r], m) \subseteq old[2]
    BY <2>1 DEF Backed
  <2>. QED
    BY <2>1, <2>2 DEF CandidateAt, MeetsExclusive
<1>. QED
  BY <1>1, <1>2

LEMMA CollectedMeets ==
  ASSUME NEW r \in Nodes, neiCaps[r] \in CacheType, Backed(r), Recorded(r), NEW req \in Requirements, NEW keys,
         \A k \in keys : CandidateAt(r, k, req),
         NEW m \in SelectNodesCollectively(neiCaps[r], req.collective, keys)
  PROVE  m \in Nodes /\ MeetsAt(r, m, req) /\ m \in Neighbors[r] \cup {r}
<1>1. /\ m \in Nodes /\ m \in keys
      /\ req.collective \cap Listed(neiCaps[r], m) # {}
      /\ \E c \in DOMAIN neiCaps[r] : m \in neiCaps[r][c]
  BY CollectedListed
<1>2. PICK old \in registered[r] : old[1] = m /\ Listed(neiCaps[r], m) \subseteq old[2]
  BY <1>1 DEF Backed
<1>3. MeetsCollective(r, m, req) /\ CandidateAt(r, m, req)
  BY <1>1, <1>2 DEF MeetsCollective
<1>4. MeetsExclusive(r, m, req)
  BY <1>2, <1>3 DEF CandidateAt, MeetsExclusive
<1>. QED
  BY <1>1, <1>3, <1>4 DEF MeetsAt, Meets, Recorded
-----------------------------------------------------------------------------
(* What only grows. *)
Grows ==
  \A r \in Nodes : registered[r] \subseteq registered'[r] /\ Neighbors[r] \subseteq Neighbors'[r]

LEMMA MeetsGrows ==
  ASSUME Grows, NEW r, NEW m, NEW req, MeetsAt(r, m, req)
  PROVE  MeetsAt(r, m, req)'
  BY DEF Grows, MeetsAt, Meets, MeetsExclusive, MeetsCollective

LEMMA CandidateGrows ==
  ASSUME Grows, NEW r, NEW m, NEW req, CandidateAt(r, m, req)
  PROVE  CandidateAt(r, m, req)'
  BY DEF Grows, CandidateAt, MeetsExclusive

LEMMA CopyGrows ==
  ASSUME Grows, NEW p, NEW copy, CopyInv(p, copy)
  PROVE  CopyInv(p, copy)'
<1>. DEFINE r == Registry[NodeOf(p)]
<1>1. /\ \A m \in copy.keys : IF copy.pc = "collect" THEN CandidateAt(r, m, copy.req)' ELSE MeetsAt(r, m, copy.req)'
      /\ \A m \in copy.list \cup copy.todo : MeetsAt(r, m, copy.req)'
  BY MeetsGrows, CandidateGrows DEF CopyInv
<1>2. copy.pc = "lookup" => copy.keys \subseteq Neighbors'[r] \cup {r}
  BY DEF CopyInv, Grows
<1>. QED
  BY <1>1, <1>2 DEF CopyInv

LEMMA TasksGrow ==
  ASSUME Grows, TaskInv, UNCHANGED tasks
  PROVE  TaskInv'
<1>1. ASSUME NEW p \in DOMAIN tasks, NEW copy, copy = tasks[p]
      PROVE  p \in Way /\ CopyInv(p, tasks[p])'
  <2>1. p \in Way /\ CopyInv(p, copy)
    BY <1>1 DEF TaskInv
  <2>2. CopyInv(p, copy)'
    BY <2>1, CopyGrows
  <2>3. tasks'[p] = copy
    BY <1>1
  <2>. QED
    BY <2>1, <2>2, <2>3 DEF CopyInv, Hops, MeetsAt, CandidateAt, Meets, MeetsExclusive, MeetsCollective
<1>. QED
  BY <1>1 DEF TaskInv

LEMMA EligibleGrows ==
  ASSUME Grows, EligibleInv, UNCHANGED eligible
  PROVE  EligibleInv'
  BY MeetsGrows DEF EligibleInv
-----------------------------------------------------------------------------
(* The steps of a copy: only its own record changes. *)
LEMMA CopyStays ==
  ASSUME NEW p, NEW copy, CopyInv(p, copy), UNCHANGED registryVars
  PROVE  CopyInv(p, copy)'
  BY CopyGrows DEF Grows, registryVars

LEMMA StepKeeps ==
  ASSUME TaskInv, NEW p \in DOMAIN tasks, NEW copy, CopyInv(p, copy),
         tasks' = [tasks EXCEPT ![p] = copy], UNCHANGED registryVars
  PROVE  TaskInv'
<1>1. ASSUME NEW q \in DOMAIN tasks, NEW new, new = tasks'[q]
      PROVE  q \in Way /\ CopyInv(q, tasks[q])'
  <2>1. q \in Way /\ CopyInv(q, new)
    BY <1>1 DEF TaskInv
  <2>2. CopyInv(q, new)'
    BY <2>1, CopyStays
  <2>. QED
    BY <1>1, <2>1, <2>2 DEF CopyInv, Hops, MeetsAt, CandidateAt, Meets, MeetsExclusive, MeetsCollective
<1>. QED
  BY <1>1 DEF TaskInv

(* A copy that comes in. *)
LEMMA PutKeeps ==
  ASSUME TaskInv, NEW p \in Way, NEW copy, CopyInv(p, copy),
         tasks' = Put(tasks, p, copy), UNCHANGED registryVars
  PROVE  TaskInv'
<1>1. ASSUME NEW q \in DOMAIN tasks \cup {p}, NEW new, new = tasks'[q]
      PROVE  q \in Way /\ CopyInv(q, tasks[q])'
  <2>1. q \in Way /\ CopyInv(q, new)
    BY <1>1 DEF TaskInv, Put
  <2>2. CopyInv(q, new)'
    BY <2>1, CopyStays
  <2>. QED
    BY <1>1, <2>1, <2>2 DEF CopyInv, Hops, MeetsAt, CandidateAt, Meets, MeetsExclusive, MeetsCollective
<1>. QED
  BY <1>1 DEF TaskInv, Put

LEMMA StepUntouched ==
  ASSUME StateType, CacheInv, RoutineInv, UNCHANGED <<config, registryVars, beat, routine, changes>>
  PROVE  StateType' /\ CacheInv' /\ RoutineInv'
<1>. USE DEF registryVars
<1>1. StateType'
  BY DEF StateType
<1>2. CacheInv'
  BY DEF CacheInv, Backed, Recorded
<1>3. RoutineInv'
  BY DEF RoutineInv, QueueRoutineRuns
<1>. QED
  BY <1>1, <1>2, <1>3

(* A copy's step that leaves the cache of eligible neighbors alone. *)
LEMMA PlainStep ==
  ASSUME Inv, NEW p \in DOMAIN tasks, NEW copy, CopyInv(p, copy), Step(p, copy), eligible' = eligible
  PROVE  Inv'
<1>1. StateType' /\ CacheInv' /\ RoutineInv'
  BY StepUntouched DEF Inv, Step
<1>2. Grows
  BY DEF Grows, Step, registryVars
<1>3. EligibleInv'
  BY <1>2, EligibleGrows DEF Inv
<1>4. TaskInv'
  BY StepKeeps DEF Inv, Step
<1>. QED
  BY <1>1, <1>3, <1>4 DEF Inv

LEMMA DoneKeeps ==
  ASSUME NEW p, NEW copy, CopyInv(p, copy)
  PROVE  CopyInv(p, Done(copy))
  BY DEF CopyInv, Done, Hops

(* Passing a task on uses up a hop. *)
LEMMA DispatchKeeps ==
  ASSUME NEW p \in Way, NEW copy, CopyInv(p, copy), copy.ttl > 0, NEW list \in SUBSET Nodes,
         \A m \in list : MeetsAt(Registry[NodeOf(p)], m, copy.req)
  PROVE  CopyInv(p, Dispatch(copy, list))
<1>1. CASE list = {}
  BY <1>1, DoneKeeps DEF Dispatch
<1>2. CASE list # {}
  <2>. DEFINE new == [copy EXCEPT !.pc = "dispatch", !.keys = {}, !.list = {}, !.ttl = @ - 1, !.todo = list]
  <2>1. Dispatch(copy, list) = new
    BY <1>2 DEF Dispatch
  <2>2. /\ new.req = copy.req /\ new.pc = "dispatch" /\ new.keys = {} /\ new.list = {}
        /\ new.ttl = copy.ttl - 1 /\ new.todo = list
    BY DEF CopyInv
  <2>3. new.ttl \in Nat /\ Len(p) \in Nat
    BY <2>2 DEF CopyInv, Way
  <2>4. new \in
       [req : Requirements, opt : Options, ttl : Nat,
        pc : {"discover", "select", "collect", "lookup", "answer", "dispatch", "done"},
        keys : SUBSET Nodes, list : SUBSET Nodes, todo : SUBSET Nodes, waiting : SUBSET Nodes]
    BY <2>3 DEF CopyInv
  <2>5. Hops(p, new)
    <3>1. PICK ttl \in TTLs : Len(p) + copy.ttl <= ttl + 2
      BY DEF CopyInv, Hops
    <3>2. ttl \in Nat /\ copy.ttl \in Nat
      BY DiscoveryAssumption DEF CopyInv
    <3>3. Len(p) + new.ttl <= ttl + 1 /\ Len(p) + new.ttl <= ttl + 2
      BY <2>2, <2>3, <3>1, <3>2
    <3>. QED
      BY <3>3 DEF Hops
  <2>. HIDE DEF new
  <2>6. CopyInv(p, new)
    BY <2>2, <2>4, <2>5 DEF CopyInv
  <2>. QED
    BY <2>1, <2>6
<1>. QED
  BY <1>1, <1>2
-----------------------------------------------------------------------------
(* One lemma per action. *)
LEMMA DiscoverStep ==
  ASSUME Inv, NEW p \in DOMAIN tasks, discoverNeighbors(p)
  PROVE  Inv'
<1>. DEFINE n == NodeOf(p)
            cached == IF tasks[p].opt.overwrite THEN {} ELSE Cached(n, tasks[p].req)
            selecting == [tasks[p] EXCEPT !.pc = "select"]
<1>1. p \in Way /\ CopyInv(p, tasks[p]) /\ n \in Nodes
  BY DEF Inv, TaskInv, Way
<1>2. cached \in SUBSET Nodes /\ \A m \in cached : MeetsAt(Registry[n], m, tasks[p].req)
  BY <1>1 DEF Inv, EligibleInv, Cached
<1>3. eligible' = eligible /\ tasks[p].pc = "discover"
  BY DEF discoverNeighbors
<1>. HIDE DEF cached
<1>4. CASE tasks[p].ttl = 0
  <2>1. Step(p, Done(tasks[p]))
    BY <1>4 DEF discoverNeighbors
  <2>2. CopyInv(p, Done(tasks[p]))
    BY <1>1, DoneKeeps
  <2>. QED
    BY <1>3, <2>1, <2>2, PlainStep
<1>5. CASE tasks[p].ttl # 0
  <2>1. tasks[p].ttl > 0
    BY <1>1, <1>5 DEF CopyInv
  <2>2. CASE cached # {}
    <3>1. Step(p, Dispatch(tasks[p], cached))
      BY <1>5, <2>2 DEF discoverNeighbors, cached
    <3>2. CopyInv(p, Dispatch(tasks[p], cached))
      BY <1>1, <1>2, <2>1, DispatchKeeps
    <3>. QED
      BY <1>3, <3>1, <3>2, PlainStep
  <2>3. CASE cached = {}
    <3>1. Step(p, selecting)
      BY <1>5, <2>3 DEF discoverNeighbors, cached
    <3>2. CopyInv(p, selecting)
      BY <1>1, <1>3, <2>1 DEF CopyInv, Hops
    <3>. QED
      BY <1>3, <3>1, <3>2, PlainStep
  <2>. QED
    BY <2>2, <2>3
<1>. QED
  BY <1>4, <1>5

LEMMA SelectStep ==
  ASSUME Inv, NEW p \in DOMAIN tasks, SelectAtRegistry(p)
  PROVE  Inv'
<1>. DEFINE r == Registry[NodeOf(p)]
            selected == Candidates(neiCaps[r], tasks[p].req)
            new == [tasks[p] EXCEPT !.pc = "collect", !.keys = selected]
<1>1. p \in Way /\ CopyInv(p, tasks[p]) /\ r \in Nodes /\ tasks[p].req \in Requirements
  BY DiscoveryAssumption DEF Inv, TaskInv, Way, CopyInv, SelectAtRegistry
<1>2. Backed(r)
  BY <1>1 DEF Inv, CacheInv
<1>3. \A m \in selected : m \in Nodes /\ CandidateAt(r, m, tasks[p].req)
  BY <1>1, <1>2, CandidateMeets
<1>4. tasks[p].pc = "select" /\ eligible' = eligible /\ Step(p, new)
  BY DEF SelectAtRegistry
<1>. HIDE DEF selected
<1>5. CopyInv(p, new)
  BY <1>1, <1>3, <1>4 DEF CopyInv, Hops
<1>. QED
  BY <1>4, <1>5, PlainStep

LEMMA CollectStep ==
  ASSUME Inv, NEW p \in DOMAIN tasks, CollectAtRegistry(p)
  PROVE  Inv'
<1>. DEFINE r == Registry[NodeOf(p)]
            selected == SelectNodesCollectively(neiCaps[r], tasks[p].req.collective, tasks[p].keys)
            new == [tasks[p] EXCEPT !.pc = "lookup", !.keys = selected]
<1>1. /\ p \in Way /\ CopyInv(p, tasks[p]) /\ tasks[p].req \in Requirements
      /\ tasks[p].pc = "collect" /\ eligible' = eligible /\ Step(p, new)
  BY DEF Inv, TaskInv, CopyInv, CollectAtRegistry
<1>2. \A m \in tasks[p].keys : CandidateAt(r, m, tasks[p].req)
  BY <1>1 DEF CopyInv
<1>4. r \in Nodes
  BY <1>1 DEF CopyInv
<1>5. neiCaps[r] \in CacheType /\ Backed(r) /\ Recorded(r)
  BY <1>4 DEF Inv, CacheInv
<1>6. \A m \in selected : m \in Nodes /\ MeetsAt(r, m, tasks[p].req) /\ m \in Neighbors[r] \cup {r}
  BY <1>1, <1>2, <1>4, <1>5, CollectedMeets
<1>. HIDE DEF selected
<1>7. CopyInv(p, new)
  BY <1>1, <1>4, <1>6 DEF CopyInv, Hops
<1>. QED
  BY <1>1, <1>7, PlainStep

LEMMA FetchStep ==
  ASSUME Inv, NEW p \in DOMAIN tasks, FetchFails(p)
  PROVE  Inv'
<1>1. CopyInv(p, Done(tasks[p]))
  BY DoneKeeps DEF Inv, TaskInv
<1>. QED
  BY <1>1, PlainStep DEF FetchFails

LEMMA LookUpStep ==
  ASSUME Inv, NEW p \in DOMAIN tasks, LookUpNodes(p)
  PROVE  Inv'
<1>. DEFINE r == Registry[NodeOf(p)]
            found == {k \in tasks[p].keys : k \in Neighbors[r] \/ (k = r /\ config[r].addressed)}
            new == [tasks[p] EXCEPT !.pc = "answer", !.list = found]
<1>1. CopyInv(p, tasks[p]) /\ tasks[p].pc = "lookup" /\ eligible' = eligible /\ Step(p, new)
  BY DEF Inv, TaskInv, LookUpNodes
<1>2. found \subseteq tasks[p].keys /\ tasks[p].keys \ found \subseteq {r}
  BY <1>1 DEF CopyInv
<1>. HIDE DEF found
<1>3. CopyInv(p, new)
  BY <1>1, <1>2 DEF CopyInv, Hops
<1>. QED
  BY <1>1, <1>3, PlainStep

LEMMA StoreStep ==
  ASSUME Inv, NEW p \in DOMAIN tasks, StoreEligibleNeighbors(p)
  PROVE  Inv'
<1>. DEFINE n == NodeOf(p)
            copy == tasks[p]
<1>1. p \in Way /\ CopyInv(p, copy) /\ n \in Nodes /\ copy.pc = "answer"
  BY DEF Inv, TaskInv, Way, StoreEligibleNeighbors
<1>2. /\ copy.list \in SUBSET Nodes /\ copy.ttl > 0 /\ copy.req \in Requirements
      /\ \A m \in copy.list : MeetsAt(Registry[n], m, copy.req)
  BY <1>1 DEF CopyInv
<1>3. /\ eligible' = [eligible EXCEPT ![n] = Put(@, copy.req, copy.list)]
      /\ Step(p, Dispatch(copy, copy.list))
  BY DEF StoreEligibleNeighbors
<1>4. StateType' /\ CacheInv' /\ RoutineInv'
  BY <1>3, StepUntouched DEF Inv, Step
<1>5. EligibleInv'
  <2>1. \A r, m, req : MeetsAt(r, m, req)' <=> MeetsAt(r, m, req)
    BY <1>3 DEF Step, registryVars, MeetsAt, Meets, MeetsExclusive, MeetsCollective
  <2>2. DOMAIN eligible' = Nodes
    BY <1>3 DEF Inv, EligibleInv
  <2>3. ASSUME NEW k \in Nodes, NEW req \in DOMAIN eligible'[k]
        PROVE  /\ req \in Requirements /\ eligible'[k][req] \subseteq Nodes
               /\ \A m \in eligible'[k][req] : MeetsAt(Registry[k], m, req)
    <3>1. CASE k = n /\ req = copy.req
      BY <1>1, <1>2, <1>3, <3>1 DEF Put, Inv, EligibleInv
    <3>2. CASE ~ (k = n /\ req = copy.req)
      <4>1. req \in DOMAIN eligible[k] /\ eligible'[k][req] = eligible[k][req]
        BY <1>1, <1>3, <2>3, <3>2 DEF Put, Inv, EligibleInv
      <4>. QED
        BY <4>1 DEF Inv, EligibleInv
    <3>. QED
      BY <3>1, <3>2
  <2>. QED
    BY <2>1, <2>2, <2>3 DEF EligibleInv
<1>6. CopyInv(p, Dispatch(copy, copy.list))
  BY <1>1, <1>2, DispatchKeeps
<1>7. TaskInv'
  BY <1>3, <1>6, StepKeeps DEF Inv, Step
<1>. QED
  BY <1>4, <1>5, <1>7 DEF Inv

LEMMA AppendWay ==
  ASSUME NEW p \in Way, NEW m \in Nodes
  PROVE  Append(p, m) \in Way /\ Len(Append(p, m)) = Len(p) + 1 /\ NodeOf(Append(p, m)) = m
<1>1. p \in Seq(Tasks \cup Nodes) /\ Len(p) >= 2 /\ m \in Tasks \cup Nodes
  BY DEF Way
<1>. DEFINE q == Append(p, m)
<1>2. q \in Seq(Tasks \cup Nodes) /\ Len(q) = Len(p) + 1 /\ q[Len(p) + 1] = m
  BY <1>1
<1>. HIDE DEF q
<1>3. NodeOf(q) = m
  BY <1>2 DEF NodeOf
<1>4. Len(p) \in Nat
  BY <1>1
<1>. QED
  BY <1>1, <1>2, <1>3, <1>4 DEF Way, q

(* The neighbor's copy has one hop less to go, or the same TTL is one hop further. *)
LEMMA SendStep ==
  ASSUME Inv, NEW p \in DOMAIN tasks, NEW m \in tasks[p].todo, NEW arrives \in BOOLEAN,
         dispatchNeighborTask(p, m, arrives)
  PROVE  Inv'
<1>. DEFINE copy == tasks[p]
            rest == [copy EXCEPT !.todo = @ \ {m}, !.waiting = IF arrives THEN @ \cup {m} ELSE @]
            sent == [tasks EXCEPT ![p] = rest]
            new == Copy(copy.req, copy.opt, copy.ttl)
            q == Append(p, m)
<1>1. p \in Way /\ CopyInv(p, copy)
  BY DEF Inv, TaskInv
<1>2. m \in Nodes /\ copy.req \in Requirements /\ copy.opt \in Options /\ copy.ttl \in Nat
  BY <1>1 DEF CopyInv
<1>3. q \in Way /\ Len(q) = Len(p) + 1 /\ Len(p) \in Nat
  BY <1>1, <1>2, AppendWay DEF Way
<1>4. CopyInv(p, rest)
  BY <1>1, <1>2 DEF CopyInv, Hops
<1>5. CopyInv(q, new)
  <2>. DEFINE t == copy.ttl
  <2>1. PICK ttl \in TTLs : Len(p) + t <= ttl + 1
    BY <1>1 DEF CopyInv, Hops
  <2>2. Len(q) + t <= ttl + 2 /\ t \in Nat
    BY <1>2, <1>3, <2>1, DiscoveryAssumption
  <2>3. new = [req |-> copy.req, opt |-> copy.opt, ttl |-> t, pc |-> "discover",
               keys |-> {}, list |-> {}, todo |-> {}, waiting |-> {}]
    BY DEF Copy
  <2>4. Hops(q, new)
    BY <2>2, <2>3 DEF Hops
  <2>. HIDE DEF new, q
  <2>. QED
    BY <1>2, <2>3, <2>4 DEF CopyInv
<1>6. /\ tasks' = IF arrives THEN Put(sent, q, new) ELSE sent
      /\ UNCHANGED <<config, registryVars, beat, routine, eligible, changes>>
  <2>1. sent = [tasks EXCEPT ![p].todo = @ \ {m}, ![p].waiting = IF arrives THEN @ \cup {m} ELSE @]
    OBVIOUS
  <2>. QED
    BY <2>1 DEF dispatchNeighborTask
<1>7. StateType' /\ CacheInv' /\ RoutineInv'
  BY <1>6, StepUntouched DEF Inv
<1>8. EligibleInv'
  BY <1>6, EligibleGrows DEF Inv, Grows, registryVars
<1>. HIDE DEF rest, new, q
<1>9. TaskInv'
  <2>1. ASSUME NEW s \in DOMAIN tasks', NEW c, c = tasks'[s]
        PROVE  s \in Way /\ CopyInv(s, tasks[s])'
    <3>1. s \in Way /\ CopyInv(s, c)
      <4>1. CASE arrives /\ s = q
        BY <1>3, <1>5, <1>6, <2>1, <4>1 DEF Put
      <4>2. CASE ~ (arrives /\ s = q)
        <5>1. s \in DOMAIN tasks /\ c = sent[s]
          BY <1>6, <2>1, <4>2 DEF Put
        <5>. QED
          BY <1>1, <1>4, <5>1 DEF Inv, TaskInv
      <4>. QED
        BY <4>1, <4>2
    <3>2. CopyInv(s, c)'
      BY <1>6, <3>1, CopyStays
    <3>. QED
      BY <2>1, <3>1, <3>2 DEF CopyInv, Hops, MeetsAt, CandidateAt, Meets, MeetsExclusive, MeetsCollective
  <2>. QED
    BY <2>1 DEF TaskInv
<1>. QED
  BY <1>7, <1>8, <1>9 DEF Inv

LEMMA NeighborDoneStep ==
  ASSUME Inv, NEW p \in DOMAIN tasks, NEW m \in tasks[p].waiting, NeighborDone(p, m)
  PROVE  Inv'
<1>. DEFINE new == [tasks[p] EXCEPT !.waiting = @ \ {m}]
<1>1. CopyInv(p, new)
  BY DEF Inv, TaskInv, CopyInv, Hops
<1>. QED
  BY <1>1, PlainStep DEF NeighborDone

LEMMA FinishStep ==
  ASSUME Inv, NEW p \in DOMAIN tasks, FinishDispatch(p)
  PROVE  Inv'
<1>1. CopyInv(p, Done(tasks[p]))
  BY DoneKeeps DEF Inv, TaskInv
<1>. QED
  BY <1>1, PlainStep DEF FinishDispatch

LEMMA ReceiveStep ==
  ASSUME Inv, NEW t \in Tasks, NEW n \in Receivers, NEW req \in Requirements, NEW opt \in Options,
         NEW ttl \in TTLs, TaskReceiver(t, n, req, opt, ttl)
  PROVE  Inv'
<1>. DEFINE p == <<t, n>>
<1>1. p \in Way
  BY DiscoveryAssumption DEF Way, NodeOf
<1>2. CopyInv(p, Copy(req, opt, ttl))
  BY DiscoveryAssumption DEF CopyInv, Copy, Hops
<1>3. StateType' /\ CacheInv' /\ RoutineInv'
  BY StepUntouched DEF Inv, TaskReceiver
<1>4. EligibleInv'
  BY EligibleGrows DEF Inv, Grows, registryVars, TaskReceiver
<1>5. TaskInv'
  BY <1>1, <1>2, PutKeeps DEF Inv, TaskReceiver
<1>. QED
  BY <1>3, <1>4, <1>5 DEF Inv
-----------------------------------------------------------------------------
(* The caches under a registration or a changed configuration: m's entry   *)
(* may become empty, or what is registered with this step.                 *)
CacheStep(u, n, caps, cache) ==
  /\ cache \in CacheType
  /\ \A m \in Nodes : m # n => Listed(cache, m) = Listed(neiCaps[u], m)
  /\ \/ Listed(cache, n) = {}
     \/ Listed(cache, n) = Listed(neiCaps[u], n)
     \/ Listed(cache, n) = caps /\ <<n, caps>> \in registered'[u]
  /\ \A c \in DOMAIN cache : cache[c] \subseteq Neighbors'[u] \cup {u}
  /\ neiCaps' = [neiCaps EXCEPT ![u] = cache]
  /\ subCaps' \in [Nodes -> CacheType]
  /\ Subnodes' \in [Nodes -> SUBSET Nodes] /\ Neighbors' \in [Nodes -> SUBSET Nodes]
  /\ registered' \in [Nodes -> SUBSET (Nodes \X SUBSET Caps)]

LEMMA CacheUpdate ==
  ASSUME CacheInv, Grows, NEW u \in Nodes, NEW n \in Nodes, NEW caps \in SUBSET Caps,
         NEW cache, CacheStep(u, n, caps, cache)
  PROVE  CacheInv'
<1>. USE DEF CacheStep
<1>1. neiCaps' \in [Nodes -> CacheType] /\ neiCaps'[u] = cache
  BY DEF CacheInv
<1>2. ASSUME NEW r \in Nodes
      PROVE  Backed(r)'
  <2>. SUFFICES ASSUME NEW m \in Nodes, Listed(neiCaps'[r], m) # {}
                PROVE  \E old \in registered'[r] : old[1] = m /\ Listed(neiCaps'[r], m) \subseteq old[2]
    BY DEF Backed, Listed
  <2>1. CASE Listed(neiCaps'[r], m) = Listed(neiCaps[r], m)
    <3>1. PICK old \in registered[r] : old[1] = m /\ Listed(neiCaps[r], m) \subseteq old[2]
      BY <2>1 DEF CacheInv, Backed
    <3>. QED
      BY <2>1, <3>1 DEF Grows
  <2>2. CASE Listed(neiCaps'[r], m) # Listed(neiCaps[r], m)
    <3>1. r = u
      BY <2>2 DEF CacheInv
    <3>2. m = n
      BY <1>1, <2>2, <3>1
    <3>3. Listed(cache, n) = caps /\ <<n, caps>> \in registered'[u]
      BY <1>1, <2>2, <3>1, <3>2
    <3>. QED
      BY <1>1, <3>1, <3>2, <3>3
  <2>. QED
    BY <2>1, <2>2
<1>3. ASSUME NEW r \in Nodes
      PROVE  Recorded(r)'
  <2>1. CASE r = u
    BY <1>1, <2>1 DEF Recorded
  <2>2. CASE r # u
    <3>1. neiCaps'[r] = neiCaps[r]
      BY <2>2 DEF CacheInv
    <3>. QED
      BY <3>1 DEF CacheInv, Recorded, Grows
  <2>. QED
    BY <2>1, <2>2
<1>. QED
  BY <1>1, <1>2, <1>3 DEF CacheInv

LEMMA RegisterKeeps ==
  ASSUME CacheInv, NEW u \in Nodes, NEW n \in Nodes, NEW kind \in Kinds, NEW caps \in SUBSET Caps,
         registerNode(u, n, kind, caps)
  PROVE  CacheInv' /\ Grows /\ \A k \in Nodes : k # u \/ kind = "registry" => Subnodes'[k] = Subnodes[k]
<1>1. CASE kind = "upper"
  <2>1. /\ Subnodes' = [Subnodes EXCEPT ![u] = @ \cup {n}]
        /\ subCaps' = [subCaps EXCEPT ![u] = Set(@, n, caps)]
        /\ UNCHANGED <<Neighbors, neiCaps, registered>>
    BY <1>1 DEF registerNode
  <2>2. Set(subCaps[u], n, caps) \in CacheType
    BY SetEffect DEF CacheInv
  <2>3. subCaps' \in [Nodes -> CacheType] /\ Subnodes' \in [Nodes -> SUBSET Nodes]
    BY <2>1, <2>2 DEF CacheInv
  <2>. QED
    BY <1>1, <2>1, <2>3 DEF CacheInv, Backed, Recorded, Grows
<1>2. CASE kind = "registry"
  <2>. DEFINE cache == Set(neiCaps[u], n, caps)
  <2>1. /\ Neighbors' = [Neighbors EXCEPT ![u] = @ \cup {n}]
        /\ neiCaps' = [neiCaps EXCEPT ![u] = cache]
        /\ registered' = [registered EXCEPT ![u] = @ \cup {<<n, caps>>}]
        /\ UNCHANGED <<Subnodes, subCaps>>
    BY <1>2 DEF registerNode
  <2>2. neiCaps[u] \in CacheType /\ Recorded(u)
    BY DEF CacheInv
  <2>3. /\ cache \in CacheType
        /\ \A m \in Nodes : m # n => Listed(cache, m) = Listed(neiCaps[u], m)
        /\ Listed(cache, n) = caps \/ Listed(cache, n) = Listed(neiCaps[u], n)
        /\ \A U : (\A c \in DOMAIN neiCaps[u] : neiCaps[u][c] \subseteq U) =>
             \A c \in DOMAIN cache : cache[c] \subseteq U \cup {n}
    BY <2>2, SetEffect
  <2>. HIDE DEF cache
  <2>4. \A c \in DOMAIN cache : cache[c] \subseteq (Neighbors[u] \cup {u}) \cup {n}
    BY <2>2, <2>3 DEF Recorded
  <2>5. /\ Neighbors' \in [Nodes -> SUBSET Nodes] /\ Neighbors'[u] = Neighbors[u] \cup {n}
        /\ registered' \in [Nodes -> SUBSET (Nodes \X SUBSET Caps)] /\ <<n, caps>> \in registered'[u]
        /\ Grows
    BY <2>1 DEF CacheInv, Grows
  <2>6. \A c \in DOMAIN cache : cache[c] \subseteq Neighbors'[u] \cup {u}
    BY <2>4, <2>5
  <2>7. CacheInv'
    <3>1. subCaps' \in [Nodes -> CacheType] /\ Subnodes' \in [Nodes -> SUBSET Nodes]
      BY <2>1 DEF CacheInv
    <3>2. CacheStep(u, n, caps, cache)
      BY <2>1, <2>3, <2>5, <2>6, <3>1 DEF CacheStep
    <3>. QED
      BY <2>5, <3>2, CacheUpdate
  <2>. QED
    BY <2>1, <2>5, <2>7
<1>. QED
  BY <1>1, <1>2 DEF Kinds

LEMMA RegisterToStep ==
  ASSUME Inv, NEW n \in Nodes, NEW kind \in Kinds, RegisterToNode(n, kind)
  PROVE  Inv'
<1>1. GetAllCapabilities(subCaps[n]) \in SUBSET Caps
  BY CacheTypes DEF Inv, CacheInv, GetAllCapabilities
<1>2. StateType'
  BY <1>1 DEF Inv, StateType, RegisterToNode
<1>3. CacheInv' /\ RoutineInv' /\ Grows
  BY DEF Inv, CacheInv, Backed, Recorded, RoutineInv, QueueRoutineRuns, Grows, RegisterToNode, registryVars
<1>4. EligibleInv' /\ TaskInv'
  BY <1>3, EligibleGrows, TasksGrow DEF Inv, RegisterToNode
<1>. QED
  BY <1>2, <1>3, <1>4 DEF Inv

(* A first registration either finds the routine started, and running, or  *)
(* goes on to start it.                                                    *)
LEMMA RegisterStep ==
  ASSUME Inv, NEW n \in Nodes, NEW kind \in Kinds, Target(n, kind) # None, NEW answered \in BOOLEAN,
         RegisterSubnode(n, kind, answered)
  PROVE  Inv'
<1>. DEFINE u == Target(n, kind)
            caps == beat[n][kind].caps
<1>1. u \in Nodes /\ caps \in SUBSET Caps /\ registerNode(u, n, kind, caps)
  BY DiscoveryAssumption DEF Inv, StateType, Target, RegisterSubnode
<1>2. CacheInv' /\ Grows /\ \A k \in Nodes : k # u \/ kind = "registry" => Subnodes'[k] = Subnodes[k]
  BY <1>1, RegisterKeeps DEF Inv
<1>3. UNCHANGED <<config, eligible, tasks, changes>>
      /\ beat' = IF answered THEN [beat EXCEPT ![n][kind] = Idle] ELSE beat
  BY DEF RegisterSubnode
<1>4. StateType'
  BY <1>3 DEF Inv, StateType, Idle
<1>5. RoutineInv'
  <2>1. CASE kind = "registry"
    <3>1. routine' = routine
      BY <2>1 DEF RegisterSubnode
    <3>. QED
      BY <1>2, <2>1, <3>1 DEF Inv, RoutineInv, QueueRoutineRuns
  <2>2. CASE routine[u].started
    <3>1. routine' = routine
      BY <2>2 DEF RegisterSubnode
    <3>2. /\ routine[u].running > 0 /\ routine[u].running \in Nat
          /\ routine[u].checking \in Nat /\ routine[u].starting \in Nat
      BY <1>1, <2>2 DEF Inv, RoutineInv
    <3>3. routine[u].running + routine[u].checking + routine[u].starting > 0
      BY <3>2
    <3>4. QueueRoutineRuns'
      BY <1>2, <3>1, <3>3 DEF Inv, RoutineInv, QueueRoutineRuns
    <3>. QED
      BY <3>1, <3>4 DEF Inv, RoutineInv
  <2>3. CASE kind # "registry" /\ ~ routine[u].started
    <3>1. routine' = [routine EXCEPT ![u].checking = @ + 1]
      BY <2>3 DEF RegisterSubnode
    <3>2. /\ routine[u].running \in Nat /\ routine[u].checking \in Nat /\ routine[u].starting \in Nat
          /\ routine' \in [Nodes -> [checking : Nat, starting : Nat, started : BOOLEAN, running : Nat]]
          /\ \A k \in Nodes : routine'[k].started = routine[k].started /\ routine'[k].running = routine[k].running
      BY <1>1, <3>1 DEF Inv, RoutineInv
    <3>3. /\ routine'[u].running + routine'[u].checking + routine'[u].starting > 0
          /\ \A k \in Nodes : k # u => routine'[k] = routine[k]
      BY <1>1, <3>1, <3>2 DEF Inv, RoutineInv
    <3>4. QueueRoutineRuns'
      BY <1>2, <3>3 DEF Inv, RoutineInv, QueueRoutineRuns
    <3>. QED
      BY <3>2, <3>4 DEF Inv, RoutineInv
  <2>. QED
    BY <2>1, <2>2, <2>3
<1>6. EligibleInv' /\ TaskInv'
  BY <1>2, <1>3, EligibleGrows, TasksGrow DEF Inv
<1>. QED
  BY <1>2, <1>4, <1>5, <1>6 DEF Inv

(* Steps of the queue routine's start. *)
LEMMA RoutineOnly ==
  ASSUME Inv, UNCHANGED <<config, registryVars, beat, eligible, tasks, changes>>, RoutineInv'
  PROVE  Inv'
<1>1. StateType' /\ CacheInv' /\ Grows
  BY DEF Inv, StateType, CacheInv, Backed, Recorded, Grows, registryVars
<1>2. EligibleInv' /\ TaskInv'
  BY <1>1, EligibleGrows, TasksGrow DEF Inv
<1>. QED
  BY <1>1, <1>2 DEF Inv

LEMMA CheckStep ==
  ASSUME Inv, NEW u \in Nodes, CheckRoutine(u)
  PROVE  Inv'
<1>1. routine[u].checking > 0
      /\ routine' = [routine EXCEPT ![u].checking = @ - 1, ![u].starting = @ + 1]
  BY DEF CheckRoutine
<1>2. routine[u] \in [checking : Nat, starting : Nat, started : BOOLEAN, running : Nat]
  BY DEF Inv, RoutineInv
<1>3. /\ routine'[u].checking = routine[u].checking - 1 /\ routine'[u].starting = routine[u].starting + 1
      /\ routine'[u].running = routine[u].running /\ routine'[u].started = routine[u].started
      /\ \A k \in Nodes : k # u => routine'[k] = routine[k]
  BY <1>1, <1>2 DEF Inv, RoutineInv
<1>4. routine' \in [Nodes -> [checking : Nat, starting : Nat, started : BOOLEAN, running : Nat]]
  BY <1>1, <1>2 DEF Inv, RoutineInv
<1>5. routine'[u].running + routine'[u].checking + routine'[u].starting > 0
  BY <1>1, <1>2, <1>3
<1>6. RoutineInv'
  BY <1>3, <1>4, <1>5 DEF Inv, RoutineInv, QueueRoutineRuns, CheckRoutine, registryVars
<1>. QED
  BY <1>6, RoutineOnly DEF CheckRoutine

LEMMA StartStep ==
  ASSUME Inv, NEW u \in Nodes, StartRoutine(u)
  PROVE  Inv'
<1>1. routine[u].starting > 0
      /\ routine' = [routine EXCEPT ![u].checking = 0, ![u].starting = @ - 1,
                                    ![u].started = TRUE, ![u].running = @ + 1]
  BY DEF StartRoutine
<1>2. routine[u] \in [checking : Nat, starting : Nat, started : BOOLEAN, running : Nat]
  BY DEF Inv, RoutineInv
<1>3. /\ routine'[u].running = routine[u].running + 1
      /\ routine'[u].checking = 0 /\ routine'[u].starting = routine[u].starting - 1
      /\ \A k \in Nodes : k # u => routine'[k] = routine[k]
  BY <1>1, <1>2 DEF Inv, RoutineInv
<1>4. routine' \in [Nodes -> [checking : Nat, starting : Nat, started : BOOLEAN, running : Nat]]
  BY <1>1, <1>2 DEF Inv, RoutineInv
<1>5. routine'[u].running > 0 /\ routine'[u].running + routine'[u].checking + routine'[u].starting > 0
  BY <1>1, <1>2, <1>3
<1>6. RoutineInv'
  BY <1>3, <1>4, <1>5 DEF Inv, RoutineInv, QueueRoutineRuns, StartRoutine, registryVars
<1>. QED
  BY <1>6, RoutineOnly DEF StartRoutine
-----------------------------------------------------------------------------
LEMMA UpdateStep ==
  ASSUME Inv, NEW n \in Nodes, NEW new \in Configurations, UpdateConfigurations(n, new.caps, new.addressed)
  PROVE  Inv'
<1>. DEFINE caps == new.caps
            addressed == new.addressed
            deleted(cache) == IF config[n].addressed /\ ~ addressed THEN DeleteNode(cache, n) ELSE cache
            update(cache) == IF addressed THEN Set(deleted(cache), n, caps) ELSE deleted(cache)
<1>1. caps \in SUBSET Caps /\ addressed \in BOOLEAN
  BY DiscoveryAssumption
<1>2. /\ changes < MaxChanges /\ changes' = changes + 1
      /\ config' = [config EXCEPT ![n] = [caps |-> caps, addressed |-> addressed]]
      /\ subCaps' = [subCaps EXCEPT ![n] = update(@)]
      /\ neiCaps' = [neiCaps EXCEPT ![n] = update(@)]
      /\ registered' = IF addressed THEN [registered EXCEPT ![n] = @ \cup {<<n, caps>>}] ELSE registered
      /\ UNCHANGED <<Subnodes, Neighbors, beat, routine, eligible, tasks>>
  BY Zenon DEF UpdateConfigurations
<1>3. ASSUME NEW cache \in CacheType
      PROVE  /\ update(cache) \in CacheType
             /\ \A m \in Nodes : m # n => Listed(update(cache), m) = Listed(cache, m)
             /\ \/ Listed(update(cache), n) = {}
                \/ Listed(update(cache), n) = Listed(cache, n)
                \/ addressed /\ Listed(update(cache), n) = caps
             /\ \A U : (\A c \in DOMAIN cache : cache[c] \subseteq U) =>
                  \A c \in DOMAIN update(cache) : update(cache)[c] \subseteq U \cup {n}
  <2>1. CASE addressed
    <3>1. update(cache) = Set(cache, n, caps)
      BY <2>1
    <3>. QED
      BY <1>1, <2>1, <3>1, SetEffect
  <2>2. CASE ~ addressed
    <3>1. CASE config[n].addressed
      <4>1. update(cache) = DeleteNode(cache, n)
        BY <2>2, <3>1
      <4>2. /\ update(cache) \in CacheType
            /\ \A m \in Nodes : m # n => Listed(update(cache), m) = Listed(cache, m)
            /\ Listed(update(cache), n) = {}
            /\ \A U : (\A c \in DOMAIN cache : cache[c] \subseteq U) =>
                 \A c \in DOMAIN update(cache) : update(cache)[c] \subseteq U
        BY <4>1, DeleteEffect
      <4>. HIDE DEF update
      <4>3. ASSUME NEW U, \A c \in DOMAIN cache : cache[c] \subseteq U
            PROVE  \A c \in DOMAIN update(cache) : update(cache)[c] \subseteq U \cup {n}
        <5>1. \A c \in DOMAIN update(cache) : update(cache)[c] \subseteq U
          BY <4>2, <4>3
        <5>. QED
          BY <5>1
      <4>. QED
        BY <4>2, <4>3
    <3>2. CASE ~ config[n].addressed
      <4>1. update(cache) = cache
        BY <2>2, <3>2
      <4>. QED
        BY <4>1
    <3>. QED
      BY <3>1, <3>2
  <2>. QED
    BY <1>1, <2>1, <2>2
<1>. HIDE DEF update, caps, addressed
<1>4. StateType'
  <2>1. changes' \in 0 .. MaxChanges
    BY <1>2, DiscoveryAssumption DEF Inv, StateType
  <2>. QED
    BY <1>1, <1>2, <2>1 DEF Inv, StateType
<1>5. Grows
  BY <1>2 DEF Grows, Inv, CacheInv
<1>6. CacheInv'
  <2>1. subCaps[n] \in CacheType /\ neiCaps[n] \in CacheType /\ Recorded(n)
    BY DEF Inv, CacheInv
  <2>2. update(subCaps[n]) \in CacheType
    BY <1>3, <2>1
  <2>3. subCaps' \in [Nodes -> CacheType]
    BY <1>2, <2>2 DEF Inv, CacheInv
  <2>4. registered' \in [Nodes -> SUBSET (Nodes \X SUBSET Caps)] /\ (addressed => <<n, caps>> \in registered'[n])
    BY <1>1, <1>2 DEF Inv, CacheInv
  <2>5. \A c \in DOMAIN update(neiCaps[n]) : update(neiCaps[n])[c] \subseteq (Neighbors[n] \cup {n}) \cup {n}
    BY <1>3, <2>1 DEF Recorded
  <2>6. \A c \in DOMAIN update(neiCaps[n]) : update(neiCaps[n])[c] \subseteq Neighbors'[n] \cup {n}
    BY <1>2, <2>5
  <2>7. Subnodes' \in [Nodes -> SUBSET Nodes] /\ Neighbors' \in [Nodes -> SUBSET Nodes]
    BY <1>2 DEF Inv, CacheInv
  <2>8. /\ update(neiCaps[n]) \in CacheType
        /\ \A m \in Nodes : m # n => Listed(update(neiCaps[n]), m) = Listed(neiCaps[n], m)
        /\ \/ Listed(update(neiCaps[n]), n) = {}
           \/ Listed(update(neiCaps[n]), n) = Listed(neiCaps[n], n)
           \/ Listed(update(neiCaps[n]), n) = caps /\ <<n, caps>> \in registered'[n]
    BY <1>3, <2>1, <2>4
  <2>9. CacheInv
    BY DEF Inv
  <2>10. neiCaps' = [neiCaps EXCEPT ![n] = update(neiCaps[n])]
    BY <1>2
  <2>11. CacheStep(n, n, caps, update(neiCaps[n]))
    BY <2>3, <2>4, <2>6, <2>7, <2>8, <2>10 DEF CacheStep
  <2>. QED
    BY <1>1, <1>5, <2>9, <2>11, CacheUpdate
<1>7. RoutineInv'
  BY <1>2 DEF Inv, RoutineInv, QueueRoutineRuns
<1>8. EligibleInv' /\ TaskInv'
  BY <1>2, <1>5, EligibleGrows, TasksGrow DEF Inv
<1>. QED
  BY <1>4, <1>6, <1>7, <1>8 DEF Inv

LEMMA CapabilityStep ==
  ASSUME Inv, NEW n \in Nodes, NEW c \in Caps, AddOrDeleteCapability(n, c)
  PROVE  Inv'
<1>1. StateType'
  <2>1. changes' \in 0 .. MaxChanges
    BY DiscoveryAssumption DEF Inv, StateType, AddOrDeleteCapability
  <2>2. config[n].caps \cup {c} \in SUBSET Caps /\ config[n].caps \ {c} \in SUBSET Caps
    BY DEF Inv, StateType
  <2>3. \/ config' = [config EXCEPT ![n].caps = config[n].caps \cup {c}]
        \/ config' = [config EXCEPT ![n].caps = config[n].caps \ {c}]
    BY DEF AddOrDeleteCapability
  <2>4. config' \in [Nodes -> [caps : SUBSET Caps, addressed : BOOLEAN]]
    BY <2>2, <2>3 DEF Inv, StateType
  <2>. QED
    BY <2>1, <2>4 DEF Inv, StateType, AddOrDeleteCapability
<1>2. CacheInv' /\ RoutineInv' /\ Grows
  BY DEF Inv, CacheInv, Backed, Recorded, RoutineInv, QueueRoutineRuns, Grows, AddOrDeleteCapability, registryVars
<1>3. EligibleInv' /\ TaskInv'
  BY <1>2, EligibleGrows, TasksGrow DEF Inv, AddOrDeleteCapability
<1>. QED
  BY <1>1, <1>2, <1>3 DEF Inv
-----------------------------------------------------------------------------
LEMMA InitInv ==
  ASSUME Init
  PROVE  Inv
<1>1. StateType
  BY DiscoveryAssumption DEF Init, StateType, Idle
<1>2. EmptyCache \in CacheType /\ \A m : Listed(EmptyCache, m) = {}
  BY CacheTypes DEF EmptyCache, Listed
<1>3. ASSUME NEW n \in Nodes
      PROVE  /\ OwnCapabilities(n) \in CacheType
             /\ \A m \in Nodes : m # n => Listed(OwnCapabilities(n), m) = {}
             /\ \/ Listed(OwnCapabilities(n), n) = {}
                \/ n \notin Unaddressed /\ Listed(OwnCapabilities(n), n) = InitialCaps[n]
             /\ \A c \in DOMAIN OwnCapabilities(n) : OwnCapabilities(n)[c] \subseteq {n}
  <2>1. CASE n \in Unaddressed
    BY <1>2, <2>1 DEF OwnCapabilities, EmptyCache
  <2>2. CASE n \notin Unaddressed
    <3>. DEFINE own == Set(EmptyCache, n, InitialCaps[n])
    <3>1. OwnCapabilities(n) = own /\ InitialCaps[n] \in SUBSET Caps
      BY <2>2, DiscoveryAssumption DEF OwnCapabilities
    <3>2. /\ own \in CacheType
          /\ \A m \in Nodes : m # n => Listed(own, m) = Listed(EmptyCache, m)
          /\ \/ Listed(own, n) = InitialCaps[n]
             \/ Listed(own, n) = Listed(EmptyCache, n)
          /\ \A U : (\A c \in DOMAIN EmptyCache : EmptyCache[c] \subseteq U) =>
               \A c \in DOMAIN own : own[c] \subseteq U \cup {n}
      BY <1>2, <3>1, SetEffect
    <3>. HIDE DEF own
    <3>3. \A c \in DOMAIN own : own[c] \subseteq {} \cup {n}
      BY <3>2 DEF EmptyCache
    <3>. QED
      BY <1>2, <2>2, <3>1, <3>2, <3>3
  <2>. QED
    BY <2>1, <2>2
<1>4. CacheInv
  <2>1. /\ subCaps = [n \in Nodes |-> OwnCapabilities(n)] /\ neiCaps = [n \in Nodes |-> OwnCapabilities(n)]
        /\ Subnodes = [n \in Nodes |-> {}] /\ Neighbors = [n \in Nodes |-> {}]
        /\ registered = [n \in Nodes |-> IF n \in Unaddressed THEN {} ELSE {<<n, InitialCaps[n]>>}]
    BY DEF Init
  <2>2. registered \in [Nodes -> SUBSET (Nodes \X SUBSET Caps)]
    BY <2>1, DiscoveryAssumption
  <2>3. \A r \in Nodes : Recorded(r)
    BY <1>3, <2>1 DEF Recorded
  <2>4. ASSUME NEW r \in Nodes, NEW m \in Nodes, Listed(neiCaps[r], m) # {}
        PROVE  \E old \in registered[r] : old[1] = m /\ Listed(neiCaps[r], m) \subseteq old[2]
    <3>1. neiCaps[r] = OwnCapabilities(r)
      BY <2>1
    <3>2. m = r /\ r \notin Unaddressed /\ Listed(neiCaps[r], m) = InitialCaps[r]
      BY <1>3, <2>4, <3>1
    <3>3. <<r, InitialCaps[r]>> \in registered[r]
      BY <2>1, <3>2
    <3>. QED
      BY <3>2, <3>3
  <2>. QED
    BY <1>3, <2>1, <2>2, <2>3, <2>4 DEF CacheInv, Backed
<1>5. RoutineInv
  BY DEF Init, RoutineInv, QueueRoutineRuns
<1>6. EligibleInv /\ TaskInv
  BY DEF Init, EligibleInv, TaskInv
<1>. QED
  BY <1>1, <1>4, <1>5, <1>6 DEF Inv

LEMMA StutterStep ==
  ASSUME Inv, UNCHANGED vars
  PROVE  Inv'
<1>1. RoutineInv'
  BY DEF Inv, RoutineInv, QueueRoutineRuns, vars, registryVars
<1>. QED
  BY <1>1, RoutineOnly DEF vars

LEMMA NextStep ==
  ASSUME Inv, Next
  PROVE  Inv'
<1>1. ASSUME NEW r \in Registrants,
             RegisterToNode(r[1], r[2]) \/ \E answered \in BOOLEAN : RegisterSubnode(r[1], r[2], answered)
      PROVE  Inv'
  <2>1. r[1] \in Nodes /\ r[2] \in Kinds /\ Target(r[1], r[2]) # None
    BY DEF Registrants
  <2>. QED
    BY <1>1, <2>1, RegisterToStep, RegisterStep
<1>2. ASSUME NEW n \in Nodes, CheckRoutine(n) \/ StartRoutine(n)
      PROVE  Inv'
  BY <1>2, CheckStep, StartStep
<1>3. ASSUME NEW n \in Administered,
             \/ \E new \in Configurations : UpdateConfigurations(n, new.caps, new.addressed)
             \/ \E c \in Caps : AddOrDeleteCapability(n, c)
      PROVE  Inv'
  BY <1>3, DiscoveryAssumption, UpdateStep, CapabilityStep
<1>4. ASSUME NEW t \in Tasks, NEW n \in Receivers, NEW req \in Requirements, NEW opt \in Options,
             NEW ttl \in TTLs, TaskReceiver(t, n, req, opt, ttl)
      PROVE  Inv'
  BY <1>4, ReceiveStep
<1>5. ASSUME NEW p \in DOMAIN tasks,
             \/ discoverNeighbors(p) \/ SelectAtRegistry(p) \/ CollectAtRegistry(p) \/ FetchFails(p)
             \/ LookUpNodes(p) \/ StoreEligibleNeighbors(p) \/ FinishDispatch(p)
             \/ \E m \in tasks[p].todo, arrives \in BOOLEAN : dispatchNeighborTask(p, m, arrives)
             \/ \E m \in tasks[p].waiting : NeighborDone(p, m)
      PROVE  Inv'
  BY <1>5, DiscoverStep, SelectStep, CollectStep, FetchStep, LookUpStep, StoreStep, FinishStep, SendStep, NeighborDoneStep
<1>. QED
  BY <1>1, <1>2, <1>3, <1>4, <1>5 DEF Next
-----------------------------------------------------------------------------
(* The inductive invariant: what a cache lists a node for is part of one   *)
(* registration of it, a node in the cache has a record, a copy's keys     *)
(* meet what they have been selected by so far, its list and the neighbors *)
(* to be sent to both parts of its requirement, and a started queue        *)
(* routine runs.                                                           *)
THEOREM DiscoveryInvariance == Spec => []Inv
<1>1. Inv /\ [Next]_vars => Inv'
  BY NextStep, StutterStep
<1>. QED
  BY <1>1, InitInv, PTL DEF Spec

(* Types; a control plane task is passed on at most as often as its TTL    *)
(* says (processControlPlaneTask).                                         *)
THEOREM DiscoveryTypeCorrect == Spec => []TypeOK
<1>1. Inv => TypeOK
  <2>. SUFFICES ASSUME Inv
                PROVE  TypeOK
    OBVIOUS
  <2>1. ASSUME NEW p \in DOMAIN tasks
        PROVE  /\ p \in Seq(Tasks \cup Nodes) /\ Len(p) >= 2
               /\ \E ttl \in TTLs : tasks[p].ttl \in 0 .. ttl /\ Len(p) <= ttl + 2
    <3>1. p \in Way /\ CopyInv(p, tasks[p])
      BY DEF Inv, TaskInv
    <3>2. p \in Seq(Tasks \cup Nodes) /\ Len(p) >= 2 /\ Len(p) \in Nat
      BY <3>1 DEF Way
    <3>3. PICK ttl \in TTLs : Len(p) + tasks[p].ttl <= ttl + 2
      BY <3>1 DEF CopyInv, Hops
    <3>4. ttl \in Nat /\ tasks[p].ttl \in Nat
      BY <3>1, DiscoveryAssumption DEF CopyInv
    <3>5. tasks[p].ttl \in 0 .. ttl /\ Len(p) <= ttl + 2
      BY <3>2, <3>3, <3>4
    <3>. QED
      BY <3>2, <3>5
  <2>2. \A p \in DOMAIN tasks : tasks[p] \in
          [req : Requirements, opt : Options, ttl : Nat,
           pc : {"discover", "select", "collect", "lookup", "answer", "dispatch", "done"},
           keys : SUBSET Nodes, list : SUBSET Nodes, todo : SUBSET Nodes, waiting : SUBSET Nodes]
    BY DEF Inv, TaskInv, CopyInv
  <2>. QED
    BY <2>1, <2>2 DEF Inv, StateType, CacheInv, RoutineInv, EligibleInv, TypeOK
<1>. QED
  BY <1>1, DiscoveryInvariance, PTL

(* ListNeighbors answers with all nodes it selected but perhaps itself,    *)
(* whatever registers between its two critical sections.                   *)
THEOREM AnswerCorrect == Spec => []SelectedAreAnswered
<1>1. Inv => SelectedAreAnswered
  BY DEF Inv, TaskInv, CopyInv, SelectedAreAnswered
<1>. QED
  BY <1>1, DiscoveryInvariance, PTL

(* Every eligible neighbor, cached or on its way to be sent a task, has    *)
(* registered with all exclusive capabilities and has registered, perhaps  *)
(* another time, with one of the collective ones (selectAvaiableNodes).    *)
THEOREM EligibleCorrect == Spec => []ListedNodesEligible
<1>1. Inv => ListedNodesEligible
  BY DEF Inv, EligibleInv, TaskInv, CopyInv, MeetsAt, ListedNodesEligible
<1>. QED
  BY <1>1, DiscoveryInvariance, PTL

(* A coordinator with subnodes serves its queues, or a registration is     *)
(* about to start the routine that does (RegisterSubnode).                 *)
THEOREM RoutineCorrect == Spec => []QueueRoutineRuns
<1>1. Inv => QueueRoutineRuns
  BY DEF Inv, RoutineInv
<1>. QED
  BY <1>1, DiscoveryInvariance, PTL
=============================================================================
