---------------------- MODULE BudgetNegotiation_proofs ----------------------
(***************************************************************************)
(* Safety of budget negotiation (module BudgetNegotiation) for any tasks,  *)
(* any neighbors and any number of lost requests and rejected tasks; what  *)
(* a repeated request can spoil is assumed away where it is needed.        *)
(***************************************************************************)
EXTENDS BudgetNegotiation, TLAPS

Blocking(t) == Negotiation(t) = "DDL_CDF_Block"
NonBlocking(t) == Negotiation(t) = "DDL_CDF_NonBlock"

(* The phase in which a task comes to a neighbor first. *)
FirstPhase(t) == IF NonBlocking(t) THEN "inquiry" ELSE "none"

(* What the queue of c holds of task t: nothing so far, the subtask once   *)
(* or not any more, the subtask tentatively or not any more.               *)
Untouched(c, t) == main[c][t] = 0 /\ t \notin shadow[c] /\ t \notin indexed[c] /\ served[c][t] = 0

OnceIn(c, t) ==
  \/ main[c][t] = 1 /\ t \notin shadow[c] /\ t \in indexed[c] /\ served[c][t] = 0
  \/ main[c][t] = 0 /\ t \in shadow[c] /\ t \in indexed[c] /\ served[c][t] = 0
  \/ main[c][t] = 0 /\ t \notin shadow[c] /\ t \notin indexed[c] /\ served[c][t] = 1

Tentative(c, t) == main[c][t] = 0 /\ OnceIn(c, t)

(* Phases in which no request has gone out, and those after the answers.   *)
Early == {"new", "asking", "accepted", "rejected"}
Late == {"confirm", "done"}

(* A neighbor that the task has not reached yet, and one that holds it     *)
(* tentatively.                                                            *)
Fresh(t, n) == phase[t] \notin Early /\ Untouched(n, t) /\ (NonBlocking(t) => responses[t][n] # "cdf")
Reserved(t, n) == NonBlocking(t) /\ known[n][t] = FirstPhase(t) /\ Tentative(n, t)

(* What a request knows of its task. *)
MsgInv(m) ==
  LET t == m.task
      n == m.node
  IN  /\ m.type = "task" /\ m.phase # "confirm" =>
           m.phase = FirstPhase(t) /\ Fresh(t, n) /\ known[n][t] = "absent"
      /\ m.type = "task" /\ m.phase = "confirm" => Reserved(t, n) /\ phase[t] \in Late
      /\ m.type = "cdf" => Reserved(t, n) /\ phase[t] \notin Early /\ responses[t][n] # "cdf"

(* What a neighbor's handler knows at each place of its code. *)
HandInv(h) ==
  LET t == h.task
      n == h.node
  IN  /\ h.pc = "cache" => h.phase = FirstPhase(t) /\ Fresh(t, n) /\ known[n][t] = "absent"
      /\ h.pc = "enqueue" => Fresh(t, n) /\ known[n][t] = FirstPhase(t)
      /\ h.pc = "report" => Reserved(t, n) /\ phase[t] \notin Early /\ responses[t][n] # "cdf"
      /\ h.pc = "confirm" => Reserved(t, n) /\ phase[t] \in Late

Msgs(t, n) == {m \in net : m.task = t /\ m.node = n}
Hands(t, n) == {h \in handlers : h.task = t /\ h.node = n}

(* A task and a neighbor: at most one request or handler is about them.    *)
Pair(t, n) ==
  /\ \A m1, m2 \in Msgs(t, n) : m1 = m2
  /\ \A h1, h2 \in Hands(t, n) : h1 = h2
  /\ Msgs(t, n) = {} \/ Hands(t, n) = {}
  /\ \A m \in Msgs(t, n) : MsgInv(m)
  /\ \A h \in Hands(t, n) : HandInv(h)
  /\ phase[t] \in Early =>
       Msgs(t, n) = {} /\ Hands(t, n) = {} /\ known[n][t] = "absent" /\ Untouched(n, t)
  /\ NonBlocking(t) /\ responses[t][n] = "cdf" /\ phase[t] \notin Late =>
       Msgs(t, n) = {} /\ Hands(t, n) = {} /\ Reserved(t, n)
  /\ known[n][t] \in {"absent", FirstPhase(t)}
  /\ Untouched(n, t) \/ OnceIn(n, t)
  /\ NonBlocking(t) /\ phase[t] \notin Late => main[n][t] = 0

(* A task at its initiator. *)
OwnInv(t) ==
  /\ NonBlocking(t) => phase[t] # "asking"
  /\ phase[t] \in {"publish", "waiting", "confirm"} => NonBlocking(t)
  /\ NonBlocking(t) =>
       \A n \in Neighbors :
         IF phase[t] \in Early THEN responses[t][n] = "none"
         ELSE IF phase[t] \in Late THEN responses[t][n] = "cdf"
         ELSE responses[t][n] \in {"pending", "cdf"}
  /\ Blocking(t) /\ phase[t] \notin {"new", "asking"} => AllAnswered(t)
  /\ phase[t] \in Early \cup {"publish", "enqueue"} => Untouched(self, t)
  /\ phase[t] \in {"waiting", "confirm"} => Tentative(self, t)
  /\ phase[t] = "done" => OnceIn(self, t)

CopiesCounted == (\A m \in net : m.copy <= repeated) /\ (\A h \in handlers : h.copy <= repeated)

TypeInv == TypeOK /\ CopiesCounted

Inv ==
  /\ TypeInv
  /\ \A t \in Tasks : OwnInv(t) /\ \A n \in Neighbors : Pair(t, n)
  /\ ConfirmMissMeansServed
-----------------------------------------------------------------------------
USE DEF queueVars, netVars, cacheVars

Message == [type : {"task", "cdf"}, task : Tasks, node : Neighbors, phase : Phases, copy : 0 .. MaxRepeats]
Handling == [task : Tasks, node : Neighbors, phase : Phases, copy : 0 .. MaxRepeats,
             pc : {"cache", "enqueue", "report", "confirm"}]

LEMMA Negotiations ==
  ASSUME TypeOK, NEW t \in Tasks
  PROVE  Negotiation(t) \in {"DDL_None", "DDL_CDF_Block", "DDL_CDF_NonBlock"}
  BY BudgetNegotiationAssumption DEF TypeOK, Negotiation

LEMMA TypeInit ==
  ASSUME Init
  PROVE  TypeInv
  BY BudgetNegotiationAssumption DEF Init, TypeInv, TypeOK, CopiesCounted, Coordinators, Phases

LEMMA Counted ==
  ASSUME NEW C, NEW T, NEW f \in [C -> [T -> Nat]], NEW c \in C, NEW t \in T
  PROVE  /\ [f EXCEPT ![c][t] = @ + 1] \in [C -> [T -> Nat]]
         /\ f[c][t] > 0 => [f EXCEPT ![c][t] = @ - 1] \in [C -> [T -> Nat]]
<1>1. f[c] \in [T -> Nat] /\ f[c][t] \in Nat
  OBVIOUS
<1>2. [f EXCEPT ![c][t] = @ + 1] = [f EXCEPT ![c] = [f[c] EXCEPT ![t] = @ + 1]]
      /\ [f EXCEPT ![c][t] = @ - 1] = [f EXCEPT ![c] = [f[c] EXCEPT ![t] = @ - 1]]
  OBVIOUS
<1>3. [f[c] EXCEPT ![t] = @ + 1] \in [T -> Nat] /\ (f[c][t] > 0 => [f[c] EXCEPT ![t] = @ - 1] \in [T -> Nat])
  BY <1>1
<1>. QED
  BY <1>2, <1>3

LEMMA EnqueueType ==
  ASSUME TypeOK, NEW c \in Coordinators, NEW t \in Tasks, NEW target, NEW mechanism,
         Enqueue(c, t, target, mechanism)
  PROVE  /\ main' \in [Coordinators -> [Tasks -> Nat]]
         /\ shadow' \in [Coordinators -> SUBSET Tasks]
         /\ indexed' \in [Coordinators -> SUBSET Tasks]
         /\ missed' \in [Coordinators -> SUBSET Tasks]
<1>1. main \in [Coordinators -> [Tasks -> Nat]] /\ shadow \in [Coordinators -> SUBSET Tasks]
      /\ indexed \in [Coordinators -> SUBSET Tasks] /\ missed \in [Coordinators -> SUBSET Tasks]
  BY DEF TypeOK
<1>2. main' = main \/ main' = [main EXCEPT ![c][t] = @ + 1]
  BY DEF Enqueue
<1>3. /\ \/ shadow' = shadow
         \/ shadow' = [shadow EXCEPT ![c] = @ \ {t}]
         \/ shadow' = [shadow EXCEPT ![c] = @ \cup {t}]
      /\ indexed' = indexed \/ indexed' = [indexed EXCEPT ![c] = @ \cup {t}]
      /\ missed' = missed \/ missed' = [missed EXCEPT ![c] = @] \/ missed' = [missed EXCEPT ![c] = @ \cup {t}]
  BY DEF Enqueue
<1>4. main' \in [Coordinators -> [Tasks -> Nat]]
  <2>1. [main EXCEPT ![c][t] = @ + 1] \in [Coordinators -> [Tasks -> Nat]]
    BY <1>1, Counted
  <2>. QED
    BY <1>1, <1>2, <2>1
<1>5. shadow' \in [Coordinators -> SUBSET Tasks]
  BY <1>1, <1>3
<1>6. indexed' \in [Coordinators -> SUBSET Tasks]
  BY <1>1, <1>3
<1>7. missed' \in [Coordinators -> SUBSET Tasks]
  BY <1>1, <1>3
<1>. QED
  BY <1>4, <1>5, <1>6, <1>7

(* What the requests, the handlers and the counters of repetitions are.    *)
NetType ==
  /\ net \subseteq Message /\ handlers \subseteq Handling
  /\ repeated \in 0 .. MaxRepeats
  /\ CopiesCounted

LEMMA Sent ==
  ASSUME TypeInv, NEW t \in Tasks, NEW confirming \in BOOLEAN, dispatchNeighborTask(t, confirming),
         UNCHANGED <<repeated, handlers>>
  PROVE  NetType'
<1>. DEFINE new == {Request("task", t, n, PhaseOf(t, confirming)) : n \in NeighborNodes(t)}
<1>1. NeighborNodes(t) \subseteq Neighbors /\ PhaseOf(t, confirming) \in Phases
  BY DEF NeighborNodes, PhaseOf, Phases
<1>2. repeated \in Nat /\ 0 \in 0 .. MaxRepeats
  BY BudgetNegotiationAssumption DEF TypeInv, TypeOK
<1>3. \A m \in new : m \in Message /\ m.copy = 0
  BY <1>1, <1>2 DEF Request, Message
<1>4. net' = net \cup new
  BY DEF dispatchNeighborTask
<1>. HIDE DEF new
<1>. QED
  BY <1>2, <1>3, <1>4 DEF TypeInv, TypeOK, NetType, CopiesCounted, Message, Handling

LEMMA Received ==
  ASSUME TypeInv, NEW m \in net, Receive(m)
  PROVE  NetType' /\ lost' = lost
<1>1. m \in Message /\ m.copy \in Nat /\ m.copy <= repeated /\ repeated \in Nat /\ repeated \in 0 .. MaxRepeats
  BY BudgetNegotiationAssumption DEF TypeInv, TypeOK, CopiesCounted, Message
<1>2. /\ net' \subseteq Message /\ repeated' \in 0 .. MaxRepeats /\ repeated <= repeated'
      /\ \A x \in net' : x.copy <= repeated'
  <2>1. CASE net' = net \ {m} /\ UNCHANGED repeated
    BY <1>1, <2>1 DEF TypeInv, TypeOK, CopiesCounted, Message
  <2>2. CASE repeated < MaxRepeats /\ repeated' = repeated + 1 /\ net' = (net \ {m}) \cup {[m EXCEPT !.copy = @ + 1]}
    <3>. DEFINE c == [m EXCEPT !.copy = @ + 1]
    <3>1. c \in Message /\ c.copy = m.copy + 1
      BY <1>1, <2>2, BudgetNegotiationAssumption DEF Message
    <3>2. repeated' \in 0 .. MaxRepeats
      BY <1>1, <2>2, BudgetNegotiationAssumption
    <3>3. \A x \in net : x.copy \in Nat /\ x.copy <= repeated /\ x \in Message
      BY DEF TypeInv, TypeOK, CopiesCounted, Message
    <3>. HIDE DEF c
    <3>4. net' = (net \ {m}) \cup {c}
      BY <2>2 DEF c
    <3>. QED
      BY <1>1, <2>2, <3>1, <3>2, <3>3, <3>4
  <2>. QED
    BY <2>1, <2>2 DEF Receive
<1>3. handlers' \subseteq Handling /\ \A h \in handlers' : h.copy <= repeated'
  <2>0. \A h \in handlers : h \in Handling /\ h.copy \in Nat /\ h.copy <= repeated
    BY DEF TypeInv, TypeOK, CopiesCounted, Handling
  <2>01. repeated' \in Nat
    BY <1>2
  <2>1. CASE handlers' = handlers
    BY <1>1, <1>2, <2>0, <2>01, <2>1
  <2>2. CASE TaskReceiver(m)
    <3>1. PICK pc \in {"cache", "confirm"} : handlers' = handlers \cup {Handler(m, pc)}
      BY <2>2 DEF TaskReceiver
    <3>2. Handler(m, pc) \in Handling /\ Handler(m, pc).copy = m.copy
      BY <1>1 DEF Handler, Handling, Message
    <3>. QED
      BY <1>1, <1>2, <2>0, <2>01, <3>1, <3>2
  <2>. QED
    BY <2>1, <2>2 DEF Receive, CollectCDF
<1>. QED
  BY <1>2, <1>3 DEF Receive, NetType, CopiesCounted

LEMMA Moved ==
  ASSUME TypeInv, NEW h \in handlers, NEW pc \in {"cache", "enqueue", "report", "confirm"},
         Goto(h, pc) \/ Return(h), UNCHANGED repeated,
         net' \subseteq Message, \A m \in net' : m.copy <= repeated
  PROVE  NetType'
<1>1. CASE Return(h)
  BY <1>1 DEF TypeInv, TypeOK, NetType, CopiesCounted, Return, Handling
<1>2. CASE Goto(h, pc)
  <2>. DEFINE g == [h EXCEPT !.pc = pc]
  <2>1. h \in Handling
    BY DEF TypeInv, TypeOK, Handling
  <2>2. g \in Handling /\ g.copy = h.copy
    BY <2>1 DEF Handling
  <2>3. handlers' = (handlers \ {h}) \cup {g}
    BY <1>2 DEF Goto
  <2>. HIDE DEF g
  <2>. QED
    BY <2>1, <2>2, <2>3 DEF TypeInv, TypeOK, NetType, CopiesCounted, Handling
<1>. QED
  BY <1>1, <1>2

LEMMA TypeStep ==
  ASSUME TypeInv, [Next]_vars
  PROVE  TypeInv'
<1>. USE DEF Advance
<1>0. TypeOK /\ NetType /\ self \in Coordinators /\ Neighbors \subseteq Coordinators
  BY DEF TypeInv, TypeOK, NetType, Message, Handling, Coordinators
<1>1. ASSUME NEW t \in Tasks, evaluateCollaborativeTasks(t)
      PROVE  TypeInv'
  <2>1. \/ responses' = responses
        \/ responses' = [responses EXCEPT ![t] = [n \in Neighbors |-> "pending"]]
    BY <1>1 DEF evaluateCollaborativeTasks
  <2>2. responses' \in [Tasks -> [Neighbors -> {"none", "pending", "cdf", "nil"}]]
    <3>1. [n \in Neighbors |-> "pending"] \in [Neighbors -> {"none", "pending", "cdf", "nil"}]
      OBVIOUS
    <3>2. responses \in [Tasks -> [Neighbors -> {"none", "pending", "cdf", "nil"}]]
      BY <1>0 DEF TypeOK
    <3>. QED
      BY <2>1, <3>1, <3>2
  <2>3. phase' = [phase EXCEPT ![t] = "asking"] \/ phase' = [phase EXCEPT ![t] = "accepted"]
    BY <1>1 DEF evaluateCollaborativeTasks
  <2>. QED
    BY <1>0, <1>1, <2>2, <2>3 DEF evaluateCollaborativeTasks, TypeInv, TypeOK, CopiesCounted
<1>2. ASSUME NEW t \in Tasks, NEW n \in Neighbors, inquiryBudget(t, n)
      PROVE  TypeInv'
  <2>1. PICK r \in {"cdf", "nil"} : responses' = [responses EXCEPT ![t][n] = r]
    BY <1>2 DEF inquiryBudget
  <2>2. responses' \in [Tasks -> [Neighbors -> {"none", "pending", "cdf", "nil"}]]
    BY <1>0, <2>1 DEF TypeOK
  <2>. QED
    BY <1>0, <1>2, <2>2 DEF inquiryBudget, TypeInv, TypeOK, CopiesCounted
<1>3. ASSUME NEW t \in Tasks, CallbackOfNegotiation(t) \/ RejectOwn(t)
      PROVE  TypeInv'
  <2>1. phase' = [phase EXCEPT ![t] = "accepted"] \/ phase' = [phase EXCEPT ![t] = "rejected"]
    BY <1>3 DEF CallbackOfNegotiation, RejectOwn
  <2>2. UNCHANGED <<mech, cacheVars, netVars, handlers, known, queueVars>>
    BY <1>3 DEF CallbackOfNegotiation, RejectOwn
  <2>. QED
    BY <1>0, <2>1, <2>2 DEF TypeInv, TypeOK, CopiesCounted
<1>4. ASSUME NEW t \in Tasks, DispatchToNeighbors(t)
      PROVE  TypeInv'
  <2>1. NetType'
    BY <1>4, Sent DEF DispatchToNeighbors
  <2>2. \/ responses' = responses
        \/ responses' = [responses EXCEPT ![t] = [n \in Neighbors |-> "pending"]]
    BY <1>4 DEF DispatchToNeighbors
  <2>3. responses' \in [Tasks -> [Neighbors -> {"none", "pending", "cdf", "nil"}]]
    <3>1. [n \in Neighbors |-> "pending"] \in [Neighbors -> {"none", "pending", "cdf", "nil"}]
      OBVIOUS
    <3>2. responses \in [Tasks -> [Neighbors -> {"none", "pending", "cdf", "nil"}]]
      BY <1>0 DEF TypeOK
    <3>. QED
      BY <2>2, <3>1, <3>2
  <2>4. phase' = [phase EXCEPT ![t] = "publish"] \/ phase' = [phase EXCEPT ![t] = "enqueue"]
    BY <1>4 DEF DispatchToNeighbors
  <2>5. UNCHANGED <<mech, cacheSet, dropped, lost, known, queueVars>>
    BY <1>4 DEF DispatchToNeighbors
  <2>6. phase' \in [Tasks -> {"new", "asking", "accepted", "publish", "enqueue", "waiting",
                          "confirm", "done", "rejected"}]
    BY <1>0, <2>4 DEF TypeOK
  <2>. QED
    BY <1>0, <2>1, <2>3, <2>5, <2>6 DEF TypeInv, TypeOK, NetType, Message, Handling
<1>5. ASSUME NEW t \in Tasks, SetBudgetNegotiationCache(t)
      PROVE  TypeInv'
  BY <1>0, <1>5 DEF SetBudgetNegotiationCache, TypeInv, TypeOK, CopiesCounted
<1>6. ASSUME NEW t \in Tasks, EnqueueOwn(t) \/ ConfirmOwn(t)
      PROVE  TypeInv'
  <2>1. /\ main' \in [Coordinators -> [Tasks -> Nat]]
        /\ shadow' \in [Coordinators -> SUBSET Tasks]
        /\ indexed' \in [Coordinators -> SUBSET Tasks]
        /\ missed' \in [Coordinators -> SUBSET Tasks]
    BY <1>0, <1>6, EnqueueType DEF EnqueueOwn, ConfirmOwn
  <2>2. phase' = [phase EXCEPT ![t] = "waiting"] \/ phase' = [phase EXCEPT ![t] = "done"]
    BY <1>6 DEF EnqueueOwn, ConfirmOwn
  <2>3. UNCHANGED <<mech, cacheVars, netVars, handlers, known, served>>
    BY <1>6 DEF EnqueueOwn, ConfirmOwn
  <2>. QED
    BY <1>0, <2>1, <2>2, <2>3 DEF TypeInv, TypeOK, CopiesCounted
<1>7. ASSUME NEW t \in Tasks, CheckBudgetNegotiationCache(t)
      PROVE  TypeInv'
  <2>1. NetType'
    BY <1>7, Sent DEF CheckBudgetNegotiationCache
  <2>. QED
    BY <1>0, <1>7, <2>1 DEF CheckBudgetNegotiationCache, TypeInv, TypeOK, NetType, Message, Handling
<1>8. ASSUME NEW m \in net, Receive(m)
      PROVE  TypeInv'
  <2>1. NetType' /\ lost' = lost
    BY <1>8, Received
  <2>2. m.task \in Tasks /\ m.node \in Neighbors
    BY <1>0 DEF TypeOK
  <2>3. /\ UNCHANGED <<mech, phase, cacheSet, known, queueVars>>
        /\ responses' = responses \/ responses' = [responses EXCEPT ![m.task][m.node] = "cdf"]
        /\ dropped' = dropped \/ dropped' = [dropped EXCEPT ![m.task] = @ \cup {m.node}]
    BY <1>8 DEF Receive, CollectCDF, TaskReceiver
  <2>4. /\ responses' \in [Tasks -> [Neighbors -> {"none", "pending", "cdf", "nil"}]]
        /\ dropped' \in [Tasks -> SUBSET Neighbors]
    <3>1. /\ responses \in [Tasks -> [Neighbors -> {"none", "pending", "cdf", "nil"}]]
          /\ dropped \in [Tasks -> SUBSET Neighbors]
      BY <1>0 DEF TypeOK
    <3>2. responses' \in [Tasks -> [Neighbors -> {"none", "pending", "cdf", "nil"}]]
      BY <2>2, <2>3, <3>1
    <3>3. dropped' \in [Tasks -> SUBSET Neighbors]
      BY <2>2, <2>3, <3>1
    <3>. QED
      BY <3>2, <3>3
  <2>. QED
    BY <1>0, <2>1, <2>3, <2>4 DEF TypeInv, TypeOK, NetType, Message, Handling
<1>9. ASSUME NEW m \in net, Lose(m)
      PROVE  TypeInv'
  <2>1. m.task \in Tasks /\ m.node \in Neighbors
    BY <1>0 DEF TypeOK
  <2>2. lost' \in 0 .. MaxLost
    BY <1>0, <1>9, BudgetNegotiationAssumption DEF Lose, TypeOK
  <2>. QED
    BY <1>0, <1>9, <2>1, <2>2 DEF Lose, TypeInv, TypeOK, CopiesCounted
<1>10. ASSUME NEW h \in handlers, Proceed(h)
       PROVE  TypeInv'
  <2>0. h \in Handling /\ h.copy <= repeated /\ h.node \in Coordinators
    BY <1>0 DEF NetType, CopiesCounted, Handling
  <2>1. CASE CacheTask(h)
    <3>1. NetType'
      BY <1>0, <2>1, Moved DEF CacheTask, NetType, CopiesCounted
    <3>2. known' \in [Neighbors -> [Tasks -> Phases \cup {"absent"}]]
      BY <1>0, <2>0, <2>1 DEF CacheTask, TypeOK, Handling
    <3>. QED
      BY <1>0, <2>1, <3>1, <3>2 DEF CacheTask, TypeInv, TypeOK, NetType, Message, Handling
  <2>2. CASE EnqueueAccepted(h)
    <3>1. NetType'
      BY <1>0, <2>2, Moved DEF EnqueueAccepted, NetType, CopiesCounted
    <3>2. /\ main' \in [Coordinators -> [Tasks -> Nat]]
          /\ shadow' \in [Coordinators -> SUBSET Tasks]
          /\ indexed' \in [Coordinators -> SUBSET Tasks]
          /\ missed' \in [Coordinators -> SUBSET Tasks]
      BY <1>0, <2>0, <2>2, EnqueueType DEF EnqueueAccepted, Handling
    <3>. QED
      BY <1>0, <2>2, <3>1, <3>2 DEF EnqueueAccepted, TypeInv, TypeOK, NetType, Message, Handling
  <2>3. CASE ReportCDFtoInitiator(h)
    <3>. DEFINE m == [Request("cdf", h.task, h.node, "none") EXCEPT !.copy = h.copy]
    <3>1. m \in Message /\ m.copy = h.copy
      BY <2>0 DEF Request, Message, Handling, Phases
    <3>2. net' = net \cup {m}
      BY <2>3 DEF ReportCDFtoInitiator
    <3>. HIDE DEF m
    <3>3. net' \subseteq Message /\ \A x \in net' : x.copy <= repeated
      BY <1>0, <2>0, <3>1, <3>2 DEF NetType, CopiesCounted
    <3>4. NetType'
      BY <2>3, <3>3, Moved DEF ReportCDFtoInitiator
    <3>. QED
      BY <1>0, <2>3, <3>4 DEF ReportCDFtoInitiator, TypeInv, TypeOK, NetType, Message, Handling
  <2>4. CASE EnqueueConfirmed(h)
    <3>1. NetType'
      BY <1>0, <2>4, Moved DEF EnqueueConfirmed, NetType, CopiesCounted
    <3>2. /\ main' \in [Coordinators -> [Tasks -> Nat]]
          /\ shadow' \in [Coordinators -> SUBSET Tasks]
          /\ indexed' \in [Coordinators -> SUBSET Tasks]
          /\ missed' \in [Coordinators -> SUBSET Tasks]
      BY <1>0, <2>0, <2>4, EnqueueType DEF EnqueueConfirmed, Handling
    <3>. QED
      BY <1>0, <2>4, <3>1, <3>2 DEF EnqueueConfirmed, TypeInv, TypeOK, NetType, Message, Handling
  <2>5. CASE RejectTask(h)
    <3>1. NetType'
      BY <1>0, <2>5, Moved DEF RejectTask, NetType, CopiesCounted
    <3>2. dropped' \in [Tasks -> SUBSET Neighbors]
      BY <1>0, <2>0, <2>5 DEF RejectTask, TypeOK, Handling
    <3>. QED
      BY <1>0, <2>5, <3>1, <3>2 DEF RejectTask, TypeInv, TypeOK, NetType, Message, Handling
  <2>. QED
    BY <1>10, <2>1, <2>2, <2>3, <2>4, <2>5 DEF Proceed
<1>11. ASSUME NEW c \in Coordinators, NEW t \in Tasks, Dequeue(c, t)
       PROVE  TypeInv'
  <2>1. /\ main' \in [Coordinators -> [Tasks -> Nat]]
        /\ shadow' \in [Coordinators -> SUBSET Tasks]
    <3>1. main \in [Coordinators -> [Tasks -> Nat]] /\ shadow \in [Coordinators -> SUBSET Tasks]
      BY <1>0 DEF TypeOK
    <3>2. \/ main[c][t] > 0 /\ main' = [main EXCEPT ![c][t] = @ - 1] /\ shadow' = shadow
          \/ main' = main /\ shadow' = [shadow EXCEPT ![c] = @ \ {t}]
      BY <1>11 DEF Dequeue
    <3>3. main[c][t] > 0 => [main EXCEPT ![c][t] = @ - 1] \in [Coordinators -> [Tasks -> Nat]]
      BY <3>1, Counted
    <3>4. main' \in [Coordinators -> [Tasks -> Nat]]
      BY <3>1, <3>2, <3>3
    <3>5. shadow' \in [Coordinators -> SUBSET Tasks]
      BY <3>1, <3>2
    <3>. QED
      BY <3>4, <3>5
  <2>2. /\ indexed' \in [Coordinators -> SUBSET Tasks]
        /\ served' \in [Coordinators -> [Tasks -> Nat]]
    <3>1. indexed \in [Coordinators -> SUBSET Tasks] /\ served \in [Coordinators -> [Tasks -> Nat]]
      BY <1>0 DEF TypeOK
    <3>2. indexed' = [indexed EXCEPT ![c] = @ \ {t}] /\ served' = [served EXCEPT ![c][t] = @ + 1]
      BY <1>11 DEF Dequeue
    <3>3. [served EXCEPT ![c][t] = @ + 1] \in [Coordinators -> [Tasks -> Nat]]
      BY <3>1, Counted
    <3>. QED
      BY <3>1, <3>2, <3>3
  <2>. QED
    BY <1>0, <1>11, <2>1, <2>2 DEF Dequeue, TypeInv, TypeOK, CopiesCounted
<1>12. CASE UNCHANGED vars
  BY <1>0, <1>12 DEF vars, TypeInv, TypeOK, CopiesCounted
<1>. QED
  BY <1>1, <1>2, <1>3, <1>4, <1>5, <1>6, <1>7, <1>8, <1>9, <1>10, <1>11, <1>12 DEF Next, Initiate
-----------------------------------------------------------------------------
(* What stays the same for a task at a coordinator, and between a task and *)
(* a neighbor.                                                             *)
SameQueue(c, t) ==
  /\ main'[c][t] = main[c][t] /\ served'[c][t] = served[c][t]
  /\ t \in shadow'[c] <=> t \in shadow[c]
  /\ t \in indexed'[c] <=> t \in indexed[c]

SameTokens(t, n) == Msgs(t, n)' = Msgs(t, n) /\ Hands(t, n)' = Hands(t, n)

SamePair(t, n) ==
  /\ SameTokens(t, n) /\ SameQueue(n, t)
  /\ known'[n][t] = known[n][t] /\ responses'[t][n] = responses[t][n] /\ phase'[t] = phase[t]

LEMMA QueueFrame ==
  ASSUME NEW c, NEW t, SameQueue(c, t)
  PROVE  /\ Untouched(c, t)' <=> Untouched(c, t)
         /\ OnceIn(c, t)' <=> OnceIn(c, t)
         /\ Tentative(c, t)' <=> Tentative(c, t)
  BY DEF SameQueue, Untouched, OnceIn, Tentative

(* A pair keeps its invariant when nothing of it changes, and when its     *)
(* task only moves on between phases that are alike to the pair.           *)
LEMMA PairFrame ==
  ASSUME NEW t, NEW n, Pair(t, n), mech' = mech, SameTokens(t, n), SameQueue(n, t),
         known'[n][t] = known[n][t],
         phase'[t] \in Early <=> phase[t] \in Early,
         NonBlocking(t) => /\ responses'[t][n] = responses[t][n]
                           /\ phase'[t] \in Late <=> phase[t] \in Late
  PROVE  Pair(t, n)'
<1>1. NonBlocking(t)' = NonBlocking(t) /\ FirstPhase(t)' = FirstPhase(t)
  BY DEF NonBlocking, FirstPhase, Negotiation
<1>2. /\ Untouched(n, t)' <=> Untouched(n, t)
      /\ OnceIn(n, t)' <=> OnceIn(n, t)
      /\ Tentative(n, t)' <=> Tentative(n, t)
  BY QueueFrame
<1>3. (Fresh(t, n)' <=> Fresh(t, n)) /\ (Reserved(t, n)' <=> Reserved(t, n))
  BY <1>1, <1>2 DEF Fresh, Reserved
<1>4. ASSUME NEW m \in Msgs(t, n)
      PROVE  MsgInv(m)'
  <2>1. MsgInv(m) /\ m.task = t /\ m.node = n
    BY <1>4 DEF Pair, Msgs
  <2>2. Reserved(t, n) => NonBlocking(t)
    BY DEF Reserved
  <2>. QED
    BY <1>1, <1>3, <2>1, <2>2 DEF MsgInv
<1>5. ASSUME NEW h \in Hands(t, n)
      PROVE  HandInv(h)'
  <2>1. HandInv(h) /\ h.task = t /\ h.node = n
    BY <1>5 DEF Pair, Hands
  <2>2. Reserved(t, n) => NonBlocking(t)
    BY DEF Reserved
  <2>. QED
    BY <1>1, <1>3, <2>1, <2>2 DEF HandInv
<1>6. main'[n][t] = main[n][t]
  BY DEF SameQueue
<1>. QED
  BY <1>1, <1>2, <1>3, <1>4, <1>5, <1>6 DEF Pair, SameTokens

LEMMA PairSame ==
  ASSUME NEW t, NEW n, Pair(t, n), mech' = mech, SamePair(t, n)
  PROVE  Pair(t, n)'
  BY PairFrame DEF SamePair

LEMMA OwnFrame ==
  ASSUME NEW t, OwnInv(t), mech' = mech, SameQueue(self, t), phase'[t] = phase[t],
         \A n \in Neighbors : responses'[t][n] = responses[t][n]
  PROVE  OwnInv(t)'
<1>1. NonBlocking(t)' = NonBlocking(t) /\ Blocking(t)' = Blocking(t)
  BY DEF NonBlocking, Blocking, Negotiation
<1>2. /\ Untouched(self, t)' <=> Untouched(self, t)
      /\ OnceIn(self, t)' <=> OnceIn(self, t)
      /\ Tentative(self, t)' <=> Tentative(self, t)
  BY QueueFrame
<1>3. AllAnswered(t)' <=> AllAnswered(t)
  BY DEF AllAnswered
<1>. QED
  BY <1>1, <1>2, <1>3 DEF OwnInv

(* The first copy of a subtask, and its confirmation, in a queue.          *)
LEMMA FirstEnqueue ==
  ASSUME TypeOK, NEW c \in Coordinators, NEW t \in Tasks, Untouched(c, t), NEW target \in {"main", "shadow"},
         NEW mechanism, ~ (target = "main" /\ mechanism = "DDL_CDF_NonBlock"),
         Enqueue(c, t, target, mechanism), served' = served
  PROVE  /\ OnceIn(c, t)' /\ (target = "shadow" => Tentative(c, t)') /\ missed' = missed
         /\ \A d \in Coordinators, u \in Tasks : ~ (d = c /\ u = t) => SameQueue(d, u)
<1>1. /\ main \in [Coordinators -> [Tasks -> Nat]] /\ shadow \in [Coordinators -> SUBSET Tasks]
      /\ indexed \in [Coordinators -> SUBSET Tasks]
  BY DEF TypeOK
<1>2. /\ indexed' = [indexed EXCEPT ![c] = @ \cup {t}]
      /\ main' = IF target = "main" THEN [main EXCEPT ![c][t] = @ + 1] ELSE main
      /\ shadow' = IF target = "shadow" THEN [shadow EXCEPT ![c] = @ \cup {t}] ELSE shadow
      /\ UNCHANGED missed
  BY DEF Enqueue, Untouched
<1>3. CASE target = "main"
  BY <1>1, <1>2, <1>3 DEF Untouched, OnceIn, Tentative, SameQueue
<1>4. CASE target = "shadow"
  BY <1>1, <1>2, <1>4 DEF Untouched, OnceIn, Tentative, SameQueue
<1>. QED
  BY <1>3, <1>4

LEMMA ConfirmEnqueue ==
  ASSUME TypeOK, NEW c \in Coordinators, NEW t \in Tasks, Tentative(c, t),
         Enqueue(c, t, "main", "DDL_CDF_NonBlock"), served' = served
  PROVE  /\ OnceIn(c, t)' /\ missed' = missed
         /\ \A d \in Coordinators, u \in Tasks : ~ (d = c /\ u = t) => SameQueue(d, u)
<1>1. /\ main \in [Coordinators -> [Tasks -> Nat]] /\ shadow \in [Coordinators -> SUBSET Tasks]
      /\ missed \in [Coordinators -> SUBSET Tasks]
  BY DEF TypeOK
<1>2. CASE t \in indexed[c]
  <2>1. /\ main' = [main EXCEPT ![c][t] = @ + 1]
        /\ shadow' = [shadow EXCEPT ![c] = @ \ {t}]
        /\ UNCHANGED <<indexed, missed>>
    BY <1>2 DEF Enqueue
  <2>. QED
    BY <1>1, <1>2, <2>1 DEF Tentative, OnceIn, SameQueue
<1>3. CASE t \notin indexed[c]
  <2>1. served[c][t] = 1
    BY <1>3 DEF Tentative, OnceIn
  <2>2. /\ missed' = [missed EXCEPT ![c] = IF served[c][t] = 0 THEN @ \cup {t} ELSE @]
        /\ UNCHANGED <<main, shadow, indexed>>
    BY <1>3 DEF Enqueue
  <2>3. missed' = missed
    BY <1>1, <2>1, <2>2
  <2>. QED
    BY <1>3, <2>2, <2>3 DEF Tentative, OnceIn, SameQueue
<1>. QED
  BY <1>2, <1>3
-----------------------------------------------------------------------------
(* Steps of the initiator. *)

(* A phase of one task is entered: other tasks do not notice.              *)
LEMMA AdvanceEffect ==
  ASSUME TypeOK, NEW t \in Tasks, NEW ph, Advance(t, ph)
  PROVE  phase'[t] = ph /\ \A u \in Tasks : u # t => phase'[u] = phase[u]
  BY DEF TypeOK, Advance

Rest == \A u \in Tasks : OwnInv(u) /\ \A n \in Neighbors : Pair(u, n)

(* The initiator moves on with a task that keeps its own invariant; its    *)
(* answers, its phase and its queue may change, its pairs do not see it.   *)
LEMMA InitiatorStep ==
  ASSUME TypeOK, Rest, NEW t \in Tasks, OwnInv(t)',
         UNCHANGED <<mech, net, handlers, known>>,
         \A u \in Tasks : u # t =>
           phase'[u] = phase[u] /\ \A n \in Neighbors : responses'[u][n] = responses[u][n],
         \A c \in Coordinators, u \in Tasks : ~ (c = self /\ u = t) => SameQueue(c, u),
         phase'[t] \in Early <=> phase[t] \in Early,
         NonBlocking(t) => /\ \A n \in Neighbors : responses'[t][n] = responses[t][n]
                           /\ phase'[t] \in Late <=> phase[t] \in Late
  PROVE  Rest'
<1>1. ASSUME NEW u \in Tasks, NEW n \in Neighbors
      PROVE  Pair(u, n)'
  <2>1. SameTokens(u, n) /\ SameQueue(n, u) /\ known'[n][u] = known[n][u] /\ Pair(u, n)
    BY BudgetNegotiationAssumption DEF SameTokens, Msgs, Hands, Coordinators, Rest
  <2>2. CASE u = t
    BY <2>1, <2>2, PairFrame
  <2>3. CASE u # t
    BY <2>1, <2>3, PairSame DEF SamePair
  <2>. QED
    BY <2>2, <2>3
<1>2. ASSUME NEW u \in Tasks
      PROVE  OwnInv(u)'
  <2>1. CASE u # t
    <3>1. SameQueue(self, u) /\ OwnInv(u)
      BY <2>1 DEF Coordinators, Rest
    <3>. QED
      BY <2>1, <3>1, OwnFrame
  <2>. QED
    BY <2>1
<1>. QED
  BY <1>1, <1>2 DEF Rest

LEMMA QueuesUnchanged ==
  ASSUME UNCHANGED <<main, shadow, indexed, served>>
  PROVE  \A c, t : SameQueue(c, t)
  BY DEF SameQueue

LEMMA Modes ==
  ASSUME mech' = mech, NEW t
  PROVE  /\ Negotiation(t)' = Negotiation(t) /\ NonBlocking(t)' = NonBlocking(t)
         /\ Blocking(t)' = Blocking(t) /\ FirstPhase(t)' = FirstPhase(t)
  BY DEF Negotiation, NonBlocking, Blocking, FirstPhase

LEMMA EvaluateStep ==
  ASSUME TypeOK, Rest, NEW t \in Tasks, evaluateCollaborativeTasks(t)
  PROVE  Rest'
<1>1. \A c, u : SameQueue(c, u)
  BY QueuesUnchanged DEF evaluateCollaborativeTasks
<1>2. OwnInv(t) /\ phase[t] = "new" /\ mech' = mech
  BY DEF Rest, evaluateCollaborativeTasks
<1>3. Untouched(self, t)'
  BY <1>1, <1>2, QueueFrame DEF OwnInv, Early
<1>4. CASE Blocking(t)
  <2>1. responses' = [responses EXCEPT ![t] = [n \in Neighbors |-> "pending"]] /\ Advance(t, "asking")
    BY <1>4 DEF evaluateCollaborativeTasks, Blocking
  <2>2. phase'[t] = "asking" /\ \A u \in Tasks : u # t => phase'[u] = phase[u]
    BY <2>1, AdvanceEffect
  <2>3. ~ NonBlocking(t) /\ ~ NonBlocking(t)' /\ Blocking(t)'
    BY <1>2, <1>4, Modes DEF Blocking, NonBlocking
  <2>4. OwnInv(t)'
    BY <1>3, <2>2, <2>3 DEF OwnInv, Early
  <2>5. \A u \in Tasks : u # t => \A n \in Neighbors : responses'[u][n] = responses[u][n]
    BY <2>1 DEF TypeOK
  <2>. QED
    BY <1>1, <1>2, <2>2, <2>3, <2>4, <2>5, InitiatorStep DEF evaluateCollaborativeTasks, Early
<1>5. CASE ~ Blocking(t)
  <2>1. responses' = responses /\ Advance(t, "accepted")
    BY <1>5 DEF evaluateCollaborativeTasks, Blocking
  <2>2. phase'[t] = "accepted" /\ \A u \in Tasks : u # t => phase'[u] = phase[u]
    BY <2>1, AdvanceEffect
  <2>3. NonBlocking(t)' = NonBlocking(t) /\ ~ Blocking(t)'
    BY <1>2, <1>5, Modes
  <2>4. OwnInv(t)'
    BY <1>2, <1>3, <2>1, <2>2, <2>3 DEF OwnInv, Early
  <2>. QED
    BY <1>1, <1>2, <2>1, <2>2, <2>4, InitiatorStep DEF evaluateCollaborativeTasks, Early, Late
<1>. QED
  BY <1>4, <1>5

LEMMA InquiryStep ==
  ASSUME TypeOK, Rest, NEW t \in Tasks, NEW n \in Neighbors, inquiryBudget(t, n)
  PROVE  Rest'
<1>1. \A c, u : SameQueue(c, u)
  BY QueuesUnchanged DEF inquiryBudget
<1>2. OwnInv(t) /\ phase[t] = "asking" /\ mech' = mech /\ phase' = phase
  BY DEF Rest, inquiryBudget
<1>3. Untouched(self, t)'
  BY <1>1, <1>2, QueueFrame DEF OwnInv, Early
<1>4. ~ NonBlocking(t) /\ ~ NonBlocking(t)' /\ Blocking(t)' = Blocking(t)
  BY <1>2, Modes DEF OwnInv
<1>5. OwnInv(t)'
  BY <1>2, <1>3, <1>4 DEF OwnInv, Early
<1>6. \A u \in Tasks : u # t => \A k \in Neighbors : responses'[u][k] = responses[u][k]
  BY DEF TypeOK, inquiryBudget
<1>. QED
  BY <1>1, <1>2, <1>4, <1>5, <1>6, InitiatorStep DEF inquiryBudget

LEMMA CallbackStep ==
  ASSUME TypeOK, Rest, NEW t \in Tasks, CallbackOfNegotiation(t)
  PROVE  Rest'
<1>1. \A c, u : SameQueue(c, u)
  BY QueuesUnchanged DEF CallbackOfNegotiation
<1>2. OwnInv(t) /\ phase[t] = "asking" /\ mech' = mech /\ responses' = responses /\ AllAnswered(t)
  BY DEF Rest, CallbackOfNegotiation
<1>3. Untouched(self, t)'
  BY <1>1, <1>2, QueueFrame DEF OwnInv, Early
<1>4. ~ NonBlocking(t) /\ ~ NonBlocking(t)'
  BY <1>2, Modes DEF OwnInv
<1>5. phase'[t] = "accepted" /\ \A u \in Tasks : u # t => phase'[u] = phase[u]
  BY AdvanceEffect DEF CallbackOfNegotiation
<1>6. OwnInv(t)'
  BY <1>2, <1>3, <1>4, <1>5 DEF OwnInv, Early, AllAnswered
<1>. QED
  BY <1>1, <1>2, <1>4, <1>5, <1>6, InitiatorStep DEF CallbackOfNegotiation, Early

LEMMA RejectOwnStep ==
  ASSUME TypeOK, Rest, NEW t \in Tasks, RejectOwn(t)
  PROVE  Rest'
<1>1. \A c, u : SameQueue(c, u)
  BY QueuesUnchanged DEF RejectOwn
<1>2. OwnInv(t) /\ phase[t] = "accepted" /\ mech' = mech /\ responses' = responses
  BY DEF Rest, RejectOwn
<1>3. Untouched(self, t)'
  BY <1>1, <1>2, QueueFrame DEF OwnInv, Early
<1>4. NonBlocking(t)' = NonBlocking(t) /\ Blocking(t)' = Blocking(t)
  BY <1>2, Modes
<1>5. phase'[t] = "rejected" /\ \A u \in Tasks : u # t => phase'[u] = phase[u]
  BY AdvanceEffect DEF RejectOwn
<1>6. OwnInv(t)'
  BY <1>2, <1>3, <1>4, <1>5 DEF OwnInv, Early, AllAnswered
<1>. QED
  BY <1>1, <1>2, <1>5, <1>6, InitiatorStep DEF RejectOwn, Early, Late

LEMMA PublishStep ==
  ASSUME TypeOK, Rest, NEW t \in Tasks, SetBudgetNegotiationCache(t)
  PROVE  Rest'
<1>1. \A c, u : SameQueue(c, u)
  BY QueuesUnchanged DEF SetBudgetNegotiationCache
<1>2. OwnInv(t) /\ phase[t] = "publish" /\ mech' = mech /\ responses' = responses
  BY DEF Rest, SetBudgetNegotiationCache
<1>3. Untouched(self, t)'
  BY <1>1, <1>2, QueueFrame DEF OwnInv, Early
<1>4. NonBlocking(t) /\ NonBlocking(t)' /\ ~ Blocking(t)'
  BY <1>2, Modes DEF OwnInv, NonBlocking, Blocking
<1>5. phase'[t] = "enqueue" /\ \A u \in Tasks : u # t => phase'[u] = phase[u]
  BY AdvanceEffect DEF SetBudgetNegotiationCache
<1>6. OwnInv(t)'
  BY <1>2, <1>3, <1>4, <1>5 DEF OwnInv, Early, Late
<1>. QED
  BY <1>1, <1>2, <1>4, <1>5, <1>6, InitiatorStep DEF SetBudgetNegotiationCache, Early, Late

LEMMA EnqueueOwnStep ==
  ASSUME TypeOK, Rest, NEW t \in Tasks, EnqueueOwn(t)
  PROVE  Rest' /\ missed' = missed
<1>. DEFINE target == TargetQueue(Negotiation(t), PhaseOf(t, FALSE), FALSE)
<1>1. OwnInv(t) /\ phase[t] = "enqueue" /\ mech' = mech /\ responses' = responses
  BY DEF Rest, EnqueueOwn
<1>2. Untouched(self, t) /\ self \in Coordinators
  BY <1>1 DEF OwnInv, Coordinators
<1>3. target = IF NonBlocking(t) THEN "shadow" ELSE "main"
  BY DEF TargetQueue, PhaseOf, NonBlocking
<1>4. /\ OnceIn(self, t)' /\ (NonBlocking(t) => Tentative(self, t)') /\ missed' = missed
      /\ \A d \in Coordinators, u \in Tasks : ~ (d = self /\ u = t) => SameQueue(d, u)
  <2>1. Enqueue(self, t, target, Negotiation(t)) /\ served' = served
    BY DEF EnqueueOwn
  <2>2. target \in {"main", "shadow"} /\ ~ (target = "main" /\ Negotiation(t) = "DDL_CDF_NonBlock")
        /\ (target = "shadow" <=> NonBlocking(t))
    BY <1>3 DEF NonBlocking
  <2>. HIDE DEF target
  <2>. QED
    BY <1>2, <2>1, <2>2, FirstEnqueue
<1>5. phase'[t] = (IF NonBlocking(t) THEN "waiting" ELSE "done") /\ \A u \in Tasks : u # t => phase'[u] = phase[u]
  BY AdvanceEffect DEF EnqueueOwn, NonBlocking
<1>6. NonBlocking(t)' = NonBlocking(t) /\ Blocking(t)' = Blocking(t)
  BY <1>1, Modes
<1>7. OwnInv(t)'
  BY <1>1, <1>4, <1>5, <1>6 DEF OwnInv, Early, Late, AllAnswered
<1>. QED
  BY <1>1, <1>4, <1>5, <1>7, InitiatorStep DEF EnqueueOwn, Early, Late

LEMMA ConfirmOwnStep ==
  ASSUME TypeOK, Rest, NEW t \in Tasks, ConfirmOwn(t)
  PROVE  Rest' /\ missed' = missed
<1>1. OwnInv(t) /\ phase[t] = "confirm" /\ mech' = mech /\ responses' = responses
  BY DEF Rest, ConfirmOwn
<1>2. Tentative(self, t) /\ self \in Coordinators /\ NonBlocking(t)
  BY <1>1 DEF OwnInv, Coordinators
<1>3. Enqueue(self, t, "main", "DDL_CDF_NonBlock") /\ served' = served
  BY <1>2 DEF ConfirmOwn, TargetQueue, NonBlocking
<1>4. /\ OnceIn(self, t)' /\ missed' = missed
      /\ \A d \in Coordinators, u \in Tasks : ~ (d = self /\ u = t) => SameQueue(d, u)
  BY <1>2, <1>3, ConfirmEnqueue
<1>5. phase'[t] = "done" /\ \A u \in Tasks : u # t => phase'[u] = phase[u]
  BY AdvanceEffect DEF ConfirmOwn
<1>6. NonBlocking(t)' /\ ~ Blocking(t)'
  BY <1>1, <1>2, Modes DEF NonBlocking, Blocking
<1>7. OwnInv(t)'
  BY <1>1, <1>2, <1>4, <1>5, <1>6 DEF OwnInv, Early, Late
<1>. QED
  BY <1>1, <1>4, <1>5, <1>7, InitiatorStep DEF ConfirmOwn, Early, Late
-----------------------------------------------------------------------------
(* Steps of one task at one neighbor. *)

LEMMA PairStep ==
  ASSUME TypeOK, Rest, NEW t \in Tasks, NEW n \in Neighbors, Pair(t, n)', OwnInv(t)',
         mech' = mech, phase' = phase,
         \A u \in Tasks, k \in Neighbors : ~ (u = t /\ k = n) =>
           SameTokens(u, k) /\ known'[k][u] = known[k][u] /\ responses'[u][k] = responses[u][k],
         \A c \in Coordinators, u \in Tasks : ~ (c = n /\ u = t) => SameQueue(c, u)
  PROVE  Rest'
<1>1. ASSUME NEW u \in Tasks, NEW k \in Neighbors
      PROVE  Pair(u, k)'
  <2>1. CASE ~ (u = t /\ k = n)
    <3>1. SameQueue(k, u) /\ Pair(u, k)
      BY <2>1 DEF Coordinators, Rest
    <3>2. SamePair(u, k)
      BY <2>1, <3>1 DEF SamePair
    <3>. QED
      BY <3>1, <3>2, PairSame
  <2>. QED
    BY <2>1
<1>2. ASSUME NEW u \in Tasks
      PROVE  OwnInv(u)'
  <2>1. CASE u # t
    <3>1. SameQueue(self, u) /\ OwnInv(u)
      BY <2>1 DEF Coordinators, Rest
    <3>. QED
      BY <2>1, <3>1, OwnFrame
  <2>. QED
    BY <2>1
<1>. QED
  BY <1>1, <1>2 DEF Rest

LEMMA OnlyMessage ==
  ASSUME TypeOK, Rest, NEW m \in net
  PROVE  /\ m \in Message /\ m.task \in Tasks /\ m.node \in Neighbors
         /\ Pair(m.task, m.node) /\ OwnInv(m.task) /\ MsgInv(m)
         /\ Msgs(m.task, m.node) = {m} /\ Hands(m.task, m.node) = {}
<1>1. m \in Message /\ m.task \in Tasks /\ m.node \in Neighbors
  BY DEF TypeOK, Message
<1>2. Pair(m.task, m.node) /\ OwnInv(m.task) /\ m \in Msgs(m.task, m.node)
  BY <1>1 DEF Rest, Msgs
<1>. QED
  BY <1>1, <1>2 DEF Pair

LEMMA OnlyHandler ==
  ASSUME TypeOK, Rest, NEW h \in handlers
  PROVE  /\ h \in Handling /\ h.task \in Tasks /\ h.node \in Neighbors
         /\ Pair(h.task, h.node) /\ OwnInv(h.task) /\ HandInv(h)
         /\ Hands(h.task, h.node) = {h} /\ Msgs(h.task, h.node) = {}
<1>1. h \in Handling /\ h.task \in Tasks /\ h.node \in Neighbors
  BY DEF TypeOK, Handling
<1>2. Pair(h.task, h.node) /\ OwnInv(h.task) /\ h \in Hands(h.task, h.node)
  BY <1>1 DEF Rest, Hands
<1>. QED
  BY <1>1, <1>2 DEF Pair

(* A handler goes on or returns; nobody else's changes.                    *)
LEMMA HandlerGoes ==
  ASSUME NEW h \in Handling, Hands(h.task, h.node) = {h}, NEW pc, Goto(h, pc)
  PROVE  /\ Hands(h.task, h.node)' = {[h EXCEPT !.pc = pc]}
         /\ \A u \in Tasks, k \in Neighbors :
              ~ (u = h.task /\ k = h.node) => Hands(u, k)' = Hands(u, k)
<1>. DEFINE g == [h EXCEPT !.pc = pc]
<1>1. g.task = h.task /\ g.node = h.node
  BY DEF Handling
<1>2. handlers' = (handlers \ {h}) \cup {g}
  BY DEF Goto
<1>. HIDE DEF g
<1>3. Hands(h.task, h.node)' = {g}
  BY <1>1, <1>2 DEF Hands
<1>4. \A u \in Tasks, k \in Neighbors : ~ (u = h.task /\ k = h.node) => Hands(u, k)' = Hands(u, k)
  BY <1>1, <1>2 DEF Hands
<1>. QED
  BY <1>3, <1>4 DEF g

LEMMA HandlerReturns ==
  ASSUME NEW h \in Handling, Hands(h.task, h.node) = {h}, Return(h)
  PROVE  /\ Hands(h.task, h.node)' = {}
         /\ \A u \in Tasks, k \in Neighbors :
              ~ (u = h.task /\ k = h.node) => Hands(u, k)' = Hands(u, k)
  BY DEF Hands, Return

LEMMA CacheTaskStep ==
  ASSUME TypeOK, Rest, NEW h \in handlers, CacheTask(h)
  PROVE  Rest'
<1>. DEFINE t == h.task
            n == h.node
            g == [h EXCEPT !.pc = "enqueue"]
<1>1. /\ h \in Handling /\ t \in Tasks /\ n \in Neighbors /\ n \in Coordinators
      /\ Pair(t, n) /\ OwnInv(t) /\ HandInv(h) /\ Hands(t, n) = {h} /\ Msgs(t, n) = {}
  BY OnlyHandler DEF Coordinators
<1>2. /\ Hands(t, n)' = {g}
      /\ \A u \in Tasks, k \in Neighbors : ~ (u = t /\ k = n) => Hands(u, k)' = Hands(u, k)
  BY <1>1, HandlerGoes DEF CacheTask
<1>3. g.task = t /\ g.node = n /\ g.pc = "enqueue" /\ h.pc = "cache"
  BY <1>1 DEF Handling, CacheTask
<1>4. UNCHANGED <<mech, phase, responses, net, main, shadow, indexed, served>>
  BY DEF CacheTask
<1>5. \A c, u : SameQueue(c, u)
  BY <1>4, QueuesUnchanged
<1>6. \A u, k : Msgs(u, k)' = Msgs(u, k)
  BY <1>4 DEF Msgs
<1>7. Fresh(t, n) /\ h.phase = FirstPhase(t) /\ known[n][t] = "absent"
  BY <1>1, <1>3 DEF HandInv
<1>8. known'[n][t] = FirstPhase(t) /\ \A u \in Tasks, k \in Neighbors : ~ (u = t /\ k = n) => known'[k][u] = known[k][u]
  BY <1>1, <1>7 DEF CacheTask, TypeOK
<1>. HIDE DEF t, n, g
<1>9. NonBlocking(t)' = NonBlocking(t) /\ FirstPhase(t)' = FirstPhase(t)
  BY <1>4, Modes
<1>10. Untouched(n, t) /\ Untouched(n, t)'
  BY <1>5, <1>7, QueueFrame DEF Fresh
<1>11. Fresh(t, n)'
  BY <1>4, <1>7, <1>9, <1>10 DEF Fresh
<1>12. HandInv(g)'
  BY <1>3, <1>8, <1>9, <1>11 DEF HandInv
<1>13. Pair(t, n)'
  BY <1>1, <1>2, <1>4, <1>6, <1>7, <1>8, <1>9, <1>10, <1>12 DEF Pair, Fresh, Untouched
<1>14. OwnInv(t)'
  BY <1>1, <1>4, <1>5, OwnFrame
<1>. QED
  BY <1>1, <1>2, <1>4, <1>5, <1>6, <1>8, <1>13, <1>14, PairStep DEF SameTokens

LEMMA RejectTaskStep ==
  ASSUME TypeOK, Rest, NEW h \in handlers, RejectTask(h)
  PROVE  Rest'
<1>. DEFINE t == h.task
            n == h.node
<1>1. /\ h \in Handling /\ t \in Tasks /\ n \in Neighbors
      /\ Pair(t, n) /\ OwnInv(t) /\ HandInv(h) /\ Hands(t, n) = {h} /\ Msgs(t, n) = {}
  BY OnlyHandler
<1>2. /\ Hands(t, n)' = {}
      /\ \A u \in Tasks, k \in Neighbors : ~ (u = t /\ k = n) => Hands(u, k)' = Hands(u, k)
  BY <1>1, HandlerReturns DEF RejectTask
<1>3. UNCHANGED <<mech, phase, responses, net, known, main, shadow, indexed, served>>
  BY DEF RejectTask
<1>4. Fresh(t, n)
  BY <1>1 DEF HandInv, RejectTask
<1>. HIDE DEF t, n
<1>5. \A c, u : SameQueue(c, u)
  BY <1>3, QueuesUnchanged
<1>6. \A u, k : Msgs(u, k)' = Msgs(u, k)
  BY <1>3 DEF Msgs
<1>7. NonBlocking(t)' = NonBlocking(t) /\ FirstPhase(t)' = FirstPhase(t)
  BY <1>3, Modes
<1>8. Untouched(n, t)' /\ main'[n][t] = main[n][t]
  BY <1>4, <1>5, QueueFrame DEF Fresh, SameQueue
<1>9. Pair(t, n)'
  BY <1>1, <1>2, <1>3, <1>4, <1>6, <1>7, <1>8 DEF Pair, Fresh
<1>10. OwnInv(t)'
  BY <1>1, <1>3, <1>5, OwnFrame
<1>. QED
  BY <1>1, <1>2, <1>3, <1>5, <1>6, <1>9, <1>10, PairStep DEF SameTokens

LEMMA EnqueueAcceptedStep ==
  ASSUME TypeOK, Rest, NEW h \in handlers, EnqueueAccepted(h)
  PROVE  Rest' /\ missed' = missed
<1>. DEFINE t == h.task
            n == h.node
            g == [h EXCEPT !.pc = "report"]
            target == TargetQueue(Negotiation(t), known[n][t], FALSE)
<1>1. /\ h \in Handling /\ t \in Tasks /\ n \in Neighbors /\ n \in Coordinators /\ n # self
      /\ Pair(t, n) /\ OwnInv(t) /\ HandInv(h) /\ Hands(t, n) = {h} /\ Msgs(t, n) = {}
  BY OnlyHandler, BudgetNegotiationAssumption DEF Coordinators
<1>2. /\ Hands(t, n)' = (IF NonBlocking(t) THEN {g} ELSE {})
      /\ \A u \in Tasks, k \in Neighbors : ~ (u = t /\ k = n) => Hands(u, k)' = Hands(u, k)
  BY <1>1, HandlerGoes, HandlerReturns DEF EnqueueAccepted, NonBlocking
<1>3. g.task = t /\ g.node = n /\ g.pc = "report" /\ h.pc = "enqueue"
  BY <1>1 DEF Handling, EnqueueAccepted
<1>4. UNCHANGED <<mech, phase, responses, net, known, served>>
  BY DEF EnqueueAccepted
<1>5. Enqueue(n, t, target, Negotiation(t))
  BY DEF EnqueueAccepted
<1>6. Fresh(t, n) /\ known[n][t] = FirstPhase(t)
  BY <1>1, <1>3 DEF HandInv
<1>. HIDE DEF t, n, g
<1>7. target = IF NonBlocking(t) THEN "shadow" ELSE "main"
  BY <1>6 DEF TargetQueue, NonBlocking, FirstPhase
<1>8. /\ OnceIn(n, t)' /\ (NonBlocking(t) => Tentative(n, t)') /\ missed' = missed
      /\ \A d \in Coordinators, u \in Tasks : ~ (d = n /\ u = t) => SameQueue(d, u)
  <2>1. target \in {"main", "shadow"} /\ ~ (target = "main" /\ Negotiation(t) = "DDL_CDF_NonBlock")
        /\ (target = "shadow" <=> NonBlocking(t)) /\ Untouched(n, t)
    BY <1>6, <1>7 DEF NonBlocking, Fresh
  <2>. HIDE DEF target
  <2>. QED
    BY <1>1, <1>4, <1>5, <2>1, FirstEnqueue
<1>9. NonBlocking(t)' = NonBlocking(t) /\ FirstPhase(t)' = FirstPhase(t)
  BY <1>4, Modes
<1>10. \A u, k : Msgs(u, k)' = Msgs(u, k)
  BY <1>4 DEF Msgs
<1>11. NonBlocking(t) => Reserved(t, n)' /\ HandInv(g)'
  BY <1>3, <1>4, <1>6, <1>8, <1>9 DEF HandInv, Reserved, Fresh
<1>12. Pair(t, n)'
  BY <1>1, <1>2, <1>4, <1>6, <1>8, <1>9, <1>10, <1>11 DEF Pair, Fresh, Tentative
<1>13. \A u \in Tasks : SameQueue(self, u)
  BY <1>1, <1>8 DEF Coordinators
<1>14. OwnInv(t)'
  BY <1>1, <1>4, <1>13, OwnFrame
<1>. QED
  BY <1>1, <1>2, <1>4, <1>8, <1>10, <1>12, <1>14, PairStep DEF SameTokens

LEMMA EnqueueConfirmedStep ==
  ASSUME TypeOK, Rest, NEW h \in handlers, EnqueueConfirmed(h)
  PROVE  Rest' /\ missed' = missed
<1>. DEFINE t == h.task
            n == h.node
<1>1. /\ h \in Handling /\ t \in Tasks /\ n \in Neighbors /\ n \in Coordinators /\ n # self
      /\ Pair(t, n) /\ OwnInv(t) /\ HandInv(h) /\ Hands(t, n) = {h} /\ Msgs(t, n) = {}
  BY OnlyHandler, BudgetNegotiationAssumption DEF Coordinators
<1>2. /\ Hands(t, n)' = {}
      /\ \A u \in Tasks, k \in Neighbors : ~ (u = t /\ k = n) => Hands(u, k)' = Hands(u, k)
  BY <1>1, HandlerReturns DEF EnqueueConfirmed
<1>3. UNCHANGED <<mech, phase, responses, net, known, served>>
  BY DEF EnqueueConfirmed
<1>4. Reserved(t, n) /\ phase[t] \in Late
  BY <1>1 DEF HandInv, EnqueueConfirmed
<1>5. Enqueue(n, t, "main", "DDL_CDF_NonBlock")
  BY <1>4 DEF EnqueueConfirmed, TargetQueue, Reserved, NonBlocking
<1>. HIDE DEF t, n
<1>6. /\ OnceIn(n, t)' /\ missed' = missed
      /\ \A d \in Coordinators, u \in Tasks : ~ (d = n /\ u = t) => SameQueue(d, u)
  BY <1>1, <1>3, <1>4, <1>5, ConfirmEnqueue DEF Reserved
<1>7. NonBlocking(t)' = NonBlocking(t) /\ FirstPhase(t)' = FirstPhase(t)
  BY <1>3, Modes
<1>8. \A u, k : Msgs(u, k)' = Msgs(u, k)
  BY <1>3 DEF Msgs
<1>9. Pair(t, n)'
  BY <1>1, <1>2, <1>3, <1>4, <1>6, <1>7, <1>8 DEF Pair, Late, Early
<1>10. \A u \in Tasks : SameQueue(self, u)
  BY <1>1, <1>6 DEF Coordinators
<1>11. OwnInv(t)'
  BY <1>1, <1>3, <1>10, OwnFrame
<1>. QED
  BY <1>1, <1>2, <1>3, <1>6, <1>8, <1>9, <1>11, PairStep DEF SameTokens

LEMMA ReportStep ==
  ASSUME TypeOK, Rest, NEW h \in handlers, ReportCDFtoInitiator(h)
  PROVE  Rest'
<1>. DEFINE t == h.task
            n == h.node
            m == [Request("cdf", t, n, "none") EXCEPT !.copy = h.copy]
<1>1. /\ h \in Handling /\ t \in Tasks /\ n \in Neighbors
      /\ Pair(t, n) /\ OwnInv(t) /\ HandInv(h) /\ Hands(t, n) = {h} /\ Msgs(t, n) = {}
  BY OnlyHandler
<1>2. /\ Hands(t, n)' = {}
      /\ \A u \in Tasks, k \in Neighbors : ~ (u = t /\ k = n) => Hands(u, k)' = Hands(u, k)
  BY <1>1, HandlerReturns DEF ReportCDFtoInitiator
<1>3. UNCHANGED <<mech, phase, responses, known, main, shadow, indexed, served>>
  BY DEF ReportCDFtoInitiator
<1>4. m.task = t /\ m.node = n /\ m.type = "cdf"
  BY DEF Request
<1>5. net' = net \cup {m}
  BY DEF ReportCDFtoInitiator
<1>6. Reserved(t, n) /\ phase[t] \notin Early /\ responses[t][n] # "cdf"
  BY <1>1 DEF HandInv, ReportCDFtoInitiator
<1>. HIDE DEF t, n, m
<1>7. /\ Msgs(t, n)' = {m}
      /\ \A u \in Tasks, k \in Neighbors : ~ (u = t /\ k = n) => Msgs(u, k)' = Msgs(u, k)
  BY <1>1, <1>4, <1>5 DEF Msgs
<1>8. \A c, u : SameQueue(c, u)
  BY <1>3, QueuesUnchanged
<1>9. NonBlocking(t)' = NonBlocking(t) /\ FirstPhase(t)' = FirstPhase(t)
  BY <1>3, Modes
<1>10. (Tentative(n, t)' <=> Tentative(n, t)) /\ (OnceIn(n, t)' <=> OnceIn(n, t)) /\ main'[n][t] = main[n][t]
       /\ (Untouched(n, t)' <=> Untouched(n, t))
  BY <1>8, QueueFrame DEF SameQueue
<1>11. Reserved(t, n)'
  BY <1>3, <1>6, <1>9, <1>10 DEF Reserved
<1>12. MsgInv(m)'
  BY <1>3, <1>4, <1>6, <1>11 DEF MsgInv
<1>13. Pair(t, n)'
  BY <1>1, <1>2, <1>3, <1>6, <1>7, <1>9, <1>10, <1>12 DEF Pair
<1>14. OwnInv(t)'
  BY <1>1, <1>3, <1>8, OwnFrame
<1>. QED
  BY <1>1, <1>2, <1>3, <1>7, <1>8, <1>13, <1>14, PairStep DEF SameTokens
-----------------------------------------------------------------------------
(* Requests that arrive, once, or are lost. *)

LEMMA MessageLeaves ==
  ASSUME NEW m \in Message, Msgs(m.task, m.node) = {m}, net' = net \ {m}
  PROVE  /\ Msgs(m.task, m.node)' = {}
         /\ \A u \in Tasks, k \in Neighbors :
              ~ (u = m.task /\ k = m.node) => Msgs(u, k)' = Msgs(u, k)
  BY DEF Msgs

LEMMA LoseStep ==
  ASSUME TypeOK, Rest, NEW m \in net, Lose(m)
  PROVE  Rest'
<1>. DEFINE t == m.task
            n == m.node
<1>1. /\ m \in Message /\ t \in Tasks /\ n \in Neighbors
      /\ Pair(t, n) /\ OwnInv(t) /\ Msgs(t, n) = {m} /\ Hands(t, n) = {}
  BY OnlyMessage
<1>2. /\ Msgs(t, n)' = {}
      /\ \A u \in Tasks, k \in Neighbors : ~ (u = t /\ k = n) => Msgs(u, k)' = Msgs(u, k)
  BY <1>1, MessageLeaves DEF Lose
<1>3. UNCHANGED <<mech, phase, responses, handlers, known, main, shadow, indexed, served>>
  BY DEF Lose
<1>. HIDE DEF t, n
<1>4. \A c, u : SameQueue(c, u)
  BY <1>3, QueuesUnchanged
<1>5. \A u, k : Hands(u, k)' = Hands(u, k)
  BY <1>3 DEF Hands
<1>6. NonBlocking(t)' = NonBlocking(t) /\ FirstPhase(t)' = FirstPhase(t)
  BY <1>3, Modes
<1>7. (Tentative(n, t)' <=> Tentative(n, t)) /\ (OnceIn(n, t)' <=> OnceIn(n, t)) /\ main'[n][t] = main[n][t]
      /\ (Untouched(n, t)' <=> Untouched(n, t))
  BY <1>4, QueueFrame DEF SameQueue
<1>8. Pair(t, n)'
  BY <1>1, <1>2, <1>3, <1>5, <1>6, <1>7 DEF Pair, Reserved
<1>9. OwnInv(t)'
  BY <1>1, <1>3, <1>4, OwnFrame
<1>. QED
  BY <1>1, <1>2, <1>3, <1>4, <1>5, <1>8, <1>9, PairStep DEF SameTokens

LEMMA CollectStep ==
  ASSUME TypeOK, Rest, NEW m \in net, CollectCDF(m), net' = net \ {m}
  PROVE  Rest'
<1>. DEFINE t == m.task
            n == m.node
<1>1. /\ m \in Message /\ t \in Tasks /\ n \in Neighbors
      /\ Pair(t, n) /\ OwnInv(t) /\ MsgInv(m) /\ Msgs(t, n) = {m} /\ Hands(t, n) = {}
  BY OnlyMessage
<1>2. /\ Msgs(t, n)' = {}
      /\ \A u \in Tasks, k \in Neighbors : ~ (u = t /\ k = n) => Msgs(u, k)' = Msgs(u, k)
  BY <1>1, MessageLeaves
<1>3. UNCHANGED <<mech, phase, handlers, known, main, shadow, indexed, served>>
  BY DEF CollectCDF
<1>4. responses' = responses \/ responses' = [responses EXCEPT ![t][n] = "cdf"]
  BY DEF CollectCDF
<1>5. Reserved(t, n) /\ phase[t] \notin Early /\ responses[t][n] # "cdf"
  BY <1>1 DEF MsgInv, CollectCDF
<1>. HIDE DEF t, n
<1>6. \A c, u : SameQueue(c, u)
  BY <1>3, QueuesUnchanged
<1>7. \A u, k : Hands(u, k)' = Hands(u, k)
  BY <1>3 DEF Hands
<1>8. NonBlocking(t)' = NonBlocking(t) /\ FirstPhase(t)' = FirstPhase(t) /\ Blocking(t)' = Blocking(t)
  BY <1>3, Modes
<1>9. (Tentative(n, t)' <=> Tentative(n, t)) /\ (OnceIn(n, t)' <=> OnceIn(n, t)) /\ main'[n][t] = main[n][t]
      /\ (Untouched(n, t)' <=> Untouched(n, t))
  BY <1>6, QueueFrame DEF SameQueue
<1>10. Reserved(t, n)'
  BY <1>3, <1>5, <1>8, <1>9 DEF Reserved
<1>11. Pair(t, n)'
  BY <1>1, <1>2, <1>3, <1>5, <1>7, <1>8, <1>9, <1>10 DEF Pair
<1>12. \A u \in Tasks, k \in Neighbors : ~ (u = t /\ k = n) => responses'[u][k] = responses[u][k]
  BY <1>1, <1>4 DEF TypeOK
<1>13. responses'[t][n] = responses[t][n] \/ responses'[t][n] = "cdf"
  BY <1>1, <1>4 DEF TypeOK
<1>14. /\ (Untouched(self, t)' <=> Untouched(self, t)) /\ (OnceIn(self, t)' <=> OnceIn(self, t))
       /\ (Tentative(self, t)' <=> Tentative(self, t))
  BY <1>6, QueueFrame
<1>15. OwnInv(t)'
  <2>1. NonBlocking(t) /\ ~ Blocking(t)
    BY <1>5 DEF Reserved, NonBlocking, Blocking
  <2>2. \A k \in Neighbors : responses'[t][k] = responses[t][k] \/ (k = n /\ responses'[t][k] = "cdf")
    BY <1>1, <1>12, <1>13
  <2>. QED
    BY <1>1, <1>3, <1>5, <1>8, <1>14, <2>1, <2>2 DEF OwnInv
<1>. QED
  BY <1>1, <1>2, <1>3, <1>6, <1>7, <1>11, <1>12, <1>15, PairStep DEF SameTokens

LEMMA TaskReceiverStep ==
  ASSUME TypeOK, Rest, NEW m \in net, TaskReceiver(m), net' = net \ {m}
  PROVE  Rest'
<1>. DEFINE t == m.task
            n == m.node
<1>1. /\ m \in Message /\ t \in Tasks /\ n \in Neighbors
      /\ Pair(t, n) /\ OwnInv(t) /\ MsgInv(m) /\ Msgs(t, n) = {m} /\ Hands(t, n) = {}
  BY OnlyMessage
<1>2. /\ Msgs(t, n)' = {}
      /\ \A u \in Tasks, k \in Neighbors : ~ (u = t /\ k = n) => Msgs(u, k)' = Msgs(u, k)
  BY <1>1, MessageLeaves
<1>3. UNCHANGED <<mech, phase, responses, known, main, shadow, indexed, served>>
  BY DEF TaskReceiver
<1>4. PICK h : /\ h.task = t /\ h.node = n /\ h.phase = m.phase
               /\ h.pc = (IF known[n][t] = "absent" THEN "cache" ELSE "confirm")
               /\ handlers' = handlers \cup {h}
  BY DEF TaskReceiver, Handler
<1>5. m.type = "task"
  BY DEF TaskReceiver
<1>6. \/ m.phase = FirstPhase(t) /\ Fresh(t, n) /\ known[n][t] = "absent"
      \/ Reserved(t, n) /\ phase[t] \in Late
  BY <1>1, <1>5 DEF MsgInv
<1>. HIDE DEF t, n
<1>7. /\ Hands(t, n)' = {h}
      /\ \A u \in Tasks, k \in Neighbors : ~ (u = t /\ k = n) => Hands(u, k)' = Hands(u, k)
  BY <1>1, <1>4, <1>5 DEF Hands
<1>8. \A c, u : SameQueue(c, u)
  BY <1>3, QueuesUnchanged
<1>9. NonBlocking(t)' = NonBlocking(t) /\ FirstPhase(t)' = FirstPhase(t)
  BY <1>3, Modes
<1>10. (Tentative(n, t)' <=> Tentative(n, t)) /\ (OnceIn(n, t)' <=> OnceIn(n, t)) /\ main'[n][t] = main[n][t]
       /\ (Untouched(n, t)' <=> Untouched(n, t))
  BY <1>8, QueueFrame DEF SameQueue
<1>11. (Reserved(t, n)' <=> Reserved(t, n)) /\ (Fresh(t, n)' <=> Fresh(t, n))
  BY <1>3, <1>9, <1>10 DEF Reserved, Fresh
<1>12. HandInv(h)'
  <2>1. CASE m.phase = FirstPhase(t) /\ Fresh(t, n) /\ known[n][t] = "absent"
    BY <1>3, <1>4, <1>9, <1>11, <2>1 DEF HandInv
  <2>2. CASE Reserved(t, n) /\ phase[t] \in Late
    <3>1. known[n][t] # "absent"
      BY <2>2 DEF Reserved, FirstPhase
    <3>. QED
      BY <1>3, <1>4, <1>11, <2>2, <3>1 DEF HandInv
  <2>. QED
    BY <1>6, <2>1, <2>2
<1>13. /\ phase[t] \notin Early
       /\ NonBlocking(t) /\ responses[t][n] = "cdf" => phase[t] \in Late
  BY <1>6 DEF Fresh, Early, Late
<1>14. Pair(t, n)'
  BY <1>1, <1>2, <1>3, <1>7, <1>9, <1>10, <1>12, <1>13 DEF Pair
<1>15. OwnInv(t)'
  BY <1>1, <1>3, <1>8, OwnFrame
<1>. QED
  BY <1>1, <1>2, <1>3, <1>7, <1>8, <1>14, <1>15, PairStep DEF SameTokens

LEMMA ReceiveStep ==
  ASSUME MaxRepeats = 0, TypeOK, Rest, NEW m \in net, Receive(m)
  PROVE  Rest' /\ missed' = missed
<1>1. net' = net \ {m}
  BY DEF Receive, TypeOK
<1>. QED
  BY <1>1, CollectStep, TaskReceiverStep DEF Receive, CollectCDF, TaskReceiver
-----------------------------------------------------------------------------
(* Requests of the initiator to all its neighbors. *)

LEMMA Requests ==
  ASSUME TypeOK, NEW t \in Tasks, NEW confirming \in BOOLEAN, dispatchNeighborTask(t, confirming),
         \A n \in Neighbors : Msgs(t, n) = {}
  PROVE  /\ \A u \in Tasks, k \in Neighbors : u # t => Msgs(u, k)' = Msgs(u, k)
         /\ \A n \in Neighbors : Msgs(t, n)' \subseteq {Request("task", t, n, PhaseOf(t, confirming))}
<1>1. net' = net \cup {Request("task", t, n, PhaseOf(t, confirming)) : n \in NeighborNodes(t)}
  BY DEF dispatchNeighborTask
<1>2. \A n : Request("task", t, n, PhaseOf(t, confirming)).task = t
             /\ Request("task", t, n, PhaseOf(t, confirming)).node = n
  BY DEF Request
<1>. QED
  BY <1>1, <1>2 DEF Msgs

LEMMA DispatchStep ==
  ASSUME TypeOK, Rest, NEW t \in Tasks, DispatchToNeighbors(t)
  PROVE  Rest'
<1>1. OwnInv(t) /\ (\A n \in Neighbors : Pair(t, n)) /\ phase[t] = "accepted"
  BY DEF Rest, DispatchToNeighbors
<1>2. \A n \in Neighbors : Msgs(t, n) = {} /\ Hands(t, n) = {} /\ known[n][t] = "absent" /\ Untouched(n, t)
  BY <1>1 DEF Pair, Early
<1>3. /\ \A u \in Tasks, k \in Neighbors : u # t => Msgs(u, k)' = Msgs(u, k)
      /\ \A n \in Neighbors : Msgs(t, n)' \subseteq {Request("task", t, n, PhaseOf(t, FALSE))}
  BY <1>2, Requests DEF DispatchToNeighbors
<1>4. UNCHANGED <<mech, handlers, known, main, shadow, indexed, served>>
  BY DEF DispatchToNeighbors
<1>5. /\ phase'[t] = IF NonBlocking(t) THEN "publish" ELSE "enqueue"
      /\ \A u \in Tasks : u # t => phase'[u] = phase[u]
  BY AdvanceEffect DEF DispatchToNeighbors, NonBlocking
<1>6. /\ NonBlocking(t) => \A n \in Neighbors : responses'[t][n] = "pending"
      /\ ~ NonBlocking(t) => \A n \in Neighbors : responses'[t][n] = responses[t][n]
      /\ \A u \in Tasks : u # t => \A n \in Neighbors : responses'[u][n] = responses[u][n]
  <2>1. CASE NonBlocking(t)
    <3>1. responses' = [responses EXCEPT ![t] = [n \in Neighbors |-> "pending"]]
      BY <2>1 DEF DispatchToNeighbors, NonBlocking
    <3>. QED
      BY <2>1, <3>1 DEF TypeOK
  <2>2. CASE ~ NonBlocking(t)
    BY <2>2 DEF DispatchToNeighbors, NonBlocking
  <2>. QED
    BY <2>1, <2>2
<1>7. \A c, u : SameQueue(c, u)
  BY <1>4, QueuesUnchanged
<1>8. \A u, k : Hands(u, k)' = Hands(u, k)
  BY <1>4 DEF Hands
<1>9. \A u : NonBlocking(u)' = NonBlocking(u) /\ FirstPhase(u)' = FirstPhase(u) /\ Blocking(u)' = Blocking(u)
  BY <1>4, Modes
<1>10. ASSUME NEW n \in Neighbors
       PROVE  Pair(t, n)'
  <2>1. Untouched(n, t)' /\ main'[n][t] = main[n][t]
    BY <1>2, <1>7, QueueFrame DEF SameQueue
  <2>2. Fresh(t, n)'
    BY <1>5, <1>6, <1>9, <2>1 DEF Fresh, Early
  <2>3. ASSUME NEW m \in Msgs(t, n)'
        PROVE  MsgInv(m)' /\ m = Request("task", t, n, PhaseOf(t, FALSE))
    <3>1. m = Request("task", t, n, PhaseOf(t, FALSE))
      BY <1>3
    <3>2. m.type = "task" /\ m.task = t /\ m.node = n /\ m.phase = FirstPhase(t) /\ m.phase # "confirm"
      BY <3>1 DEF Request, PhaseOf, FirstPhase, NonBlocking
    <3>. QED
      BY <1>2, <1>4, <1>9, <2>2, <3>1, <3>2 DEF MsgInv
  <2>4. phase'[t] \notin Early /\ (NonBlocking(t) => responses'[t][n] # "cdf") /\ known'[n][t] = "absent"
    BY <1>2, <1>4, <1>5, <1>6 DEF Early
  <2>. QED
    BY <1>2, <1>8, <1>9, <2>1, <2>3, <2>4 DEF Pair, Untouched
<1>11. OwnInv(t)'
  <2>1. Untouched(self, t)'
    BY <1>1, <1>7, QueueFrame DEF OwnInv, Early
  <2>2. CASE NonBlocking(t)
    <3>1. ~ Blocking(t)
      BY <2>2 DEF NonBlocking, Blocking
    <3>. QED
      BY <1>5, <1>6, <1>9, <2>1, <2>2, <3>1 DEF OwnInv, Early, Late
  <2>3. CASE ~ NonBlocking(t)
    BY <1>1, <1>5, <1>6, <1>9, <2>1, <2>3 DEF OwnInv, Early, Late, AllAnswered
  <2>. QED
    BY <2>2, <2>3
<1>12. ASSUME NEW u \in Tasks, u # t
       PROVE  OwnInv(u)' /\ \A n \in Neighbors : Pair(u, n)'
  <2>1. OwnInv(u)'
    BY <1>4, <1>5, <1>6, <1>7, <1>12, OwnFrame DEF Rest
  <2>2. ASSUME NEW n \in Neighbors
        PROVE  Pair(u, n)'
    <3>1. SamePair(u, n) /\ Pair(u, n)
      BY <1>3, <1>4, <1>5, <1>6, <1>7, <1>8, <1>12 DEF SamePair, SameTokens, Rest
    <3>. QED
      BY <1>4, <3>1, PairSame
  <2>. QED
    BY <2>1, <2>2
<1>. QED
  BY <1>10, <1>11, <1>12 DEF Rest

LEMMA ConfirmStep ==
  ASSUME TypeOK, Rest, NEW t \in Tasks, CheckBudgetNegotiationCache(t)
  PROVE  Rest'
<1>1. OwnInv(t) /\ (\A n \in Neighbors : Pair(t, n)) /\ phase[t] = "waiting" /\ AllAnswered(t)
  BY DEF Rest, CheckBudgetNegotiationCache
<1>2. NonBlocking(t) /\ \A n \in Neighbors : responses[t][n] = "cdf"
  BY <1>1 DEF OwnInv, AllAnswered, Early, Late
<1>3. \A n \in Neighbors : Msgs(t, n) = {} /\ Hands(t, n) = {} /\ Reserved(t, n)
  BY <1>1, <1>2 DEF Pair, Late
<1>4. /\ \A u \in Tasks, k \in Neighbors : u # t => Msgs(u, k)' = Msgs(u, k)
      /\ \A n \in Neighbors : Msgs(t, n)' \subseteq {Request("task", t, n, PhaseOf(t, TRUE))}
  BY <1>3, Requests DEF CheckBudgetNegotiationCache
<1>5. UNCHANGED <<mech, responses, handlers, known, main, shadow, indexed, served>>
  BY DEF CheckBudgetNegotiationCache
<1>6. phase'[t] = "confirm" /\ \A u \in Tasks : u # t => phase'[u] = phase[u]
  BY AdvanceEffect DEF CheckBudgetNegotiationCache
<1>7. \A c, u : SameQueue(c, u)
  BY <1>5, QueuesUnchanged
<1>8. \A u, k : Hands(u, k)' = Hands(u, k)
  BY <1>5 DEF Hands
<1>9. \A u : NonBlocking(u)' = NonBlocking(u) /\ FirstPhase(u)' = FirstPhase(u) /\ Blocking(u)' = Blocking(u)
  BY <1>5, Modes
<1>10. ASSUME NEW n \in Neighbors
       PROVE  Pair(t, n)'
  <2>1. (Tentative(n, t)' <=> Tentative(n, t)) /\ (OnceIn(n, t)' <=> OnceIn(n, t)) /\ main'[n][t] = main[n][t]
    BY <1>7, QueueFrame DEF SameQueue
  <2>2. Reserved(t, n)' /\ phase'[t] \in Late /\ phase'[t] \notin Early
    BY <1>3, <1>5, <1>6, <1>9, <2>1 DEF Reserved, Early, Late
  <2>3. ASSUME NEW m \in Msgs(t, n)'
        PROVE  MsgInv(m)' /\ m = Request("task", t, n, PhaseOf(t, TRUE))
    <3>1. m = Request("task", t, n, PhaseOf(t, TRUE))
      BY <1>4
    <3>2. m.type = "task" /\ m.task = t /\ m.node = n /\ m.phase = "confirm"
      BY <1>2, <3>1 DEF Request, PhaseOf, NonBlocking
    <3>. QED
      BY <2>2, <3>1, <3>2 DEF MsgInv
  <2>4. OnceIn(n, t)' /\ known'[n][t] = FirstPhase(t)
    BY <1>3, <1>5, <2>1 DEF Reserved, Tentative
  <2>. QED
    BY <1>3, <1>8, <1>9, <2>2, <2>3, <2>4 DEF Pair
<1>11. OwnInv(t)'
  <2>1. Tentative(self, t)' /\ ~ Blocking(t)
    BY <1>1, <1>2, <1>7, QueueFrame DEF OwnInv, NonBlocking, Blocking
  <2>. QED
    BY <1>2, <1>5, <1>6, <1>9, <2>1 DEF OwnInv, Early, Late
<1>12. ASSUME NEW u \in Tasks, u # t
       PROVE  OwnInv(u)' /\ \A n \in Neighbors : Pair(u, n)'
  <2>1. OwnInv(u)'
    BY <1>5, <1>6, <1>7, <1>12, OwnFrame DEF Rest
  <2>2. ASSUME NEW n \in Neighbors
        PROVE  Pair(u, n)'
    <3>1. SamePair(u, n) /\ Pair(u, n)
      BY <1>4, <1>5, <1>6, <1>7, <1>8, <1>12 DEF SamePair, SameTokens, Rest
    <3>. QED
      BY <1>5, <3>1, PairSame
  <2>. QED
    BY <2>1, <2>2
<1>. QED
  BY <1>10, <1>11, <1>12 DEF Rest
-----------------------------------------------------------------------------
LEMMA DequeueEffect ==
  ASSUME TypeOK, NEW c \in Coordinators, NEW t \in Tasks, Dequeue(c, t)
  PROVE  /\ OnceIn(c, t) => OnceIn(c, t)'
         /\ Tentative(c, t) => Tentative(c, t)'
         /\ ~ Untouched(c, t)
         /\ main[c][t] = 0 => main'[c][t] = 0
         /\ \A d \in Coordinators, u \in Tasks : ~ (d = c /\ u = t) => SameQueue(d, u)
<1>1. /\ main \in [Coordinators -> [Tasks -> Nat]] /\ shadow \in [Coordinators -> SUBSET Tasks]
      /\ indexed \in [Coordinators -> SUBSET Tasks] /\ served \in [Coordinators -> [Tasks -> Nat]]
  BY DEF TypeOK
<1>2. /\ indexed' = [indexed EXCEPT ![c] = @ \ {t}]
      /\ served' = [served EXCEPT ![c][t] = @ + 1]
  BY DEF Dequeue
<1>3. CASE main[c][t] > 0 /\ main' = [main EXCEPT ![c][t] = @ - 1] /\ UNCHANGED shadow
  BY <1>1, <1>2, <1>3 DEF OnceIn, Tentative, Untouched, SameQueue
<1>4. CASE /\ \A u \in Tasks : main[c][u] = 0
           /\ t \in shadow[c]
           /\ shadow' = [shadow EXCEPT ![c] = @ \ {t}]
           /\ UNCHANGED main
  BY <1>1, <1>2, <1>4 DEF OnceIn, Tentative, Untouched, SameQueue
<1>. QED
  BY <1>3, <1>4 DEF Dequeue

LEMMA DequeueStep ==
  ASSUME TypeOK, Rest, NEW c \in Coordinators, NEW t \in Tasks, Dequeue(c, t)
  PROVE  Rest'
<1>1. UNCHANGED <<mech, phase, responses, net, handlers, known>>
  BY DEF Dequeue
<1>2. OwnInv(t) /\ \A n \in Neighbors : Pair(t, n)
  BY DEF Rest
<1>3. \A u : NonBlocking(u)' = NonBlocking(u) /\ FirstPhase(u)' = FirstPhase(u) /\ Blocking(u)' = Blocking(u)
  BY <1>1, Modes
<1>4. (\A u, k : Msgs(u, k)' = Msgs(u, k)) /\ (\A u, k : Hands(u, k)' = Hands(u, k))
  BY <1>1 DEF Msgs, Hands
<1>5. CASE c = self
  <2>1. OwnInv(t)'
    BY <1>1, <1>2, <1>3, <1>5, DequeueEffect DEF OwnInv, Early, AllAnswered
  <2>. QED
    BY <1>1, <1>5, <2>1, InitiatorStep, DequeueEffect
<1>6. CASE c \in Neighbors
  <2>1. OnceIn(c, t) /\ OnceIn(c, t)'
    BY <1>2, <1>6, DequeueEffect DEF Pair
  <2>2. Reserved(t, c) => Reserved(t, c)'
    BY <1>1, <1>3, DequeueEffect DEF Reserved
  <2>3. ~ Fresh(t, c) /\ phase[t] \notin Early
    BY <1>2, <1>6, DequeueEffect DEF Fresh, Pair
  <2>4. \A m \in Msgs(t, c) : MsgInv(m)'
    <3>1. SUFFICES ASSUME NEW m \in Msgs(t, c)
                   PROVE  MsgInv(m)'
      OBVIOUS
    <3>2. MsgInv(m) /\ m.task = t /\ m.node = c
      BY <1>2, <1>6 DEF Pair, Msgs
    <3>. QED
      BY <1>1, <2>2, <2>3, <3>2 DEF MsgInv
  <2>5. \A h \in Hands(t, c) : HandInv(h)'
    <3>1. SUFFICES ASSUME NEW h \in Hands(t, c)
                   PROVE  HandInv(h)'
      OBVIOUS
    <3>2. HandInv(h) /\ h.task = t /\ h.node = c
      BY <1>2, <1>6 DEF Pair, Hands
    <3>. QED
      BY <1>1, <2>2, <2>3, <3>2 DEF HandInv
  <2>6. Pair(t, c)'
    BY <1>1, <1>2, <1>3, <1>4, <1>6, <2>1, <2>2, <2>3, <2>4, <2>5, DequeueEffect DEF Pair
  <2>7. SameQueue(self, t)
    BY <1>6, DequeueEffect, BudgetNegotiationAssumption DEF Coordinators
  <2>8. OwnInv(t)'
    BY <1>1, <1>2, <2>7, OwnFrame
  <2>. QED
    BY <1>1, <1>4, <1>6, <2>6, <2>8, PairStep, DequeueEffect DEF SameTokens
<1>. QED
  BY <1>5, <1>6 DEF Coordinators
-----------------------------------------------------------------------------
(* Theorem: the type invariant, however many requests are repeated or      *)
(* lost.                                                                   *)
THEOREM BudgetTypeCorrect == Spec => []TypeOK
<1>1. Init => TypeInv
  BY TypeInit
<1>2. TypeInv /\ [Next]_vars => TypeInv'
  BY TypeStep
<1>3. TypeInv => TypeOK
  BY DEF TypeInv
<1>. QED
  BY <1>1, <1>2, <1>3, PTL DEF Spec

LEMMA InitInv ==
  ASSUME Init
  PROVE  Inv
<1>1. TypeInv /\ ConfirmMissMeansServed
  BY TypeInit DEF Init, ConfirmMissMeansServed
<1>2. ASSUME NEW t \in Tasks
      PROVE  OwnInv(t)
  BY DEF Init, OwnInv, Untouched, Early, Coordinators
<1>3. ASSUME NEW t \in Tasks, NEW n \in Neighbors
      PROVE  Pair(t, n)
  BY DEF Init, Pair, Msgs, Hands, Untouched, Early, Coordinators
<1>. QED
  BY <1>1, <1>2, <1>3 DEF Inv

LEMMA StepInv ==
  ASSUME MaxRepeats = 0, Inv, [Next]_vars
  PROVE  Inv'
<1>0. TypeOK /\ Rest /\ ConfirmMissMeansServed
  BY DEF Inv, TypeInv, Rest
<1>1. TypeInv'
  BY TypeStep DEF Inv
<1>2. ASSUME NEW t \in Tasks, evaluateCollaborativeTasks(t) \/ Initiate(t)
      PROVE  Rest' /\ missed' = missed
  <2>1. CASE evaluateCollaborativeTasks(t)
    BY <1>0, <2>1, EvaluateStep DEF evaluateCollaborativeTasks
  <2>2. CASE CallbackOfNegotiation(t)
    BY <1>0, <2>2, CallbackStep DEF CallbackOfNegotiation
  <2>3. CASE DispatchToNeighbors(t)
    BY <1>0, <2>3, DispatchStep DEF DispatchToNeighbors
  <2>4. CASE SetBudgetNegotiationCache(t)
    BY <1>0, <2>4, PublishStep DEF SetBudgetNegotiationCache
  <2>5. CASE EnqueueOwn(t)
    BY <1>0, <2>5, EnqueueOwnStep
  <2>6. CASE CheckBudgetNegotiationCache(t)
    BY <1>0, <2>6, ConfirmStep DEF CheckBudgetNegotiationCache
  <2>7. CASE ConfirmOwn(t)
    BY <1>0, <2>7, ConfirmOwnStep
  <2>8. CASE \E n \in Neighbors : inquiryBudget(t, n)
    BY <1>0, <2>8, InquiryStep DEF inquiryBudget
  <2>9. CASE RejectOwn(t)
    BY <1>0, <2>9, RejectOwnStep DEF RejectOwn
  <2>. QED
    BY <1>2, <2>1, <2>2, <2>3, <2>4, <2>5, <2>6, <2>7, <2>8, <2>9 DEF Initiate
<1>3. ASSUME NEW m \in net, Receive(m) \/ Lose(m)
      PROVE  Rest' /\ missed' = missed
  BY <1>0, <1>3, ReceiveStep, LoseStep DEF Lose
<1>4. ASSUME NEW h \in handlers, Proceed(h)
      PROVE  Rest' /\ missed' = missed
  <2>1. CASE CacheTask(h)
    BY <1>0, <2>1, CacheTaskStep DEF CacheTask
  <2>2. CASE EnqueueAccepted(h)
    BY <1>0, <2>2, EnqueueAcceptedStep
  <2>3. CASE ReportCDFtoInitiator(h)
    BY <1>0, <2>3, ReportStep DEF ReportCDFtoInitiator
  <2>4. CASE EnqueueConfirmed(h)
    BY <1>0, <2>4, EnqueueConfirmedStep
  <2>5. CASE RejectTask(h)
    BY <1>0, <2>5, RejectTaskStep DEF RejectTask
  <2>. QED
    BY <1>4, <2>1, <2>2, <2>3, <2>4, <2>5 DEF Proceed
<1>5. ASSUME NEW c \in Coordinators, NEW t \in Tasks, Dequeue(c, t)
      PROVE  Rest' /\ missed' = missed
  BY <1>0, <1>5, DequeueStep DEF Dequeue
<1>6. ASSUME UNCHANGED vars
      PROVE  Rest' /\ missed' = missed
  <2>1. ASSUME NEW t \in Tasks
        PROVE  OwnInv(t)'
    <3>1. OwnInv(t) /\ SameQueue(self, t)
      BY <1>0, <1>6 DEF Rest, vars, SameQueue
    <3>. QED
      BY <1>6, <3>1, OwnFrame DEF vars
  <2>2. ASSUME NEW t \in Tasks, NEW n \in Neighbors
        PROVE  Pair(t, n)'
    <3>1. Pair(t, n) /\ SamePair(t, n)
      BY <1>0, <1>6 DEF Rest, vars, SamePair, SameTokens, SameQueue, Msgs, Hands
    <3>. QED
      BY <1>6, <3>1, PairSame DEF vars
  <2>3. missed' = missed
    BY <1>6 DEF vars
  <2>4. Rest'
    BY <2>1, <2>2 DEF Rest
  <2>. QED
    BY <2>3, <2>4
<1>7. Rest' /\ missed' = missed
  <2>1. CASE Next
    <3>. HIDE DEF queueVars, netVars, cacheVars
    <3>. QED
      BY <1>2, <1>3, <1>4, <1>5, <2>1 DEF Next
  <2>. QED
    BY <1>6, <2>1
<1>. QED
  BY <1>0, <1>1, <1>7 DEF Inv, Rest, ConfirmMissMeansServed

(* Theorem: with no repeated request, the inductive invariant of a         *)
(* negotiation holds for any number of tasks, neighbors and lost requests. *)
THEOREM BudgetInvariance ==
  ASSUME MaxRepeats = 0
  PROVE  Spec => []Inv
<1>1. Init => Inv
  BY InitInv
<1>2. Inv /\ [Next]_vars => Inv'
  BY StepInv
<1>. QED
  BY <1>1, <1>2, PTL DEF Spec

(* Theorem: with no repeated request, no subtask is in a main queue before *)
(* all answers of its negotiation are in.                                  *)
THEOREM NegotiatedCorrect ==
  ASSUME MaxRepeats = 0
  PROVE  Spec => []MainOnlyWhenNegotiated
<1>1. Inv => MainOnlyWhenNegotiated
  <2>1. SUFFICES ASSUME Inv, NEW c \in Coordinators, NEW t \in Tasks,
                        main[c][t] > 0, Negotiation(t) # "DDL_None"
                 PROVE  /\ phase[t] \notin {"new", "asking", "accepted", "publish", "waiting", "rejected"}
                        /\ \A n \in Neighbors : responses[t][n] # "pending"
    BY DEF MainOnlyWhenNegotiated
  <2>2. OwnInv(t) /\ \A n \in Neighbors : Pair(t, n)
    BY <2>1 DEF Inv
  <2>3. Blocking(t) \/ NonBlocking(t)
    BY <2>1, Negotiations DEF Inv, TypeInv, Blocking, NonBlocking
  <2>4. phase[t] \notin Early
    BY <2>1, <2>2 DEF OwnInv, Pair, Untouched, Coordinators, Early
  <2>5. CASE NonBlocking(t)
    <3>1. phase[t] \in {"new", "asking", "accepted", "publish", "enqueue", "waiting", "confirm", "done",
                    "rejected"}
      BY <2>1 DEF Inv, TypeInv, TypeOK
    <3>2. phase[t] \in Late
      BY <2>1, <2>2, <2>5, <3>1 DEF OwnInv, Pair, Untouched, Tentative, Coordinators, Early, Late
    <3>. QED
      BY <2>2, <2>4, <2>5, <3>2 DEF OwnInv, Late
  <2>6. CASE Blocking(t)
    <3>1. ~ NonBlocking(t)
      BY <2>6 DEF NonBlocking, Blocking
    <3>. QED
      BY <2>2, <2>4, <2>6, <3>1 DEF OwnInv, Early, AllAnswered
  <2>. QED
    BY <2>3, <2>5, <2>6
<1>. QED
  BY <1>1, BudgetInvariance, PTL

(* Theorem: with no repeated request, a confirmation that finds nothing to *)
(* confirm is one of a subtask that was dispatched already.                *)
THEOREM ConfirmCorrect ==
  ASSUME MaxRepeats = 0
  PROVE  Spec => []ConfirmMissMeansServed
<1>1. Inv => ConfirmMissMeansServed
  BY DEF Inv
<1>. QED
  BY <1>1, BudgetInvariance, PTL

(* Theorem: with no repeated request, nobody serves its share of a task    *)
(* twice.                                                                  *)
THEOREM OnceCorrect ==
  ASSUME MaxRepeats = 0
  PROVE  Spec => []ServedOnce
<1>1. Inv => ServedOnce
  <2>1. SUFFICES ASSUME Inv, NEW c \in Coordinators, NEW t \in Tasks
                 PROVE  served[c][t] <= 1
    BY DEF ServedOnce
  <2>2. OwnInv(t) /\ \A n \in Neighbors : Pair(t, n)
    BY <2>1 DEF Inv
  <2>3. phase[t] \in {"new", "asking", "accepted", "publish", "enqueue", "waiting", "confirm", "done",
                    "rejected"}
    BY <2>1 DEF Inv, TypeInv, TypeOK
  <2>4. Untouched(c, t) \/ OnceIn(c, t)
    BY <2>2, <2>3 DEF OwnInv, Pair, Tentative, Coordinators, Early
  <2>. QED
    BY <2>4 DEF Untouched, OnceIn
<1>. QED
  BY <1>1, BudgetInvariance, PTL
=============================================================================
