--------------------------- MODULE TaskLife_proofs ---------------------------
(***************************************************************************)
(* Safety of the life of a task (module TaskLife) for any number of tasks, *)
(* nodes, repeated and lost requests.                                      *)
(***************************************************************************)
EXTENDS TaskLife, TLAPS

(* Every subtask has a module entry; every entry has a subtask; every pod  *)
(* has finished its subtask.  None of the three is ever lost again.        *)
Cached(t) == \A s \in Subtasks : subtask[t][s] # "none"
Filled(t) == \A s \in Subtasks : subtask[t][s] \notin {"none", "empty"}
AllExecuted(t) == \A s \in Subtasks : executed[t][s] > 0

(* A request is repeated at most as often as any request was.              *)
CopiesCounted == \A m \in net : m.copy <= repeated

ArrivedCached == \A t \in Tasks : status[t] = "absent" => ~ Cached(t)

(* What a request says of the task it is about. *)
Sound(m) ==
  /\ Cached(m.task)
  /\ m.type = "provision" => m.from \in Nodes
  /\ m.type = "report" => executed[m.task][m.from] > 0

RequestInv == (\A m \in net : Sound(m)) /\ (\A h \in handlers : Sound(h.request))

(* What is known at each place of a handler's code. *)
HandlerInv ==
  \A h \in handlers :
    /\ h.pc = "setPod" => h.request.type = "provision"
    /\ h.pc \in {"run", "tell", "enqueue"} => Filled(h.request.task)
    /\ h.pc = "enqueue" => aggSent[h.request.task] > 0
    /\ h.pc \in {"save", "setIdle", "checkDone", "record"} => h.request.type = "report"
    /\ h.pc = "save" => h.request.outcome = "failed"
    /\ h.pc = "record" => AllExecuted(h.request.task)

(* Only a cached task is worked on, and by a worker only after every       *)
(* sub-node and the aggregator.                                            *)
WorkInv ==
  \A t \in Tasks :
    /\ aggSent[t] > 0 => Cached(t)
    /\ t \in informed => aggSent[t] > 0
    /\ \A n \in Nodes : t \in waiting[n] \/ sending[t][n] > 0 \/ atPod[t][n] > 0 => Cached(t)
    /\ \A n \in Workers :
         t \in waiting[n] \/ sending[t][n] > 0 \/ atPod[t][n] > 0 \/ executed[t][n] > 0 =>
           Filled(t) /\ aggSent[t] > 0

DoneInv ==
  \A t \in Tasks :
    /\ \A s \in Subtasks : subtask[t][s] = "done" => executed[t][s] > 0
    /\ status[t] = "done" \/ answered[t] > 0 => AllExecuted(t)

Inv ==
  /\ TypeOK /\ CopiesCounted
  /\ ArrivedCached /\ RequestInv /\ HandlerInv /\ WorkInv /\ DoneInv /\ BusyHasCause
-----------------------------------------------------------------------------
USE DEF cacheVars, netVars, podVars, aggVars, workVars

HandlerSet == [request : Requests, pc : Places, todo : SUBSET Nodes]

(* What a handler may be told by a request and its repetition alike. *)
Like(x, m) ==
  x.type = m.type /\ x.task = m.task /\ x.from = m.from /\ x.outcome = m.outcome

(* The arrival of a request: nothing new in the network but a repetition.  *)
LEMMA TakeEffect ==
  ASSUME TypeOK, CopiesCounted, NEW m \in net, Take(m)
  PROVE  /\ net' \subseteq Requests /\ repeated' \in 0 .. MaxRepeats /\ CopiesCounted'
         /\ \A x \in net' : x \in net \/ Like(x, m)
         /\ \A x \in net : x \in net' \/ x = m
<1>1. m \in Requests /\ m.copy \in Nat /\ m.copy <= repeated /\ repeated \in Nat
  BY TaskLifeAssumption DEF TypeOK, CopiesCounted, Requests
<1>2. CASE net' = net \ {m} /\ UNCHANGED repeated
  BY <1>2 DEF TypeOK, CopiesCounted
<1>3. CASE /\ repeated < MaxRepeats
           /\ repeated' = repeated + 1
           /\ net' = (net \ {m}) \cup {[m EXCEPT !.copy = @ + 1]}
  <2>. DEFINE c == [m EXCEPT !.copy = @ + 1]
  <2>1. c \in Requests /\ Like(c, m) /\ c.copy = m.copy + 1
    BY <1>1, <1>3, TaskLifeAssumption DEF Requests, Like
  <2>2. repeated' \in 0 .. MaxRepeats
    BY <1>1, <1>3, TaskLifeAssumption
  <2>. HIDE DEF c
  <2>3. net' = (net \ {m}) \cup {c}
    BY <1>3 DEF c
  <2>4. net' \subseteq Requests
    BY <2>1, <2>3 DEF TypeOK
  <2>5. CopiesCounted'
    <3>1. \A x \in net : x.copy \in Nat /\ x.copy <= repeated
      BY DEF TypeOK, CopiesCounted, Requests
    <3>. QED
      BY <1>1, <1>3, <2>1, <2>3, <3>1 DEF CopiesCounted
  <2>. QED
    BY <2>1, <2>2, <2>3, <2>4, <2>5
<1>. QED
  BY <1>2, <1>3 DEF Take

(* A request that arrives and is handled has one new handler.              *)
LEMMA DeliverEffect ==
  ASSUME TypeOK, CopiesCounted, NEW m \in net, NEW pc \in Places, Deliver(m, pc)
  PROVE  /\ net' \subseteq Requests /\ repeated' \in 0 .. MaxRepeats /\ CopiesCounted'
         /\ \A x \in net' : x \in net \/ Like(x, m)
         /\ \A x \in net : x \in net' \/ x = m
         /\ handlers' \subseteq HandlerSet
         /\ handlers' = handlers \cup {Handler(m, pc, {})}
         /\ LET g == Handler(m, pc, {}) IN g.request = m /\ g.pc = pc /\ g.todo = {}
<1>1. Handler(m, pc, {}) \in HandlerSet
  BY DEF Handler, HandlerSet, TypeOK
<1>2. LET g == Handler(m, pc, {}) IN g.request = m /\ g.pc = pc /\ g.todo = {}
  BY DEF Handler
<1>3. handlers' = handlers \cup {Handler(m, pc, {})} /\ Take(m)
  BY DEF Deliver
<1>4. handlers' \subseteq HandlerSet
  BY <1>1, <1>3 DEF TypeOK, HandlerSet
<1>. QED
  BY <1>2, <1>3, <1>4, TakeEffect

(* Handler h moves on to place pc, or is gone; the others stay.            *)
Moves(h, pc) ==
  /\ \A g \in handlers' : g \in handlers \/ (g.request = h.request /\ g.pc = pc)
  /\ \A g \in handlers : g = h \/ g \in handlers'

LEMMA GotoMoves ==
  ASSUME TypeOK, NEW h \in handlers, NEW pc \in Places, Goto(h, pc)
  PROVE  handlers' \subseteq HandlerSet /\ Moves(h, pc)
<1>. DEFINE moved == [h EXCEPT !.pc = pc]
<1>1. h \in HandlerSet /\ handlers \subseteq HandlerSet
  BY DEF TypeOK, HandlerSet
<1>2. moved \in HandlerSet /\ moved.request = h.request /\ moved.pc = pc
  BY <1>1 DEF HandlerSet
<1>3. handlers' = (handlers \ {h}) \cup {moved}
  BY DEF Goto
<1>. HIDE DEF moved
<1>. QED
  BY <1>1, <1>2, <1>3 DEF Moves

LEMMA ReturnMoves ==
  ASSUME TypeOK, NEW h \in handlers, Return(h)
  PROVE  handlers' \subseteq HandlerSet /\ Moves(h, h.pc)
  BY DEF TypeOK, Return, HandlerSet, Moves

(* Setting the status of a subtask loses neither entries nor subtasks.     *)
LEMMA SetSubtaskEffect ==
  ASSUME TypeOK, NEW t \in Tasks, NEW s \in Subtasks,
         NEW st \in {"accepted", "running", "done", "failed"}, SetSubtask(t, s, st)
  PROVE  /\ subtask' \in [Tasks -> [Subtasks ->
              {"none", "empty", "accepted", "running", "done", "failed"}]]
         /\ \A u \in Tasks, r \in Subtasks :
              subtask'[u][r] = IF u = t /\ r = s THEN st ELSE subtask[u][r]
         /\ \A u \in Tasks : (Cached(u) => Cached(u)') /\ (Filled(u) => Filled(u)')
         /\ \A u \in Tasks : u # t => (Cached(u)' => Cached(u))
<1>1. /\ subtask' \in [Tasks -> [Subtasks ->
              {"none", "empty", "accepted", "running", "done", "failed"}]]
      /\ \A u \in Tasks, r \in Subtasks :
              subtask'[u][r] = IF u = t /\ r = s THEN st ELSE subtask[u][r]
  BY DEF SetSubtask, TypeOK
<1>. QED
  BY <1>1 DEF Cached, Filled

-----------------------------------------------------------------------------
(* What the parts of the invariant that speak of requests and handlers     *)
(* need of a step that delivers a request, or moves a handler on, and      *)
(* keeps what is cached, filled, told and executed.                        *)
Keeps ==
  /\ \A t \in Tasks : (Cached(t) => Cached(t)') /\ (Filled(t) => Filled(t)')
  /\ \A t \in Tasks : aggSent[t] > 0 => aggSent'[t] > 0
  /\ \A t \in Tasks, s \in Subtasks : executed[t][s] > 0 => executed'[t][s] > 0

LEMMA SoundKept ==
  ASSUME Inv, Keeps
  PROVE  (\A m \in net : Sound(m)') /\ (\A h \in handlers : Sound(h.request)')
  BY DEF Inv, TypeOK, RequestInv, Sound, Keeps, Requests

LEMMA RequestsDelivered ==
  ASSUME Inv, NEW m \in net, NEW pc \in Places, Deliver(m, pc), Keeps
  PROVE  RequestInv'
<1>1. /\ \A x \in net' : x \in net \/ Like(x, m)
      /\ \A h \in handlers' : h \in handlers \/ h.request = m
  BY DeliverEffect DEF Inv
<1>2. \A x \in net' : Sound(x)'
  <2>. SUFFICES ASSUME NEW x \in net', Like(x, m) PROVE Sound(x)'
    BY <1>1, SoundKept
  <2>. QED
    BY SoundKept DEF Like, Sound
<1>. QED
  BY <1>1, <1>2, SoundKept DEF RequestInv

LEMMA RequestsTaken ==
  ASSUME Inv, NEW m \in net, Take(m), UNCHANGED handlers, Keeps
  PROVE  RequestInv'
<1>1. \A x \in net' : x \in net \/ Like(x, m)
  BY TakeEffect DEF Inv
<1>2. \A x \in net' : Sound(x)'
  <2>. SUFFICES ASSUME NEW x \in net', Like(x, m) PROVE Sound(x)'
    BY <1>1, SoundKept
  <2>. QED
    BY SoundKept DEF Like, Sound
<1>. QED
  BY <1>2, SoundKept DEF RequestInv

LEMMA RequestsMoved ==
  ASSUME Inv, NEW h \in handlers, NEW pc, Moves(h, pc), UNCHANGED net, Keeps
  PROVE  RequestInv'
  BY SoundKept DEF Moves, RequestInv

(* The same for a handler at place pc of its code. *)
AtPlace(h, pc) ==
  /\ pc = "setPod" => h.request.type = "provision"
  /\ pc \in {"run", "tell", "enqueue"} => Filled(h.request.task)
  /\ pc = "enqueue" => aggSent[h.request.task] > 0
  /\ pc \in {"save", "setIdle", "checkDone", "record"} => h.request.type = "report"
  /\ pc = "save" => h.request.outcome = "failed"
  /\ pc = "record" => AllExecuted(h.request.task)

LEMMA HandlersKept ==
  ASSUME Inv, Keeps, NEW h \in handlers
  PROVE  AtPlace(h, h.pc)'
<1>1. AtPlace(h, h.pc) /\ h.request.task \in Tasks
  BY DEF Inv, TypeOK, HandlerInv, AtPlace, Requests
<1>. QED
  BY <1>1 DEF AtPlace, Keeps, AllExecuted

LEMMA HandlersDelivered ==
  ASSUME Inv, NEW m \in net, NEW pc \in Places, Deliver(m, pc), Keeps,
         \/ pc = "setPod" /\ m.type = "provision"
         \/ pc \in {"setIdle", "save"} /\ m.type = "report",
         pc = "save" => m.outcome = "failed"
  PROVE  HandlerInv'
<1>1. \A g \in handlers' : g \in handlers \/ (g.request = m /\ g.pc = pc)
  BY DeliverEffect DEF Inv
<1>2. \A g \in handlers' : AtPlace(g, g.pc)'
  BY <1>1, HandlersKept DEF AtPlace
<1>. QED
  BY <1>2 DEF HandlerInv, AtPlace

LEMMA HandlersStay ==
  ASSUME Inv, UNCHANGED handlers, Keeps
  PROVE  HandlerInv'
<1>1. \A g \in handlers' : AtPlace(g, g.pc)'
  BY HandlersKept
<1>. QED
  BY <1>1 DEF HandlerInv, AtPlace

LEMMA HandlersMoved ==
  ASSUME Inv, NEW h \in handlers, NEW pc, Moves(h, pc), Keeps, AtPlace(h, pc)'
  PROVE  HandlerInv'
<1>1. \A g \in handlers' : AtPlace(g, g.pc)'
  BY HandlersKept DEF AtPlace, Moves
<1>. QED
  BY <1>1 DEF HandlerInv, AtPlace

(* A delivered report keeps its scheduler busy as a handler. *)
LEMMA BusyDelivered ==
  ASSUME Inv, NEW m \in net, NEW pc \in Places, Deliver(m, pc),
         m.type = "report" => pc \in {"save", "setIdle"},
         UNCHANGED <<idle, sending, atPod, lost>>
  PROVE  BusyHasCause'
<1>1. /\ \A x \in net : x \in net' \/ x = m
      /\ handlers \subseteq handlers'
      /\ \E g \in handlers' : g.request = m /\ g.pc = pc
  BY DeliverEffect DEF Inv
<1>2. \A n \in Workers : Serving(n) => Serving(n)'
  <2>. SUFFICES ASSUME NEW n \in Workers, NEW x \in net, x.type = "report", x.from = n
                PROVE  Serving(n)'
    BY <1>1 DEF Serving
  <2>. QED
    BY <1>1 DEF Serving
<1>. QED
  BY <1>2 DEF Inv, BusyHasCause

(* A request that is refused kept no scheduler busy.                       *)
LEMMA BusyTaken ==
  ASSUME Inv, NEW m \in net, Take(m), m.type = "report" => m.from \notin Workers,
         UNCHANGED <<handlers, idle, sending, atPod, lost>>
  PROVE  BusyHasCause'
<1>1. \A x \in net : x \in net' \/ x = m
  BY TakeEffect DEF Inv
<1>2. \A n \in Workers : Serving(n) => Serving(n)'
  BY <1>1 DEF Serving
<1>. QED
  BY <1>2 DEF Inv, BusyHasCause

(* A handler that is not about to free a scheduler keeps none busy. *)
LEMMA BusyMoved ==
  ASSUME Inv, NEW h \in handlers, NEW pc, Moves(h, pc),
         h.pc \notin {"save", "setIdle"} \/ h.request.from \notin Workers,
         UNCHANGED <<net, idle, sending, atPod>>, \A n \in Nodes : lost'[n] = lost[n]
  PROVE  BusyHasCause'
<1>1. \A n \in Workers : Serving(n) => Serving(n)'
  BY DEF Serving, Moves
<1>. QED
  BY <1>1 DEF Inv, BusyHasCause, Workers
-----------------------------------------------------------------------------
(* Each action keeps the invariant.                                        *)

LEMMA CacheProvisionedPodStep ==
  ASSUME Inv, NEW m \in net, CacheProvisionedPod(m)
  PROVE  Inv'
<1>1. /\ m.type = "provision" /\ m.outcome = "accepted"
      /\ Deliver(m, "setPod")
      /\ SetSubtask(m.task, m.from, "accepted")
      /\ UNCHANGED <<status, podVars, workVars, answered>>
  BY DEF CacheProvisionedPod
<1>2. m.task \in Tasks /\ m.from \in Subtasks /\ "setPod" \in Places /\ Sound(m)
  BY DEF Inv, TypeOK, Requests, Places, RequestInv
<1>3. Keeps
  BY <1>1, <1>2, SetSubtaskEffect DEF Inv, Keeps
<1>4. TypeOK' /\ CopiesCounted'
  BY <1>1, <1>2, DeliverEffect, SetSubtaskEffect DEF Inv, TypeOK, HandlerSet
<1>5. ArrivedCached'
  BY <1>1, <1>2, SetSubtaskEffect DEF Inv, Sound, ArrivedCached
<1>6. RequestInv'
  BY <1>1, <1>2, <1>3, RequestsDelivered
<1>7. HandlerInv'
  BY <1>1, <1>2, <1>3, HandlersDelivered
<1>8. WorkInv' /\ DoneInv'
  <2>1. WorkInv'
    BY <1>1, <1>3 DEF Inv, WorkInv, Keeps, Workers
  <2>2. DoneInv'
    BY <1>1, <1>2, SetSubtaskEffect DEF Inv, DoneInv, AllExecuted, Sound
  <2>. QED
    BY <2>1, <2>2
<1>9. BusyHasCause'
  BY <1>1, <1>2, BusyDelivered
<1>. QED
  BY <1>3, <1>4, <1>5, <1>6, <1>7, <1>8, <1>9 DEF Inv

LEMMA CollectRejectionStep ==
  ASSUME Inv, NEW m \in net, CollectRejection(m)
  PROVE  Inv'
<1>1. /\ m.type = "provision" /\ m.outcome = "rejected"
      /\ Take(m) /\ UNCHANGED handlers
      /\ SetStatus(m.task, "rejected")
      /\ UNCHANGED <<subtask, podVars, workVars, answered>>
  BY DEF CollectRejection
<1>2. m.task \in Tasks /\ m.from \in Subtasks /\ Sound(m)
  BY DEF Inv, TypeOK, Requests, Places, RequestInv
<1>3. Keeps
  BY <1>1 DEF SetStatus, Keeps, Cached, Filled
<1>4. TypeOK' /\ CopiesCounted'
  BY <1>1, <1>2, TakeEffect DEF Inv, TypeOK, HandlerSet, SetStatus, Terminal
<1>5. ArrivedCached'
  BY <1>1, <1>2 DEF Inv, TypeOK, SetStatus, ArrivedCached, Cached
<1>6. RequestInv'
  BY <1>1, <1>2, <1>3, RequestsTaken
<1>7. HandlerInv'
  BY <1>1, <1>2, <1>3, HandlersStay
<1>8. WorkInv' /\ DoneInv'
  <2>1. WorkInv'
    BY <1>1, <1>3 DEF Inv, WorkInv, Keeps, Workers
  <2>2. DoneInv'
    BY <1>1 DEF Inv, TypeOK, DoneInv, AllExecuted, SetStatus
  <2>. QED
    BY <2>1, <2>2
<1>9. BusyHasCause'
  BY <1>1, <1>2, BusyTaken
<1>. QED
  BY <1>3, <1>4, <1>5, <1>6, <1>7, <1>8, <1>9 DEF Inv

LEMMA CollectResultStep ==
  ASSUME Inv, NEW m \in net, CollectResult(m)
  PROVE  Inv'
<1>1. /\ m.type = "report" /\ m.outcome = "done"
      /\ Deliver(m, "setIdle")
      /\ SetSubtask(m.task, m.from, "done")
      /\ UNCHANGED <<status, podVars, workVars, answered>>
  BY DEF CollectResult, SaveResultFromApp
<1>2. m.task \in Tasks /\ m.from \in Subtasks /\ "setIdle" \in Places /\ Sound(m)
  BY DEF Inv, TypeOK, Requests, Places, RequestInv
<1>3. Keeps
  BY <1>1, <1>2, SetSubtaskEffect DEF Inv, Keeps
<1>4. TypeOK' /\ CopiesCounted'
  BY <1>1, <1>2, DeliverEffect, SetSubtaskEffect DEF Inv, TypeOK, HandlerSet
<1>5. ArrivedCached'
  BY <1>1, <1>2, SetSubtaskEffect DEF Inv, Sound, ArrivedCached
<1>6. RequestInv'
  BY <1>1, <1>2, <1>3, RequestsDelivered
<1>7. HandlerInv'
  BY <1>1, <1>2, <1>3, HandlersDelivered
<1>8. WorkInv' /\ DoneInv'
  <2>1. WorkInv'
    BY <1>1, <1>3 DEF Inv, WorkInv, Keeps, Workers
  <2>2. DoneInv'
    BY <1>1, <1>2, SetSubtaskEffect DEF Inv, DoneInv, AllExecuted, Sound
  <2>. QED
    BY <2>1, <2>2
<1>9. BusyHasCause'
  BY <1>1, <1>2, BusyDelivered
<1>. QED
  BY <1>3, <1>4, <1>5, <1>6, <1>7, <1>8, <1>9 DEF Inv

(* A worker's report is always recognized. *)
LEMMA UnrecognizedReport ==
  ASSUME Inv, NEW m, m \in net \/ (\E h \in handlers : h.request = m),
         m.type = "report", ~ Recognized(m)
  PROVE  m.from \notin Workers
<1>1. m.task \in Tasks /\ m.from \in Subtasks /\ executed[m.task][m.from] > 0
  BY DEF Inv, TypeOK, Requests, RequestInv, Sound
<1>. QED
  BY <1>1 DEF Inv, WorkInv, Filled, Recognized

LEMMA RefuseResultStep ==
  ASSUME Inv, NEW m \in net, RefuseResult(m)
  PROVE  Inv'
<1>1. /\ m.type = "report" /\ Take(m) /\ ~ Recognized(m)
      /\ UNCHANGED <<handlers, cacheVars, podVars, workVars, answered>>
  BY DEF RefuseResult
<1>2. Keeps
  BY <1>1 DEF Keeps, Cached, Filled
<1>3. TypeOK' /\ CopiesCounted'
  BY <1>1, TakeEffect DEF Inv, TypeOK
<1>4. RequestInv' /\ HandlerInv'
  BY <1>1, <1>2, RequestsTaken, HandlersStay
<1>5. ArrivedCached' /\ WorkInv' /\ DoneInv'
  BY <1>1 DEF Inv, ArrivedCached, Cached, Filled, WorkInv, DoneInv, AllExecuted
<1>6. BusyHasCause'
  BY <1>1, UnrecognizedReport, BusyTaken
<1>. QED
  BY <1>3, <1>4, <1>5, <1>6 DEF Inv

LEMMA CollectFailureStep ==
  ASSUME Inv, NEW m \in net, CollectFailure(m)
  PROVE  Inv'
<1>1. /\ m.type = "report" /\ m.outcome = "failed"
      /\ Deliver(m, "save")
      /\ SetStatus(m.task, "failed")
      /\ UNCHANGED <<subtask, podVars, workVars, answered>>
  BY DEF CollectFailure
<1>2. m.task \in Tasks /\ m.from \in Subtasks /\ "save" \in Places /\ Sound(m)
  BY DEF Inv, TypeOK, Requests, Places, RequestInv
<1>3. Keeps
  BY <1>1 DEF SetStatus, Keeps, Cached, Filled
<1>4. TypeOK' /\ CopiesCounted'
  BY <1>1, <1>2, DeliverEffect DEF Inv, TypeOK, HandlerSet, SetStatus, Terminal
<1>5. ArrivedCached'
  BY <1>1, <1>2 DEF Inv, TypeOK, SetStatus, ArrivedCached, Cached
<1>6. RequestInv'
  BY <1>1, <1>2, <1>3, RequestsDelivered
<1>7. HandlerInv'
  BY <1>1, <1>2, <1>3, HandlersDelivered
<1>8. WorkInv' /\ DoneInv'
  <2>1. WorkInv'
    BY <1>1, <1>3 DEF Inv, WorkInv, Keeps, Workers
  <2>2. DoneInv'
    BY <1>1 DEF Inv, TypeOK, DoneInv, AllExecuted, SetStatus
  <2>. QED
    BY <2>1, <2>2
<1>9. BusyHasCause'
  BY <1>1, <1>2, BusyDelivered
<1>. QED
  BY <1>3, <1>4, <1>5, <1>6, <1>7, <1>8, <1>9 DEF Inv

LEMMA SetPodForApplicationStep ==
  ASSUME Inv, NEW h \in handlers, SetPodForApplication(h)
  PROVE  Inv'
<1>1. /\ h.pc = "setPod" /\ known' = known \cup {h.request.from}
      /\ Goto(h, "check")
      /\ UNCHANGED <<cacheVars, waiting, idle, workVars, netVars, answered>>
  BY DEF SetPodForApplication
<1>2. handlers' \subseteq HandlerSet /\ Moves(h, "check")
  BY <1>1, GotoMoves DEF Inv, Places
<1>3. Keeps
  BY <1>1 DEF Keeps, Cached, Filled
<1>4. TypeOK' /\ CopiesCounted'
  <2>1. known' \subseteq Nodes
    BY <1>1 DEF Inv, TypeOK, HandlerInv, RequestInv, Sound
  <2>. QED
    BY <1>1, <1>2, <2>1 DEF Inv, TypeOK, CopiesCounted, HandlerSet
<1>5. RequestInv' /\ HandlerInv' /\ BusyHasCause'
  BY <1>1, <1>2, <1>3, RequestsMoved, HandlersMoved, BusyMoved DEF AtPlace
<1>6. ArrivedCached' /\ WorkInv' /\ DoneInv'
  BY <1>1 DEF Inv, ArrivedCached, Cached, Filled, WorkInv, DoneInv, AllExecuted
<1>. QED
  BY <1>4, <1>5, <1>6 DEF Inv

LEMMA CheckAcceptedStep ==
  ASSUME Inv, NEW h \in handlers, CheckAccepted(h)
  PROVE  Inv'
<1>. DEFINE t == h.request.task
<1>1. /\ h.pc = "check" /\ status' = StatusAfterCheck(t, "accepted")
      /\ UNCHANGED <<subtask, podVars, workVars, netVars, answered>>
  BY DEF CheckAccepted
<1>2. \/ Goto(h, "run") /\ CheckTask(t, "accepted")
      \/ Return(h)
  BY DEF CheckAccepted
<1>3. t \in Tasks /\ Cached(t)
  BY DEF Inv, TypeOK, Requests, RequestInv, Sound
<1>4. status' \in [Tasks -> {"absent", "pending", "accepted", "running"} \cup Terminal]
      /\ \A u \in Tasks : status'[u] = status[u] \/ (u = t /\ status'[u] = "accepted")
  BY <1>1, <1>3 DEF Inv, TypeOK, StatusAfterCheck
<1>5. PICK pc \in {"run", "check"} :
        /\ handlers' \subseteq HandlerSet /\ Moves(h, pc)
        /\ pc = "run" => CheckTask(t, "accepted")
  BY <1>1, <1>2, GotoMoves, ReturnMoves DEF Inv, Places
<1>6. Keeps
  BY <1>1 DEF Keeps, Cached, Filled
<1>7. AtPlace(h, pc)'
  <2>1. CheckTask(t, "accepted") => Filled(t)
    BY <1>3 DEF CheckTask, Terminal, allSubtasksHaveTheSameStatus, Cached, Filled
  <2>. QED
    BY <1>5, <1>1, <2>1 DEF AtPlace, Filled
<1>8. TypeOK' /\ CopiesCounted'
  BY <1>1, <1>4, <1>5 DEF Inv, TypeOK, CopiesCounted, HandlerSet
<1>9. RequestInv' /\ HandlerInv' /\ BusyHasCause'
  BY <1>1, <1>5, <1>6, <1>7, RequestsMoved, HandlersMoved, BusyMoved
<1>10. ArrivedCached' /\ WorkInv' /\ DoneInv'
  BY <1>1, <1>3, <1>4 DEF Inv, ArrivedCached, Cached, Filled, WorkInv, DoneInv, AllExecuted
<1>. QED
  BY <1>8, <1>9, <1>10 DEF Inv

LEMMA SetRunningStep ==
  ASSUME Inv, NEW h \in handlers, SetRunning(h)
  PROVE  Inv'
<1>. DEFINE t == h.request.task
<1>1. /\ h.pc = "run" /\ SetTaskStatus(t, "running") /\ Goto(h, "tell")
      /\ UNCHANGED <<podVars, workVars, netVars, answered>>
  BY DEF SetRunning
<1>2. t \in Tasks /\ Cached(t) /\ Filled(t)
  BY <1>1 DEF Inv, TypeOK, Requests, RequestInv, Sound, HandlerInv
<1>3. /\ subtask' \in [Tasks -> [Subtasks ->
           {"none", "empty", "accepted", "running", "done", "failed"}]]
      /\ \A u \in Tasks, s \in Subtasks :
           subtask'[u][s] = IF u = t /\ subtask[u][s] \notin {"none", "empty"}
                            THEN "running" ELSE subtask[u][s]
  BY <1>1, <1>2 DEF Inv, TypeOK, SetTaskStatus
<1>4. /\ status' \in [Tasks -> {"absent", "pending", "accepted", "running"} \cup Terminal]
      /\ \A u \in Tasks : status'[u] = IF u = t THEN "running" ELSE status[u]
  BY <1>1, <1>2 DEF Inv, TypeOK, SetTaskStatus
<1>5. handlers' \subseteq HandlerSet /\ Moves(h, "tell")
  BY <1>1, GotoMoves DEF Inv, Places
<1>6. Keeps /\ \A u \in Tasks : Cached(u)' => Cached(u)
  BY <1>1, <1>3 DEF Keeps, Cached, Filled
<1>7. TypeOK' /\ CopiesCounted'
  BY <1>1, <1>3, <1>4, <1>5 DEF Inv, TypeOK, CopiesCounted, HandlerSet
<1>8. RequestInv' /\ HandlerInv' /\ BusyHasCause'
  <2>1. AtPlace(h, "tell")'
    BY <1>1, <1>2, <1>6 DEF AtPlace, Keeps
  <2>. QED
    BY <1>1, <1>5, <1>6, <2>1, RequestsMoved, HandlersMoved, BusyMoved
<1>9. ArrivedCached' /\ WorkInv'
  BY <1>1, <1>4, <1>6 DEF Inv, ArrivedCached, WorkInv, Keeps, Workers
<1>10. DoneInv'
  BY <1>1, <1>3, <1>4 DEF Inv, DoneInv, AllExecuted
<1>. QED
  BY <1>7, <1>8, <1>9, <1>10 DEF Inv

LEMMA TellAggregatorStep ==
  ASSUME Inv, NEW h \in handlers, TellAggregator(h)
  PROVE  Inv'
<1>. DEFINE t == h.request.task
            g == [h EXCEPT !.pc = "enqueue", !.todo = GetSubtasksRegardingNode(t)]
<1>1. /\ h.pc = "tell" /\ aggSent' = [aggSent EXCEPT ![t] = @ + 1]
      /\ handlers' = (handlers \ {h}) \cup {g}
      /\ UNCHANGED <<cacheVars, podVars, sending, atPod, executed, netVars, answered>>
  BY DEF TellAggregator
<1>2. t \in Tasks /\ Filled(t) /\ h \in HandlerSet /\ handlers \subseteq HandlerSet
  BY <1>1 DEF Inv, TypeOK, Requests, HandlerInv, HandlerSet
<1>3. GetSubtasksRegardingNode(t) \subseteq Nodes
  BY DEF GetSubtasksRegardingNode, Workers
<1>4. g \in HandlerSet /\ g.request = h.request /\ g.pc = "enqueue"
  BY <1>2, <1>3 DEF HandlerSet, Places
<1>. HIDE DEF g
<1>5. handlers' \subseteq HandlerSet /\ Moves(h, "enqueue")
  BY <1>1, <1>2, <1>4 DEF Moves
<1>6. /\ aggSent' \in [Tasks -> Nat] /\ aggSent'[t] > 0
      /\ \A u \in Tasks : u # t => aggSent'[u] = aggSent[u]
  BY <1>1, <1>2 DEF Inv, TypeOK
<1>7. Keeps
  BY <1>1, <1>6 DEF Keeps, Cached, Filled
<1>8. lost' \in [Subtasks -> 0 .. MaxLost] /\ \A n \in Nodes : lost'[n] = lost[n]
  BY TaskLifeAssumption DEF Inv, TypeOK, TellAggregator, MayLose, Subtasks
<1>9. TypeOK' /\ CopiesCounted'
  <2>1. expected' \in [Tasks -> SUBSET Nodes] /\ informed' \subseteq Tasks
    <3>. DEFINE own == GetSubtasksRegardingNode(t)
    <3>1. own \in SUBSET Nodes /\ expected \in [Tasks -> SUBSET Nodes] /\ informed \subseteq Tasks
      BY <1>3 DEF Inv, TypeOK
    <3>2. \/ informed' = informed \cup {t} /\ expected' = [expected EXCEPT ![t] = own]
          \/ UNCHANGED <<informed, expected>>
      BY DEF TellAggregator
    <3>. HIDE DEF own
    <3>. QED
      BY <1>2, <3>1, <3>2
  <2>. QED
    BY <1>1, <1>5, <1>6, <1>8, <2>1 DEF Inv, TypeOK, CopiesCounted, HandlerSet
<1>10. RequestInv' /\ HandlerInv' /\ BusyHasCause'
  <2>1. AtPlace(h, "enqueue")'
    BY <1>1, <1>2, <1>6 DEF AtPlace, Filled
  <2>. QED
    BY <1>1, <1>5, <1>7, <1>8, <2>1, RequestsMoved, HandlersMoved, BusyMoved
<1>11. ArrivedCached' /\ DoneInv'
  BY <1>1 DEF Inv, ArrivedCached, Cached, DoneInv, AllExecuted
<1>12. WorkInv'
  <2>1. Cached(t)
    BY <1>2 DEF Cached, Filled
  <2>2. informed' \subseteq informed \cup {t}
    BY DEF TellAggregator
  <2>. QED
    BY <1>1, <1>2, <1>6, <1>7, <2>1, <2>2 DEF Inv, WorkInv, Keeps, Workers
<1>. QED
  BY <1>9, <1>10, <1>11, <1>12 DEF Inv

LEMMA EnqueueWorkerStep ==
  ASSUME Inv, NEW h \in handlers, NEW n \in Nodes, EnqueueWorker(h, n)
  PROVE  Inv'
<1>. DEFINE t == h.request.task
            g == [h EXCEPT !.todo = @ \ {n}]
<1>1. /\ h.pc = "enqueue"
      /\ waiting' = IF n \in known THEN [waiting EXCEPT ![n] = @ \cup {t}] ELSE waiting
      /\ handlers' = (handlers \ {h}) \cup {g}
      /\ UNCHANGED <<cacheVars, known, idle, workVars, netVars, answered>>
  BY DEF EnqueueWorker
<1>2. /\ t \in Tasks /\ Cached(t) /\ Filled(t) /\ aggSent[t] > 0
      /\ h \in HandlerSet /\ handlers \subseteq HandlerSet
  BY <1>1 DEF Inv, TypeOK, Requests, RequestInv, Sound, HandlerInv, HandlerSet
<1>3. g \in HandlerSet /\ g.request = h.request /\ g.pc = "enqueue"
  BY <1>1, <1>2 DEF HandlerSet
<1>. HIDE DEF g
<1>4. handlers' \subseteq HandlerSet /\ Moves(h, "enqueue")
  BY <1>1, <1>2, <1>3 DEF Moves
<1>5. /\ waiting' \in [Nodes -> SUBSET Tasks]
      /\ \A w \in Nodes, u \in Tasks : u \in waiting'[w] => u \in waiting[w] \/ u = t
  BY <1>1, <1>2 DEF Inv, TypeOK
<1>6. Keeps
  BY <1>1 DEF Keeps, Cached, Filled
<1>7. TypeOK' /\ CopiesCounted'
  BY <1>1, <1>4, <1>5 DEF Inv, TypeOK, CopiesCounted, HandlerSet
<1>8. RequestInv' /\ HandlerInv' /\ BusyHasCause'
  <2>1. AtPlace(h, "enqueue")'
    BY <1>1, <1>2 DEF AtPlace, Filled
  <2>. QED
    BY <1>1, <1>4, <1>6, <2>1, RequestsMoved, HandlersMoved, BusyMoved
<1>9. ArrivedCached' /\ DoneInv'
  BY <1>1 DEF Inv, ArrivedCached, Cached, DoneInv, AllExecuted
<1>10. WorkInv'
  BY <1>1, <1>2, <1>5 DEF Inv, WorkInv, Cached, Filled, Workers
<1>. QED
  BY <1>7, <1>8, <1>9, <1>10 DEF Inv

LEMMA ReplyStep ==
  ASSUME Inv, NEW h \in handlers, Reply(h)
  PROVE  Inv'
<1>1. /\ h.pc = "enqueue" /\ Return(h)
      /\ UNCHANGED <<cacheVars, podVars, workVars, netVars, answered>>
  BY DEF Reply
<1>2. handlers' \subseteq HandlerSet /\ Moves(h, h.pc)
  BY <1>1, ReturnMoves DEF Inv
<1>3. Keeps
  BY <1>1 DEF Keeps, Cached, Filled
<1>4. TypeOK' /\ CopiesCounted'
  BY <1>1, <1>2 DEF Inv, TypeOK, CopiesCounted, HandlerSet
<1>5. RequestInv' /\ HandlerInv' /\ BusyHasCause'
  <2>1. AtPlace(h, h.pc)'
    BY <1>3, HandlersKept
  <2>. QED
    BY <1>1, <1>2, <1>3, <2>1, RequestsMoved, HandlersMoved, BusyMoved
<1>6. ArrivedCached' /\ WorkInv' /\ DoneInv'
  BY <1>1 DEF Inv, ArrivedCached, Cached, Filled, WorkInv, DoneInv, AllExecuted
<1>. QED
  BY <1>4, <1>5, <1>6 DEF Inv

LEMMA SaveFailureStep ==
  ASSUME Inv, NEW h \in handlers, SaveFailure(h)
  PROVE  Inv'
<1>. DEFINE m == h.request
<1>1. /\ h.pc = "save" /\ m.outcome = "failed" /\ m.type = "report"
      /\ SetSubtask(m.task, m.from, "failed") /\ Goto(h, "setIdle")
      /\ UNCHANGED <<status, podVars, workVars, netVars, answered>>
  BY DEF SaveFailure, SaveResultFromApp, Inv, HandlerInv
<1>2. m.task \in Tasks /\ m.from \in Subtasks /\ Sound(m)
  BY DEF Inv, TypeOK, Requests, RequestInv
<1>3. handlers' \subseteq HandlerSet /\ Moves(h, "setIdle")
  BY <1>1, GotoMoves DEF Inv, Places
<1>4. Keeps
  BY <1>1, <1>2, SetSubtaskEffect DEF Inv, Keeps
<1>5. TypeOK' /\ CopiesCounted'
  BY <1>1, <1>2, <1>3, SetSubtaskEffect DEF Inv, TypeOK, CopiesCounted, HandlerSet
<1>6. ArrivedCached'
  BY <1>1, <1>2, SetSubtaskEffect DEF Inv, Sound, ArrivedCached
<1>7. RequestInv' /\ HandlerInv'
  BY <1>1, <1>3, <1>4, RequestsMoved, HandlersMoved DEF AtPlace
<1>8. WorkInv'
  BY <1>1, <1>4 DEF Inv, WorkInv, Keeps, Workers
<1>9. DoneInv'
  BY <1>1, <1>2, SetSubtaskEffect DEF Inv, DoneInv, AllExecuted
<1>10. BusyHasCause'
  <2>1. \E g \in handlers' : g.request = m /\ g.pc = "setIdle"
    <3>1. h \in HandlerSet /\ [h EXCEPT !.pc = "setIdle"] \in handlers'
      BY <1>1 DEF Goto, Inv, TypeOK, HandlerSet
    <3>. QED
      BY <3>1 DEF HandlerSet
  <2>2. \A n \in Workers : Serving(n) => Serving(n)'
    BY <1>1, <1>3, <2>1 DEF Serving, Moves
  <2>. QED
    BY <1>1, <2>2 DEF Inv, BusyHasCause
<1>. QED
  BY <1>5, <1>6, <1>7, <1>8, <1>9, <1>10 DEF Inv

LEMMA RefuseFailureStep ==
  ASSUME Inv, NEW h \in handlers, RefuseFailure(h)
  PROVE  Inv'
<1>1. /\ h.pc = "save" /\ h.request.type = "report" /\ ~ Recognized(h.request) /\ Return(h)
      /\ UNCHANGED <<cacheVars, podVars, workVars, netVars, answered>>
  BY DEF RefuseFailure, Inv, HandlerInv
<1>2. handlers' \subseteq HandlerSet /\ Moves(h, h.pc)
  BY <1>1, ReturnMoves DEF Inv
<1>3. Keeps
  BY <1>1 DEF Keeps, Cached, Filled
<1>4. TypeOK' /\ CopiesCounted'
  BY <1>1, <1>2 DEF Inv, TypeOK, CopiesCounted, HandlerSet
<1>5. RequestInv' /\ HandlerInv'
  BY <1>1, <1>2, <1>3, HandlersKept, RequestsMoved, HandlersMoved
<1>6. BusyHasCause'
  BY <1>1, <1>2, UnrecognizedReport, BusyMoved
<1>7. ArrivedCached' /\ WorkInv' /\ DoneInv'
  BY <1>1 DEF Inv, ArrivedCached, Cached, Filled, WorkInv, DoneInv, AllExecuted
<1>. QED
  BY <1>4, <1>5, <1>6, <1>7 DEF Inv

LEMMA SetPodIdleStep ==
  ASSUME Inv, NEW h \in handlers, SetPodIdle(h)
  PROVE  Inv'
<1>. DEFINE n == h.request.from
<1>1. /\ h.pc = "setIdle" /\ Goto(h, "checkDone")
      /\ idle' = IF n \in Nodes THEN [idle EXCEPT ![n] = TRUE] ELSE idle
      /\ UNCHANGED <<cacheVars, known, waiting, workVars, netVars, answered>>
  BY DEF SetPodIdle
<1>2. handlers' \subseteq HandlerSet /\ Moves(h, "checkDone")
  BY <1>1, GotoMoves DEF Inv, Places
<1>3. Keeps
  BY <1>1 DEF Keeps, Cached, Filled
<1>4. /\ idle' \in [Nodes -> BOOLEAN]
      /\ \A w \in Nodes : idle'[w] = (idle[w] \/ w = n)
  BY <1>1 DEF Inv, TypeOK
<1>5. TypeOK' /\ CopiesCounted'
  BY <1>1, <1>2, <1>4 DEF Inv, TypeOK, CopiesCounted, HandlerSet
<1>6. RequestInv' /\ HandlerInv'
  <2>1. AtPlace(h, "checkDone")'
    BY <1>1 DEF AtPlace, Inv, HandlerInv
  <2>. QED
    BY <1>1, <1>2, <1>3, <2>1, RequestsMoved, HandlersMoved
<1>7. ArrivedCached' /\ WorkInv' /\ DoneInv'
  BY <1>1 DEF Inv, ArrivedCached, Cached, Filled, WorkInv, DoneInv, AllExecuted
<1>8. BusyHasCause'
  <2>1. \A w \in Workers : w # n /\ Serving(w) => Serving(w)'
    BY <1>1, <1>2 DEF Serving, Moves
  <2>. QED
    BY <1>1, <1>4, <2>1 DEF Inv, BusyHasCause, Workers
<1>. QED
  BY <1>5, <1>6, <1>7, <1>8 DEF Inv

LEMMA CheckDoneStep ==
  ASSUME Inv, NEW h \in handlers, CheckDone(h)
  PROVE  Inv'
<1>. DEFINE t == h.request.task
<1>1. /\ h.pc = "checkDone" /\ status' = StatusAfterCheck(t, "done")
      /\ UNCHANGED <<subtask, podVars, workVars, netVars, answered>>
  BY DEF CheckDone
<1>2. t \in Tasks /\ Cached(t) /\ h.request.type = "report"
  BY <1>1 DEF Inv, TypeOK, Requests, RequestInv, Sound, HandlerInv
<1>3. /\ status' \in [Tasks -> {"absent", "pending", "accepted", "running"} \cup Terminal]
      /\ \A u \in Tasks : status'[u] = status[u] \/ (u = t /\ status'[u] = "done")
  BY <1>1, <1>2 DEF Inv, TypeOK, StatusAfterCheck, Terminal
<1>4. CheckTask(t, "done") \/ status'[t] # status[t] => AllExecuted(t)
  <2>1. allSubtasksHaveTheSameStatus(t, "done") => AllExecuted(t)
    BY <1>2 DEF allSubtasksHaveTheSameStatus, Cached, Inv, DoneInv, AllExecuted
  <2>. QED
    BY <1>1, <1>2, <2>1 DEF Inv, TypeOK, DoneInv, CheckTask, StatusAfterCheck
<1>5. Keeps
  BY <1>1 DEF Keeps, Cached, Filled
<1>6. PICK pc \in {"record", "checkDone"} :
        handlers' \subseteq HandlerSet /\ Moves(h, pc) /\ (pc = "record" => AllExecuted(t))
  <2>1. CASE CheckTask(t, "done")
    BY <1>4, <2>1, GotoMoves DEF CheckDone, Inv, Places
  <2>2. CASE ~ CheckTask(t, "done")
    BY <1>1, <2>2, ReturnMoves DEF CheckDone, Inv
  <2>. QED
    BY <2>1, <2>2
<1>7. TypeOK' /\ CopiesCounted'
  BY <1>1, <1>3, <1>6 DEF Inv, TypeOK, CopiesCounted, HandlerSet
<1>8. RequestInv' /\ HandlerInv' /\ BusyHasCause'
  <2>1. AtPlace(h, pc)'
    BY <1>1, <1>2, <1>6 DEF AtPlace, AllExecuted
  <2>. QED
    BY <1>1, <1>5, <1>6, <2>1, RequestsMoved, HandlersMoved, BusyMoved
<1>9. ArrivedCached' /\ WorkInv'
  BY <1>1, <1>3 DEF Inv, ArrivedCached, Cached, Filled, WorkInv
<1>10. DoneInv'
  BY <1>1, <1>3, <1>4 DEF Inv, DoneInv, AllExecuted
<1>. QED
  BY <1>7, <1>8, <1>9, <1>10 DEF Inv

LEMMA EnqueueResponseStep ==
  ASSUME Inv, NEW h \in handlers, EnqueueResponse(h)
  PROVE  Inv'
<1>. DEFINE t == h.request.task
<1>1. /\ h.pc = "record" /\ Return(h) /\ answered' = [answered EXCEPT ![t] = @ + 1]
      /\ UNCHANGED <<cacheVars, podVars, workVars, netVars>>
  BY DEF EnqueueResponse
<1>2. t \in Tasks /\ AllExecuted(t)
  BY <1>1 DEF Inv, TypeOK, Requests, HandlerInv
<1>3. handlers' \subseteq HandlerSet /\ Moves(h, h.pc)
  BY <1>1, ReturnMoves DEF Inv
<1>4. /\ answered' \in [Tasks -> Nat]
      /\ \A u \in Tasks : u # t => answered'[u] = answered[u]
  BY <1>1, <1>2 DEF Inv, TypeOK
<1>5. Keeps
  BY <1>1 DEF Keeps, Cached, Filled
<1>6. TypeOK' /\ CopiesCounted'
  BY <1>1, <1>3, <1>4 DEF Inv, TypeOK, CopiesCounted, HandlerSet
<1>7. RequestInv' /\ HandlerInv' /\ BusyHasCause'
  <2>1. AtPlace(h, h.pc)'
    BY <1>5, HandlersKept
  <2>. QED
    BY <1>1, <1>3, <1>5, <2>1, RequestsMoved, HandlersMoved, BusyMoved
<1>8. ArrivedCached' /\ WorkInv'
  BY <1>1 DEF Inv, ArrivedCached, Cached, Filled, WorkInv
<1>9. DoneInv'
  BY <1>1, <1>2, <1>4 DEF Inv, DoneInv, AllExecuted
<1>. QED
  BY <1>6, <1>7, <1>8, <1>9 DEF Inv

LEMMA dispatchSubtaskStep ==
  ASSUME Inv, NEW n \in Nodes, dispatchSubtask(n)
  PROVE  Inv'
<1>1. PICK t \in waiting[n] :
        /\ waiting' = [waiting EXCEPT ![n] = @ \ {t}]
        /\ sending' = [sending EXCEPT ![t][n] = @ + 1]
  BY DEF dispatchSubtask
<1>2. /\ idle' = [idle EXCEPT ![n] = FALSE]
      /\ UNCHANGED <<cacheVars, known, atPod, aggVars, executed, lost, netVars,
                     handlers, answered>>
  BY DEF dispatchSubtask
<1>3. /\ t \in Tasks /\ n \in Subtasks /\ Cached(t)
      /\ n \in Workers => Filled(t) /\ aggSent[t] > 0
  BY DEF Inv, TypeOK, WorkInv, Subtasks
<1>4. /\ sending' \in [Tasks -> [Subtasks -> Nat]] /\ sending'[t][n] > 0
      /\ \A u \in Tasks, s \in Subtasks :
           sending'[u][s] = IF u = t /\ s = n THEN sending[u][s] + 1 ELSE sending[u][s]
  BY <1>1, <1>3 DEF Inv, TypeOK
<1>5. /\ waiting' \in [Nodes -> SUBSET Tasks] /\ idle' \in [Nodes -> BOOLEAN]
      /\ \A w \in Nodes : waiting'[w] \subseteq waiting[w] /\ (w # n => idle'[w] = idle[w])
  BY <1>1, <1>2 DEF Inv, TypeOK
<1>6. Keeps
  BY <1>2 DEF Keeps, Cached, Filled
<1>7. TypeOK' /\ CopiesCounted'
  BY <1>2, <1>4, <1>5 DEF Inv, TypeOK, CopiesCounted
<1>8. ArrivedCached' /\ RequestInv' /\ HandlerInv' /\ DoneInv'
  BY <1>2 DEF Inv, ArrivedCached, RequestInv, Sound, HandlerInv, DoneInv,
              Cached, Filled, AllExecuted
<1>9. WorkInv'
  <2>1. \A u \in Tasks : (Cached(u) <=> Cached(u)') /\ (Filled(u) <=> Filled(u)')
    BY <1>2 DEF Cached, Filled
  <2>2. \A u \in Tasks, w \in Nodes :
          u \in waiting'[w] \/ sending'[u][w] > 0 =>
            u \in waiting[w] \/ sending[u][w] > 0 \/ (u = t /\ w = n)
    BY <1>4, <1>5 DEF Subtasks
  <2>. QED
    BY <1>2, <1>3, <2>1, <2>2 DEF Inv, WorkInv, Workers
<1>10. BusyHasCause'
  <2>1. Serving(n)'
    BY <1>3, <1>4 DEF Serving
  <2>2. \A w \in Workers : Serving(w) => Serving(w)'
    <3>1. \A u \in Tasks, w \in Workers : sending[u][w] > 0 => sending'[u][w] > 0
      BY <1>4 DEF Inv, TypeOK, Workers, Subtasks
    <3>. QED
      BY <1>2, <3>1 DEF Serving
  <2>. QED
    BY <1>2, <1>5, <2>1, <2>2 DEF Inv, BusyHasCause, Workers
<1>. QED
  BY <1>7, <1>8, <1>9, <1>10 DEF Inv

LEMMA SendToPodStep ==
  ASSUME Inv, NEW t \in Tasks, NEW n \in Nodes, SendToPod(t, n)
  PROVE  Inv'
<1>1. /\ sending[t][n] > 0 /\ sending' = [sending EXCEPT ![t][n] = @ - 1]
      /\ \/ atPod' = [atPod EXCEPT ![t][n] = @ + 1] /\ UNCHANGED lost
         \/ /\ lost[n] < MaxLost
            /\ lost' = [lost EXCEPT ![n] = @ + 1]
            /\ UNCHANGED atPod
      /\ UNCHANGED <<cacheVars, podVars, aggVars, executed, netVars, handlers, answered>>
  BY DEF SendToPod, MayLose, Subtasks
<1>2. n \in Subtasks /\ Cached(t) /\ (n \in Workers => Filled(t) /\ aggSent[t] > 0)
  BY <1>1 DEF Inv, WorkInv, Subtasks
<1>3. /\ sending' \in [Tasks -> [Subtasks -> Nat]]
      /\ \A u \in Tasks, s \in Subtasks :
           sending'[u][s] = IF u = t /\ s = n THEN sending[u][s] - 1 ELSE sending[u][s]
  BY <1>1, <1>2 DEF Inv, TypeOK
<1>4. /\ atPod' \in [Tasks -> [Subtasks -> Nat]]
      /\ \A u \in Tasks, s \in Subtasks :
           /\ atPod[u][s] > 0 => atPod'[u][s] > 0
           /\ u # t \/ s # n => atPod'[u][s] = atPod[u][s]
  <2>1. CASE atPod' = [atPod EXCEPT ![t][n] = @ + 1]
    BY <1>2, <2>1 DEF Inv, TypeOK
  <2>2. CASE UNCHANGED atPod
    BY <2>2 DEF Inv, TypeOK
  <2>. QED
    BY <1>1, <2>1, <2>2
<1>5. /\ lost' \in [Subtasks -> 0 .. MaxLost]
      /\ \A w \in Subtasks : lost[w] > 0 => lost'[w] > 0
      /\ lost'[n] > 0 \/ atPod'[t][n] > 0
  <2>1. CASE atPod' = [atPod EXCEPT ![t][n] = @ + 1] /\ UNCHANGED lost
    BY <1>2, <2>1 DEF Inv, TypeOK
  <2>2. CASE lost[n] < MaxLost /\ lost' = [lost EXCEPT ![n] = @ + 1]
    <3>1. n \in Subtasks /\ lost \in [Subtasks -> 0 .. MaxLost] /\ MaxLost \in Nat
      BY <1>2, TaskLifeAssumption DEF Inv, TypeOK
    <3>. QED
      BY <2>2, <3>1
  <2>. QED
    BY <1>1, <2>1, <2>2
<1>6. TypeOK' /\ CopiesCounted'
  BY <1>1, <1>3, <1>4, <1>5 DEF Inv, TypeOK, CopiesCounted
<1>7. ArrivedCached' /\ RequestInv' /\ HandlerInv' /\ DoneInv'
  BY <1>1 DEF Inv, ArrivedCached, RequestInv, Sound, HandlerInv, DoneInv,
              Cached, Filled, AllExecuted
<1>8. WorkInv'
  BY <1>1, <1>2, <1>3, <1>4 DEF Inv, TypeOK, WorkInv, Cached, Filled, Workers, Subtasks
<1>9. BusyHasCause'
  <2>1. Serving(n)' \/ lost'[n] > 0
    BY <1>5 DEF Serving
  <2>2. \A w \in Workers : w # n /\ Serving(w) => Serving(w)'
    BY <1>1, <1>3, <1>4 DEF Serving, Workers, Subtasks
  <2>. QED
    BY <1>1, <1>5, <2>1, <2>2 DEF Inv, BusyHasCause, Workers, Subtasks
<1>. QED
  BY <1>6, <1>7, <1>8, <1>9 DEF Inv

(* A report of a subtask that was executed enters the network.             *)
LEMMA Reported ==
  ASSUME Inv, NEW t \in Tasks, NEW s \in Subtasks, NEW r \in Results(s), NEW run \in Nat,
         net' = net \cup {Request("report", t, s, r, run)},
         executed'[t][s] > 0, Cached(t)', Keeps, UNCHANGED <<handlers, repeated>>
  PROVE  /\ net' \subseteq Requests /\ CopiesCounted' /\ RequestInv'
         /\ \E m \in net' : m.type = "report" /\ m.from = s
<1>. DEFINE m == Request("report", t, s, r, run)
<1>1. /\ m \in Requests /\ m.copy = 0 /\ m.type = "report" /\ m.task = t /\ m.from = s
  BY TaskLifeAssumption DEF Request, Requests, Results
<1>2. repeated \in Nat /\ net \subseteq Requests
  BY TaskLifeAssumption DEF Inv, TypeOK
<1>3. net' = net \cup {m}
  OBVIOUS
<1>. HIDE DEF m
<1>4. Sound(m)'
  BY <1>1 DEF Sound
<1>. QED
  BY <1>1, <1>2, <1>3, <1>4, SoundKept DEF Inv, CopiesCounted, RequestInv

LEMMA PodFinishesStep ==
  ASSUME Inv, NEW t \in Tasks, NEW n \in Nodes, PodFinishes(t, n)
  PROVE  Inv'
<1>1. /\ atPod[t][n] > 0 /\ atPod' = [atPod EXCEPT ![t][n] = @ - 1]
      /\ executed' = [executed EXCEPT ![t][n] = @ + 1]
      /\ UNCHANGED <<cacheVars, podVars, sending, aggVars, lost, repeated, handlers, answered>>
  BY DEF PodFinishes
<1>2. n \in Subtasks /\ Cached(t) /\ (n \in Workers => Filled(t) /\ aggSent[t] > 0)
  BY <1>1 DEF Inv, WorkInv, Subtasks
<1>3. /\ executed' \in [Tasks -> [Subtasks -> Nat]] /\ executed'[t][n] > 0
      /\ \A u \in Tasks, s \in Subtasks :
           /\ executed[u][s] > 0 => executed'[u][s] > 0
           /\ u # t \/ s # n => executed'[u][s] = executed[u][s]
  BY <1>1, <1>2 DEF Inv, TypeOK
<1>4. /\ atPod' \in [Tasks -> [Subtasks -> Nat]]
      /\ \A u \in Tasks, s \in Subtasks :
           atPod'[u][s] = IF u = t /\ s = n THEN atPod[u][s] - 1 ELSE atPod[u][s]
  BY <1>1, <1>2 DEF Inv, TypeOK
<1>5. Keeps /\ Cached(t)'
  BY <1>1, <1>2, <1>3 DEF Keeps, Cached, Filled
<1>6. PICK r \in Results(n) : net' = net \cup {Request("report", t, n, r, executed[t][n])}
  BY DEF PodFinishes
<1>7. /\ net' \subseteq Requests /\ CopiesCounted' /\ RequestInv'
      /\ \E m \in net' : m.type = "report" /\ m.from = n
  <2>1. executed[t][n] \in Nat
    BY <1>2 DEF Inv, TypeOK
  <2>. QED
    BY <1>1, <1>2, <1>3, <1>5, <1>6, <2>1, Reported
<1>8. TypeOK'
  BY <1>1, <1>3, <1>4, <1>7 DEF Inv, TypeOK
<1>9. ArrivedCached' /\ HandlerInv' /\ DoneInv'
  <2>1. HandlerInv'
    BY <1>1, <1>5, HandlersKept DEF HandlerInv, AtPlace
  <2>2. ArrivedCached' /\ DoneInv'
    BY <1>1, <1>3 DEF Inv, ArrivedCached, Cached, DoneInv, AllExecuted
  <2>. QED
    BY <2>1, <2>2
<1>10. WorkInv'
  BY <1>1, <1>2, <1>3, <1>4 DEF Inv, TypeOK, WorkInv, Cached, Filled, Workers, Subtasks
<1>11. BusyHasCause'
  <2>1. Serving(n)'
    BY <1>7 DEF Serving
  <2>2. \A w \in Workers : w # n /\ Serving(w) => Serving(w)'
    BY <1>1, <1>4, <1>6 DEF Serving, Workers, Subtasks
  <2>. QED
    BY <1>1, <2>1, <2>2 DEF Inv, BusyHasCause, Workers
<1>. QED
  BY <1>7, <1>8, <1>9, <1>10, <1>11 DEF Inv

LEMMA AggregatorFinishesStep ==
  ASSUME Inv, NEW t \in Tasks, AggregatorFinishes(t)
  PROVE  Inv'
<1>1. /\ aggSent[t] > 0 /\ executed' = [executed EXCEPT ![t][agg] = 1]
      /\ UNCHANGED <<cacheVars, podVars, sending, atPod, aggVars, lost, repeated,
                     handlers, answered>>
  BY DEF AggregatorFinishes, Inv, WorkInv
<1>2. agg \in Subtasks /\ agg \notin Nodes /\ Cached(t)
  BY <1>1, TaskLifeAssumption DEF Inv, WorkInv, Subtasks
<1>3. /\ executed' \in [Tasks -> [Subtasks -> Nat]] /\ executed'[t][agg] > 0
      /\ \A u \in Tasks, s \in Subtasks :
           /\ executed[u][s] > 0 => executed'[u][s] > 0
           /\ s # agg => executed'[u][s] = executed[u][s]
  BY <1>1, <1>2 DEF Inv, TypeOK
<1>4. Keeps /\ Cached(t)'
  BY <1>1, <1>2, <1>3 DEF Keeps, Cached, Filled
<1>5. PICK r \in Results(agg) : net' = net \cup {Request("report", t, agg, r, 0)}
  BY DEF AggregatorFinishes
<1>6. net' \subseteq Requests /\ CopiesCounted' /\ RequestInv'
  BY <1>1, <1>2, <1>3, <1>4, <1>5, Reported
<1>7. TypeOK'
  BY <1>1, <1>3, <1>6 DEF Inv, TypeOK
<1>8. ArrivedCached' /\ HandlerInv' /\ DoneInv'
  <2>1. HandlerInv'
    BY <1>1, <1>4, HandlersKept DEF HandlerInv, AtPlace
  <2>2. ArrivedCached' /\ DoneInv'
    BY <1>1, <1>3 DEF Inv, ArrivedCached, Cached, DoneInv, AllExecuted
  <2>. QED
    BY <2>1, <2>2
<1>9. WorkInv'
  BY <1>1, <1>2, <1>3 DEF Inv, WorkInv, Cached, Filled, Workers, Subtasks
<1>10. BusyHasCause'
  <2>1. \A w \in Workers : Serving(w) => Serving(w)'
    BY <1>1, <1>5 DEF Serving
  <2>. QED
    BY <1>1, <2>1 DEF Inv, BusyHasCause
<1>. QED
  BY <1>6, <1>7, <1>8, <1>9, <1>10 DEF Inv

LEMMA evaluateAggregativeTasksStep ==
  ASSUME Inv, NEW t \in Tasks, evaluateAggregativeTasks(t)
  PROVE  Inv'
<1>. DEFINE told == Nodes \ (known \cap Workers)
            checked == Handler(Request("task", t, agg, "accepted", 0), "check", {})
<1>1. /\ status[t] = "absent" /\ status' = [status EXCEPT ![t] = "pending"]
      /\ subtask' = [subtask EXCEPT ![t] =
           [s \in Subtasks |-> IF s = agg \/ s \in known THEN "accepted" ELSE "empty"]]
      /\ UNCHANGED <<podVars, sending, aggVars, executed, lost, repeated, answered>>
  BY DEF evaluateAggregativeTasks
<1>2. /\ handlers \subseteq handlers'
      /\ \A g \in handlers' : g \in handlers \/ g = checked
  BY DEF evaluateAggregativeTasks
<1>3. PICK reply \in [told -> Replies] :
        /\ net' = net \cup {Request("provision", t, n, reply[n], 0) : n \in told}
        /\ atPod' = [atPod EXCEPT ![t] = [s \in Subtasks |->
             IF s \in SubCoordinators /\ reply[s] = "accepted" THEN 1 ELSE 0]]
  BY DEF evaluateAggregativeTasks
<1>4. /\ ~ Cached(t) /\ ~ Filled(t)
      /\ \A n \in Nodes : t \notin waiting[n] /\ ~ (sending[t][n] > 0) /\ ~ (atPod[t][n] > 0)
      /\ \A n \in Workers : ~ (executed[t][n] > 0)
      /\ ~ (aggSent[t] > 0)
  BY <1>1 DEF Inv, ArrivedCached, WorkInv, Cached, Filled
<1>5. /\ subtask' \in [Tasks -> [Subtasks ->
           {"none", "empty", "accepted", "running", "done", "failed"}]]
      /\ \A s \in Subtasks : subtask'[t][s] \in {"accepted", "empty"}
      /\ \A u \in Tasks : u # t => subtask'[u] = subtask[u]
  BY <1>1 DEF Inv, TypeOK
<1>6. /\ status' \in [Tasks -> {"absent", "pending", "accepted", "running"} \cup Terminal]
      /\ \A u \in Tasks : status'[u] = IF u = t THEN "pending" ELSE status[u]
  BY <1>1 DEF Inv, TypeOK
<1>7. /\ atPod' \in [Tasks -> [Subtasks -> Nat]]
      /\ \A u \in Tasks : u # t => atPod'[u] = atPod[u]
      /\ \A n \in Workers : ~ (atPod'[t][n] > 0)
  <2>. DEFINE row == [s \in Subtasks |->
                 IF s \in SubCoordinators /\ reply[s] = "accepted" THEN 1 ELSE 0]
  <2>1. row \in [Subtasks -> Nat] /\ \A n \in Workers : ~ (row[n] > 0)
    BY DEF Workers, Subtasks
  <2>2. atPod' = [atPod EXCEPT ![t] = row]
    BY <1>3
  <2>. HIDE DEF row
  <2>. QED
    BY <2>1, <2>2 DEF Inv, TypeOK
<1>8. Keeps /\ Cached(t)'
  <2>1. Cached(t)'
    BY <1>5 DEF Cached
  <2>2. \A u \in Tasks : (Cached(u) => Cached(u)') /\ (Filled(u) => Filled(u)')
    BY <1>4, <1>5, <2>1 DEF Cached, Filled
  <2>. QED
    BY <1>1, <2>1, <2>2 DEF Keeps
<1>9. \A m \in net' : m \in net \/ (/\ m \in Requests /\ m.copy = 0 /\ m.task = t
                                    /\ m.type = "provision" /\ m.from \in Nodes)
  <2>1. ASSUME NEW n \in told
        PROVE  LET m == Request("provision", t, n, reply[n], 0)
               IN  /\ m \in Requests /\ m.copy = 0 /\ m.task = t
                   /\ m.type = "provision" /\ m.from \in Nodes
    <3>1. n \in Nodes /\ n \in Subtasks /\ reply[n] \in {"accepted", "rejected"}
      BY <1>3, TaskLifeAssumption DEF Subtasks
    <3>2. 0 \in Nat /\ 0 \in 0 .. MaxRepeats
      BY TaskLifeAssumption
    <3>. QED
      BY <3>1, <3>2 DEF Request, Requests
  <2>. QED
    BY <1>3, <2>1
<1>10. /\ checked \in HandlerSet /\ checked.pc = "check"
       /\ checked.request.task = t /\ checked.request.type = "task"
  BY TaskLifeAssumption DEF Handler, Request, HandlerSet, Requests, Places, Subtasks
<1>. HIDE DEF checked
<1>11. TypeOK' /\ CopiesCounted'
  <2>1. net' \subseteq Requests /\ CopiesCounted'
    BY <1>1, <1>9, TaskLifeAssumption DEF Inv, TypeOK, CopiesCounted
  <2>2. handlers' \subseteq HandlerSet
    BY <1>2, <1>10 DEF Inv, TypeOK, HandlerSet
  <2>. QED
    BY <1>1, <1>5, <1>6, <1>7, <2>1, <2>2 DEF Inv, TypeOK, HandlerSet
<1>12. RequestInv'
  <2>1. \A m \in net' : Sound(m)'
    BY <1>8, <1>9, SoundKept DEF Sound
  <2>2. \A h \in handlers' : Sound(h.request)'
    BY <1>2, <1>8, <1>10, SoundKept DEF Sound
  <2>. QED
    BY <2>1, <2>2 DEF RequestInv
<1>13. HandlerInv'
  <2>1. \A g \in handlers' : AtPlace(g, g.pc)'
    BY <1>2, <1>8, <1>10, HandlersKept DEF AtPlace
  <2>. QED
    BY <2>1 DEF HandlerInv, AtPlace
<1>14. ArrivedCached' /\ DoneInv'
  BY <1>1, <1>5, <1>6 DEF Inv, ArrivedCached, Cached, DoneInv, AllExecuted
<1>15. WorkInv'
  <2>1. ASSUME NEW u \in Tasks, u # t
        PROVE  (Cached(u) <=> Cached(u)') /\ (Filled(u) <=> Filled(u)')
    BY <1>5, <2>1 DEF Cached, Filled
  <2>. QED
    BY <1>1, <1>4, <1>7, <1>8, <2>1 DEF Inv, WorkInv, Workers
<1>16. BusyHasCause'
  <2>1. \A n \in Workers : Serving(n) => Serving(n)'
    BY <1>1, <1>2, <1>3, <1>4, <1>7 DEF Serving, Workers
  <2>. QED
    BY <1>1, <2>1 DEF Inv, BusyHasCause
<1>. QED
  BY <1>11, <1>12, <1>13, <1>14, <1>15, <1>16 DEF Inv

-----------------------------------------------------------------------------
LEMMA InvInit ==
  ASSUME Init
  PROVE  Inv
<1>1. TypeOK /\ CopiesCounted
  BY TaskLifeAssumption DEF Init, TypeOK, CopiesCounted, Zero
<1>2. \A t \in Tasks : ~ Cached(t)
  BY DEF Init, Cached, Subtasks
<1>3. ArrivedCached /\ RequestInv /\ HandlerInv
  BY <1>2 DEF Init, ArrivedCached, RequestInv, HandlerInv
<1>4. WorkInv /\ DoneInv /\ BusyHasCause
  BY <1>2 DEF Init, Zero, WorkInv, DoneInv, BusyHasCause, Workers, Subtasks
<1>. QED
  BY <1>1, <1>3, <1>4 DEF Inv

LEMMA ReceiveStep ==
  ASSUME Inv, NEW m \in net, Receive(m)
  PROVE  Inv'
  BY CacheProvisionedPodStep, CollectRejectionStep, CollectResultStep, RefuseResultStep,
     CollectFailureStep
  DEF Receive

LEMMA ProceedStep ==
  ASSUME Inv, NEW h \in handlers, Proceed(h)
  PROVE  Inv'
  BY SetPodForApplicationStep, CheckAcceptedStep, SetRunningStep, TellAggregatorStep,
     EnqueueWorkerStep, ReplyStep, SaveFailureStep, RefuseFailureStep, SetPodIdleStep, CheckDoneStep,
     EnqueueResponseStep
  DEF Proceed

LEMMA StutterStep ==
  ASSUME Inv, UNCHANGED vars
  PROVE  Inv'
<1>. USE DEF vars
<1>1. TypeOK' /\ CopiesCounted'
  BY DEF Inv, TypeOK, CopiesCounted
<1>2. ArrivedCached' /\ RequestInv' /\ HandlerInv'
  BY DEF Inv, ArrivedCached, RequestInv, Sound, HandlerInv, Cached, Filled, AllExecuted
<1>3. WorkInv' /\ DoneInv'
  BY DEF Inv, WorkInv, DoneInv, Cached, Filled, AllExecuted
<1>4. BusyHasCause'
  BY DEF Inv, BusyHasCause, Serving
<1>. QED
  BY <1>1, <1>2, <1>3, <1>4 DEF Inv

(* Every step of the handlers, of the dispatching routine, of the pods and *)
(* of the network keeps the invariant.                                     *)
LEMMA InvStep ==
  ASSUME Inv, [Next]_vars
  PROVE  Inv'
<1>1. ASSUME NEW t \in Tasks, evaluateAggregativeTasks(t) \/ AggregatorFinishes(t)
      PROVE  Inv'
  BY <1>1, evaluateAggregativeTasksStep, AggregatorFinishesStep
<1>2. ASSUME NEW m \in net, Receive(m) PROVE Inv'
  BY <1>2, ReceiveStep
<1>3. ASSUME NEW h \in handlers, Proceed(h) PROVE Inv'
  BY <1>3, ProceedStep
<1>4. ASSUME NEW n \in Nodes, dispatchSubtask(n) PROVE Inv'
  BY <1>4, dispatchSubtaskStep
<1>5. ASSUME NEW t \in Tasks, NEW n \in Nodes, SendToPod(t, n) \/ PodFinishes(t, n)
      PROVE  Inv'
  BY <1>5, SendToPodStep, PodFinishesStep
<1>6. CASE UNCHANGED vars
  BY <1>6, StutterStep
<1>. QED
  BY <1>1, <1>2, <1>3, <1>4, <1>5, <1>6 DEF Next

(* Whatever is repeated, lost, rejected or fails, and however the handlers *)
(* interleave, the parts of the invariant hold together.                   *)
THEOREM Invariance == Spec => []Inv
<1>1. Init => Inv
  BY InvInit
<1>2. Inv /\ [Next]_vars => Inv'
  BY InvStep
<1>. QED
  BY <1>1, <1>2, PTL DEF Spec

(* The task cache, the pod cache and the requests keep their types, a      *)
(* request is repeated no more than the model's bound.                     *)
THEOREM TypeCorrect == Spec => []TypeOK
<1>1. Inv => TypeOK
  BY DEF Inv
<1>. QED
  BY <1>1, Invariance, PTL

(* checkTaskStatus and CollectAppMsg never record a response before every  *)
(* pod, the aggregator's included, has finished its subtask.               *)
THEOREM ResponseCorrect == Spec => []ResponseOnlyWhenAllDone
<1>1. Inv => ResponseOnlyWhenAllDone
  BY DEF Inv, DoneInv, AllExecuted, ResponseOnlyWhenAllDone
<1>. QED
  BY <1>1, Invariance, PTL

(* The dispatching routine finds no subtask in the queue of a worker       *)
(* before every sub-node has accepted and the request to the aggregator    *)
(* was made, also when that request got lost.                              *)
THEOREM WorkersCorrect == Spec => []WorkersAfterAcceptance
<1>1. Inv => WorkersAfterAcceptance
  BY DEF Inv, WorkInv, Filled, WorkersAfterAcceptance, Workers
<1>. QED
  BY <1>1, Invariance, PTL

(* dispatchSubtask marks a scheduler busy and CollectAppMsg frees it: it   *)
(* is never busy without a subtask, a report or a lost request.            *)
THEOREM BusyCorrect == Spec => []BusyHasCause
<1>1. Inv => BusyHasCause
  BY DEF Inv
<1>. QED
  BY <1>1, Invariance, PTL
-----------------------------------------------------------------------------
(* Rejected tasks, when no sub-node is a coordinator: the pod of a known   *)
(* worker is accepted at once, that of an unknown one when it answers.     *)

Accepts(m, t, n) == m.type = "provision" /\ m.outcome = "accepted" /\ m.task = t /\ m.from = n
Rejects(m, t) == m.type = "provision" /\ m.outcome = "rejected" /\ m.task = t

(* A sub-node has not accepted the task and is not about to.               *)
Refusing(t, n) == subtask[t][n] = "empty" /\ \A m \in net : ~ Accepts(m, t, n)

RejectInv ==
  /\ \A t \in Tasks : status[t] = "rejected" => \E n \in Nodes : Refusing(t, n)
  /\ \A m \in net : Rejects(m, m.task) => Refusing(m.task, m.from)
  /\ \A t \in Tasks : aggSent[t] > 0 => Filled(t)

(* The subtasks of a cached task: none is emptied again, and an empty one  *)
(* is filled by an acceptance or by a result.                              *)
SubtasksGrow ==
  \A t \in Tasks, s \in Subtasks : status[t] # "absent" =>
    /\ subtask[t][s] \notin {"none", "empty"} => subtask'[t][s] \notin {"none", "empty"}
    /\ subtask[t][s] = "empty" =>
         \/ subtask'[t][s] = "empty" \/ executed[t][s] > 0
         \/ \E m \in net : Accepts(m, t, s)

LEMMA SubtasksUnchanged ==
  ASSUME subtask' = subtask
  PROVE  SubtasksGrow
  BY DEF SubtasksGrow

LEMMA SubtasksStep ==
  ASSUME Inv, [Next]_vars
  PROVE  SubtasksGrow
<1>1. ASSUME NEW t \in Tasks, evaluateAggregativeTasks(t) PROVE SubtasksGrow
  BY <1>1 DEF Inv, TypeOK, evaluateAggregativeTasks, SubtasksGrow
<1>2. ASSUME NEW m \in net, CacheProvisionedPod(m) PROVE SubtasksGrow
  <2>1. /\ m.task \in Tasks /\ m.from \in Subtasks /\ Accepts(m, m.task, m.from)
        /\ SetSubtask(m.task, m.from, "accepted")
    BY <1>2 DEF Inv, TypeOK, Requests, CacheProvisionedPod, Accepts
  <2>2. \A u \in Tasks, r \in Subtasks :
          subtask'[u][r] = IF u = m.task /\ r = m.from THEN "accepted" ELSE subtask[u][r]
    BY <2>1, SetSubtaskEffect DEF Inv
  <2>. QED
    BY <2>1, <2>2 DEF SubtasksGrow
<1>3. ASSUME NEW m \in Requests, NEW st \in {"done", "failed"}, SetSubtask(m.task, m.from, st),
             executed[m.task][m.from] > 0
      PROVE  SubtasksGrow
  <2>1. m.task \in Tasks /\ m.from \in Subtasks
    BY DEF Requests
  <2>2. \A u \in Tasks, r \in Subtasks :
          subtask'[u][r] = IF u = m.task /\ r = m.from THEN st ELSE subtask[u][r]
    BY <1>3, <2>1, SetSubtaskEffect DEF Inv
  <2>. QED
    BY <1>3, <2>1, <2>2 DEF SubtasksGrow
<1>4. ASSUME NEW m \in net, CollectResult(m) PROVE SubtasksGrow
  <2>1. m \in Requests /\ executed[m.task][m.from] > 0 /\ SetSubtask(m.task, m.from, "done")
    BY <1>4 DEF Inv, TypeOK, RequestInv, Sound, CollectResult, SaveResultFromApp
  <2>. QED
    BY <1>3, <2>1
<1>5. ASSUME NEW h \in handlers, SaveFailure(h) PROVE SubtasksGrow
  <2>1. h.request \in Requests /\ executed[h.request.task][h.request.from] > 0
    BY <1>5 DEF Inv, TypeOK, RequestInv, HandlerInv, Sound, SaveFailure
  <2>2. SetSubtask(h.request.task, h.request.from, "failed")
    BY <1>5 DEF Inv, HandlerInv, SaveFailure, SaveResultFromApp
  <2>. QED
    BY <1>3, <2>1, <2>2
<1>6. ASSUME NEW h \in handlers, SetRunning(h) PROVE SubtasksGrow
  BY <1>6 DEF Inv, TypeOK, Requests, SetRunning, SetTaskStatus, SubtasksGrow
<1>7. ASSUME NEW h \in handlers, Proceed(h) PROVE SubtasksGrow
  <2>1. SetRunning(h) \/ SaveFailure(h) \/ subtask' = subtask
    BY <1>7 DEF Proceed, SetPodForApplication, CheckAccepted, TellAggregator, EnqueueWorker, Reply,
       RefuseFailure, SetPodIdle, CheckDone, EnqueueResponse
  <2>. QED
    BY <1>5, <1>6, <2>1, SubtasksUnchanged
<1>8. ASSUME NEW m \in net, Receive(m) PROVE SubtasksGrow
  <2>1. CacheProvisionedPod(m) \/ CollectResult(m) \/ subtask' = subtask
    BY <1>8 DEF Receive, CollectRejection, RefuseResult, CollectFailure
  <2>. QED
    BY <1>2, <1>4, <2>1, SubtasksUnchanged
<1>9. ASSUME NEW t \in Tasks, NEW n \in Nodes, SendToPod(t, n) \/ PodFinishes(t, n)
      PROVE  SubtasksGrow
  BY <1>9, SubtasksUnchanged DEF SendToPod, PodFinishes
<1>10. ASSUME NEW n \in Nodes, dispatchSubtask(n) PROVE SubtasksGrow
  BY <1>10, SubtasksUnchanged DEF dispatchSubtask
<1>11. ASSUME NEW t \in Tasks, AggregatorFinishes(t) PROVE SubtasksGrow
  BY <1>11, SubtasksUnchanged DEF AggregatorFinishes
<1>12. CASE UNCHANGED vars
  BY <1>12, SubtasksUnchanged DEF vars
<1>. QED
  BY <1>1, <1>7, <1>8, <1>9, <1>10, <1>11, <1>12 DEF Next

(* A request under way was under way, repeats one that was, reports, or is *)
(* one of those sent for a task that has just arrived.                     *)
LEMMA NetStep ==
  ASSUME Inv, [Next]_vars
  PROVE  \A x \in net' :
           \/ x \in net \/ x.type = "report" \/ \E m \in net : Like(x, m)
           \/ \E t \in Tasks : evaluateAggregativeTasks(t) /\ x.task = t
<1>. SUFFICES ASSUME NEW x \in net'
              PROVE  \/ x \in net \/ x.type = "report" \/ \E m \in net : Like(x, m)
                     \/ \E t \in Tasks : evaluateAggregativeTasks(t) /\ x.task = t
  OBVIOUS
<1>1. CASE net' = net
  BY <1>1
<1>2. ASSUME NEW t \in Tasks, evaluateAggregativeTasks(t), x \notin net PROVE x.task = t
  BY <1>2 DEF evaluateAggregativeTasks, Request
<1>3. ASSUME NEW t \in Tasks, AggregatorFinishes(t), x \notin net PROVE x.type = "report"
  BY <1>3 DEF AggregatorFinishes, Request
<1>4. ASSUME NEW t \in Tasks, NEW n \in Nodes, PodFinishes(t, n), x \notin net PROVE x.type = "report"
  BY <1>4 DEF PodFinishes, Request
<1>5. ASSUME NEW m \in net, Receive(m), x \notin net PROVE Like(x, m)
  <2>1. Take(m)
    BY <1>5 DEF Receive, CacheProvisionedPod, CollectRejection, CollectResult, RefuseResult,
       CollectFailure, Deliver
  <2>. QED
    BY <1>5, <2>1, TakeEffect DEF Inv
<1>6. ASSUME NEW h \in handlers, Proceed(h) PROVE net' = net
  BY <1>6 DEF Proceed, SetPodForApplication, CheckAccepted, SetRunning, TellAggregator, EnqueueWorker,
     Reply, SaveFailure, RefuseFailure, SetPodIdle, CheckDone, EnqueueResponse
<1>7. ASSUME NEW n \in Nodes, dispatchSubtask(n) PROVE net' = net
  BY <1>7 DEF dispatchSubtask
<1>8. ASSUME NEW t \in Tasks, NEW n \in Nodes, SendToPod(t, n) PROVE net' = net
  BY <1>8 DEF SendToPod
<1>9. ASSUME UNCHANGED vars PROVE net' = net
  BY <1>9 DEF vars
<1>. QED
  BY <1>1, <1>2, <1>3, <1>4, <1>5, <1>6, <1>7, <1>8, <1>9 DEF Next

LEMMA StatusStep ==
  ASSUME Inv, [Next]_vars, NEW t \in Tasks
  PROVE  /\ status'[t] = "rejected" => status[t] = "rejected" \/ \E m \in net : Rejects(m, t)
         /\ aggSent'[t] > 0 => aggSent[t] > 0 \/ (Filled(t) /\ subtask' = subtask)
<1>. DEFINE Goal == /\ status'[t] = "rejected" => status[t] = "rejected" \/ \E m \in net : Rejects(m, t)
                    /\ aggSent'[t] > 0 => aggSent[t] > 0 \/ (Filled(t) /\ subtask' = subtask)
<1>0. status \in [Tasks -> {"absent", "pending", "accepted", "running"} \cup Terminal]
  BY DEF Inv, TypeOK
<1>1. ASSUME NEW u \in Tasks, evaluateAggregativeTasks(u) PROVE Goal
  BY <1>0, <1>1 DEF evaluateAggregativeTasks
<1>2. ASSUME NEW u \in Tasks, AggregatorFinishes(u) PROVE Goal
  BY <1>2 DEF AggregatorFinishes
<1>3. ASSUME NEW m \in net, Receive(m) PROVE Goal
  <2>1. m.task \in Tasks
    BY DEF Inv, TypeOK, Requests
  <2>2. aggSent' = aggSent
    BY <1>3 DEF Receive, CacheProvisionedPod, CollectRejection, CollectResult, RefuseResult,
       CollectFailure, SaveResultFromApp
  <2>3. CASE CollectRejection(m)
    BY <1>0, <2>1, <2>2, <2>3 DEF CollectRejection, SetStatus, Rejects
  <2>4. CASE CollectFailure(m)
    BY <1>0, <2>1, <2>2, <2>4 DEF CollectFailure, SetStatus
  <2>5. CASE CacheProvisionedPod(m) \/ CollectResult(m) \/ RefuseResult(m)
    BY <2>2, <2>5 DEF CacheProvisionedPod, CollectResult, RefuseResult, SaveResultFromApp
  <2>. QED
    BY <1>3, <2>3, <2>4, <2>5 DEF Receive
<1>4. ASSUME NEW h \in handlers, Proceed(h) PROVE Goal
  <2>1. h.request.task \in Tasks
    BY DEF Inv, TypeOK, Requests
  <2>2. CASE CheckAccepted(h)
    BY <1>0, <2>1, <2>2 DEF CheckAccepted, StatusAfterCheck
  <2>3. CASE SetRunning(h)
    BY <1>0, <2>1, <2>3 DEF SetRunning, SetTaskStatus
  <2>4. CASE TellAggregator(h)
    <3>1. Filled(h.request.task) /\ aggSent \in [Tasks -> Nat]
      BY <2>4 DEF Inv, TypeOK, HandlerInv, TellAggregator
    <3>. QED
      BY <2>1, <2>4, <3>1 DEF TellAggregator
  <2>5. CASE CheckDone(h)
    BY <1>0, <2>1, <2>5 DEF CheckDone, StatusAfterCheck
  <2>6. CASE SetPodForApplication(h) \/ Reply(h) \/ SaveFailure(h) \/ RefuseFailure(h) \/ SetPodIdle(h)
             \/ EnqueueResponse(h) \/ \E n \in Nodes : EnqueueWorker(h, n)
    BY <2>6 DEF SetPodForApplication, Reply, SaveFailure, RefuseFailure, SaveResultFromApp, SetPodIdle,
       EnqueueResponse, EnqueueWorker
  <2>. QED
    BY <1>4, <2>2, <2>3, <2>4, <2>5, <2>6 DEF Proceed
<1>5. ASSUME NEW n \in Nodes, dispatchSubtask(n) PROVE Goal
  BY <1>5 DEF dispatchSubtask
<1>6. ASSUME NEW u \in Tasks, NEW n \in Nodes, SendToPod(u, n) \/ PodFinishes(u, n) PROVE Goal
  BY <1>6 DEF SendToPod, PodFinishes
<1>7. ASSUME UNCHANGED vars PROVE Goal
  BY <1>7 DEF vars
<1>. QED
  BY <1>1, <1>2, <1>3, <1>4, <1>5, <1>6, <1>7 DEF Next

(* A node that does not accept a cached task stays so. *)
LEMMA RefusingKept ==
  ASSUME SubCoordinators = {}, Inv, [Next]_vars, NEW t \in Tasks, NEW n \in Nodes,
         status[t] # "absent", Refusing(t, n)
  PROVE  Refusing(t, n)'
<1>1. n \in Workers /\ n \in Subtasks
  BY DEF Workers, Subtasks
<1>2. ~ (executed[t][n] > 0)
  BY <1>1 DEF Inv, WorkInv, Filled, Refusing
<1>3. subtask'[t][n] = "empty"
  BY <1>1, <1>2, SubtasksStep DEF SubtasksGrow, Refusing
<1>4. ASSUME NEW x \in net', Accepts(x, t, n) PROVE FALSE
  <2>1. \A u \in Tasks : evaluateAggregativeTasks(u) => u # t
    BY DEF evaluateAggregativeTasks
  <2>2. x \in net \/ \E m \in net : Like(x, m)
    BY <1>4, <2>1, NetStep DEF Accepts
  <2>. QED
    BY <1>4, <2>2 DEF Refusing, Accepts, Like
<1>. QED
  BY <1>3, <1>4 DEF Refusing

(* The requests for a new task agree with its entries.                     *)
LEMMA NewRejections ==
  ASSUME SubCoordinators = {}, Inv, NEW t \in Tasks, evaluateAggregativeTasks(t),
         NEW x \in net', Rejects(x, t)
  PROVE  Refusing(t, x.from)'
<1>1. \A m \in net : m.task # t
  BY DEF Inv, RequestInv, Sound, ArrivedCached, evaluateAggregativeTasks
<1>2. PICK reply \in [Nodes \ (known \cap Workers) -> Replies] :
        net' = net \cup {Request("provision", t, n, reply[n], 0) : n \in Nodes \ (known \cap Workers)}
  BY DEF evaluateAggregativeTasks
<1>3. PICK n \in Nodes \ (known \cap Workers) : x = Request("provision", t, n, reply[n], 0)
  BY <1>1, <1>2 DEF Rejects
<1>4. x.from = n /\ reply[n] = "rejected" /\ n \notin known /\ n \in Subtasks /\ n # agg
  BY <1>3, TaskLifeAssumption DEF Rejects, Request, Workers, Subtasks
<1>5. subtask'[t][n] = "empty"
  BY <1>4 DEF evaluateAggregativeTasks, Inv, TypeOK
<1>6. \A m \in net' : ~ Accepts(m, t, n)
  BY <1>1, <1>2, <1>4 DEF Accepts, Request
<1>. QED
  BY <1>4, <1>5, <1>6 DEF Refusing

LEMMA RejectStep ==
  ASSUME SubCoordinators = {}, Inv, RejectInv, [Next]_vars
  PROVE  RejectInv'
<1>1. \A m \in net : m.task \in Tasks /\ status[m.task] # "absent" /\ (Rejects(m, m.task) => m.from \in Nodes)
  BY DEF Inv, TypeOK, Requests, RequestInv, Sound, ArrivedCached, Rejects
<1>2. ASSUME NEW t \in Tasks, status'[t] = "rejected"
      PROVE  \E n \in Nodes : Refusing(t, n)'
  <2>1. CASE status[t] = "rejected"
    BY <2>1, RefusingKept DEF RejectInv
  <2>2. CASE \E m \in net : Rejects(m, t)
    <3>1. PICK m \in net : Rejects(m, t)
      BY <2>2
    <3>2. m.task = t /\ m.from \in Nodes /\ Refusing(t, m.from) /\ status[t] # "absent"
      BY <1>1, <3>1 DEF RejectInv, Rejects
    <3>. QED
      BY <3>2, RefusingKept
  <2>. QED
    BY <1>2, <2>1, <2>2, StatusStep
<1>3. ASSUME NEW x \in net', Rejects(x, x.task)
      PROVE  Refusing(x.task, x.from)'
  <2>1. ASSUME NEW m \in net, x = m \/ Like(x, m)
        PROVE  Refusing(x.task, x.from)'
    <3>1. Rejects(m, m.task) /\ x.task = m.task /\ x.from = m.from
      BY <1>3, <2>1 DEF Rejects, Like
    <3>2. m.task \in Tasks /\ m.from \in Nodes /\ Refusing(m.task, m.from) /\ status[m.task] # "absent"
      BY <1>1, <3>1 DEF RejectInv
    <3>. QED
      BY <3>1, <3>2, RefusingKept
  <2>2. ASSUME NEW t \in Tasks, evaluateAggregativeTasks(t), x.task = t
        PROVE  Refusing(x.task, x.from)'
    BY <1>3, <2>2, NewRejections
  <2>3. x.type # "report"
    BY <1>3 DEF Rejects
  <2>. QED
    BY <2>1, <2>2, <2>3, NetStep
<1>4. ASSUME NEW t \in Tasks, aggSent'[t] > 0
      PROVE  Filled(t)'
  <2>1. CASE aggSent[t] > 0
    <3>1. Filled(t) /\ status[t] # "absent"
      BY <2>1 DEF RejectInv, Inv, ArrivedCached, Filled, Cached
    <3>. QED
      BY <3>1, SubtasksStep DEF SubtasksGrow, Filled
  <2>2. CASE Filled(t) /\ subtask' = subtask
    BY <2>2 DEF Filled
  <2>. QED
    BY <1>4, <2>1, <2>2, StatusStep
<1>. QED
  BY <1>2, <1>3, <1>4 DEF RejectInv

(* Theorem: when no sub-node is a coordinator, a task that one of them     *)
(* rejected is never dispatched, whichever rejections and acceptances the  *)
(* handlers interleave and however often they are repeated.                *)
THEOREM RejectedCorrect ==
  ASSUME SubCoordinators = {}
  PROVE  Spec => []RejectedNeverDispatched
<1>1. Init => Inv /\ RejectInv
  BY InvInit DEF Init, RejectInv
<1>2. Inv /\ RejectInv /\ [Next]_vars => (Inv /\ RejectInv)'
  BY InvStep, RejectStep
<1>3. Inv /\ RejectInv => RejectedNeverDispatched
  <2>1. SUFFICES ASSUME Inv, RejectInv, NEW t \in Tasks, status[t] = "rejected"
                 PROVE  aggSent[t] = 0 /\ answered[t] = 0
    BY DEF RejectedNeverDispatched
  <2>2. PICK n \in Nodes : Refusing(t, n)
    BY <2>1 DEF RejectInv
  <2>3. n \in Workers /\ n \in Subtasks
    BY DEF Workers, Subtasks
  <2>4. ~ Filled(t)
    BY <2>2, <2>3 DEF Refusing, Filled
  <2>5. ~ (aggSent[t] > 0) /\ ~ (answered[t] > 0)
    BY <2>1, <2>3, <2>4 DEF RejectInv, Inv, WorkInv, DoneInv, AllExecuted
  <2>. QED
    BY <2>1, <2>5 DEF Inv, TypeOK
<1>. QED
  BY <1>1, <1>2, <1>3, PTL DEF Spec
-----------------------------------------------------------------------------
(***************************************************************************)
(* A subtask is in one place, and what it keeps busy is exactly known.     *)
(***************************************************************************)

(* The constants for which a single handler launches each task: every node *)
(* is a worker whose pod the pod cache knows beforehand.                   *)
Prepared == SubCoordinators = {} /\ InitiallyKnown = Nodes

Launching(h) == h.pc \in {"check", "run", "tell", "enqueue"}

(* The subtask of t for n is not yet on its way. *)
Nowhere(t, n) ==
  t \notin waiting[n] /\ sending[t][n] = 0 /\ atPod[t][n] = 0 /\ executed[t][n] = 0

(* No sub-node is asked, one handler launches a task, and until it has     *)
(* told the aggregator and put a subtask in its queue nothing is done.     *)
LaunchInv ==
  /\ known = Nodes
  /\ \A m \in net : m.type = "report"
  /\ \A h \in handlers : h.pc # "setPod"
  /\ \A g, h \in handlers :
       Launching(g) /\ Launching(h) /\ g.request.task = h.request.task => g = h
  /\ \A h \in handlers : h.pc \in {"check", "run", "tell"} => aggSent[h.request.task] = 0
  /\ \A h \in handlers :
       h.pc = "enqueue" => \A n \in h.todo : Nowhere(h.request.task, n)
  /\ \A t \in Tasks : executed[t][agg] > 0 => aggSent[t] > 0

(* The reports that are on their way or being handled. *)
Reports == {m \in net \cup {h.request : h \in handlers} : m.type = "report"}

(* All reports of a subtask, repeated ones too, say the same, and one that *)
(* says failed has no finished subtask to overwrite.                       *)
ReportInv ==
  /\ \A m, p \in Reports : m.task = p.task /\ m.from = p.from => m.outcome = p.outcome
  /\ \A m \in Reports : m.outcome = "failed" => subtask[m.task][m.from] # "done"

(* Subtask t is on its way to the pod of n or running there.               *)
Loaded(t, n) == sending[t][n] > 0 \/ atPod[t][n] > 0

Freeing(h, n) == h.request.from = n /\ h.pc \in {"save", "setIdle"}

(* When no request is repeated, a single thing keeps a scheduler busy.     *)
Slot(n) ==
  /\ idle[n] => ~ Serving(n)
  /\ \A t, u \in Tasks : Loaded(t, n) /\ Loaded(u, n) => t = u
  /\ \A t \in Tasks, m \in net : Loaded(t, n) => m.from # n
  /\ \A t \in Tasks, h \in handlers : Loaded(t, n) => ~ Freeing(h, n)
  /\ \A m, p \in net : m.from = n /\ p.from = n => m = p
  /\ \A g, h \in handlers : Freeing(g, n) /\ Freeing(h, n) => g = h
  /\ \A m \in net, h \in handlers : ~ (m.from = n /\ Freeing(h, n))

SlotInv == \A n \in Workers : Slot(n)

(* The workers are the nodes with a subtask.                               *)
LEMMA WorkersAreNodes ==
  ASSUME Prepared
  PROVE  Workers = Nodes /\ \A n \in Nodes : n \in Subtasks /\ n # agg
  BY TaskLifeAssumption DEF Prepared, Workers, Subtasks

(* Handler h becomes g, which handles the same request. *)
Becomes(h, g) == handlers' = (handlers \ {h}) \cup {g} /\ g.request = h.request

(* A handler that goes on is replaced by one of the same request.          *)
LEMMA GotoBecomes ==
  ASSUME TypeOK, NEW h \in handlers, NEW pc \in Places, Goto(h, pc)
  PROVE  \E g : Becomes(h, g) /\ g.pc = pc /\ g.todo = h.todo
<1>. DEFINE moved == [h EXCEPT !.pc = pc]
<1>1. h \in HandlerSet
  BY DEF TypeOK, HandlerSet
<1>2. moved.request = h.request /\ moved.pc = pc /\ moved.todo = h.todo
  BY <1>1 DEF HandlerSet
<1>3. handlers' = (handlers \ {h}) \cup {moved}
  BY DEF Goto
<1>. HIDE DEF moved
<1>. QED
  BY <1>2, <1>3 DEF Becomes

(* What is in the places of a subtask stays; so does what was told.        *)
WorkStays == UNCHANGED <<known, waiting, sending, atPod, executed, aggSent>>

(* A handler goes on and nothing is launched.                              *)
LEMMA LaunchMoved ==
  ASSUME LaunchInv, ServedOnce, WorkStays, UNCHANGED net, NEW h \in handlers, NEW g, Becomes(h, g),
         g.pc \notin {"setPod", "enqueue"}, Launching(g) => Launching(h),
         g.pc \in {"check", "run", "tell"} => h.pc \in {"check", "run", "tell"}
  PROVE  LaunchInv' /\ ServedOnce'
<1>1. LaunchInv'
  <2>1. \A x \in handlers' : x = g \/ (x \in handlers /\ x # h)
    BY DEF Becomes
  <2>2. \A x \in handlers' : x.pc # "setPod"
    BY <2>1 DEF LaunchInv
  <2>3. ASSUME NEW x \in handlers', NEW y \in handlers', Launching(x), Launching(y),
               x.request.task = y.request.task
        PROVE  x = y
    BY <2>1, <2>3 DEF LaunchInv, Becomes
  <2>4. \A x \in handlers' : x.pc \in {"check", "run", "tell"} => aggSent'[x.request.task] = 0
    BY <2>1 DEF LaunchInv, WorkStays, Becomes
  <2>5. ASSUME NEW x \in handlers', x.pc = "enqueue", NEW n \in x.todo
        PROVE  Nowhere(x.request.task, n)'
    BY <2>1, <2>5 DEF LaunchInv, WorkStays, Nowhere
  <2>. QED
    BY <2>2, <2>3, <2>4, <2>5 DEF LaunchInv, WorkStays, Launching
<1>2. ServedOnce'
  BY DEF ServedOnce, WorkStays
<1>. QED
  BY <1>1, <1>2

(* A handler returns.                                                      *)
LEMMA LaunchReturned ==
  ASSUME LaunchInv, ServedOnce, WorkStays, UNCHANGED net, NEW h \in handlers, Return(h)
  PROVE  LaunchInv' /\ ServedOnce'
<1>1. handlers' \subseteq handlers
  BY DEF Return
<1>2. ServedOnce'
  BY DEF ServedOnce, WorkStays
<1>3. LaunchInv'
  BY <1>1 DEF LaunchInv, WorkStays, Launching, Nowhere
<1>. QED
  BY <1>2, <1>3

(* A report arrives and its handler starts.                                *)
LEMMA LaunchDelivered ==
  ASSUME Inv, LaunchInv, ServedOnce, WorkStays, NEW m \in net, NEW pc \in {"save", "setIdle"}, Deliver(m, pc)
  PROVE  LaunchInv' /\ ServedOnce'
<1>1. /\ \A x \in net' : x \in net \/ x.type = m.type
      /\ \A h \in handlers' : h \in handlers \/ h.pc = pc
  BY DeliverEffect DEF Inv, Places, Like
<1>2. ServedOnce'
  BY DEF ServedOnce, WorkStays
<1>3. LaunchInv'
  BY <1>1 DEF LaunchInv, WorkStays, Launching, Nowhere
<1>. QED
  BY <1>2, <1>3

(* A report arrives and is refused.                                        *)
LEMMA LaunchRefused ==
  ASSUME Inv, LaunchInv, ServedOnce, WorkStays, NEW m \in net, Take(m), UNCHANGED handlers
  PROVE  LaunchInv' /\ ServedOnce'
<1>1. \A x \in net' : x \in net \/ x.type = m.type
  BY TakeEffect DEF Inv, Like
<1>2. ServedOnce'
  BY DEF ServedOnce, WorkStays
<1>3. LaunchInv'
  BY <1>1 DEF LaunchInv, WorkStays, Launching, Nowhere
<1>. QED
  BY <1>2, <1>3

(* A task that is not cached is handled nowhere and nothing was told.      *)
LEMMA NewTask ==
  ASSUME Prepared, Inv, NEW t \in Tasks, evaluateAggregativeTasks(t), LaunchInv
  PROVE  /\ aggSent[t] = 0 /\ executed[t][agg] = 0
         /\ \A n \in Nodes : Nowhere(t, n)
         /\ \A m \in net : m.task # t
         /\ \A h \in handlers : h.request.task # t
         /\ net' = net
         /\ \E g : handlers' = handlers \cup {g} /\ g = Handler(Request("task", t, agg, "accepted", 0), "check", {})
<1>1. ~ Cached(t)
  BY DEF evaluateAggregativeTasks, Inv, ArrivedCached
<1>2. aggSent[t] = 0 /\ ~ (executed[t][agg] > 0)
  BY <1>1 DEF Inv, WorkInv, TypeOK, LaunchInv
<1>3. ASSUME NEW n \in Nodes PROVE Nowhere(t, n)
  BY <1>1, <1>2, WorkersAreNodes DEF Nowhere, Inv, TypeOK, WorkInv
<1>4. \A m : m \in net \/ (\E h \in handlers : m = h.request) => m.task # t
  BY <1>1 DEF Inv, RequestInv, Sound
<1>5. Nodes \ (known \cap Workers) = {}
  BY WorkersAreNodes DEF LaunchInv
<1>6. executed[t][agg] = 0
  BY <1>2 DEF Inv, TypeOK, Subtasks
<1>. DEFINE told == Nodes \ (known \cap Workers)
<1>7. \E reply \in [told -> Replies] :
        net' = net \cup {Request("provision", t, n, reply[n], 0) : n \in told}
  BY DEF evaluateAggregativeTasks
<1>8. net' = net
  BY <1>5, <1>7
<1>9. handlers' = handlers \cup {Handler(Request("task", t, agg, "accepted", 0), "check", {})}
  BY <1>5 DEF evaluateAggregativeTasks
<1>. QED
  BY <1>2, <1>3, <1>4, <1>6, <1>8, <1>9

(* No pod works on a new task.                                             *)
LEMMA NewTaskPods ==
  ASSUME Prepared, Inv, NEW t \in Tasks, evaluateAggregativeTasks(t)
  PROVE  \A u \in Tasks, n \in Nodes : atPod'[u][n] = IF u = t THEN 0 ELSE atPod[u][n]
<1>1. PICK reply : atPod' = [atPod EXCEPT ![t] = [s \in Subtasks |->
        IF s \in SubCoordinators /\ reply[s] = "accepted" THEN 1 ELSE 0]]
  BY DEF evaluateAggregativeTasks
<1>. DEFINE row == [s \in Subtasks |->
               IF s \in SubCoordinators /\ reply[s] = "accepted" THEN 1 ELSE 0]
<1>2. \A n \in Nodes : row[n] = 0
  BY WorkersAreNodes DEF Prepared
<1>3. atPod' = [atPod EXCEPT ![t] = row]
  BY <1>1
<1>. HIDE DEF row
<1>. QED
  BY <1>2, <1>3, WorkersAreNodes DEF Inv, TypeOK

(* A new task is cached and found complete, which starts its launch.       *)
LEMMA LaunchEvaluate ==
  ASSUME Prepared, Inv, LaunchInv, ServedOnce, NEW t \in Tasks, evaluateAggregativeTasks(t)
  PROVE  LaunchInv' /\ ServedOnce'
<1>1. PICK g : handlers' = handlers \cup {g} /\ g = Handler(Request("task", t, agg, "accepted", 0), "check", {})
  BY NewTask
<1>2. g.pc = "check" /\ g.request.task = t /\ g.todo = {}
  BY <1>1 DEF Handler, Request
<1>3. /\ UNCHANGED <<known, waiting, sending, executed, aggSent, net>>
      /\ \A u \in Tasks, n \in Nodes : atPod'[u][n] = IF u = t THEN 0 ELSE atPod[u][n]
  BY NewTask, NewTaskPods DEF evaluateAggregativeTasks
<1>4. \A u \in Tasks, n \in Nodes : Nowhere(u, n) => Nowhere(u, n)'
  BY <1>3 DEF Nowhere
<1>5. ServedOnce'
  BY <1>3, NewTask, WorkersAreNodes DEF ServedOnce, Nowhere
<1>6. \A h \in handlers : h.request.task \in Tasks /\ h.todo \subseteq Nodes /\ h.request.task # t
  BY NewTask DEF Inv, TypeOK, Requests
<1>7. LaunchInv'
  <2>1. ASSUME NEW h \in handlers', h.pc \in {"check", "run", "tell"}
        PROVE  aggSent'[h.request.task] = 0
    BY <1>1, <1>2, <1>3, <2>1, NewTask DEF LaunchInv
  <2>2. ASSUME NEW h \in handlers', h.pc = "enqueue", NEW n \in h.todo
        PROVE  Nowhere(h.request.task, n)'
    BY <1>1, <1>2, <1>4, <1>6, <2>2 DEF LaunchInv
  <2>3. ASSUME NEW x \in handlers', NEW y \in handlers', Launching(x), Launching(y),
               x.request.task = y.request.task
        PROVE  x = y
    BY <1>1, <1>2, <1>6, <2>3 DEF LaunchInv
  <2>4. \A h \in handlers' : h.pc # "setPod"
    BY <1>1, <1>2 DEF LaunchInv
  <2>. QED
    BY <1>3, <2>1, <2>2, <2>3, <2>4 DEF LaunchInv, Launching
<1>. QED
  BY <1>5, <1>7

(* The aggregator is told, the only time for this task.                    *)
LEMMA LaunchTell ==
  ASSUME Prepared, Inv, LaunchInv, ServedOnce, NEW h \in handlers, TellAggregator(h)
  PROVE  LaunchInv' /\ ServedOnce'
<1>. DEFINE t == h.request.task
            g == [h EXCEPT !.pc = "enqueue", !.todo = GetSubtasksRegardingNode(t)]
<1>1. h \in HandlerSet /\ t \in Tasks /\ h.pc = "tell" /\ aggSent[t] = 0
  BY DEF TellAggregator, Inv, TypeOK, HandlerSet, Requests, LaunchInv
<1>2. g.request = h.request /\ g.pc = "enqueue" /\ g.todo = GetSubtasksRegardingNode(t)
  BY <1>1 DEF HandlerSet
<1>3. Becomes(h, g)
  BY <1>2 DEF TellAggregator, Becomes
<1>4. GetSubtasksRegardingNode(t) \subseteq Nodes
  BY DEF GetSubtasksRegardingNode, Workers
<1>5. /\ UNCHANGED <<known, waiting, sending, atPod, executed, net>>
      /\ \A u \in Tasks : aggSent'[u] = IF u = t THEN 1 ELSE aggSent[u]
  BY <1>1 DEF TellAggregator, Inv, TypeOK
<1>6. \A n \in Nodes : Nowhere(t, n)
  BY <1>1, WorkersAreNodes DEF Inv, WorkInv, TypeOK, Nowhere
<1>. HIDE DEF g, t
<1>7. \A x \in handlers' : x = g \/ (x \in handlers /\ x # h)
  BY <1>3 DEF Becomes
<1>8. \A x \in handlers : x.request.task \in Tasks
  BY DEF Inv, TypeOK, Requests
<1>9. ServedOnce'
  BY <1>5 DEF ServedOnce
<1>10. LaunchInv'
  <2>1. ASSUME NEW x \in handlers', NEW y \in handlers', Launching(x), Launching(y),
               x.request.task = y.request.task
        PROVE  x = y
    BY <1>1, <1>2, <1>7, <2>1 DEF LaunchInv, Launching
  <2>2. ASSUME NEW x \in handlers', x.pc \in {"check", "run", "tell"}
        PROVE  aggSent'[x.request.task] = 0
    <3>1. x \in handlers /\ x # h
      BY <1>2, <1>7, <2>2
    <3>2. x.request.task # t
      BY <1>1, <2>2, <3>1 DEF LaunchInv, Launching, t
    <3>. QED
      BY <1>5, <1>8, <2>2, <3>1, <3>2 DEF LaunchInv
  <2>3. ASSUME NEW x \in handlers', x.pc = "enqueue", NEW n \in x.todo
        PROVE  Nowhere(x.request.task, n)'
    BY <1>2, <1>4, <1>5, <1>6, <1>7, <2>3 DEF LaunchInv, Nowhere, t
  <2>4. \A x \in handlers' : x.pc # "setPod"
    BY <1>2, <1>7 DEF LaunchInv
  <2>5. \A u \in Tasks : executed'[u][agg] > 0 => aggSent'[u] > 0
    BY <1>5 DEF LaunchInv
  <2>. QED
    BY <1>5, <2>1, <2>2, <2>3, <2>4, <2>5 DEF LaunchInv, Launching
<1>. QED
  BY <1>9, <1>10

(* A subtask is put in a queue, its first place.                           *)
LEMMA LaunchEnqueue ==
  ASSUME Prepared, Inv, LaunchInv, ServedOnce, NEW h \in handlers, NEW n \in Nodes, EnqueueWorker(h, n)
  PROVE  LaunchInv' /\ ServedOnce'
<1>. DEFINE t == h.request.task
            g == [h EXCEPT !.todo = @ \ {n}]
<1>1. h \in HandlerSet /\ t \in Tasks /\ h.pc = "enqueue" /\ n \in h.todo /\ n \in known
  BY DEF EnqueueWorker, Inv, TypeOK, HandlerSet, Requests, LaunchInv
<1>2. g.request = h.request /\ g.pc = "enqueue" /\ g.todo = h.todo \ {n}
  BY <1>1 DEF HandlerSet
<1>3. Becomes(h, g)
  BY <1>2 DEF EnqueueWorker, Becomes
<1>4. /\ UNCHANGED <<known, sending, atPod, executed, aggSent, net>>
      /\ \A w \in Nodes : waiting'[w] = IF w = n THEN waiting[n] \cup {t} ELSE waiting[w]
  BY <1>1 DEF EnqueueWorker, Inv, TypeOK
<1>5. Nowhere(t, n)
  BY <1>1 DEF LaunchInv
<1>. HIDE DEF g, t
<1>6. \A x \in handlers' : x = g \/ (x \in handlers /\ x # h)
  BY <1>3 DEF Becomes
<1>7. \A x \in handlers : x.request.task \in Tasks /\ x.todo \subseteq Nodes
  BY DEF Inv, TypeOK, Requests
<1>8. ServedOnce'
  <2>1. SUFFICES ASSUME NEW u \in Tasks, NEW w \in Workers
                 PROVE  (IF u \in waiting'[w] THEN 1 ELSE 0) + sending'[u][w] + atPod'[u][w]
                          + executed'[u][w] <= 1
    BY DEF ServedOnce
  <2>2. CASE u = t /\ w = n
    BY <1>4, <1>5, <2>2 DEF Nowhere
  <2>3. CASE ~ (u = t /\ w = n)
    BY <1>4, <2>3, WorkersAreNodes DEF ServedOnce
  <2>. QED
    BY <2>2, <2>3
<1>9. LaunchInv'
  <2>1. ASSUME NEW x \in handlers', NEW y \in handlers', Launching(x), Launching(y),
               x.request.task = y.request.task
        PROVE  x = y
    BY <1>1, <1>2, <1>6, <2>1 DEF LaunchInv, Launching
  <2>2. \A x \in handlers' : x.pc \in {"check", "run", "tell"} => aggSent'[x.request.task] = 0
    BY <1>2, <1>4, <1>6 DEF LaunchInv
  <2>3. ASSUME NEW x \in handlers', x.pc = "enqueue", NEW w \in x.todo
        PROVE  Nowhere(x.request.task, w)'
    <3>1. CASE x = g
      BY <1>1, <1>2, <1>4, <1>7, <2>3, <3>1 DEF LaunchInv, Nowhere, t
    <3>2. CASE x \in handlers /\ x # h
      <4>1. x.request.task # t /\ x.request.task \in Tasks /\ w \in Nodes
        BY <1>1, <1>7, <2>3, <3>2 DEF LaunchInv, Launching, t
      <4>. QED
        BY <1>4, <2>3, <3>2, <4>1 DEF LaunchInv, Nowhere
    <3>. QED
      BY <1>6, <3>1, <3>2
  <2>4. \A x \in handlers' : x.pc # "setPod"
    BY <1>2, <1>6 DEF LaunchInv
  <2>. QED
    BY <1>4, <2>1, <2>2, <2>3, <2>4 DEF LaunchInv, Launching
<1>. QED
  BY <1>8, <1>9

(* A subtask moves on: out of the queue, to the pod, or done there.  What  *)
(* was nowhere stays nowhere.                                              *)
LEMMA LaunchWork ==
  ASSUME Inv, LaunchInv, UNCHANGED <<known, handlers, aggSent>>,
         \A m \in net' : m \in net \/ m.type = "report",
         \A t \in Tasks, n \in Nodes : Nowhere(t, n) => Nowhere(t, n)',
         \A t \in Tasks : executed'[t][agg] > 0 => executed[t][agg] > 0 \/ aggSent[t] > 0
  PROVE  LaunchInv'
<1>1. \A h \in handlers : h.request.task \in Tasks /\ h.todo \subseteq Nodes
  BY DEF Inv, TypeOK, Requests
<1>2. \A h \in handlers : h.pc = "enqueue" => \A n \in h.todo : Nowhere(h.request.task, n)'
  BY <1>1 DEF LaunchInv
<1>. QED
  BY <1>2 DEF LaunchInv, Launching

(* A subtask leaves the queue for an idle scheduler.                       *)
LEMMA LaunchDispatch ==
  ASSUME Prepared, Inv, LaunchInv, ServedOnce, NEW n \in Nodes, dispatchSubtask(n)
  PROVE  LaunchInv' /\ ServedOnce'
<1>1. PICK t \in waiting[n] : /\ waiting' = [waiting EXCEPT ![n] = @ \ {t}]
                              /\ sending' = [sending EXCEPT ![t][n] = @ + 1]
  BY DEF dispatchSubtask
<1>2. t \in Tasks /\ n \in Subtasks
  BY WorkersAreNodes DEF Inv, TypeOK
<1>3. /\ \A u \in Tasks, w \in Nodes :
           /\ sending'[u][w] = IF u = t /\ w = n THEN sending[t][n] + 1 ELSE sending[u][w]
           /\ u \in waiting'[w] <=> u \in waiting[w] /\ ~ (u = t /\ w = n)
      /\ UNCHANGED <<known, handlers, aggSent, net, atPod, executed>>
  BY <1>1, <1>2, WorkersAreNodes DEF dispatchSubtask, Inv, TypeOK
<1>4. ServedOnce'
  <2>1. SUFFICES ASSUME NEW u \in Tasks, NEW w \in Workers
                 PROVE  (IF u \in waiting'[w] THEN 1 ELSE 0) + sending'[u][w] + atPod'[u][w]
                          + executed'[u][w] <= 1
    BY DEF ServedOnce
  <2>2. w \in Nodes /\ w \in Subtasks
    BY WorkersAreNodes
  <2>3. {sending[u][w], atPod[u][w], executed[u][w]} \subseteq Nat
    BY <2>2 DEF Inv, TypeOK
  <2>4. (IF u \in waiting[w] THEN 1 ELSE 0) + sending[u][w] + atPod[u][w] + executed[u][w] <= 1
    BY DEF ServedOnce
  <2>5. CASE u = t /\ w = n
    BY <1>1, <1>3, <2>2, <2>3, <2>4, <2>5
  <2>6. CASE ~ (u = t /\ w = n)
    BY <1>3, <2>2, <2>4, <2>6
  <2>. QED
    BY <2>5, <2>6
<1>5. \A u \in Tasks, w \in Nodes : Nowhere(u, w) => Nowhere(u, w)'
  BY <1>1, <1>3 DEF Nowhere
<1>. QED
  BY <1>3, <1>4, <1>5, LaunchWork

(* A subtask comes to the pod, the only copy of it.                        *)
LEMMA LaunchSend ==
  ASSUME Prepared, Inv, LaunchInv, ServedOnce, NEW t \in Tasks, NEW n \in Nodes, SendToPod(t, n)
  PROVE  LaunchInv' /\ ServedOnce'
<1>1. n \in Subtasks /\ {sending[t][n], atPod[t][n], executed[t][n]} \subseteq Nat /\ sending[t][n] > 0
  BY WorkersAreNodes DEF Inv, TypeOK, SendToPod
<1>2. /\ sending'[t][n] = sending[t][n] - 1
      /\ atPod'[t][n] \in {atPod[t][n], atPod[t][n] + 1}
      /\ \A u \in Tasks, w \in Nodes : ~ (u = t /\ w = n) =>
           sending'[u][w] = sending[u][w] /\ atPod'[u][w] = atPod[u][w]
      /\ UNCHANGED <<known, handlers, aggSent, net, waiting, executed>>
  BY <1>1, WorkersAreNodes DEF SendToPod, Inv, TypeOK
<1>3. ServedOnce'
  <2>1. SUFFICES ASSUME NEW u \in Tasks, NEW w \in Workers
                 PROVE  (IF u \in waiting'[w] THEN 1 ELSE 0) + sending'[u][w] + atPod'[u][w]
                          + executed'[u][w] <= 1
    BY DEF ServedOnce
  <2>2. (IF u \in waiting[w] THEN 1 ELSE 0) + sending[u][w] + atPod[u][w] + executed[u][w] <= 1
    BY DEF ServedOnce
  <2>3. CASE u = t /\ w = n
    BY <1>1, <1>2, <2>2, <2>3
  <2>4. CASE ~ (u = t /\ w = n)
    BY <1>2, <2>2, <2>4, WorkersAreNodes
  <2>. QED
    BY <2>3, <2>4
<1>4. \A u \in Tasks, w \in Nodes : Nowhere(u, w) => Nowhere(u, w)'
  BY <1>1, <1>2 DEF Nowhere
<1>. QED
  BY <1>2, <1>3, <1>4, LaunchWork

(* A pod finishes its subtask.                                             *)
LEMMA LaunchFinish ==
  ASSUME Prepared, Inv, LaunchInv, ServedOnce, NEW t \in Tasks, NEW n \in Nodes, PodFinishes(t, n)
  PROVE  LaunchInv' /\ ServedOnce'
<1>1. n \in Subtasks /\ {sending[t][n], atPod[t][n], executed[t][n]} \subseteq Nat /\ atPod[t][n] > 0
  BY WorkersAreNodes DEF Inv, TypeOK, PodFinishes
<1>2. /\ atPod'[t][n] = atPod[t][n] - 1 /\ executed'[t][n] = executed[t][n] + 1
      /\ \A u \in Tasks, w \in Subtasks : ~ (u = t /\ w = n) =>
           executed'[u][w] = executed[u][w] /\ atPod'[u][w] = atPod[u][w]
      /\ UNCHANGED <<known, handlers, aggSent, waiting, sending>>
  BY <1>1 DEF PodFinishes, Inv, TypeOK
<1>3. \A m \in net' : m \in net \/ m.type = "report"
  BY DEF PodFinishes, Request
<1>4. ServedOnce'
  <2>1. SUFFICES ASSUME NEW u \in Tasks, NEW w \in Workers
                 PROVE  (IF u \in waiting'[w] THEN 1 ELSE 0) + sending'[u][w] + atPod'[u][w]
                          + executed'[u][w] <= 1
    BY DEF ServedOnce
  <2>2. (IF u \in waiting[w] THEN 1 ELSE 0) + sending[u][w] + atPod[u][w] + executed[u][w] <= 1
    BY DEF ServedOnce
  <2>3. CASE u = t /\ w = n
    BY <1>1, <1>2, <2>2, <2>3
  <2>4. CASE ~ (u = t /\ w = n)
    BY <1>2, <2>2, <2>4, WorkersAreNodes
  <2>. QED
    BY <2>3, <2>4
<1>5. \A u \in Tasks, w \in Nodes : Nowhere(u, w) => Nowhere(u, w)'
  BY <1>1, <1>2, WorkersAreNodes DEF Nowhere
<1>6. \A u \in Tasks : executed'[u][agg] = executed[u][agg]
  BY <1>2, WorkersAreNodes DEF Subtasks
<1>. QED
  BY <1>2, <1>3, <1>4, <1>5, <1>6, LaunchWork

(* The pod of the aggregator finishes.                                     *)
LEMMA LaunchAggregator ==
  ASSUME Prepared, Inv, LaunchInv, ServedOnce, NEW t \in Tasks, AggregatorFinishes(t)
  PROVE  LaunchInv' /\ ServedOnce'
<1>1. agg \in Subtasks /\ aggSent[t] > 0
  BY DEF Subtasks, AggregatorFinishes, Inv, WorkInv
<1>2. /\ \A u \in Tasks, w \in Nodes : executed'[u][w] = executed[u][w]
      /\ \A u \in Tasks : u # t => executed'[u][agg] = executed[u][agg]
      /\ UNCHANGED <<known, handlers, aggSent, waiting, sending, atPod>>
  BY <1>1, WorkersAreNodes DEF AggregatorFinishes, Inv, TypeOK
<1>3. \A m \in net' : m \in net \/ m.type = "report"
  BY DEF AggregatorFinishes, Request
<1>4. ServedOnce'
  BY <1>2, WorkersAreNodes DEF ServedOnce
<1>5. \A u \in Tasks, w \in Nodes : Nowhere(u, w) => Nowhere(u, w)'
  BY <1>2 DEF Nowhere
<1>6. \A u \in Tasks : executed'[u][agg] > 0 => executed[u][agg] > 0 \/ aggSent[u] > 0
  BY <1>1, <1>2
<1>. QED
  BY <1>2, <1>3, <1>4, <1>5, <1>6, LaunchWork

(* Every step keeps the launch in order and each subtask in one place.     *)
LEMMA LaunchStep ==
  ASSUME Prepared, Inv, LaunchInv, ServedOnce, [Next]_vars
  PROVE  LaunchInv' /\ ServedOnce'
<1>1. ASSUME NEW t \in Tasks, evaluateAggregativeTasks(t) \/ AggregatorFinishes(t)
      PROVE  LaunchInv' /\ ServedOnce'
  BY <1>1, LaunchEvaluate, LaunchAggregator
<1>2. ASSUME NEW m \in net, Receive(m)
      PROVE  LaunchInv' /\ ServedOnce'
  <2>1. m.type = "report"
    BY DEF LaunchInv
  <2>2. WorkStays /\ (Deliver(m, "save") \/ Deliver(m, "setIdle") \/ (Take(m) /\ UNCHANGED handlers))
    BY <1>2, <2>1 DEF Receive, CacheProvisionedPod, CollectRejection, CollectResult, RefuseResult,
       CollectFailure, SaveResultFromApp, WorkStays
  <2>. QED
    BY <2>2, LaunchDelivered, LaunchRefused
<1>3. ASSUME NEW h \in handlers, Proceed(h)
      PROVE  LaunchInv' /\ ServedOnce'
  <2>1. CASE TellAggregator(h) \/ \E n \in Nodes : EnqueueWorker(h, n)
    BY <2>1, LaunchTell, LaunchEnqueue
  <2>2. CASE Reply(h) \/ RefuseFailure(h) \/ EnqueueResponse(h)
    <3>1. WorkStays /\ net' = net /\ Return(h)
      BY <2>2 DEF Reply, RefuseFailure, EnqueueResponse, WorkStays
    <3>. QED
      BY <3>1, LaunchReturned
  <2>3. ASSUME NEW pc \in Places \ {"setPod", "enqueue"}, Goto(h, pc), WorkStays, net' = net,
               pc \in {"check", "run", "tell"} => h.pc \in {"check", "run", "tell"}
        PROVE  LaunchInv' /\ ServedOnce'
    <3>1. PICK g : Becomes(h, g) /\ g.pc = pc
      BY <2>3, GotoBecomes DEF Inv
    <3>. QED
      BY <2>3, <3>1, LaunchMoved DEF Launching
  <2>4. h.pc # "setPod"
    BY DEF LaunchInv
  <2>5. CASE CheckAccepted(h)
    <3>1. WorkStays /\ net' = net /\ h.pc = "check" /\ (Return(h) \/ Goto(h, "run"))
      BY <2>5 DEF CheckAccepted, WorkStays
    <3>. QED
      BY <2>3, <3>1, LaunchReturned DEF Places
  <2>6. CASE SetRunning(h)
    BY <2>3, <2>6 DEF SetRunning, WorkStays, Places
  <2>7. CASE SaveFailure(h)
    BY <2>3, <2>7 DEF SaveFailure, SaveResultFromApp, WorkStays, Places
  <2>8. CASE SetPodIdle(h)
    BY <2>3, <2>8 DEF SetPodIdle, WorkStays, Places
  <2>9. CASE CheckDone(h)
    <3>1. WorkStays /\ net' = net /\ (Return(h) \/ Goto(h, "record"))
      BY <2>9 DEF CheckDone, WorkStays
    <3>. QED
      BY <2>3, <3>1, LaunchReturned DEF Places
  <2>. QED
    BY <1>3, <2>1, <2>2, <2>4, <2>5, <2>6, <2>7, <2>8, <2>9 DEF Proceed, SetPodForApplication
<1>4. ASSUME NEW n \in Nodes, dispatchSubtask(n)
      PROVE  LaunchInv' /\ ServedOnce'
  BY <1>4, LaunchDispatch
<1>5. ASSUME NEW t \in Tasks, NEW n \in Nodes, SendToPod(t, n) \/ PodFinishes(t, n)
      PROVE  LaunchInv' /\ ServedOnce'
  BY <1>5, LaunchSend, LaunchFinish
<1>6. CASE UNCHANGED vars
  BY <1>6 DEF vars, LaunchInv, ServedOnce, Launching, Nowhere
<1>. QED
  BY <1>1, <1>2, <1>3, <1>4, <1>5, <1>6 DEF Next

(* Nothing is launched at first.                                           *)
LEMMA LaunchInit ==
  ASSUME Prepared, Init
  PROVE  LaunchInv /\ ServedOnce
<1>1. \A t \in Tasks, s \in Subtasks : sending[t][s] = 0 /\ atPod[t][s] = 0 /\ executed[t][s] = 0
  BY DEF Init, Zero
<1>. QED
  BY <1>1, WorkersAreNodes DEF Init, Prepared, LaunchInv, ServedOnce, Subtasks

(* Theorem: when the pod cache knows every worker beforehand, a subtask is *)
(* served once, although requests are repeated and reports are handled in  *)
(* any order: it is in one place at a time, and never put back.            *)
THEOREM ServedOnceCorrect ==
  ASSUME Prepared
  PROVE  Spec => []ServedOnce
<1>1. Init => Inv /\ LaunchInv /\ ServedOnce
  BY InvInit, LaunchInit
<1>2. Inv /\ LaunchInv /\ ServedOnce /\ [Next]_vars => (Inv /\ LaunchInv /\ ServedOnce)'
  BY InvStep, LaunchStep
<1>. QED
  BY <1>1, <1>2, PTL DEF Spec
-----------------------------------------------------------------------------
(* A report there is after a step was there before, repeats one that was,  *)
(* or is the first of a subtask that has just been executed.               *)
FirstReport(m) ==
  /\ m \in Requests /\ executed[m.task][m.from] = 0
  /\ Reports' \subseteq Reports \cup {m}

(* A report is of a finished subtask.                                      *)
LEMMA ReportsSound ==
  ASSUME Inv, NEW m \in Reports
  PROVE  m \in Requests /\ executed[m.task][m.from] > 0
  BY DEF Inv, TypeOK, RequestInv, Sound, Reports

(* The report a worker's pod sends is the first of its subtask.            *)
LEMMA FirstReportFinished ==
  ASSUME Prepared, Inv, LaunchInv, ServedOnce, NEW t \in Tasks, NEW n \in Nodes, PodFinishes(t, n)
  PROVE  \E m : FirstReport(m)
<1>1. n \in Subtasks /\ {sending[t][n], atPod[t][n], executed[t][n]} \subseteq Nat /\ atPod[t][n] > 0
  BY WorkersAreNodes DEF Inv, TypeOK, PodFinishes
<1>2. executed[t][n] = 0
  BY <1>1, WorkersAreNodes DEF ServedOnce
<1>3. PICK r \in Results(n) : net' = net \cup {Request("report", t, n, r, executed[t][n])}
  BY DEF PodFinishes
<1>. DEFINE m == Request("report", t, n, r, executed[t][n])
<1>4. m \in Requests /\ m.task = t /\ m.from = n
  BY <1>1, TaskLifeAssumption DEF Request, Requests, Results
<1>5. net' = net \cup {m} /\ handlers' = handlers
  BY <1>3 DEF PodFinishes
<1>. HIDE DEF m
<1>. QED
  BY <1>2, <1>4, <1>5 DEF FirstReport, Reports

(* So is the one of the aggregator's pod.                                  *)
LEMMA FirstReportAggregated ==
  ASSUME Prepared, Inv, NEW t \in Tasks, AggregatorFinishes(t)
  PROVE  \E m : FirstReport(m)
<1>1. PICK r \in Results(agg) : net' = net \cup {Request("report", t, agg, r, 0)}
  BY DEF AggregatorFinishes
<1>. DEFINE m == Request("report", t, agg, r, 0)
<1>2. m \in Requests /\ m.task = t /\ m.from = agg
  BY TaskLifeAssumption DEF Request, Requests, Results, Subtasks
<1>3. net' = net \cup {m} /\ handlers' = handlers /\ executed[t][agg] = 0
  BY <1>1 DEF AggregatorFinishes
<1>. HIDE DEF m
<1>. QED
  BY <1>2, <1>3 DEF FirstReport, Reports

(* Every step keeps the reports, drops some, or adds a first report.       *)
LEMMA ReportsStep ==
  ASSUME Prepared, Inv, LaunchInv, ServedOnce, [Next]_vars
  PROVE  \/ \A x \in Reports' : \E m \in Reports : Like(x, m)
         \/ \E m : FirstReport(m)
<1>. DEFINE Repeats == \A x \in Reports' : \E m \in Reports : Like(x, m)
<1>1. ASSUME Reports' \subseteq Reports PROVE Repeats
  BY <1>1 DEF Like
<1>2. ASSUME NEW t \in Tasks, evaluateAggregativeTasks(t) PROVE Repeats
  <2>1. net' = net /\ \E g : handlers' = handlers \cup {g} /\ g = Handler(Request("task", t, agg, "accepted", 0), "check", {})
    BY <1>2, NewTask
  <2>2. \A h \in handlers' : h \in handlers \/ h.request.type = "task"
    BY <2>1 DEF Handler, Request
  <2>. QED
    BY <1>1, <2>1, <2>2 DEF Reports
<1>3. ASSUME NEW m \in net, Receive(m) PROVE Repeats
  <2>1. Take(m) /\ (UNCHANGED handlers \/ \E pc : handlers' = handlers \cup {Handler(m, pc, {})})
    BY <1>3 DEF Receive, CacheProvisionedPod, CollectRejection, CollectResult, RefuseResult,
       CollectFailure, Deliver
  <2>2. /\ \A x \in net' : x \in net \/ Like(x, m)
        /\ \A h \in handlers' : h \in handlers \/ h.request = m
    BY <2>1, TakeEffect DEF Inv, Handler
  <2>. QED
    BY <2>2 DEF Reports, Like
<1>4. ASSUME NEW h \in handlers, Proceed(h) PROVE Repeats
  <2>1. net' = net
    BY <1>4 DEF Proceed, SetPodForApplication, CheckAccepted, SetRunning, TellAggregator, EnqueueWorker,
       Reply, SaveFailure, RefuseFailure, SetPodIdle, CheckDone, EnqueueResponse
  <2>2. \A g \in handlers' : g \in handlers \/ g.request = h.request
    <3>1. h \in HandlerSet
      BY DEF Inv, TypeOK, HandlerSet
    <3>2. ASSUME NEW pc, Goto(h, pc) PROVE \A g \in handlers' : g \in handlers \/ g.request = h.request
      BY <3>1, <3>2 DEF Goto, HandlerSet
    <3>3. CASE TellAggregator(h)
      BY <3>1, <3>3 DEF TellAggregator, HandlerSet
    <3>4. CASE \E n \in Nodes : EnqueueWorker(h, n)
      BY <3>1, <3>4 DEF EnqueueWorker, HandlerSet
    <3>5. CASE Reply(h) \/ RefuseFailure(h) \/ EnqueueResponse(h)
      BY <3>5 DEF Reply, RefuseFailure, EnqueueResponse, Return
    <3>6. CASE CheckAccepted(h) \/ CheckDone(h)
      BY <3>2, <3>6 DEF CheckAccepted, CheckDone, Return
    <3>. QED
      BY <1>4, <3>2, <3>3, <3>4, <3>5, <3>6 DEF Proceed, SetPodForApplication, SetRunning,
         SaveFailure, SetPodIdle
  <2>. QED
    BY <1>1, <2>1, <2>2 DEF Reports
<1>5. ASSUME NEW n \in Nodes, dispatchSubtask(n) PROVE Repeats
  BY <1>1, <1>5 DEF dispatchSubtask, Reports
<1>6. ASSUME NEW t \in Tasks, NEW n \in Nodes, SendToPod(t, n) PROVE Repeats
  BY <1>1, <1>6 DEF SendToPod, Reports
<1>7. CASE UNCHANGED vars
  BY <1>1, <1>7 DEF vars, Reports
<1>8. ASSUME NEW t \in Tasks, NEW n \in Nodes, PodFinishes(t, n) PROVE \E m : FirstReport(m)
  BY <1>8, FirstReportFinished
<1>9. ASSUME NEW t \in Tasks, AggregatorFinishes(t) PROVE \E m : FirstReport(m)
  BY <1>9, FirstReportAggregated
<1>. QED
  BY <1>2, <1>3, <1>4, <1>5, <1>6, <1>7, <1>8, <1>9, Zenon DEF Next

(* A subtask that becomes finished was reported so, and a finished one     *)
(* stays so.                                                               *)
DoneStep ==
  \A t \in Tasks, s \in Subtasks :
    /\ subtask[t][s] = "done" => subtask'[t][s] = "done"
    /\ subtask'[t][s] = "done" =>
         \/ subtask[t][s] = "done"
         \/ \E m \in Reports : m.task = t /\ m.from = s /\ m.outcome = "done"

(* A subtask becomes done by a report that says so, and stays done.        *)
LEMMA DoneStepHolds ==
  ASSUME Prepared, Inv, LaunchInv, ServedOnce, ReportInv, [Next]_vars
  PROVE  DoneStep
<1>1. ASSUME subtask' = subtask PROVE DoneStep
  BY <1>1 DEF DoneStep
<1>2. \A t \in Tasks, s \in Subtasks : subtask[t][s] = "done" => executed[t][s] > 0
  BY DEF Inv, DoneInv
<1>3. ASSUME NEW t \in Tasks, evaluateAggregativeTasks(t) PROVE DoneStep
  <2>1. \A s \in Subtasks : executed[t][s] = 0
    BY <1>3, NewTask DEF Nowhere, Subtasks
  <2>2. \A s \in Subtasks : subtask[t][s] # "done" /\ subtask'[t][s] \in {"accepted", "empty"}
    BY <1>2, <1>3, <2>1 DEF evaluateAggregativeTasks, Inv, TypeOK
  <2>3. \A u \in Tasks, s \in Subtasks : u # t => subtask'[u][s] = subtask[u][s]
    BY <1>3 DEF evaluateAggregativeTasks, Inv, TypeOK
  <2>. QED
    BY <2>2, <2>3 DEF DoneStep
<1>4. ASSUME NEW m \in Reports, SetSubtask(m.task, m.from, m.outcome), m.outcome \in {"done", "failed"}
      PROVE  DoneStep
  <2>1. m.task \in Tasks /\ m.from \in Subtasks
    BY ReportsSound DEF Requests
  <2>2. \A u \in Tasks, r \in Subtasks :
          subtask'[u][r] = IF u = m.task /\ r = m.from THEN m.outcome ELSE subtask[u][r]
    BY <1>4, <2>1, SetSubtaskEffect DEF Inv
  <2>. QED
    BY <1>4, <2>1, <2>2 DEF DoneStep, ReportInv
<1>5. ASSUME NEW m \in net, Receive(m) PROVE DoneStep
  <2>1. m.type = "report" /\ m \in Reports
    BY DEF LaunchInv, Reports
  <2>2. CASE CollectResult(m)
    BY <1>4, <2>1, <2>2 DEF CollectResult, SaveResultFromApp
  <2>3. CASE CollectFailure(m) \/ RefuseResult(m)
    BY <1>1, <2>3 DEF CollectFailure, RefuseResult
  <2>. QED
    BY <1>5, <2>1, <2>2, <2>3 DEF Receive, CacheProvisionedPod, CollectRejection
<1>6. ASSUME NEW h \in handlers, Proceed(h) PROVE DoneStep
  <2>1. CASE SaveFailure(h)
    <3>1. h.request \in Reports /\ h.request.outcome = "failed"
      BY <2>1 DEF SaveFailure, Inv, HandlerInv, Reports
    <3>. QED
      BY <1>4, <2>1, <3>1 DEF SaveFailure, SaveResultFromApp
  <2>2. CASE SetRunning(h)
    <3>. DEFINE t == h.request.task
    <3>1. t \in Tasks /\ aggSent[t] = 0
      BY <2>2 DEF SetRunning, LaunchInv, Inv, TypeOK, Requests
    <3>. HIDE DEF t
    <3>2. \A s \in Subtasks : ~ (executed[t][s] > 0)
      BY <3>1, WorkersAreNodes DEF Inv, WorkInv, LaunchInv, Subtasks
    <3>3. \A s \in Subtasks : subtask[t][s] # "done"
      BY <1>2, <3>1, <3>2
    <3>4. /\ \A s \in Subtasks : subtask'[t][s] # "done"
          /\ \A u \in Tasks, s \in Subtasks : u # t => subtask'[u][s] = subtask[u][s]
      BY <2>2, <3>1, <3>3 DEF SetRunning, SetTaskStatus, Inv, TypeOK, t
    <3>. QED
      BY <3>3, <3>4 DEF DoneStep
  <2>3. CASE ~ SaveFailure(h) /\ ~ SetRunning(h)
    BY <1>1, <1>6, <2>3 DEF Proceed, SetPodForApplication, CheckAccepted, TellAggregator, EnqueueWorker,
       Reply, RefuseFailure, SetPodIdle, CheckDone, EnqueueResponse
  <2>. QED
    BY <2>1, <2>2, <2>3
<1>7. ASSUME NEW n \in Nodes, dispatchSubtask(n) PROVE DoneStep
  BY <1>1, <1>7 DEF dispatchSubtask
<1>8. ASSUME NEW t \in Tasks, NEW n \in Nodes, SendToPod(t, n) \/ PodFinishes(t, n) PROVE DoneStep
  BY <1>1, <1>8 DEF SendToPod, PodFinishes
<1>9. ASSUME NEW t \in Tasks, AggregatorFinishes(t) PROVE DoneStep
  BY <1>1, <1>9 DEF AggregatorFinishes
<1>10. CASE UNCHANGED vars
  BY <1>1, <1>10 DEF vars
<1>. QED
  BY <1>3, <1>5, <1>6, <1>7, <1>8, <1>9, <1>10 DEF Next

(* Every step keeps the reports of a subtask in agreement.                 *)
LEMMA ReportStep ==
  ASSUME Prepared, Inv, LaunchInv, ServedOnce, ReportInv, [Next]_vars
  PROVE  ReportInv'
<1>1. \A m \in Reports : m \in Requests /\ executed[m.task][m.from] > 0
  BY ReportsSound
<1>2. \A t \in Tasks, s \in Subtasks : subtask[t][s] = "done" => executed[t][s] > 0
  BY DEF Inv, DoneInv
<1>3. DoneStep
  BY DoneStepHolds
<1>4. CASE \A x \in Reports' : \E m \in Reports : Like(x, m)
  <2>1. \A x, y \in Reports' : x.task = y.task /\ x.from = y.from => x.outcome = y.outcome
    BY <1>4 DEF ReportInv, Like
  <2>2. ASSUME NEW x \in Reports', x.outcome = "failed" PROVE subtask'[x.task][x.from] # "done"
    <3>1. PICK m \in Reports : Like(x, m)
      BY <1>4
    <3>2. m.task \in Tasks /\ m.from \in Subtasks /\ subtask[m.task][m.from] # "done"
      BY <1>1, <2>2, <3>1 DEF Requests, ReportInv, Like
    <3>. QED
      BY <1>3, <2>2, <3>1, <3>2 DEF DoneStep, ReportInv, Like
  <2>. QED
    BY <2>1, <2>2 DEF ReportInv
<1>5. CASE \E m : FirstReport(m)
  <2>1. PICK m : FirstReport(m)
    BY <1>5
  <2>2. m.task \in Tasks /\ m.from \in Subtasks /\ executed[m.task][m.from] = 0
    BY <2>1 DEF FirstReport, Requests
  <2>3. \A x \in Reports : x.task # m.task \/ x.from # m.from
    BY <1>1, <2>2
  <2>4. \A x \in Reports' : x \in Reports \/ x = m
    BY <2>1 DEF FirstReport
  <2>5. \A x, y \in Reports' : x.task = y.task /\ x.from = y.from => x.outcome = y.outcome
    BY <2>3, <2>4 DEF ReportInv
  <2>6. ASSUME NEW x \in Reports', x.outcome = "failed" PROVE subtask'[x.task][x.from] # "done"
    <3>1. CASE x = m
      BY <1>2, <1>3, <2>2, <2>3, <3>1 DEF DoneStep
    <3>2. CASE x \in Reports
      <4>1. x.task \in Tasks /\ x.from \in Subtasks /\ subtask[x.task][x.from] # "done"
        BY <1>1, <2>6, <3>2 DEF Requests, ReportInv
      <4>. QED
        BY <1>3, <2>6, <3>2, <4>1 DEF DoneStep, ReportInv
    <3>. QED
      BY <2>4, <3>1, <3>2
  <2>. QED
    BY <2>5, <2>6 DEF ReportInv
<1>. QED
  BY <1>4, <1>5, ReportsStep

(* Theorem: under the same assumption a subtask that is done is never      *)
(* taken for incomplete again: neither the launch of its task, nor a late  *)
(* failure or a repeated report overwrites the result.                     *)
THEOREM DoneStaysCorrect ==
  ASSUME Prepared
  PROVE  Spec => NeverBackToIncomplete
<1>. DEFINE I == Inv /\ LaunchInv /\ ServedOnce /\ ReportInv
<1>1. Init => I
  BY InvInit, LaunchInit DEF Init, ReportInv, Reports
<1>2. I /\ [Next]_vars => I'
  BY InvStep, LaunchStep, ReportStep
<1>3. I /\ [Next]_vars =>
        [\A t \in Tasks, s \in Subtasks : subtask[t][s] = "done" => subtask'[t][s] = "done"]_vars
  BY DoneStepHolds DEF DoneStep
<1>. HIDE DEF I
<1>. QED
  BY <1>1, <1>2, <1>3, PTL DEF Spec, NeverBackToIncomplete

(* The slots stay when nothing is loaded and no report comes.              *)
LEMMA SlotKept ==
  ASSUME SlotInv, UNCHANGED idle,
         \A t \in Tasks, n \in Workers : Loaded(t, n)' => Loaded(t, n),
         \A m \in net' : m \in net \/ m.from \notin Workers,
         \A h \in handlers' : \A n \in Workers :
           Freeing(h, n) => \E g \in handlers : Freeing(g, n) /\ (h \in handlers => g = h),
         \A g, h \in handlers' : \A n \in Workers :
           Freeing(g, n) /\ Freeing(h, n) => g = h \/ (g \in handlers /\ h \in handlers)
  PROVE  SlotInv'
<1>1. \A n \in Workers : Serving(n)' => Serving(n)
  BY DEF Serving, Loaded, Freeing
<1>. QED
  BY <1>1 DEF SlotInv, Slot

(* The common case: no handler comes to a place before the scheduler of    *)
(* its pod is freed.                                                       *)
LEMMA SlotCalm ==
  ASSUME SlotInv, UNCHANGED idle,
         \A t \in Tasks, n \in Workers : Loaded(t, n)' => Loaded(t, n),
         \A m \in net' : m \in net \/ m.from \notin Workers,
         \A h \in handlers' : h \in handlers \/ h.pc \notin {"save", "setIdle"}
  PROVE  SlotInv'
  BY SlotKept DEF Freeing

(* A report without repetition moves from the net to its handler.          *)
LEMMA SlotReceived ==
  ASSUME Inv, SlotInv, MaxRepeats = 0, NEW m \in net, m.type = "report", NEW pc \in {"save", "setIdle"},
         Deliver(m, pc), UNCHANGED <<idle, sending, atPod>>
  PROVE  SlotInv'
<1>1. net' = net \ {m}
  BY DEF Deliver, Take, Inv, TypeOK
<1>2. PICK g : handlers' = handlers \cup {g} /\ g.request = m /\ g.pc = pc
  BY DeliverEffect DEF Inv, Places
<1>3. SUFFICES ASSUME NEW n \in Workers PROVE Slot(n)'
  BY DEF SlotInv
<1>4. \A t \in Tasks : Loaded(t, n)' = Loaded(t, n)
  BY DEF Loaded
<1>5. Freeing(g, n) <=> m.from = n
  BY <1>2 DEF Freeing
<1>6. m.from = n => Serving(n) /\ \A h \in handlers : ~ Freeing(h, n)
  BY DEF Serving, SlotInv, Slot
<1>7. Serving(n)' => Serving(n)
  BY <1>1, <1>2, <1>4, <1>5, <1>6 DEF Serving, Loaded, Freeing
<1>. QED
  BY <1>1, <1>2, <1>4, <1>5, <1>6, <1>7 DEF SlotInv, Slot

(* A handler frees the scheduler of its report.                            *)
LEMMA SlotFreed ==
  ASSUME Inv, SlotInv, ServedOnce, NEW h \in handlers, SetPodIdle(h)
  PROVE  SlotInv'
<1>1. PICK g : Becomes(h, g) /\ g.pc = "checkDone"
  BY GotoBecomes DEF SetPodIdle, Inv, Places
<1>2. h.request.from \in Subtasks /\ h.pc = "setIdle" /\ \A n \in Workers : n \in Nodes
  BY DEF Inv, TypeOK, Requests, SetPodIdle, Workers
<1>3. /\ \A n \in Workers : idle'[n] = (IF n = h.request.from THEN TRUE ELSE idle[n])
      /\ UNCHANGED <<sending, atPod, net>>
  BY <1>2 DEF SetPodIdle, Inv, TypeOK
<1>4. \A x \in handlers' : (x \in handlers /\ x # h) \/ x.pc = "checkDone"
  BY <1>1 DEF Becomes
<1>5. \A n \in Workers : h.request.from = n => ~ Serving(n)'
  <2>. SUFFICES ASSUME NEW n \in Workers, h.request.from = n PROVE ~ Serving(n)'
    OBVIOUS
  <2>1. Freeing(h, n)
    BY <1>2 DEF Freeing
  <2>2. /\ \A t \in Tasks : ~ Loaded(t, n)
        /\ \A m \in net : m.from # n
        /\ \A x \in handlers : x # h => ~ Freeing(x, n)
    BY <2>1 DEF SlotInv, Slot
  <2>. QED
    BY <1>3, <1>4, <2>2 DEF Serving, Loaded, Freeing
<1>6. \A n \in Workers : Serving(n)' => Serving(n)
  BY <1>3, <1>4 DEF Serving, Loaded
<1>7. \A t \in Tasks, n \in Workers : Loaded(t, n)' = Loaded(t, n)
  BY <1>3 DEF Loaded
<1>8. \A x \in handlers' : \A n \in Workers : Freeing(x, n) => x \in handlers
  BY <1>4 DEF Freeing
<1>9. SUFFICES ASSUME NEW n \in Workers PROVE Slot(n)'
  BY DEF SlotInv
<1>10. Slot(n)
  BY DEF SlotInv
<1>11. idle'[n] => ~ Serving(n)'
  BY <1>3, <1>5, <1>6, <1>10 DEF Slot
<1>. QED
  BY <1>3, <1>7, <1>8, <1>10, <1>11 DEF Slot

(* An idle scheduler takes a subtask.                                      *)
LEMMA SlotTaken ==
  ASSUME Prepared, Inv, LaunchInv, SlotInv, NEW n \in Nodes, dispatchSubtask(n)
  PROVE  SlotInv'
<1>1. PICK t \in waiting[n] : sending' = [sending EXCEPT ![t][n] = @ + 1]
  BY DEF dispatchSubtask
<1>2. t \in Tasks /\ n \in Subtasks
  BY WorkersAreNodes DEF Inv, TypeOK
<1>3. /\ \A u \in Tasks, w \in Nodes :
           sending'[u][w] = IF u = t /\ w = n THEN sending[t][n] + 1 ELSE sending[u][w]
      /\ \A w \in Nodes : idle'[w] = IF w = n THEN FALSE ELSE idle[w]
      /\ idle[n] /\ UNCHANGED <<handlers, net, atPod>>
  BY <1>1, <1>2, WorkersAreNodes DEF dispatchSubtask, Inv, TypeOK
<1>4. ~ Serving(n) /\ n \in Workers
  BY <1>3, WorkersAreNodes DEF SlotInv, Slot
<1>5. /\ \A m \in net : m.from # n
      /\ \A h \in handlers : ~ Freeing(h, n)
      /\ \A u \in Tasks : ~ Loaded(u, n)
  BY <1>4 DEF Serving, Freeing, Loaded, LaunchInv
<1>6. \A u \in Tasks, w \in Nodes : Loaded(u, w)' => Loaded(u, w) \/ (u = t /\ w = n)
  BY <1>3 DEF Loaded
<1>7. \A w \in Workers : w # n => (Serving(w)' => Serving(w))
  BY <1>3, WorkersAreNodes DEF Serving
<1>8. ASSUME NEW w \in Workers PROVE Slot(w)'
  <2>1. Slot(w) /\ w \in Nodes
    BY WorkersAreNodes DEF SlotInv
  <2>2. CASE w = n
    <3>1. ~ idle'[w]
      BY <1>3, <2>1, <2>2
    <3>2. \A h \in handlers' : h \in handlers /\ ~ Freeing(h, w)
      BY <1>3, <1>5, <2>2
    <3>3. \A m \in net' : m.from # w
      BY <1>3, <1>5, <2>2
    <3>4. \A u \in Tasks : Loaded(u, w)' => u = t
      BY <1>5, <1>6, <2>1, <2>2
    <3>. QED
      BY <3>1, <3>2, <3>3, <3>4 DEF Slot
  <2>3. CASE w # n
    <3>1. \A u \in Tasks : Loaded(u, w)' => Loaded(u, w)
      BY <1>6, <2>1, <2>3
    <3>2. idle'[w] => ~ Serving(w)'
      BY <1>3, <1>7, <2>1, <2>3 DEF Slot
    <3>. QED
      BY <1>3, <2>1, <3>1, <3>2 DEF Slot
  <2>. QED
    BY <2>2, <2>3
<1>. QED
  BY <1>8 DEF SlotInv

(* A pod that finishes hands its slot to the report.                       *)
LEMMA SlotReported ==
  ASSUME Prepared, Inv, SlotInv, ServedOnce, NEW t \in Tasks, NEW n \in Nodes, PodFinishes(t, n)
  PROVE  SlotInv'
<1>1. n \in Subtasks /\ {sending[t][n], atPod[t][n], executed[t][n]} \subseteq Nat /\ atPod[t][n] > 0
  BY WorkersAreNodes DEF Inv, TypeOK, PodFinishes
<1>2. /\ atPod'[t][n] = atPod[t][n] - 1
      /\ \A u \in Tasks, w \in Nodes : ~ (u = t /\ w = n) => atPod'[u][w] = atPod[u][w]
      /\ UNCHANGED <<idle, sending, handlers>>
  BY <1>1, WorkersAreNodes DEF PodFinishes, Inv, TypeOK
<1>3. PICK m : net' = net \cup {m} /\ m.from = n
  <2>1. PICK r \in Results(n) : net' = net \cup {Request("report", t, n, r, executed[t][n])}
    BY DEF PodFinishes
  <2>2. Request("report", t, n, r, executed[t][n]).from = n
    BY DEF Request
  <2>. QED
    BY <2>1, <2>2
<1>4. Loaded(t, n) /\ Serving(n)
  BY <1>1 DEF Loaded, Serving
<1>5. ~ Loaded(t, n)'
  BY <1>1, <1>2, WorkersAreNodes DEF ServedOnce, Loaded
<1>6. \A u \in Tasks, w \in Workers : Loaded(u, w)' => Loaded(u, w) /\ ~ (u = t /\ w = n)
  BY <1>2, <1>5, WorkersAreNodes DEF Loaded
<1>7. \A w \in Workers : Serving(w)' => Serving(w)
  BY <1>2, <1>3, <1>4, <1>6 DEF Serving, Loaded
<1>8. n \in Workers
  BY WorkersAreNodes
<1>. QED
  BY <1>2, <1>3, <1>4, <1>6, <1>7, <1>8 DEF SlotInv, Slot, Freeing

(* Every step keeps one thing per busy scheduler.                          *)
LEMMA SlotStep ==
  ASSUME Prepared, MaxRepeats = 0, Inv, LaunchInv, ServedOnce, SlotInv, [Next]_vars
  PROVE  SlotInv'
<1>. DEFINE Calm == /\ UNCHANGED <<idle, sending, atPod, net>>
                    /\ \A h \in handlers' : h \in handlers \/ h.pc \notin {"save", "setIdle"}
<1>1. ASSUME Calm PROVE SlotInv'
  BY <1>1, SlotCalm DEF Loaded
<1>2. ASSUME NEW t \in Tasks, evaluateAggregativeTasks(t) PROVE SlotInv'
  <2>1. PICK g : handlers' = handlers \cup {g} /\ g = Handler(Request("task", t, agg, "accepted", 0), "check", {})
    BY <1>2, NewTask
  <2>2. g.pc = "check"
    BY <2>1 DEF Handler
  <2>3. UNCHANGED <<idle, sending, net>>
    BY <1>2, NewTask DEF evaluateAggregativeTasks
  <2>4. \A u \in Tasks, n \in Workers : Loaded(u, n)' => Loaded(u, n)
    <3>1. \A u \in Tasks, n \in Nodes : atPod'[u][n] = IF u = t THEN 0 ELSE atPod[u][n]
      BY <1>2, NewTaskPods
    <3>. QED
      BY <2>3, <3>1, WorkersAreNodes DEF Loaded
  <2>. QED
    BY <2>1, <2>2, <2>3, <2>4, SlotCalm
<1>3. ASSUME NEW t \in Tasks, AggregatorFinishes(t) PROVE SlotInv'
  <2>1. PICK r \in Results(agg) : net' = net \cup {Request("report", t, agg, r, 0)}
    BY <1>3 DEF AggregatorFinishes
  <2>2. Request("report", t, agg, r, 0).from \notin Workers
    BY TaskLifeAssumption DEF Request, Workers
  <2>3. UNCHANGED <<idle, sending, atPod, handlers>>
    BY <1>3 DEF AggregatorFinishes
  <2>. QED
    BY <2>1, <2>2, <2>3, SlotCalm DEF Loaded
<1>4. ASSUME NEW m \in net, Receive(m) PROVE SlotInv'
  <2>1. m.type = "report"
    BY DEF LaunchInv
  <2>2. /\ UNCHANGED <<idle, sending, atPod>>
        /\ Deliver(m, "save") \/ Deliver(m, "setIdle") \/ (Take(m) /\ UNCHANGED handlers)
    BY <1>4, <2>1 DEF Receive, CacheProvisionedPod, CollectRejection, CollectResult, RefuseResult,
       CollectFailure, SaveResultFromApp
  <2>3. CASE Take(m) /\ UNCHANGED handlers
    <3>1. net' \subseteq net
      BY <2>3 DEF Take, Inv, TypeOK
    <3>. QED
      BY <2>2, <2>3, <3>1, SlotCalm DEF Loaded
  <2>. QED
    BY <2>1, <2>2, <2>3, SlotReceived
<1>5. ASSUME NEW h \in handlers, Proceed(h) PROVE SlotInv'
  <2>1. CASE SetPodIdle(h)
    BY <2>1, SlotFreed
  <2>2. CASE SaveFailure(h)
    <3>1. PICK g : Becomes(h, g) /\ g.pc = "setIdle"
      BY <2>2, GotoBecomes DEF SaveFailure, Inv, Places
    <3>2. UNCHANGED <<idle, sending, atPod, net>> /\ h.pc = "save"
      BY <2>2 DEF SaveFailure, SaveResultFromApp
    <3>3. \A n \in Workers : Freeing(g, n) <=> Freeing(h, n)
      BY <3>1, <3>2 DEF Freeing, Becomes
    <3>4. \A x \in handlers' : x = g \/ (x \in handlers /\ x # h)
      BY <3>1 DEF Becomes
    <3>5. \A x \in handlers' : \A n \in Workers :
            Freeing(x, n) => \E y \in handlers : Freeing(y, n) /\ (x \in handlers => y = x)
      BY <3>3, <3>4
    <3>6. \A x, y \in handlers' : \A n \in Workers :
            Freeing(x, n) /\ Freeing(y, n) => x = y \/ (x \in handlers /\ y \in handlers)
      BY <3>3, <3>4 DEF SlotInv, Slot
    <3>. QED
      BY <3>2, <3>5, <3>6, SlotKept DEF Loaded
  <2>3. ASSUME NEW pc \in Places \ {"save", "setIdle"}, Goto(h, pc), UNCHANGED <<idle, sending, atPod, net>>
        PROVE  SlotInv'
    <3>1. PICK g : Becomes(h, g) /\ g.pc = pc
      BY <2>3, GotoBecomes DEF Inv
    <3>. QED
      BY <1>1, <2>3, <3>1 DEF Becomes
  <2>4. CASE TellAggregator(h) \/ \E n \in Nodes : EnqueueWorker(h, n)
    <3>1. h \in HandlerSet
      BY DEF Inv, TypeOK, HandlerSet
    <3>2. \A x \in handlers' : x \in handlers \/ x.pc = "enqueue"
      <4>1. CASE TellAggregator(h)
        BY <3>1, <4>1 DEF TellAggregator, HandlerSet
      <4>2. CASE \E n \in Nodes : EnqueueWorker(h, n)
        BY <3>1, <4>2 DEF EnqueueWorker, HandlerSet
      <4>. QED
        BY <2>4, <4>1, <4>2
    <3>3. UNCHANGED <<idle, sending, atPod, net>>
      BY <2>4 DEF TellAggregator, EnqueueWorker
    <3>. QED
      BY <1>1, <3>2, <3>3
  <2>5. CASE Reply(h) \/ RefuseFailure(h) \/ EnqueueResponse(h)
    BY <1>1, <2>5 DEF Reply, RefuseFailure, EnqueueResponse, Return
  <2>6. CASE CheckAccepted(h) \/ CheckDone(h)
    <3>1. /\ UNCHANGED <<idle, sending, atPod, net>>
          /\ Return(h) \/ Goto(h, "run") \/ Goto(h, "record")
      BY <2>6 DEF CheckAccepted, CheckDone
    <3>. QED
      BY <1>1, <2>3, <3>1 DEF Return, Places
  <2>7. CASE SetPodForApplication(h) \/ SetRunning(h)
    BY <2>3, <2>7 DEF SetPodForApplication, SetRunning, Places
  <2>. QED
    BY <1>5, <2>1, <2>2, <2>4, <2>5, <2>6, <2>7 DEF Proceed
<1>6. ASSUME NEW n \in Nodes, dispatchSubtask(n) PROVE SlotInv'
  BY <1>6, SlotTaken
<1>7. ASSUME NEW t \in Tasks, NEW n \in Nodes, PodFinishes(t, n) PROVE SlotInv'
  BY <1>7, SlotReported
<1>8. ASSUME NEW t \in Tasks, NEW n \in Nodes, SendToPod(t, n) PROVE SlotInv'
  <2>1. n \in Subtasks /\ sending[t][n] > 0
    BY <1>8, WorkersAreNodes DEF SendToPod
  <2>2. \A u \in Tasks, w \in Workers : Loaded(u, w)' => Loaded(u, w)
    BY <1>8, <2>1, WorkersAreNodes DEF Loaded, SendToPod, Inv, TypeOK
  <2>. QED
    BY <1>8, <2>2, SlotCalm DEF SendToPod
<1>9. CASE UNCHANGED vars
  BY <1>1, <1>9 DEF vars
<1>. QED
  BY <1>2, <1>3, <1>4, <1>5, <1>6, <1>7, <1>8, <1>9 DEF Next

(* Theorem: if, moreover, no request is repeated and none is lost, a       *)
(* scheduler is busy exactly while its pod serves a subtask, a single one: *)
(* none is freed early, and none stays busy for ever.                      *)
THEOREM BusyExactlyCorrect ==
  ASSUME Prepared, MaxRepeats = 0, MaxLost = 0
  PROVE  Spec => []BusyExactlyWhenServing
<1>. DEFINE I == Inv /\ LaunchInv /\ ServedOnce /\ SlotInv
<1>1. Init => I
  <2>1. ASSUME Init PROVE SlotInv
    <3>1. \A t \in Tasks, s \in Subtasks : sending[t][s] = 0 /\ atPod[t][s] = 0
      BY <2>1 DEF Init, Zero
    <3>. QED
      BY <2>1, <3>1, WorkersAreNodes DEF Init, SlotInv, Slot, Serving, Loaded
  <2>. QED
    BY <2>1, InvInit, LaunchInit
<1>2. I /\ [Next]_vars => I'
  BY InvStep, LaunchStep, SlotStep
<1>3. I => BusyExactlyWhenServing
  <2>. SUFFICES ASSUME I, NEW n \in Workers
                PROVE  /\ idle[n] <=> ~ Serving(n)
                       /\ \A t, u \in Tasks :
                            (sending[t][n] + atPod[t][n] > 0 /\ sending[u][n] + atPod[u][n] > 0) =>
                              t = u /\ sending[t][n] + atPod[t][n] = 1
    BY DEF BusyExactlyWhenServing
  <2>1. n \in Nodes /\ n \in Subtasks
    BY WorkersAreNodes
  <2>2. idle[n] <=> ~ Serving(n)
    <3>1. lost[n] = 0
      BY <2>1 DEF Inv, TypeOK
    <3>. QED
      BY <3>1 DEF Inv, BusyHasCause, SlotInv, Slot
  <2>3. \A t \in Tasks : {sending[t][n], atPod[t][n], executed[t][n]} \subseteq Nat
    BY <2>1 DEF Inv, TypeOK
  <2>4. \A t \in Tasks : sending[t][n] + atPod[t][n] > 0 => Loaded(t, n) /\ sending[t][n] + atPod[t][n] = 1
    BY <2>3 DEF ServedOnce, Loaded
  <2>. QED
    BY <2>2, <2>4 DEF SlotInv, Slot
<1>. HIDE DEF I
<1>. QED
  BY <1>1, <1>2, <1>3, PTL DEF Spec
=============================================================================
