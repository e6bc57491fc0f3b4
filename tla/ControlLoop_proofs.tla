------------------------- MODULE ControlLoop_proofs -------------------------
(***************************************************************************)
(* Safety of the resource control loop (module ControlLoop) for any number *)
(* of applications, nodes, messages, retries and clocks that do not wrap.  *)
(***************************************************************************)
EXTENDS ControlLoop, TLAPS, WellFoundedInduction, SequenceTheorems

USE DEF messageVars, statusVars, actionVars

(* A set of clocks that is not empty has a latest one. *)
LEMMA HasLeast ==
  ASSUME NEW T \in SUBSET Nat, T # {}
  PROVE  \E x \in T : \A y \in T : x <= y
<1>. DEFINE R == {ss \in Nat \X Nat : ss[1] < ss[2]}
<1>1. IsWellFoundedOn(R, Nat)
  BY NatLessThanWellFounded DEF OpToRel
<1>. HIDE DEF R
<1>2. PICK x \in T : \A y \in T : ~ (<<y, x>> \in R)
  BY <1>1, WFMin
<1>3. \A y \in T : x \in Nat /\ y \in Nat /\ ~ (y < x)
  BY <1>2 DEF R
<1>. QED
  BY <1>3

LEMMA HasLatest ==
  ASSUME NEW n \in Nat, NEW S \in SUBSET (0 .. n), S # {}
  PROVE  Latest(S) \in S /\ \A d \in S : d <= Latest(S)
<1>. DEFINE T == {n - c : c \in S}
<1>0. \A c \in S : n - c \in Nat
  OBVIOUS
<1>1. T \in SUBSET Nat /\ T # {}
  BY <1>0
<1>. HIDE DEF T
<1>2. PICK x \in T : \A y \in T : x <= y
  BY <1>1, HasLeast
<1>3. n - x \in S /\ \A d \in S : d <= n - x
  BY <1>2 DEF T
<1>. QED
  BY <1>3 DEF Latest

(* The clocks do not wrap, so the second part of the test adds nothing.    *)
LEMMA CalmedDown ==
  ASSUME TypeOK, NEW app \in Apps, NEW at \in Clocks, actionStatusPerApp[app] # None,
         isOutofCalmdownWindow(app, at)
  PROVE  ~ IsInAction(app) /\ at > actionStatusPerApp[app].CompleteClock + CalmDown
<1>. DEFINE stop == actionStatusPerApp[app].CompleteClock
            sum == stop + CalmDown
            size == MaxUint64 + 1
            wrapped == (stop + CalmDown - MaxUint64) % size
<1>1. stop \in Clocks /\ at \in Clocks
  BY DEF TypeOK, Status
<1>2. sum \in Nat /\ size \in Nat /\ sum + 1 < size /\ sum + 1 \in Nat /\ stop < sum + 1
  BY <1>1, ControlLoopAssumption DEF Clocks
<1>3. sum + 1 - size = stop + CalmDown - MaxUint64
  BY <1>1, ControlLoopAssumption DEF Clocks
<1>4. ~ IsInAction(app)
  BY Zenon DEF isOutofCalmdownWindow
<1>5. at > sum % size \/ (at < stop /\ at > wrapped)
  BY Zenon DEF isOutofCalmdownWindow
<1>6. wrapped = (sum + 1 - size) % size
  BY <1>3
<1>. HIDE DEF sum, size, stop, wrapped
<1>7. sum % size = sum /\ (sum + 1 - size) % size = sum + 1
  BY <1>2
<1>8. at > sum
  BY <1>1, <1>2, <1>5, <1>6, <1>7 DEF Clocks
<1>. QED
  BY <1>4, <1>8 DEF sum, stop

(* The status an app has when a plan is carried out. *)
LEMMA StartedEffect ==
  ASSUME TypeOK, NEW app \in Apps
  PROVE  /\ Started(app) \in {None} \cup Status
         /\ actionStatusPerApp[app] # None \/ ClocksOf(app) # {} => Started(app) # None
         /\ \/ Started(app) = actionStatusPerApp[app]
            \/ /\ Started(app).StartClock \in ClocksOf(app)
               /\ actionStatusPerApp[app] # None =>
                    actionStatusPerApp[app].StartClock < Started(app).StartClock
         /\ \A c \in ClocksOf(app) : c <= Started(app).StartClock
<1>. DEFINE s == actionStatusPerApp[app]
            C == ClocksOf(app)
<1>1. s \in {None} \cup Status /\ C \in SUBSET (0 .. MaxClock)
  BY DEF TypeOK, ClocksOf, Item, Clocks
<1>. HIDE DEF s, C
<1>2. C # {} => Latest(C) \in C /\ \A d \in C : d <= Latest(C)
  BY <1>1, HasLatest, ControlLoopAssumption
<1>3. CASE C = {} \/ (s # None /\ s.StartClock >= Latest(C))
  <2>1. Started(app) = s
    BY <1>3 DEF Started, s, C
  <2>2. s # None => s.StartClock \in Nat
    BY <1>1 DEF Status, Clocks
  <2>. QED
    BY <1>1, <1>2, <1>3, <2>1, <2>2 DEF s, C
<1>4. CASE C # {} /\ ~ (s # None /\ s.StartClock >= Latest(C))
  <2>. DEFINE latest == Latest(C)
  <2>0. latest \in C /\ C \subseteq Clocks /\ 0 \in Clocks
    <3>1. C # {}
      BY <1>4
    <3>2. C \subseteq Clocks /\ 0 \in Clocks
      BY <1>1, ControlLoopAssumption DEF Clocks
    <3>. QED
      BY <1>2, <3>1, <3>2
  <2>1. Started(app) = [StartClock |-> latest, CompleteClock |-> 0]
    BY <1>4 DEF Started, s, C
  <2>. HIDE DEF latest
  <2>2. Started(app) \in Status
    BY <2>0, <2>1 DEF Status
  <2>3. s # None => s.StartClock < latest
    <3>1. s # None => s.StartClock \in Clocks
      BY <1>1 DEF Status
    <3>2. s # None => ~ (s.StartClock >= latest)
      BY <1>4 DEF latest
    <3>3. latest \in Clocks
      BY <2>0
    <3>. QED
      BY <3>1, <3>2, <3>3, ControlLoopAssumption DEF Clocks
  <2>. QED
    BY <1>2, <1>4, <2>1, <2>2, <2>3, ControlLoopAssumption DEF s, C, latest
<1>. QED
  BY <1>3, <1>4
-----------------------------------------------------------------------------
LEMMA TypeInit ==
  ASSUME Init
  PROVE  TypeOK
<1>1. 0 \in Clocks /\ 0 \in 0 .. MaxMessages
  BY ControlLoopAssumption DEF Clocks
<1>2. daemon \in [stage : {"idle", "judging", "fetching"}, batch : Seq(Message), plan : SUBSET Item]
      /\ daemon.stage # "fetching"
  BY DEF Init, Idle
<1>3. PerfMessageBuffer \in Seq(Message)
  BY DEF Init
<1>4. executing \in [Nodes -> {None} \cup Execution] /\ \A n \in Nodes : executing[n] = None
  BY DEF Init
<1>5. /\ appending \in [Apps -> {None} \cup [msg : Message, buffer : Seq(Message), raced : BOOLEAN]]
      /\ actionStatusPerApp \in [Apps -> {None} \cup Status]
  BY DEF Init
<1>. QED
  BY <1>1, <1>2, <1>3, <1>4, <1>5 DEF Init, TypeOK

LEMMA KeyType ==
  ASSUME NEW a \in Action
  PROVE  GetKey(a) \in ActionKey
  BY DEF Action, ActionKey, GetKey

(* The steps that append messages and the daemon's. *)
LEMMA TypeLoop ==
  ASSUME TypeOK, Tick \/ (\E on \in BOOLEAN : SwitchAutoScaling(on)) \/ Append_ \/ DaemonStep
  PROVE  TypeOK'
<1>1. CASE Tick
  <2>1. clock' \in Clocks
    BY <1>1, ControlLoopAssumption DEF TypeOK, Tick, Clocks
  <2>. QED
    BY <1>1, <2>1 DEF TypeOK, Tick
<1>2. ASSUME NEW on \in BOOLEAN, SwitchAutoScaling(on)
      PROVE  TypeOK'
  BY <1>2 DEF TypeOK, SwitchAutoScaling
<1>3. ASSUME NEW app \in Apps, NEW type \in Types, AppendPerfMessage(app, type)
      PROVE  TypeOK'
  <2>1. appended' \in 0 .. MaxMessages
    BY <1>3, ControlLoopAssumption DEF TypeOK, AppendPerfMessage
  <2>2. [app |-> app, clock |-> clock, type |-> type] \in Message
    BY DEF TypeOK, Message
  <2>3. appending' \in [Apps -> {None} \cup [msg : Message, buffer : Seq(Message), raced : BOOLEAN]]
    BY <1>3, <2>2 DEF TypeOK, AppendPerfMessage
  <2>. QED
    BY <1>3, <2>1, <2>3 DEF TypeOK, AppendPerfMessage
<1>4. ASSUME NEW app \in Apps, FinishAppend(app)
      PROVE  TypeOK'
  <2>1. \A other \in Apps : appending[other] # None =>
          appending[other].msg \in Message /\ appending[other].buffer \in Seq(Message)
    BY DEF TypeOK
  <2>2. \A b \in Seq(Message), e \in Message : Append(b, e) \in Seq(Message)
    BY AppendProperties
  <2>3. PerfMessageBuffer' \in Seq(Message)
    <3>1. CASE UNCHANGED PerfMessageBuffer
      BY <3>1 DEF TypeOK
    <3>2. ASSUME NEW winner \in Apps, appending[winner] # None,
                 PerfMessageBuffer' = Append(appending[app].buffer, appending[winner].msg)
          PROVE  PerfMessageBuffer' \in Seq(Message)
      BY <1>4, <2>1, <2>2, <3>2 DEF FinishAppend
    <3>. QED
      BY <1>4, <3>1, <3>2 DEF FinishAppend
  <2>4. appending' \in [Apps -> {None} \cup [msg : Message, buffer : Seq(Message), raced : BOOLEAN]]
    BY <1>4 DEF TypeOK, FinishAppend
  <2>. QED
    BY <1>4, <2>3, <2>4 DEF TypeOK, FinishAppend
<1>5. CASE Swap
  <2>1. appending' \in [Apps -> {None} \cup [msg : Message, buffer : Seq(Message), raced : BOOLEAN]]
    BY <1>5 DEF TypeOK, Swap
  <2>. QED
    BY <1>5, <2>1 DEF TypeOK, Swap, Idle
<1>6. CASE Judge
  <2>1. Tail(daemon.batch) \in Seq(Message)
    BY <1>6, HeadTailProperties DEF TypeOK, Judge
  <2>. QED
    BY <1>6, <2>1 DEF TypeOK, Judge
<1>7. ASSUME NEW queues \in SUBSET Nodes, Fetch(queues)
      PROVE  TypeOK'
  <2>1. Head(daemon.batch) \in Message /\ Tail(daemon.batch) \in Seq(Message)
    BY <1>7, HeadTailProperties DEF TypeOK, Fetch
  <2>2. daemon'.plan \subseteq Item
    BY <1>7, <2>1 DEF TypeOK, Fetch, Message, Item
  <2>3. daemon' = [stage |-> "judging", batch |-> Tail(daemon.batch), plan |-> daemon'.plan]
    BY <1>7 DEF Fetch
  <2>. QED
    BY <1>7, <2>1, <2>2, <2>3 DEF TypeOK, Fetch
<1>8. ASSUME NEW withPods \in SUBSET daemon.plan, CarryOut(withPods)
      PROVE  TypeOK'
  <2>. DEFINE new == {[app |-> i.app, queue |-> i.queue, type |-> i.type, start |-> i.clock,
                       pods |-> i \in withPods] : i \in daemon.plan}
  <2>1. new \subseteq Action
    <3>1. \A i \in daemon.plan : i \in Item /\ (i \in withPods) \in BOOLEAN
      BY DEF TypeOK
    <3>2. \A i \in Item, b \in BOOLEAN :
            [app |-> i.app, queue |-> i.queue, type |-> i.type, start |-> i.clock, pods |-> b] \in Action
      BY DEF Item, Action
    <3>. QED
      BY <3>1, <3>2
  <2>2. issued' = issued \cup new /\ starting' = starting \cup new
    BY <1>8 DEF CarryOut
  <2>. HIDE DEF new
  <2>3. actionStatusPerApp' \in [Apps -> {None} \cup Status]
    BY <1>8, StartedEffect DEF CarryOut
  <2>. QED
    BY <1>8, <2>1, <2>2, <2>3 DEF TypeOK, CarryOut, Idle
<1>. QED
  BY <1>1, <1>2, <1>3, <1>4, <1>5, <1>6, <1>7, <1>8 DEF Append_, DaemonStep

(* An app has a status once an action was issued for it. *)
IssuedStarted ==
  \A a \in issued :
    /\ actionStatusPerApp[a.app] # None
    /\ a.start <= actionStatusPerApp[a.app].StartClock

(* The status of an app is complete. *)
LEMMA CompleteEffect ==
  ASSUME TypeOK, IssuedStarted, NEW a \in issued, Complete(a.app)
  PROVE  /\ actionStatusPerApp' \in [Apps -> {None} \cup Status] /\ late' \subseteq Apps
         /\ actionStatusPerApp'[a.app].CompleteClock = clock
         /\ actionStatusPerApp'[a.app].StartClock = actionStatusPerApp[a.app].StartClock
         /\ actionStatusPerApp'[a.app] # None
         /\ \A app \in Apps : app # a.app => actionStatusPerApp'[app] = actionStatusPerApp[app]
         /\ late' = late \cup {a.app}
<1>. DEFINE s == actionStatusPerApp[a.app]
            done == [s EXCEPT !.CompleteClock = clock]
<1>1. a.app \in Apps /\ s \in Status /\ clock \in Clocks
  BY DEF TypeOK, IssuedStarted, Action
<1>2. done \in Status /\ done.CompleteClock = clock /\ done.StartClock = s.StartClock /\ done # None
  BY <1>1, ControlLoopAssumption DEF Status
<1>3. actionStatusPerApp' = [actionStatusPerApp EXCEPT ![a.app] = done]
  BY DEF Complete
<1>. HIDE DEF done
<1>. QED
  BY <1>1, <1>2, <1>3 DEF TypeOK, Complete

(* The steps of the senders of an action and those that take its requests. *)
LEMMA TypeAction ==
  ASSUME TypeOK, IssuedStarted, NEW a \in issued, SenderStep(a) \/ RequestStep(a)
  PROVE  TypeOK'
<1>1. a \in Action /\ GetKey(a) \in ActionKey
  BY KeyType DEF TypeOK
<1>2. 1 \in 1 .. MaxRequests /\ \A n \in 1 .. MaxRequests : n < MaxRequests => n + 1 \in 1 .. MaxRequests
  BY ControlLoopAssumption
<1>3. CASE SendAction(a)
  BY <1>1, <1>2, <1>3 DEF TypeOK, SendAction
<1>4. ASSUME NEW n \in 1 .. MaxRequests, LoseAnswer(a, n)
      PROVE  TypeOK'
  BY <1>4 DEF TypeOK, LoseAnswer
<1>5. ASSUME NEW n \in 1 .. MaxRequests, Retry(a, n)
      PROVE  TypeOK'
  BY <1>2, <1>5 DEF TypeOK, Retry
<1>6. ASSUME NEW n \in 1 .. MaxRequests, SendFails(a, n)
      PROVE  TypeOK'
  <2>1. actionStatusPerApp' \in [Apps -> {None} \cup Status] /\ late' \subseteq Apps
    BY <1>6, CompleteEffect DEF SendFails
  <2>. QED
    BY <1>1, <1>6, <2>1 DEF TypeOK, SendFails
<1>7. ASSUME NEW n \in 1 .. MaxRequests, ExecuteNothing(a, n)
      PROVE  TypeOK'
  BY <1>7 DEF TypeOK, ExecuteNothing, Answer
<1>8. ASSUME NEW n \in 1 .. MaxRequests, PhysicallyExecuteAction(a, n)
      PROVE  TypeOK'
  <2>1. PICK stage \in {"reporting", "blocked"} :
          executing' = [executing EXCEPT ![a.queue] = [action |-> a, number |-> n, stage |-> stage]]
    BY <1>8 DEF PhysicallyExecuteAction
  <2>2. [action |-> a, number |-> n, stage |-> stage] \in Execution
    BY <1>1 DEF Execution
  <2>3. executing' \in [Nodes -> {None} \cup Execution]
    BY <2>1, <2>2 DEF TypeOK
  <2>4. \A m \in Nodes : executing'[m] # None => executing'[m].action \in issued
    BY <2>1 DEF TypeOK
  <2>. QED
    BY <1>8, <2>3, <2>4 DEF TypeOK, PhysicallyExecuteAction, Answer
<1>9. ASSUME NEW n \in 1 .. MaxRequests, ExecutePanics(a, n)
      PROVE  TypeOK'
  BY <1>9 DEF TypeOK, ExecutePanics
<1>. QED
  BY <1>3, <1>4, <1>5, <1>6, <1>7, <1>8, <1>9 DEF SenderStep, RequestStep

(* A handler that works on an action, and the handler when it moves on.    *)
LEMMA Moved ==
  ASSUME TypeOK, NEW m \in Nodes, executing[m] # None, NEW stage \in {"reporting", "blocked", "reported"},
         executing' = [executing EXCEPT ![m].stage = stage], issued' = issued
  PROVE  /\ executing' \in [Nodes -> {None} \cup Execution]
         /\ \A n \in Nodes : executing'[n] # None => executing'[n].action \in issued
         /\ \A n \in Nodes : n # m => executing'[n] = executing[n]
         /\ executing'[m] # None /\ executing'[m].action = executing[m].action
<1>. DEFINE moved == [executing[m] EXCEPT !.stage = stage]
<1>1. executing[m] \in Execution
  BY DEF TypeOK
<1>2. moved \in Execution /\ moved.action = executing[m].action /\ moved # None
  BY <1>1, ControlLoopAssumption DEF Execution
<1>3. executing' = [executing EXCEPT ![m] = moved]
  OBVIOUS
<1>. HIDE DEF moved
<1>. QED
  BY <1>2, <1>3 DEF TypeOK

LEMMA TypeHandler ==
  ASSUME TypeOK, IssuedStarted, NEW m \in Nodes, HandlerStep(m)
  PROVE  TypeOK'
<1>1. executing[m] # None
  BY DEF HandlerStep, ActionHasBeenPhysicallyExecuted, ReportFails, FinishExecution
<1>. DEFINE a == executing[m].action
<1>2. a \in issued /\ a \in Action /\ GetKey(a) \in ActionKey
  BY <1>1, KeyType DEF TypeOK
<1>3. CASE ActionHasBeenPhysicallyExecuted(m)
  <2>1. /\ executing' \in [Nodes -> {None} \cup Execution]
        /\ \A n \in Nodes : executing'[n] # None => executing'[n].action \in issued
    <3>1. CASE executing' = executing
      BY <3>1 DEF TypeOK
    <3>2. CASE executing' = [executing EXCEPT ![m].stage = "reported"]
      BY <1>1, <1>3, <3>2, Moved DEF ActionHasBeenPhysicallyExecuted
    <3>. QED
      BY <1>3, <3>1, <3>2 DEF ActionHasBeenPhysicallyExecuted
  <2>2. CASE GetKey(a) \in ActionCache
    <3>1. Complete(a.app)
      BY <1>3, <2>2 DEF ActionHasBeenPhysicallyExecuted
    <3>2. actionStatusPerApp' \in [Apps -> {None} \cup Status] /\ late' \subseteq Apps
      BY <1>2, <3>1, CompleteEffect
    <3>3. ActionCache' \subseteq ActionKey /\ concluded' \subseteq ActionKey
      BY <1>2, <1>3, <2>2 DEF TypeOK, ActionHasBeenPhysicallyExecuted
    <3>. QED
      BY <1>3, <2>1, <3>2, <3>3 DEF TypeOK, ActionHasBeenPhysicallyExecuted
  <2>3. CASE GetKey(a) \notin ActionCache
    BY <1>3, <2>1, <2>3 DEF TypeOK, ActionHasBeenPhysicallyExecuted
  <2>. QED
    BY <2>2, <2>3
<1>4. CASE ReportFails(m)
  <2>1. /\ executing' \in [Nodes -> {None} \cup Execution]
        /\ \A n \in Nodes : executing'[n] # None => executing'[n].action \in issued
    BY <1>1, <1>4, Moved DEF ReportFails
  <2>. QED
    BY <1>2, <1>4, <2>1 DEF TypeOK, ReportFails
<1>5. CASE FinishExecution(m)
  BY <1>5 DEF TypeOK, FinishExecution, Answer
<1>. QED
  BY <1>3, <1>4, <1>5 DEF HandlerStep
-----------------------------------------------------------------------------
(* Messages and planned items are not from the future. *)
Past(s) == \A k \in 1 .. Len(s) : s[k].clock <= clock

MessagesPast ==
  /\ Past(PerfMessageBuffer) /\ Past(daemon.batch)
  /\ \A app \in Apps : appending[app] # None =>
       appending[app].msg.clock <= clock /\ Past(appending[app].buffer)

PlanPast == \A i \in daemon.plan : i.clock <= clock

(* An app for which the daemon plans is not in action; it has calmed down  *)
(* by the clock of what is planned, or an action was counted since.        *)
Calm(app, at) ==
  actionStatusPerApp[app] # None =>
    /\ ~ IsInAction(app)
    /\ app \in late \/ at > actionStatusPerApp[app].CompleteClock + CalmDown

PlanCalm ==
  /\ \A i \in daemon.plan : Calm(i.app, i.clock)
  /\ daemon.stage = "fetching" => Calm(Head(daemon.batch).app, Head(daemon.batch).clock)

(* What was issued and counted is not newer than the status of its app,    *)
(* and every action that was sent is cached until it is counted.           *)
StatusPast == \A app \in Apps :
  actionStatusPerApp[app] # None => actionStatusPerApp[app].StartClock <= clock

ConcludedStarted ==
  \A k \in concluded :
    actionStatusPerApp[k.app] # None /\ k.start <= actionStatusPerApp[k.app].StartClock

KeysKept == \A a \in issued \ starting : GetKey(a) \in ActionCache \cup concluded

Inv ==
  /\ TypeOK
  /\ MessagesPast /\ PlanPast /\ PlanCalm
  /\ IssuedStarted /\ StatusPast /\ ConcludedStarted /\ KeysKept /\ InActionHasCause

LEMMA InvInit ==
  ASSUME Init
  PROVE  Inv
<1>1. TypeOK
  BY TypeInit
<1>2. MessagesPast /\ PlanPast /\ PlanCalm
  BY DEF Init, Idle, MessagesPast, Past, PlanPast, PlanCalm
<1>3. IssuedStarted /\ StatusPast /\ ConcludedStarted /\ KeysKept
  BY DEF Init, IssuedStarted, StatusPast, ConcludedStarted, KeysKept
<1>4. InActionHasCause
  BY DEF Init, InActionHasCause, IsInAction
<1>. QED
  BY <1>1, <1>2, <1>3, <1>4 DEF Inv

(* What the senders and the handlers leave alone. *)
LEMMA ActionFrame ==
  ASSUME \/ \E a \in issued : SenderStep(a) \/ RequestStep(a)
         \/ \E m \in Nodes : HandlerStep(m)
  PROVE  UNCHANGED <<clock, EnableAutoScaling, PerfMessageBuffer, appending, appended, daemon, issued>>
<1>1. ASSUME NEW a \in issued, SenderStep(a)
      PROVE  UNCHANGED <<clock, EnableAutoScaling, PerfMessageBuffer, appending, appended, daemon, issued>>
  BY <1>1 DEF SenderStep, SendAction, LoseAnswer, Retry, SendFails
<1>2. ASSUME NEW a \in issued, RequestStep(a)
      PROVE  UNCHANGED <<clock, EnableAutoScaling, PerfMessageBuffer, appending, appended, daemon, issued>>
  BY <1>2 DEF RequestStep, ExecuteNothing, PhysicallyExecuteAction, ExecutePanics
<1>3. ASSUME NEW m \in Nodes, HandlerStep(m)
      PROVE  UNCHANGED <<clock, EnableAutoScaling, PerfMessageBuffer, appending, appended, daemon, issued>>
  BY <1>3 DEF HandlerStep, ActionHasBeenPhysicallyExecuted, ReportFails, FinishExecution
<1>. QED
  BY <1>1, <1>2, <1>3

(* The clock only goes forward, and what is past remains so. *)
LEMMA PastStays ==
  ASSUME TypeOK, NEW s \in Seq(Message), Past(s), clock' = clock \/ clock' = clock + 1
  PROVE  \A k \in 1 .. Len(s) : s[k].clock <= clock'
<1>1. \A k \in 1 .. Len(s) : s[k] \in Message
  BY ElementOfSeq
<1>2. clock \in Nat /\ \A k \in 1 .. Len(s) : s[k].clock \in Nat
  BY <1>1, ControlLoopAssumption DEF TypeOK, Clocks, Message
<1>. QED
  BY <1>2 DEF Past

LEMMA MessagesStep ==
  ASSUME TypeOK, MessagesPast, PlanPast, Next
  PROVE  MessagesPast' /\ PlanPast'
<1>0. /\ PerfMessageBuffer \in Seq(Message) /\ daemon.batch \in Seq(Message) /\ clock \in Nat
      /\ \A app \in Apps : appending[app] # None =>
           appending[app].msg \in Message /\ appending[app].buffer \in Seq(Message)
      /\ \A msg \in Message : msg.clock \in Nat
      /\ daemon.plan \subseteq Item /\ \A i \in Item : i.clock \in Nat
  <2>1. Clocks \subseteq Nat
    BY ControlLoopAssumption DEF Clocks
  <2>2. (\A msg \in Message : msg.clock \in Nat) /\ \A i \in Item : i.clock \in Nat
    BY <2>1 DEF Message, Item
  <2>. QED
    BY <2>1, <2>2 DEF TypeOK
<1>1. CASE Tick
  <2>1. clock' = clock + 1 /\ UNCHANGED <<PerfMessageBuffer, appending, daemon>>
    BY <1>1 DEF Tick
  <2>2. Past(PerfMessageBuffer)' /\ Past(daemon.batch)'
    BY <1>0, <2>1, PastStays DEF MessagesPast, Past
  <2>3. \A app \in Apps : appending[app] # None =>
          appending[app].msg.clock <= clock + 1
          /\ \A k \in 1 .. Len(appending[app].buffer) : appending[app].buffer[k].clock <= clock'
    BY <1>0, <2>1, PastStays DEF MessagesPast
  <2>. QED
    BY <1>0, <2>1, <2>2, <2>3 DEF MessagesPast, PlanPast, Past
<1>2. ASSUME NEW on \in BOOLEAN, SwitchAutoScaling(on)
      PROVE  MessagesPast' /\ PlanPast'
  BY <1>2 DEF SwitchAutoScaling, MessagesPast, PlanPast, Past
<1>3. ASSUME NEW app \in Apps, NEW type \in Types, AppendPerfMessage(app, type)
      PROVE  MessagesPast' /\ PlanPast'
  <2>1. \A other \in Apps : appending'[other] = appending[other] \/
          (appending'[other].msg.clock = clock /\ appending'[other].buffer = PerfMessageBuffer)
    BY <1>3 DEF AppendPerfMessage, TypeOK
  <2>. QED
    BY <1>0, <1>3, <2>1 DEF AppendPerfMessage, MessagesPast, PlanPast, Past
<1>4. ASSUME NEW app \in Apps, FinishAppend(app)
      PROVE  MessagesPast' /\ PlanPast'
  <2>1. \A b \in Seq(Message), e \in Message : Past(b) /\ e.clock <= clock =>
          \A k \in 1 .. Len(Append(b, e)) : Append(b, e)[k].clock <= clock
    BY AppendProperties DEF Past
  <2>2. Past(PerfMessageBuffer')
    <3>1. CASE UNCHANGED PerfMessageBuffer
      BY <3>1 DEF MessagesPast, Past
    <3>2. ASSUME NEW winner \in Apps, appending[winner] # None,
                 PerfMessageBuffer' = Append(appending[app].buffer, appending[winner].msg)
          PROVE  Past(PerfMessageBuffer')
      BY <1>0, <1>4, <2>1, <3>2 DEF FinishAppend, MessagesPast, Past
    <3>. QED
      BY <1>4, <3>1, <3>2 DEF FinishAppend
  <2>3. \A other \in Apps : appending'[other] = appending[other] \/ appending'[other] = None
    BY <1>4 DEF FinishAppend, TypeOK
  <2>. QED
    BY <1>4, <2>2, <2>3 DEF FinishAppend, MessagesPast, PlanPast, Past
<1>5. CASE Swap
  <2>1. \A other \in Apps : appending'[other] # None =>
          /\ appending[other] # None
          /\ appending'[other].msg = appending[other].msg
          /\ appending'[other].buffer = appending[other].buffer
    BY <1>5 DEF Swap, TypeOK
  <2>2. Past(<<>>)
    BY DEF Past
  <2>3. daemon'.plan = {} /\ daemon'.batch \in {PerfMessageBuffer, <<>>}
    BY <1>5 DEF Swap, Idle
  <2>. QED
    BY <1>5, <2>1, <2>2, <2>3 DEF Swap, MessagesPast, PlanPast, Past
<1>6. CASE Judge
  <2>1. daemon'.batch \in {daemon.batch, Tail(daemon.batch)} /\ daemon'.plan = daemon.plan
    BY <1>6 DEF Judge, TypeOK
  <2>0. daemon.batch # <<>>
    BY <1>6 DEF Judge
  <2>2. Past(Tail(daemon.batch))
    BY <1>0, <2>0, HeadTailProperties DEF MessagesPast, Past
  <2>. QED
    BY <1>6, <2>1, <2>2 DEF Judge, MessagesPast, PlanPast, Past
<1>7. ASSUME NEW queues \in SUBSET Nodes, Fetch(queues)
      PROVE  MessagesPast' /\ PlanPast'
  <2>1. daemon.batch # <<>>
    BY <1>7 DEF Fetch, TypeOK
  <2>2. Past(Tail(daemon.batch))
    BY <1>0, <2>1, HeadTailProperties DEF MessagesPast, Past
  <2>3. daemon'.batch = Tail(daemon.batch) /\ \A i \in daemon'.plan : i \in daemon.plan \/ i.clock = clock
    BY <1>7 DEF Fetch
  <2>. QED
    BY <1>0, <1>7, <2>2, <2>3 DEF Fetch, MessagesPast, PlanPast, Past
<1>8. ASSUME NEW withPods \in SUBSET daemon.plan, CarryOut(withPods)
      PROVE  MessagesPast' /\ PlanPast'
  BY <1>8 DEF CarryOut, Idle, MessagesPast, PlanPast, Past
<1>9. CASE \/ \E a \in issued : SenderStep(a) \/ RequestStep(a)
           \/ \E m \in Nodes : HandlerStep(m)
  BY <1>9, ActionFrame DEF MessagesPast, PlanPast, Past
<1>. QED
  BY <1>1, <1>2, <1>3, <1>4, <1>5, <1>6, <1>7, <1>8, <1>9 DEF Next, Append_, DaemonStep
-----------------------------------------------------------------------------
(* What the senders and the handlers do to the statuses of the apps: none, *)
(* or the one of an action is complete as of now.                          *)
Counted(a) ==
  /\ actionStatusPerApp'[a.app].CompleteClock = clock
  /\ actionStatusPerApp'[a.app].StartClock = actionStatusPerApp[a.app].StartClock
  /\ actionStatusPerApp'[a.app] # None
  /\ \A app \in Apps : app # a.app => actionStatusPerApp'[app] = actionStatusPerApp[app]
  /\ late' = late \cup {a.app}
  /\ ActionCache' = ActionCache \ {GetKey(a)} /\ concluded' = concluded \cup {GetKey(a)}
  /\ starting' = starting

NotCounted ==
  /\ UNCHANGED <<actionStatusPerApp, concluded, late>>
  /\ ActionCache \subseteq ActionCache' /\ starting' \subseteq starting
  /\ \A a \in starting \ starting' : GetKey(a) \in ActionCache'

LEMMA StatusEffect ==
  ASSUME TypeOK, IssuedStarted,
         \/ \E a \in issued : SenderStep(a) \/ RequestStep(a)
         \/ \E m \in Nodes : HandlerStep(m)
  PROVE  NotCounted \/ \E a \in issued : Counted(a)
<1>1. ASSUME NEW a \in issued, SendAction(a)
      PROVE  NotCounted
  BY <1>1 DEF SendAction, NotCounted
<1>2. ASSUME NEW a \in issued, NEW n \in 1 .. MaxRequests, LoseAnswer(a, n) \/ Retry(a, n)
      PROVE  NotCounted
  BY <1>2 DEF LoseAnswer, Retry, NotCounted
<1>3. ASSUME NEW a \in issued, NEW n \in 1 .. MaxRequests, SendFails(a, n)
      PROVE  Counted(a)
  BY <1>3, CompleteEffect DEF SendFails, Counted
<1>4. ASSUME NEW a \in issued, RequestStep(a)
      PROVE  NotCounted
  BY <1>4 DEF RequestStep, ExecuteNothing, PhysicallyExecuteAction, ExecutePanics, NotCounted
<1>5. ASSUME NEW m \in Nodes, ActionHasBeenPhysicallyExecuted(m)
      PROVE  NotCounted \/ \E a \in issued : Counted(a)
  <2>1. executing[m].action \in issued
    BY <1>5 DEF ActionHasBeenPhysicallyExecuted, TypeOK
  <2>2. CASE GetKey(executing[m].action) \in ActionCache
    <3>1. Complete(executing[m].action.app)
      BY <1>5, <2>2 DEF ActionHasBeenPhysicallyExecuted
    <3>. QED
      BY <1>5, <2>1, <2>2, <3>1, CompleteEffect DEF ActionHasBeenPhysicallyExecuted, Counted
  <2>3. CASE GetKey(executing[m].action) \notin ActionCache
    BY <1>5, <2>3 DEF ActionHasBeenPhysicallyExecuted, NotCounted
  <2>. QED
    BY <2>2, <2>3
<1>6. ASSUME NEW m \in Nodes, ReportFails(m) \/ FinishExecution(m)
      PROVE  NotCounted
  BY <1>6 DEF ReportFails, FinishExecution, NotCounted
<1>. QED
  BY <1>1, <1>2, <1>3, <1>4, <1>5, <1>6 DEF SenderStep, HandlerStep

(* An app whose action was counted is not in action. *)
LEMMA CountedNotInAction ==
  ASSUME TypeOK, StatusPast, IssuedStarted, NEW a \in issued, Counted(a)
  PROVE  ~ IsInAction(a.app)'
<1>1. a.app \in Apps /\ actionStatusPerApp[a.app] \in Status
  BY DEF TypeOK, Action, IssuedStarted
<1>2. clock \in Nat /\ actionStatusPerApp[a.app].StartClock \in Nat
      /\ actionStatusPerApp[a.app].StartClock <= clock
  BY <1>1, ControlLoopAssumption DEF TypeOK, Clocks, Status, StatusPast, IssuedStarted
<1>. QED
  BY <1>2 DEF Counted, IsInAction

LEMMA PlanStep ==
  ASSUME Inv, Next
  PROVE  PlanCalm'
<1>. USE DEF Inv
<1>1. CASE UNCHANGED <<daemon, actionStatusPerApp, late>>
  BY <1>1 DEF PlanCalm, Calm, IsInAction
<1>2. CASE Swap
  <2>1. daemon'.plan = {} /\ daemon'.stage # "fetching"
    BY <1>2 DEF Swap, Idle
  <2>. QED
    BY <2>1 DEF PlanCalm
<1>3. CASE Judge
  <2>1. UNCHANGED <<actionStatusPerApp, late>> /\ daemon'.plan = daemon.plan
    BY <1>3 DEF Judge, TypeOK
  <2>2. Head(daemon.batch) \in Message
    BY <1>3, HeadTailProperties DEF Judge, TypeOK
  <2>3. ASSUME daemon'.stage = "fetching"
        PROVE  Calm(Head(daemon.batch).app, Head(daemon.batch).clock) /\ daemon'.batch = daemon.batch
    <3>. DEFINE msg == Head(daemon.batch)
    <3>1. isOutofCalmdownWindow(msg.app, msg.clock) /\ daemon'.batch = daemon.batch
      BY <1>3, <2>3 DEF Judge, TypeOK
    <3>2. msg.app \in Apps /\ msg.clock \in Clocks
      BY <2>2 DEF Message
    <3>3. actionStatusPerApp[msg.app] # None =>
            ~ IsInAction(msg.app) /\ msg.clock > actionStatusPerApp[msg.app].CompleteClock + CalmDown
      BY <3>1, <3>2, CalmedDown
    <3>. QED
      BY <3>1, <3>3 DEF Calm
  <2>. QED
    BY <2>1, <2>3 DEF PlanCalm, Calm, IsInAction
<1>4. ASSUME NEW queues \in SUBSET Nodes, Fetch(queues)
      PROVE  PlanCalm'
  <2>. DEFINE msg == Head(daemon.batch)
  <2>1. daemon.batch # <<>> /\ Len(daemon.batch) \in Nat \ {0} /\ msg = daemon.batch[1]
    BY <1>4, EmptySeq DEF Fetch, TypeOK
  <2>2. msg.clock <= clock /\ msg \in Message /\ Calm(msg.app, msg.clock)
    BY <1>4, <2>1, HeadTailProperties DEF Fetch, TypeOK, MessagesPast, Past, PlanCalm
  <2>3. /\ daemon'.stage = "judging" /\ UNCHANGED <<actionStatusPerApp, late>>
        /\ \A i \in daemon'.plan : i \in daemon.plan \/ (i.app = msg.app /\ i.clock = clock)
    BY <1>4 DEF Fetch
  <2>4. Calm(msg.app, clock)
    <3>1. msg.app \in Apps /\ msg.clock \in Nat /\ clock \in Nat /\ CalmDown \in Nat
          /\ \A st \in Status : st.CompleteClock \in Nat
      BY <2>2, ControlLoopAssumption DEF Message, TypeOK, Clocks, Status
    <3>2. actionStatusPerApp[msg.app] # None => actionStatusPerApp[msg.app] \in Status
      BY <3>1 DEF TypeOK
    <3>. QED
      BY <2>2, <3>1, <3>2 DEF Calm
  <2>. QED
    BY <2>3, <2>4 DEF PlanCalm, Calm, IsInAction
<1>5. ASSUME NEW withPods \in SUBSET daemon.plan, CarryOut(withPods)
      PROVE  PlanCalm'
  BY <1>5 DEF CarryOut, Idle, PlanCalm
<1>6. CASE \/ \E a \in issued : SenderStep(a) \/ RequestStep(a)
           \/ \E m \in Nodes : HandlerStep(m)
  <2>1. UNCHANGED daemon
    BY <1>6, ActionFrame
  <2>2. CASE NotCounted
    BY <1>1, <2>1, <2>2 DEF NotCounted
  <2>3. ASSUME NEW a \in issued, Counted(a)
        PROVE  PlanCalm'
    <3>1. ~ IsInAction(a.app)'
      BY <2>3, CountedNotInAction
    <3>2. \A app \in Apps, at \in Clocks : Calm(app, at) => Calm(app, at)'
      BY <2>3, <3>1 DEF Counted, Calm, IsInAction
    <3>3. \A i \in daemon.plan : i.app \in Apps /\ i.clock \in Clocks
      BY DEF TypeOK, Item
    <3>4. daemon.stage = "fetching" => Head(daemon.batch).app \in Apps /\ Head(daemon.batch).clock \in Clocks
      <4>1. daemon.batch \in Seq(Message) /\ (daemon.stage = "fetching" => daemon.batch # <<>>)
        BY DEF TypeOK
      <4>2. daemon.stage = "fetching" => Head(daemon.batch) \in Message
        BY <4>1, HeadTailProperties
      <4>. QED
        BY <4>2 DEF Message
    <3>. QED
      BY <2>1, <3>2, <3>3, <3>4 DEF PlanCalm
  <2>. QED
    BY <1>6, <2>2, <2>3, StatusEffect
<1>7. CASE Tick \/ (\E on \in BOOLEAN : SwitchAutoScaling(on)) \/ Append_
  <2>1. UNCHANGED <<daemon, actionStatusPerApp, late>>
    BY <1>7 DEF Tick, SwitchAutoScaling, Append_, AppendPerfMessage, FinishAppend
  <2>. QED
    BY <1>1, <2>1
<1>. QED
  BY <1>2, <1>3, <1>4, <1>5, <1>6, <1>7 DEF Next, DaemonStep
-----------------------------------------------------------------------------
(* An action that is under way remains so, is known to be lost, is counted,*)
(* or its result is ignored, since it is not cached.                       *)
LEMMA UnderWayStays ==
  ASSUME TypeOK, IssuedStarted, NEW b \in issued, UnderWay(b),
         \/ \E a \in issued : SenderStep(a) \/ RequestStep(a)
         \/ \E m \in Nodes : HandlerStep(m)
  PROVE  UnderWay(b)' \/ b \in lost' \/ Counted(b) \/ (GetKey(b) \notin ActionCache /\ b \notin starting)
<1>. USE DEF UnderWay, RequestsOf
<1>1. ASSUME NEW a \in issued, SendAction(a)
      PROVE  UnderWay(b)'
  <2>1. CASE b = a
    <3>1. <<b, 1>> \in requests' /\ <<b, 1>>[1] = b
      BY <1>1, <2>1 DEF SendAction
    <3>. QED
      BY <3>1
  <2>2. CASE b # a
    BY <1>1, <2>2 DEF SendAction
  <2>. QED
    BY <2>1, <2>2
<1>2. ASSUME NEW a \in issued, NEW n \in 1 .. MaxRequests, LoseAnswer(a, n)
      PROVE  UnderWay(b)'
  <2>1. CASE b = a
    BY <1>2, <2>1 DEF LoseAnswer
  <2>2. CASE b # a
    BY <1>2, <2>2 DEF LoseAnswer
  <2>. QED
    BY <2>1, <2>2
<1>3. ASSUME NEW a \in issued, NEW n \in 1 .. MaxRequests, Retry(a, n)
      PROVE  UnderWay(b)'
  <2>1. CASE b = a
    <3>1. <<b, n + 1>> \in requests' /\ <<b, n + 1>>[1] = b
      BY <1>3, <2>1 DEF Retry
    <3>. QED
      BY <3>1
  <2>2. CASE b # a
    BY <1>3, <2>2 DEF Retry
  <2>. QED
    BY <2>1, <2>2
<1>4. ASSUME NEW a \in issued, NEW n \in 1 .. MaxRequests, SendFails(a, n)
      PROVE  UnderWay(b)' \/ Counted(b)
  <2>1. CASE b = a
    BY <1>4, <2>1, CompleteEffect DEF SendFails, Counted
  <2>2. CASE b # a
    BY <1>4, <2>2 DEF SendFails
  <2>. QED
    BY <2>1, <2>2
<1>5. ASSUME NEW a \in issued, NEW n \in 1 .. MaxRequests, ExecuteNothing(a, n)
      PROVE  UnderWay(b)' \/ b \in lost'
  <2>1. CASE b = a
    BY <1>5, <2>1 DEF ExecuteNothing
  <2>2. CASE b # a
    BY <1>5, <2>2 DEF ExecuteNothing
  <2>. QED
    BY <2>1, <2>2
<1>6. ASSUME NEW a \in issued, NEW n \in 1 .. MaxRequests, PhysicallyExecuteAction(a, n)
      PROVE  UnderWay(b)'
  <2>1. a.queue \in Nodes /\ executing[a.queue] = None
    BY <1>6 DEF PhysicallyExecuteAction, Free, TypeOK, Action
  <2>2. PICK stage \in {"reporting", "blocked"} :
          executing' = [executing EXCEPT ![a.queue] = [action |-> a, number |-> n, stage |-> stage]]
    BY <1>6 DEF PhysicallyExecuteAction
  <2>3. [action |-> a, number |-> n, stage |-> stage] # None
    BY ControlLoopAssumption DEF TypeOK, Execution
  <2>4. \A m \in Nodes : executing[m] # None => executing'[m] = executing[m]
    BY <2>1, <2>2 DEF TypeOK
  <2>5. CASE b = a
    BY <2>1, <2>2, <2>3, <2>5 DEF TypeOK
  <2>6. CASE b # a
    BY <1>6, <2>4, <2>6 DEF PhysicallyExecuteAction
  <2>. QED
    BY <2>5, <2>6
<1>7. ASSUME NEW a \in issued, NEW n \in 1 .. MaxRequests, ExecutePanics(a, n)
      PROVE  UnderWay(b)' \/ b \in lost'
  <2>1. CASE b = a
    BY <1>7, <2>1 DEF ExecutePanics
  <2>2. CASE b # a
    BY <1>7, <2>2 DEF ExecutePanics
  <2>. QED
    BY <2>1, <2>2
<1>8. ASSUME NEW m \in Nodes, ActionHasBeenPhysicallyExecuted(m)
      PROVE  UnderWay(b)' \/ Counted(b) \/ (GetKey(b) \notin ActionCache /\ b \notin starting)
  <2>1. executing[m] # None /\ UNCHANGED <<starting, unanswered, requests>>
    BY <1>8 DEF ActionHasBeenPhysicallyExecuted
  <2>2. CASE b = executing[m].action /\ GetKey(b) \in ActionCache
    <3>1. Complete(b.app)
      BY <1>8, <2>2 DEF ActionHasBeenPhysicallyExecuted
    <3>. QED
      BY <1>8, <2>2, <3>1, CompleteEffect DEF ActionHasBeenPhysicallyExecuted, Counted
  <2>3. CASE b = executing[m].action /\ GetKey(b) \notin ActionCache
    BY <2>1, <2>3
  <2>4. CASE b # executing[m].action
    <3>1. \A k \in Nodes : k # m => executing'[k] = executing[k]
      BY <1>8 DEF ActionHasBeenPhysicallyExecuted, TypeOK
    <3>. QED
      BY <2>1, <2>4, <3>1
  <2>. QED
    BY <2>2, <2>3, <2>4
<1>9. ASSUME NEW m \in Nodes, ReportFails(m)
      PROVE  UnderWay(b)' \/ b \in lost'
  <2>1. \A k \in Nodes : k # m => executing'[k] = executing[k]
    BY <1>9 DEF ReportFails, TypeOK
  <2>. QED
    BY <1>9, <2>1 DEF ReportFails
<1>10. ASSUME NEW m \in Nodes, FinishExecution(m)
       PROVE  UnderWay(b)'
  <2>1. \A k \in Nodes : k # m => executing'[k] = executing[k]
    BY <1>10 DEF FinishExecution, TypeOK
  <2>. QED
    BY <1>10, <2>1 DEF FinishExecution
<1>. QED
  BY <1>1, <1>2, <1>3, <1>4, <1>5, <1>6, <1>7, <1>8, <1>9, <1>10 DEF SenderStep, RequestStep, HandlerStep

CauseInv == IssuedStarted /\ StatusPast /\ ConcludedStarted /\ KeysKept /\ InActionHasCause

(* The senders' and the handlers' steps. *)
LEMMA CauseAction ==
  ASSUME Inv,
         \/ \E a \in issued : SenderStep(a) \/ RequestStep(a)
         \/ \E m \in Nodes : HandlerStep(m)
  PROVE  CauseInv'
<1>. USE DEF Inv
<1>1. UNCHANGED <<clock, issued>>
  BY ActionFrame
<1>2. \A a \in issued : a \in Action /\ a.app \in Apps /\ GetKey(a).app = a.app /\ GetKey(a).start = a.start
  BY DEF TypeOK, Action, GetKey
<1>3. \A b \in issued : UnderWay(b) =>
        UnderWay(b)' \/ b \in lost' \/ Counted(b) \/ (GetKey(b) \notin ActionCache /\ b \notin starting)
  BY UnderWayStays
<1>4. lost \subseteq lost'
  BY DEF SenderStep, RequestStep, HandlerStep, SendAction, LoseAnswer, Retry, SendFails, ExecuteNothing,
         PhysicallyExecuteAction, ExecutePanics, ActionHasBeenPhysicallyExecuted, ReportFails, FinishExecution
<1>5. CASE NotCounted
  <2>1. IssuedStarted' /\ StatusPast' /\ ConcludedStarted'
    BY <1>1, <1>5 DEF NotCounted, IssuedStarted, StatusPast, ConcludedStarted
  <2>2. KeysKept'
    BY <1>1, <1>5 DEF NotCounted, KeysKept
  <2>3. ASSUME NEW app \in Apps, IsInAction(app)'
        PROVE  /\ Group(app)' # {}
               /\ \A b \in Group(app)' : GetKey(b) \notin concluded' /\ (UnderWay(b)' \/ b \in lost')
    <3>1. IsInAction(app) /\ Group(app)' = Group(app)
      BY <1>1, <1>5, <2>3 DEF NotCounted, IsInAction, Group
    <3>2. ASSUME NEW b \in Group(app)
          PROVE  GetKey(b) \notin concluded' /\ (UnderWay(b)' \/ b \in lost')
      <4>1. b \in issued /\ b.app = app /\ GetKey(b) \notin concluded /\ (UnderWay(b) \/ b \in lost)
        BY <3>1, <3>2 DEF InActionHasCause, Group
      <4>2. b \notin starting => GetKey(b) \in ActionCache
        BY <4>1 DEF KeysKept
      <4>3. ~ Counted(b)
        BY <1>5, <4>1 DEF Counted, NotCounted
      <4>. QED
        BY <1>3, <1>4, <1>5, <4>1, <4>2, <4>3 DEF NotCounted
    <3>. QED
      BY <3>1, <3>2 DEF InActionHasCause
  <2>. QED
    BY <2>1, <2>2, <2>3 DEF CauseInv, InActionHasCause
<1>6. ASSUME NEW a \in issued, Counted(a)
      PROVE  CauseInv'
  <2>1. ~ IsInAction(a.app)'
    BY <1>6, CountedNotInAction
  <2>2. \A app \in Apps :
          /\ actionStatusPerApp'[app] = actionStatusPerApp[app] \/ app = a.app
          /\ actionStatusPerApp[app] # None =>
               actionStatusPerApp'[app] # None /\ actionStatusPerApp'[app].StartClock = actionStatusPerApp[app].StartClock
    BY <1>6 DEF Counted
  <2>3. IssuedStarted' /\ StatusPast'
    BY <1>1, <1>2, <2>2 DEF IssuedStarted, StatusPast
  <2>4. ConcludedStarted'
    <3>1. concluded' = concluded \cup {GetKey(a)} /\ \A k \in concluded : k.app \in Apps
      BY <1>6 DEF Counted, TypeOK, ActionKey
    <3>. QED
      BY <1>2, <2>2, <2>3, <3>1, <1>1 DEF ConcludedStarted, IssuedStarted
  <2>5. KeysKept'
    BY <1>1, <1>6 DEF Counted, KeysKept
  <2>6. ASSUME NEW app \in Apps, IsInAction(app)'
        PROVE  /\ Group(app)' # {}
               /\ \A b \in Group(app)' : GetKey(b) \notin concluded' /\ (UnderWay(b)' \/ b \in lost')
    <3>1. app # a.app /\ actionStatusPerApp'[app] = actionStatusPerApp[app]
      BY <1>6, <2>1, <2>6 DEF Counted
    <3>2. IsInAction(app) /\ Group(app)' = Group(app)
      BY <1>1, <2>6, <3>1 DEF IsInAction, Group
    <3>3. ASSUME NEW b \in Group(app)
          PROVE  GetKey(b) \notin concluded' /\ (UnderWay(b)' \/ b \in lost')
      <4>1. b \in issued /\ b.app = app /\ GetKey(b) \notin concluded /\ (UnderWay(b) \/ b \in lost)
        BY <3>2, <3>3 DEF InActionHasCause, Group
      <4>2. b \notin starting => GetKey(b) \in ActionCache
        BY <4>1 DEF KeysKept
      <4>3. GetKey(b) # GetKey(a)
        BY <1>2, <3>1, <4>1
      <4>4. GetKey(b) \notin concluded' /\ ~ Counted(b)
        BY <1>6, <4>1, <4>3 DEF Counted
      <4>. QED
        BY <1>3, <1>4, <4>1, <4>2, <4>4
    <3>. QED
      BY <3>2, <3>3 DEF InActionHasCause
  <2>. QED
    BY <2>3, <2>4, <2>5, <2>6 DEF CauseInv, InActionHasCause
<1>. QED
  BY <1>5, <1>6, StatusEffect

(* The daemon carries its plan out: the status of an app starts with the   *)
(* latest of its new actions, and none of them is older than that status.  *)
LEMMA CauseCarryOut ==
  ASSUME Inv, NEW withPods \in SUBSET daemon.plan, CarryOut(withPods)
  PROVE  CauseInv'
<1>. USE DEF Inv
<1>. DEFINE new == issued' \ issued
            s(app) == actionStatusPerApp[app]
            t(app) == actionStatusPerApp'[app]
<1>1. /\ UNCHANGED <<clock, ActionCache, concluded, lost, sending, unanswered, requests, executing>>
      /\ \A app \in Apps : t(app) = Started(app)
      /\ issued \subseteq issued' /\ starting \subseteq starting' /\ new \subseteq starting'
  BY DEF CarryOut
<1>2. \A a \in new : a.app \in Apps /\ a.start \in ClocksOf(a.app)
  <2>1. \A a \in new : \E i \in daemon.plan : a.app = i.app /\ a.start = i.clock
    BY DEF CarryOut
  <2>2. \A i \in daemon.plan : i.app \in Apps /\ i.clock \in ClocksOf(i.app)
    BY DEF TypeOK, Item, ClocksOf
  <2>. QED
    BY <2>1, <2>2
<1>3. \A app \in Apps : \A c \in ClocksOf(app) :
        \E a \in issued' : a \in starting' /\ a.app = app /\ a.start = c
  <2>1. ASSUME NEW i \in daemon.plan
        PROVE  \E a \in issued' : a \in starting' /\ a.app = i.app /\ a.start = i.clock
    <3>. DEFINE b == [app |-> i.app, queue |-> i.queue, type |-> i.type, start |-> i.clock,
                      pods |-> i \in withPods]
    <3>1. b \in issued' /\ b \in starting'
      BY DEF CarryOut
    <3>2. b.app = i.app /\ b.start = i.clock
      OBVIOUS
    <3>. QED
      BY <3>1, <3>2
  <2>. QED
    BY <2>1 DEF ClocksOf
<1>4. \A app \in Apps : \A c \in ClocksOf(app) : c \in Nat /\ c <= clock /\ (s(app) # None => ~ IsInAction(app))
  BY ControlLoopAssumption DEF ClocksOf, PlanPast, TypeOK, Item, Clocks, PlanCalm, Calm
<1>5. \A app \in Apps :
        /\ s(app) # None \/ ClocksOf(app) # {} => t(app) # None
        /\ t(app) = s(app) \/
             (t(app).StartClock \in ClocksOf(app) /\ (s(app) # None => s(app).StartClock < t(app).StartClock))
        /\ \A c \in ClocksOf(app) : c <= t(app).StartClock
  BY <1>1, StartedEffect
<1>6. /\ \A a \in issued : a.app \in Apps /\ a.start \in Nat
      /\ \A k \in concluded : k.app \in Apps /\ k.start \in Nat
      /\ \A app \in Apps : s(app) # None => s(app).StartClock \in Nat
  <2>1. Clocks \subseteq Nat
    BY ControlLoopAssumption DEF Clocks
  <2>2. \A app \in Apps : s(app) # None => s(app) \in Status
    BY DEF TypeOK
  <2>. QED
    BY <2>1, <2>2 DEF TypeOK, Action, ActionKey, Status
<1>. HIDE DEF new, s, t
<1>7. \A app \in Apps : s(app) # None => t(app) # None /\ s(app).StartClock <= t(app).StartClock /\ t(app).StartClock \in Nat
  BY <1>4, <1>5, <1>6
<1>8. IssuedStarted'
  <2>1. \A a \in issued : t(a.app) # None /\ a.start <= t(a.app).StartClock
    BY <1>6, <1>7 DEF IssuedStarted, s
  <2>2. \A a \in new : t(a.app) # None /\ a.start <= t(a.app).StartClock
    BY <1>2, <1>5
  <2>. QED
    BY <2>1, <2>2 DEF IssuedStarted, new, t
<1>9. StatusPast'
  <2>1. \A app \in Apps : t(app) # None => t(app).StartClock <= clock
    BY <1>4, <1>5 DEF StatusPast, s
  <2>. QED
    BY <1>1, <2>1 DEF StatusPast, t
<1>10. ConcludedStarted'
  <2>1. \A k \in concluded : t(k.app) # None /\ k.start <= t(k.app).StartClock
    BY <1>6, <1>7 DEF ConcludedStarted, s
  <2>. QED
    BY <1>1, <2>1 DEF ConcludedStarted, t
<1>11. KeysKept'
  <2>1. \A a \in issued' \ starting' : a \in issued \ starting
    BY <1>1 DEF new
  <2>. QED
    BY <1>1, <2>1 DEF KeysKept
<1>12. ASSUME NEW app \in Apps, IsInAction(app)'
       PROVE  /\ Group(app)' # {}
              /\ \A b \in Group(app)' : GetKey(b) \notin concluded' /\ (UnderWay(b)' \/ b \in lost')
  <2>1. CASE t(app) = s(app)
    <3>1. IsInAction(app) /\ s(app) # None
      BY <1>12, <2>1 DEF IsInAction, s, t
    <3>2. ClocksOf(app) = {}
      BY <1>4, <3>1
    <3>3. Group(app)' = Group(app)
      <4>1. \A a \in new : a.app # app
        BY <1>2, <3>2
      <4>. QED
        BY <1>1, <2>1, <4>1 DEF Group, new, s, t
    <3>. QED
      BY <1>1, <3>1, <3>3 DEF InActionHasCause, UnderWay, RequestsOf
  <2>2. CASE /\ t(app).StartClock \in ClocksOf(app)
             /\ s(app) # None => s(app).StartClock < t(app).StartClock
    <3>1. Group(app)' # {}
      BY <1>3, <2>2 DEF Group, t
    <3>2. ASSUME NEW b \in Group(app)'
          PROVE  b \in starting' /\ GetKey(b) \notin concluded
      <4>1. b \in issued' /\ b.app = app /\ b.start = t(app).StartClock
        BY <3>2 DEF Group, t
      <4>2. b \notin issued
        BY <1>4, <1>6, <2>2, <4>1 DEF IssuedStarted, s
      <4>3. GetKey(b).app = app /\ GetKey(b).start = t(app).StartClock
        BY <4>1 DEF GetKey
      <4>4. GetKey(b) \notin concluded
        BY <1>4, <1>6, <2>2, <4>3 DEF ConcludedStarted, s
      <4>. QED
        BY <1>1, <4>1, <4>2, <4>4 DEF new
    <3>. QED
      BY <1>1, <3>1, <3>2 DEF UnderWay
  <2>. QED
    BY <1>5, <2>1, <2>2
<1>. QED
  BY <1>8, <1>9, <1>10, <1>11, <1>12 DEF CauseInv, InActionHasCause

(* The other steps leave all of it alone but the clock. *)
LEMMA CauseRest ==
  ASSUME Inv, \/ Tick \/ (\E on \in BOOLEAN : SwitchAutoScaling(on)) \/ Append_
              \/ Swap \/ Judge \/ (\E queues \in SUBSET Nodes : Fetch(queues))
  PROVE  CauseInv'
<1>. USE DEF Inv
<1>1. UNCHANGED <<actionStatusPerApp, ActionCache, concluded, issued, starting, sending, unanswered,
                  requests, executing, lost>>
  BY DEF Tick, SwitchAutoScaling, Append_, AppendPerfMessage, FinishAppend, Swap, Judge, Fetch
<1>2. clock' = clock \/ clock' = clock + 1
  BY DEF Tick, SwitchAutoScaling, Append_, AppendPerfMessage, FinishAppend, Swap, Judge, Fetch
<1>3. \A app \in Apps : actionStatusPerApp[app] # None => actionStatusPerApp[app].StartClock \in Nat
  <2>1. \A app \in Apps : actionStatusPerApp[app] # None => actionStatusPerApp[app] \in Status
    BY DEF TypeOK
  <2>. QED
    BY <2>1, ControlLoopAssumption DEF Status, Clocks
<1>4. StatusPast'
  BY <1>1, <1>2, <1>3, ControlLoopAssumption DEF StatusPast, TypeOK, Clocks
<1>5. IssuedStarted' /\ ConcludedStarted' /\ KeysKept'
  BY <1>1 DEF IssuedStarted, ConcludedStarted, KeysKept
<1>6. InActionHasCause'
  BY <1>1 DEF InActionHasCause, IsInAction, Group, UnderWay, RequestsOf
<1>. QED
  BY <1>4, <1>5, <1>6 DEF CauseInv

LEMMA InvStep ==
  ASSUME Inv, [Next]_vars
  PROVE  Inv'
<1>1. CASE Next
  <2>1. TypeOK'
    BY <1>1, TypeLoop, TypeAction, TypeHandler DEF Inv, Next
  <2>2. MessagesPast' /\ PlanPast'
    BY <1>1, MessagesStep DEF Inv
  <2>3. PlanCalm'
    BY <1>1, PlanStep
  <2>4. CauseInv'
    BY <1>1, CauseAction, CauseCarryOut, CauseRest DEF Next, DaemonStep
  <2>. QED
    BY <2>1, <2>2, <2>3, <2>4 DEF Inv, CauseInv
<1>2. CASE UNCHANGED vars
  <2>1. TypeOK'
    BY <1>2 DEF vars, Inv, TypeOK
  <2>2. MessagesPast' /\ PlanPast' /\ PlanCalm'
    BY <1>2 DEF vars, Inv, MessagesPast, Past, PlanPast, PlanCalm, Calm, IsInAction
  <2>3. CauseInv'
    BY <1>2 DEF vars, Inv, CauseInv, IssuedStarted, StatusPast, ConcludedStarted, KeysKept,
                InActionHasCause, IsInAction, Group, UnderWay, RequestsOf
  <2>. QED
    BY <2>1, <2>2, <2>3 DEF Inv, CauseInv
<1>. QED
  BY <1>1, <1>2

(* The invariant on which the control loop's properties rest. *)
THEOREM LoopInvariance == Spec => []Inv
<1>1. Init => Inv
  BY InvInit
<1>2. Inv /\ [Next]_vars => Inv'
  BY InvStep
<1>. QED
  BY <1>1, <1>2, PTL DEF Spec

(* Every variable of the loop keeps its type. *)
THEOREM LoopTypeCorrect == Spec => []TypeOK
<1>1. Inv => TypeOK
  BY DEF Inv
<1>. QED
  BY <1>1, LoopInvariance, PTL

(* An app that counts as in action has actions that explain it: none of    *)
(* them was counted, each is under way or known to be lost.                *)
THEOREM CauseCorrect == Spec => []InActionHasCause
<1>1. Inv => InActionHasCause
  BY DEF Inv
<1>. QED
  BY <1>1, LoopInvariance, PTL

(* No action is issued for an app in action, nor before it has calmed down *)
(* unless an older action was counted while the daemon judged.             *)
THEOREM CalmDownCorrect == Spec => CalmDownKept
<1>. DEFINE Kept ==
       \A app \in Apps :
         (\E a \in issued' \ issued : a.app = app) /\ actionStatusPerApp[app] # None =>
           /\ ~ IsInAction(app)
           /\ app \in late \/
              \A c \in ClocksOf(app) : c > actionStatusPerApp[app].CompleteClock + CalmDown
<1>1. Inv /\ [Next]_vars => [Kept]_vars
  <2>. SUFFICES ASSUME Inv, Next
                PROVE  Kept
    OBVIOUS
  <2>1. CASE issued' = issued
    BY <2>1
  <2>2. ASSUME NEW withPods \in SUBSET daemon.plan, CarryOut(withPods)
        PROVE  Kept
    <3>1. \A a \in issued' \ issued : \E i \in daemon.plan : i.app = a.app
      BY <2>2 DEF CarryOut
    <3>2. \A i \in daemon.plan : Calm(i.app, i.clock)
      BY DEF Inv, PlanCalm
    <3>3. \A app \in Apps : \A c \in ClocksOf(app) : Calm(app, c)
      BY <3>2 DEF ClocksOf
    <3>. QED
      BY <3>1, <3>2, <3>3 DEF Calm
  <2>3. issued' = issued \/ \E withPods \in SUBSET daemon.plan : CarryOut(withPods)
    BY ActionFrame DEF Next, Tick, SwitchAutoScaling, Append_, AppendPerfMessage, FinishAppend, DaemonStep,
                       Swap, Judge, Fetch
  <2>. QED
    BY <2>1, <2>2, <2>3
<1>. QED
  BY <1>1, LoopInvariance, PTL DEF Spec, CalmDownKept
=============================================================================
