---------------------------- MODULE ControlLoop ----------------------------
(***************************************************************************)
(* The resource control loop (package resource_manager) of a master node,  *)
(* and the nodes that carry its scaling actions out.                       *)
(*                                                                         *)
(* The statistics append messages on the service levels of applications;   *)
(* the daemon takes them over, judges each one, plans actions for queues   *)
(* and issues them; a goroutine per action sends it to the queue's node,   *)
(* whose handler holds that node's mutex while it works and while it       *)
(* reports back; the result, or the failure of the request, ends the       *)
(* action for its application, which then has a time to calm down.         *)
(*                                                                         *)
(* The master's mutex is held over a step only by its own handler of       *)
(* actions; all other sections of the code under it are single steps that  *)
(* wait for it (Free).  Queue keys are the keys of their nodes.            *)
(***************************************************************************)
EXTENDS Integers, Sequences, FiniteSets

CONSTANTS
  Apps,
  Nodes,          \* the nodes in control, by queue key
  Master,         \* the node whose daemon runs
  Types,          \* what messages ask for
  None,
  CalmDown,       \* CalmDownTimeWindowSize
  MaxUint64,
  MaxClock,       \* bound of the model: ticks
  MaxMessages,    \* bound of the model: messages appended
  MaxRequests     \* requests that a SendAction may make, retries included

VARIABLES
  clock,
  EnableAutoScaling,
  PerfMessageBuffer,
  appending,           \* per app: None, or what its AppendPerfMessage has read
  appended,            \* messages appended so far
  daemon,              \* the daemon's local variables
  actionStatusPerApp,  \* None, or the clocks of the last group of actions
  ActionCache,         \* keys of the actions that wait for their result
  issued,              \* actions for which a SendAction was started
  starting,            \* those whose SendAction has not run yet
  sending,             \* <<action, number of the request its SendAction waits for>>
  unanswered,          \* those of sending whose request has failed
  requests,            \* requests on their way: <<action, number>>
  executing,           \* per node: None, or the action its handler works on
  concluded,           \* history: keys whose result or failure was counted
  lost,                \* history: actions that will not be reported
  late                 \* history: apps concluded while the daemon judges

statusVars == <<actionStatusPerApp, ActionCache, concluded, late>>
actionVars == <<issued, starting, sending, unanswered, requests, executing, lost>>
messageVars == <<PerfMessageBuffer, appending, appended>>
vars == <<clock, EnableAutoScaling, messageVars, daemon, statusVars, actionVars>>

Clocks == 0 .. MaxClock
Message == [app : Apps, clock : Clocks, type : Types]
Action == [app : Apps, queue : Nodes, type : Types \ {"neither"}, start : Clocks, pods : BOOLEAN]
ActionKey == [app : Apps, queue : Nodes, start : Clocks]
Status == [StartClock : Clocks, CompleteClock : Clocks]
Item == [app : Apps, type : Types \ {"neither"}, queue : Nodes, clock : Clocks]
Execution == [action : Action, number : 1 .. MaxRequests,
              stage : {"reporting", "blocked", "reported"}]

ASSUME ControlLoopAssumption ==
  /\ Types \subseteq {"up", "down", "neither"}
  /\ None \notin Nodes \cup Status \cup Execution
  /\ CalmDown \in Nat \ {0} /\ MaxClock \in Nat /\ MaxMessages \in Nat
  /\ MaxRequests \in Nat \ {0}
  /\ MaxUint64 \in Nat /\ MaxUint64 > 2 * (MaxClock + CalmDown)

(* An action up and one down for the same queue and clock share their key. *)
GetKey(a) == [app |-> a.app, queue |-> a.queue, start |-> a.start]

Idle == [stage |-> "idle", batch |-> <<>>, plan |-> {}]

Free(n) == n \in Nodes => executing[n] = None

(* A status of None is the absence of the app from the map.                *)
IsInAction(app) ==
  /\ actionStatusPerApp[app] # None
  /\ actionStatusPerApp[app].StartClock > 0
  /\ actionStatusPerApp[app].CompleteClock = 0
-----------------------------------------------------------------------------
Init ==
  /\ clock = 0 /\ EnableAutoScaling = FALSE
  /\ PerfMessageBuffer = <<>> /\ appending = [app \in Apps |-> None] /\ appended = 0
  /\ daemon = Idle
  /\ actionStatusPerApp = [app \in Apps |-> None] /\ ActionCache = {}
  /\ issued = {} /\ starting = {} /\ sending = {} /\ unanswered = {}
  /\ requests = {} /\ executing = [n \in Nodes |-> None]
  /\ concluded = {} /\ lost = {} /\ late = {}

Tick ==
  /\ clock < MaxClock
  /\ clock' = clock + 1
  /\ UNCHANGED <<EnableAutoScaling, messageVars, daemon, statusVars, actionVars>>

SwitchAutoScaling(on) ==
  /\ Free(Master)
  /\ EnableAutoScaling' = on
  /\ UNCHANGED <<clock, messageVars, daemon, statusVars, actionVars>>

(* The mutex is given back before the append: the buffer is read in one    *)
(* step and written in another.  The type says which threshold it passes.  *)
AppendPerfMessage(app, type) ==
  /\ Free(Master)
  /\ appending[app] = None /\ appended < MaxMessages
  /\ appended' = appended + 1
  /\ appending' = [appending EXCEPT ![app] =
       [msg |-> [app |-> app, clock |-> clock, type |-> type],
        buffer |-> PerfMessageBuffer, raced |-> FALSE]]
  /\ UNCHANGED <<clock, EnableAutoScaling, PerfMessageBuffer, daemon, statusVars, actionVars>>

(* The write brings back whatever the daemon has taken meanwhile; of a     *)
(* write that the daemon's own one runs into nothing may be left.  Two     *)
(* appends from the same buffer write to the same place of it.             *)
FinishAppend(app) ==
  LET mine == appending[app]
      rivals == {other \in Apps : appending[other] # None /\ appending[other].buffer = mine.buffer}
  IN
  /\ mine # None
  /\ \/ \E winner \in rivals : PerfMessageBuffer' = Append(mine.buffer, appending[winner].msg)
     \/ mine.raced /\ UNCHANGED PerfMessageBuffer
  /\ appending' = [appending EXCEPT ![app] = None]
  /\ UNCHANGED <<clock, EnableAutoScaling, appended, daemon, statusVars, actionVars>>
-----------------------------------------------------------------------------
(* The daemon takes the messages over.  The parameters are the defaults,   *)
(* which are set up; unless switched on it only throws the messages away.  *)
Swap ==
  /\ daemon = Idle
  /\ Free(Master)
  /\ PerfMessageBuffer # <<>>
  /\ PerfMessageBuffer' = <<>>
  /\ appending' = [app \in Apps |-> IF appending[app] = None THEN None
                                    ELSE [appending[app] EXCEPT !.raced = TRUE]]
  /\ daemon' = IF EnableAutoScaling
               THEN [stage |-> "judging", batch |-> PerfMessageBuffer, plan |-> {}]
               ELSE Idle
  /\ late' = {}
  /\ UNCHANGED <<clock, EnableAutoScaling, appended, actionStatusPerApp, ActionCache,
                 concluded, actionVars>>

(* Variant: forgets that an action may still be in progress.               *)
isOutofCalmdownWindow_only(app, at) ==
  LET s == actionStatusPerApp[app] IN
  \/ s = None
  \/ s.StartClock > 0 /\ at > s.CompleteClock + CalmDown

(* Unsigned arithmetic in the second part, for a clock that has wrapped.   *)
isOutofCalmdownWindow(app, at) ==
  LET s == actionStatusPerApp[app]
      stop == s.CompleteClock
      wrapped == (stop + CalmDown - MaxUint64) % (MaxUint64 + 1)
  IN
  \/ s = None
  \/ /\ ~ IsInAction(app) /\ s.StartClock > 0
     /\ \/ at > (stop + CalmDown) % (MaxUint64 + 1)
        \/ wrapped > 0 /\ at < stop /\ at > wrapped

(* One message, judged without the mutex.                                  *)
Judge ==
  /\ daemon.stage = "judging" /\ daemon.batch # <<>>
  /\ LET msg == Head(daemon.batch) IN
       IF msg.type # "neither" /\ isOutofCalmdownWindow(msg.app, msg.clock)
       THEN daemon' = [daemon EXCEPT !.stage = "fetching"]
       ELSE daemon' = [daemon EXCEPT !.batch = Tail(@)]
  /\ UNCHANGED <<clock, EnableAutoScaling, messageVars, statusVars, actionVars>>

(* An item for each queue that the statistics name now; one that is        *)
(* planned already is replaced if its clock is before the message's.       *)
Fetch(queues) ==
  LET msg == Head(daemon.batch)
      kept == {i \in daemon.plan : i.app = msg.app /\ i.type = msg.type
                                     /\ i.queue \in queues /\ i.clock >= msg.clock}
      replaced == {i \in daemon.plan \ kept : i.app = msg.app /\ i.type = msg.type /\ i.queue \in queues}
      new == {[app |-> msg.app, type |-> msg.type, queue |-> q, clock |-> clock] :
              q \in queues \ {i.queue : i \in kept}}
  IN
  /\ daemon.stage = "fetching"
  /\ daemon' = [stage |-> "judging", batch |-> Tail(daemon.batch),
                plan |-> (daemon.plan \ replaced) \cup new]
  /\ UNCHANGED <<clock, EnableAutoScaling, messageVars, statusVars, actionVars>>

ClocksOf(app) == {i.clock : i \in {j \in daemon.plan : j.app = app}}
Latest(S) == CHOOSE c \in S : \A d \in S : d <= c

(* The plan is carried out under the mutex: whatever the order of its      *)
(* items, the status starts with the latest clock, if that is a new one.   *)
Started(app) ==
  LET s == actionStatusPerApp[app] IN
  IF ClocksOf(app) = {} \/ (s # None /\ s.StartClock >= Latest(ClocksOf(app))) THEN s
  ELSE [StartClock |-> Latest(ClocksOf(app)), CompleteClock |-> 0]

(* `withPods': the items for which the pod cache knows pods.               *)
CarryOut(withPods) ==
  LET new == {[app |-> i.app, queue |-> i.queue, type |-> i.type, start |-> i.clock,
               pods |-> i \in withPods] : i \in daemon.plan}
  IN
  /\ daemon.stage = "judging" /\ daemon.batch = <<>>
  /\ daemon.plan # {} => Free(Master)
  /\ actionStatusPerApp' = [app \in Apps |-> Started(app)]
  /\ issued' = issued \cup new /\ starting' = starting \cup new
  /\ daemon' = Idle
  /\ UNCHANGED <<clock, EnableAutoScaling, messageVars, ActionCache, concluded, late,
                 sending, unanswered, requests, executing, lost>>
-----------------------------------------------------------------------------
(* Variant: the action is not cached.                                      *)
SendAction_uncached(a) ==
  /\ a \in starting /\ Free(Master)
  /\ starting' = starting \ {a} /\ sending' = sending \cup {<<a, 1>>}
  /\ requests' = requests \cup {<<a, 1>>}
  /\ UNCHANGED <<clock, EnableAutoScaling, messageVars, daemon, statusVars, issued,
                 unanswered, executing, lost>>

SendAction(a) ==
  /\ a \in starting /\ Free(Master)
  /\ ActionCache' = ActionCache \cup {GetKey(a)}
  /\ starting' = starting \ {a} /\ sending' = sending \cup {<<a, 1>>}
  /\ requests' = requests \cup {<<a, 1>>}
  /\ UNCHANGED <<clock, EnableAutoScaling, messageVars, daemon, actionStatusPerApp,
                 concluded, late, issued, unanswered, executing, lost>>

RequestsOf(a) == {r \in requests : r[1] = a}

(* A request gets no answer; it may have arrived for all that, or arrive   *)
(* yet.                                                                    *)
LoseAnswer(a, n) ==
  /\ <<a, n>> \in sending \ unanswered
  /\ unanswered' = unanswered \cup {<<a, n>>}
  /\ requests' \in {requests, requests \ {<<a, n>>}}
  /\ UNCHANGED <<clock, EnableAutoScaling, messageVars, daemon, statusVars, issued,
                 starting, sending, executing, lost>>

(* HTTPCommunicate tries again, a bounded number of times.                 *)
Retry(a, n) ==
  /\ <<a, n>> \in unanswered /\ n < MaxRequests
  /\ unanswered' = unanswered \ {<<a, n>>}
  /\ sending' = (sending \ {<<a, n>>}) \cup {<<a, n + 1>>}
  /\ requests' = requests \cup {<<a, n + 1>>}
  /\ UNCHANGED <<clock, EnableAutoScaling, messageVars, daemon, statusVars, issued,
                 starting, executing, lost>>

(* The status of the app is complete, whichever group the action is of.    *)
Complete(app) ==
  /\ actionStatusPerApp' = [actionStatusPerApp EXCEPT ![app].CompleteClock = clock]
  /\ late' = late \cup {app}

(* The retries are used up, or the queue's node is not in control.         *)
SendFails(a, n) ==
  /\ <<a, n>> \in unanswered /\ Free(Master)
  /\ Complete(a.app)
  /\ ActionCache' = ActionCache \ {GetKey(a)}
  /\ concluded' = concluded \cup {GetKey(a)}
  /\ sending' = sending \ {<<a, n>>} /\ unanswered' = unanswered \ {<<a, n>>}
  /\ UNCHANGED <<clock, EnableAutoScaling, messageVars, daemon, issued, starting, requests,
                 executing, lost>>

(* Variant: also when it has given that request up.                        *)
Answer_late(a, n) == sending' = sending \ {<<a, n>>}

(* The answer of a request reaches the SendAction, if it waits for it.     *)
Answer(a, n) == sending' = sending \ ({<<a, n>>} \ unanswered)
-----------------------------------------------------------------------------
(* An action without pods is answered and never reported.                  *)
ExecuteNothing(a, n) ==
  /\ <<a, n>> \in requests /\ ~ a.pods
  /\ requests' = requests \ {<<a, n>>} /\ lost' = lost \cup {a}
  /\ Answer(a, n)
  /\ UNCHANGED <<clock, EnableAutoScaling, messageVars, daemon, statusVars, issued, starting,
                 unanswered, executing>>

(* The handler takes its node's mutex and asks the node's resource manager.*)
(* Of the action's pods it skips those that would be left without cores;   *)
(* for the first other one it calls SetPodCPUResource, which takes the     *)
(* mutex again and blocks for ever; when no pod is left, or too few cores, *)
(* it goes on to report that it did not succeed.                           *)
PhysicallyExecuteAction(a, n) ==
  /\ <<a, n>> \in requests /\ a.pods
  /\ Free(a.queue)
  /\ requests' = requests \ {<<a, n>>}
  /\ \E stage \in {"reporting", "blocked"} :
       executing' = [executing EXCEPT ![a.queue] = [action |-> a, number |-> n, stage |-> stage]]
  /\ UNCHANGED <<clock, EnableAutoScaling, messageVars, daemon, statusVars, issued, starting,
                 sending, unanswered, lost>>

(* A pod that the resource manager does not know is a nil dereference: the *)
(* deferred unlock runs, nothing is reported, and the request has failed.  *)
ExecutePanics(a, n) ==
  /\ <<a, n>> \in requests /\ a.pods
  /\ Free(a.queue)
  /\ requests' = requests \ {<<a, n>>} /\ lost' = lost \cup {a}
  /\ unanswered' = unanswered \cup ({<<a, n>>} \cap sending)
  /\ UNCHANGED <<clock, EnableAutoScaling, messageVars, daemon, statusVars, issued, starting,
                 sending, executing>>

(* Variant: the cached action is dropped, its app's status is not touched. *)
ActionHasBeenPhysicallyExecuted_forgets(m) ==
  LET key == GetKey(executing[m].action) IN
  /\ executing[m] # None /\ executing[m].stage = "reporting"
  /\ Free(Master)
  /\ ActionCache' = ActionCache \ {key}
  /\ concluded' = IF key \in ActionCache THEN concluded \cup {key} ELSE concluded
  /\ executing' = [executing EXCEPT ![m].stage = "reported"]
  /\ UNCHANGED <<clock, EnableAutoScaling, messageVars, daemon, actionStatusPerApp, late,
                 issued, starting, sending, unanswered, requests, lost>>

(* The master's handler of a result.  It needs the master's mutex, which   *)
(* the reporting handler itself holds if the queue is the master's.  The   *)
(* answer may be lost, and the report be repeated.                         *)
ActionHasBeenPhysicallyExecuted(m) ==
  LET key == GetKey(executing[m].action) IN
  /\ executing[m] # None /\ executing[m].stage = "reporting"
  /\ Free(Master)
  /\ IF key \in ActionCache
     THEN /\ Complete(executing[m].action.app)
          /\ ActionCache' = ActionCache \ {key}
          /\ concluded' = concluded \cup {key}
     ELSE UNCHANGED statusVars
  /\ executing' \in {executing, [executing EXCEPT ![m].stage = "reported"]}
  /\ UNCHANGED <<clock, EnableAutoScaling, messageVars, daemon, issued, starting, sending,
                 unanswered, requests, lost>>

(* The report is given up; its result was not taken into account, or its   *)
(* answer was lost.                                                        *)
ReportFails(m) ==
  /\ executing[m] # None /\ executing[m].stage = "reporting"
  /\ executing' = [executing EXCEPT ![m].stage = "reported"]
  /\ lost' = lost \cup {executing[m].action}
  /\ UNCHANGED <<clock, EnableAutoScaling, messageVars, daemon, statusVars, issued, starting,
                 sending, unanswered, requests>>

(* The handler gives the mutex back and answers the request.               *)
FinishExecution(m) ==
  /\ executing[m] # None /\ executing[m].stage = "reported"
  /\ executing' = [executing EXCEPT ![m] = None]
  /\ Answer(executing[m].action, executing[m].number)
  /\ UNCHANGED <<clock, EnableAutoScaling, messageVars, daemon, statusVars, issued, starting,
                 unanswered, requests, lost>>
-----------------------------------------------------------------------------
Append_ == \E app \in Apps :
  FinishAppend(app) \/ \E type \in Types : AppendPerfMessage(app, type)

DaemonStep ==
  \/ Swap
  \/ Judge
  \/ \E queues \in SUBSET Nodes : Fetch(queues)
  \/ \E withPods \in SUBSET daemon.plan : CarryOut(withPods)

SenderStep(a) ==
  \/ SendAction(a)
  \/ \E n \in 1 .. MaxRequests : LoseAnswer(a, n) \/ Retry(a, n) \/ SendFails(a, n)

RequestStep(a) == \E n \in 1 .. MaxRequests :
  ExecuteNothing(a, n) \/ PhysicallyExecuteAction(a, n) \/ ExecutePanics(a, n)

HandlerStep(m) == ActionHasBeenPhysicallyExecuted(m) \/ ReportFails(m) \/ FinishExecution(m)

Next ==
  \/ Tick
  \/ \E on \in BOOLEAN : SwitchAutoScaling(on)
  \/ Append_
  \/ DaemonStep
  \/ \E a \in issued : SenderStep(a) \/ RequestStep(a)
  \/ \E m \in Nodes : HandlerStep(m)

Spec == Init /\ [][Next]_vars

(* The goroutines run: a SendAction begins, and goes on when its request   *)
(* has failed; a request that is not lost is handled when the mutex is     *)
(* free; a report that can be delivered is; a handler that has reported    *)
(* ends.  Nothing is said of clocks, messages or losses.                   *)
Fairness ==
  /\ WF_vars(\E a \in issued : SendAction(a))
  /\ WF_vars(\E a \in issued, n \in 1 .. MaxRequests : SendFails(a, n) \/ Retry(a, n))
  /\ \A m \in Nodes :
       /\ WF_vars(\E a \in issued : a.queue = m /\ RequestStep(a))
       /\ WF_vars(ActionHasBeenPhysicallyExecuted(m) \/ FinishExecution(m))

FairSpec == Spec /\ Fairness
-----------------------------------------------------------------------------
(* Type invariant. *)
TypeOK ==
  /\ clock \in Clocks /\ EnableAutoScaling \in BOOLEAN /\ appended \in 0 .. MaxMessages
  /\ PerfMessageBuffer \in Seq(Message)
  /\ appending \in [Apps -> {None} \cup [msg : Message, buffer : Seq(Message), raced : BOOLEAN]]
  /\ daemon \in [stage : {"idle", "judging", "fetching"}, batch : Seq(Message), plan : SUBSET Item]
  /\ daemon.stage = "fetching" => daemon.batch # <<>> /\ Head(daemon.batch).type # "neither"
  /\ actionStatusPerApp \in [Apps -> {None} \cup Status] /\ late \subseteq Apps
  /\ ActionCache \subseteq ActionKey /\ concluded \subseteq ActionKey
  /\ issued \subseteq Action /\ starting \cup lost \subseteq issued
  /\ sending \cup requests \subseteq issued \X (1 .. MaxRequests) /\ unanswered \subseteq sending
  /\ executing \in [Nodes -> {None} \cup Execution]
  /\ \A n \in Nodes : executing[n] # None => executing[n].action \in issued

(* The actions of the group that an app's status is about. *)
Group(app) == {a \in issued : a.app = app /\ a.start = actionStatusPerApp[app].StartClock}

UnderWay(a) ==
  \/ a \in starting
  \/ \E r \in unanswered : r[1] = a
  \/ RequestsOf(a) # {}
  \/ \E m \in Nodes : executing[m] # None /\ executing[m].action = a /\ executing[m].stage # "reported"

(* An app that counts as in action (and is not scaled until it no longer   *)
(* does) has a group of actions, none of which was counted as ended, and   *)
(* each of which will still be or is known to be lost: executed without a  *)
(* report, or with one that was given up.                                  *)
InActionHasCause ==
  \A app \in Apps : IsInAction(app) =>
    /\ Group(app) # {}
    /\ \A a \in Group(app) : GetKey(a) \notin concluded /\ (UnderWay(a) \/ a \in lost)

(* The daemon judges without the mutex, on messages that were delayed or   *)
(* duplicated by the race for the buffer, while results of older actions   *)
(* come in.  Still no action is issued for an app that is in action, and   *)
(* none before it has calmed down unless an older action was counted while *)
(* the daemon was judging.                                                 *)
CalmDownKept ==
  [][\A app \in Apps :
       (\E a \in issued' \ issued : a.app = app) /\ actionStatusPerApp[app] # None =>
         /\ ~ IsInAction(app)
         /\ app \in late \/
            \A c \in ClocksOf(app) : c > actionStatusPerApp[app].CompleteClock + CalmDown]_vars

(* Nothing the handlers of this node will ever do frees the mutex.         *)
Stuck(m) ==
  /\ executing[m] # None
  /\ \/ executing[m].stage = "blocked"
     \/ executing[m].stage = "reporting" /\ ~ Free(Master)

(* An app does not stay in action for ever, unless the report of one of    *)
(* its actions was lost or a handler blocks a node's mutex.                *)
ActionEnds ==
  \A app \in Apps :
    IsInAction(app) ~>
      \/ ~ IsInAction(app)
      \/ Group(app) \cap lost # {}
      \/ \E m \in Nodes : Stuck(m)
=============================================================================
