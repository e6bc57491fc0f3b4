------------------------------ MODULE TaskLife ------------------------------
(***************************************************************************)
(* The life of aggregative tasks at a coordinator: a task is spread over   *)
(* the sub-nodes, gathered by an aggregator pod of the coordinator itself, *)
(* and done when every subtask has reported.  HTTP handlers, the goroutine *)
(* of a new task and the dispatching routine interleave; what one of them  *)
(* does under the task cache's or the pod cache's mutex is one action.     *)
(*                                                                         *)
(* Sub-nodes, pods and the network are outside: a sub-node answers once, a *)
(* pod runs what it is sent and reports, and HTTPCommunicate may repeat a  *)
(* request whose answer it did not get, or give up.                        *)
(***************************************************************************)
EXTENDS Integers, FiniteSets

CONSTANTS
  Tasks,
  Nodes,            \* sub-nodes that every task needs
  SubCoordinators,  \* those that answer with an aggregator, not a worker
  InitiallyKnown,   \* nodes whose pods the pod cache knows at the start
  agg,              \* the aggregator subtask
  Replies,          \* what a sub-node may answer: "accepted", "rejected"
  Failing,          \* subtasks whose pod may report a failure
  MaxRepeats,       \* bound of the model: requests repeated in a behaviour
  MaxLost           \* bound of the model: requests for a subtask that never arrive

ASSUME TaskLifeAssumption ==
  /\ SubCoordinators \subseteq Nodes /\ InitiallyKnown \subseteq Nodes
  /\ agg \notin Nodes
  /\ Replies \subseteq {"accepted", "rejected"}
  /\ Failing \subseteq Nodes \cup {agg}
  /\ MaxRepeats \in Nat /\ MaxLost \in Nat

Subtasks == Nodes \cup {agg}
Workers == Nodes \ SubCoordinators
Terminal == {"rejected", "done", "failed"}

VARIABLES
  status,    \* status of each task in the task cache, "absent" when not cached
  subtask,   \* status of each subtask; "none": no module entry, "empty": no subtask in it
  known,     \* nodes with a scheduler in the pod cache
  waiting,   \* keys in the subtask queue of each node's scheduler
  idle,      \* IsIdle of each node's scheduler
  sending,   \* subtasks taken from a queue and not yet sent, counted
  atPod,     \* subtasks at the pod of a node, counted
  aggSent,   \* times the request to the aggregator was made, arrived or not
  informed,  \* tasks of which such a request arrived
  expected,  \* nodes whose subtasks the aggregator was told to wait for
  executed,  \* times a pod finished the subtask
  net,       \* requests on their way to the coordinator
  handlers,  \* requests being handled, each with its place in the code
  repeated,  \* requests repeated so far
  answered,  \* times the response of the task was recorded
  lost       \* requests that never arrived at the pod of a subtask, counted

cacheVars == <<status, subtask>>
netVars == <<net, repeated>>
podVars == <<known, waiting, idle>>
aggVars == <<aggSent, informed, expected>>
workVars == <<sending, atPod, aggVars, executed, lost>>
vars == <<status, subtask, known, waiting, idle, sending, atPod, aggSent, informed,
          expected, executed, net, handlers, repeated, answered, lost>>

Request(type, t, from, outcome, run) ==
  [type |-> type, task |-> t, from |-> from, outcome |-> outcome, run |-> run, copy |-> 0]

Handler(m, pc, todo) == [request |-> m, pc |-> pc, todo |-> todo]

(* What the pod of a subtask may report.                                   *)
Results(s) == IF s \in Failing THEN {"done", "failed"} ELSE {"done"}

Zero == [t \in Tasks |-> [s \in Subtasks |-> 0]]

(* Bound of the model: one more request may get lost.                      *)
MayLose == \A s \in Subtasks : lost[s] < MaxLost

(* A handler moves to another place of the code, or returns.               *)
Goto(h, pc) == handlers' = (handlers \ {h}) \cup {[h EXCEPT !.pc = pc]}
Return(h) == handlers' = handlers \ {h}
-----------------------------------------------------------------------------
(* Operations of the task cache, each under its mutex.                     *)

(* Variant: an entry without a subtask counts as having the status.      *)
same_status_empty_passes(t, desired) ==
  \A s \in Subtasks : subtask[t][s] \in {"none", "empty", desired}

(* Variant: the check stops at the first subtask with the status.        *)
same_status_first_hit(t, desired) ==
  \E s \in Subtasks : subtask[t][s] = desired

(* Every module entry has a subtask and every subtask has the status.      *)
allSubtasksHaveTheSameStatus(t, desired) ==
  \A s \in Subtasks : subtask[t][s] \in {"none", desired}

CheckTask(t, desired) ==
  IF status[t] \in Terminal THEN status[t] = desired
  ELSE allSubtasksHaveTheSameStatus(t, desired)

StatusAfterCheck(t, desired) ==
  IF status[t] \notin Terminal /\ allSubtasksHaveTheSameStatus(t, desired)
  THEN [status EXCEPT ![t] = desired] ELSE status

SetTaskStatus(t, st) ==
  /\ status' = [status EXCEPT ![t] = st]
  /\ subtask' = [subtask EXCEPT ![t] =
       [s \in Subtasks |-> IF subtask[t][s] \in {"none", "empty"} THEN subtask[t][s] ELSE st]]

SetStatus(t, st) == status' = [status EXCEPT ![t] = st]      \* RejectTask, FailTask

SetSubtask(t, s, st) == subtask' = [subtask EXCEPT ![t][s] = st]
-----------------------------------------------------------------------------
Init ==
  /\ status = [t \in Tasks |-> "absent"]
  /\ subtask = [t \in Tasks |-> [s \in Subtasks |-> "none"]]
  /\ known = InitiallyKnown
  /\ waiting = [n \in Nodes |-> {}]
  /\ idle = [n \in Nodes |-> TRUE]
  /\ sending = Zero /\ atPod = Zero /\ executed = Zero
  /\ aggSent = [t \in Tasks |-> 0]
  /\ informed = {}
  /\ expected = [t \in Tasks |-> {}]
  /\ net = {}
  /\ handlers = {}
  /\ repeated = 0
  /\ answered = [t \in Tasks |-> 0]
  /\ lost = [s \in Subtasks |-> 0]

(* A new task: the aggregator's subtask and those of known nodes are       *)
(* cached as accepted, an unknown node gets an empty entry; the task goes  *)
(* to unknown nodes and to known sub-coordinators, which work on it if     *)
(* they accept.  The task is checked right away if a known worker was the  *)
(* last node looked at, which the order of a Go map decides, or if there   *)
(* was nothing else.                                                       *)
evaluateAggregativeTasks(t) ==
  /\ status[t] = "absent"
  /\ status' = [status EXCEPT ![t] = "pending"]
  /\ subtask' = [subtask EXCEPT ![t] =
       [s \in Subtasks |-> IF s = agg \/ s \in known THEN "accepted" ELSE "empty"]]
  /\ LET ready == known \cap Workers
         told == Nodes \ ready
     IN  /\ \E reply \in [told -> Replies] :
              /\ net' = net \cup {Request("provision", t, n, reply[n], 0) : n \in told}
              /\ atPod' = [atPod EXCEPT ![t] = [s \in Subtasks |->
                   IF s \in SubCoordinators /\ reply[s] = "accepted" THEN 1 ELSE 0]]
         /\ \E check \in BOOLEAN :
              /\ check => ready # {}
              /\ told = {} => check
              /\ handlers' = IF check
                   THEN handlers \cup {Handler(Request("task", t, agg, "accepted", 0), "check", {})}
                   ELSE handlers
  /\ UNCHANGED <<podVars, sending, aggVars, executed, lost, repeated, answered>>

(* A request arrives; its sender may repeat it for want of an answer.      *)
Take(m) ==
  /\ \/ net' = net \ {m} /\ UNCHANGED repeated
     \/ /\ repeated < MaxRepeats
        /\ repeated' = repeated + 1
        /\ net' = (net \ {m}) \cup {[m EXCEPT !.copy = @ + 1]}

Deliver(m, pc) == Take(m) /\ handlers' = handlers \cup {Handler(m, pc, {})}

(* CollectProvisioning: the node's pod is cached as an accepted subtask... *)
CacheProvisionedPod(m) ==
  /\ m.type = "provision" /\ m.outcome = "accepted"
  /\ Deliver(m, "setPod")
  /\ SetSubtask(m.task, m.from, "accepted")
  /\ UNCHANGED <<status, podVars, workVars, answered>>

(* ...or the task is rejected. *)
CollectRejection(m) ==
  /\ m.type = "provision" /\ m.outcome = "rejected"
  /\ Take(m) /\ UNCHANGED handlers
  /\ SetStatus(m.task, "rejected")
  /\ UNCHANGED <<subtask, podVars, workVars, answered>>

SetPodForApplication(h) ==
  /\ h.pc = "setPod"
  /\ known' = known \cup {h.request.from}
  /\ Goto(h, "check")
  /\ UNCHANGED <<cacheVars, waiting, idle, workVars, netVars, answered>>

(* checkTaskStatus, in three steps under the mutex of the task cache and   *)
(* one request to the aggregator; then the subtasks of the workers are put *)
(* into the queues one by one, in any order.                               *)
CheckAccepted(h) ==
  /\ h.pc = "check"
  /\ status' = StatusAfterCheck(h.request.task, "accepted")
  /\ IF CheckTask(h.request.task, "accepted") THEN Goto(h, "run") ELSE Return(h)
  /\ UNCHANGED <<subtask, podVars, workVars, netVars, answered>>

SetRunning(h) ==
  /\ h.pc = "run"
  /\ SetTaskStatus(h.request.task, "running")
  /\ Goto(h, "tell")
  /\ UNCHANGED <<podVars, workVars, netVars, answered>>

(* Variant: the coordinator's own node is not left out.                  *)
subtasks_of_self_too(t) == {n \in Workers \cup {agg} : subtask[t][n] \notin {"none", "empty"}}

GetSubtasksRegardingNode(t) == {n \in Workers : subtask[t][n] \notin {"none", "empty"}}

(* The request to the aggregator.  Whether it arrives is not looked at: the *)
(* handler goes on with the workers in either case.                        *)
TellAggregator(h) ==
  LET t == h.request.task
  IN  /\ h.pc = "tell"
      /\ aggSent' = [aggSent EXCEPT ![t] = @ + 1]
      /\ \/ /\ informed' = informed \cup {t}
            /\ expected' = [expected EXCEPT ![t] = GetSubtasksRegardingNode(t)]
            /\ UNCHANGED lost
         \/ /\ MayLose
            /\ lost' = [lost EXCEPT ![agg] = @ + 1]
            /\ UNCHANGED <<informed, expected>>
      /\ handlers' = (handlers \ {h}) \cup
           {[h EXCEPT !.pc = "enqueue", !.todo = GetSubtasksRegardingNode(t)]}
      /\ UNCHANGED <<cacheVars, podVars, sending, atPod, executed, netVars, answered>>

(* A subtask for a node without a scheduler is skipped; the queue refuses  *)
(* a subtask that it holds.                                                *)
EnqueueWorker(h, n) ==
  /\ h.pc = "enqueue" /\ n \in h.todo
  /\ waiting' = IF n \in known
                THEN [waiting EXCEPT ![n] = @ \cup {h.request.task}] ELSE waiting
  /\ handlers' = (handlers \ {h}) \cup {[h EXCEPT !.todo = @ \ {n}]}
  /\ UNCHANGED <<cacheVars, known, idle, workVars, netVars, answered>>

(* Variant: the status is set once more after the workers were enqueued. *)
Reply_sets_worker_ready(h) ==
  /\ h.pc = "enqueue" /\ h.todo = {}
  /\ SetTaskStatus(h.request.task, "running")
  /\ Return(h)
  /\ UNCHANGED <<podVars, workVars, netVars, answered>>

Reply(h) ==
  /\ h.pc = "enqueue" /\ h.todo = {}
  /\ Return(h)
  /\ UNCHANGED <<cacheVars, podVars, workVars, netVars, answered>>
-----------------------------------------------------------------------------
(* Variant: the subtask stays in the queue.                              *)
dispatchSubtask_keeps_item(n) ==
  /\ n \in known /\ idle[n]
  /\ \E t \in waiting[n] : sending' = [sending EXCEPT ![t][n] = @ + 1]
  /\ idle' = [idle EXCEPT ![n] = FALSE]
  /\ UNCHANGED <<cacheVars, known, waiting, atPod, aggVars, executed, lost, netVars, handlers, answered>>

(* Variant: the scheduler is not marked busy.                            *)
dispatchSubtask_stays_idle(n) ==
  /\ n \in known /\ idle[n]
  /\ \E t \in waiting[n] :
       /\ waiting' = [waiting EXCEPT ![n] = @ \ {t}]
       /\ sending' = [sending EXCEPT ![t][n] = @ + 1]
  /\ UNCHANGED <<cacheVars, known, idle, atPod, aggVars, executed, lost, netVars, handlers, answered>>

(* routineForSTQueues starts it for a scheduler it found idle; everything  *)
(* up to the request is under the pod cache's mutex.                       *)
dispatchSubtask(n) ==
  /\ n \in known /\ idle[n]
  /\ \E t \in waiting[n] :
       /\ waiting' = [waiting EXCEPT ![n] = @ \ {t}]
       /\ sending' = [sending EXCEPT ![t][n] = @ + 1]
  /\ idle' = [idle EXCEPT ![n] = FALSE]
  /\ UNCHANGED <<cacheVars, known, atPod, aggVars, executed, lost, netVars, handlers, answered>>

(* The request to the pod; what comes of it is not looked at. *)
SendToPod(t, n) ==
  /\ sending[t][n] > 0
  /\ sending' = [sending EXCEPT ![t][n] = @ - 1]
  /\ \/ atPod' = [atPod EXCEPT ![t][n] = @ + 1] /\ UNCHANGED lost
     \/ /\ MayLose
        /\ lost' = [lost EXCEPT ![n] = @ + 1]
        /\ UNCHANGED atPod
  /\ UNCHANGED <<cacheVars, podVars, aggVars, executed, netVars, handlers, answered>>

(* A pod finishes a subtask and reports; a sub-coordinator passes the      *)
(* report of its own aggregator on.                                        *)
PodFinishes(t, n) ==
  /\ atPod[t][n] > 0
  /\ atPod' = [atPod EXCEPT ![t][n] = @ - 1]
  /\ executed' = [executed EXCEPT ![t][n] = @ + 1]
  /\ \E r \in Results(n) : net' = net \cup {Request("report", t, n, r, executed[t][n])}
  /\ UNCHANGED <<cacheVars, podVars, sending, aggVars, lost, repeated, handlers, answered>>

(* An aggregator that was told has what it waits for, for the first time. *)
AggregatorFinishes(t) ==
  /\ t \in informed /\ \A n \in expected[t] : executed[t][n] > 0
  /\ executed[t][agg] = 0
  /\ executed' = [executed EXCEPT ![t][agg] = 1]
  /\ \E r \in Results(agg) : net' = net \cup {Request("report", t, agg, r, 0)}
  /\ UNCHANGED <<cacheVars, podVars, sending, atPod, aggVars, lost, repeated, handlers, answered>>
-----------------------------------------------------------------------------
(* CollectAppMsg: a failure marks the task first; the result is saved; the *)
(* scheduler of the pod is idle again, without the pod cache's mutex; then *)
(* the task is checked and its response recorded if it is done.            *)
Recognized(m) == subtask[m.task][m.from] \notin {"none", "empty"}

SaveResultFromApp(m) ==
  /\ Recognized(m)
  /\ SetSubtask(m.task, m.from, m.outcome)
  /\ UNCHANGED <<status, podVars, workVars, answered>>

CollectResult(m) ==
  /\ m.type = "report" /\ m.outcome = "done"
  /\ Deliver(m, "setIdle")
  /\ SaveResultFromApp(m)

(* A report that overtakes the acceptance of its sub-coordinator is of a   *)
(* subtask the cache does not know yet: it is refused.                     *)
RefuseResult(m) ==
  /\ m.type = "report" /\ m.outcome = "done" /\ ~ Recognized(m)
  /\ Take(m) /\ UNCHANGED handlers
  /\ UNCHANGED <<cacheVars, podVars, workVars, answered>>

CollectFailure(m) ==
  /\ m.type = "report" /\ m.outcome = "failed"
  /\ Deliver(m, "save")
  /\ SetStatus(m.task, "failed")
  /\ UNCHANGED <<subtask, podVars, workVars, answered>>

SaveFailure(h) ==
  /\ h.pc = "save"
  /\ Goto(h, "setIdle")
  /\ SaveResultFromApp(h.request)
  /\ UNCHANGED netVars

RefuseFailure(h) ==
  /\ h.pc = "save" /\ ~ Recognized(h.request)
  /\ Return(h)
  /\ UNCHANGED <<cacheVars, podVars, workVars, netVars, answered>>

(* Variant: the scheduler is freed only when another subtask waits. *)
SetPodIdle_if_waiting(h) ==
  /\ h.pc = "setIdle"
  /\ idle' = IF h.request.from \in Nodes /\ waiting[h.request.from] # {}
             THEN [idle EXCEPT ![h.request.from] = TRUE] ELSE idle
  /\ Goto(h, "checkDone")
  /\ UNCHANGED <<cacheVars, known, waiting, workVars, netVars, answered>>

SetPodIdle(h) ==
  /\ h.pc = "setIdle"
  /\ idle' = IF h.request.from \in Nodes THEN [idle EXCEPT ![h.request.from] = TRUE] ELSE idle
  /\ Goto(h, "checkDone")
  /\ UNCHANGED <<cacheVars, known, waiting, workVars, netVars, answered>>

CheckDone(h) ==
  /\ h.pc = "checkDone"
  /\ status' = StatusAfterCheck(h.request.task, "done")
  /\ IF CheckTask(h.request.task, "done") THEN Goto(h, "record") ELSE Return(h)
  /\ UNCHANGED <<subtask, podVars, workVars, netVars, answered>>

EnqueueResponse(h) ==
  /\ h.pc = "record"
  /\ answered' = [answered EXCEPT ![h.request.task] = @ + 1]
  /\ Return(h)
  /\ UNCHANGED <<cacheVars, podVars, workVars, netVars>>
-----------------------------------------------------------------------------
Receive(m) ==
  \/ CacheProvisionedPod(m) \/ CollectRejection(m)
  \/ CollectResult(m) \/ RefuseResult(m) \/ CollectFailure(m)

Proceed(h) ==
  \/ SetPodForApplication(h) \/ CheckAccepted(h) \/ SetRunning(h) \/ TellAggregator(h)
  \/ \E n \in Nodes : EnqueueWorker(h, n)
  \/ Reply(h)
  \/ SaveFailure(h) \/ RefuseFailure(h) \/ SetPodIdle(h) \/ CheckDone(h) \/ EnqueueResponse(h)

Next ==
  \/ \E t \in Tasks : evaluateAggregativeTasks(t) \/ AggregatorFinishes(t)
  \/ \E m \in net : Receive(m)
  \/ \E h \in handlers : Proceed(h)
  \/ \E n \in Nodes : dispatchSubtask(n)
  \/ \E t \in Tasks, n \in Nodes : SendToPod(t, n) \/ PodFinishes(t, n)

Spec == Init /\ [][Next]_vars

(* The routine for the queues never stops, handlers run to their end, the  *)
(* network delivers what is not lost, and pods finish what they start.     *)
Fairness ==
  /\ \A n \in Nodes : WF_vars(dispatchSubtask(n))
  /\ WF_vars(\E m \in net : Receive(m))
  /\ WF_vars(\E h \in handlers : Proceed(h))
  /\ \A t \in Tasks :
       /\ WF_vars(AggregatorFinishes(t))
       /\ \A n \in Nodes : WF_vars(SendToPod(t, n)) /\ WF_vars(PodFinishes(t, n))

FairSpec == Spec /\ Fairness
-----------------------------------------------------------------------------
Requests == [type : {"task", "provision", "report"}, task : Tasks, from : Subtasks,
             outcome : {"accepted", "rejected", "done", "failed"}, run : Nat, copy : 0 .. MaxRepeats]

Places == {"setPod", "check", "run", "tell", "enqueue",
           "save", "setIdle", "checkDone", "record"}

(* Type invariant. *)
TypeOK ==
  /\ status \in [Tasks -> {"absent", "pending", "accepted", "running"} \cup Terminal]
  /\ subtask \in [Tasks -> [Subtasks ->
       {"none", "empty", "accepted", "running", "done", "failed"}]]
  /\ known \subseteq Nodes
  /\ waiting \in [Nodes -> SUBSET Tasks]
  /\ idle \in [Nodes -> BOOLEAN]
  /\ sending \in [Tasks -> [Subtasks -> Nat]]
  /\ atPod \in [Tasks -> [Subtasks -> Nat]]
  /\ executed \in [Tasks -> [Subtasks -> Nat]]
  /\ aggSent \in [Tasks -> Nat]
  /\ informed \subseteq Tasks
  /\ expected \in [Tasks -> SUBSET Nodes]
  /\ net \subseteq Requests
  /\ handlers \subseteq [request : Requests, pc : Places, todo : SUBSET Nodes]
  /\ repeated \in 0 .. MaxRepeats
  /\ answered \in [Tasks -> Nat]
  /\ lost \in [Subtasks -> 0 .. MaxLost]

(* A response is recorded only for a task each of whose subtasks, the      *)
(* aggregator's included, was finished by its pod: neither the resetting   *)
(* of statuses nor repeated reports complete a task too early.             *)
ResponseOnlyWhenAllDone ==
  \A t \in Tasks : answered[t] > 0 => \A s \in Subtasks : executed[t][s] > 0

(* No worker gets a subtask before every sub-node has accepted and the     *)
(* request to the aggregator was made.  That the aggregator has it is not  *)
(* promised: the request may be lost and the workers work all the same.    *)
WorkersAfterAcceptance ==
  \A t \in Tasks, n \in Workers :
    t \in waiting[n] \/ sending[t][n] > 0 \/ executed[t][n] > 0 =>
      /\ aggSent[t] > 0
      /\ \A s \in Subtasks : subtask[t][s] \notin {"none", "empty"}

(* A task that a sub-node rejected is never dispatched.  Not so if the pod  *)
(* cache knows the pod of a sub-coordinator when the task arrives: that    *)
(* subtask counts as accepted before the sub-coordinator has answered.     *)
RejectedNeverDispatched ==
  \A t \in Tasks : status[t] = "rejected" => aggSent[t] = 0 /\ answered[t] = 0

(* What keeps the scheduler of a worker busy: a subtask on its way to the  *)
(* pod or running there, or its report not yet collected.                  *)
Serving(n) ==
  \/ \E t \in Tasks : sending[t][n] > 0 \/ atPod[t][n] > 0
  \/ \E m \in net : m.type = "report" /\ m.from = n
  \/ \E h \in handlers : h.request.from = n /\ h.pc \in {"save", "setIdle"}

(* A scheduler that is busy for no reason has lost a request to its pod.   *)
BusyHasCause == \A n \in Workers : idle[n] \/ Serving(n) \/ lost[n] > 0

(* Without repeated and lost requests a scheduler is busy exactly while    *)
(* its pod serves a subtask, and then a single one.                        *)
BusyExactlyWhenServing ==
  \A n \in Workers :
    /\ idle[n] <=> ~ Serving(n)
    /\ \A t, u \in Tasks :
         (sending[t][n] + atPod[t][n] > 0 /\ sending[u][n] + atPod[u][n] > 0) =>
           t = u /\ sending[t][n] + atPod[t][n] = 1

(* A subtask is in one place at a time and served once: it waits in the    *)
(* queue, is on its way, runs, or was executed.                            *)
ServedOnce ==
  \A t \in Tasks, n \in Workers :
    (IF t \in waiting[n] THEN 1 ELSE 0) + sending[t][n] + atPod[t][n] + executed[t][n] <= 1

(* A subtask that is done is never taken for incomplete again.             *)
NeverBackToIncomplete ==
  [][\A t \in Tasks, s \in Subtasks : subtask[t][s] = "done" => subtask'[t][s] = "done"]_vars

(* A task that arrives is done, with its response recorded, or rejected or *)
(* failed.                                                                 *)
TaskCompletes ==
  \A t \in Tasks : status[t] = "pending" ~>
    (status[t] \in {"rejected", "failed"} \/ (status[t] = "done" /\ answered[t] > 0))
=============================================================================
