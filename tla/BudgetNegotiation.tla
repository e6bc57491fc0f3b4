------------------------- MODULE BudgetNegotiation -------------------------
(***************************************************************************)
(* Negotiation of a task's queueing budget between the coordinator that    *)
(* received it and the neighbor coordinators that take a share of it.      *)
(*                                                                         *)
(* Blocking: the neighbors are asked for their latency distribution (CDF)  *)
(* first; those that answer with one then get the task with its budget.    *)
(* Non-blocking: the task goes out at once and waits in the shadow queues  *)
(* of all coordinators; when every neighbor has reported its CDF the       *)
(* budget is computed and the same task is sent again to confirm it, which *)
(* moves it to the main queues.                                            *)
(*                                                                         *)
(* Provisioning (module TaskLife) is abstracted to its outcome, at any     *)
(* time: the task is accepted, or never is, because the node has no        *)
(* aggregator or no worker for it or a worker does not acknowledge it.     *)
(* Each coordinator has one worker's queue, of which only the two sets and *)
(* the index matter here (module STQueue).  Requests may be repeated by    *)
(* their sender for want of an answer, or given up.                        *)
(***************************************************************************)
EXTENDS Integers, FiniteSets

CONSTANTS
  Tasks,
  Mechanisms,   \* queueing mechanisms that a task may ask for
  Neighbors,    \* eligible neighbors of every task
  self,         \* the coordinator that receives the tasks
  MaxRepeats,   \* bound of the model: requests repeated in a behaviour
  MaxLost       \* bound of the model: requests given up in a behaviour

ASSUME BudgetNegotiationAssumption ==
  /\ Mechanisms \subseteq {"DDL_CDF_Block", "DDL_CDF_NonBlock"}
  /\ self \notin Neighbors
  /\ MaxRepeats \in Nat /\ MaxLost \in Nat

Coordinators == Neighbors \cup {self}

VARIABLES
  mech,       \* queueing mechanism of each task
  phase,      \* where the task's goroutine is at the initiator
  responses,  \* BudgetNegotiationResponseCache.Responses
  cacheSet,   \* tasks with a BudgetNegotiationCache in the task cache
  net,        \* requests on their way
  handlers,   \* tasks being evaluated at a neighbor
  known,      \* task cache of each neighbor: the phase the task came with
  main,       \* copies of the task's subtask in each main queue
  shadow,     \* tasks in each shadow queue
  indexed,    \* ItemsInQueue of each queue
  served,     \* times the subtask was dequeued
  missed,     \* history: tasks whose confirmation found nothing to confirm
  dropped,    \* history: neighbors that will not answer: a request lost
              \* or refused, the task not accepted there
  repeated,   \* requests repeated so far
  lost        \* requests lost so far

queueVars == <<main, shadow, indexed, served, missed>>
netVars == <<net, dropped, repeated, lost>>
cacheVars == <<responses, cacheSet>>
vars == <<mech, phase, cacheVars, netVars, handlers, known, queueVars>>

Request(type, t, n, ph) == [type |-> type, task |-> t, node |-> n, phase |-> ph, copy |-> 0]

(* With a single eligible neighbor there is nothing to negotiate. *)
Negotiation(t) == IF Cardinality(Neighbors) = 1 THEN "DDL_None" ELSE mech[t]
-----------------------------------------------------------------------------
(* Variant of Enqueue: the confirmed item is left in the shadow queue.      *)
Enqueue_keeps_shadow(c, t, target, mechanism) ==
  /\ IF t \in indexed[c]
     THEN main' = [main EXCEPT ![c][t] = IF target = "main" THEN @ + 1 ELSE @]
          /\ UNCHANGED <<shadow, indexed>>
     ELSE /\ indexed' = [indexed EXCEPT ![c] = @ \cup {t}]
          /\ main' = IF target = "main" THEN [main EXCEPT ![c][t] = @ + 1] ELSE main
          /\ shadow' = IF target = "shadow" THEN [shadow EXCEPT ![c] = @ \cup {t}] ELSE shadow
  /\ UNCHANGED missed

(* A subtask is put into the queue of coordinator c: see module STQueue.   *)
Enqueue(c, t, target, mechanism) ==
  IF target = "main" /\ mechanism = "DDL_CDF_NonBlock"
  THEN IF t \in indexed[c]
       THEN /\ main' = [main EXCEPT ![c][t] = @ + 1]
            /\ shadow' = [shadow EXCEPT ![c] = @ \ {t}]
            /\ UNCHANGED <<indexed, missed>>
       ELSE /\ missed' = [missed EXCEPT ![c] = IF served[c][t] = 0 THEN @ \cup {t} ELSE @]
            /\ UNCHANGED <<main, shadow, indexed>>
  ELSE IF t \in indexed[c]
       THEN UNCHANGED <<main, shadow, indexed, missed>>
       ELSE /\ indexed' = [indexed EXCEPT ![c] = @ \cup {t}]
            /\ main' = IF target = "main" THEN [main EXCEPT ![c][t] = @ + 1] ELSE main
            /\ shadow' = IF target = "shadow" THEN [shadow EXCEPT ![c] = @ \cup {t}] ELSE shadow
            /\ UNCHANGED missed

(* The shadow queue serves only when the main queue is empty. *)
Dequeue(c, t) ==
  /\ \/ main[c][t] > 0 /\ main' = [main EXCEPT ![c][t] = @ - 1] /\ UNCHANGED shadow
     \/ /\ \A u \in Tasks : main[c][u] = 0
        /\ t \in shadow[c]
        /\ shadow' = [shadow EXCEPT ![c] = @ \ {t}]
        /\ UNCHANGED main
  /\ indexed' = [indexed EXCEPT ![c] = @ \ {t}]
  /\ served' = [served EXCEPT ![c][t] = @ + 1]
  /\ UNCHANGED <<mech, phase, cacheVars, netVars, handlers, known, missed>>

(* The queue a subtask goes to, and whether its task is only confirmed.    *)
TargetQueue(mechanism, ph, isConfirming) ==
  IF ~ isConfirming /\ mechanism = "DDL_CDF_NonBlock" /\ ph # "confirm" THEN "shadow" ELSE "main"
-----------------------------------------------------------------------------
Init ==
  /\ mech \in [Tasks -> Mechanisms]
  /\ phase = [t \in Tasks |-> "new"]
  /\ responses = [t \in Tasks |-> [n \in Neighbors |-> "none"]]
  /\ cacheSet = {}
  /\ net = {} /\ repeated = 0 /\ lost = 0
  /\ dropped = [t \in Tasks |-> {}]
  /\ handlers = {}
  /\ known = [n \in Neighbors |-> [t \in Tasks |-> "absent"]]
  /\ main = [c \in Coordinators |-> [t \in Tasks |-> 0]]
  /\ shadow = [c \in Coordinators |-> {}]
  /\ indexed = [c \in Coordinators |-> {}]
  /\ served = [c \in Coordinators |-> [t \in Tasks |-> 0]]
  /\ missed = [c \in Coordinators |-> {}]

Advance(t, ph) == phase' = [phase EXCEPT ![t] = ph]

(* The initiator gets a task: the blocking negotiation asks the neighbors, *)
(* otherwise all of them are saved in the task and it is run right away.   *)
evaluateCollaborativeTasks(t) ==
  /\ phase[t] = "new"
  /\ IF Negotiation(t) = "DDL_CDF_Block"
     THEN /\ responses' = [responses EXCEPT ![t] = [n \in Neighbors |-> "pending"]]
          /\ Advance(t, "asking")
     ELSE Advance(t, "accepted") /\ UNCHANGED responses
  /\ UNCHANGED <<mech, cacheSet, netVars, handlers, known, queueVars>>

(* NeighborInquiry answers with a CDF, or none when it has no worker pod;  *)
(* an inquiry that fails counts as answered without a CDF.                 *)
inquiryBudget(t, n) ==
  /\ phase[t] = "asking" /\ responses[t][n] = "pending"
  /\ \E r \in {"cdf", "nil"} : responses' = [responses EXCEPT ![t][n] = r]
  /\ UNCHANGED <<mech, phase, cacheSet, netVars, handlers, known, queueVars>>

(* Variant of AllAnswered: stops looking at the first answer.               *)
AllAnswered_first_hit(t) == \E n \in Neighbors : responses[t][n] # "pending"

(* Variant of AllAnswered: an answer without a CDF does not count.          *)
AllAnswered_all_cdf(t) == \A n \in Neighbors : responses[t][n] = "cdf"

AllAnswered(t) == \A n \in Neighbors : responses[t][n] # "pending"

CallbackOfNegotiation(t) ==
  /\ phase[t] = "asking" /\ AllAnswered(t)
  /\ Advance(t, "accepted")
  /\ UNCHANGED <<mech, cacheVars, netVars, handlers, known, queueVars>>

(* Variant of NeighborNodes: the coordinator itself is not left out.        *)
NeighborNodes_with_self(t) == Coordinators

(* The neighbors saved in the task, to whom it is dispatched. *)
NeighborNodes(t) ==
  IF Negotiation(t) = "DDL_CDF_Block"
  THEN {n \in Neighbors : responses[t][n] = "cdf"} ELSE Neighbors

PhaseOf(t, isConfirming) ==
  IF Negotiation(t) # "DDL_CDF_NonBlock" THEN "none"
  ELSE IF isConfirming THEN "confirm" ELSE "inquiry"

dispatchNeighborTask(t, isConfirming) ==
  net' = net \cup {Request("task", t, n, PhaseOf(t, isConfirming)) : n \in NeighborNodes(t)}

(* The initiator's own provisioning fails: the task gets no further.       *)
RejectOwn(t) ==
  /\ phase[t] = "accepted"
  /\ Advance(t, "rejected")
  /\ UNCHANGED <<mech, cacheVars, netVars, handlers, known, queueVars>>

(* checkTaskStatus of the accepted task at the initiator: requests to the  *)
(* neighbors go out, then the cache for their answers is published, then   *)
(* the initiator's own subtask is enqueued.                                *)
DispatchToNeighbors(t) ==
  /\ phase[t] = "accepted"
  /\ dispatchNeighborTask(t, FALSE)
  /\ IF Negotiation(t) = "DDL_CDF_NonBlock"
     THEN /\ responses' = [responses EXCEPT ![t] = [n \in Neighbors |-> "pending"]]
          /\ Advance(t, "publish")
     ELSE Advance(t, "enqueue") /\ UNCHANGED responses
  /\ UNCHANGED <<mech, cacheSet, dropped, repeated, lost, handlers, known, queueVars>>

SetBudgetNegotiationCache(t) ==
  /\ phase[t] = "publish"
  /\ cacheSet' = cacheSet \cup {t}
  /\ Advance(t, "enqueue")
  /\ UNCHANGED <<mech, responses, netVars, handlers, known, queueVars>>

EnqueueOwn(t) ==
  /\ phase[t] = "enqueue"
  /\ Enqueue(self, t, TargetQueue(Negotiation(t), PhaseOf(t, FALSE), FALSE), Negotiation(t))
  /\ Advance(t, IF Negotiation(t) = "DDL_CDF_NonBlock" THEN "waiting" ELSE "done")
  /\ UNCHANGED <<mech, cacheVars, netVars, handlers, known, served>>

(* The budget is computed and the task evaluated once more: it exists, so  *)
(* this confirms it to the neighbors and in the initiator's own queue.     *)
CheckBudgetNegotiationCache(t) ==
  /\ phase[t] = "waiting" /\ AllAnswered(t)
  /\ dispatchNeighborTask(t, TRUE)
  /\ Advance(t, "confirm")
  /\ UNCHANGED <<mech, cacheVars, dropped, repeated, lost, handlers, known, queueVars>>

ConfirmOwn(t) ==
  /\ phase[t] = "confirm"
  /\ Enqueue(self, t, TargetQueue(Negotiation(t), "confirm", TRUE), Negotiation(t))
  /\ Advance(t, "done")
  /\ UNCHANGED <<mech, cacheVars, netVars, handlers, known, served>>

(* CollectCDF: an answer that comes before the cache is published is       *)
(* refused.                                                                *)
CollectCDF(m) ==
  /\ m.type = "cdf"
  /\ IF m.task \in cacheSet
     THEN /\ responses' = [responses EXCEPT ![m.task][m.node] = "cdf"]
          /\ UNCHANGED dropped
     ELSE /\ dropped' = [dropped EXCEPT ![m.task] = @ \cup {m.node}]
          /\ UNCHANGED responses
  /\ UNCHANGED <<mech, phase, cacheSet, handlers, known, queueVars>>
-----------------------------------------------------------------------------
Handler(m, pc) == [task |-> m.task, node |-> m.node, phase |-> m.phase, copy |-> m.copy, pc |-> pc]

Goto(h, pc) == handlers' = (handlers \ {h}) \cup {[h EXCEPT !.pc = pc]}
Return(h) == handlers' = handlers \ {h}

(* TaskReceiver at a neighbor; evaluateAggregativeTasks looks whether the  *)
(* task exists.                                                            *)
TaskReceiver(m) ==
  /\ m.type = "task"
  /\ handlers' = handlers \cup
       {Handler(m, IF known[m.node][m.task] = "absent" THEN "cache" ELSE "confirm")}
  /\ UNCHANGED <<mech, phase, cacheVars, dropped, known, queueVars>>

(* Variant of CacheTask: the CDF is reported before the subtask is queued.  *)
CacheTask_reports_early(h) ==
  /\ h.pc = "cache"
  /\ known' = [known EXCEPT ![h.node][h.task] = IF @ = "absent" THEN h.phase ELSE @]
  /\ net' = net \cup {[Request("cdf", h.task, h.node, "none") EXCEPT !.copy = h.copy]}
  /\ Goto(h, "enqueue")
  /\ UNCHANGED <<mech, phase, cacheVars, dropped, repeated, lost, queueVars>>

CacheTask(h) ==
  /\ h.pc = "cache"
  /\ known' = [known EXCEPT ![h.node][h.task] = IF @ = "absent" THEN h.phase ELSE @]
  /\ Goto(h, "enqueue")
  /\ UNCHANGED <<mech, phase, cacheVars, netVars, queueVars>>

(* A neighbor without an aggregator rejects the task before it has cached  *)
(* it, one without nodes or workers afterwards; one whose worker does not  *)
(* acknowledge the task never accepts it.  The rejection goes up to the    *)
(* neighbor's own upper node: the initiator hears of none of these.        *)
RejectTask(h) ==
  /\ h.pc \in {"cache", "enqueue"}
  /\ dropped' = [dropped EXCEPT ![h.task] = @ \cup {h.node}]
  /\ Return(h)
  /\ UNCHANGED <<mech, phase, cacheVars, net, repeated, lost, known, queueVars>>

(* Accepted at last; a CDF is owed to the initiator. *)
EnqueueAccepted(h) ==
  /\ h.pc = "enqueue"
  /\ Enqueue(h.node, h.task,
             TargetQueue(Negotiation(h.task), known[h.node][h.task], FALSE), Negotiation(h.task))
  /\ IF Negotiation(h.task) = "DDL_CDF_NonBlock" THEN Goto(h, "report") ELSE Return(h)
  /\ UNCHANGED <<mech, phase, cacheVars, netVars, known, served>>

ReportCDFtoInitiator(h) ==
  /\ h.pc = "report"
  /\ net' = net \cup {[Request("cdf", h.task, h.node, "none") EXCEPT !.copy = h.copy]}
  /\ Return(h)
  /\ UNCHANGED <<mech, phase, cacheVars, dropped, repeated, lost, known, queueVars>>

(* The task exists, whatever phase the request is of. *)
EnqueueConfirmed(h) ==
  /\ h.pc = "confirm"
  /\ Enqueue(h.node, h.task, TargetQueue(Negotiation(h.task), h.phase, TRUE), Negotiation(h.task))
  /\ Return(h)
  /\ UNCHANGED <<mech, phase, cacheVars, netVars, known, served>>
-----------------------------------------------------------------------------
Receive(m) ==
  /\ CollectCDF(m) \/ TaskReceiver(m)
  /\ \/ net' = net \ {m} /\ UNCHANGED repeated
     \/ /\ repeated < MaxRepeats
        /\ repeated' = repeated + 1
        /\ net' = (net \ {m}) \cup {[m EXCEPT !.copy = @ + 1]}
  /\ UNCHANGED lost

(* The sender gives up, and nobody looks at its error. *)
Lose(m) ==
  /\ lost < MaxLost
  /\ lost' = lost + 1
  /\ net' = net \ {m}
  /\ dropped' = [dropped EXCEPT ![m.task] = @ \cup {m.node}]
  /\ UNCHANGED <<mech, phase, cacheVars, repeated, handlers, known, queueVars>>

Proceed(h) ==
  \/ CacheTask(h) \/ RejectTask(h) \/ EnqueueAccepted(h)
  \/ ReportCDFtoInitiator(h) \/ EnqueueConfirmed(h)

Initiate(t) ==
  \/ CallbackOfNegotiation(t) \/ RejectOwn(t) \/ DispatchToNeighbors(t)
  \/ SetBudgetNegotiationCache(t) \/ EnqueueOwn(t) \/ CheckBudgetNegotiationCache(t) \/ ConfirmOwn(t)
  \/ \E n \in Neighbors : inquiryBudget(t, n)

Next ==
  \/ \E t \in Tasks : evaluateCollaborativeTasks(t) \/ Initiate(t)
  \/ \E m \in net : Receive(m) \/ Lose(m)
  \/ \E h \in handlers : Proceed(h)
  \/ \E c \in Coordinators, t \in Tasks : Dequeue(c, t)

Spec == Init /\ [][Next]_vars

(* Goroutines and handlers run on, and what is not lost arrives.  That a   *)
(* task is accepted is not among it: to be rejected is as good a step.     *)
Fairness ==
  /\ \A t \in Tasks : WF_vars(Initiate(t))
  /\ WF_vars(\E m \in net : Receive(m))
  /\ WF_vars(\E h \in handlers : Proceed(h))
  /\ \A c \in Coordinators, t \in Tasks : WF_vars(Dequeue(c, t))

FairSpec == Spec /\ Fairness
-----------------------------------------------------------------------------
Phases == {"none", "inquiry", "confirm"}

(* Type invariant. *)
TypeOK ==
  /\ mech \in [Tasks -> Mechanisms]
  /\ phase \in [Tasks -> {"new", "asking", "accepted", "publish", "enqueue", "waiting",
                          "confirm", "done", "rejected"}]
  /\ responses \in [Tasks -> [Neighbors -> {"none", "pending", "cdf", "nil"}]]
  /\ cacheSet \subseteq Tasks
  /\ net \subseteq [type : {"task", "cdf"}, task : Tasks, node : Neighbors, phase : Phases,
                    copy : 0 .. MaxRepeats]
  /\ handlers \subseteq [task : Tasks, node : Neighbors, phase : Phases, copy : 0 .. MaxRepeats,
                         pc : {"cache", "enqueue", "report", "confirm"}]
  /\ known \in [Neighbors -> [Tasks -> Phases \cup {"absent"}]]
  /\ main \in [Coordinators -> [Tasks -> Nat]]
  /\ shadow \in [Coordinators -> SUBSET Tasks]
  /\ indexed \in [Coordinators -> SUBSET Tasks]
  /\ served \in [Coordinators -> [Tasks -> Nat]]
  /\ missed \in [Coordinators -> SUBSET Tasks]
  /\ dropped \in [Tasks -> SUBSET Neighbors]
  /\ repeated \in 0 .. MaxRepeats
  /\ lost \in 0 .. MaxLost

(* No subtask of a negotiated task is in a main queue before every         *)
(* neighbor has answered, so none is queued with a budget that is not      *)
(* final: not at the initiator and not at a neighbor.                      *)
MainOnlyWhenNegotiated ==
  \A c \in Coordinators, t \in Tasks :
    main[c][t] > 0 /\ Negotiation(t) # "DDL_None" =>
      /\ phase[t] \notin {"new", "asking", "accepted", "publish", "waiting", "rejected"}
      /\ \A n \in Neighbors : responses[t][n] # "pending"

(* A confirmation that finds no entry in the index comes for a subtask     *)
(* that was dispatched already, as the queue's code supposes.              *)
ConfirmMissMeansServed == \A c \in Coordinators : missed[c] = {}

(* Nobody serves its share of a task twice, whether it was dispatched      *)
(* while tentative, confirmed in time or confirmed too late.               *)
ServedOnce == \A c \in Coordinators, t \in Tasks : served[c][t] <= 1

Pending(t) == {n \in Neighbors : responses[t][n] = "pending"}

(* A negotiation ends, unless the initiator itself rejects the task: a     *)
(* blocking one whatever the neighbors do, a non-blocking one unless it    *)
(* waits for neighbors each of which has dropped the task or of whom a     *)
(* request was lost or refused.  For those it waits forever, since nobody  *)
(* tells the initiator.                                                    *)
NegotiationEnds ==
  \A t \in Tasks :
    phase[t] # "new" ~>
      \/ phase[t] \in {"done", "rejected"}
      \/ /\ mech[t] = "DDL_CDF_NonBlock" /\ phase[t] = "waiting"
         /\ Pending(t) # {} /\ Pending(t) \subseteq dropped[t]
=============================================================================
