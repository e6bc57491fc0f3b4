# A formal model of JADE

JADE spreads *aggregative tasks* over a tree of nodes.  A coordinator gives a
share of a task (a *subtask*) to each sub-node that is needed, an aggregator pod
of the coordinator gathers the partial results, and the task is done when all
have reported.  Coordinators of one level may be *neighbors* that take a share of
one another's tasks under a negotiated queueing budget.  Nodes find each other by
registering their capabilities up the tree and at registries; statistics of the tasks
feed a control loop that scales the pods.  These TLA+ modules model the concurrent core
of the program; TLC checks them on small instances, and TLAPS proves the safety of the
queue, of a task's life, of budget negotiation, of discovery, of the control loop, of the
histogram, of the history of tasks and of the event pipe for every instance.

`PROJECT.json` says for every definition which lines it stands for, and for every
run, property and finding what it is about.

## Inventory

| Component | State it keeps | Operations | Hard behaviour |
|---|---|---|---|
| subtask queue (`scheduler/subtask-queue.go`) | main and shadow queue, index of keys, dequeue clock | `Enqueue`, `Dequeue`, `Clean`, each under a mutex | index and two queues must agree; late or repeated confirmation; wrap of the clock; binary search |
| task cache (`scheduler/task-cache-*.go`) | status of tasks and subtasks, negotiation caches, traces | `CacheTaskForSubnode`, `CheckTask`, `SetTaskStatus`, `SaveResultFromApp`, `RejectTask`, `FailTask`, `SetBudgetNegotiationCache`, ... | check and update in separate critical sections; statuses set back |
| pod cache (`scheduler/pod-cache.go`) | schedulers of nodes with pods, queue and `IsIdle` | `SetPodForApplication`, `SetPodBusy/Idle`, replica changes, statistics | `IsIdle` written without the mutex; busy for ever after a lost request |
| task provisioning (`background-downstream-task-provisioning-*.go`) | none of its own | `evaluateAggregativeTasks`, forwarding, acknowledging | a task that exists is taken for a confirmation |
| task dispatching (`background-downstream-task-dispatcher-*.go`) | none of its own | `checkTaskStatus`, `routineForSTQueues`, `dispatchSubtask`, `dispatchNeighborTask` | goroutines; ignored errors; endless wait for neighbors |
| upstream handlers (`interfaces-control-upstream.go`, `interfaces-data-upstream.go`) | none of their own | `CollectProvisioning`, `CollectAppMsg`, registration | handlers interleave; requests are repeated |
| task entrance and negotiation (`interfaces-*-horizontal.go`, `background-horizontal-negotiate.go`) | responses of neighbors | `TaskReceiver`, inquiry, `CollectCDF`, callback | answer before its cache is published; lost answer |
| discovery (`kernel/cache-*.go`, `background-control-plane.go`, `background-upstream-register.go`) | capability caches of subnodes and of neighbors, node records, eligible neighbors | register with each heartbeat, select nodes, look them up, pass control plane tasks on | selection in two critical sections and look-up in a third; entries that are never removed; nodes that wait for each other |
| histogram (`histogram/*.go`) | ordered tree with counts, window, percentile points, buckets | `Enqueue`, `Dequeue`, searches | pointer surgery; points that follow deleted nodes |
| performance statistics (`perfstat/*.go`) | list of tasks and matrices per category, pipe of event matrices, cumulative vectors | record arrival and response, expire, tick, change a window | two structures that must tell the same history; unsigned clock differences; slices that grow back |
| resource control loop (`resource_manager/*.go`) | performance messages, actions in flight, resource cache | append, decide, send, execute | lost messages; lock taken twice; actions never timed out |
| administration (`interfaces-admin.go`) | settings | set, clear, clean queues | caches cleared while tasks run |
| node core, tracing, container platform, distributions | | | wiring, I/O, formatting, random numbers |

How they interact: a task enters at `TaskReceiver`; provisioning caches it
(task cache) and asks sub-nodes over HTTP; `CollectProvisioning` caches their
pods (task cache, then pod cache) and checks whether all have accepted;
`checkTaskStatus` tells the aggregator and enqueues the workers' subtasks; the
routine for the queues takes them out when a scheduler is idle and sends them to
pods; `CollectAppMsg` saves results, frees the scheduler, checks for completion
and feeds the histograms and statistics.  Each cache has one mutex; a handler
takes and releases several in turn, so handlers interleave between critical
sections.  Beside that path, each node registers at its upper node and its registry
with every heartbeat; control plane tasks make it ask the registry for eligible
neighbors.  The statistics append messages to the control loop, whose actions go to
the queue's node and come back as reports, over the administration handlers.

Properties that make each part correct: the queue holds what is indexed, once,
and serves confirmed before tentative; a task is dispatched after every
acceptance and answered after every result; a scheduler is busy only while it
serves; no subtask runs under a budget that is not final; a negotiation ends, or the
neighbors it waits for have dropped the task;
the histogram stays an ordered and correctly counted image of its window; a list of
eligible neighbors holds only nodes that registered what is asked for, at one time or
another; what a worker
can do reaches the registry; a task that leaves the history is found in its category;
hits, violations and task counts that are carried along are those of what is there; no
application is scaled
while an older action for it is under way.

## Modules

| Module | Models | State and actions in the code |
|---|---|---|
| `SubtaskPool` | what a queue promises: two sets, `Accept`, `Confirm`, `HandOut`, `Drop` | abstract specification |
| `STQueue` | the subtask queue | `MainQueue`, `ShadowQueue`, `ItemsInQueue`, `dequeueClock` as in `STQueue`; one action per method, split by the queue it works on |
| `MCSTQueueOrder`, `MCSTQueue` | extend `STQueue` with the reference definition of the search's place, and with the two mixes of calls of the run | properties and bounds only |
| `STQueue_proofs` | theorems about `STQueue` | |
| `TaskLife` | a coordinator's tasks from arrival to response | `status` and `subtask` are the task cache, `known`, `waiting`, `idle` the pod cache; each critical section of a handler is an action, `handlers` holds where each handler is; `informed` and `expected` say what reached the aggregator |
| `TaskLife_proofs` | theorems about `TaskLife` | |
| `BudgetNegotiation` | an initiator and its neighbors | `responses`, `cacheSet` are the negotiation cache; `main`, `shadow`, `indexed` the queue of each coordinator; the initiator's goroutine is `phase`; a history variable, `dropped`, holds the neighbors that will not report |
| `BudgetNegotiation_proofs` | theorems about `BudgetNegotiation` | |
| `Discovery` | capabilities, registration, eligible neighbors, control plane tasks | `subCaps`, `neiCaps` are the capability caches; `beat` a registration under way, `routine` the start of the queue routine, `tasks` the copies of a control plane task by the way they came, with the place in `discoverNeighbors`: `SelectNodesExclusively`, `SelectNodesCollectively` and the look-up are three steps |
| `MCDiscovery`, `Discovery_proofs` | constants of the run; theorems | |
| `TaskWindow` | the history of tasks and their categories | `TaskList` is the doubly linked list, `TaskCategories` the matrices; the daemon's expiry is `TaskDaemon`; names that `EventPipe` has too are prefixed |
| `EventPipe` | the pipe of performance events | `Pipe` and `length` are a Go slice with what lies behind its length, `CumulativeVector` the carried sum |
| `MCStatistics` | `EventPipe`, `TaskWindow` and `Histogram` in one run, one at a time | `part` says which |
| `PerfStatistics_proofs` | theorems about `TaskWindow`, `EventPipe` and `MCStatistics` | |
| `Induction` | induction and recursion over the natural numbers, stated of sets and functions; used by the proofs | |
| `ControlLoop` | the master's control loop and the nodes that execute its actions | `appending` and `daemon` are the local variables of the goroutines that race for `PerfMessageBuffer`; `starting`, `sending`, `requests`, `executing` say where each action is |
| `MCControlLoop`, `ControlLoop_proofs` | the four mixes of the run; theorems | |
| `HistogramTree` | the tree of a histogram as operators from tree to tree | `child`, `next`, `parent`, `height`, `count`, `dup` are the fields of `HistogramItem`; `LeftRotate` and `RightRotate` are one operator with a side |
| `Histogram` | window, extremes and percentile points | one action, `Enqueue`, with the dequeues it makes, all under one mutex; the two loops that move a point are recursive functions over their rounds (`SmallerRound`, `LargerRound`, `Walked`) |
| `Histogram_proofs` | theorems about `HistogramTree` and `Histogram` | |

Definitions with a suffix and the comment "variant" are ways the code could have
gone wrong; each shows that one property of one run can tell it from the code.

Abstractions that matter when reading the modules:

- `STQueue`: an item keeps key, priority, deadline and enqueue time.  A deadline is
  arrival time plus budget, both free, so any value.  `passed` is a history field.
  `dequeueClock` wraps at `MaxInt64`, a parameter.  `Protocol` is what the callers keep
  to: a known mechanism, and a confirmation only once for a subtask.
- `TaskLife`: every task needs every sub-node; a node has one pod.  Provisioning of
  containers, payloads, traces and times are left out.  A request may be delivered and
  repeated, since `HTTPCommunicate` tries again for want of an answer.  The requests of the
  dispatcher may be lost, to a pod and to the aggregator (`SendToPod`, `TellAggregator`),
  since it ignores the error.  A sub-coordinator works only on a task that it accepts; a
  report of a subtask that the cache does not know yet is refused.
- `BudgetNegotiation`: provisioning is an acceptance that may take any time, or none; the
  initiator may reject its own task too.  A neighbor that rejects the task reports upward and
  not to the initiator, which goes on waiting for it; one whose worker never acknowledges does
  the same by doing nothing, and both are `RejectTask`.  The
  budget's value is left out: a task is either confirmed or not.  The coordinator is not
  among its own eligible neighbors.  With one neighbor the code does not negotiate.
- `Histogram`: values are small integers, a percentile is a number of hundredths and
  shares are compared exactly, not in floating point.  Mean, variance, buckets and the
  percentile of a product of histograms are left out.
- `Discovery`: a capability's name and value are one model value.  A registration is
  sent until it is answered and may arrive several times; the registration of the next
  heartbeat carries what the node then advertises.  The contents of a control plane task
  are left out, its requirement, options and TTL are kept.
- `TaskWindow`: a vector is its task's key and a number; times other than the arrival
  are left out.  The clock is unsigned and wraps at `ClockModulus`.
- `EventPipe`: counts of one queue and of the task classes; averages, the environment's
  metrics and snapshots are left out.  What only events without a hit count (finished
  services, and `MaximumResponseCount`, `ExceedingTaskSLOCount` and both of a queue that a task
  struggled with) is the field `extra`.
- `ControlLoop`: a message says only which threshold it passes; amounts of CPU are left
  out, they decide between outcomes that are chosen freely.  The trace `ActionList`, and
  `Succeeded` and the timeout clock, which nothing sets or reads, are left out.  The
  module is the package against its exported interface: the composed program never
  switches the loop on (no route reaches `OperateAutoScalingSwitch`), and publishes
  messages without an application key and with violation 0.

## Runs

| Run | Question and result |
|---|---|
| `STQueue` | Mix "protocol", callers that confirm a subtask at most once: the two queues and the index agree (`IndexMatchesQueues`), the reported queue length is the number of departures while waiting, across the wrap (`QueueLengthExact`), the queue implements `SubtaskPool` (`ImplementsPool`).  3 keys, 3 mechanisms, `MaxInt64` 3, so that the clock wraps while items wait.  Mix "order", all sort by priority: from a sorted queue the search is never more than one place early (`PlacedAtMostOneEarly`) and keeps equal priorities in order of arrival (`FifoAmongEquals`).  4 keys, 4 priorities, 2 dequeues. |
| `STQueueSorted` | *Violated*: the queue does not stay sorted; 1, 3, 2 are queued as 2, 1, 3. |
| `STQueueIndex` | *Violated* by a repeated confirmation: the subtask is in the main queue twice. |
| `TaskLifeReliable` | Two tasks, two workers whose pods are known, one may fail, nothing repeated or lost: schedulers are busy exactly while they serve, a subtask is in one place and served once, a done subtask stays done, every task ends. |
| `TaskLifeFaulty` | One task, a worker and a sub-coordinator, both unknown at first, acceptance or rejection, one repetition and one loss, to a pod or to the aggregator, a sub-coordinator that may fail: a response only after every subtask ran, workers only after every acceptance and the request to the aggregator, whether or not that arrived (`WorkersAfterAcceptance`), nothing dispatched after a rejection, a scheduler is busy without a cause only when a request was lost. |
| `TaskLifeOverwritten` | *Violated*: two handlers find the task accepted; the second sets a subtask that is done back to running. |
| `BudgetNegotiation` | Both kinds of negotiation, 3 neighbors, one lost request: nothing in a main queue before every neighbor has answered, a late confirmation only for what was dispatched, nothing served twice, and a negotiation ends, or the initiator rejects the task, or it waits, for ever, only for neighbors that dropped the task, never accepted it or whose request was lost or refused (`NegotiationEnds`). |
| `BudgetRepeated` | *Violated*: an inquiry repeated while the neighbor still provisions is taken for the confirmation and finds nothing. |
| `Discovery` | Heartbeats, an administrator's change and a control plane task interleave: the registry answers with all it selected (`SelectedAreAnswered`), listed neighbors have registered all exclusive capabilities in one registration and a collective one in the same or, since a heartbeat may come between the two selections, in another (`ListedNodesEligible`), a coordinator with subnodes gets a queue routine in spite of the unlocked check (`QueueRoutineRuns`), capabilities climb to the registry and stay (`CapabilitiesPropagate`), every control plane task ends although nodes pass it to one another (`ControlPlaneTaskEnds`). |
| `Statistics` | Histogram: every sequence of samples over 6 values through a window of 5, with order, links, heights, counts, extremes, searches and percentile counts.  Tasks: list and categories tell the same history (`WindowMatchesCategories`), a task leaves too early or too late only around the wrap of the clock (`ExpiryRespectsWindow`).  Events: hits, violations and task counts carried along are the sums of what is there and what reslicing took out, and the counts of events without a hit are never more (`CumulativeExact`), and the pipe is in the order of ticks (`PipeInOrder`). |
| `ControlLoop` | Messages race for the buffer while older actions are sent, repeated, executed, reported or lost: no action is issued for an application in action, nor before it has calmed down unless an older action was counted while the daemon judged (`CalmDownKept`); an application in action has actions that explain it (`InActionHasCause`); and it leaves that state unless a report was lost or a node blocked itself (`ActionEnds`). |
| `HistogramPercentile` | *Violated*: when the item of a percentile leaves the window, the point jumps to a larger item whose share exceeds the percentile. |

Bounds.  Queues: three keys are the least for an item before, at and behind the removed
place, four for a search with two levels.  Tasks: two tasks contend for one scheduler; a
third adds another waiter only.  One repeated and one lost request in a behaviour suffice for the
properties about them, which speak of each subtask on its own. Negotiation: with three
neighbors an answer can be outstanding behind one that came and one that was lost; the
run has one task, since tasks meet only in the queues, whose priorities `STQueue` checks
with several.  Histogram: an insertion is made before the overflow is removed, so trees
have up to six nodes: enough for double rotations, for rotations below the root and for
a deleted node whose replacement lies below its child.  Discovery: a worker below a
coordinator whose registry is another coordinator, itself its own registry: the least in
which a capability climbs through a cache on its way and a task returns to where it was;
the coordinator starts without an address; one control plane task that asks for one of two
capabilities exclusively and for the other collectively; in the mix "task" it has TTL up to
2, is passed on in turn or in parallel, and two registrations at a time look for the queue
routine; in the mix "changes" it has TTL 1 and asks either way round while the registry's
capabilities change once, so that a node is selected for the one as it was before and for
the other as it is after.  Tasks: four in two categories and matrices of
two, so that a category spans matrices and the oldest is emptied from behind; a clock of
4, one request sent again (the part "resends" keeps the clock at 1 or below, the part
"aging" sends nothing again).  Events: matrices of two, windows of 2, 8 and 10 against 7
ticks with one event (part "pipe"), so that reslicing shortens the pipe and brings
matrices back, and two events with 4 ticks (part "sums").  Control loop: all cases at
once are too many states, so `MCControlLoop` has four mixes: a second group of actions
after the first has calmed down, with retries; every kind of message, so that two
actions share their key; a group of two actions, one of them for the master itself; two
applications that append and share a node.  `MaxInt64`, `QueueBound`, `MaxRepeats`,
`MaxLost`, `MaxResends`, `MaxTicks`, `MaxEvents`, `ResendClock`, `PipeEvents`,
`SumTicks`, `MaxChanges`, `MaxHandlers`, `MaxClock`, `MaxMessages`, `MaxRequests` and
`OrderDequeues` are the bounds of the models; each is named where it is declared.
`QueueBound` only limits the main queue.

`CHECK_DEADLOCK FALSE` is used where the system comes to rest when all tasks are
done (`TaskLife`, `BudgetNegotiation`), where the clocks, messages and requests of the
bounded run are used up (`ControlLoop`), and where ticks and events are (`Statistics`).

Fairness.  `TaskLife` and `BudgetNegotiation` are weakly fair to running handlers and
goroutines (the Go scheduler), to delivery of what is not lost (`HTTPCommunicate`
repeats), to the routine for the queues (an endless loop that looks at each
scheduler), and to pods that finish what they start.  Arrivals are not fair, nor
is loss.  In `BudgetNegotiation` a handler that provisions goes on to accept or to
reject, and so does the initiator: neither choice is fair by itself.  `TaskCompletes` and
`NegotiationEnds` need all of these: without the routine for the queues a subtask waits
for ever, without the handlers a result is never checked.

`Discovery` is weakly fair to the heartbeat of each node and target (a loop of its own), to
the answer of a registration (`HTTPCommunicate` repeats it), to the two steps that start
the queue routine, and to the copies of control plane tasks, each a goroutine.
Configuration changes and lost task requests are not fair.  `ControlLoop` is weakly fair to the
goroutines: a `SendAction` begins and goes on when its request has failed; a request that
is on its way is handled when the node's mutex is free; a report that can be delivered is
delivered; a handler that has reported ends.  Nothing is assumed of clocks, messages,
the daemon or losses.

## Proofs

`STQueue_proofs` proves, for any sets of keys, priorities, deadlines and mechanisms and any
`MaxInt64` and `QueueBound` allowed by `STQueueAssumption`:

- `TypeCorrect`, `IndexCorrect`, `LengthCorrect`: `Spec` keeps `TypeOK`,
  `IndexMatchesQueues` and `QueueLengthExact`;
- `PoolImplemented`: `Spec` implements `SubtaskPool` under the mapping of each queue
  to its set of keys, from `PoolStep`, which maps each step to one of the pool's
  actions or to a stutter.

The inductive invariant is `QueueInv`.  `QueueLengthExact` speaks only of the item that
was just returned and is not inductive: `QueueInv` adds that for every *waiting* item
the distance from its enqueue time to the clock, counted across the wrap, is the number
of departures it has seen.  `IndexMatchesQueues` is needed in turn, because removing a
key from the shadow queue is the removal of exactly one item only if no key is repeated.
Lemmas state what insertion, head removal and removal of a key do to the keys and to the
entries of a queue; then there is one lemma per action.  There the search's place is used
only through its range: an action has no step for a place outside the queue, where the
code would panic.

The binary search itself is the recursive function that `search_insertion_place` is in
the code: `SearchExists` shows that a function with that body exists, since the bounds
come closer with each call, and `SearchResult` that in a sorted queue it returns the
sorted place or the one before, and for equal values a place behind them all.  Hence
`PlacedAtMostOneEarlyCorrect` and `FifoAmongEqualsCorrect`.  That the queue is sorted is
the properties' own hypothesis: it does not stay so (`STQueueSorted`).

`TaskLife_proofs` proves, for any sets of tasks, nodes and sub-coordinators, any answers
and failures and any number of repeated and lost requests allowed by
`TaskLifeAssumption`, that `Spec` keeps `TypeOK` (`TypeCorrect`),
`ResponseOnlyWhenAllDone` (`ResponseCorrect`), `WorkersAfterAcceptance`
(`WorkersCorrect`) and `BusyHasCause` (`BusyCorrect`).  The second and the third are
not inductive as they stand.  The inductive invariant `Inv` adds

- `RequestInv`: every request, on its way or being handled, is about a task whose
  subtasks all have module entries, and a report comes from a pod that has finished its
  subtask.  A repeated or late report therefore cannot lie;
- `HandlerInv`: what a handler relies on at each place of its code, after the check that
  established it and however much other handlers have done since: when it dispatches,
  every entry is filled; when it enqueues, the request to the aggregator was made,
  whether it arrived or not; when it records,
  every pod has finished;
- `WorkInv`: a subtask that waits, is on its way, runs or has run at a worker belongs to
  a task that was filled and of which the aggregator was sent a request; `ArrivedCached`:
  an absent task has no
  such subtask.  Hence an arriving task resets nothing;
- `DoneInv`: a subtask with status done was finished by its pod.  The converse fails,
  since statuses are set back (`TaskLifeOverwritten`): the argument rests on what only
  grows, entries filled, requests made to the aggregator, subtasks executed (`Keeps`).

One lemma per action proves that it keeps `Inv`; the lemmas before them say what
delivering a request and moving a handler on do to the parts about requests,
handlers and schedulers.

`RejectedCorrect` proves `RejectedNeverDispatched` where no sub-node is a coordinator
(`SubCoordinators = {}`).  Its invariant `RejectInv` says that a task with a rejection, or
a rejection under way, has a sub-node whose entry is empty and of which no acceptance is
under way (`Refusing`); an empty entry is filled only by an acceptance or by the result
of an executed subtask (`SubtasksGrow`); and the aggregator is sent a request only when all are
filled.  With
sub-coordinators the run shows it only where their pods are unknown: a sub-coordinator
whose pod is known is counted as accepted when the task arrives
(`background-downstream-task-provisioning-aggregative.go:413`), and TLC finds a
rejected task dispatched when it is put among `InitiallyKnown`.

`ServedOnceCorrect` and `DoneStaysCorrect` prove `ServedOnce` and `NeverBackToIncomplete`
where the pod cache knows every worker beforehand (`Prepared`), so that a task is accepted
in the action in which it arrives and one handler launches it; requests may be repeated
and lost.  `LaunchInv` says that only reports are sent as requests then, that at most one handler
launches a task, and that until it enqueues the subtasks they are nowhere else;
`ReportInv`, that all reports of a subtask, the repeated ones too, agree, and that a
subtask with a failed one is not done.  `TaskLifeOverwritten` shows that `Prepared` is
needed for `NeverBackToIncomplete`.  `BusyExactlyCorrect` proves `BusyExactlyWhenServing`
if, moreover, nothing is repeated or lost: `SlotInv` says that for each worker at most one
thing is under way that keeps its scheduler busy: a subtask on its way to the pod or
there, its report, or the handler of the report that will free the scheduler.

`BudgetNegotiation_proofs`, for any tasks, neighbors and lost requests: `TypeOK`
(`BudgetTypeCorrect`), and, assuming `MaxRepeats = 0`, `MainOnlyWhenNegotiated`,
`ConfirmMissMeansServed` and `ServedOnce` (`NegotiatedCorrect`, `ConfirmCorrect`,
`OnceCorrect`).  The heart of the invariant is that at most one request or handler is
about a task and a neighbor at a time (`Pair`), so that what it knows of the neighbor's
queue (`MsgInv`, `HandInv`: the queue has not seen the subtask, or holds it tentatively
once) stays true until it acts; `OwnInv` says the same of the initiator's goroutine.
Repeated requests break exactly that, which is what `BudgetRepeated` shows.

`Discovery_proofs`, for any tree of nodes, capabilities, requirements and tasks: `TypeOK`
with the bound on how far a task is passed on, `SelectedAreAnswered`,
`ListedNodesEligible` and `QueueRoutineRuns`.  The invariant `Inv` adds that what a cache
lists a node for at a time is part of *one* registration of it (`Backed`; the lemmas
`SetEffect` and `DeleteEffect` give it for the cache's operations), that who is listed has a record
or is the registry (`Recorded`), and for each stage of a copy what it has selected
(`CopyInv`): after the first selection nodes that have registered the exclusive
capabilities (`CandidateAt`), after the second nodes that have registered a collective one
too, then or at another time (`MeetsAt`).  `QueueRoutineRuns` needs that a started routine runs.

`ControlLoop_proofs`, for any applications, nodes, messages and retries, under
`ControlLoopAssumption`, which excludes that the clock wraps: `TypeOK`,
`InActionHasCause` and `CalmDownKept`.  The invariant `Inv` adds that messages and plans are
of the past, that what is planned has calmed down or was overtaken by a late result
(`PlanCalm`), that every issued action is not newer than its application's status
(`IssuedStarted`, `ConcludedStarted`), and that an action that was sent is cached until
it is counted (`KeysKept`).

`PerfStatistics_proofs`, of `TaskWindow`, for any tasks, tags, length of matrices, modulus of the clock, maxima and
windows allowed by `TaskWindowAssumption`: `WindowMatchesCategories` (`WindowCorrect`) and
`ExpiryRespectsWindow` (`ExpiryCorrect`).  The inductive invariant `Inv` has three parts.

- `TypesInv`: types, also of categories that a repeated request has spoiled; they may
  contain empty matrices, but their task count is still the number of their vectors
  (`Amounting`): an arrival adds one vector, wherever it ends up
  (`OneMorePassed`), and a task that leaves takes one vector out of each matrix that still
  finds its key, and is counted as often (`HitsCounted`).
- `AgreeInv`: for each other category, the list and the matrices agree (`Agrees`): matrices
  are filled, each has the index of its own keys, and their vectors, from the last matrix to
  the first, are the listed ones of the tag in the order of the list; keys tell them apart;
  none is an orphan.  `OrderKept` is why passing on the oldest vector from matrix to matrix
  keeps that order (`ReserveEffect`), and `RemoveEffect` why the task that leaves the
  list is the first vector of the last matrix and found nowhere else.
- `AgeInv`: who is nearer the tail is not younger, counted across the wrap.  The expiry
  property needs it: the daemon stops at the first task that is not expired.

That tasks leave one after the other is a recursive function (`Leaving`), and an induction
along it carries `Agrees` from each list to its tail.

`PerfStatistics_proofs`, of `EventPipe`, for any classes, windows, length of matrices, ticks and events: `TypeOK`,
`CumulativeExact` and `PipeInOrder`.  What makes the invariant `IInv` inductive is that it
speaks of the whole slice, what lies behind the length included, since a change of the
window brings that back: all matrices there are good and in order, and the carried sum
equals the sum over the part within the length and what was taken out (`Balanced`), as a
balance of each count.  Of the hits beyond the length there are never more than the carried sum
has, so that the exception in `Add`, which would lose them, does not bite.  It does bite what
events without a hit count, of which the carried sums are shown to be at most the right ones.
Sums are measured by functions from vectors to numbers (`CountMeasures`, `LowMeasures`); that the daemon moves vectors
from matrix to matrix leaves each measure as it is.

`TypesCorrect` proves `TypesOK` of `MCStatistics`: each part keeps the invariant of its own
specification (`StatisticsInvariance`), to which `SettledInv` adds that maximum, window and
categories are among those there are.

`Histogram_proofs`, for any values, percentiles and size of the window: `TreeOrdered`,
`WindowMatchesTree` and the types (`TreeOrderedCorrect`, `WindowMatchesCorrect`,
`HistogramTypeCorrect`), and, if samples come one at a time (`SampleCounts \subseteq {1}`),
`CountsExact`, `SearchExact` and `TrackedCountExact`.  That hypothesis is needed, since
`NewHistogramItem` gives a new item the count 1 whatever the number of samples.  The windows
of the statistics and of the pod cache meet it (`perfstat/task-category-item.go:115`,
`scheduler/pod-cache.go:192-205`); the histogram made of a CDF (`histogram/cdf.go:44`) does
not.  The inductive invariant `HistogramInv` says that the window is empty or
a `GoodWindow` and that every percentile point is at a node with the right count (`Tracks`).

- *The tree*.  A tree is described with its set of nodes and a function D that gives the
  nodes below each node; `Shaped` says that pointers and D agree and that what is below on
  the left is smaller and on the right larger; `Linked`, that `Smaller` and `Larger` are the
  next nodes in order.  Every step of the code is shown to lead from one D to another: a
  rotation (`RotateKeeps`), the climb of `UpdateHeight`, which rotates on its way
  (`UpdateHeightKeeps`), a new leaf (`InsertKeeps`) and a node that leaves (`DeleteKeeps`).
  A deletion of an inner node is the removal of its neighbor in order, which has one child
  at most (`Spliced`), followed by a change of name (`Renamed`).  Heights are exact but for the nodes that the climb has
  not reached yet (`ExactBut`).
- *The counts*.  The number of the queue's samples with a value in a set (`Among`) adds up
  over disjoint sets; a node's count is its duplications and what its children count, hence
  the number of samples with a value in D of the node.
- *The points*.  A sample that arrives or leaves changes a point's count by what it
  changes the number of samples up to its item (`Adjusted`); a point whose item is deleted
  is moved first; and every round of the walk leads from one item and its count to the
  next ones (`Pointed`, `OnWay`).
- *The searches*.  Each loop of `FindNoLargerThan` runs down one side while the value is there
  (`LastOf`), and what it leaves behind is on the other side of the value (`LastFound`).

`Induction` makes these proofs possible: the library's induction theorems take an operator
as a parameter, which the provers at hand cannot instantiate.  From the well-foundedness
of inclusion among finite sets follow the existence of a smallest member of a set of
numbers, induction for a *set* of numbers up to a bound, and the existence of a
*function* that iterates a step, which is how a recursive function is unfolded.

Only model-checked:

- liveness (`TaskCompletes`, `NegotiationEnds`, `CapabilitiesPropagate`,
  `ControlPlaneTaskEnds`, `ActionEnds`), which is out of the prover's reach, as is whether
  an action is enabled;
- `RejectedNeverDispatched` with sub-coordinators whose pods are unknown
  (`TaskLifeFaulty`).

Where a theorem has a hypothesis (pods known beforehand, nothing repeated, samples one at a
time), the runs meet it too: without it the property is neither proved nor checked, and
`TaskLifeOverwritten` and `BudgetRepeated` show cases in which it fails.

## What the runs do not claim

- `NeverBackToIncomplete` and `TaskCompletes` are checked where all pods are known, so
  that one handler checks a task.  With several handlers the first is violated
  (`TaskLifeOverwritten`), and then the second need not hold.
- A response may be recorded twice when two last reports interleave; the properties
  about responses do not exclude it.
- A sub-coordinator acknowledges a task after it has propagated it, so its result
  may come first; the acknowledgement then resets the status.  This is in `TaskLife`
  and does not violate what is checked, but such a task may stay incomplete.
- The aggregator is told of workers only, not of sub-coordinators; and the request that
  tells it may be lost, unnoticed: the workers then work for an aggregator that does not wait
  for them, and the task may never end.
- A worker whose pods exist may send no acknowledgement at all
  (`background-downstream-task-provisioning-aggregative.go:473`).  `BudgetNegotiation` has
  what it does to a negotiation: the neighbor never accepts, and the initiator waits for
  ever.  In `TaskLife` every sub-node that gets a task answers.
- A neighbor that drops a task, or whose request is lost, keeps a non-blocking initiator
  waiting for ever (`CheckBudgetNegotiationCache`); `NegotiationEnds` says that nothing
  else does.
- The histogram's tree is not balanced as an AVL tree is: an insertion always rotates
  the inner grandchild up, whichever is higher, and a deletion never does.  Heights are
  exact, but the logarithmic bound of the comment above `Enqueue` is not checked.
- Besides `HistogramPercentile`, a deletion of a larger sample with duplications can leave
  a percentile point one item too low, because then only smaller items are looked at.
- A sample that is new to the histogram and enqueued with a number above 1 gets the right
  `Duplications` but the count 1 (`histogram-item.go:34`), so `CumulativeCount` can be too
  small for nodes beyond it.  Only `CDF.Histogram` does that, for the zeros before a CDF's start
  point (`cdf.go:44`); the runs and the theorems about counts enqueue one sample at a time.
- `Discovery`: the list of eligible neighbors is cached for ever
  (`background-control-plane.go:15`), so `ListedNodesEligible` says only that the nodes
  have once registered what is asked for, not that they still have it; nor that they ever had
  exclusive and collective capabilities together, since the cache's mutex is released between
  the two selections (`background-common-utils.go:96-101`).  A capability that
  the administrator adds is not advertised; a capability whose nodes are gone is.
- `TaskWindow`: a request sent again while its first record is listed spoils the counts of
  its category (`task-perf-matrix.go:100`); the property is about the others.  The start
  of the history window is an unsigned difference, so tasks may leave early until the
  clock has passed the window's size.  `SLOExceedingCount` is decremented and never
  incremented, so the violation ratio that is published is always zero.
- `EventPipe`: a window smaller than the last one reslices the pipe, whatever the pipe's
  own length is: that brings old matrices back, or some that were never written, which
  the daemon dereferences (`crashed`); the
  cumulative vector keeps what reslicing dropped; finished services, and how often a queue was
  the slowest of a task, slower than its objective, or both, may be counted too low, even
  below 0, since `Add` returns early when no side has a hit (`perf-event-vector.go:54`) and
  `Minus` does not (lines 87-90).  `CumulativeExact` and `PipeInOrder` are what is left.
- `ControlLoop`: a success can never be reported, because `PhysicallyExecuteAction` holds
  the mutex that `SetPodCPUResource` takes: a node blocks itself at its first scaling, and
  `ActionEnds` excepts it, as it excepts a report that is lost.  An action up and one down
  for the same queue and clock share
  their key.  A status started at clock 0 is never out of the calm down window, so that
  application is not scaled again.  The end of an action of an older group completes
  a newer one, which `CalmDownKept` excepts by `late`.

## Not modelled, and why

Container platform, provisioner, HTTP routing and request decoding (I/O; their
answers are free choices), logger, traces and debugging interfaces (they format
state), `dist.go` (random numbers), the jadesdk library (external).  Of the
administration, clearing caches while tasks run and the settings of the statistics
other than windows and amounts.  Averages, the environment's metrics, snapshots and the
arrival rate of the statistics; amounts of CPU in the resource cache; the horizontal
registration of neighbors beyond their records; the value of a budget; several pods of
one scheduler.

## Plan

Done: `SubtaskPool`, `STQueue`, `TaskLife`, `BudgetNegotiation`, `Discovery`,
`ControlLoop`, `TaskWindow`, `EventPipe`, `HistogramTree`, `Histogram` and their proofs.

Next, in this order:

1. Proofs: which point of the histogram a percentile's walk ends at where the code does
   what its test asserts, that is, after an arrival.
2. Compositions: `TaskLife` with `STQueue` in place of the set `waiting`; the node's own
   handler, which enqueues before `SetPodForApplication`; several pods and replicas of a
   scheduler.
3. The administrator's `Clear` and `Clean` under running tasks, in `TaskLife`.
4. The arrival rate tracker and its daemon beside `TaskWindow`.
5. A finding for the sub-coordinator that is counted as accepted in advance.
