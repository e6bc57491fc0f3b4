----------------------------- MODULE TaskWindow -----------------------------
(***************************************************************************)
(* The history of tasks that a coordinator keeps for one application       *)
(* (perfstat.TaskCategoriesCache).  Every task is in a list in order of    *)
(* arrival, and in the matrices of its category, where its response is     *)
(* looked up by its key.  Tasks leave at the tail of the list when their   *)
(* number exceeds a maximum, or when the daemon finds them older than the  *)
(* history window; each then has to be found again in its category.        *)
(*                                                                         *)
(* A vector is named by its task's key and a number, since a request that  *)
(* is sent again is recorded a second time under the same key.             *)
(***************************************************************************)
EXTENDS Integers, Sequences, FiniteSets, SequencesExt

CONSTANTS
  Tasks,         \* task keys
  Categories,    \* unified tags of tasks
  Tag,           \* the category of each task
  SliceLength,   \* vectors in a matrix
  ClockModulus,  \* 2^64 in the code
  Amounts,       \* values of MaximumTaskAmount; 0 is no maximum
  Windows,       \* values of HistoryTimeWindowSize; 0 is no window
  MaxResends,    \* bound of the model: requests sent again
  Resendable     \* bound of the model: tasks whose requests are sent again

ASSUME TaskWindowAssumption ==
  /\ Tag \in [Tasks -> Categories]
  /\ SliceLength \in Nat \ {0} /\ ClockModulus \in Nat \ {0}
  /\ Amounts \subseteq Nat /\ Windows \subseteq 0 .. ClockModulus - 1
  /\ MaxResends \in Nat /\ Resendable \subseteq Tasks

VARIABLES
  clock,
  MaximumTaskAmount,
  HistoryTimeWindowSize,
  TaskList,        \* from TaskTail to TaskHead, oldest first
  TaskCategories,  \* the categories there are
  resent           \* history: keys recorded again while still listed

windowVars == <<clock, MaximumTaskAmount, HistoryTimeWindowSize, TaskList, TaskCategories, resent>>

TaskVectors == Tasks \X (0 .. MaxResends)
Key(v) == v[1]

(* A matrix: its vectors, oldest first, and its index of keys.             *)
NewMatrix(v) == [vectors |-> <<v>>, keys |-> {Key(v)}]

NewCategory == [matrices |-> <<>>, TaskCount |-> 0]

CategoryOf(cats, c) == IF c \in DOMAIN cats THEN cats[c] ELSE NewCategory
WithCategory(cats, c, item) == [d \in DOMAIN cats \cup {c} |-> IF d = c THEN item ELSE cats[d]]
-----------------------------------------------------------------------------
(* Variant of TaskMatrixEnqueue: the key of what is given up stays indexed.*)
TaskMatrixEnqueue_keeps_key(m, v) ==
  LET longer == Append(m.vectors, v)
      keys == m.keys \cup {Key(v)}
  IN IF Len(longer) <= SliceLength
     THEN [matrix |-> [vectors |-> longer, keys |-> keys], out |-> <<>>]
     ELSE [matrix |-> [vectors |-> Tail(longer), keys |-> keys], out |-> <<Head(longer)>>]

(* Matrix Enqueue and Dequeue: what is enqueued, and what a full matrix    *)
(* gives up for it.                                                        *)
TaskMatrixEnqueue(m, v) ==
  LET longer == Append(m.vectors, v)
      keys == m.keys \cup {Key(v)}
  IN IF Len(longer) <= SliceLength
     THEN [matrix |-> [vectors |-> longer, keys |-> keys], out |-> <<>>]
     ELSE [matrix |-> [vectors |-> Tail(longer), keys |-> keys \ {Key(Head(longer))}],
           out |-> <<Head(longer)>>]

(* The new vector goes into the first matrix, what that gives up into the  *)
(* next, and what the last one gives up into a new one: given[i] is what   *)
(* the i-th gives up, if anything.                                         *)
ReserveForResponse(item, v) ==
  LET ms == item.matrices
      given[i \in 0 .. Len(ms)] ==
        IF i = 0 THEN <<v>>
        ELSE IF given[i - 1] = <<>> THEN <<>>
        ELSE TaskMatrixEnqueue(ms[i], given[i - 1][1]).out
      done == [i \in 1 .. Len(ms) |->
                 IF given[i - 1] = <<>> THEN ms[i]
                 ELSE TaskMatrixEnqueue(ms[i], given[i - 1][1]).matrix]
      end == given[Len(ms)]
  IN  [matrices |-> IF end = <<>> THEN done ELSE Append(done, NewMatrix(end[1])),
       TaskCount |-> item.TaskCount + 1]

Holds(m, k) == k \in m.keys /\ \E i \in DOMAIN m.vectors : Key(m.vectors[i]) = k
FirstOf(m, k) ==
  CHOOSE i \in DOMAIN m.vectors :
    Key(m.vectors[i]) = k /\ \A j \in DOMAIN m.vectors : j < i => Key(m.vectors[j]) # k

RemoveVector(m, k) ==
  IF ~ Holds(m, k) THEN m
  ELSE [vectors |-> RemoveAt(m.vectors, FirstOf(m, k)), keys |-> m.keys \ {k}]

(* All matrices are searched; the last one that held the key is removed    *)
(* when it is empty.                                                       *)
RemoveTask(item, k) ==
  LET hits == {i \in DOMAIN item.matrices : Holds(item.matrices[i], k)}
      left == [i \in DOMAIN item.matrices |-> RemoveVector(item.matrices[i], k)]
      last == CHOOSE i \in hits : \A j \in hits : j <= i
  IN IF hits = {} THEN item
     ELSE [matrices |-> IF left[last].vectors = <<>> THEN RemoveAt(left, last) ELSE left,
           TaskCount |-> item.TaskCount - Cardinality(hits)]

(* UnsafeRemoveTailTask.  A listed task whose category was deleted         *)
(* meanwhile is looked up there, not in a new category of that tag.        *)
Without(cats, entry) ==
  IF entry.orphan THEN cats
  ELSE [cats EXCEPT ![Tag[Key(entry.vector)]] = RemoveTask(@, Key(entry.vector))]

(* The same n times. *)
RemoveTailTasks(list, cats, n) ==
  LET left[i \in 0 .. n] == IF i = 0 THEN cats ELSE Without(left[i - 1], list[i])
  IN  [list |-> SubSeq(list, n + 1, Len(list)), cats |-> left[n]]
-----------------------------------------------------------------------------
WindowInit ==
  /\ clock = 0
  /\ MaximumTaskAmount = 0 /\ HistoryTimeWindowSize = 0
  /\ TaskList = <<>>
  /\ TaskCategories = [c \in {} |-> NewCategory]
  /\ resent = {}

KeysListed == {Key(TaskList[i].vector) : i \in DOMAIN TaskList}

InUse == {TaskList[i].vector : i \in DOMAIN TaskList}
         \cup UNION {UNION {ToSet(TaskCategories[c].matrices[i].vectors) :
                            i \in DOMAIN TaskCategories[c].matrices} : c \in DOMAIN TaskCategories}

Age(entry) == (clock - entry.at) % ClockModulus

(* A task arrives, perhaps for the second time.                            *)
EnqueueArrivalTime(t, n) ==
  LET v == <<t, n>>
      c == Tag[t]
      cats == WithCategory(TaskCategories, c, ReserveForResponse(CategoryOf(TaskCategories, c), v))
      list == Append(TaskList, [vector |-> v, at |-> clock, orphan |-> FALSE])
      excess == IF TaskList # <<>> /\ MaximumTaskAmount > 0 /\ Len(list) > MaximumTaskAmount
                THEN Len(list) - MaximumTaskAmount ELSE 0
      end == RemoveTailTasks(list, cats, excess)
  IN
  /\ n = 0 \/ t \in Resendable
  /\ t \in KeysListed \cup resent => t \in Resendable /\ Cardinality(resent \ {t}) < MaxResends
  /\ v \notin InUse /\ \A m \in 0 .. n - 1 : <<t, m>> \in InUse
  /\ resent' = IF t \in KeysListed THEN resent \cup {t} ELSE resent
  /\ TaskList' = end.list /\ TaskCategories' = end.cats
  /\ UNCHANGED <<clock, MaximumTaskAmount, HistoryTimeWindowSize>>

(* A response is written into the vector that is found by its key, if any; *)
(* in any case its category exists from then on.                           *)
EnqueueResponse(t) ==
  /\ TaskCategories' = WithCategory(TaskCategories, Tag[t], CategoryOf(TaskCategories, Tag[t]))
  /\ UNCHANGED <<clock, MaximumTaskAmount, HistoryTimeWindowSize, TaskList, resent>>

(* Bound of the model: no task is listed through a whole turn of the clock.*)
Tick ==
  /\ \A i \in DOMAIN TaskList : Age(TaskList[i]) < ClockModulus - 1
  /\ clock' = (clock + 1) % ClockModulus
  /\ UNCHANGED <<MaximumTaskAmount, HistoryTimeWindowSize, TaskList, TaskCategories, resent>>

(* Variant of Expired: a task leaves when its age reaches the window.      *)
Expired_early(at) == HistoryTimeWindowSize > 0 /\ at <= (clock - HistoryTimeWindowSize) % ClockModulus

(* Unsigned arithmetic: before the clock has passed the window's size the  *)
(* difference wraps, and nearly everything counts as expired.              *)
Expired(at) ==
  LET w == HistoryTimeWindowSize IN
  /\ w > 0
  /\ \/ at < (clock - w) % ClockModulus
     \/ clock < w /\ at > clock /\ at < (ClockModulus - 1 - w - clock) % ClockModulus

(* The daemon removes expired tasks from the tail and deletes the          *)
(* categories without tasks.  (The average ratios it publishes in between  *)
(* change nothing here.)                                                   *)
TaskDaemon ==
  LET n == CHOOSE n \in 0 .. Len(TaskList) :
             /\ \A i \in 1 .. n : Expired(TaskList[i].at)
             /\ n < Len(TaskList) => ~ Expired(TaskList[n + 1].at)
      end == RemoveTailTasks(TaskList, TaskCategories, n)
      empty == {c \in DOMAIN end.cats : end.cats[c].TaskCount <= 0}
  IN
  /\ UNCHANGED <<clock, MaximumTaskAmount, HistoryTimeWindowSize, resent>>
  /\ TaskCategories' = [c \in DOMAIN end.cats \ empty |-> end.cats[c]]
  /\ TaskList' = [i \in DOMAIN end.list |->
                    IF Tag[Key(end.list[i].vector)] \in empty
                    THEN [end.list[i] EXCEPT !.orphan = TRUE] ELSE end.list[i]]

SetMaximumTaskAmount(a) ==
  /\ MaximumTaskAmount' = a
  /\ UNCHANGED <<clock, HistoryTimeWindowSize, TaskList, TaskCategories, resent>>

SetTaskHistoryTimeWindowSize(w) ==
  /\ HistoryTimeWindowSize' = w
  /\ UNCHANGED <<clock, MaximumTaskAmount, TaskList, TaskCategories, resent>>

Clear ==
  /\ TaskCategories' = [c \in {} |-> NewCategory] /\ TaskList' = <<>>
  /\ resent' = {}
  /\ UNCHANGED <<clock, MaximumTaskAmount, HistoryTimeWindowSize>>

WindowNext ==
  \/ \E t \in Tasks, n \in 0 .. MaxResends : EnqueueArrivalTime(t, n)
  \/ \E t \in Tasks : EnqueueResponse(t)
  \/ Tick \/ TaskDaemon \/ Clear
  \/ \E a \in Amounts : SetMaximumTaskAmount(a)
  \/ \E w \in Windows : SetTaskHistoryTimeWindowSize(w)

WindowSpec == WindowInit /\ [][WindowNext]_windowVars
-----------------------------------------------------------------------------
(* Type invariant. *)
WindowTypeOK ==
  /\ clock \in 0 .. ClockModulus - 1
  /\ MaximumTaskAmount \in Amounts \cup {0} /\ HistoryTimeWindowSize \in Windows \cup {0}
  /\ \A i \in DOMAIN TaskList :
       TaskList[i] \in [vector : TaskVectors, at : 0 .. ClockModulus - 1, orphan : BOOLEAN]
  /\ DOMAIN TaskCategories \subseteq Categories
  /\ \A c \in DOMAIN TaskCategories :
       /\ TaskCategories[c].TaskCount \in Nat
       /\ \A i \in DOMAIN TaskCategories[c].matrices :
            /\ Len(TaskCategories[c].matrices[i].vectors) <= SliceLength
            /\ TaskCategories[c].matrices[i].keys \subseteq Tasks
  /\ resent \subseteq Tasks

Listed(c) == {i \in DOMAIN TaskList : Tag[Key(TaskList[i].vector)] = c}

Older(v, w) ==
  \E i, j \in DOMAIN TaskList : i < j /\ TaskList[i].vector = v /\ TaskList[j].vector = w

(* The list and the matrices tell the same history: a category holds, in   *)
(* order of arrival, exactly the listed tasks of its tag, counts them, and *)
(* finds each by its key; all its matrices but the oldest are filled, or   *)
(* have been emptied from behind.  A request that was sent again while its *)
(* first copy was listed spoils its own category, and no other.            *)
WindowMatchesCategories ==
  \A c \in Categories \ {Tag[t] : t \in resent} :
    LET ms == CategoryOf(TaskCategories, c).matrices
    IN  /\ UNION {ToSet(ms[i].vectors) : i \in DOMAIN ms} = {TaskList[i].vector : i \in Listed(c)}
        /\ \A i, j \in DOMAIN ms : \A a \in DOMAIN ms[i].vectors, b \in DOMAIN ms[j].vectors :
             i > j \/ (i = j /\ a < b) => Older(ms[i].vectors[a], ms[j].vectors[b])
        /\ CategoryOf(TaskCategories, c).TaskCount = Cardinality(Listed(c))
        /\ \A i \in DOMAIN ms :
             ms[i].vectors # <<>> /\ ms[i].keys = {Key(v) : v \in ToSet(ms[i].vectors)}

(* Across the wrap of the clock a task leaves too early only while the     *)
(* clock has not passed the window's size, and stays too long only if it   *)
(* arrived before the wrap, or behind such a task.                         *)
ExpiryStep ==
  TaskDaemon =>
    LET removed == Len(TaskList) - Len(TaskList')
        w == HistoryTimeWindowSize
    IN /\ \A i \in 1 .. removed : w > 0 /\ (Age(TaskList[i]) > w \/ clock < w)
       /\ \A i \in removed + 1 .. Len(TaskList) :
            w > 0 /\ Age(TaskList[i]) > w =>
              \E j \in removed + 1 .. i : TaskList[j].at > clock

ExpiryRespectsWindow == [][ExpiryStep]_windowVars
=============================================================================
