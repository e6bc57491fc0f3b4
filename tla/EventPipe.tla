----------------------------- MODULE EventPipe -----------------------------
(***************************************************************************)
(* The performance events of one application (perfstat.PerfEventMatrixPipe)*)
(* Handlers append events to a buffer.  While the listener is started the  *)
(* daemon turns the buffer into one vector per tick, which enters a pipe   *)
(* of matrices; each matrix and the pipe keep a cumulative vector up to    *)
(* date by adding what comes in and subtracting what goes out.             *)
(*                                                                         *)
(* The pipe is a Go slice: its length shrinks by reslicing, and what lies  *)
(* beyond the length is still there when it is resliced to be longer.  A   *)
(* queue's item is modelled for one queue; averages and the environment's  *)
(* metrics are left out, counts are kept.                                  *)
(***************************************************************************)
EXTENDS Integers, Sequences, FiniteSets

CONSTANTS
  Classes,       \* percentiles, the labels of task classes
  Nil,           \* a slice element that was never written
  MatrixLength,  \* 100 in the code
  WindowSizes,   \* arguments of SetHistoryTimeWindowSize
  MaxTicks,      \* bound of the model: vectors made
  MaxEvents      \* bound of the model: events appended

(* What events without a hit count of a queue: services finished, and that *)
(* it was the slowest of a task (MaximumResponseCount), that it was slower *)
(* than the task's objective allows (ExceedingTaskSLOCount), and both.     *)
Extras == {"success", "maximum", "exceeding", "both"}

(* What is counted of a queue and of the tasks of each class.  `known' says*)
(* whether the vector has an item for the queue.                           *)
Counts ==
  [known : BOOLEAN, hits : Int, violations : Int, extra : [Extras -> Int],
   tasks : [Classes -> Int], exceeding : [Classes -> Int]]

(* The vector of one tick, and a matrix: vectors, oldest first, and what   *)
(* the code carries along as their sum.                                    *)
Vectors ==
  [known : BOOLEAN, hits : Nat, violations : Nat, extra : [Extras -> Nat],
   tasks : [Classes -> Nat], exceeding : [Classes -> Nat], ticks : Nat]
Matrices == [vectors : Seq(Vectors), cumulative : Counts]

ASSUME EventPipeAssumption ==
  /\ Nil \notin Counts \cup Vectors \cup Matrices
  /\ MatrixLength \in Nat \ {0} /\ WindowSizes \subseteq Nat
  /\ MaxTicks \in Nat /\ MaxEvents \in Nat

VARIABLES
  ListenerStarted,
  EventBuffer,
  Pipe,              \* the slice's elements, beyond its length too
  length,            \* len(Pipe)
  PipeLength,        \* 0 is no limit
  CumulativeVector,  \* Nil until the first tick
  ticks,             \* ticks of the daemon
  events,            \* events appended so far
  dropped,           \* history: what reslicing took out of the pipe
  crashed            \* the daemon has dereferenced a nil matrix

vars == <<ListenerStarted, EventBuffer, Pipe, length, PipeLength,
          CumulativeVector, ticks, events, dropped, crashed>>
-----------------------------------------------------------------------------
Zero == [known |-> FALSE, hits |-> 0, violations |-> 0, extra |-> [k \in Extras |-> 0],
         tasks |-> [c \in Classes |-> 0], exceeding |-> [c \in Classes |-> 0]]

Combine(a, b, sign) ==
  [known |-> a.known,
   hits |-> a.hits + sign * b.hits, violations |-> a.violations + sign * b.violations,
   extra |-> [k \in Extras |-> a.extra[k] + sign * b.extra[k]],
   tasks |-> [c \in Classes |-> a.tasks[c] + sign * b.tasks[c]],
   exceeding |-> [c \in Classes |-> a.exceeding[c] + sign * b.exceeding[c]]]

(* Add of an item and of the classes: the item's Add returns at once when  *)
(* neither side has a hit, and what else was counted of the queue is lost. *)
Add(v, w) ==
  IF v.known /\ w.known /\ v.hits + w.hits = 0
  THEN [Combine(v, w, 1) EXCEPT !.extra = v.extra, !.violations = v.violations]
  ELSE [Combine(v, w, 1) EXCEPT !.known = v.known \/ w.known]

(* Minus has no such exception. *)
Minus(v, w) == Combine(v, w, -1)

(* The events: a dispatch (late or in time), a finished service, a queue   *)
(* that a task struggled with, a task response.                            *)
QueueEvent(hits, violations, extras) ==
  [Zero EXCEPT !.known = TRUE, !.hits = hits, !.violations = violations,
               !.extra = [k \in Extras |-> IF k \in extras THEN 1 ELSE 0]]
TaskEvent(c, exceeds) ==
  [Zero EXCEPT !.tasks[c] = 1, !.exceeding[c] = IF exceeds THEN 1 ELSE 0]

Vector(buffer) ==
  LET sum[n \in 0 .. Len(buffer)] == IF n = 0 THEN Zero ELSE Add(sum[n - 1], buffer[n])
      all == sum[Len(buffer)]
  IN  [known |-> all.known, hits |-> all.hits, violations |-> all.violations,
       extra |-> all.extra, tasks |-> all.tasks, exceeding |-> all.exceeding,
       ticks |-> ticks + 1]
-----------------------------------------------------------------------------
Matrix(vectors, cumulative) == [vectors |-> vectors, cumulative |-> cumulative]

(* Variant of MatrixEnqueue: what leaves the matrix is not subtracted.     *)
MatrixEnqueue_keeps_sum(m, v) ==
  LET longer == Append(m.vectors, v)
      full == Len(longer) > MatrixLength
  IN [matrix |-> Matrix(IF full THEN Tail(longer) ELSE longer, Add(m.cumulative, v)),
      out |-> IF full THEN <<Head(longer)>> ELSE <<>>]

(* Variant of MatrixEnqueue: a full matrix passes the new vector on.       *)
MatrixEnqueue_passes_newest(m, v) ==
  LET full == Len(m.vectors) = MatrixLength
  IN [matrix |-> IF full THEN m ELSE Matrix(Append(m.vectors, v), Add(m.cumulative, v)),
      out |-> IF full THEN <<v>> ELSE <<>>]

MatrixEnqueue(m, v) ==
  LET longer == Append(m.vectors, v)
      full == Len(longer) > MatrixLength
      sum == Add(m.cumulative, v)
  IN [matrix |-> Matrix(IF full THEN Tail(longer) ELSE longer,
                        IF full THEN Minus(sum, Head(longer)) ELSE sum),
      out |-> IF full THEN <<Head(longer)>> ELSE <<>>]

(* A vector comes to the first matrix, what that gives up to the next, and *)
(* so on: given[i] is what the i-th gives up.  A nil matrix that something *)
(* comes to ends the program.                                              *)
PassThrough(v) ==
  LET given[i \in 0 .. length] ==
        IF i = 0 THEN <<v>>
        ELSE IF given[i - 1] = <<>> \/ Pipe[i] = Nil THEN <<>>
        ELSE MatrixEnqueue(Pipe[i], given[i - 1][1]).out
  IN  [done |-> [i \in 1 .. length |->
                   IF given[i - 1] = <<>> \/ Pipe[i] = Nil THEN Pipe[i]
                   ELSE MatrixEnqueue(Pipe[i], given[i - 1][1]).matrix],
       out |-> given[length],
       crash |-> \E i \in 1 .. length : given[i - 1] # <<>> /\ Pipe[i] = Nil]

Kept(done) == [i \in DOMAIN Pipe |-> IF i <= length THEN done[i] ELSE Pipe[i]]

(* append: the element after the length is overwritten; a full slice is    *)
(* moved to one of twice the capacity.                                     *)
Appended(done, m) ==
  LET double == IF length = 0 THEN 1 ELSE 2 * length
  IN  [i \in 1 .. (IF length < Len(Pipe) THEN Len(Pipe) ELSE double) |->
         IF i = length + 1 THEN m ELSE IF i \in DOMAIN Pipe THEN Kept(done)[i] ELSE Nil]

(* What is counted in the first n of some vectors, and of some matrices.   *)
SumUpTo(vectors, n) ==
  LET sum[i \in 0 .. Len(vectors)] ==
        IF i = 0 THEN Zero ELSE Combine(sum[i - 1], vectors[i], 1)
  IN  sum[n]
SumOf(vectors) == SumUpTo(vectors, Len(vectors))
Total(slice, n) ==
  LET total[i \in 0 .. Len(slice)] ==
        IF i = 0 THEN Zero
        ELSE IF slice[i] = Nil THEN total[i - 1]
        ELSE Combine(total[i - 1], SumOf(slice[i].vectors), 1)
  IN  total[n]
-----------------------------------------------------------------------------
Init ==
  /\ ListenerStarted = FALSE
  /\ EventBuffer = <<>>
  /\ Pipe = <<>> /\ length = 0 /\ PipeLength = 0
  /\ CumulativeVector = Nil
  /\ ticks = 0 /\ events = 0 /\ dropped = Zero /\ crashed = FALSE

AppendEvents(new) ==
  /\ events < MaxEvents
  /\ events' = events + 1
  /\ EventBuffer' = EventBuffer \o new
  /\ UNCHANGED <<ListenerStarted, Pipe, length, PipeLength, CumulativeVector, ticks, dropped, crashed>>

AppendQueueServiceResponseTimeEvent == AppendEvents(<<QueueEvent(0, 0, {"success"})>>)

AppendQueueDeadlineViolationEvent(violates) ==
  AppendEvents(<<QueueEvent(1, IF violates THEN 1 ELSE 0, {})>>)

(* Of a queue there is at most one such event: that it was too slow, that  *)
(* it was the slowest, or all three.                                       *)
Struggles(slow, slowest) ==
  {k \in Extras : \/ k = "exceeding" /\ slow
                  \/ k = "maximum" /\ slowest
                  \/ k = "both" /\ slow /\ slowest}

(* Behind a task's event come those of the queues it struggled with, none  *)
(* with a hit; the modelled queue may be one of them.                      *)
AppendTaskPerfEvent(c, exceeds, slow, slowest) ==
  LET struggles == Struggles(slow, slowest)
  IN  AppendEvents(<<TaskEvent(c, exceeds)>> \o
                   IF struggles = {} THEN <<>> ELSE <<QueueEvent(0, 0, struggles)>>)

SwitchListener(on) ==
  /\ ListenerStarted' = on
  /\ UNCHANGED <<EventBuffer, Pipe, length, PipeLength, CumulativeVector, ticks, events, dropped, crashed>>

(* One round of the daemon with the listener started.                      *)
Daemon ==
  LET v == Vector(EventBuffer)
      passed == PassThrough(v)
      appends == passed.out # <<>> /\ (PipeLength = 0 \/ length < PipeLength)
      outgoing == IF appends THEN <<>> ELSE passed.out
      added == IF CumulativeVector = Nil THEN v ELSE Add(CumulativeVector, v)
  IN
  /\ ListenerStarted /\ ticks < MaxTicks
  /\ ticks' = ticks + 1
  /\ crashed' = passed.crash
  /\ IF passed.crash THEN UNCHANGED <<EventBuffer, Pipe, length, CumulativeVector>>
     ELSE /\ EventBuffer' = <<>>
          /\ IF appends
             THEN /\ Pipe' = Appended(passed.done, MatrixEnqueue(Matrix(<<>>, Zero), passed.out[1]).matrix)
                  /\ length' = length + 1
             ELSE /\ Pipe' = Kept(passed.done)
                  /\ length' = length
          /\ CumulativeVector' = IF outgoing = <<>> \/ CumulativeVector = Nil THEN added
                                 ELSE Minus(added, outgoing[1])
  /\ UNCHANGED <<ListenerStarted, PipeLength, events, dropped>>

(* A new length below the old one reslices the pipe, whatever its own      *)
(* length is.  Beyond the capacity the request panics and nothing changes. *)
SetHistoryTimeWindowSize(size) ==
  LET new == size \div MatrixLength
      reslices == new < PipeLength
  IN
  /\ reslices => new <= Len(Pipe)
  /\ PipeLength' = new
  /\ length' = IF reslices THEN new ELSE length
  /\ dropped' = IF ~ reslices THEN dropped
                ELSE Combine(Combine(dropped, Total(Pipe, length), 1), Total(Pipe, new), -1)
  /\ UNCHANGED <<ListenerStarted, EventBuffer, Pipe, CumulativeVector, ticks, events, crashed>>

Next ==
  /\ ~ crashed
  /\ \/ AppendQueueServiceResponseTimeEvent
     \/ \E b \in BOOLEAN : AppendQueueDeadlineViolationEvent(b)
     \/ \E c \in Classes, exceeds, slow, slowest \in BOOLEAN :
          AppendTaskPerfEvent(c, exceeds, slow, slowest)
     \/ \E on \in BOOLEAN : SwitchListener(on)
     \/ Daemon
     \/ \E size \in WindowSizes : SetHistoryTimeWindowSize(size)

Spec == Init /\ [][Next]_vars
-----------------------------------------------------------------------------
(* Type invariant. *)
TypeOK ==
  /\ ListenerStarted \in BOOLEAN /\ crashed \in BOOLEAN
  /\ Pipe \in Seq(Matrices \cup {Nil}) /\ length \in 0 .. Len(Pipe) /\ PipeLength \in Nat
  /\ \A i \in DOMAIN Pipe : Pipe[i] # Nil => Len(Pipe[i].vectors) \in 1 .. MatrixLength
  /\ EventBuffer \in Seq(Counts) /\ dropped \in Counts
  /\ CumulativeVector \in Counts \cup Vectors \cup {Nil}
  /\ Len(EventBuffer) <= 2 * events /\ events \in 0 .. MaxEvents /\ ticks \in 0 .. MaxTicks

SameCounts(a, b) ==
  /\ a.hits = b.hits /\ a.violations = b.violations
  /\ a.tasks = b.tasks /\ a.exceeding = b.exceeding
NoMore(a, b) == \A k \in Extras : a.extra[k] <= b.extra[k]

(* The sums that the daemon carries along are right after any number of    *)
(* ticks and changes of the window: a matrix's are the sums of its         *)
(* vectors; the pipe's also contain, for ever, what changes of the window  *)
(* took out of the pipe (GetQueuesAsPerDeadlineViolation judges by hits    *)
(* and violations).  What events without a hit count, finished services    *)
(* and struggling queues, is the exception: Add may drop it where Minus    *)
(* subtracts it, so those sums can only be too low.                        *)
CumulativeExact ==
  /\ \A i \in 1 .. length :
       Pipe[i] # Nil => LET all == SumOf(Pipe[i].vectors)
                        IN SameCounts(Pipe[i].cumulative, all) /\ NoMore(Pipe[i].cumulative, all)
  /\ CumulativeVector # Nil =>
       LET all == Combine(Total(Pipe, length), dropped, 1)
       IN SameCounts(CumulativeVector, all) /\ NoMore(CumulativeVector, all)

(* Read from the last matrix to the first the vectors are in the order of  *)
(* their ticks, none twice, although a new length can bring matrices back  *)
(* that an earlier one took out: what leaves the pipe is always the oldest.*)
PipeInOrder ==
  \A i, j \in {i \in 1 .. length : Pipe[i] # Nil} :
    \A a \in DOMAIN Pipe[i].vectors, b \in DOMAIN Pipe[j].vectors :
      i > j \/ (i = j /\ a < b) => Pipe[i].vectors[a].ticks < Pipe[j].vectors[b].ticks
=============================================================================
