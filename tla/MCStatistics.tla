---------------------------- MODULE MCStatistics ----------------------------
(***************************************************************************)
(* The three data structures of the performance statistics in one run: the *)
(* histogram of a category's response times, the history of tasks and the  *)
(* pipe of events.  Each is behind a mutex of its own and none reads       *)
(* another's state, so they are explored one at a time: `part' says which. *)
(* The history is explored twice, across the wrap of the clock ("aging")   *)
(* and with requests sent again ("resends"); so is the pipe, with many     *)
(* ticks ("pipe": matrices fill up and come back) and with many events     *)
(* ("sums": what is carried along).                                        *)
(***************************************************************************)
EXTENDS EventPipe, TaskWindow, Histogram

CONSTANTS
  ResendClock,           \* bound of the model: the clock where requests are sent again
  PipeEvents, SumTicks   \* bounds of the model: events with many ticks, ticks with many events

(* All tasks but the last are of one category. *)
MCTag == [t \in Tasks |-> IF t = Cardinality(Tasks) THEN "y" ELSE "x"]

VARIABLE part

InWindow == part \in {"aging", "resends"}
InEvents == part \in {"pipe", "sums"}

StatisticsInit ==
  /\ part \in {"histogram", "aging", "resends", "pipe", "sums"}
  /\ HistogramInit /\ WindowInit /\ Init

StatisticsNext ==
  /\ part' = part
  /\ \/ part = "histogram" /\ HistogramNext /\ UNCHANGED <<windowVars, vars>>
     \/ part = "aging" /\ WindowNext /\ resent' = {} /\ UNCHANGED <<hist, vars>>
     \/ part = "resends" /\ WindowNext /\ clock' <= ResendClock /\ UNCHANGED <<hist, vars>>
     \/ part = "pipe" /\ Next /\ events' <= PipeEvents /\ UNCHANGED <<hist, windowVars>>
     \/ part = "sums" /\ Next /\ ticks' <= SumTicks /\ UNCHANGED <<hist, windowVars>>

StatisticsSpec == StatisticsInit /\ [][StatisticsNext]_<<part, hist, windowVars, vars>>
-----------------------------------------------------------------------------
(* Type invariant of the three structures: pointers, counts, lists and the *)
(* pipe's elements have their types, and no window is over its size.       *)
TypesOK ==
  /\ part = "histogram" => HistogramTypeOK
  /\ InWindow => WindowTypeOK
  /\ InEvents => TypeOK
=============================================================================
