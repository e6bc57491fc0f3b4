----------------------------- MODULE MCSTQueue -----------------------------
(***************************************************************************)
(* The queue under two mixes of calls, `mix' says which: "protocol", where *)
(* callers mix mechanisms and confirm each subtask once, and "order",      *)
(* where all of them sort by priority and more items wait.                 *)
(***************************************************************************)
EXTENDS MCSTQueueOrder

CONSTANTS
  ProtocolKeys,   \* keys of the protocol mix, a part of Keys
  OrderDequeues   \* bound of the model: dequeues in the order mix

VARIABLE mix

MixedInit == Init /\ mix \in {"protocol", "order"}

ProtocolStep ==
  /\ mix = "protocol"
  /\ \/ \E k \in ProtocolKeys, mech \in Mechanisms \ {"PRQ"}, ddl \in Deadlines :
          Protocol(k, mech) /\ Enqueue(k, mech, 1, ddl)
     \/ Dequeue
     \/ Clean

OrderStep ==
  /\ mix = "order"
  /\ \/ \E k \in Keys, pri \in Priorities : EnqueueMain(k, "PRQ", pri, 1)
     \/ dequeueClock < OrderDequeues /\ Dequeue
     \/ Clean

MixedNext == mix' = mix /\ (ProtocolStep \/ OrderStep)

(* Every behaviour of either mix is one of STQueue!Spec. *)
MixedSpec == MixedInit /\ [][MixedNext]_<<vars, mix>>
=============================================================================
