--------------------------- MODULE MCControlLoop ---------------------------
(***************************************************************************)
(* Model values for ControlLoop: the cases that make it hard, apart, each  *)
(* with bounds of its own, since all of them at once are too many states.  *)
(***************************************************************************)
EXTENDS ControlLoop

CONSTANTS x, y, m, w

VARIABLE mix

MCApps == {x, y}
MCNodes == {m, w}
MCTypes == {"up", "down", "neither"}

Mixes == {
  \* a second group of actions, after the first has calmed down, and retries
  [apps |-> {x}, queues |-> {w}, types |-> {"up"}, messages |-> 2, clock |-> 3, requests |-> 2],
  \* all kinds of messages: two actions may share their key
  [apps |-> {x}, queues |-> {w}, types |-> MCTypes, messages |-> 2, clock |-> 1, requests |-> 1],
  \* a group of two actions, one of them for the master itself
  [apps |-> {x}, queues |-> {m, w}, types |-> {"up"}, messages |-> 1, clock |-> 2, requests |-> 1],
  \* two applications append and share a node
  [apps |-> {x, y}, queues |-> {w}, types |-> {"up"}, messages |-> 2, clock |-> 1, requests |-> 1]}

Within ==
  /\ clock <= mix.clock /\ appended <= mix.messages
  /\ \A app \in Apps : appending[app] # None =>
       app \in mix.apps /\ appending[app].msg.type \in mix.types
  /\ \A i \in daemon.plan : i.queue \in mix.queues
  /\ \A r \in requests : r[2] <= mix.requests

MCInit == Init /\ mix \in Mixes

MCNext == mix' = mix /\ Next /\ Within'

MCSpec == MCInit /\ [][MCNext]_<<vars, mix>> /\ Fairness
=============================================================================
