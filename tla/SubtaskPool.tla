---------------------------- MODULE SubtaskPool ----------------------------
(***************************************************************************)
(* What a node's subtask queue promises to its callers, without the order  *)
(* in which it serves them: a subtask waits either confirmed or tentative  *)
(* (its budget is still being negotiated), never twice; it is handed out   *)
(* once for each time it was accepted; a tentative subtask is handed out   *)
(* only when no confirmed one waits.  Module STQueue implements it.        *)
(***************************************************************************)
CONSTANT Keys

VARIABLES confirmed, tentative

poolVars == <<confirmed, tentative>>

PoolInit == confirmed = {} /\ tentative = {}

Accept(k) ==
  /\ k \notin confirmed \cup tentative
  /\ \/ confirmed' = confirmed \cup {k} /\ UNCHANGED tentative
     \/ tentative' = tentative \cup {k} /\ UNCHANGED confirmed

Confirm(k) ==
  /\ k \in tentative
  /\ tentative' = tentative \ {k}
  /\ confirmed' = confirmed \cup {k}

HandOut(k) ==
  \/ /\ k \in confirmed
     /\ confirmed' = confirmed \ {k}
     /\ UNCHANGED tentative
  \/ /\ confirmed = {}
     /\ k \in tentative
     /\ tentative' = tentative \ {k}
     /\ UNCHANGED confirmed

Drop == confirmed' = {} /\ tentative' = {}

PoolNext == Drop \/ \E k \in Keys : Accept(k) \/ Confirm(k) \/ HandOut(k)

PoolSpec == PoolInit /\ [][PoolNext]_poolVars
=============================================================================
