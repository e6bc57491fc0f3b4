---------------------------- MODULE MCDiscovery ----------------------------
(***************************************************************************)
(* Constants of the model: a worker below a coordinator, whose registry is *)
(* another coordinator that is also its own registry.  Two mixes, since    *)
(* both at once are too many states: "task", where the control plane task  *)
(* goes round as far as it can, in turn or in parallel, and registrations  *)
(* race to start the queue routine, and "changes", where it goes one hop   *)
(* in turn and one registration at a time starts the routine while the     *)
(* registry's configuration changes.  A task that asks for b exclusively   *)
(* and for a collectively can then meet the registry with the one before   *)
(* the change and with the other after it.                                 *)
(***************************************************************************)
EXTENDS Discovery

CONSTANTS worker, coord, reg, a, b

VARIABLE mix

MCUpper == [n \in Nodes |-> IF n = worker THEN coord ELSE None]
MCRegistry == [n \in Nodes |-> IF n = worker THEN None ELSE reg]
MCInitialCaps == [n \in Nodes |-> IF n = worker THEN {a, b} ELSE IF n = reg THEN {b} ELSE {}]
AForB == [exclusive |-> {a}, collective |-> {b}]
BForA == [exclusive |-> {b}, collective |-> {a}]
MCRequirements == {AForB, BForA}
MCOptions == {[overwrite |-> FALSE, parallel |-> p] : p \in BOOLEAN}
MCConfigurations == {[caps |-> {a}, addressed |-> TRUE], [caps |-> {}, addressed |-> FALSE]}

Within ==
  \/ mix = "task" /\ changes = 0 /\ \A p \in DOMAIN tasks : tasks[p].req = AForB
  \/ /\ mix = "changes"
     /\ \A p \in DOMAIN tasks : tasks[p].ttl <= 1 /\ ~ tasks[p].opt.parallel
     /\ \A n \in Nodes : routine[n].checking + routine[n].starting <= 1

MCInit == Init /\ mix \in {"task", "changes"}

MCNext == mix' = mix /\ Next /\ Within'

MCSpec == MCInit /\ [][MCNext]_<<vars, mix>> /\ Fairness
=============================================================================
