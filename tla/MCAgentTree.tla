----------------------------- MODULE MCAgentTree -----------------------------
(***************************************************************************)
(* AgentTree for TLC, one scene at a time: "tree" has many agents that run  *)
(* once, in one turn of the root; "messages" has two, which run and are     *)
(* sent to again and again, over two turns.  The ids of the agents are      *)
(* interchangeable, for safety.                                             *)
(***************************************************************************)
EXTENDS AgentTree, TLC

VARIABLE scene

AgentSymmetry == Permutations(Agent)

Busy(n) == IF node[n].working THEN 1 ELSE 0

Within ==
    \/ scene = "tree" /\ turns <= 1 /\ \A n \in Agent : runs[n] + node[n].queue + Busy(n) <= 1
    \/ scene = "messages" /\ Cardinality({n \in Agent : node[n].status # "unborn"}) <= 2

SceneInit == Init /\ scene \in {"tree", "messages"}

SceneNext == UNCHANGED scene /\ Next /\ Within'

SceneSpec == SceneInit /\ [][SceneNext]_<<scene, vars>>

=============================================================================
