----------------------------- MODULE MCAgentGraph -----------------------------
(* Tool lists of three and of four agents; the names are model values. *)
EXTENDS AgentGraph, TLC

CONSTANTS a1, a2, a3, a4

\* Every list of up to two agents.
ThreeAgents == {a1, a2, a3}
ThreeLists == {<<>>} \cup {<<a>> : a \in ThreeAgents} \cup (ThreeAgents \X ThreeAgents)
Symmetry == Permutations(ThreeAgents)

\* The lists a diamond needs.
FourAgents == {a1, a2, a3, a4}
FourLists == {<<>>, <<a4>>, <<a3>>, <<a2, a3>>}
=============================================================================
