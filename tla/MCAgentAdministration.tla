------------------------ MODULE MCAgentAdministration ------------------------
\* Instances of AgentAdministration for TLC: the calls are alike.
EXTENDS AgentAdministrationProperties, TLC

CONSTANTS a1, c1, c2

Alike == Permutations(Calls)
=============================================================================
