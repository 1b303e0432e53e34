----------------------------- MODULE MCAgentTurn -----------------------------
EXTENDS AgentTurn, TLC
CONSTANTS A, B, C, S, S2, X
\* Prompts differ in nothing but their names, and so do presses of Stop.
Symmetry == Permutations(Prompts) \cup Permutations(Stops)
=============================================================================
