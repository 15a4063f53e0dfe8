-------------------------- MODULE MCAgentSessions --------------------------
\* AgentSessions with interchangeable callers and interchangeable workers of
\* one pool.
EXTENDS AgentSessions, TLC

Symmetry == Permutations(Pages) \cup Permutations(Generations)
            \cup Permutations(Codex) \cup Permutations(Workers \ Codex)
=============================================================================
