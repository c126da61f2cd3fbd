--------------------------- MODULE MCAgentSession ---------------------------
EXTENDS AgentSession

\* A reliable agent, one whose turns are interrupted, in time or not, one that
\* answers badly, and one that goes away.
EnvsAgent == {{}, {"interrupt"}, {"interrupt", "late"}, {"interrupt", "refuse", "slow", "odd"},
              {"interrupt", "exit"}, {"release", "elicit"}}
=============================================================================
