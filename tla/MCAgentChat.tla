------------------------------ MODULE MCAgentChat ------------------------------
(* Small instances of AgentChat for TLC.                                   *)
EXTENDS AgentChat

CONSTANTS r1, r2, s1, s2   \* model values

TwoRuns == {r1, r2}
TwoSessions == {s1, s2}

(* Each run in a chat of its own.                                          *)
OneEach == [r \in TwoRuns |-> IF r = r1 THEN s1 ELSE s2]
=============================================================================
