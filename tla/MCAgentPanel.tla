----------------------------- MODULE MCAgentPanel -----------------------------
(* Two rounds, two sessions and a third one that can be created.           *)
EXTENDS AgentPanel

CONSTANTS s1, s2, s3

MCIds == {s1, s2, s3}
MCKnown == {s1, s2}
=============================================================================
