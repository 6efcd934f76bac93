----------------------------- MODULE MCWritePipeline -----------------------------
(* WritePipeline for TLC: two accounts that take turns, or one alone.           *)
EXTENDS WritePipeline

CONSTANTS alice, bob

TakingTurns == [b \in BatchIds |-> IF b = 2 THEN bob ELSE alice]
Alone == [b \in BatchIds |-> alice]
=============================================================================
