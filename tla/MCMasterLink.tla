---------------------------- MODULE MCMasterLink ----------------------------
(* MasterLink for TLC: of the AC, the polls of the mode and of the setpoints, *)
(* which share a function code, and the write of the mode.                    *)
EXTENDS MasterLink

ASSUME DistinctReplies(AcPolls) /\ DistinctReplies(ApPolls)

MCPoll == {p \in AcPolls : p.func = 3 /\ p.addr \in {1, 61}}
MCWrite == {[func |-> 6, addr |-> 1, qty |-> 1]}
=============================================================================
