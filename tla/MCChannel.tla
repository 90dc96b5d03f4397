----------------------------- MODULE MCChannel -----------------------------
(* The deployment: the energy-loss application elAPP calls, the data        *)
(* application rhApp serves READ and WRITE; elAPP's own table has READ only.*)
EXTENDS Channel

MCApp      == {"elAPP", "rhApp"}
MCPeer     == [a \in Callers |-> IF a = "elAPP" THEN "rhApp" ELSE "elAPP"]
(* code/elDbase.c passes EL_APP_NAME too, although it is rhApp *)
MCWaitName == [a \in Callers |-> "elAPP"]
MCTable    == [a \in App |-> IF a = "elAPP" THEN CallIop \cap {"READ"} ELSE CallIop]

WholeCopy == {Fields}                               \* a memcpy seen as one step
SplitCopy == {{"state"}, Fields \ {"state"}}          \* state byte apart from the rest
TornCopy  == {{"state"}, {"frame", "names"}, {"body"}}  \* and as three, in any order
=============================================================================
