---------------------------- MODULE MCAgentHistory ----------------------------
(* Step budgets for model checking AgentHistory: two steps of a terminal   *)
(* turn; two steps and then forced text in Telegram.                       *)
EXTENDS AgentHistory

MCSteps == [f \in FrontEnd |-> IF f = "repl" THEN 2 ELSE 3]

=============================================================================
