------------------------------ MODULE MCTurnLoop ------------------------------
(* Three calls for model checking TurnLoop: 1 edits a file; 2 and 3 are    *)
(* shell commands that differ only after their 255th byte.                 *)
EXTENDS TurnLoop

MCPrefix == <<1, 2, 2>>
MCSteps  == [f \in FrontEnd |-> IF f = "repl" THEN 3 ELSE 4]

=============================================================================
