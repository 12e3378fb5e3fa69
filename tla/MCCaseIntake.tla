---------------------------- MODULE MCCaseIntake ----------------------------
(* CaseIntake for the model checker: one player reports x from the game,    *)
(* another reports x and y from Discord.                                    *)
EXTENDS CaseIntake

MCBy == [s \in Submission |-> IF s \in Discord THEN "q" ELSE "p"]
MCAbout == [s \in Submission |-> IF s = "d2" THEN "y" ELSE "x"]
=============================================================================
