--------------------------- MODULE MCCaseActions ---------------------------
(* CaseActions for the model checker: a report, whose player can be banned  *)
(* (which leaves an audit record) or which can be rejected.                 *)
EXTENDS CaseActions, TLC

Symmetric == Permutations(Attempt)
=============================================================================
