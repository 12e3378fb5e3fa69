--------------------------- MODULE MCCaseClosing ---------------------------
(* Small instances of CaseClosing for TLC. *)
EXTENDS CaseClosing
=============================================================================
