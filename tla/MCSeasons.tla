------------------------------ MODULE MCSeasons ------------------------------
(* Commands are given in any order and are alike. *)
EXTENDS Seasons, TLC

Symmetric == Permutations(Command)
=============================================================================
