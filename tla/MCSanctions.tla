------------------------------ MODULE MCSanctions ------------------------------
(* Two players at one address. *)
EXTENDS Sanctions

MCAddress == [p \in {Subject, Bystander} |-> 1]
=============================================================================
