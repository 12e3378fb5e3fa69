--------------------------- MODULE MCMapSubmissions ---------------------------
(* Two accounts that behave alike; no symmetry, as liveness is checked. *)
EXTENDS MapSubmissions
=============================================================================
