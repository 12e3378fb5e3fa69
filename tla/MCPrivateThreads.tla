--------------------------- MODULE MCPrivateThreads ---------------------------
(* Two reporters, two staff members, of whom one may be named in a complaint;
   so may its opener, by mistake. *)
EXTENDS PrivateThreads

CONSTANTS a1, a2, opener
=============================================================================
