---------------------------- MODULE MCAccountMerge ----------------------------
(* Accounts are alike, so the first command names a and b; the second repeats *)
(* it, turns it round, chains to it or names others.                          *)
EXTENDS AccountMerge, TLC

CONSTANTS a, b, c, v1, v2
MCAccount == {a, b, c}
MCView == {v1, v2}
MCCommanded == (v1 :> {<<a, b>>}) @@ (v2 :> {p \in MCAccount \X MCAccount : p[1] # p[2]})
=============================================================================
