----------------------------- MODULE MCStaffSync -----------------------------
(* StaffSync for the model checker: two members who may have one role, so   *)
(* that an event and the pass work on the same member or on two.            *)
EXTENDS StaffSync
=============================================================================
