--------------------------- MODULE CaseLifecycle ---------------------------
(***************************************************************************)
(* What a case promises, whatever protocol keeps it: its status follows    *)
(* the table of cases/model.py, at most one staff action owns it at a      *)
(* time, and the decision it closes with is that of the action that was    *)
(* started last since the case was opened or reopened, or was observed     *)
(* outside the case while no action owned it.                              *)
(***************************************************************************)

CONSTANTS
  Attempt,   \* staff actions that may be tried on the case
  None,      \* no owner, no decision
  Observed   \* a decision taken outside the case (a ban seen on a server)

VARIABLES
  status,    \* where the case is in its life
  owner,     \* the action that owns the case now
  latest,    \* the last action started since the case was (re)opened
  decision   \* what closed the case

lifecycleVars == <<status, owner, latest, decision>>

Actionable == {"open", "taken"}
Active == Actionable \union {"creating"}
Closed == {"resolved", "rejected"}
Status == Active \union Closed \union {"cancelled"}

TRANSITIONS == [ s \in Status |->
  CASE s = "creating" -> {"open", "cancelled"}
    [] s = "open"     -> {"taken", "resolved", "rejected", "cancelled"}
    [] s = "taken"    -> {"open", "resolved", "rejected"}
    [] s \in Closed   -> {"open"}
    [] OTHER          -> {} ]

Init ==
  /\ status = "creating"
  /\ owner = None
  /\ latest = None
  /\ decision = None

(* An action takes the case; nobody else's does until it lets go. *)
Start(a) ==
  /\ status \in Actionable
  /\ owner = None
  /\ owner' = a
  /\ latest' = a
  /\ UNCHANGED <<status, decision>>

(* The owner lets go, or is taken for dead: a person decides what to do. *)
LetGo ==
  /\ owner # None
  /\ owner' = None
  /\ UNCHANGED <<status, latest, decision>>

(* The case closes with the decision of its latest action, which owns it or
   left it ownerless, and never while a newer action does. *)
CloseByAction ==
  /\ status \in Actionable
  /\ latest # None
  /\ owner \in {None, latest}
  /\ status' \in Closed
  /\ owner' = None
  /\ decision' = latest
  /\ UNCHANGED latest

(* Any other change of status happens while no action owns the case. *)
Move ==
  /\ owner = None
  /\ status' \in TRANSITIONS[status]
  /\ decision' = CASE status' \in Closed -> Observed
                   [] status \in Closed  -> None
                   [] OTHER              -> decision
  /\ latest' = IF status \in Closed THEN None ELSE latest
  /\ UNCHANGED owner

Next ==
  \/ \E a \in Attempt : Start(a)
  \/ LetGo
  \/ CloseByAction
  \/ Move

Spec == Init /\ [][Next]_lifecycleVars
=============================================================================
