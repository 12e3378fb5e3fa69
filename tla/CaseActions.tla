---------------------------- MODULE CaseActions ----------------------------
(***************************************************************************)
(* Staff actions on one case: CaseActions of cases/actions.py over the     *)
(* compare-and-set of cases/store.py, with the repair pass of              *)
(* cases/reconcile.py and the other writers of the case interleaved at     *)
(* every await.                                                            *)
(*                                                                         *)
(* An attempt is one press of an action button. Its guard (pending_action) *)
(* carries a fresh token, here the attempt itself. The action has an       *)
(* effect outside the case (a ban, a badge, a map) and, for the verbs of   *)
(* AUDIT_RESOLUTIONS, an audit record that proves the effect and carries   *)
(* the token. Any coroutine may die between two awaits: a crash, a lost    *)
(* connection, a cancelled task.                                           *)
(*                                                                         *)
(* Of the events the case keeps, only the last action_started since the    *)
(* last reopened is told apart; of time, only whether a guard is older     *)
(* than ACTION_GUARD_SECONDS. Guards and audits from before tokens existed *)
(* (legacy_guard) are not modelled.                                        *)
(***************************************************************************)
EXTENDS Naturals

CONSTANTS
  Attempt,      \* presses of an action button
  Verb,         \* the actions of the case's kind
  AuditedVerb,  \* those whose completion leaves an audit record
  Repair,       \* the periodic repair pass
  None,         \* no attempt
  Observed,     \* a sanction observed outside the case
  CasTries,     \* compare-and-set attempts of _finish (5 in the code)
  MaxRevision,  \* bound: the writers outside the actions stop there
  MaxFailures   \* bound: how many repair passes may die half way

ASSUME ConstantsAssumption ==
  /\ AuditedVerb \subseteq Verb
  /\ Repair \notin Attempt
  /\ None \notin Attempt
  /\ Observed \notin Attempt
  /\ None # Observed
  /\ CasTries \in Nat \ {0}
  /\ MaxRevision \in Nat
  /\ MaxFailures \in Nat

VARIABLES
  case,       \* the document in MongoDB
  claims,     \* idempotency keys alive in Redis
  audits,     \* attempts whose completion is in the audit trail
  verb,       \* the action each attempt runs
  run,        \* each coroutine: where it waits, what it last read
  failures,   \* repair passes that died
  abandoned,  \* history: attempts whose guard the repair pass took away
  epoch       \* history: the reopenings each attempt was started after

vars == <<case, claims, audits, verb, run, failures, abandoned, epoch>>

Process == Attempt \union {Repair}
Actionable == {"open", "taken"}
Closed == {"resolved", "rejected"}
Status == Actionable \union Closed \union {"creating", "cancelled"}

(* The awaits of CaseActions.run and of the repair pass, and how run ends. *)
Running == {"claiming", "guarding", "acting", "applied", "audited",
            "finishing", "closing", "recovering", "deciding", "proven",
            "releasing"}
Repairing == {"listing", "recovering", "deciding", "proven", "abandoning",
              "releasing"}
Ended == {"done", "refused", "raced", "raised", "dead"}

(* The locals of a coroutine: the revision and guard it read, the token it
   looks for, the tries of _finish, and the guard the pass listed. *)
At(place) == [at |-> place, revision |-> 0, pending |-> None,
              token |-> None, tries |-> 0, listed |-> None]

Init ==
  /\ case = [status |-> "creating", revision |-> 0, pending |-> None,
             old |-> FALSE, started |-> None, resolution |-> None,
             reopened |-> 0]
  /\ claims = {}
  /\ audits = {}
  /\ verb \in [Attempt -> Verb]
  /\ run = [p \in Process |-> At("idle")]
  /\ failures = 0
  /\ abandoned = {}
  /\ epoch = [a \in Attempt |-> 0]

Goto(p, place) == run' = [run EXCEPT ![p].at = place]

(* The coroutine ends, or the repair pass is over: its locals are gone. *)
End(p, place) == run' = [run EXCEPT ![p] = At(place)]

(* store.get: the revision, the guard, and the token to look for. *)
Read(p, token, place) ==
  run' = [run EXCEPT ![p].at = place, ![p].revision = case.revision,
                     ![p].pending = case.pending, ![p].token = token]

(* Mutant: a filter without the revision. *)
CasHoldsStale(p, guard) == case.pending = guard

(* The filter of store.cas: nobody wrote since p read, and the guard is the
   one the writer names (None: there must be no guard). *)
CasHolds(p, guard) ==
  /\ case.revision = run[p].revision
  /\ case.pending = guard

(* The update of store.cas: fields, and the next revision. *)
Write(fields) == case' = [fields EXCEPT !.revision = @ + 1]

(* CaseActions.close: status, resolution, and the guard is gone. *)
CloseWith(token) ==
  \E s \in Closed :
    Write([case EXCEPT !.status = s, !.resolution = token,
                       !.pending = None, !.old = FALSE])

LetGo == Write([case EXCEPT !.pending = None, !.old = FALSE])

-----------------------------------------------------------------------------
(* CaseActions.run, one attempt. *)

(* execute_action reads the case and checks access; run refuses a case that
   is not actionable or already guarded. *)
Press(a) ==
  /\ run[a].at = "idle"
  /\ case.status \in Actionable
  /\ case.pending = None
  /\ Read(a, None, "claiming")
  /\ UNCHANGED <<case, claims, audits, verb, failures, abandoned, epoch>>

(* The Redis claim: one press per verb and revision. *)
Claim(a) ==
  LET key == <<verb[a], run[a].revision>> IN
  /\ run[a].at = "claiming"
  /\ claims' = claims \union {key}
  /\ IF key \in claims THEN End(a, "refused") ELSE Goto(a, "guarding")
  /\ UNCHANGED <<case, audits, verb, failures, abandoned, epoch>>

(* The guard, with its action_started event. *)
Guard(a) ==
  /\ run[a].at = "guarding"
  /\ IF CasHolds(a, None)
     THEN /\ Write([case EXCEPT !.pending = a, !.old = FALSE,
                                !.started = a])
          /\ epoch' = [epoch EXCEPT ![a] = case.reopened]
          /\ Goto(a, "acting")
     ELSE /\ End(a, "refused")
          /\ UNCHANGED <<case, epoch>>
  /\ UNCHANGED <<claims, audits, verb, failures, abandoned>>

(* The effect outside the case: the punishment, badge or map is stored. *)
Apply(a) ==
  /\ run[a].at = "acting"
  /\ verb[a] \in AuditedVerb
  /\ Goto(a, "applied")
  /\ UNCHANGED <<case, claims, audits, verb, failures, abandoned, epoch>>

(* Then its audit record, before any announcement. *)
Audit(a) ==
  /\ run[a].at = "applied"
  /\ audits' = audits \union {a}
  /\ Goto(a, "audited")
  /\ UNCHANGED <<case, claims, verb, failures, abandoned, epoch>>

(* The action returns its resolution; a rejection has no effect outside. *)
Return(a) ==
  /\ \/ run[a].at = "audited"
     \/ run[a].at = "acting" /\ verb[a] \notin AuditedVerb
  /\ Goto(a, "finishing")
  /\ UNCHANGED <<case, claims, audits, verb, failures, abandoned, epoch>>

(* The action raises: before the effect, before the audit record or while
   announcing, or it returns a resolution the kind does not have. *)
Raise(a) ==
  /\ run[a].at \in {"acting", "applied", "audited"}
  /\ Goto(a, "recovering")
  /\ UNCHANGED <<case, claims, audits, verb, failures, abandoned, epoch>>

FinishRead(a) ==
  /\ run[a].at = "finishing"
  /\ IF case.pending = a THEN Read(a, a, "closing") ELSE End(a, "raced")
  /\ UNCHANGED <<case, claims, audits, verb, failures, abandoned, epoch>>

FinishClose(a) ==
  /\ run[a].at = "closing"
  /\ \/ CasHolds(a, a) /\ CloseWith(a) /\ End(a, "done")
     \/ /\ ~CasHolds(a, a)
        /\ IF run[a].tries + 1 = CasTries
           THEN End(a, "raced")
           ELSE run' = [run EXCEPT ![a].at = "finishing", ![a].tries = @ + 1]
        /\ UNCHANGED case
  /\ UNCHANGED <<claims, audits, verb, failures, abandoned, epoch>>

(* _release_guard of a failed attempt: a checkpoint that retries on the
   attempt's own token, or gives up and only logs. *)
ReleaseGuard(a) ==
  /\ run[a].at = "releasing"
  /\ \/ case.pending = a /\ LetGo
     \/ UNCHANGED case
  /\ End(a, "raised")
  /\ UNCHANGED <<claims, audits, verb, failures, abandoned, epoch>>

-----------------------------------------------------------------------------
(* CaseActions.recover, called by a failed attempt and by the repair pass. *)

(* Where recover returns to: the attempt releases its guard, the repair pass
   looks for an abandoned guard if it listed the case with one. *)
NotRecovered(p) ==
  \/ p # Repair /\ Goto(p, "releasing")
  \/ p = Repair /\ run[p].listed # None /\ Goto(p, "abandoning")
  \/ p = Repair /\ run[p].listed = None /\ End(p, "idle")

Recovered(p) == End(p, IF p = Repair THEN "idle" ELSE "done")

(* Mutant: only the guard on the case says which attempt to look for. *)
RecoverReadGuardOnly(p) ==
  /\ run[p].at = "recovering"
  /\ IF case.status \in Actionable
     THEN Read(p, case.pending, "deciding")
     ELSE NotRecovered(p)
  /\ UNCHANGED <<case, claims, audits, verb, failures, abandoned, epoch>>

(* The guard's token, or else that of the last attempt since the reopening. *)
RecoverRead(p) ==
  /\ run[p].at = "recovering"
  /\ IF case.status \in Actionable
     THEN Read(p, IF case.pending # None THEN case.pending ELSE case.started,
               "deciding")
     ELSE NotRecovered(p)
  /\ UNCHANGED <<case, claims, audits, verb, failures, abandoned, epoch>>

(* Mutant: any audit record of the case proves the attempt. *)
RecoverDecideAnyAudit(p) ==
  /\ run[p].at = "deciding"
  /\ IF run[p].token # None /\ audits # {}
     THEN Goto(p, "proven") ELSE NotRecovered(p)
  /\ UNCHANGED <<case, claims, audits, verb, failures, abandoned, epoch>>

(* audits_for and completion_code: is there a record with that token?  Its verb,
   target, ban and badge are compared with those of the case too; nothing
   changes these between an action and its recovery, so a record with the token
   passes. *)
RecoverDecide(p) ==
  /\ run[p].at = "deciding"
  /\ IF run[p].token \in audits THEN Goto(p, "proven") ELSE NotRecovered(p)
  /\ UNCHANGED <<case, claims, audits, verb, failures, abandoned, epoch>>

(* The close; when the write is lost, "recovered" is whether somebody else
   closed the case meanwhile. *)
RecoverClose(p) ==
  /\ run[p].at = "proven"
  /\ \/ CasHolds(p, run[p].pending) /\ CloseWith(run[p].token) /\ Recovered(p)
     \/ /\ ~CasHolds(p, run[p].pending)
        /\ IF case.status \in Actionable THEN NotRecovered(p) ELSE Recovered(p)
        /\ UNCHANGED case
  /\ UNCHANGED <<claims, audits, verb, failures, abandoned, epoch>>

-----------------------------------------------------------------------------
(* reconcile_case, for an actionable case. *)

(* list_cases; a case with neither guard nor audit record needs nothing. *)
RepairList ==
  /\ run[Repair].at = "idle"
  /\ case.status \in Actionable
  /\ case.pending # None \/ audits # {}
  /\ run' = [run EXCEPT ![Repair].at = "listing",
                        ![Repair].listed = case.pending]
  /\ UNCHANGED <<case, claims, audits, verb, failures, abandoned, epoch>>

(* Mutant: a case without an audit record is left alone, guard and all. *)
RepairAuditedOnly ==
  /\ run[Repair].at = "listing"
  /\ IF audits # {} THEN Goto(Repair, "recovering") ELSE End(Repair, "idle")
  /\ UNCHANGED <<case, claims, audits, verb, failures, abandoned, epoch>>

(* audited_numbers: any audit record of the case, whatever its token. *)
RepairAudited ==
  /\ run[Repair].at = "listing"
  /\ IF audits # {} THEN Goto(Repair, "recovering") ELSE NotRecovered(Repair)
  /\ UNCHANGED <<case, claims, audits, verb, failures, abandoned, epoch>>

(* release_abandoned: only a guard older than ACTION_GUARD_SECONDS. *)
AbandonRead ==
  /\ run[Repair].at = "abandoning"
  /\ IF case.pending # None /\ case.old
     THEN Read(Repair, case.pending, "releasing")
     ELSE End(Repair, "idle")
  /\ UNCHANGED <<case, claims, audits, verb, failures, abandoned, epoch>>

(* _release_guard, on the token that was read. *)
AbandonRelease ==
  /\ run[Repair].at = "releasing"
  /\ IF case.pending = run[Repair].token
     THEN LetGo /\ abandoned' = abandoned \union {case.pending}
     ELSE UNCHANGED <<case, abandoned>>
  /\ End(Repair, "idle")
  /\ UNCHANGED <<claims, audits, verb, failures, epoch>>

-----------------------------------------------------------------------------
(* Time, and coroutines that end between two awaits. *)

GuardExpires ==
  /\ case.pending # None
  /\ ~case.old
  /\ case' = [case EXCEPT !.old = TRUE]
  /\ UNCHANGED <<claims, audits, verb, run, failures, abandoned, epoch>>

ClaimExpires ==
  /\ \E key \in claims : claims' = claims \ {key}
  /\ UNCHANGED <<case, audits, verb, run, failures, abandoned, epoch>>

Die(a) ==
  /\ run[a].at \in Running
  /\ End(a, "dead")
  /\ UNCHANGED <<case, claims, audits, verb, failures, abandoned, epoch>>

RepairDies ==
  /\ run[Repair].at # "idle"
  /\ failures < MaxFailures
  /\ failures' = failures + 1
  /\ End(Repair, "idle")
  /\ UNCHANGED <<case, claims, audits, verb, abandoned, epoch>>

-----------------------------------------------------------------------------
(* The other writers of the case. Each reads and writes it in one
   compare-and-set that it repeats or gives up, so it is one step here. *)

Other(fields) ==
  /\ case.revision < MaxRevision
  /\ Write(fields)
  /\ UNCHANGED <<claims, audits, verb, run, failures, abandoned, epoch>>

(* merge and thread_deleted name the guard's token, and so does the action
   that stores the subject it was given: they do not wait for it. *)
Join == case.status \in Actionable \union {"creating"} /\ Other(case)

(* checkpoint: ids, progress, events; refused while an action runs. *)
Checkpoint == case.pending = None /\ Other(case)

(* The guard's absence is part of every decision's filter. *)
Decide(from, to, fields) ==
  /\ case.pending = None
  /\ case.status \in from
  /\ Other([fields EXCEPT !.status = to])

FinishCreation == Decide({"creating"}, "open", case)
Take == Decide({"open"}, "taken", case)
Release == Decide({"taken"}, "open", case)
Cancel == Decide({"creating", "open"}, "cancelled", case)

(* close_validated: a sanction observed outside the case. *)
CloseObserved ==
  Decide(Actionable, "resolved",
         [case EXCEPT !.resolution = Observed, !.pending = None])

(* Mutant: the actions of before the reopening still count. *)
ReopenKeepsStarted ==
  Decide(Closed, "open", [case EXCEPT !.resolution = None,
                                      !.reopened = @ + 1])

Reopen ==
  Decide(Closed, "open", [case EXCEPT !.resolution = None, !.started = None,
                                      !.reopened = @ + 1])

-----------------------------------------------------------------------------
AttemptStep(a) ==
  \/ Press(a) \/ Claim(a) \/ Guard(a)
  \/ Apply(a) \/ Audit(a) \/ Return(a) \/ Raise(a)
  \/ FinishRead(a) \/ FinishClose(a) \/ ReleaseGuard(a) \/ Die(a)

Recover(p) == RecoverRead(p) \/ RecoverDecide(p) \/ RecoverClose(p)

RepairStep ==
  RepairList \/ RepairAudited \/ AbandonRead \/ AbandonRelease

OtherStep ==
  Join \/ Checkpoint \/ FinishCreation \/ Take \/ Release \/ Cancel
       \/ CloseObserved \/ Reopen

Next ==
  \/ \E a \in Attempt : AttemptStep(a)
  \/ \E p \in Process : Recover(p)
  \/ RepairStep \/ RepairDies
  \/ GuardExpires \/ ClaimExpires
  \/ OtherStep

Spec == Init /\ [][Next]_vars

(* The daemon runs a pass every five minutes and time passes; nothing is
   assumed of staff, of a running action or of the other writers. *)
Fairness ==
  /\ WF_vars(RepairStep)
  /\ WF_vars(Recover(Repair))
  /\ WF_vars(GuardExpires)

FairSpec == Spec /\ Fairness

-----------------------------------------------------------------------------
CaseType ==
  [status : Status, revision : Nat, pending : Attempt \union {None},
   old : BOOLEAN, started : Attempt \union {None},
   resolution : Attempt \union {None, Observed}, reopened : Nat]

Place == {"idle"} \union Running \union Repairing \union Ended

Local == [at : Place, revision : Nat, pending : Attempt \union {None},
          token : Attempt \union {None}, tries : Nat,
          listed : Attempt \union {None}]

TypeOK ==
  /\ case \in CaseType
  /\ claims \subseteq (Verb \X Nat)
  /\ audits \subseteq Attempt
  /\ verb \in [Attempt -> Verb]
  /\ run \in [Process -> Local]
  /\ failures \in Nat
  /\ abandoned \subseteq Attempt
  /\ epoch \in [Attempt -> Nat]

(* An action touches the world outside the case only while its own guard is
   on the case, unless the repair pass declared that guard abandoned: no
   close, recovery, reopening or second action slips under a running one. *)
EffectUnderGuard ==
  \A a \in Attempt :
    run[a].at \in {"acting", "applied"} => case.pending = a \/ a \in abandoned

(* A case closed by an action carries the decision of the action started
   last, after the last reopening, and one that needs an audit record has
   it: a late or earlier attempt never decides (recover: "never revive an
   earlier attempt, even if its audit arrived late"). *)
DecisionIsCurrent ==
  \A a \in Attempt :
    case.resolution = a =>
      /\ case.status \in Closed
      /\ case.started = a
      /\ epoch[a] = case.reopened
      /\ verb[a] \in AuditedVerb => a \in audits

(* The case the bot keeps behaves as the abstract one. *)
Lifecycle == INSTANCE CaseLifecycle WITH
  status <- case.status, owner <- case.pending, latest <- case.started,
  decision <- case.resolution
LifecycleSpec == Lifecycle!Spec

(* Whatever dies, a guard does not stay on the case for ever. *)
GuardIsFreed ==
  \A a \in Attempt : (case.pending = a) ~> (case.pending # a)

(* Once the last attempt's effect is in the audit trail, the case does not
   stay open: the repair pass closes it, unless a newer attempt starts. *)
AuditedCaseCloses ==
  \A a \in Attempt :
    (case.started = a /\ a \in audits) ~>
      (case.status \notin Actionable \/ case.started # a)

(* The docstring of run: "A matching durable completion audit closes the
   case instead, without replaying the action": an attempt that fails does
   not give its guard back to an open case once its audit record exists. *)
ReleasedWithoutEvidence ==
  [][ \A a \in Attempt :
        /\ case.pending = a /\ case'.pending = None
        /\ case'.status \in Actionable
        /\ a \notin abandoned'
        => a \notin audits ]_vars
=============================================================================
