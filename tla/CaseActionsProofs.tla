------------------------- MODULE CaseActionsProofs -------------------------
(***************************************************************************)
(* The safety of staff actions for any number of presses, verbs and        *)
(* writers. The invariants are not inductive alone: that a close decides   *)
(* with the current attempt rests on what a coroutine read still being     *)
(* true while the revision it read is the case's (ReadIsCurrent), and that *)
(* a running action keeps its guard rests on an attempt having its audit   *)
(* record only once its effect is over (AuditedAfter).                     *)
(*                                                                         *)
(* From the same invariant follows that the actions implement              *)
(* CaseLifecycle (Implements): a write at the revision read was decided on *)
(* the present case.                                                       *)
(***************************************************************************)
EXTENDS CaseActions, TLAPS

(* The guard is that of the attempt started last, on an actionable case. *)
GuardIsLatest ==
  \A a \in Attempt :
    /\ case.pending = a => case.status \in Actionable /\ case.started = a
    /\ case.started = a => epoch[a] = case.reopened

(* Revisions only grow, so what p read at the current one still holds. *)
ReadIsCurrent(p) ==
  /\ run[p].revision <= case.revision
  /\ /\ run[p].at \in {"claiming", "guarding", "deciding", "proven"}
     /\ run[p].revision = case.revision
     => case.status \in Actionable
  /\ /\ run[p].at \in {"deciding", "proven"}
     /\ run[p].revision = case.revision
     => run[p].token = IF run[p].pending # None THEN run[p].pending
                                                ELSE case.started
  /\ run[p].at = "proven" => run[p].token \in audits
  /\ p = Repair /\ run[p].at = "releasing" => run[p].token # None

(* Before its audit record an attempt has none; after it, it does. *)
AuditedAfter(a) ==
  /\ run[a].at \in {"idle", "claiming", "guarding", "acting", "applied"}
       => a \notin audits
  /\ run[a].at = "audited" => a \in audits
  /\ run[a].at \in {"finishing", "closing"} /\ verb[a] \in AuditedVerb
       => a \in audits

(* EffectUnderGuard, for one attempt. *)
KeepsGuard(a) ==
  run[a].at \in {"acting", "applied"} => case.pending = a \/ a \in abandoned

LocalOK(p) ==
  /\ ReadIsCurrent(p)
  /\ p \in Attempt => AuditedAfter(p) /\ KeepsGuard(p)

IInv ==
  /\ TypeOK
  /\ GuardIsLatest
  /\ DecisionIsCurrent
  /\ \A p \in Process : LocalOK(p)

(* Initially no attempt has begun. *)
LEMMA InitIInv == Init => IInv
  BY ConstantsAssumption
  DEF Init, IInv, TypeOK, GuardIsLatest, AuditedAfter, ReadIsCurrent,
      KeepsGuard, LocalOK, DecisionIsCurrent, CaseType, Local, Place, At,
      Process, Status, Actionable, Closed

-----------------------------------------------------------------------------
(* What the small steps do to the locals and to the case. *)
(* The other coroutines keep their locals. *)
Alone(p) == \A q \in Process : q # p => run'[q] = run[q]

(* Moving on keeps what the coroutine read. *)
LEMMA GotoFacts ==
  ASSUME run \in [Process -> Local], NEW p \in Process, NEW place \in Place,
         Goto(p, place)
  PROVE  /\ run' \in [Process -> Local]
         /\ run'[p].at = place
         /\ run'[p].revision = run[p].revision
         /\ run'[p].pending = run[p].pending
         /\ run'[p].token = run[p].token
         /\ Alone(p)
<1> DEFINE r == [run[p] EXCEPT !.at = place]
<1>1. r \in Local /\ r.at = place /\ r.revision = run[p].revision
        /\ r.pending = run[p].pending /\ r.token = run[p].token
  BY DEF Local
<1>2. run' = [run EXCEPT ![p] = r]
  BY DEF Goto
<1> HIDE DEF r
<1> QED BY <1>1, <1>2 DEF Alone

(* Ending forgets it. *)
LEMMA EndFacts ==
  ASSUME run \in [Process -> Local], NEW p \in Process, NEW place \in Place,
         End(p, place)
  PROVE  /\ run' \in [Process -> Local]
         /\ run'[p].at = place
         /\ run'[p].revision = 0
         /\ Alone(p)
<1>1. At(place) \in Local /\ At(place).at = place /\ At(place).revision = 0
  BY DEF At, Local
<1> QED BY <1>1 DEF End, Alone

(* Reading takes the revision and the guard of the moment. *)
LEMMA ReadFacts ==
  ASSUME run \in [Process -> Local], case \in CaseType, NEW p \in Process,
         NEW place \in Place, NEW token \in Attempt \union {None},
         Read(p, token, place)
  PROVE  /\ run' \in [Process -> Local]
         /\ run'[p].at = place
         /\ run'[p].revision = case.revision
         /\ run'[p].pending = case.pending
         /\ run'[p].token = token
         /\ Alone(p)
<1> DEFINE r == [run[p] EXCEPT !.at = place, !.revision = case.revision,
                               !.pending = case.pending, !.token = token]
<1>1. r \in Local /\ r.at = place /\ r.revision = case.revision
        /\ r.pending = case.pending /\ r.token = token
  BY DEF Local, CaseType
<1>2. run' = [run EXCEPT ![p] = r]
  BY DEF Read
<1> HIDE DEF r
<1> QED BY <1>1, <1>2 DEF Alone

(* A close sets the decision and takes the guard away. *)
LEMMA CloseFacts ==
  ASSUME case \in CaseType, NEW token \in Attempt, CloseWith(token)
  PROVE  /\ case' \in CaseType
         /\ case'.status \in Closed
         /\ case'.pending = None
         /\ case'.resolution = token
         /\ case'.revision = case.revision + 1
         /\ case'.started = case.started
         /\ case'.reopened = case.reopened
<1>1. PICK s \in Closed :
        Write([case EXCEPT !.status = s, !.resolution = token,
                           !.pending = None, !.old = FALSE])
  BY DEF CloseWith
<1> DEFINE c == [case EXCEPT !.status = s, !.resolution = token,
                             !.pending = None, !.old = FALSE]
<1>2. c \in CaseType /\ c.status = s /\ c.pending = None
        /\ c.resolution = token /\ c.revision = case.revision
        /\ c.started = case.started /\ c.reopened = case.reopened
  BY DEF CaseType, Status, Closed
<1>3. case' = [c EXCEPT !.revision = c.revision + 1]
  BY <1>1 DEF Write
<1> HIDE DEF c
<1> QED BY <1>2, <1>3 DEF CaseType

(* A released guard changes nothing else. *)
LEMMA LetGoFacts ==
  ASSUME case \in CaseType, LetGo
  PROVE  /\ case' \in CaseType
         /\ case'.pending = None
         /\ case'.revision = case.revision + 1
         /\ case'.status = case.status
         /\ case'.started = case.started
         /\ case'.resolution = case.resolution
         /\ case'.reopened = case.reopened
<1> DEFINE c == [case EXCEPT !.pending = None, !.old = FALSE]
<1>1. c \in CaseType /\ c.pending = None /\ c.status = case.status
        /\ c.resolution = case.resolution /\ c.revision = case.revision
        /\ c.started = case.started /\ c.reopened = case.reopened
  BY DEF CaseType
<1>2. case' = [c EXCEPT !.revision = c.revision + 1]
  BY DEF LetGo, Write
<1> HIDE DEF c
<1> QED BY <1>1, <1>2 DEF CaseType

(* A lost recovery moves one coroutine and reads nothing. *)
LEMMA NotRecoveredFacts ==
  ASSUME run \in [Process -> Local], NEW p \in Process, NotRecovered(p)
  PROVE  /\ run' \in [Process -> Local]
         /\ run'[p].at \in {"releasing", "abandoning", "idle"}
         /\ p # Repair <=> run'[p].at = "releasing"
         /\ run'[p].revision \in {0, run[p].revision}
         /\ Alone(p)
<1>1. CASE p # Repair /\ Goto(p, "releasing")
  BY <1>1, GotoFacts DEF Place, Running
<1>2. CASE p = Repair /\ Goto(p, "abandoning")
  BY <1>2, GotoFacts DEF Place, Repairing
<1>3. CASE p = Repair /\ End(p, "idle")
  BY <1>3, EndFacts DEF Place
<1> QED BY <1>1, <1>2, <1>3 DEF NotRecovered

(* What the other writers may write: never another guard, no status under a
   guard, and a decision only by closing an open case or reopening it. *)
LEMMA OtherFacts ==
  ASSUME case \in CaseType, OtherStep
  PROVE  \E c \in CaseType :
           /\ Other(c)
           /\ c.revision = case.revision /\ c.pending = case.pending
           /\ case.pending # None => c.status = case.status
           /\ \/ /\ case.pending = None /\ c.started = None
                 /\ c.resolution = None
              \/ /\ c.started = case.started /\ c.reopened = case.reopened
                 /\ \/ c.resolution = Observed
                    \/ /\ c.resolution = case.resolution
                       /\ c.status = case.status \/ case.status \notin Closed
<1> USE DEF CaseType, Status, Actionable, Closed
<1>1. CASE Join
  BY <1>1 DEF Join
<1>2. CASE Checkpoint
  BY <1>2 DEF Checkpoint
<1>3. CASE FinishCreation
  <2> WITNESS [case EXCEPT !.status = "open"] \in CaseType
  <2> QED BY <1>3 DEF FinishCreation, Decide
<1>4. CASE Take
  <2> WITNESS [case EXCEPT !.status = "taken"] \in CaseType
  <2> QED BY <1>4 DEF Take, Decide
<1>5. CASE Release
  <2> WITNESS [case EXCEPT !.status = "open"] \in CaseType
  <2> QED BY <1>5 DEF Release, Decide
<1>6. CASE Cancel
  <2> WITNESS [case EXCEPT !.status = "cancelled"] \in CaseType
  <2> QED BY <1>6 DEF Cancel, Decide
<1>7. CASE CloseObserved
  <2> DEFINE c == [[case EXCEPT !.resolution = Observed, !.pending = None]
                     EXCEPT !.status = "resolved"]
  <2>1. Other(c) /\ case.pending = None
    BY <1>7 DEF CloseObserved, Decide
  <2>2. /\ c \in CaseType /\ c.revision = case.revision /\ c.pending = None
        /\ c.started = case.started /\ c.reopened = case.reopened
        /\ c.resolution = Observed
    OBVIOUS
  <2> HIDE DEF c
  <2> QED BY <2>1, <2>2
<1>8. CASE Reopen
  <2> DEFINE n == case.reopened + 1
             c == [[case EXCEPT !.resolution = None, !.started = None,
                                !.reopened = n] EXCEPT !.status = "open"]
  <2>1. Other(c) /\ case.pending = None /\ n \in Nat
    BY <1>8 DEF Reopen, Decide
  <2> HIDE DEF n
  <2>2. /\ c \in CaseType /\ c.revision = case.revision
        /\ c.pending = case.pending
        /\ c.started = None /\ c.resolution = None
    BY <2>1
  <2> HIDE DEF c
  <2> QED BY <2>1, <2>2
<1> QED BY <1>1, <1>2, <1>3, <1>4, <1>5, <1>6, <1>7, <1>8 DEF OtherStep

-----------------------------------------------------------------------------
(* A step that moves one coroutine and leaves the case alone has only that
   coroutine to answer for. *)
LEMMA MoveStep ==
  ASSUME IInv, NEW p \in Process, TypeOK', Alone(p), LocalOK(p)',
         UNCHANGED <<case, audits, verb, abandoned, epoch>>
  PROVE  IInv'
<1>1. GuardIsLatest' /\ DecisionIsCurrent'
  BY DEF IInv, GuardIsLatest, DecisionIsCurrent
<1>2. ASSUME NEW q \in Process, q # p
      PROVE  LocalOK(q)'
  <2>1. run'[q] = run[q] /\ LocalOK(q)
    BY <1>2 DEF Alone, IInv
  <2> QED BY <2>1 DEF LocalOK, ReadIsCurrent, AuditedAfter, KeepsGuard
<1> QED BY <1>1, <1>2 DEF IInv

(* A write outdates what every other coroutine read; what is left to show is
   that it takes the guard from nobody who is still acting. *)
LEMMA WriteStep ==
  ASSUME IInv, NEW p \in Process, TypeOK', Alone(p), LocalOK(p)',
         case'.revision = case.revision + 1,
         GuardIsLatest', DecisionIsCurrent',
         UNCHANGED <<audits, verb>>,
         abandoned \subseteq abandoned',
         \A a \in Attempt : a # p /\ KeepsGuard(a) => KeepsGuard(a)'
  PROVE  IInv'
<1>1. ASSUME NEW q \in Process, q # p
      PROVE  LocalOK(q)'
  <2>1. run'[q] = run[q] /\ LocalOK(q)
    BY <1>1 DEF Alone, IInv
  <2>2. run[q].revision \in Nat /\ case.revision \in Nat
    BY DEF IInv, TypeOK, Local, CaseType
  <2>3. ReadIsCurrent(q)'
    BY <2>1, <2>2 DEF LocalOK, ReadIsCurrent
  <2>4. ASSUME q \in Attempt PROVE AuditedAfter(q)' /\ KeepsGuard(q)'
    BY <1>1, <2>1, <2>4 DEF LocalOK, AuditedAfter
  <2> QED BY <2>3, <2>4 DEF LocalOK
<1> QED BY <1>1 DEF IInv

(* The same for the writers outside the actions, which move no coroutine. *)
LEMMA OutsideStep ==
  ASSUME IInv, TypeOK', case'.revision = case.revision + 1,
         GuardIsLatest', DecisionIsCurrent', case'.pending = case.pending,
         UNCHANGED <<audits, verb, run, abandoned>>
  PROVE  IInv'
<1>1. ASSUME NEW q \in Process
      PROVE  LocalOK(q)'
  <2>1. LocalOK(q) /\ run[q].revision \in Nat /\ case.revision \in Nat
    BY DEF IInv, TypeOK, Local, CaseType
  <2> QED BY <2>1 DEF LocalOK, ReadIsCurrent, AuditedAfter, KeepsGuard
<1> QED BY <1>1 DEF IInv
-----------------------------------------------------------------------------
(* The inductive step, one case per action. *)
LEMMA StepIInv == IInv /\ [Next]_vars => IInv'
<1> SUFFICES ASSUME IInv, [Next]_vars
             PROVE  IInv'
  OBVIOUS
<1>0. /\ case \in CaseType /\ run \in [Process -> Local]
      /\ case.revision \in Nat /\ case.pending \in Attempt \union {None}
      /\ case.started \in Attempt \union {None}
      /\ \A p \in Process : LocalOK(p) /\ run[p].revision \in Nat
  BY DEF IInv, TypeOK, CaseType, Local
<1> USE ConstantsAssumption DEF Process
<1>1. ASSUME NEW a \in Attempt, Press(a)
      PROVE  IInv'
  <2>1. /\ run' \in [Process -> Local] /\ Alone(a)
        /\ run'[a].at \in {"claiming"}
        /\ run'[a].revision = case.revision
    BY <1>0, <1>1, ReadFacts DEF Press, Place, Running, Repairing, Ended
  <2>2. LocalOK(a)'
    BY <1>0, <1>1, <2>1
    DEF Press, LocalOK, ReadIsCurrent, AuditedAfter, KeepsGuard
  <2> QED BY <1>0, <1>1, <2>1, <2>2, MoveStep DEF Press, IInv, TypeOK
<1>2. ASSUME NEW a \in Attempt, Claim(a)
      PROVE  IInv'
  <2>1. /\ run' \in [Process -> Local] /\ Alone(a)
        /\ run'[a].at \in {"refused", "guarding"}
        /\ run'[a].revision \in {0, run[a].revision}
    BY <1>0, <1>2, EndFacts, GotoFacts
    DEF Claim, Place, Running, Repairing, Ended
  <2>2. LocalOK(a)'
    BY <1>0, <1>2, <2>1
    DEF Claim, LocalOK, ReadIsCurrent, AuditedAfter, KeepsGuard, Actionable
  <2> QED BY <1>0, <1>2, <2>1, <2>2, MoveStep DEF Claim, IInv, TypeOK
<1>3. ASSUME NEW a \in Attempt, Apply(a)
      PROVE  IInv'
  <2>1. /\ run' \in [Process -> Local] /\ Alone(a)
        /\ run'[a].at \in {"applied"}
        /\ run'[a].revision \in {0, run[a].revision}
    BY <1>0, <1>3, GotoFacts DEF Apply, Place, Running, Repairing, Ended
  <2>2. LocalOK(a)'
    BY <1>0, <1>3, <2>1
    DEF Apply, LocalOK, ReadIsCurrent, AuditedAfter, KeepsGuard, Actionable
  <2> QED BY <1>0, <1>3, <2>1, <2>2, MoveStep DEF Apply, IInv, TypeOK
<1>4. ASSUME NEW a \in Attempt, Return(a)
      PROVE  IInv'
  <2>1. /\ run' \in [Process -> Local] /\ Alone(a)
        /\ run'[a].at \in {"finishing"}
        /\ run'[a].revision \in {0, run[a].revision}
    BY <1>0, <1>4, GotoFacts DEF Return, Place, Running, Repairing, Ended
  <2>2. LocalOK(a)'
    BY <1>0, <1>4, <2>1
    DEF Return, LocalOK, ReadIsCurrent, AuditedAfter, KeepsGuard, Actionable
  <2> QED BY <1>0, <1>4, <2>1, <2>2, MoveStep DEF Return, IInv, TypeOK
<1>5. ASSUME NEW a \in Attempt, Raise(a)
      PROVE  IInv'
  <2>1. /\ run' \in [Process -> Local] /\ Alone(a)
        /\ run'[a].at \in {"recovering"}
        /\ run'[a].revision \in {0, run[a].revision}
    BY <1>0, <1>5, GotoFacts DEF Raise, Place, Running, Repairing, Ended
  <2>2. LocalOK(a)'
    BY <1>0, <1>5, <2>1
    DEF Raise, LocalOK, ReadIsCurrent, AuditedAfter, KeepsGuard, Actionable
  <2> QED BY <1>0, <1>5, <2>1, <2>2, MoveStep DEF Raise, IInv, TypeOK
<1>6. ASSUME NEW a \in Attempt, FinishRead(a)
      PROVE  IInv'
  <2>1. /\ run' \in [Process -> Local] /\ Alone(a)
        /\ run'[a].at \in {"closing", "raced"}
        /\ run'[a].revision \in {0, case.revision}
    BY <1>0, <1>6, ReadFacts, EndFacts
    DEF FinishRead, Place, Running, Repairing, Ended
  <2>2. LocalOK(a)'
    BY <1>0, <1>6, <2>1
    DEF FinishRead, LocalOK, ReadIsCurrent, AuditedAfter, KeepsGuard,
        Actionable
  <2> QED BY <1>0, <1>6, <2>1, <2>2, MoveStep DEF FinishRead, IInv, TypeOK
<1>7. ASSUME NEW a \in Attempt, Die(a)
      PROVE  IInv'
  <2>1. /\ run' \in [Process -> Local] /\ Alone(a)
        /\ run'[a].at \in {"dead"}
        /\ run'[a].revision \in {0, run[a].revision}
    BY <1>0, <1>7, EndFacts DEF Die, Place, Running, Repairing, Ended
  <2>2. LocalOK(a)'
    BY <1>0, <1>7, <2>1
    DEF Die, LocalOK, ReadIsCurrent, AuditedAfter, KeepsGuard, Actionable
  <2> QED BY <1>0, <1>7, <2>1, <2>2, MoveStep DEF Die, IInv, TypeOK
<1>8. ASSUME RepairList
      PROVE  IInv'
  <2> DEFINE r == [run[Repair] EXCEPT !.at = "listing",
                                      !.listed = case.pending]
  <2>1. r \in Local /\ r.at = "listing" /\ r.revision = run[Repair].revision
    <3>1. run[Repair] \in Local /\ case.pending \in Attempt \union {None}
      BY <1>0 DEF IInv, TypeOK, CaseType, Process
    <3> QED BY <3>1 DEF Local, Place, Repairing
  <2>2. run' = [run EXCEPT ![Repair] = r]
    BY <1>8 DEF RepairList
  <2> HIDE DEF r
  <2>3. /\ run' \in [Process -> Local] /\ Alone(Repair)
        /\ run'[Repair].at = "listing"
        /\ run'[Repair].revision = run[Repair].revision
    BY <1>0, <2>1, <2>2 DEF Alone
  <2>4. LocalOK(Repair)'
    BY <1>0, <1>8, <2>3 DEF RepairList, LocalOK, ReadIsCurrent
  <2> QED BY <1>8, <2>3, <2>4, MoveStep DEF RepairList, IInv, TypeOK
<1>9. ASSUME RepairAudited
      PROVE  IInv'
  <2>1. /\ run' \in [Process -> Local] /\ Alone(Repair)
        /\ run'[Repair].at \in {"recovering", "abandoning", "idle"}
        /\ run'[Repair].revision \in {0, run[Repair].revision}
    BY <1>0, <1>9, GotoFacts, NotRecoveredFacts
    DEF RepairAudited, Place, Running, Repairing, Ended
  <2>2. LocalOK(Repair)'
    BY <1>0, <1>9, <2>1
    DEF RepairAudited, LocalOK, ReadIsCurrent, AuditedAfter, KeepsGuard,
        Actionable
  <2> QED BY <1>0, <1>9, <2>1, <2>2, MoveStep DEF RepairAudited, IInv, TypeOK
<1>10. ASSUME AbandonRead
       PROVE  IInv'
  <2>1. /\ run' \in [Process -> Local] /\ Alone(Repair)
        /\ run'[Repair].at \in {"releasing", "idle"}
        /\ run'[Repair].at = "releasing" => run'[Repair].token # None
        /\ run'[Repair].revision \in {0, case.revision}
    BY <1>0, <1>10, ReadFacts, EndFacts
    DEF AbandonRead, Place, Running, Repairing, Ended
  <2>2. LocalOK(Repair)'
    BY <1>0, <1>10, <2>1
    DEF AbandonRead, LocalOK, ReadIsCurrent, AuditedAfter, KeepsGuard,
        Actionable
  <2> QED BY <1>0, <1>10, <2>1, <2>2, MoveStep DEF AbandonRead, IInv, TypeOK
<1>11. ASSUME RepairDies
       PROVE  IInv'
  <2>1. /\ run' \in [Process -> Local] /\ Alone(Repair)
        /\ run'[Repair].at \in {"idle"}
        /\ run'[Repair].revision \in {0, run[Repair].revision}
    BY <1>0, <1>11, EndFacts DEF RepairDies, Place, Running, Repairing, Ended
  <2>2. LocalOK(Repair)'
    BY <1>0, <1>11, <2>1
    DEF RepairDies, LocalOK, ReadIsCurrent, AuditedAfter, KeepsGuard,
        Actionable
  <2> QED BY <1>0, <1>11, <2>1, <2>2, MoveStep DEF RepairDies, IInv, TypeOK
<1>12. ASSUME NEW a \in Attempt, Audit(a)
       PROVE  IInv'
  <2>1. /\ run' \in [Process -> Local] /\ Alone(a)
        /\ run'[a].at = "audited" /\ run'[a].revision = run[a].revision
    BY <1>0, <1>12, GotoFacts DEF Audit, Place, Running, Repairing, Ended
  <2>2. TypeOK' /\ GuardIsLatest' /\ DecisionIsCurrent'
    BY <1>0, <1>12, <2>1
    DEF Audit, IInv, TypeOK, GuardIsLatest, DecisionIsCurrent
  <2>3. ASSUME NEW q \in Process
        PROVE  LocalOK(q)'
    <3>1. CASE q = a
      BY <1>0, <1>12, <2>1, <3>1
      DEF Audit, LocalOK, ReadIsCurrent, AuditedAfter, KeepsGuard
    <3>2. CASE q # a
      <4>1. run'[q] = run[q] /\ LocalOK(q) /\ audits \subseteq audits'
        BY <1>0, <1>12, <2>1, <3>2 DEF Audit, Alone
      <4>2. q \in Attempt => (q \in audits' <=> q \in audits)
        BY <1>12, <3>2 DEF Audit
      <4> QED
        BY <1>12, <4>1, <4>2
        DEF Audit, LocalOK, ReadIsCurrent, AuditedAfter, KeepsGuard
    <3> QED BY <3>1, <3>2
  <2> QED BY <2>2, <2>3 DEF IInv
<1>13. ASSUME NEW p \in Process, RecoverRead(p)
       PROVE  IInv'
  <2> DEFINE t == IF case.pending # None THEN case.pending ELSE case.started
  <2>1. CASE case.status \in Actionable
    <3>1. Read(p, t, "deciding")
      BY <1>13, <2>1 DEF RecoverRead
    <3>2. t \in Attempt \union {None}
      BY <1>0
    <3> HIDE DEF t
    <3>3. /\ run' \in [Process -> Local] /\ Alone(p)
          /\ run'[p].at = "deciding" /\ run'[p].revision = case.revision
          /\ run'[p].pending = case.pending /\ run'[p].token = t
      BY <1>0, <3>1, <3>2, ReadFacts DEF Place, Running, Repairing, Ended
    <3>4. LocalOK(p)'
      BY <1>0, <1>13, <2>1, <3>3
      DEF t, RecoverRead, LocalOK, ReadIsCurrent, AuditedAfter, KeepsGuard
    <3> QED
      BY <1>0, <1>13, <3>3, <3>4, MoveStep DEF RecoverRead, IInv, TypeOK
  <2>2. CASE case.status \notin Actionable
    <3>1. /\ run' \in [Process -> Local] /\ Alone(p)
          /\ run'[p].at \in {"releasing", "abandoning", "idle"}
          /\ p # Repair <=> run'[p].at = "releasing"
          /\ run'[p].revision \in {0, run[p].revision}
      BY <1>0, <1>13, <2>2, NotRecoveredFacts DEF RecoverRead
    <3>2. LocalOK(p)'
      BY <1>0, <1>13, <3>1
      DEF RecoverRead, LocalOK, ReadIsCurrent, AuditedAfter, KeepsGuard
    <3> QED
      BY <1>0, <1>13, <3>1, <3>2, MoveStep DEF RecoverRead, IInv, TypeOK
  <2> QED BY <2>1, <2>2
<1>14. ASSUME NEW p \in Process, RecoverDecide(p)
       PROVE  IInv'
  <2>1. CASE run[p].token \in audits /\ Goto(p, "proven")
    <3>1. /\ run' \in [Process -> Local] /\ Alone(p)
          /\ run'[p].at = "proven" /\ run'[p].revision = run[p].revision
          /\ run'[p].pending = run[p].pending /\ run'[p].token = run[p].token
      BY <1>0, <2>1, GotoFacts DEF Place, Running, Repairing, Ended
    <3>2. LocalOK(p)'
      BY <1>0, <1>14, <2>1, <3>1
      DEF RecoverDecide, LocalOK, ReadIsCurrent, AuditedAfter, KeepsGuard
    <3> QED
      BY <1>0, <1>14, <3>1, <3>2, MoveStep DEF RecoverDecide, IInv, TypeOK
  <2>2. CASE NotRecovered(p)
    <3>1. /\ run' \in [Process -> Local] /\ Alone(p)
          /\ run'[p].at \in {"releasing", "abandoning", "idle"}
          /\ p # Repair <=> run'[p].at = "releasing"
          /\ run'[p].revision \in {0, run[p].revision}
      BY <1>0, <2>2, NotRecoveredFacts
    <3>2. LocalOK(p)'
      BY <1>0, <1>14, <3>1
      DEF RecoverDecide, LocalOK, ReadIsCurrent, AuditedAfter, KeepsGuard
    <3> QED
      BY <1>0, <1>14, <3>1, <3>2, MoveStep DEF RecoverDecide, IInv, TypeOK
  <2> QED BY <1>14, <2>1, <2>2 DEF RecoverDecide
<1>15. ASSUME NEW a \in Attempt, Guard(a)
       PROVE  IInv'
  <2>1. CASE CasHolds(a, None)
    <3> DEFINE c == [case EXCEPT !.pending = a, !.old = FALSE, !.started = a]
    <3>1. /\ c \in CaseType /\ c.revision = case.revision /\ c.pending = a
          /\ c.started = a /\ c.status = case.status
          /\ c.resolution = case.resolution /\ c.reopened = case.reopened
      BY <1>0 DEF CaseType
    <3>2. case' = [c EXCEPT !.revision = c.revision + 1]
      BY <1>15, <2>1 DEF Guard, Write
    <3> HIDE DEF c
    <3>3. /\ case' \in CaseType /\ case'.revision = case.revision + 1
          /\ case'.pending = a /\ case'.started = a
          /\ case'.status = case.status /\ case'.reopened = case.reopened
          /\ case'.resolution = case.resolution
      BY <3>1, <3>2 DEF CaseType
    <3>4. /\ run' \in [Process -> Local] /\ Alone(a)
          /\ run'[a].at = "acting" /\ run'[a].revision = run[a].revision
      BY <1>0, <1>15, <2>1, GotoFacts
      DEF Guard, Place, Running, Repairing, Ended
    <3>5. epoch' \in [Attempt -> Nat] /\ epoch'[a] = case.reopened
      BY <1>0, <1>15, <2>1 DEF Guard, IInv, TypeOK, CaseType
    <3>6. case.status \in Actionable /\ case.pending = None
      BY <1>0, <1>15, <2>1 DEF Guard, CasHolds, LocalOK, ReadIsCurrent
    <3>7. TypeOK'
      BY <1>15, <3>3, <3>4, <3>5 DEF Guard, IInv, TypeOK
    <3>8. GuardIsLatest'
      BY <3>3, <3>5, <3>6 DEF GuardIsLatest
    <3>9. DecisionIsCurrent'
      BY <3>3, <3>6 DEF IInv, DecisionIsCurrent, Actionable, Closed
    <3>10. LocalOK(a)'
      BY <1>0, <1>15, <2>1, <3>3, <3>4
      DEF Guard, CasHolds, LocalOK, ReadIsCurrent, AuditedAfter, KeepsGuard
    <3>11. \A b \in Attempt : b # a /\ KeepsGuard(b) => KeepsGuard(b)'
      BY <1>15, <3>4, <3>6 DEF Guard, KeepsGuard, Alone
    <3> QED
      BY <1>15, <3>3, <3>4, <3>7, <3>8, <3>9, <3>10, <3>11, WriteStep
      DEF Guard
  <2>2. CASE ~CasHolds(a, None)
    <3>1. /\ run' \in [Process -> Local] /\ Alone(a)
          /\ run'[a].at = "refused" /\ run'[a].revision = 0
      BY <1>0, <1>15, <2>2, EndFacts
      DEF Guard, Place, Running, Repairing, Ended
    <3>2. LocalOK(a)'
      BY <1>0, <1>15, <2>2, <3>1
      DEF Guard, LocalOK, ReadIsCurrent, AuditedAfter, KeepsGuard
    <3> QED
      BY <1>0, <1>15, <2>2, <3>1, <3>2, MoveStep DEF Guard, IInv, TypeOK
  <2> QED BY <2>1, <2>2
<1>16. ASSUME NEW a \in Attempt, FinishClose(a)
       PROVE  IInv'
  <2>1. CASE CasHolds(a, a) /\ CloseWith(a) /\ End(a, "done")
    <3>0. /\ case.pending = a /\ case.started = a /\ epoch[a] = case.reopened
          /\ verb[a] \in AuditedVerb => a \in audits
      BY <1>0, <1>16, <2>1
      DEF FinishClose, CasHolds, IInv, GuardIsLatest, LocalOK, AuditedAfter
    <3>1. /\ case' \in CaseType /\ case'.revision = case.revision + 1
          /\ case'.status \in Closed /\ case'.pending = None
          /\ case'.resolution = a /\ case'.started = case.started
          /\ case'.reopened = case.reopened
      BY <1>0, <3>0, <2>1, CloseFacts
    <3>2. /\ run' \in [Process -> Local] /\ Alone(a)
          /\ run'[a].at \in {"done"} /\ run'[a].revision = 0
      BY <1>0, <2>1, EndFacts DEF Place, Running, Repairing, Ended
    <3>3. TypeOK'
      BY <1>16, <3>1, <3>2 DEF FinishClose, IInv, TypeOK
    <3>4. GuardIsLatest'
      BY <1>0, <1>16, <3>1 DEF FinishClose, IInv, GuardIsLatest
    <3>5. DecisionIsCurrent'
      BY <1>16, <3>0, <3>1
      DEF FinishClose, IInv, GuardIsLatest, DecisionIsCurrent
    <3>6. LocalOK(a)'
      BY <1>0, <3>1, <3>2
      DEF LocalOK, ReadIsCurrent, AuditedAfter, KeepsGuard
    <3>7. \A b \in Attempt : b # a /\ KeepsGuard(b) => KeepsGuard(b)'
      BY <1>0, <1>16, <3>0, <3>2
      DEF FinishClose, KeepsGuard, LocalOK, AuditedAfter, Alone
    <3> QED
      BY <1>16, <3>1, <3>2, <3>3, <3>4, <3>5, <3>6, <3>7, WriteStep
      DEF FinishClose
  <2>2. CASE UNCHANGED case
    <3>1. ASSUME run' = [run EXCEPT ![a].at = "finishing", ![a].tries = @ + 1]
          PROVE  /\ run' \in [Process -> Local] /\ Alone(a)
                 /\ run'[a].at = "finishing"
                 /\ run'[a].revision = run[a].revision
      <4> DEFINE t == run[a].tries + 1
                 r == [run[a] EXCEPT !.at = "finishing", !.tries = t]
      <4>1. t \in Nat /\ run[a] \in Local
        BY <1>0 DEF Local
      <4>2. run' = [run EXCEPT ![a] = r]
        BY <3>1
      <4> HIDE DEF t
      <4>3. r \in Local /\ r.at = "finishing" /\ r.revision = run[a].revision
        BY <4>1 DEF Local, Place, Running, Repairing, Ended
      <4> HIDE DEF r
      <4> QED BY <1>0, <4>2, <4>3 DEF Alone
    <3>2. /\ run' \in [Process -> Local] /\ Alone(a)
          /\ run'[a].at \in {"raced", "finishing"}
          /\ run'[a].revision \in {0, run[a].revision}
      <4>1. CASE End(a, "raced")
        BY <1>0, <4>1, EndFacts DEF Place, Running, Repairing, Ended
      <4>2. CASE End(a, "done") /\ case'.revision = case.revision + 1
        BY <1>0, <2>2, <4>2
      <4> QED
        BY <1>0, <1>16, <2>2, <3>1, <4>1, <4>2, CloseFacts DEF FinishClose
    <3>3. LocalOK(a)'
      BY <1>0, <1>16, <2>2, <3>2
      DEF FinishClose, LocalOK, ReadIsCurrent, AuditedAfter, KeepsGuard
    <3> QED
      BY <1>0, <1>16, <2>2, <3>2, <3>3, MoveStep
      DEF FinishClose, IInv, TypeOK
  <2> QED BY <1>16, <2>1, <2>2 DEF FinishClose
<1>17. ASSUME NEW p \in Process, RecoverClose(p)
       PROVE  IInv'
  <2>1. CASE /\ CasHolds(p, run[p].pending)
             /\ CloseWith(run[p].token)
             /\ Recovered(p)
    <3> DEFINE t == run[p].token
    <3>0. /\ t \in Attempt /\ t \in audits /\ case.started = t
          /\ epoch[t] = case.reopened /\ case.pending \in {None, t}
      BY <1>0, <1>17, <2>1
      DEF RecoverClose, CasHolds, IInv, TypeOK, GuardIsLatest, LocalOK,
          ReadIsCurrent
    <3>1. /\ case' \in CaseType /\ case'.revision = case.revision + 1
          /\ case'.status \in Closed /\ case'.pending = None
          /\ case'.resolution = t /\ case'.started = case.started
          /\ case'.reopened = case.reopened
      BY <1>0, <3>0, <2>1, CloseFacts
    <3>2. /\ run' \in [Process -> Local] /\ Alone(p)
          /\ run'[p].at \in {"idle", "done"} /\ run'[p].revision = 0
          /\ p \in Attempt => run'[p].at = "done"
      <4>1. CASE p = Repair
        BY <1>0, <2>1, <4>1, EndFacts, ConstantsAssumption
        DEF Recovered, Place
      <4>2. CASE p # Repair
        BY <1>0, <2>1, <4>2, EndFacts DEF Recovered, Place, Ended
      <4> QED BY <4>1, <4>2
    <3>3. TypeOK'
      BY <1>17, <3>1, <3>2 DEF RecoverClose, IInv, TypeOK
    <3>4. GuardIsLatest'
      BY <1>0, <1>17, <3>1 DEF RecoverClose, IInv, GuardIsLatest
    <3>5. DecisionIsCurrent'
      <4>1. UNCHANGED <<audits, verb, epoch>>
        BY <1>17 DEF RecoverClose
      <4>2. /\ case'.status \in Closed /\ case'.started = t
            /\ epoch'[t] = case'.reopened /\ t \in audits'
        BY <3>0, <3>1, <4>1
      <4>3. ASSUME NEW b \in Attempt, case'.resolution = b
            PROVE  /\ case'.status \in Closed
                   /\ case'.started = b
                   /\ epoch'[b] = case'.reopened
                   /\ verb'[b] \in AuditedVerb => b \in audits'
        <5>1. b = t
          BY <3>1, <4>3
        <5> QED BY <4>2, <5>1
      <4> QED BY <4>3 DEF DecisionIsCurrent
    <3>6. LocalOK(p)'
      BY <1>0, <3>1, <3>2
      DEF LocalOK, ReadIsCurrent, AuditedAfter, KeepsGuard
    <3>7. \A b \in Attempt : b # p /\ KeepsGuard(b) => KeepsGuard(b)'
      BY <1>0, <1>17, <3>0, <3>2
      DEF RecoverClose, KeepsGuard, LocalOK, AuditedAfter, Alone
    <3> QED
      BY <1>17, <3>1, <3>2, <3>3, <3>4, <3>5, <3>6, <3>7, WriteStep
      DEF RecoverClose
  <2>2. CASE UNCHANGED case /\ NotRecovered(p)
    <3>1. /\ run' \in [Process -> Local] /\ Alone(p)
          /\ run'[p].at \in {"releasing", "abandoning", "idle"}
          /\ p # Repair <=> run'[p].at = "releasing"
          /\ run'[p].revision \in {0, run[p].revision}
      BY <1>0, <2>2, NotRecoveredFacts
    <3>2. LocalOK(p)'
      BY <1>0, <1>17, <2>2, <3>1
      DEF RecoverClose, LocalOK, ReadIsCurrent, AuditedAfter, KeepsGuard
    <3> QED
      BY <1>0, <1>17, <2>2, <3>1, <3>2, MoveStep
      DEF RecoverClose, IInv, TypeOK
  <2>3. CASE UNCHANGED case /\ Recovered(p)
    <3>1. /\ run' \in [Process -> Local] /\ Alone(p)
          /\ run'[p].at \in {"idle", "done"}
          /\ p # Repair => run'[p].at = "done"
          /\ run'[p].revision = 0
      <4>1. CASE p = Repair
        BY <1>0, <2>3, <4>1, EndFacts DEF Recovered, Place
      <4>2. CASE p # Repair
        BY <1>0, <2>3, <4>2, EndFacts DEF Recovered, Place, Ended
      <4> QED BY <4>1, <4>2
    <3>2. LocalOK(p)'
      BY <1>0, <1>17, <2>3, <3>1
      DEF RecoverClose, LocalOK, ReadIsCurrent, AuditedAfter, KeepsGuard
    <3> QED
      BY <1>0, <1>17, <2>3, <3>1, <3>2, MoveStep
      DEF RecoverClose, IInv, TypeOK
  <2> QED BY <1>17, <2>1, <2>2, <2>3 DEF RecoverClose
<1>18. ASSUME NEW a \in Attempt, ReleaseGuard(a)
       PROVE  IInv'
  <2>1. /\ run' \in [Process -> Local] /\ Alone(a)
        /\ run'[a].at = "raised" /\ run'[a].revision = 0
    BY <1>0, <1>18, EndFacts
    DEF ReleaseGuard, Place, Running, Repairing, Ended
  <2>2. CASE LetGo /\ case.pending = a /\ UNCHANGED abandoned
    <3>1. /\ case' \in CaseType /\ case'.revision = case.revision + 1
          /\ case'.pending = None /\ case'.status = case.status
          /\ case'.resolution = case.resolution
          /\ case'.started = case.started /\ case'.reopened = case.reopened
      BY <1>0, <2>2, LetGoFacts
    <3>2. TypeOK'
      BY <1>0, <1>18, <2>1, <2>2, <3>1 DEF ReleaseGuard, IInv, TypeOK
    <3>3. GuardIsLatest' /\ DecisionIsCurrent'
      BY <1>0, <1>18, <3>1
      DEF ReleaseGuard, IInv, GuardIsLatest, DecisionIsCurrent
    <3>4. LocalOK(a)'
      BY <1>0, <1>18, <2>1, <3>1
      DEF ReleaseGuard, LocalOK, ReadIsCurrent, AuditedAfter, KeepsGuard
    <3>5. \A b \in Attempt : b # a /\ KeepsGuard(b) => KeepsGuard(b)'
      BY <1>18, <2>1, <2>2 DEF ReleaseGuard, KeepsGuard, Alone
    <3> QED
      BY <1>18, <2>1, <2>2, <3>1, <3>2, <3>3, <3>4, <3>5, WriteStep
      DEF ReleaseGuard
  <2>3. CASE UNCHANGED <<case, abandoned>>
    <3>1. LocalOK(a)'
      BY <1>0, <1>18, <2>1, <2>3
      DEF ReleaseGuard, LocalOK, ReadIsCurrent, AuditedAfter, KeepsGuard
    <3> QED
      BY <1>0, <1>18, <2>1, <2>3, <3>1, MoveStep
      DEF ReleaseGuard, IInv, TypeOK
  <2> QED BY <1>18, <2>2, <2>3 DEF ReleaseGuard
<1>19. ASSUME AbandonRelease
       PROVE  IInv'
  <2>1. /\ run' \in [Process -> Local] /\ Alone(Repair)
        /\ run'[Repair].at = "idle" /\ run'[Repair].revision = 0
    BY <1>0, <1>19, EndFacts
    DEF AbandonRelease, Place, Running, Repairing, Ended
  <2>2. CASE LetGo /\ case.pending = run[Repair].token
              /\ abandoned' = abandoned \union {case.pending}
    <3>1. /\ case' \in CaseType /\ case'.revision = case.revision + 1
          /\ case'.pending = None /\ case'.status = case.status
          /\ case'.resolution = case.resolution
          /\ case'.started = case.started /\ case'.reopened = case.reopened
      BY <1>0, <2>2, LetGoFacts
    <3>2. TypeOK'
      <4>1. case.pending \in Attempt
        BY <1>0, <1>19, <2>2 DEF AbandonRelease, LocalOK, ReadIsCurrent
      <4> QED
        BY <1>0, <1>19, <2>1, <2>2, <3>1, <4>1 DEF AbandonRelease, IInv, TypeOK
    <3>3. GuardIsLatest' /\ DecisionIsCurrent'
      BY <1>0, <1>19, <3>1
      DEF AbandonRelease, IInv, GuardIsLatest, DecisionIsCurrent
    <3>4. LocalOK(Repair)'
      BY <1>0, <1>19, <2>1, <3>1
      DEF AbandonRelease, LocalOK, ReadIsCurrent, AuditedAfter, KeepsGuard
    <3>5. \A b \in Attempt : b # Repair /\ KeepsGuard(b) => KeepsGuard(b)'
      BY <1>19, <2>1, <2>2 DEF AbandonRelease, KeepsGuard, Alone
    <3> QED
      BY <1>19, <2>1, <2>2, <3>1, <3>2, <3>3, <3>4, <3>5, WriteStep
      DEF AbandonRelease
  <2>3. CASE UNCHANGED <<case, abandoned>>
    <3>1. LocalOK(Repair)'
      BY <1>0, <1>19, <2>1, <2>3
      DEF AbandonRelease, LocalOK, ReadIsCurrent, AuditedAfter, KeepsGuard
    <3> QED
      BY <1>0, <1>19, <2>1, <2>3, <3>1, MoveStep
      DEF AbandonRelease, IInv, TypeOK
  <2> QED BY <1>19, <2>2, <2>3 DEF AbandonRelease
<1>20. ASSUME GuardExpires
       PROVE  IInv'
  <2>1. /\ case' \in CaseType /\ case'.revision = case.revision
        /\ case'.pending = case.pending /\ case'.status = case.status
        /\ case'.resolution = case.resolution
        /\ case'.started = case.started /\ case'.reopened = case.reopened
    BY <1>0, <1>20 DEF GuardExpires, CaseType
  <2>2. TypeOK' /\ GuardIsLatest' /\ DecisionIsCurrent'
    BY <1>20, <2>1
    DEF GuardExpires, IInv, TypeOK, GuardIsLatest, DecisionIsCurrent
  <2>3. \A q \in Process : LocalOK(q)'
    BY <1>0, <1>20, <2>1
    DEF GuardExpires, LocalOK, ReadIsCurrent, AuditedAfter, KeepsGuard
  <2> QED BY <2>2, <2>3 DEF IInv
<1>21. ASSUME ClaimExpires
       PROVE  IInv'
  <2>1. TypeOK' /\ GuardIsLatest' /\ DecisionIsCurrent'
    BY <1>21
    DEF ClaimExpires, IInv, TypeOK, GuardIsLatest, DecisionIsCurrent
  <2>2. \A q \in Process : LocalOK(q)'
    BY <1>0, <1>21
    DEF ClaimExpires, LocalOK, ReadIsCurrent, AuditedAfter, KeepsGuard
  <2> QED BY <2>1, <2>2 DEF IInv
<1>22. ASSUME OtherStep
       PROVE  IInv'
  <2>1. PICK c \in CaseType :
          /\ Other(c)
          /\ c.revision = case.revision /\ c.pending = case.pending
          /\ case.pending # None => c.status = case.status
          /\ \/ /\ case.pending = None /\ c.started = None
                /\ c.resolution = None
             \/ /\ c.started = case.started /\ c.reopened = case.reopened
                /\ \/ c.resolution = Observed
                   \/ /\ c.resolution = case.resolution
                      /\ c.status = case.status \/ case.status \notin Closed
    BY <1>0, <1>22, OtherFacts
  <2>2. /\ case' = [c EXCEPT !.revision = c.revision + 1]
        /\ UNCHANGED <<claims, audits, verb, run, failures, abandoned, epoch>>
    BY <2>1 DEF Other, Write
  <2>3. /\ case' \in CaseType /\ case'.revision = case.revision + 1
        /\ case'.pending = c.pending /\ case'.status = c.status
        /\ case'.started = c.started /\ case'.resolution = c.resolution
        /\ case'.reopened = c.reopened
    BY <2>1, <2>2 DEF CaseType
  <2>4. TypeOK'
    BY <2>2, <2>3 DEF IInv, TypeOK
  <2>5. GuardIsLatest'
    BY <2>1, <2>2, <2>3 DEF IInv, GuardIsLatest
  <2>6. DecisionIsCurrent'
    BY <2>1, <2>2, <2>3 DEF IInv, DecisionIsCurrent
  <2> QED BY <2>1, <2>2, <2>3, <2>4, <2>5, <2>6, OutsideStep
<1>23. ASSUME UNCHANGED vars
       PROVE  IInv'
  <2>1. TypeOK' /\ GuardIsLatest' /\ DecisionIsCurrent'
    BY <1>23 DEF vars, IInv, TypeOK, GuardIsLatest, DecisionIsCurrent
  <2>2. \A q \in Process : LocalOK(q)'
    BY <1>0, <1>23 DEF vars, LocalOK, ReadIsCurrent, AuditedAfter, KeepsGuard
  <2> QED BY <2>1, <2>2 DEF IInv
<1> QED
  BY <1>1, <1>2, <1>3, <1>4, <1>5, <1>6, <1>7, <1>8, <1>9, <1>10, <1>11,
     <1>12, <1>13, <1>14, <1>15, <1>16, <1>17, <1>18, <1>19, <1>20, <1>21,
     <1>22, <1>23
  DEF Next, AttemptStep, Recover, RepairStep

(* The inductive invariant holds of every behaviour. *)
LEMMA Invariance == Spec => []IInv
<1>1. Init => IInv
  BY InitIInv
<1>2. IInv /\ [Next]_vars => IInv'
  BY StepIInv
<1> QED
  BY <1>1, <1>2, PTL DEF Spec

-----------------------------------------------------------------------------
(* Every variable keeps its type, whoever interleaves. *)
THEOREM TypeCorrect == Spec => []TypeOK
<1>1. IInv => TypeOK
  BY DEF IInv
<1> QED
  BY <1>1, Invariance, PTL

(* A punishment, badge or map is only ever stored under the guard of its own
   attempt, or after the repair pass took that guard for abandoned. *)
THEOREM EffectSafe == Spec => []EffectUnderGuard
<1>1. IInv => EffectUnderGuard
  BY DEF IInv, LocalOK, KeepsGuard, EffectUnderGuard, Process
<1> QED
  BY <1>1, Invariance, PTL

(* A case closed by an action carries the decision of the action started
   last since the last reopening, with its audit record. *)
THEOREM DecisionSafe == Spec => []DecisionIsCurrent
<1>1. IInv => DecisionIsCurrent
  BY DEF IInv
<1> QED
  BY <1>1, Invariance, PTL

-----------------------------------------------------------------------------
(* The staff actions implement CaseLifecycle: a write is a step of the
   abstract case because the filter it passed makes what its coroutine read
   the present state (ReadIsCurrent). *)

(* Taking the guard starts an action. *)
LEMMA GuardStarts ==
  ASSUME IInv, NEW a \in Attempt, Guard(a), CasHolds(a, None)
  PROVE  Lifecycle!Start(a)
<1>1. /\ case \in CaseType /\ case.pending = None
      /\ case.status \in Actionable
  BY DEF IInv, TypeOK, Process, LocalOK, ReadIsCurrent, Guard, CasHolds
<1> DEFINE c == [case EXCEPT !.pending = a, !.old = FALSE, !.started = a]
<1>2. /\ c \in CaseType /\ c.pending = a /\ c.started = a
      /\ c.status = case.status /\ c.resolution = case.resolution
  BY <1>1 DEF CaseType
<1>3. case' = [c EXCEPT !.revision = c.revision + 1]
  BY DEF Guard, Write
<1> HIDE DEF c
<1> QED
  BY <1>1, <1>2, <1>3
  DEF CaseType, Lifecycle!Start, Lifecycle!Actionable, Actionable

(* A close stores the decision of the latest attempt, which owned the case
   or had left it without an owner. *)
LEMMA CloseDecides ==
  ASSUME IInv, NEW token \in Attempt, CloseWith(token),
         case.status \in Actionable, case.started = token,
         case.pending \in {None, token}
  PROVE  Lifecycle!CloseByAction
<1>1. case \in CaseType /\ token # None
  BY ConstantsAssumption DEF IInv, TypeOK
<1>2. /\ case'.status \in Closed /\ case'.pending = None
      /\ case'.resolution = token /\ case'.started = case.started
  BY <1>1, CloseFacts
<1> QED
  BY <1>1, <1>2
  DEF Lifecycle!CloseByAction, Lifecycle!Actionable, Lifecycle!Closed,
      Actionable, Closed

(* The close of a running action, and that of a proven one. *)
LEMMA FinishDecides ==
  ASSUME IInv, NEW a \in Attempt, FinishClose(a), CasHolds(a, a)
  PROVE  Lifecycle!CloseByAction
<1>1. case.pending = a /\ case.status \in Actionable /\ case.started = a
  BY DEF CasHolds, IInv, GuardIsLatest
<1>2. CloseWith(a)
  BY DEF FinishClose
<1> QED BY <1>1, <1>2, CloseDecides

LEMMA RecoverDecides ==
  ASSUME IInv, NEW p \in Process, RecoverClose(p),
         CasHolds(p, run[p].pending)
  PROVE  Lifecycle!CloseByAction
<1>1. /\ run[p].at = "proven" /\ run[p].revision = case.revision
      /\ run[p].pending = case.pending /\ CloseWith(run[p].token)
  BY DEF RecoverClose, CasHolds
<1>2. /\ case.status \in Actionable
      /\ run[p].token \in audits
      /\ run[p].token = IF run[p].pending # None THEN run[p].pending
                                                 ELSE case.started
  BY <1>1 DEF IInv, LocalOK, ReadIsCurrent
<1>3. run[p].token \in Attempt /\ case.pending \in Attempt \union {None}
  BY <1>2 DEF IInv, TypeOK, CaseType
<1>4. case.started = run[p].token /\ case.pending \in {None, run[p].token}
  BY <1>1, <1>2, <1>3 DEF IInv, GuardIsLatest
<1> QED BY <1>1, <1>2, <1>3, <1>4, CloseDecides

(* Giving a guard back, or taking an abandoned one away, lets go. *)
LEMMA ReleaseLetsGo ==
  ASSUME IInv, LetGo, case.pending # None
  PROVE  Lifecycle!LetGo
<1>1. case \in CaseType
  BY DEF IInv, TypeOK
<1> QED BY <1>1, LetGoFacts DEF Lifecycle!LetGo

-----------------------------------------------------------------------------
(* A decision of another writer moves the case while nobody owns it. *)
LEMMA DecideMoves ==
  ASSUME case \in CaseType, NEW c \in CaseType, NEW to \in Status,
         c.status = to, Other(c),
         case.pending = None, c.pending = None,
         to \in Lifecycle!TRANSITIONS[case.status],
         c.resolution = CASE to \in Closed -> Observed
                          [] case.status \in Closed -> None
                          [] OTHER -> case.resolution,
         c.started = IF case.status \in Closed THEN None ELSE case.started
  PROVE  Lifecycle!Move
<1>1. case' = [c EXCEPT !.revision = c.revision + 1]
  BY DEF Other, Write
<1>2. /\ case'.status = to /\ case'.pending = None
      /\ case'.resolution = c.resolution /\ case'.started = c.started
  BY <1>1 DEF CaseType
<1> QED
  BY <1>2 DEF Lifecycle!Move, Lifecycle!Closed, Closed

(* The other writers move the case or leave it as it is. *)
LEMMA OtherMoves ==
  ASSUME IInv, OtherStep
  PROVE  Lifecycle!Move \/ UNCHANGED Lifecycle!lifecycleVars
<1>0. case \in CaseType
  BY DEF IInv, TypeOK
<1> USE <1>0 DEF CaseType, Status, Actionable, Closed,
      Lifecycle!TRANSITIONS, Lifecycle!Status, Lifecycle!Active,
      Lifecycle!Actionable, Lifecycle!Closed
<1>1. CASE Join \/ Checkpoint
  BY <1>1 DEF Join, Checkpoint, Other, Write, Lifecycle!lifecycleVars
<1>2. CASE FinishCreation
  BY <1>2, DecideMoves DEF FinishCreation, Decide
<1>3. CASE Take
  BY <1>3, DecideMoves DEF Take, Decide
<1>4. CASE Release
  BY <1>4, DecideMoves DEF Release, Decide
<1>5. CASE Cancel
  BY <1>5, DecideMoves DEF Cancel, Decide
<1>6. CASE CloseObserved
  BY <1>6, DecideMoves DEF CloseObserved, Decide
<1>7. CASE Reopen
  <2> DEFINE n == case.reopened + 1
             c == [[case EXCEPT !.resolution = None, !.started = None,
                                !.reopened = n] EXCEPT !.status = "open"]
  <2>1. /\ Other(c) /\ case.pending = None /\ case.status \in Closed
        /\ n \in Nat
    BY <1>7 DEF Reopen, Decide
  <2> HIDE DEF n
  <2>2. /\ c \in CaseType /\ c.status = "open" /\ c.pending = None
        /\ c.started = None /\ c.resolution = None
    BY <2>1
  <2> HIDE DEF c
  <2> QED BY <2>1, <2>2, DecideMoves
<1> QED
  BY <1>1, <1>2, <1>3, <1>4, <1>5, <1>6, <1>7 DEF OtherStep

-----------------------------------------------------------------------------
(* Every step of the actions is a step of the case, or leaves it alone. *)
LEMMA StepRefines ==
  IInv /\ [Next]_vars => [Lifecycle!Next]_(Lifecycle!lifecycleVars)
<1> SUFFICES ASSUME IInv, [Next]_vars
             PROVE  Lifecycle!Next \/ UNCHANGED Lifecycle!lifecycleVars
  OBVIOUS
<1> USE DEF Lifecycle!lifecycleVars
<1>1. CASE UNCHANGED case
  BY <1>1
<1>2. ASSUME NEW a \in Attempt, Guard(a), ~UNCHANGED case
      PROVE  Lifecycle!Next
  BY <1>2, GuardStarts DEF Guard, Lifecycle!Next
<1>3. ASSUME NEW a \in Attempt, FinishClose(a), ~UNCHANGED case
      PROVE  Lifecycle!Next
  BY <1>3, FinishDecides DEF FinishClose, Lifecycle!Next
<1>4. ASSUME NEW p \in Process, RecoverClose(p), ~UNCHANGED case
      PROVE  Lifecycle!Next
  BY <1>4, RecoverDecides DEF RecoverClose, Lifecycle!Next
<1>5. ASSUME NEW a \in Attempt, ReleaseGuard(a), ~UNCHANGED case
      PROVE  Lifecycle!Next
  <2>1. case.pending # None /\ LetGo
    BY <1>5, ConstantsAssumption DEF ReleaseGuard
  <2> QED BY <2>1, ReleaseLetsGo DEF Lifecycle!Next
<1>6. ASSUME AbandonRelease, ~UNCHANGED case
      PROVE  Lifecycle!Next
  <2>1. case.pending # None /\ LetGo
    BY <1>6 DEF AbandonRelease, IInv, LocalOK, ReadIsCurrent, Process
  <2> QED BY <2>1, ReleaseLetsGo DEF Lifecycle!Next
<1>7. CASE GuardExpires
  BY <1>7 DEF GuardExpires, IInv, TypeOK, CaseType
<1>8. CASE OtherStep
  BY <1>8, OtherMoves DEF Lifecycle!Next
<1>9. CASE \E a \in Attempt : Press(a) \/ Claim(a) \/ Apply(a) \/ Audit(a)
             \/ Return(a) \/ Raise(a) \/ FinishRead(a) \/ Die(a)
  BY <1>1, <1>9
  DEF Press, Claim, Apply, Audit, Return, Raise, FinishRead, Die
<1>10. CASE \E p \in Process : RecoverRead(p) \/ RecoverDecide(p)
  BY <1>1, <1>10 DEF RecoverRead, RecoverDecide
<1>11. CASE RepairList \/ RepairAudited \/ AbandonRead \/ RepairDies
              \/ ClaimExpires \/ UNCHANGED vars
  BY <1>1, <1>11
  DEF RepairList, RepairAudited, AbandonRead, RepairDies, ClaimExpires, vars
<1> QED
  BY <1>1, <1>2, <1>3, <1>4, <1>5, <1>6, <1>7, <1>8, <1>9, <1>10, <1>11
  DEF Next, AttemptStep, Recover, RepairStep

(* The case the staff actions keep follows its table, has one owner at a
   time, and closes with the decision of the latest action. *)
THEOREM Implements == Spec => LifecycleSpec
<1>1. Init => Lifecycle!Init
  BY DEF Init, Lifecycle!Init
<1> QED
  BY <1>1, StepRefines, Invariance, PTL
  DEF Spec, LifecycleSpec, Lifecycle!Spec
=============================================================================
