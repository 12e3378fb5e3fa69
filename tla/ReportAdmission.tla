---------------------------- MODULE ReportAdmission ----------------------------
(***************************************************************************)
(* Which reports from the game are registered: submitted and               *)
(* _admission_decision of cases/flows/reports.py.                          *)
(*                                                                         *)
(* The consumer of the report stream handles one event at a time and gets  *)
(* it again until its handler returns or its attempts are used up.  The    *)
(* verdict on a submission is written into the row of its reporter by one  *)
(* compare-and-set, which also takes the cooldown, and is copied to a      *)
(* record of the submission before another verdict replaces it.            *)
(*                                                                         *)
(* A write is answered, or its answer is lost: then the handler fails and  *)
(* the write is done, or is still under way and lands later or never.      *)
(***************************************************************************)
EXTENDS Naturals, FiniteSets

CONSTANTS
  Submission,   \* submission ids
  By,           \* the reporter of each submission
  About,        \* the player each submission is about
  Reporter, Target, None,
  Cooldown,     \* cases_reporter_cooldown_seconds, in ticks
  Window,       \* cases_report_burst_window_seconds, in ticks
  BurstLimit,   \* cases_report_burst_limit
  Tries,        \* compare-and-set attempts of a decision (five in the code)
  MaxAttempts,  \* deliveries that may fail before the dead-letter queue
  MaxTime, MaxFaults, MaxStaff  \* bounds: ticks, faults, changes by staff

ASSUME AdmissionAssumption ==
  /\ By \in [Submission -> Reporter]
  /\ About \in [Submission -> Target]
  /\ None \notin Submission
  /\ {Cooldown, Window, BurstLimit, Tries, MaxAttempts} \subseteq Nat \ {0}
  /\ {MaxTime, MaxFaults, MaxStaff} \subseteq Nat

VARIABLES
  now,       \* the clock
  rows,      \* case_report_limits: the cooldown row of each reporter
  decided,   \* case_report_limits: the decision record of each submission
  notices,   \* submissions with a stored refusal notice
  stored,    \* submissions that are in a case
  opened,    \* <<submission, time>> of the cases created from the game
  active,    \* players with an open report
  barred,    \* reporters with the blacklist role
  alerted,   \* when staff were last told of a burst, if ever
  late,      \* writes under way whose handler has failed
  hand,      \* the event in hand
  attempts,  \* failed deliveries
  settled,   \* acknowledged or dead-lettered events
  judged,    \* history: verdicts stored or acted on for a submission
  faults, staff

vars == <<now, rows, decided, notices, stored, opened, active, barred, alerted,
          late, hand, attempts, settled, judged, faults, staff>>
database == <<rows, decided, notices, judged>>
board == <<stored, opened, active>>
world == <<now, barred, staff>>
stream == <<attempts, settled>>

Refusals == {"blocked", "cooldown", "burst"}
Verdict == Refusals \union {"admitted"}

NoWitness == [sub |-> None, reason |-> "admitted", at |-> 0]
NoRow == [revision |-> 0, decision |-> NoWitness, holder |-> None, until |-> 0]
Idle == [sub |-> None, at |-> "idle", merging |-> FALSE, tries |-> 0,
         row |-> NoRow, witness |-> NoWitness]

Init ==
  /\ now = 0
  /\ rows = [r \in Reporter |-> NoRow]
  /\ decided = [s \in Submission |-> NoWitness]
  /\ notices = {} /\ stored = {} /\ opened = {} /\ active = {}
  /\ barred = {}
  /\ alerted = {}
  /\ late = {}
  /\ hand = Idle
  /\ attempts = [s \in Submission |-> 0]
  /\ settled = {}
  /\ judged = [s \in Submission |-> {}]
  /\ faults = 0 /\ staff = 0

-----------------------------------------------------------------------------
(* Writes *)

(* One kind of record for the three writes; each reads the fields it needs. *)
Write(op, witness, revision, row) ==
  [op |-> op, witness |-> witness, revision |-> revision, row |-> row]

(* Mutant: the reporter's row is replaced whatever its revision. *)
OwnsAnyway(w) == w.op = "own"

Owns(w) == w.op = "own" /\ rows[By[w.witness.sub]].revision = w.revision

Promotes(w) == w.op = "promote" /\ decided[w.witness.sub] = NoWitness

Land(w) ==
  /\ rows' = IF Owns(w) THEN [rows EXCEPT ![By[w.witness.sub]] = w.row] ELSE rows
  /\ decided' = IF Promotes(w)
                  THEN [decided EXCEPT ![w.witness.sub] = w.witness] ELSE decided
  /\ notices' = IF w.op = "notice"
                  THEN notices \union {w.witness.sub} ELSE notices
  /\ judged' = IF Owns(w)
                 THEN [judged EXCEPT ![w.witness.sub] = @ \union {w.witness.reason}]
                 ELSE judged

Lands(w) ==
  /\ Land(w)
  /\ late' = late \ {w}
  /\ UNCHANGED <<board, world, alerted, hand, stream, faults>>

-----------------------------------------------------------------------------
(* The consumer *)

s0 == hand.sub
At(place) == hand.at = place
Goto(place) == hand' = [hand EXCEPT !.at = place]
With(witness, place) ==
  hand' = [Idle EXCEPT !.sub = s0, !.at = place, !.witness = witness]

Done ==
  /\ settled' = settled \union {s0}
  /\ hand' = Idle
  /\ UNCHANGED attempts

(* Mutant: an event whose handler failed is acknowledged. *)
FailIsDone == Done

Fail ==
  /\ attempts' = [attempts EXCEPT ![s0] = @ + 1]
  /\ settled' = IF attempts[s0] + 1 >= MaxAttempts
                  THEN settled \union {s0} ELSE settled
  /\ hand' = Idle

Fault == faults < MaxFaults /\ faults' = faults + 1

(* The answer to a write is lost: it has been done, or may be done later. *)
Unanswered(w) ==
  /\ Fault /\ Fail
  /\ \/ Land(w) /\ UNCHANGED late
     \/ late' = late \union {w} /\ UNCHANGED database

Crash ==
  /\ ~At("idle")
  /\ Fault
  /\ hand' = Idle
  /\ UNCHANGED <<database, board, world, alerted, late, stream>>

-----------------------------------------------------------------------------
(* _admission_decision *)

ReadDecision ==
  /\ At("decision")
  /\ IF decided[s0] # NoWitness
       THEN With(decided[s0], "verdict")
       ELSE Goto("row")
  /\ UNCHANGED <<database, board, world, alerted, late, stream, faults>>

(* Mutant: the witness in the row is not kept before it is replaced. *)
ReadRowForgetful ==
  /\ At("row")
  /\ hand' = [hand EXCEPT !.at = "assess", !.row = rows[By[s0]]]
  /\ UNCHANGED <<database, board, world, alerted, late, stream, faults>>

ReadRow ==
  /\ At("row")
  /\ LET row == rows[By[s0]] IN
     hand' = [hand EXCEPT !.at = IF row.decision = NoWitness THEN "assess"
                                 ELSE "promote", !.row = row]
  /\ UNCHANGED <<database, board, world, alerted, late, stream, faults>>

(* promote(row["decision"]): of this submission or of an earlier one. *)
Promote ==
  LET witness == hand.row.decision
      w == Write("promote", witness, 0, NoRow) IN
  /\ At("promote")
  /\ \/ /\ Land(w)
        /\ IF witness.sub = s0 THEN With(witness, "verdict") ELSE Goto("assess")
        /\ UNCHANGED <<late, stream, faults>>
     \/ Unanswered(w)
  /\ UNCHANGED <<board, world, alerted>>

Recent == {o \in opened : o[2] + Window >= now}

(* Mutant: a running cooldown is not looked at. *)
HeldNever(row) == FALSE

Held(row) == row.holder # None /\ row.until > now /\ row.holder # s0

Reason ==
  IF By[s0] \in barred THEN "blocked"
  ELSE IF Held(hand.row) THEN "cooldown"
  ELSE IF ~hand.merging /\ Cardinality(Recent) >= BurstLimit THEN "burst"
  ELSE "admitted"

(* The blacklist, the cooldown and the burst; the guild may be missing. *)
Assess ==
  /\ At("assess")
  /\ \/ /\ hand' = [hand EXCEPT !.at = "own",
             !.witness = [sub |-> s0, reason |-> Reason, at |-> now]]
        /\ UNCHANGED <<stream, faults>>
     \/ Fault /\ Fail
  /\ UNCHANGED <<database, board, world, alerted, late>>

(* The verdict, and the cooldown unless it is held by another submission. *)
NewRow ==
  LET row == [hand.row EXCEPT !.revision = @ + 1, !.decision = hand.witness] IN
  IF hand.witness.reason \in {"blocked", "cooldown"} THEN row
  ELSE [row EXCEPT !.holder = s0, !.until = hand.witness.at + Cooldown]

Own ==
  LET w == Write("own", hand.witness, hand.row.revision, NewRow) IN
  /\ At("own")
  /\ \/ /\ Owns(w)
        /\ Land(w)
        /\ With(hand.witness, "keep")
        /\ UNCHANGED <<late, stream, faults>>
     \/ /\ ~Owns(w)
        /\ IF hand.tries + 1 < Tries
             THEN /\ hand' = [hand EXCEPT !.at = "decision", !.tries = @ + 1]
                  /\ UNCHANGED stream
             ELSE Fail
        /\ UNCHANGED <<database, late, faults>>
     \/ Unanswered(w)
  /\ UNCHANGED <<board, world, alerted>>

Keep ==
  LET w == Write("promote", hand.witness, 0, NoRow) IN
  /\ At("keep")
  /\ \/ Land(w) /\ Goto("verdict") /\ UNCHANGED <<late, stream, faults>>
     \/ Unanswered(w)
  /\ UNCHANGED <<board, world, alerted>>

-----------------------------------------------------------------------------
(* submitted *)

(* An event comes, for the first time or again: what is registered is only
   resumed, which may fail, and what was refused is finished. *)
Deliver(s) ==
  /\ At("idle")
  /\ s \notin settled
  /\ hand' = [Idle EXCEPT !.sub = s, !.at = "submitted"]
  /\ UNCHANGED <<database, board, world, alerted, late, stream, faults>>

Submitted ==
  /\ At("submitted")
  /\ IF s0 \in stored THEN Done \/ Fail
     ELSE IF s0 \in notices THEN Done
     ELSE /\ hand' = [hand EXCEPT !.at = "decision",
                                  !.merging = About[s0] \in active]
          /\ UNCHANGED stream
  /\ UNCHANGED <<database, board, world, alerted, late, faults>>

Judge ==
  /\ At("verdict")
  /\ judged' = [judged EXCEPT ![s0] = @ \union {hand.witness.reason}]
  /\ Goto(IF hand.witness.reason = "admitted" THEN "open" ELSE "refuse")
  /\ UNCHANGED <<rows, decided, notices, board, world, alerted, late, stream, faults>>

(* open stores the case or joins the open one; it may fail before that, and
   its creation steps after it. *)
Open ==
  /\ At("open")
  /\ \/ /\ Fault /\ Fail
        /\ UNCHANGED board
     \/ /\ stored' = stored \union {s0}
        /\ active' = active \union {About[s0]}
        /\ opened' = IF About[s0] \in active THEN opened
                     ELSE opened \union {<<s0, now>>}
        /\ Done \/ Fail
        /\ UNCHANGED faults
  /\ UNCHANGED <<database, world, alerted, late>>

Refuse ==
  LET w == Write("notice", hand.witness, 0, NoRow) IN
  /\ At("refuse")
  /\ \/ /\ Land(w)
        /\ IF hand.witness.reason = "burst" THEN Goto("alert") /\ UNCHANGED stream
           ELSE Done
        /\ UNCHANGED <<late, faults>>
     \/ Unanswered(w)
  /\ UNCHANGED <<board, world, alerted>>

(* _burst_alert, best-effort: recorded after the post, skipped in a window
   that has one; whatever happens, the refusal stands. *)
BurstAlert ==
  /\ At("alert")
  /\ \/ /\ \A t \in alerted : now >= t + Window
        /\ alerted' = {now}
     \/ UNCHANGED alerted
  /\ Done
  /\ UNCHANGED <<database, board, world, late, faults>>

-----------------------------------------------------------------------------
(* The world *)

Tick ==
  /\ now < MaxTime
  /\ now' = now + 1
  /\ UNCHANGED <<database, board, barred, staff, alerted, late, hand, stream,
                 faults>>

(* Staff close a report, or give or take the blacklist role. *)
Staff ==
  /\ staff < MaxStaff
  /\ staff' = staff + 1
  /\ \/ \E t \in active : active' = active \ {t} /\ UNCHANGED barred
     \/ \E r \in Reporter :
          /\ barred' = IF r \in barred THEN barred \ {r} ELSE barred \union {r}
          /\ UNCHANGED active
  /\ UNCHANGED <<now, database, stored, opened, alerted, late, hand, stream,
                 faults>>

Handle ==
  \/ Submitted \/ ReadDecision \/ ReadRow \/ Promote \/ Assess \/ Own \/ Keep
  \/ Judge \/ Open \/ Refuse \/ BurstAlert

Next ==
  \/ \E s \in Submission : Deliver(s)
  \/ Handle
  \/ \E w \in late : Lands(w)
  \/ Crash
  \/ Tick
  \/ Staff

Fairness == WF_vars(Handle) /\ \A s \in Submission : WF_vars(Deliver(s))

Spec == Init /\ [][Next]_vars /\ Fairness

-----------------------------------------------------------------------------
(* Properties *)

(* A submission has one verdict: however often its event comes again, after
   lost answers and late writes, "a crash or lost write acknowledgement
   cannot turn a refusal into admission on redelivery", nor the reverse.
   Its reporter is never told of a refusal of what is in a case. *)
OneVerdict ==
  \A s \in Submission :
    /\ Cardinality(judged[s]) <= 1
    /\ s \in stored => judged[s] = {"admitted"}
    /\ s \in notices => judged[s] \subseteq Refusals /\ judged[s] # {}

(* Two registered reports of one person are a cooldown apart, although the
   cooldown is read long before it is taken. *)
Admissions == {decided[s] : s \in stored}
CooldownHeld ==
  \A v, w \in Admissions :
    v.sub # w.sub /\ By[v.sub] = By[w.sub] =>
      v.at + Cooldown <= w.at \/ w.at + Cooldown <= v.at

(* No report is lost between the stream and the staff: its event is dead
   after MaxAttempts failures, or in the end it is in a case or refused with
   a stored notice. *)
EventuallyAnswered ==
  \A s \in Submission :
    <>[](s \in stored \union notices \/ attempts[s] >= MaxAttempts)
=============================================================================
