------------------------ MODULE ReportAdmissionProofs ------------------------
(***************************************************************************)
(* A submission has one verdict, and two admissions of a reporter are a    *)
(* cooldown apart, for any number of reporters, submissions, lost answers, *)
(* late writes and deaths.  A verdict lives in the row of its reporter     *)
(* until it is copied, and the row is replaced only by a write that read   *)
(* it at its present revision and saw to the copy first (WriteOK): so a    *)
(* verdict that was given is never out of sight of the next delivery.      *)
(***************************************************************************)
EXTENDS ReportAdmission, FiniteSetTheorems, TLAPS

Given == [sub : Submission, reason : Verdict, at : Nat]
Witness == Given \union {NoWitness}
Row == [revision : Nat, decision : Witness, holder : Submission \union {None},
        until : Nat]
Place == {"idle", "submitted", "decision", "row", "promote", "assess", "own",
          "keep", "verdict", "open", "refuse", "alert"}
Hand == [sub : Submission \union {None}, at : Place, merging : BOOLEAN, tries : Nat,
         row : Row, witness : Witness]
Pending == [op : {"own", "promote", "notice"}, witness : Given, revision : Nat,
            row : Row]

TypeInv ==
  /\ rows \in [Reporter -> Row] /\ decided \in [Submission -> Witness]
  /\ judged \in [Submission -> SUBSET Verdict]
  /\ notices \subseteq Submission /\ stored \subseteq Submission
  /\ hand \in Hand /\ late \subseteq Pending
  /\ now \in Nat
  /\ \A r \in Reporter : rows[r].decision # NoWitness => By[rows[r].decision.sub] = r
  /\ \A s \in Submission : decided[s] # NoWitness => decided[s].sub = s

RowFor(s) == rows[By[s]]

(* The row and the record of a submission agree. *)
Agree ==
  \A s \in Submission :
    decided[s] # NoWitness /\ RowFor(s).decision.sub = s
      => RowFor(s).decision = decided[s]

(* A verdict that was given is on record, or still in the row. *)
Kept(x) == decided[x.sub] = x \/ RowFor(x.sub).decision = x

JudgedOK ==
  \A s \in Submission : \A reason \in judged[s] :
    \E x \in {decided[s], RowFor(s).decision} : x.sub = s /\ x.reason = reason

StoredOK == \A s \in stored : "admitted" \in judged[s]
NoticesOK == \A s \in notices : judged[s] \intersect Refusals # {}

Unjudged(s) == decided[s] = NoWitness /\ RowFor(s).decision.sub # s
Settled(x) == x = NoWitness \/ decided[x.sub] = x

(* What was read at a revision is true while that is the revision of the row. *)
ReadOK(s, row) ==
  /\ row.revision <= RowFor(s).revision
  /\ row.revision = RowFor(s).revision => row = RowFor(s)

(* A write that can still replace the row has a verdict where there is none,
   and the one it replaces is on record. *)
MayOwn(s, revision) ==
  /\ revision <= RowFor(s).revision
  /\ revision = RowFor(s).revision => Unjudged(s) /\ Settled(RowFor(s).decision)

WriteOK(w) ==
  /\ w.op = "own" =>
       /\ w.row.decision = w.witness /\ w.row.revision = w.revision + 1
       /\ MayOwn(w.witness.sub, w.revision)
  /\ w.op = "promote" => Kept(w.witness)
  /\ w.op = "notice" => w.witness.reason \in Refusals \intersect judged[w.witness.sub]

LateOK == \A w \in late : WriteOK(w)

(* A verdict that appears after the record was read is the one in the row, and
   nothing is under way that would replace it. *)
NotLost(s) ==
  \/ decided[s] = NoWitness
  \/ /\ RowFor(s).decision.sub = s
     /\ \A w \in late : w.op = "own" /\ By[w.witness.sub] = By[s]
                          => w.revision # RowFor(s).revision

HandOK ==
  /\ hand.at # "idle" => hand.sub \in Submission
  /\ hand.at = "row" => NotLost(s0)
  /\ hand.at \in {"promote", "assess", "own"} => ReadOK(s0, hand.row)
  /\ hand.at = "promote" =>
       /\ hand.row.decision # NoWitness /\ Kept(hand.row.decision)
       /\ hand.row.revision = RowFor(s0).revision /\ hand.row.decision.sub # s0
            => decided[s0] = NoWitness
  /\ hand.at \in {"assess", "own"} => MayOwn(s0, hand.row.revision)
  /\ hand.at \in {"own", "keep", "verdict", "open", "refuse", "alert"} =>
       hand.witness \in Given /\ hand.witness.sub = s0
  /\ hand.at = "keep" => Kept(hand.witness)
  /\ hand.at \in {"verdict", "open", "refuse", "alert"} => decided[s0] = hand.witness
  /\ hand.at = "open" => hand.witness.reason = "admitted"
  /\ hand.at \in {"refuse", "alert"} => hand.witness.reason \in Refusals
  /\ hand.at \in {"open", "refuse", "alert"} => hand.witness.reason \in judged[s0]

Verdicts == Agree /\ JudgedOK /\ StoredOK /\ NoticesOK

IInv == TypeInv /\ Verdicts /\ LateOK /\ HandOK

-----------------------------------------------------------------------------
(* Writes *)

DatabaseOK ==
  /\ rows \in [Reporter -> Row] /\ decided \in [Submission -> Witness]
  /\ judged \in [Submission -> SUBSET Verdict] /\ notices \subseteq Submission
  /\ \A r \in Reporter : rows[r].decision # NoWitness => By[rows[r].decision.sub] = r
  /\ \A s \in Submission : decided[s] # NoWitness => decided[s].sub = s

(* Nobody submits None, and a reporter has a row. *)
LEMMA NoneOK ==
  /\ NoWitness \notin Given /\ NoWitness.sub = None
  /\ \A s \in Submission : By[s] \in Reporter /\ s # None
BY AdmissionAssumption DEF NoWitness, Given

(* What is true of a verdict stays true, whatever lands. *)
Lasting ==
  /\ \A s \in Submission :
       /\ decided[s] # NoWitness => decided'[s] = decided[s]
       /\ judged[s] \subseteq judged'[s]
  /\ \A x \in Given : Kept(x) => Kept(x)'
  /\ \A s \in Submission, n \in Nat : MayOwn(s, n) => MayOwn(s, n)'
  /\ \A s \in Submission, row \in Row : ReadOK(s, row) => ReadOK(s, row)'

(* A step that touches no row, record or verdict changes nothing of this. *)
LEMMA NothingLands ==
  ASSUME TypeInv, Verdicts, UNCHANGED <<rows, decided, judged>>
  PROVE  Lasting /\ Agree' /\ JudgedOK'
BY DEF Lasting, Kept, MayOwn, ReadOK, Unjudged, Settled, RowFor, Verdicts, Agree,
       JudgedOK

(* A verdict takes the row: the submission had none, and the verdict it
   replaces is on record. *)
LEMMA OwnLands ==
  ASSUME TypeInv, Verdicts, NEW w \in Pending, WriteOK(w), Owns(w),
         rows' = [rows EXCEPT ![By[w.witness.sub]] = w.row],
         judged' = [judged EXCEPT ![w.witness.sub] = @ \union {w.witness.reason}],
         UNCHANGED <<decided, notices>>
  PROVE  /\ DatabaseOK' /\ Lasting /\ Agree' /\ JudgedOK'
         /\ Kept(w.witness)' /\ w.witness.reason \in judged'[w.witness.sub]
<1> DEFINE t == w.witness.sub
<1>1. /\ t \in Submission /\ By[t] \in Reporter /\ w.witness \in Given
      /\ w.row \in Row /\ w.revision \in Nat
  BY NoneOK DEF Pending, Given
<1>2. /\ w.row.decision = w.witness /\ w.row.revision = w.revision + 1
      /\ RowFor(t).revision = w.revision
      /\ Unjudged(t) /\ Settled(RowFor(t).decision)
  BY DEF WriteOK, Owns, MayOwn, RowFor
<1>3. /\ \A r \in Reporter : rows'[r] = IF r = By[t] THEN w.row ELSE rows[r]
      /\ \A s \in Submission : judged'[s] = IF s = t THEN judged[t] \union
                                             {w.witness.reason} ELSE judged[s]
      /\ rows' \in [Reporter -> Row]
  BY <1>1 DEF TypeInv
<1>4. judged' \in [Submission -> SUBSET Verdict]
  BY <1>1 DEF TypeInv, Given
<1>5. DatabaseOK'
  BY <1>1, <1>2, <1>3, <1>4 DEF DatabaseOK, TypeInv
<1>6. \A s \in Submission : RowFor(s)' = IF By[s] = By[t] THEN w.row ELSE RowFor(s)
  BY <1>3, NoneOK DEF RowFor
<1> HIDE DEF t
<1>7. \A x \in Given : Kept(x) => Kept(x)'
  BY <1>2, <1>6, NoneOK DEF Kept, Settled, Given, RowFor
<1>8. \A s \in Submission, n \in Nat : MayOwn(s, n) => MayOwn(s, n)'
  <2> SUFFICES ASSUME NEW s \in Submission, NEW n \in Nat, MayOwn(s, n)
               PROVE  MayOwn(s, n)'
    OBVIOUS
  <2>1. CASE By[s] = By[t]
    BY <1>1, <1>2, <1>6, <2>1 DEF MayOwn, RowFor
  <2>2. CASE By[s] # By[t]
    BY <1>6, <2>2 DEF MayOwn, Unjudged, Settled
  <2> QED BY <2>1, <2>2
<1>9. \A s \in Submission, row \in Row : ReadOK(s, row) => ReadOK(s, row)'
  <2> SUFFICES ASSUME NEW s \in Submission, NEW row \in Row, ReadOK(s, row)
               PROVE  ReadOK(s, row)'
    OBVIOUS
  <2>0. row.revision \in Nat
    BY DEF Row
  <2>1. CASE By[s] = By[t]
    BY <1>1, <1>2, <1>6, <2>0, <2>1 DEF ReadOK, RowFor
  <2>2. CASE By[s] # By[t]
    BY <1>6, <2>2 DEF ReadOK
  <2> QED BY <2>1, <2>2
<1>10. Lasting
  BY <1>3, <1>7, <1>8, <1>9 DEF Lasting, t
<1>11. Agree'
  BY <1>2, <1>6, NoneOK DEF Verdicts, Agree, Unjudged, t
<1>12. JudgedOK'
  <2> SUFFICES ASSUME NEW s \in Submission, NEW reason \in judged'[s]
               PROVE  \E x \in {decided[s], RowFor(s)'.decision} :
                        x.sub = s /\ x.reason = reason
    BY DEF JudgedOK
  <2>1. CASE reason \in judged[s]
    <3>1. PICK x \in {decided[s], RowFor(s).decision} : x.sub = s /\ x.reason = reason
      BY <2>1 DEF Verdicts, JudgedOK
    <3>2. CASE x = decided[s] \/ By[s] # By[t]
      BY <1>6, <3>1, <3>2
    <3>3. CASE x = RowFor(s).decision /\ By[s] = By[t]
      <4>1. x # NoWitness /\ RowFor(t).decision = x
        BY <3>1, <3>3, NoneOK DEF RowFor
      <4>2. decided[s] = x
        BY <1>2, <3>1, <4>1 DEF Settled
      <4> QED BY <3>1, <4>2
    <3> QED BY <3>1, <3>2, <3>3
  <2>2. CASE reason \notin judged[s]
    BY <1>2, <1>3, <1>6, <2>2 DEF t
  <2> QED BY <2>1, <2>2
<1>13. Kept(w.witness)' /\ w.witness.reason \in judged'[t]
  BY <1>1, <1>2, <1>3, <1>6 DEF Kept, t
<1> QED BY <1>5, <1>10, <1>11, <1>12, <1>13 DEF t

(* A verdict goes on record, once. *)
LEMMA PromoteLands ==
  ASSUME TypeInv, Verdicts, NEW x \in Given, Kept(x), decided[x.sub] = NoWitness,
         decided' = [decided EXCEPT ![x.sub] = x],
         UNCHANGED <<rows, judged, notices>>
  PROVE  DatabaseOK' /\ Lasting /\ Agree' /\ JudgedOK' /\ decided'[x.sub] = x
<1> DEFINE t == x.sub
<1>1. t \in Submission /\ x # NoWitness /\ RowFor(t).decision = x
  BY NoneOK DEF Given, Kept
<1>2. \A s \in Submission : decided'[s] = IF s = t THEN x ELSE decided[s]
  BY DEF TypeInv
<1>3. DatabaseOK'
  BY <1>1, <1>2 DEF DatabaseOK, TypeInv, Witness
<1>4. \A s \in Submission : RowFor(s)' = RowFor(s)
  BY DEF RowFor
<1> HIDE DEF t
<1>5. \A y \in Given : Kept(y) => Kept(y)'
  BY <1>1, <1>2, <1>4, NoneOK DEF Kept, Given, t
<1>6. \A s \in Submission, n \in Nat : MayOwn(s, n) => MayOwn(s, n)'
  <2> SUFFICES ASSUME NEW s \in Submission, NEW n \in Nat, MayOwn(s, n),
                      n = RowFor(s).revision
               PROVE  Unjudged(s)' /\ Settled(RowFor(s).decision)'
    BY <1>4 DEF MayOwn
  <2>1. Unjudged(s) /\ Settled(RowFor(s).decision)
    BY DEF MayOwn
  <2>2. s # t
    BY <1>1, <2>1 DEF Unjudged, t
  <2>3. RowFor(s).decision = NoWitness \/ RowFor(s).decision.sub \in Submission
    BY NoneOK DEF RowFor, TypeInv, Row, Witness, Given
  <2> QED BY <1>1, <1>2, <1>4, <2>1, <2>2, <2>3 DEF Unjudged, Settled, t
<1>7. Lasting
  BY <1>1, <1>2, <1>4, <1>5, <1>6 DEF Lasting, ReadOK, t
<1>8. Agree'
  BY <1>1, <1>2, <1>4 DEF Verdicts, Agree, t
<1>9. JudgedOK'
  <2> SUFFICES ASSUME NEW s \in Submission, NEW reason \in judged[s]
               PROVE  \E y \in {decided'[s], RowFor(s).decision} :
                        y.sub = s /\ y.reason = reason
    BY <1>4 DEF JudgedOK
  <2>1. PICK y \in {decided[s], RowFor(s).decision} : y.sub = s /\ y.reason = reason
    BY DEF Verdicts, JudgedOK
  <2>2. y # NoWitness
    BY <2>1, NoneOK
  <2> QED BY <1>1, <1>2, <2>1, <2>2 DEF t
<1> QED BY <1>1, <1>2, <1>3, <1>7, <1>8, <1>9 DEF t

(* Any write, landing in time or late. *)
LEMMA LandOK ==
  ASSUME TypeInv, Verdicts, NEW w \in Pending, WriteOK(w), Land(w), stored' = stored
  PROVE  /\ DatabaseOK' /\ Lasting /\ Verdicts'
         /\ w.op = "promote" => decided'[w.witness.sub] = w.witness
         /\ Owns(w) => Kept(w.witness)' /\ w.witness.reason \in judged'[w.witness.sub]
<1>1. w.witness \in Given /\ w.witness.sub \in Submission
  BY DEF Pending, Given
<1>2. /\ DatabaseOK' /\ Lasting /\ Agree' /\ JudgedOK'
      /\ w.op = "promote" => decided'[w.witness.sub] = w.witness
      /\ Owns(w) => Kept(w.witness)' /\ w.witness.reason \in judged'[w.witness.sub]
  <2>1. CASE Owns(w)
    <3>1. UNCHANGED <<decided, notices>> /\ w.op = "own"
      BY <2>1 DEF Land, Owns, Promotes
    <3> QED BY <2>1, <3>1, OwnLands DEF Land
  <2>2. CASE Promotes(w)
    <3>1. /\ UNCHANGED <<rows, judged, notices>> /\ ~Owns(w)
          /\ decided[w.witness.sub] = NoWitness /\ Kept(w.witness)
          /\ decided' = [decided EXCEPT ![w.witness.sub] = w.witness]
      BY <2>2 DEF Land, Owns, Promotes, WriteOK
    <3> QED BY <1>1, <3>1, PromoteLands
  <2>3. CASE ~Owns(w) /\ ~Promotes(w)
    <3>1. UNCHANGED <<rows, decided, judged>> /\ notices' \subseteq Submission
      BY <1>1, <2>3 DEF Land, TypeInv
    <3>2. DatabaseOK'
      BY <3>1 DEF DatabaseOK, TypeInv
    <3>3. w.op = "promote" => decided[w.witness.sub] = w.witness
      <4> SUFFICES ASSUME w.op = "promote"
                   PROVE  decided[w.witness.sub] = w.witness
        OBVIOUS
      <4>1. decided[w.witness.sub] # NoWitness /\ Kept(w.witness)
        BY <2>3 DEF Promotes, WriteOK
      <4> QED BY <1>1, <4>1 DEF Kept, Verdicts, Agree
    <3> QED BY <2>3, <3>1, <3>2, <3>3, NothingLands
  <2> QED BY <2>1, <2>2, <2>3
<1>3. StoredOK'
  BY <1>2 DEF Verdicts, StoredOK, Lasting, TypeInv
<1>4. NoticesOK'
  <2>1. \A s \in notices' : s \in Submission /\ judged[s] \intersect Refusals # {}
    BY <1>1 DEF Land, Verdicts, NoticesOK, WriteOK, TypeInv
  <2> QED BY <1>2, <2>1 DEF NoticesOK, Lasting
<1> QED BY <1>2, <1>3, <1>4 DEF Verdicts

-----------------------------------------------------------------------------
(* The handler *)

(* What lands leaves the other writes and the handler as they were, except
   that a record may appear behind a handler that is about to read the row. *)
LEMMA LateLasts ==
  ASSUME TypeInv, LateOK, Lasting, late' \subseteq late
  PROVE  LateOK'
<1> SUFFICES ASSUME NEW w \in late', WriteOK(w)
             PROVE  WriteOK(w)'
  BY DEF LateOK
<1>1. w.witness \in Given /\ w.witness.sub \in Submission /\ w.revision \in Nat
  BY DEF TypeInv, Pending, Given
<1> QED BY <1>1 DEF WriteOK, Lasting

(* The handler moves to a place that has been prepared; nothing lands. *)
LEMMA HandStep ==
  ASSUME IInv, UNCHANGED <<rows, decided, late>>, hand' \in Hand, HandOK',
         judged' \in [Submission -> SUBSET Verdict],
         \A s \in Submission : judged[s] \subseteq judged'[s],
         JudgedOK', notices' = notices,
         stored' \subseteq Submission, StoredOK', now' \in Nat
  PROVE  IInv'
<1>1. TypeInv'
  BY DEF IInv, TypeInv
<1>2. Agree' /\ NoticesOK'
  BY DEF IInv, TypeInv, Verdicts, Agree, NoticesOK, RowFor
<1>3. LateOK'
  <2> SUFFICES ASSUME NEW w \in late, WriteOK(w)
               PROVE  WriteOK(w)'
    BY DEF IInv, LateOK
  <2>1. w.witness.sub \in Submission
    BY DEF IInv, TypeInv, Pending, Given
  <2> QED BY <2>1 DEF WriteOK, MayOwn, Unjudged, Settled, Kept, RowFor
<1> QED BY <1>1, <1>2, <1>3 DEF IInv, Verdicts

(* The same with no verdict given and nothing stored. *)
LEMMA QuietStep ==
  ASSUME IInv, UNCHANGED <<database, late, stored, now>>, hand' \in Hand, HandOK'
  PROVE  IInv'
<1>1. JudgedOK' /\ StoredOK'
  BY DEF IInv, Verdicts, JudgedOK, StoredOK, RowFor, database
<1> QED BY <1>1, HandStep DEF IInv, TypeInv, database

(* An event that is finished or has failed leaves nothing in hand. *)
LEMMA IdleOK == Idle \in Hand /\ Idle.at = "idle"
BY DEF Idle, Hand, Place, NoRow, Row, Witness, NoWitness

(* Nothing is claimed of an idle hand. *)
LEMMA EndOK ==
  ASSUME Done \/ Fail \/ hand' = Idle
  PROVE  hand' \in Hand /\ HandOK'
<1>1. hand' = Idle
  BY DEF Done, Fail
<1> QED BY <1>1, IdleOK DEF HandOK

(* A write whose answer is lost: done, or under way. *)
LEMMA UnansweredStep ==
  ASSUME IInv, NEW w \in Pending, WriteOK(w), Unanswered(w), UNCHANGED <<stored, now>>
  PROVE  IInv'
<1>1. hand' \in Hand /\ HandOK'
  BY EndOK DEF Unanswered
<1>2. CASE Land(w) /\ UNCHANGED late
  <2>1. DatabaseOK' /\ Lasting /\ Verdicts'
    BY <1>2, LandOK DEF IInv
  <2>2. LateOK'
    BY <1>2, <2>1, LateLasts DEF IInv
  <2>3. TypeInv'
    BY <1>1, <1>2, <2>1 DEF IInv, TypeInv, DatabaseOK
  <2> QED BY <1>1, <2>1, <2>2, <2>3 DEF IInv
<1>3. CASE late' = late \union {w} /\ UNCHANGED database
  <2>1. TypeInv'
    BY <1>1, <1>3 DEF IInv, TypeInv, database
  <2>2. Lasting /\ Agree' /\ JudgedOK'
    BY <1>3, NothingLands DEF IInv, database
  <2>3. StoredOK' /\ NoticesOK'
    BY <1>3 DEF IInv, Verdicts, StoredOK, NoticesOK, database
  <2>4. \A v \in late \union {w} : WriteOK(v)'
    <3> SUFFICES ASSUME NEW v \in late \union {w}, WriteOK(v)
                 PROVE  WriteOK(v)'
      BY DEF IInv, LateOK
    <3>1. v.witness \in Given /\ v.witness.sub \in Submission /\ v.revision \in Nat
      BY DEF IInv, TypeInv, Pending, Given
    <3> QED BY <2>2, <3>1 DEF WriteOK, Lasting
  <2> QED BY <1>1, <1>3, <2>1, <2>2, <2>3, <2>4 DEF IInv, Verdicts, LateOK
<1> QED BY <1>2, <1>3 DEF Unanswered

(* An answered write of the handler. *)
LEMMA AnsweredStep ==
  ASSUME IInv, NEW w \in Pending, WriteOK(w), Land(w), UNCHANGED <<late, stored, now>>,
         hand' \in Hand, HandOK'
  PROVE  IInv'
<1>1. DatabaseOK' /\ Lasting /\ Verdicts'
  BY LandOK DEF IInv
<1>2. LateOK'
  BY <1>1, LateLasts DEF IInv
<1>3. TypeInv'
  BY <1>1 DEF IInv, TypeInv, DatabaseOK
<1> QED BY <1>1, <1>2, <1>3 DEF IInv

(* Only a write that takes the row changes it, and only for its reporter. *)
LEMMA RowLands ==
  ASSUME TypeInv, NEW w \in Pending, Land(w), NEW s \in Submission
  PROVE  RowFor(s)' = IF Owns(w) /\ By[w.witness.sub] = By[s] THEN w.row
                      ELSE RowFor(s)
<1>1. By[s] \in Reporter /\ rows \in [Reporter -> Row]
  BY NoneOK DEF TypeInv
<1>2. CASE Owns(w)
  BY <1>1, <1>2 DEF Land, RowFor
<1>3. CASE ~Owns(w)
  BY <1>3 DEF Land, RowFor
<1> QED BY <1>2, <1>3

(* A late write lands behind whatever is in hand. *)
LEMMA LandsStep ==
  ASSUME IInv, NEW w \in late, Lands(w)
  PROVE  IInv'
<1>1. /\ w \in Pending /\ WriteOK(w) /\ Land(w) /\ late' = late \ {w}
      /\ UNCHANGED <<hand, stored, now>>
  BY DEF Lands, IInv, TypeInv, LateOK, board, world
<1>2. DatabaseOK' /\ Lasting /\ Verdicts'
  BY <1>1, LandOK DEF IInv
<1>3. LateOK'
  BY <1>1, <1>2, LateLasts DEF IInv
<1>4. TypeInv'
  BY <1>1, <1>2 DEF IInv, TypeInv, DatabaseOK
<1>5. hand.at = "row" => NotLost(s0)'
  <2> SUFFICES ASSUME hand.at = "row"
               PROVE  NotLost(s0)'
    OBVIOUS
  <2>1. s0 \in Submission /\ NotLost(s0) /\ s0' = s0
    BY <1>1 DEF IInv, HandOK, s0
  <2>2. CASE decided'[s0] = NoWitness
    BY <2>1, <2>2 DEF NotLost
  <2>3. CASE decided[s0] = NoWitness /\ decided'[s0] # NoWitness
    <3>1. /\ Promotes(w) /\ w.witness.sub = s0 /\ Kept(w.witness)
          /\ UNCHANGED rows /\ w.witness \in Given
      BY <1>1, <2>1, <2>3 DEF Land, Promotes, Owns, WriteOK, IInv, TypeInv, Pending
    <3>2. RowFor(s0).decision = w.witness /\ w.witness # NoWitness
      BY <2>3, <3>1, NoneOK DEF Kept
    <3>3. ASSUME NEW v \in late, v.op = "own", By[v.witness.sub] = By[s0],
                 v.revision = RowFor(s0).revision
          PROVE  FALSE
      <4>1. Settled(RowFor(s0).decision)
        BY <3>3 DEF IInv, LateOK, WriteOK, MayOwn, RowFor
      <4> QED BY <2>3, <3>1, <3>2, <4>1 DEF Settled
    <3>4. RowFor(s0)' = RowFor(s0)
      BY <2>1, <3>1 DEF RowFor
    <3> QED BY <1>1, <2>1, <3>1, <3>2, <3>3, <3>4 DEF NotLost
  <2>4. CASE decided[s0] # NoWitness
    <3>1. ~ (Owns(w) /\ By[w.witness.sub] = By[s0])
      BY <2>1, <2>4 DEF NotLost, Owns, RowFor
    <3>2. RowFor(s0)' = RowFor(s0)
      BY <1>1, <2>1, <3>1, RowLands DEF IInv
    <3> QED BY <1>1, <2>1, <2>4, <3>2 DEF NotLost
  <2> QED BY <2>2, <2>3, <2>4
<1>6. hand.at = "promote" /\ hand.row.revision = RowFor(s0)'.revision
        /\ hand.row.decision.sub # s0 => decided'[s0] = NoWitness
  <2> SUFFICES ASSUME hand.at = "promote", hand.row.revision = RowFor(s0)'.revision,
                      hand.row.decision.sub # s0
               PROVE  decided'[s0] = NoWitness
    OBVIOUS
  <2>1. s0 \in Submission /\ ReadOK(s0, hand.row) /\ hand.row \in Row /\ s0' = s0
    BY <1>1 DEF IInv, HandOK, s0, TypeInv, Hand
  <2>2. ~ (Owns(w) /\ By[w.witness.sub] = By[s0])
    <3> SUFFICES ASSUME Owns(w), By[w.witness.sub] = By[s0]
                 PROVE  FALSE
      OBVIOUS
    <3>1. RowFor(s0)' = w.row /\ w.row.revision = RowFor(s0).revision + 1
      BY <1>1, <2>1, RowLands DEF Owns, WriteOK, RowFor, IInv
    <3>2. hand.row.revision <= RowFor(s0).revision /\ RowFor(s0).revision \in Nat
          /\ hand.row.revision \in Nat
      BY <2>1, NoneOK DEF ReadOK, RowFor, Row, IInv, TypeInv
    <3> QED BY <3>1, <3>2
  <2>3. RowFor(s0)' = RowFor(s0)
    BY <1>1, <2>1, <2>2, RowLands DEF IInv
  <2>4. decided[s0] = NoWitness /\ RowFor(s0).decision.sub # s0
    BY <2>1, <2>3 DEF IInv, HandOK, ReadOK
  <2>5. ~ (Promotes(w) /\ w.witness.sub = s0)
    BY <1>1, <2>4, NoneOK DEF Promotes, WriteOK, Kept, Pending
  <2> QED BY <1>1, <2>1, <2>4, <2>5 DEF Land, IInv, TypeInv
<1>7. HandOK'
  <2>1. s0' = s0 /\ hand' = hand
    BY <1>1 DEF s0
  <2>2. hand.row \in Row /\ hand.row.revision \in Nat
    BY DEF IInv, TypeInv, Hand, Row
  <2>3. hand.row.decision # NoWitness => hand.row.decision \in Given
    BY <2>2 DEF Row, Witness
  <2>4. HandOK
    BY DEF IInv
  <2>5. hand.at \in {"promote", "assess", "own"} => ReadOK(s0, hand.row)'
    BY <1>2, <2>1, <2>2, <2>4 DEF HandOK, Lasting, s0, ReadOK
  <2>6. hand.at = "promote" => Kept(hand.row.decision)'
    BY <1>2, <2>1, <2>3, <2>4 DEF HandOK, Lasting
  <2>7. hand.at \in {"assess", "own"} => MayOwn(s0, hand.row.revision)'
    BY <1>2, <2>1, <2>2, <2>4 DEF HandOK, Lasting, s0
  <2>8. hand.at = "keep" => Kept(hand.witness)'
    BY <1>2, <2>1, <2>4 DEF HandOK, Lasting
  <2>9. hand.at \in {"verdict", "open", "refuse", "alert"} => decided'[s0] = hand.witness
    BY <1>2, <2>4, NoneOK DEF HandOK, Lasting, s0
  <2>10. hand.at \in {"open", "refuse", "alert"}
           => hand.witness.reason \in judged'[s0]
    BY <1>2, <2>4 DEF HandOK, Lasting, s0
  <2>11. /\ hand'.at = hand.at /\ hand'.row = hand.row /\ hand'.witness = hand.witness
         /\ hand'.sub = hand.sub
    BY <2>1
  <2> HIDE DEF s0
  <2> QED BY <1>5, <1>6, <2>1, <2>4, <2>5, <2>6, <2>7, <2>8, <2>9, <2>10, <2>11
          DEF HandOK
<1> QED BY <1>2, <1>3, <1>4, <1>7 DEF IInv

-----------------------------------------------------------------------------
(* The steps *)

(* Nothing is known at the start. *)
LEMMA InitIInv == Init => IInv
<1> SUFFICES ASSUME Init
             PROVE  IInv
  OBVIOUS
<1>1. NoRow \in Row /\ NoWitness \in Witness
  BY DEF NoRow, Row, Witness, NoWitness
<1>2. TypeInv
  BY <1>1, IdleOK DEF Init, TypeInv, NoRow
<1>3. Verdicts
  BY DEF Init, Verdicts, Agree, JudgedOK, StoredOK, NoticesOK
<1> QED BY <1>2, <1>3, IdleOK DEF Init, IInv, LateOK, HandOK

(* What is in hand, by name. *)
LEMMA InHand ==
  ASSUME IInv
  PROVE  /\ HandOK /\ hand \in Hand /\ hand.row \in Row /\ hand.tries \in Nat
         /\ hand.witness \in Witness
         /\ hand.at # "idle" => /\ s0 \in Submission /\ By[s0] \in Reporter
                                /\ RowFor(s0) \in Row /\ decided[s0] \in Witness
BY NoneOK DEF IInv, HandOK, TypeInv, Hand, s0, RowFor

(* The two ways the handler moves on. *)
LEMMA GotoOK ==
  ASSUME IInv, NEW place \in Place, Goto(place)
  PROVE  /\ hand' \in Hand /\ hand'.at = place /\ hand'.sub = hand.sub
         /\ hand'.row = hand.row /\ hand'.witness = hand.witness /\ s0' = s0
BY DEF IInv, TypeInv, Hand, Goto, s0

(* The handler moves on with a verdict and forgets the rest. *)
LEMMA WithOK ==
  ASSUME IInv, NEW x \in Witness, NEW place \in Place, With(x, place), s0 \in Submission
  PROVE  /\ hand' \in Hand /\ hand'.at = place /\ hand'.sub = s0
         /\ hand'.witness = x /\ s0' = s0
<1>1. Idle = [sub |-> None, at |-> "idle", merging |-> FALSE, tries |-> 0,
              row |-> NoRow, witness |-> NoWitness] /\ NoRow \in Row
  BY DEF Idle, NoRow, Row, Witness, NoWitness
<1> QED BY <1>1 DEF With, Hand, s0

(* An event is taken in hand, with nothing known of it. *)
LEMMA DeliverStep ==
  ASSUME IInv, NEW s \in Submission, Deliver(s)
  PROVE  IInv'
<1>1. hand' \in Hand /\ hand'.at = "submitted" /\ hand'.sub = s
  BY IdleOK DEF Deliver, Hand, Place
<1>2. HandOK'
  BY <1>1 DEF HandOK
<1> QED BY <1>1, <1>2, QuietStep DEF Deliver, board, world

(* What is in a case or refused is finished; the rest is looked up. *)
LEMMA SubmittedStep == IInv /\ Submitted => IInv'
<1> SUFFICES ASSUME IInv, Submitted
             PROVE  IInv'
  OBVIOUS
<1>1. CASE Done \/ Fail
  BY <1>1, EndOK, QuietStep DEF Submitted, board, world
<1>2. CASE hand' = [hand EXCEPT !.at = "decision", !.merging = About[s0] \in active]
  <2>1. hand' \in Hand /\ hand'.at = "decision" /\ hand'.sub = hand.sub
    <3> DEFINE merging == About[s0] \in active
    <3>1. merging \in BOOLEAN /\ hand \in Hand
      BY DEF IInv, TypeInv
    <3>2. hand' = [hand EXCEPT !.at = "decision", !.merging = merging]
      BY <1>2
    <3> HIDE DEF merging
    <3> QED BY <3>1, <3>2 DEF Hand, Place
  <2>2. hand.sub \in Submission
    BY DEF IInv, HandOK, Submitted, At
  <2>3. HandOK'
    BY <2>1, <2>2 DEF HandOK
  <2> QED BY <2>1, <2>3, QuietStep DEF Submitted, board, world
<1> QED BY <1>1, <1>2 DEF Submitted

(* A verdict on record is the verdict. *)
LEMMA ReadDecisionStep == IInv /\ ReadDecision => IInv'
<1> SUFFICES ASSUME IInv, ReadDecision
             PROVE  IInv'
  OBVIOUS
<1>1. s0 \in Submission /\ decided[s0] \in Witness
  BY InHand DEF ReadDecision, At
<1>2. /\ UNCHANGED <<rows, decided, late, judged, stored, now, notices>>
  BY DEF ReadDecision, board, world, database
<1>3. CASE decided[s0] # NoWitness /\ With(decided[s0], "verdict")
  <2>1. /\ hand' \in Hand /\ hand'.at = "verdict" /\ hand'.sub = s0
        /\ hand'.witness = decided[s0] /\ s0' = s0
    BY <1>1, <1>3, WithOK DEF Place
  <2>2. decided[s0] \in Given /\ decided[s0].sub = s0
    BY <1>1, <1>3 DEF IInv, TypeInv, Witness
  <2>3. HandOK'
    BY <1>1, <1>2, <2>1, <2>2 DEF HandOK
  <2> QED BY <1>2, <2>1, <2>3, QuietStep DEF database
<1>4. CASE decided[s0] = NoWitness /\ Goto("row")
  <2>1. hand' \in Hand /\ hand'.at = "row" /\ hand'.sub = hand.sub /\ s0' = s0
    BY <1>4, GotoOK DEF Place
  <2>2. HandOK'
    BY <1>1, <1>2, <1>4, <2>1 DEF HandOK, NotLost, s0
  <2> QED BY <1>2, <2>1, <2>2, QuietStep DEF database
<1> QED BY <1>3, <1>4 DEF ReadDecision

(* A row without a verdict may be written; the verdict of another submission
   must be on record first. *)
LEMMA ReadRowStep == IInv /\ ReadRow => IInv'
<1> SUFFICES ASSUME IInv, ReadRow
             PROVE  IInv'
  OBVIOUS
<1> DEFINE row == RowFor(s0)
           place == IF row.decision = NoWitness THEN "assess" ELSE "promote"
<1>1. /\ s0 \in Submission /\ By[s0] \in Reporter /\ row \in Row
      /\ NotLost(s0) /\ hand \in Hand
  BY InHand DEF ReadRow, At, HandOK
<1>2. UNCHANGED <<rows, decided, late, judged, stored, now, notices>>
  BY DEF ReadRow, board, world, database
<1>3. hand' = [hand EXCEPT !.at = place, !.row = row]
  BY DEF ReadRow, RowFor
<1>4. /\ hand' \in Hand /\ hand'.at = place /\ hand'.sub = hand.sub /\ hand'.row = row
      /\ s0' = s0
  BY <1>1, <1>3 DEF Hand, Place, s0
<1>5. RowFor(s0)' = row
  BY <1>2, <1>4 DEF RowFor
<1>6. row.revision \in Nat
  BY <1>1 DEF Row
<1>7. ReadOK(s0, hand.row)'
  BY <1>4, <1>5, <1>6 DEF ReadOK
<1>8. CASE row.decision = NoWitness
  <2>1. Unjudged(s0)' /\ Settled(RowFor(s0).decision)'
    BY <1>1, <1>2, <1>4, <1>5, <1>8, NoneOK DEF NotLost, Unjudged, Settled
  <2>2. MayOwn(s0, hand.row.revision)'
    BY <1>4, <1>5, <1>6, <2>1 DEF MayOwn
  <2>3. HandOK'
    BY <1>1, <1>4, <1>7, <1>8, <2>2 DEF HandOK, s0
  <2> QED BY <1>2, <1>4, <2>3, QuietStep DEF database
<1>9. CASE row.decision # NoWitness
  <2>1. By[row.decision.sub] = By[s0]
    BY <1>1, <1>9 DEF IInv, TypeInv, RowFor
  <2>2. Kept(hand.row.decision)'
    BY <1>2, <1>4, <2>1 DEF Kept, RowFor
  <2>3. row.decision.sub # s0 => decided'[s0] = NoWitness
    BY <1>1, <1>2 DEF NotLost
  <2> HIDE DEF row
  <2>4. HandOK'
    BY <1>1, <1>4, <1>7, <1>9, <2>2, <2>3 DEF HandOK, s0
  <2> QED BY <1>2, <1>4, <2>4, QuietStep DEF database
<1> QED BY <1>8, <1>9

(* The verdict in the row is on record now: it is this submission's, or the row
   may be written. *)
LEMMA PromoteStep == IInv /\ Promote => IInv'
<1> SUFFICES ASSUME IInv, Promote
             PROVE  IInv'
  OBVIOUS
<1> DEFINE x == hand.row.decision
           w == Write("promote", x, 0, NoRow)
<1>1. /\ s0 \in Submission /\ By[s0] \in Reporter /\ hand.row \in Row
      /\ ReadOK(s0, hand.row) /\ x # NoWitness /\ Kept(x)
      /\ hand.row.revision = RowFor(s0).revision /\ x.sub # s0
           => decided[s0] = NoWitness
  BY InHand DEF Promote, At, HandOK
<1>2. /\ x \in Given /\ w \in Pending /\ WriteOK(w)
      /\ w.op = "promote" /\ w.witness = x
  BY <1>1 DEF Row, Witness, Write, Pending, NoRow, WriteOK
<1>3. UNCHANGED <<stored, now>>
  BY DEF Promote, board, world
<1>4. CASE Unanswered(w)
  BY <1>2, <1>3, <1>4, UnansweredStep
<1>5. CASE /\ Land(w) /\ UNCHANGED late
           /\ IF x.sub = s0 THEN With(x, "verdict") ELSE Goto("assess")
  <2>1. decided'[x.sub] = x /\ Lasting /\ DatabaseOK'
    BY <1>2, <1>3, <1>5, LandOK DEF IInv
  <2>2. UNCHANGED rows /\ \A s \in Submission \ {x.sub} : decided'[s] = decided[s]
    BY <1>2, <1>5 DEF Land, Owns, Promotes, IInv, TypeInv
  <2> HIDE DEF w
  <2>3. CASE x.sub = s0
    <3>1. /\ hand' \in Hand /\ hand'.at = "verdict" /\ hand'.sub = s0
          /\ hand'.witness = x /\ s0' = s0
      BY <1>1, <1>2, <1>5, <2>3, WithOK DEF Place, Witness
    <3> HIDE DEF x
    <3>2. HandOK'
      BY <1>1, <1>2, <2>1, <2>3, <3>1 DEF HandOK
    <3> QED BY <1>2, <1>3, <1>5, <3>1, <3>2, AnsweredStep
  <2>4. CASE x.sub # s0
    <3>1. /\ hand' \in Hand /\ hand'.at = "assess" /\ hand'.sub = hand.sub
          /\ hand'.row = hand.row /\ s0' = s0
      BY <1>5, <2>4, GotoOK DEF Place
    <3>2. RowFor(s0)' = RowFor(s0)
      BY <2>2, <3>1 DEF RowFor
    <3>3. ReadOK(s0, hand.row)'
      BY <1>1, <3>1, <3>2 DEF ReadOK
    <3>4. MayOwn(s0, hand.row.revision)'
      <4> SUFFICES ASSUME hand.row.revision = RowFor(s0).revision
                   PROVE  Unjudged(s0)' /\ Settled(RowFor(s0).decision)'
        BY <1>1, <3>1, <3>2 DEF MayOwn, ReadOK
      <4>1. RowFor(s0).decision = x /\ decided[s0] = NoWitness
        BY <1>1, <2>4 DEF ReadOK
      <4>2. decided'[s0] = NoWitness
        BY <1>1, <2>2, <2>4, <4>1
      <4> HIDE DEF x
      <4> QED BY <2>1, <2>4, <3>1, <3>2, <4>1, <4>2 DEF Unjudged, Settled
    <3>5. HandOK'
      BY <1>1, <3>1, <3>3, <3>4 DEF HandOK, s0
    <3> QED BY <1>2, <1>3, <1>5, <3>1, <3>5, AnsweredStep
  <2> QED BY <2>3, <2>4
<1> QED BY <1>4, <1>5 DEF Promote

(* The verdict is made of what was read at the revision the write will ask for. *)
LEMMA AssessStep == IInv /\ Assess => IInv'
<1> SUFFICES ASSUME IInv, Assess
             PROVE  IInv'
  OBVIOUS
<1> DEFINE x == [sub |-> s0, reason |-> Reason, at |-> now]
<1>1. /\ s0 \in Submission /\ hand \in Hand
      /\ ReadOK(s0, hand.row) /\ MayOwn(s0, hand.row.revision)
  BY InHand DEF Assess, At, HandOK
<1>2. UNCHANGED <<database, late, stored, now>>
  BY DEF Assess, board, world
<1>3. CASE Fail
  BY <1>2, <1>3, EndOK, QuietStep
<1>4. CASE hand' = [hand EXCEPT !.at = "own", !.witness = x]
  <2>1. x \in Given /\ x.sub = s0
    BY <1>1 DEF Given, Reason, Verdict, Refusals, IInv, TypeInv
  <2> HIDE DEF x
  <2>2. /\ hand' \in Hand /\ hand'.at = "own" /\ hand'.sub = hand.sub
        /\ hand'.row = hand.row /\ hand'.witness = x /\ s0' = s0
    BY <1>1, <1>4, <2>1 DEF Hand, Place, Witness, s0
  <2>3. ReadOK(s0, hand.row)' /\ MayOwn(s0, hand.row.revision)'
    BY <1>1, <1>2, <2>2
    DEF ReadOK, MayOwn, Unjudged, Settled, RowFor, database
  <2>4. HandOK'
    BY <1>1, <2>1, <2>2, <2>3 DEF HandOK, s0
  <2> QED BY <1>2, <2>2, <2>4, QuietStep
<1> QED BY <1>3, <1>4 DEF Assess

(* The row of a write: the verdict, at the next revision. *)
LEMMA NewRowOK ==
  ASSUME TypeInv, hand.witness \in Given, hand.witness.sub = s0, s0 \in Submission
  PROVE  /\ NewRow \in Row /\ NewRow.decision = hand.witness
         /\ NewRow.revision = hand.row.revision + 1
<1> DEFINE row == [hand.row EXCEPT !.revision = @ + 1, !.decision = hand.witness]
<1>1. hand.row \in Row
  BY DEF TypeInv, Hand
<1>2. /\ row \in Row /\ row.decision = hand.witness
      /\ row.revision = hand.row.revision + 1
  <2> DEFINE n == hand.row.revision + 1
  <2>1. n \in Nat /\ row = [hand.row EXCEPT !.revision = n, !.decision = hand.witness]
    BY <1>1 DEF Row
  <2> HIDE DEF n, row
  <2>2. row \in Row /\ row.decision = hand.witness /\ row.revision = n
    BY <1>1, <2>1 DEF Row, Witness
  <2> QED BY <2>2 DEF n
<1>3. hand.witness.at + Cooldown \in Nat
  BY AdmissionAssumption DEF Given
<1>4. NewRow = IF hand.witness.reason \in {"blocked", "cooldown"} THEN row
               ELSE [row EXCEPT !.holder = s0, !.until = hand.witness.at + Cooldown]
  BY DEF NewRow
<1> DEFINE until == hand.witness.at + Cooldown
<1> HIDE DEF row, until
<1>5. [row EXCEPT !.holder = s0, !.until = until] \in Row
  BY <1>2, <1>3 DEF Row, until
<1>6. /\ [row EXCEPT !.holder = s0, !.until = until].decision = row.decision
      /\ [row EXCEPT !.holder = s0, !.until = until].revision = row.revision
  BY <1>2 DEF Row
<1> QED BY <1>2, <1>4, <1>5, <1>6 DEF until

(* The write replaces the row it read, and the verdict is kept; or it was too
   late and the handler starts again. *)
LEMMA OwnStep == IInv /\ Own => IInv'
<1> SUFFICES ASSUME IInv, Own
             PROVE  IInv'
  OBVIOUS
<1> DEFINE x == hand.witness
           w == Write("own", x, hand.row.revision, NewRow)
<1>1. /\ s0 \in Submission /\ hand \in Hand /\ hand.row \in Row /\ hand.tries \in Nat
      /\ x \in Given /\ x.sub = s0 /\ MayOwn(s0, hand.row.revision)
  BY InHand DEF Own, At, HandOK
<1>2. /\ w \in Pending /\ WriteOK(w) /\ w.witness = x
  BY <1>1, NewRowOK DEF IInv, Row, Write, Pending, WriteOK
<1>3. UNCHANGED <<stored, now>>
  BY DEF Own, board, world
<1>4. CASE Unanswered(w)
  BY <1>2, <1>3, <1>4, UnansweredStep
<1>5. CASE Owns(w) /\ Land(w) /\ With(x, "keep") /\ UNCHANGED late
  <2>1. PICK v \in Pending : v = w
    BY <1>2
  <2> HIDE DEF w
  <2>2. /\ hand' \in Hand /\ hand'.at = "keep" /\ hand'.sub = s0
        /\ hand'.witness = x /\ s0' = s0
    BY <1>1, <1>5, WithOK DEF Place, Witness
  <2>3. Kept(hand.witness)'
    <3>1. Kept(v.witness)'
      BY <1>2, <1>3, <1>5, <2>1, LandOK DEF IInv
    <3> QED BY <1>2, <2>1, <2>2, <3>1
  <2>4. HandOK'
    BY <1>1, <2>3, <2>2 DEF HandOK
  <2> QED BY <1>2, <1>3, <1>5, <2>2, <2>4, AnsweredStep
<1>6. CASE UNCHANGED <<database, late>> /\ Fail
  BY <1>3, <1>6, EndOK, QuietStep
<1>7. CASE /\ UNCHANGED <<database, late>>
           /\ hand' = [hand EXCEPT !.at = "decision", !.tries = @ + 1]
  <2>1. hand' \in Hand /\ hand'.at = "decision" /\ hand'.sub = hand.sub
    <3> DEFINE n == hand.tries + 1
    <3>1. n \in Nat /\ hand' = [hand EXCEPT !.at = "decision", !.tries = n]
      BY <1>1, <1>7
    <3> HIDE DEF n
    <3> QED BY <1>1, <3>1 DEF Hand, Place
  <2>2. HandOK'
    BY <1>1, <2>1 DEF HandOK, s0
  <2> QED BY <1>3, <1>7, <2>1, <2>2, QuietStep
<1> QED BY <1>4, <1>5, <1>6, <1>7 DEF Own

(* The verdict in the row is copied to its record. *)
LEMMA KeepStep == IInv /\ Keep => IInv'
<1> SUFFICES ASSUME IInv, Keep
             PROVE  IInv'
  OBVIOUS
<1> DEFINE x == hand.witness
           w == Write("promote", x, 0, NoRow)
<1>1. s0 \in Submission /\ x \in Given /\ x.sub = s0 /\ Kept(x)
  BY InHand DEF Keep, At, HandOK
<1>2. w \in Pending /\ WriteOK(w) /\ w.op = "promote" /\ w.witness = x
  BY <1>1 DEF Write, Pending, NoRow, Row, Witness, WriteOK
<1>3. UNCHANGED <<stored, now>>
  BY DEF Keep, board, world
<1>4. CASE Unanswered(w)
  BY <1>2, <1>3, <1>4, UnansweredStep
<1>5. CASE Land(w) /\ Goto("verdict") /\ UNCHANGED late
  <2>1. decided'[s0] = x
    BY <1>1, <1>2, <1>3, <1>5, LandOK DEF IInv
  <2>2. /\ hand' \in Hand /\ hand'.at = "verdict" /\ hand'.sub = hand.sub
        /\ hand'.witness = x /\ s0' = s0
    BY <1>5, GotoOK DEF Place
  <2> HIDE DEF w
  <2>3. HandOK'
    BY <1>1, <2>1, <2>2 DEF HandOK, s0
  <2> QED BY <1>2, <1>3, <1>5, <2>2, <2>3, AnsweredStep
<1> QED BY <1>4, <1>5 DEF Keep

(* The handler acts on what is on record. *)
LEMMA JudgeStep == IInv /\ Judge => IInv'
<1> SUFFICES ASSUME IInv, Judge
             PROVE  IInv'
  OBVIOUS
<1> DEFINE x == hand.witness
           place == IF x.reason = "admitted" THEN "open" ELSE "refuse"
<1>1. s0 \in Submission /\ x \in Given /\ x.sub = s0 /\ decided[s0] = x
  BY InHand DEF Judge, At, HandOK
<1>2. /\ judged' = [judged EXCEPT ![s0] = @ \union {x.reason}] /\ Goto(place)
      /\ UNCHANGED <<rows, decided, late, notices, stored, now>>
  BY DEF Judge, board, world
<1>3. /\ hand' \in Hand /\ hand'.at = place /\ hand'.sub = hand.sub
      /\ hand'.witness = x /\ s0' = s0
  BY <1>2, GotoOK DEF Place
<1>4. /\ judged' \in [Submission -> SUBSET Verdict]
      /\ \A s \in Submission : judged'[s] = IF s = s0 THEN judged[s] \union {x.reason}
                                             ELSE judged[s]
  BY <1>1, <1>2 DEF IInv, TypeInv, Given
<1>5. \A s \in Submission : RowFor(s)' = RowFor(s)
  BY <1>2 DEF RowFor
<1> HIDE DEF x
<1>6. JudgedOK' /\ StoredOK'
  BY <1>1, <1>2, <1>4, <1>5 DEF IInv, TypeInv, Verdicts, JudgedOK, StoredOK
<1>7. x.reason \in Refusals \/ x.reason = "admitted"
  BY <1>1 DEF Given, Verdict
<1>8. HandOK'
  BY <1>1, <1>2, <1>3, <1>4, <1>7 DEF HandOK, s0
<1> QED BY <1>2, <1>3, <1>4, <1>6, <1>8, HandStep DEF IInv, TypeInv

(* Only what is admitted comes into a case. *)
LEMMA OpenStep == IInv /\ Open => IInv'
<1> SUFFICES ASSUME IInv, Open
             PROVE  IInv'
  OBVIOUS
<1>1. s0 \in Submission /\ "admitted" \in judged[s0]
  BY InHand DEF Open, At, HandOK
<1>2. UNCHANGED <<database, late, now>> /\ (Done \/ Fail)
      /\ stored' \in {stored, stored \union {s0}}
  BY DEF Open, world, board
<1>3. StoredOK' /\ stored' \subseteq Submission
  BY <1>1, <1>2 DEF IInv, TypeInv, Verdicts, StoredOK, database
<1>4. JudgedOK'
  BY <1>2 DEF IInv, Verdicts, JudgedOK, RowFor, database
<1> QED BY <1>2, <1>3, <1>4, EndOK, HandStep DEF IInv, TypeInv, database

(* A notice is stored of what was refused. *)
LEMMA RefuseStep == IInv /\ Refuse => IInv'
<1> SUFFICES ASSUME IInv, Refuse
             PROVE  IInv'
  OBVIOUS
<1> DEFINE x == hand.witness
           w == Write("notice", x, 0, NoRow)
<1>1. /\ s0 \in Submission /\ x \in Given /\ x.sub = s0 /\ decided[s0] = x
      /\ x.reason \in Refusals /\ x.reason \in judged[s0]
  BY InHand DEF Refuse, At, HandOK
<1>2. w \in Pending /\ WriteOK(w) /\ w.op = "notice" /\ w.witness = x
  BY <1>1 DEF Write, Pending, NoRow, Row, Witness, WriteOK
<1>3. UNCHANGED <<stored, now>>
  BY DEF Refuse, board, world
<1>4. CASE Unanswered(w)
  BY <1>2, <1>3, <1>4, UnansweredStep
<1>5. CASE Land(w) /\ UNCHANGED late /\ Goto("alert")
  <2>1. UNCHANGED <<decided, judged>>
    BY <1>2, <1>5 DEF Land, Owns, Promotes
  <2>2. /\ hand' \in Hand /\ hand'.at = "alert" /\ hand'.sub = hand.sub
        /\ hand'.witness = x /\ s0' = s0
    BY <1>5, GotoOK DEF Place
  <2> HIDE DEF w
  <2>3. HandOK'
    BY <1>1, <2>1, <2>2 DEF HandOK, s0
  <2> QED BY <1>2, <1>3, <1>5, <2>2, <2>3, AnsweredStep
<1>6. CASE Land(w) /\ UNCHANGED late /\ Done
  BY <1>2, <1>3, <1>6, EndOK, AnsweredStep
<1> QED BY <1>4, <1>5, <1>6 DEF Refuse

(* Every step preserves the invariant. *)
LEMMA StepIInv == IInv /\ [Next]_vars => IInv'
<1> SUFFICES ASSUME IInv, [Next]_vars
             PROVE  IInv'
  OBVIOUS
<1>1. CASE Handle
  <2>1. CASE BurstAlert
    BY <2>1, EndOK, QuietStep DEF BurstAlert, board, world
  <2> QED
    BY <1>1, <2>1, SubmittedStep, ReadDecisionStep, ReadRowStep, PromoteStep,
       AssessStep, OwnStep, KeepStep, JudgeStep, OpenStep, RefuseStep
    DEF Handle
<1>2. CASE Crash
  BY <1>2, EndOK, QuietStep DEF Crash, board, world
<1>3. ASSUME UNCHANGED <<database, late, stored, hand>>, now' \in Nat
      PROVE  IInv'
  <2>1. hand' \in Hand /\ HandOK'
    BY <1>3 DEF IInv, TypeInv, HandOK, NotLost, ReadOK, MayOwn, Unjudged, Settled,
                Kept, RowFor, s0, database
  <2>2. JudgedOK' /\ StoredOK'
    BY <1>3 DEF IInv, Verdicts, JudgedOK, StoredOK, RowFor, database
  <2> QED BY <1>3, <2>1, <2>2, HandStep DEF IInv, TypeInv, database
<1>4. CASE Tick
  BY <1>3, <1>4 DEF Tick, board, IInv, TypeInv
<1>5. CASE Staff
  BY <1>3, <1>5 DEF Staff, IInv, TypeInv
<1>6. CASE UNCHANGED vars
  BY <1>3, <1>6 DEF vars, database, IInv, TypeInv
<1> QED BY <1>1, <1>2, <1>4, <1>5, <1>6, DeliverStep, LandsStep DEF Next

(* OneVerdict: a submission has one verdict, whatever is lost, late or
   redelivered (_admission_decision), and what is in a case was admitted, what
   has a notice was refused. *)
THEOREM OneVerdictSafe == Spec => []OneVerdict
<1>1. IInv => OneVerdict
  <2> SUFFICES ASSUME IInv, NEW s \in Submission
               PROVE  /\ Cardinality(judged[s]) <= 1
                      /\ s \in stored => judged[s] = {"admitted"}
                      /\ s \in notices => judged[s] \subseteq Refusals /\ judged[s] # {}
    BY DEF OneVerdict
  <2>1. \A v, w \in judged[s] : v = w
    BY NoneOK DEF IInv, Verdicts, JudgedOK, Agree
  <2>2. s \in stored => judged[s] = {"admitted"}
    BY <2>1 DEF IInv, Verdicts, StoredOK
  <2>3. s \in notices => judged[s] \subseteq Refusals /\ judged[s] # {}
    BY <2>1 DEF IInv, Verdicts, NoticesOK
  <2>4. Cardinality(judged[s]) <= 1
    <3>1. CASE judged[s] = {}
      BY <3>1, FS_EmptySet
    <3>2. ASSUME NEW v \in judged[s]
          PROVE  Cardinality(judged[s]) <= 1
      <4>1. judged[s] = {v}
        BY <2>1
      <4>2. Cardinality({v}) = 1
        BY FS_Singleton
      <4> QED BY <4>1, <4>2
    <3> QED BY <3>1, <3>2
  <2> QED BY <2>2, <2>3, <2>4
<1> QED BY <1>1, InitIInv, StepIInv, PTL DEF Spec

-----------------------------------------------------------------------------
(* The cooldown *)

(* The verdicts that a delivery can still see. *)
InSight ==
  ({decided[s] : s \in Submission} \union {rows[r].decision : r \in Reporter})
    \ {NoWitness}

Admitted(x) == x.reason = "admitted"

(* The row of a reporter with an admission in sight has a holder, for at least
   as long as the cooldown of that admission. *)
TakenOK ==
  \A x \in InSight : Admitted(x) =>
    RowFor(x.sub).holder # None /\ x.at + Cooldown <= RowFor(x.sub).until

HolderOK ==
  \A r \in Reporter : rows[r].holder # None =>
    By[rows[r].holder] = r /\ ~Unjudged(rows[r].holder)

Apart ==
  \A x, y \in InSight :
    Admitted(x) /\ Admitted(y) /\ x.sub # y.sub /\ By[x.sub] = By[y.sub] =>
      x.at + Cooldown <= y.at \/ y.at + Cooldown <= x.at

(* What a write that can still replace the row makes of the cooldown: it takes
   one that has run out, or leaves it. *)
TakesOK(x, revision, row) ==
  revision = RowFor(x.sub).revision =>
    IF x.reason \in {"blocked", "cooldown"}
    THEN row.holder = RowFor(x.sub).holder /\ row.until = RowFor(x.sub).until
    ELSE /\ row.holder = x.sub /\ row.until = x.at + Cooldown
         /\ \/ RowFor(x.sub).holder = None
            \/ RowFor(x.sub).until <= x.at

LateTakes == \A w \in late : w.op = "own" => TakesOK(w.witness, w.revision, w.row)
HandTakes == hand.at = "own" => TakesOK(hand.witness, hand.row.revision, NewRow)
StoredDecided == \A s \in stored : decided[s] # NoWitness

Cooldowns == TakenOK /\ HolderOK /\ Apart
CInv == Cooldowns /\ LateTakes /\ HandTakes /\ StoredDecided

(* Verdicts in sight are somebody's. *)
LEMMA SightOK ==
  ASSUME IInv
  PROVE  /\ InSight \subseteq Given
         /\ \A x \in InSight : /\ x.sub \in Submission /\ By[x.sub] \in Reporter
                              /\ RowFor(x.sub) \in Row /\ x.at \in Nat
         /\ \A x \in Given : Kept(x) => x \in InSight
<1>1. \A s \in Submission : decided[s] \in Witness
  BY DEF IInv, TypeInv
<1>2. \A r \in Reporter : rows[r] \in Row /\ rows[r].decision \in Witness
  BY DEF IInv, TypeInv, Row
<1>3. InSight \subseteq Given
  BY <1>1, <1>2 DEF InSight, Witness
<1>4. \A x \in Given : Kept(x) => x \in InSight
  BY NoneOK DEF InSight, Kept, RowFor, Given
<1> QED BY <1>2, <1>3, <1>4, NoneOK DEF Given, RowFor

(* A step that leaves rows and records. *)
LEMMA CoolQuiet ==
  ASSUME IInv, CInv, UNCHANGED <<rows, decided>>,
         \A w \in late' :
           w \in late \/ w.op # "own" \/ TakesOK(w.witness, w.revision, w.row),
         hand'.at # "own" \/ UNCHANGED hand,
         \A s \in stored' : s \in stored \/ decided[s] # NoWitness
  PROVE  CInv'
<1>1. Cooldowns'
  BY DEF CInv, Cooldowns, TakenOK, HolderOK, Apart, InSight, RowFor, Unjudged
<1>2. LateTakes'
  BY DEF CInv, LateTakes, TakesOK, RowFor
<1>3. HandTakes'
  BY DEF CInv, HandTakes, TakesOK, RowFor, NewRow, s0
<1>4. StoredDecided'
  BY DEF CInv, StoredDecided
<1> QED BY <1>1, <1>2, <1>3, <1>4 DEF CInv

(* What a write that still may replace the row makes of the cooldown is not
   changed by what lands before it. *)
TakesLast ==
  \A x \in Given, n \in Nat, row \in Row :
    MayOwn(x.sub, n) /\ TakesOK(x, n, row) => TakesOK(x, n, row)'

(* A verdict takes the row, and with it a cooldown that has run out. *)
LEMMA CoolOwn ==
  ASSUME IInv, Cooldowns, NEW w \in Pending, WriteOK(w), Owns(w), Land(w),
         TakesOK(w.witness, w.revision, w.row)
  PROVE  Cooldowns' /\ TakesLast
<1> DEFINE x == w.witness
           t == x.sub
           old == RowFor(t)
           new == w.row
<1>1. /\ w.op = "own" /\ x \in Given /\ t \in Submission /\ By[t] \in Reporter
      /\ new \in Row /\ old \in Row /\ x.at \in Nat /\ Cooldown \in Nat
      /\ w.revision \in Nat /\ x # NoWitness
  BY NoneOK, AdmissionAssumption
  DEF Owns, Pending, Given, RowFor, IInv, TypeInv
<1>2. /\ new.decision = x /\ new.revision = w.revision + 1
      /\ old.revision = w.revision /\ Unjudged(t) /\ Settled(old.decision)
  BY <1>1 DEF Owns, WriteOK, MayOwn, RowFor
<1>3. IF x.reason \in {"blocked", "cooldown"}
      THEN new.holder = old.holder /\ new.until = old.until
      ELSE /\ new.holder = t /\ new.until = x.at + Cooldown
           /\ old.holder = None \/ old.until <= x.at
  BY <1>2 DEF TakesOK
<1>4. /\ UNCHANGED decided
      /\ rows' \in [Reporter -> Row]
      /\ \A r \in Reporter : rows'[r] = IF r = By[t] THEN new ELSE rows[r]
  BY <1>1 DEF Land, Owns, Promotes, IInv, TypeInv
<1>5. \A s \in Submission : RowFor(s)' = IF By[s] = By[t] THEN new ELSE RowFor(s)
  BY <1>4, NoneOK DEF RowFor
<1>6. \A s \in Submission : By[s] = By[t] => RowFor(s) = old
  BY DEF RowFor
<1>7. InSight' \subseteq InSight \union {x}
  BY <1>2, <1>4 DEF InSight
<1>8. /\ new.until \in Nat /\ old.until \in Nat
      /\ \A y \in InSight : /\ y.sub \in Submission /\ y.at \in Nat
                           /\ RowFor(y.sub) \in Row /\ RowFor(y.sub).until \in Nat
  BY <1>1, SightOK DEF Row
<1>9. \A y \in InSight : Admitted(y) /\ By[y.sub] = By[t] =>
        /\ old.holder # None /\ y.at + Cooldown <= old.until
        /\ new.holder # None /\ y.at + Cooldown <= new.until
        /\ Admitted(x) => y.at + Cooldown <= x.at
  <2> SUFFICES ASSUME NEW y \in InSight, Admitted(y), By[y.sub] = By[t]
               PROVE  /\ old.holder # None /\ y.at + Cooldown <= old.until
                      /\ new.holder # None /\ y.at + Cooldown <= new.until
                      /\ Admitted(x) => y.at + Cooldown <= x.at
    OBVIOUS
  <2>1. old.holder # None /\ y.at + Cooldown <= old.until
    BY <1>6, <1>8 DEF Cooldowns, TakenOK
  <2>2. y.at \in Nat /\ t # None
    BY <1>1, <1>8, NoneOK
  <2> HIDE DEF old, new, t, x
  <2> QED BY <1>1, <1>3, <1>8, <2>1, <2>2 DEF Admitted
<1>10. Admitted(x) => new.holder # None /\ x.at + Cooldown <= new.until
  BY <1>1, <1>3, NoneOK DEF Admitted
<1>11. TakenOK'
  <2> SUFFICES ASSUME NEW y \in InSight', Admitted(y)
               PROVE  /\ RowFor(y.sub)'.holder # None
                      /\ y.at + Cooldown <= RowFor(y.sub)'.until
    BY DEF TakenOK, Admitted
  <2>1. CASE y \in InSight /\ By[y.sub] # By[t]
    BY <1>5, <1>8, <2>1 DEF Cooldowns, TakenOK
  <2>2. CASE y \in InSight /\ By[y.sub] = By[t]
    BY <1>5, <1>8, <1>9, <2>2
  <2>3. CASE y = x
    BY <1>1, <1>5, <1>10, <2>3
  <2> QED BY <1>7, <2>1, <2>2, <2>3
<1>12. Apart'
  <2> SUFFICES ASSUME NEW y \in InSight', NEW z \in InSight', Admitted(y), Admitted(z),
                      y.sub # z.sub, By[y.sub] = By[z.sub]
               PROVE  y.at + Cooldown <= z.at \/ z.at + Cooldown <= y.at
    BY DEF Apart, Admitted
  <2>1. CASE y \in InSight /\ z \in InSight
    BY <2>1 DEF Cooldowns, Apart
  <2>2. CASE y = x /\ z \in InSight
    BY <1>9, <2>2
  <2>3. CASE z = x /\ y \in InSight
    BY <1>9, <2>3
  <2> QED BY <1>7, <2>1, <2>2, <2>3
<1>13. HolderOK'
  <2> SUFFICES ASSUME NEW r \in Reporter, NEW h \in Submission, h = rows'[r].holder
               PROVE  By[h] = r /\ ~Unjudged(h)'
    BY <1>4 DEF HolderOK, Unjudged, RowFor, Row
  <2>1. CASE r # By[t]
    <3>1. h = rows[r].holder /\ By[h] = r /\ ~Unjudged(h)
      BY <1>4, <2>1, NoneOK DEF Cooldowns, HolderOK
    <3> QED BY <1>4, <1>5, <2>1, <3>1 DEF Unjudged
  <2>2. CASE r = By[t] /\ h = t
    BY <1>2, <1>4, <1>5, <2>2 DEF Unjudged
  <2>3. CASE r = By[t] /\ h # t
    <3>1. h = old.holder
      BY <1>3, <1>4, <2>3
    <3>2. By[h] = r /\ ~Unjudged(h) /\ old = RowFor(h)
      BY <2>3, <3>1, NoneOK DEF Cooldowns, HolderOK, RowFor
    <3>3. decided[h] # NoWitness
      <4>1. CASE old.decision.sub = h
        BY <1>2, <4>1, NoneOK DEF Settled
      <4> QED BY <3>2, <4>1 DEF Unjudged
    <3> QED BY <1>4, <3>2, <3>3 DEF Unjudged
  <2> QED BY <2>1, <2>2, <2>3
<1>14. TakesLast
  <2> SUFFICES ASSUME NEW y \in Given, NEW n \in Nat, NEW row \in Row,
                      MayOwn(y.sub, n), TakesOK(y, n, row)
               PROVE  TakesOK(y, n, row)'
    BY DEF TakesLast
  <2>1. y.sub \in Submission
    BY DEF Given
  <2>2. CASE By[y.sub] = By[t]
    <3>1. n <= w.revision /\ RowFor(y.sub)'.revision = w.revision + 1
      BY <1>2, <1>5, <1>6, <2>1, <2>2 DEF MayOwn
    <3>2. n # RowFor(y.sub)'.revision
      BY <1>1, <3>1
    <3> QED BY <3>2 DEF TakesOK
  <2>3. CASE By[y.sub] # By[t]
    BY <1>5, <2>1, <2>3 DEF TakesOK
  <2> QED BY <2>2, <2>3
<1> QED BY <1>11, <1>12, <1>13, <1>14 DEF Cooldowns

(* Any write that lands keeps the admissions apart. *)
LEMMA CoolLand ==
  ASSUME IInv, Cooldowns, NEW w \in Pending, WriteOK(w), Land(w),
         w.op = "own" => TakesOK(w.witness, w.revision, w.row)
  PROVE  Cooldowns' /\ TakesLast
<1>1. CASE Owns(w)
  BY <1>1, CoolOwn DEF Owns
<1>2. CASE ~Owns(w)
  <2>1. UNCHANGED rows
    BY <1>2 DEF Land
  <2>2. \A s : RowFor(s)' = RowFor(s)
    BY <2>1 DEF RowFor
  <2>3. \A s \in Submission : decided'[s] # decided[s] =>
          decided[s] = NoWitness /\ decided'[s] = w.witness /\ w.witness \in InSight
    BY SightOK DEF Land, Promotes, WriteOK, Pending, Given, IInv, TypeInv
  <2>4. InSight' \subseteq InSight
    BY <2>1, <2>3 DEF InSight
  <2>5. \A s \in Submission : Unjudged(s)' => Unjudged(s)
    BY <2>2, <2>3 DEF Unjudged
  <2>6. \A r \in Reporter : rows[r].holder # None => rows[r].holder \in Submission
    BY DEF IInv, TypeInv, Row
  <2>7. TakenOK' /\ Apart'
    BY <2>2, <2>4 DEF Cooldowns, TakenOK, Apart, Admitted
  <2>8. HolderOK'
    BY <2>1, <2>5, <2>6 DEF Cooldowns, HolderOK
  <2>9. TakesLast
    BY <2>2 DEF TakesLast, TakesOK
  <2> QED BY <2>7, <2>8, <2>9 DEF Cooldowns
<1> QED BY <1>1, <1>2

(* A write landed: what still may replace a row keeps its word on the cooldown. *)
LEMMA CoolLanded ==
  ASSUME IInv, CInv, NEW w \in Pending, WriteOK(w), Land(w),
         w.op = "own" => TakesOK(w.witness, w.revision, w.row),
         late' \subseteq late, stored' = stored, hand'.at # "own" \/ UNCHANGED hand
  PROVE  CInv'
<1>1. Cooldowns' /\ TakesLast /\ Lasting
  BY CoolLand, LandOK DEF CInv, IInv
<1>2. LateTakes'
  <2> SUFFICES ASSUME NEW v \in late', v.op = "own"
               PROVE  TakesOK(v.witness, v.revision, v.row)'
    BY DEF LateTakes
  <2>1. /\ v \in late /\ v.witness \in Given /\ v.revision \in Nat /\ v.row \in Row
    BY DEF IInv, TypeInv, Pending
  <2>2. MayOwn(v.witness.sub, v.revision) /\ TakesOK(v.witness, v.revision, v.row)
    BY <2>1 DEF IInv, LateOK, WriteOK, CInv, LateTakes
  <2> QED BY <1>1, <2>1, <2>2 DEF TakesLast
<1>3. HandTakes'
  <2> SUFFICES ASSUME hand'.at = "own"
               PROVE  TakesOK(hand.witness, hand.row.revision, NewRow)'
    BY DEF HandTakes
  <2>1. UNCHANGED hand /\ hand.at = "own"
    OBVIOUS
  <2>2. /\ hand.witness \in Given /\ hand.witness.sub = s0 /\ s0 \in Submission
        /\ MayOwn(s0, hand.row.revision) /\ hand.row.revision \in Nat
    BY <2>1, InHand DEF HandOK, Row
  <2>3. NewRow \in Row
    BY <2>2, NewRowOK DEF IInv
  <2>4. NewRow' = NewRow
    BY <2>1 DEF NewRow, s0
  <2>5. PICK x \in Given, n \in Nat, new \in Row :
          x = hand.witness /\ n = hand.row.revision /\ new = NewRow
    BY <2>2, <2>3
  <2>6. MayOwn(x.sub, n) /\ TakesOK(x, n, new)
    BY <2>1, <2>2, <2>5 DEF CInv, HandTakes
  <2>7. TakesOK(x, n, new)'
    BY <1>1, <2>6 DEF TakesLast
  <2>8. hand'.witness = x /\ hand'.row.revision = n /\ NewRow' = new
    BY <2>1, <2>4, <2>5
  <2> QED BY <2>7, <2>8 DEF TakesOK, RowFor
<1>4. StoredDecided'
  BY <1>1 DEF CInv, StoredDecided, Lasting, IInv, TypeInv
<1> QED BY <1>1, <1>2, <1>3, <1>4 DEF CInv

(* A write whose answer is lost leaves the hand idle. *)
LEMMA CoolUnanswered ==
  ASSUME IInv, CInv, NEW w \in Pending, WriteOK(w), Unanswered(w), UNCHANGED stored,
         w.op = "own" => TakesOK(w.witness, w.revision, w.row)
  PROVE  CInv'
<1>1. hand'.at # "own"
  BY IdleOK DEF Unanswered, Fail
<1>2. CASE Land(w) /\ UNCHANGED late
  BY <1>1, <1>2, CoolLanded
<1>3. CASE late' = late \union {w} /\ UNCHANGED database
  <2>1. \A v \in late' :
          v \in late \/ v.op # "own" \/ TakesOK(v.witness, v.revision, v.row)
    BY <1>3
  <2> QED BY <1>1, <1>3, <2>1, CoolQuiet DEF database
<1> QED BY <1>2, <1>3 DEF Unanswered

(* The cooldown was seen not to run, of the row that the write asks for. *)
LEMMA CoolAssess ==
  ASSUME IInv, IInv', CInv, Assess
  PROVE  CInv'
<1>1. UNCHANGED <<rows, decided, late, stored>>
  BY DEF Assess, database, board
<1>2. CASE Fail
  <2>1. hand'.at # "own"
    BY <1>2, IdleOK DEF Fail
  <2> QED BY <1>1, <2>1, CoolQuiet
<1>3. CASE hand' = [hand EXCEPT !.at = "own",
                      !.witness = [sub |-> s0, reason |-> Reason, at |-> now]]
  <2>1. /\ s0 \in Submission /\ By[s0] \in Reporter /\ hand \in Hand /\ now \in Nat
        /\ hand.row \in Row /\ RowFor(s0) \in Row
        /\ ReadOK(s0, hand.row) /\ MayOwn(s0, hand.row.revision)
    BY InHand DEF Assess, At, HandOK, IInv, TypeInv
  <2> DEFINE x == hand'.witness
  <2>2. /\ x.sub = s0 /\ x.reason = Reason /\ x.at = now /\ hand'.row = hand.row
        /\ s0' = s0 /\ RowFor(s0)' = RowFor(s0)
    BY <1>1, <1>3, <2>1 DEF Hand, s0, RowFor
  <2>3. IF x.reason \in {"blocked", "cooldown"}
        THEN NewRow'.holder = hand.row.holder /\ NewRow'.until = hand.row.until
        ELSE NewRow'.holder = s0 /\ NewRow'.until = now + Cooldown
    BY <2>1, <2>2 DEF NewRow, Row
  <2>4. Reason \notin {"blocked", "cooldown"} => ~Held(hand.row)
    BY DEF Reason
  <2>5. hand.row.revision = RowFor(s0).revision =>
          hand.row = RowFor(s0) /\ Unjudged(s0)
    BY <2>1 DEF ReadOK, MayOwn
  <2>6. Unjudged(s0) => RowFor(s0).holder # s0
    BY <2>1, NoneOK DEF CInv, Cooldowns, HolderOK, RowFor
  <2>7. RowFor(s0).until \in Nat
    BY <2>1 DEF Row
  <2>8. TakesOK(hand.witness, hand.row.revision, NewRow)'
    BY <2>2, <2>3, <2>4, <2>5, <2>6, <2>7, <2>1 DEF TakesOK, Held
  <2>9. HandTakes'
    BY <2>8 DEF HandTakes
  <2>10. Cooldowns'
    BY <1>1 DEF CInv, Cooldowns, TakenOK, HolderOK, Apart, InSight, RowFor, Unjudged
  <2>11. LateTakes' /\ StoredDecided'
    BY <1>1 DEF CInv, LateTakes, TakesOK, RowFor, StoredDecided
  <2> QED BY <2>9, <2>10, <2>11 DEF CInv
<1> QED BY <1>2, <1>3 DEF Assess

(* The write of the verdict, answered, refused or lost. *)
LEMMA CoolOwnStep ==
  ASSUME IInv, CInv, Own
  PROVE  CInv'
<1> DEFINE w == Write("own", hand.witness, hand.row.revision, NewRow)
<1>1. /\ s0 \in Submission /\ hand.row \in Row /\ hand.witness \in Given
      /\ hand.witness.sub = s0 /\ MayOwn(s0, hand.row.revision)
  BY InHand DEF Own, At, HandOK
<1>2. w \in Pending /\ WriteOK(w)
  BY <1>1, NewRowOK DEF IInv, Row, Write, Pending, WriteOK
<1>3. TakesOK(w.witness, w.revision, w.row)
  BY DEF Write, Own, At, CInv, HandTakes
<1>4. UNCHANGED stored
  BY DEF Own, board
<1>5. CASE Unanswered(w)
  BY <1>2, <1>3, <1>4, <1>5, CoolUnanswered
<1>6. CASE Land(w) /\ With(hand.witness, "keep") /\ UNCHANGED late
  <2>1. hand'.at = "keep"
    BY <1>1, <1>6, InHand, WithOK DEF Place
  <2> HIDE DEF w
  <2> QED BY <1>2, <1>3, <1>4, <1>6, <2>1, CoolLanded
<1>7. CASE UNCHANGED <<database, late>> /\ hand'.at # "own"
  BY <1>4, <1>7, CoolQuiet DEF database
<1>8. Fail \/ hand' = [hand EXCEPT !.at = "decision", !.tries = @ + 1]
        => hand'.at # "own"
  BY IdleOK, InHand DEF Fail, Hand
<1> QED BY <1>5, <1>6, <1>7, <1>8 DEF Own

(* The writes of the record and of the notice. *)
LEMMA CoolWrites ==
  ASSUME IInv, CInv, Promote \/ Keep \/ Refuse
  PROVE  CInv'
<1>1. ASSUME NEW op \in {"promote", "notice"}, NEW x \in Given,
             op = "promote" => Kept(x),
             op = "notice" => x.reason \in Refusals \intersect judged[x.sub],
             UNCHANGED stored,
             \/ Land(Write(op, x, 0, NoRow)) /\ UNCHANGED late /\ hand'.at # "own"
             \/ Unanswered(Write(op, x, 0, NoRow))
      PROVE  CInv'
  <2> DEFINE w == Write(op, x, 0, NoRow)
  <2>1. w \in Pending /\ WriteOK(w) /\ w.op # "own"
    BY <1>1 DEF Write, Pending, NoRow, Row, Witness, WriteOK
  <2>2. (Land(w) /\ UNCHANGED late /\ hand'.at # "own") \/ Unanswered(w)
    BY <1>1
  <2> HIDE DEF w
  <2> QED BY <1>1, <2>1, <2>2, CoolLanded, CoolUnanswered
<1>2. UNCHANGED stored
  BY DEF Promote, Keep, Refuse, board
<1>3. \A place \in Place \ {"own"} : Goto(place) => hand'.at # "own"
  BY GotoOK
<1>4. CASE Promote
  <2> DEFINE x == hand.row.decision
  <2>1. s0 \in Submission /\ x \in Given /\ Kept(x)
    BY <1>4, InHand DEF Promote, At, HandOK, Row, Witness
  <2>2. With(x, "verdict") => hand'.at # "own"
    BY <2>1, WithOK DEF Place, Witness
  <2>3. Goto("assess") => hand'.at # "own"
    BY <1>3 DEF Place
  <2> HIDE DEF x
  <2>4. \/ Land(Write("promote", x, 0, NoRow)) /\ UNCHANGED late /\ hand'.at # "own"
        \/ Unanswered(Write("promote", x, 0, NoRow))
    BY <1>4, <2>2, <2>3 DEF Promote, x
  <2> QED BY <1>1, <1>2, <2>1, <2>4
<1>5. CASE Keep
  <2>1. hand.witness \in Given /\ Kept(hand.witness)
    BY <1>5, InHand DEF Keep, At, HandOK
  <2>2. Goto("verdict") => hand'.at # "own"
    BY <1>3 DEF Place
  <2> QED BY <1>1, <1>2, <1>5, <2>1, <2>2 DEF Keep
<1>6. CASE Refuse
  <2>1. /\ hand.witness \in Given
        /\ hand.witness.reason \in Refusals \intersect judged[hand.witness.sub]
    BY <1>6, InHand DEF Refuse, At, HandOK
  <2>2. Goto("alert") \/ Done => hand'.at # "own"
    BY <1>3, IdleOK DEF Place, Done
  <2> QED BY <1>1, <1>2, <1>6, <2>1, <2>2 DEF Refuse
<1> QED BY <1>4, <1>5, <1>6

(* Every step preserves what is said of the cooldown. *)
LEMMA StepCInv == IInv /\ IInv' /\ CInv /\ [Next]_vars => CInv'
<1> SUFFICES ASSUME IInv, IInv', CInv, [Next]_vars
             PROVE  CInv'
  OBVIOUS
<1>1. ASSUME UNCHANGED <<rows, decided, late, stored>>,
             hand'.at # "own" \/ UNCHANGED hand
      PROVE  CInv'
  BY <1>1, CoolQuiet
<1>2. Done \/ Fail \/ hand' = Idle => hand'.at # "own"
  BY IdleOK DEF Done, Fail
<1>3. \A place \in Place \ {"own"} : Goto(place) => hand'.at # "own"
  BY GotoOK
<1>4. CASE Submitted
  <2>1. hand' = [hand EXCEPT !.at = "decision", !.merging = About[s0] \in active]
          => hand'.at # "own"
    BY InHand DEF Hand
  <2> QED BY <1>1, <1>2, <1>4, <2>1 DEF Submitted, database, board
<1>5. CASE ReadDecision
  <2>1. s0 \in Submission /\ decided[s0] \in Witness
    BY <1>5, InHand DEF ReadDecision, At
  <2>2. With(decided[s0], "verdict") => hand'.at # "own"
    BY <2>1, WithOK DEF Place
  <2>3. Goto("row") => hand'.at # "own"
    BY <1>3 DEF Place
  <2> QED BY <1>1, <1>5, <2>2, <2>3 DEF ReadDecision, database, board
<1>6. CASE ReadRow
  <2>1. hand'.at # "own"
    BY <1>6, InHand DEF ReadRow, Hand
  <2> QED BY <1>1, <1>6, <2>1 DEF ReadRow, database, board
<1>7. CASE Judge
  <2>1. Goto("open") \/ Goto("refuse") => hand'.at # "own"
    BY <1>3 DEF Place
  <2> QED BY <1>1, <1>7, <2>1 DEF Judge, board
<1>8. CASE Open
  <2>1. s0 \in Submission /\ decided[s0] # NoWitness
    BY <1>8, InHand, NoneOK DEF Open, At, HandOK
  <2> QED BY <1>2, <1>8, <2>1, CoolQuiet DEF Open, database, board
<1>9. CASE BurstAlert
  BY <1>1, <1>2, <1>9 DEF BurstAlert, database, board
<1>10. CASE Crash
  BY <1>1, <1>2, <1>10 DEF Crash, database, board
<1>11. ASSUME NEW s \in Submission, Deliver(s)
       PROVE  CInv'
  <2>1. hand'.at # "own"
    BY <1>11, IdleOK DEF Deliver, Hand
  <2> QED BY <1>1, <1>11, <2>1 DEF Deliver, database, board
<1>12. ASSUME NEW w \in late, Lands(w)
       PROVE  CInv'
  <2>1. /\ w \in Pending /\ WriteOK(w)
        /\ w.op = "own" => TakesOK(w.witness, w.revision, w.row)
    BY DEF IInv, TypeInv, LateOK, CInv, LateTakes
  <2> QED BY <1>12, <2>1, CoolLanded DEF Lands, board
<1>13. CASE Tick \/ Staff \/ UNCHANGED vars
  BY <1>1, <1>13 DEF Tick, Staff, vars, database, board
<1> QED BY <1>4, <1>5, <1>6, <1>7, <1>8, <1>9, <1>10, <1>11, <1>12, <1>13,
           CoolAssess, CoolOwnStep, CoolWrites DEF Next, Handle

(* CooldownHeld: two registered reports of one person are a cooldown apart,
   although the cooldown is read long before it is taken and writes land late
   (the revision guard of _admission_decision). *)
THEOREM CooldownHeldSafe == Spec => []CooldownHeld
<1>1. Init => CInv
  BY DEF Init, CInv, Cooldowns, TakenOK, HolderOK, Apart, InSight, NoRow, NoWitness,
         LateTakes, HandTakes, StoredDecided, Idle
<1>2. IInv /\ CInv => CooldownHeld
  <2> SUFFICES ASSUME IInv, CInv, NEW v \in Admissions, NEW w \in Admissions,
                      v.sub # w.sub, By[v.sub] = By[w.sub]
               PROVE  v.at + Cooldown <= w.at \/ w.at + Cooldown <= v.at
    BY DEF CooldownHeld
  <2>1. ASSUME NEW s \in stored
        PROVE  decided[s] \in InSight /\ Admitted(decided[s])
    <3>1. s \in Submission /\ decided[s] # NoWitness /\ "admitted" \in judged[s]
      BY DEF IInv, TypeInv, Verdicts, StoredOK, CInv, StoredDecided
    <3>2. Admitted(decided[s])
      BY <3>1, NoneOK DEF IInv, Verdicts, JudgedOK, Agree, Admitted
    <3> QED BY <3>1, <3>2 DEF InSight
  <2> QED BY <2>1 DEF Admissions, CInv, Cooldowns, Apart
<1> QED BY <1>1, <1>2, InitIInv, StepIInv, StepCInv, PTL DEF Spec
=============================================================================
