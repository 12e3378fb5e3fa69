--------------------------- MODULE ReportsProofs ----------------------------
(***************************************************************************)
(* What comes to the cases: submissions, and the sanctions an appeal is    *)
(* about or a report is answered by, each with the inductive invariant its *)
(* properties rest on.                                                     *)
(*                                                                         *)
(* A submission is stored once, for any number of submissions, deliveries, *)
(* staff decisions and deaths.  Only the handler of a submission stores    *)
(* it, and between its lookup and its write the submission is in no case   *)
(* (NotFiledYet); a handler that dies or fails starts with the lookup.     *)
(* No reporter has more open cases than the cap: whoever is about to open  *)
(* one holds the lock of its reporter (OneHolder) and has counted at most  *)
(* what is there, below the cap (BelowCap).                                *)
(*                                                                         *)
(* An appeal keeps to its sanction, for any players, clock and sanctions.  *)
(* A number is given to the bans of one player and never again (RowsOK),   *)
(* so what is appealed by its number is a ban of the player it was chosen  *)
(* for, through the submission, the case and the action (AppealOK).        *)
(*                                                                         *)
(* A report closed by an observed sanction is answered by one: an event    *)
(* with a time has its record (StreamOK), and what a handler has read of   *)
(* the case and of the trail holds while the revision does (HookOK).       *)
(***************************************************************************)
EXTENDS CaseIntake, Sanctions, FiniteSetTheorems, SequenceTheorems, TLAPS

-----------------------------------------------------------------------------
(* Submissions *)

Handling == [at : Locked \union {"sent", "filed", "done", "refused", "dead"},
             number : Nat, read : Case, tries : Nat]

TypeInv == cases \in Seq(Case) /\ req \in [Submission -> Handling]

(* The case to merge into has been read from the collection. *)
NumberOK ==
  \A s \in Submission : req[s].at \in {"merge", "join"} => req[s].number \in Number

NotFiledYet ==
  \A s \in Submission :
    req[s].at \in {"limits", "insert", "clash", "key", "merge", "join"} => ~Filed(s)

InOne ==
  \A s \in Submission, m, n \in Number :
    In(s, cases[m]) /\ In(s, cases[n]) => m = n

JoinedOrOrigin == \A n \in Number : cases[n].origin \notin cases[n].joined

IInv == TypeInv /\ NumberOK /\ NotFiledYet /\ InOne /\ JoinedOrOrigin

(* No case and no handler at the start. *)
LEMMA InitIInv == Init => IInv
<1> SUFFICES ASSUME Init
             PROVE  IInv
  OBVIOUS
<1>1. Unread \in Case /\ New \in Handling
  BY DEF Unread, New, Case, Handling
<1>2. cases = <<>> /\ Number = {} /\ \A s \in Submission : req[s] = New
  BY DEF Init, Number
<1> QED BY <1>1, <1>2 DEF Init, IInv, TypeInv, NumberOK, NotFiledYet, InOne,
                          JoinedOrOrigin, New, Filed

(* A step of the handler of one submission that stores nothing. *)
LEMMA HandlerStep ==
  ASSUME IInv, NEW s \in Submission, cases' = cases,
         NEW r \in Handling, req' = [req EXCEPT ![s] = r],
         r.at \in {"merge", "join"} => r.number \in Number,
         r.at \in {"limits", "insert", "clash", "key", "merge", "join"} => ~Filed(s)
  PROVE  IInv'
<1>1. \A t \in Submission : req'[t] = IF t = s THEN r ELSE req[t]
  BY DEF IInv, TypeInv
<1>2. TypeInv'
  BY DEF IInv, TypeInv
<1>3. NumberOK' /\ NotFiledYet'
  BY <1>1 DEF IInv, NumberOK, NotFiledYet, Number, Filed
<1>4. InOne' /\ JoinedOrOrigin'
  BY DEF IInv, InOne, JoinedOrOrigin, Number
<1> QED BY <1>2, <1>3, <1>4 DEF IInv

(* What a write of one case changes. *)
LEMMA WriteOK ==
  ASSUME IInv, NEW n \in Number, NEW c \in Case, cases' = [cases EXCEPT ![n] = c]
  PROVE  /\ cases' \in Seq(Case) /\ Number' = Number
         /\ \A m \in Number : cases'[m] = IF m = n THEN c ELSE cases[m]
<1>1. cases \in Seq(Case) /\ Number = 1..Len(cases)
  BY DEF IInv, TypeInv, Number
<1> QED BY <1>1, ExceptSeq DEF Number

(* A write of a case by staff or the repair pass keeps its reporters. *)
LEMMA OutsideStep ==
  ASSUME IInv, NEW n \in Number, NEW c \in Case,
         c.origin = cases[n].origin, c.joined = cases[n].joined,
         Write(n, c), req' = req
  PROVE  IInv'
<1> DEFINE w == [c EXCEPT !.revision = @ + 1]
<1>1. /\ w \in Case /\ w.origin = cases[n].origin /\ w.joined = cases[n].joined
      /\ cases' = [cases EXCEPT ![n] = w]
  BY DEF Case, Write
<1> HIDE DEF w
<1>2. /\ cases' \in Seq(Case) /\ Number' = Number
      /\ \A m \in Number : /\ cases'[m].origin = cases[m].origin
                           /\ cases'[m].joined = cases[m].joined
  <2>1. /\ cases' \in Seq(Case) /\ Number' = Number
        /\ \A m \in Number : cases'[m] = IF m = n THEN w ELSE cases[m]
    BY <1>1, WriteOK
  <2> QED BY <1>1, <2>1
<1>3. \A s : Filed(s)' = Filed(s)
  BY <1>2 DEF Filed, In
<1> QED BY <1>2, <1>3 DEF IInv, TypeInv, NumberOK, NotFiledYet, InOne, In,
                          JoinedOrOrigin

(* The handler stores its submission, which was in no case, in one. *)
LEMMA StoreStep ==
  ASSUME IInv, NEW s \in Submission, ~Filed(s), Goto(s, "filed"),
         NEW n, cases' \in Seq(Case), Number' = Number \union {n},
         In(s, cases'[n]), cases'[n].origin \notin cases'[n].joined,
         \A t \in Submission \ {s} :
           In(t, cases'[n]) => n \in Number /\ In(t, cases[n]),
         \A m \in Number \ {n} : cases'[m] = cases[m]
  PROVE  IInv'
<1>1. /\ req' \in [Submission -> Handling]
      /\ \A t \in Submission \ {s} : req'[t] = req[t]
      /\ req'[s].at = "filed"
  BY DEF IInv, TypeInv, Goto, Handling
<1>2. \A t \in Submission \ {s} : Filed(t)' => Filed(t)
  BY DEF Filed
<1>3. NumberOK' /\ NotFiledYet'
  BY <1>1, <1>2 DEF IInv, NumberOK, NotFiledYet
<1>4. InOne'
  BY DEF IInv, InOne, Filed
<1>5. JoinedOrOrigin'
  BY DEF IInv, JoinedOrOrigin
<1> QED BY <1>1, <1>3, <1>4, <1>5 DEF IInv, TypeInv

(* The places before the write, and what a handler does between two of them. *)
LEMMA GotoOK ==
  ASSUME IInv, NEW s \in Submission, NEW place, Goto(s, place),
         place \in Locked \union {"sent", "filed", "done", "refused", "dead"}
  PROVE  \E r \in Handling :
           /\ r.at = place /\ r.number = req[s].number
           /\ req' = [req EXCEPT ![s] = r]
<1> DEFINE r == [req[s] EXCEPT !.at = place]
<1>1. r \in Handling /\ r.at = place /\ r.number = req[s].number
  BY DEF IInv, TypeInv, Handling
<1>2. req' = [req EXCEPT ![s] = r]
  BY DEF Goto
<1> QED BY <1>1, <1>2

(* The handler moves on without having found or read a case. *)
LEMMA PlaceStep ==
  ASSUME IInv, NEW s \in Submission, cases' = cases,
         NEW place \in Locked \union {"sent", "filed", "done", "refused", "dead"},
         Goto(s, place),
         place \notin {"merge", "join"},
         place \in {"limits", "insert", "clash", "key"} => ~Filed(s)
  PROVE  IInv'
BY GotoOK, HandlerStep

(* A failed delivery starts again with the lookup. *)
LEMMA FailedStep ==
  ASSUME IInv, NEW s \in Submission, cases' = cases, Failed(s)
  PROVE  IInv'
<1>1. CASE Goto(s, "refused")
  BY <1>1, PlaceStep
<1>2. ASSUME NEW r \in {New, [New EXCEPT !.at = "dead"]},
             req' = [req EXCEPT ![s] = r]
      PROVE  IInv'
  <2>1. New \in Handling /\ [New EXCEPT !.at = "dead"] \in Handling
    BY DEF New, Unread, Case, Handling
  <2>2. r \in Handling /\ r.at \in {"sent", "dead"}
    BY <2>1 DEF New
  <2> QED BY <1>2, <2>2, HandlerStep
<1> QED BY <1>1, <1>2 DEF Failed

(* A submission that no lookup finds is in no case. *)
LEMMA LookupOK ==
  ASSUME NEW s
  PROVE  BySubmission(s) = {} <=> ~Filed(s)
BY DEF BySubmission, Filed

(* The places of the handler before its write, and the end. *)
LEMMA LookupStep ==
  ASSUME IInv, NEW s \in Submission,
         \/ Acquire(s) \/ Known(s) \/ Limits(s) \/ Clash(s) \/ Acknowledge(s)
  PROVE  IInv'
<1> USE DEF At, Locked
<1>1. CASE Acquire(s)
  BY <1>1, PlaceStep DEF Acquire
<1>2. CASE Known(s)
  BY <1>2, PlaceStep, LookupOK DEF Known
<1>3. CASE Limits(s)
  BY <1>3, PlaceStep DEF Limits, IInv, NotFiledYet
<1>4. CASE Clash(s)
  BY <1>4, PlaceStep, LookupOK DEF Clash
<1>5. CASE Acknowledge(s)
  BY <1>5, PlaceStep DEF Acknowledge
<1> QED BY <1>1, <1>2, <1>3, <1>4, <1>5

(* A new case holds the one submission. *)
LEMMA InsertStep ==
  ASSUME IInv, NEW s \in Submission, Insert(s)
  PROVE  IInv'
<1>1. ~Filed(s)
  BY DEF Insert, At, IInv, NotFiledYet
<1>2. CASE Goto(s, "clash") /\ UNCHANGED cases
  BY <1>1, <1>2, PlaceStep DEF Locked
<1> DEFINE c == [Unread EXCEPT !.status = "creating", !.key = About[s],
                               !.origin = s, !.revision = 1]
<1>3. CASE Goto(s, "filed") /\ cases' = Append(cases, c)
  <2> DEFINE n == Len(cases) + 1
  <2>1. c \in Case /\ c.origin = s /\ c.joined = {}
    BY IntakeAssumption DEF Unread, Case, Active
  <2> HIDE DEF c
  <2>2. cases \in Seq(Case) /\ Number = 1..Len(cases) /\ Len(cases) \in Nat
    BY DEF IInv, TypeInv, Number
  <2>3. /\ cases' \in Seq(Case) /\ Number' = 1..n /\ cases'[n] = c
        /\ \A m \in Number : cases'[m] = cases[m]
    BY <1>3, <2>1, <2>2, AppendProperties DEF Number
  <2>4. Number' = Number \union {n} /\ n \notin Number
    BY <2>2, <2>3
  <2> HIDE DEF n
  <2>5. /\ In(s, cases'[n]) /\ cases'[n].origin \notin cases'[n].joined
        /\ \A t \in Submission \ {s} : ~In(t, cases'[n])
    BY <2>1, <2>3 DEF In
  <2> QED BY <1>1, <1>3, <2>3, <2>4, <2>5, StoreStep
<1> QED BY <1>2, <1>3 DEF Insert

(* An open case with the same key is found to merge into. *)
LEMMA KeyStep ==
  ASSUME IInv, NEW s \in Submission, Key(s)
  PROVE  IInv'
<1>1. cases' = cases /\ ~Filed(s)
  BY DEF Key, At, IInv, NotFiledYet
<1>2. ASSUME NEW n \in ByKey(About[s]),
             req' = [req EXCEPT ![s].at = "merge", ![s].number = n]
      PROVE  IInv'
  <2> DEFINE r == [req[s] EXCEPT !.at = "merge", !.number = n]
  <2>1. n \in Number /\ n \in Nat
    BY DEF ByKey, IInv, TypeInv, Number
  <2>2. /\ r \in Handling /\ r.at = "merge" /\ r.number = n
        /\ req' = [req EXCEPT ![s] = r]
    BY <1>2, <2>1 DEF IInv, TypeInv, Handling, Locked
  <2> HIDE DEF r
  <2> QED BY <1>1, <2>1, <2>2, HandlerStep
<1> QED BY <1>1, <1>2, FailedStep DEF Key

(* The case to merge into is read again, still with the handler alone. *)
LEMMA MergeStep ==
  ASSUME IInv, NEW s \in Submission, Merge(s)
  PROVE  IInv'
<1>1. cases' = cases /\ ~Filed(s) /\ req[s].number \in Number
  BY DEF Merge, At, IInv, NotFiledYet, NumberOK
<1>2. CASE Goto(s, "filed")
  BY <1>1, <1>2, PlaceStep
<1>3. CASE req' = [req EXCEPT ![s].at = "join", ![s].read = cases[req[s].number]]
  <2> DEFINE r == [req[s] EXCEPT !.at = "join", !.read = cases[req[s].number]]
  <2>1. cases[req[s].number] \in Case
    BY <1>1 DEF IInv, TypeInv, Number
  <2>2. /\ r \in Handling /\ r.at = "join" /\ r.number = req[s].number
        /\ req' = [req EXCEPT ![s] = r]
    BY <1>3, <2>1 DEF IInv, TypeInv, Handling, Locked
  <2> HIDE DEF r
  <2> QED BY <1>1, <2>2, HandlerStep
<1> QED BY <1>1, <1>2, <1>3, FailedStep DEF Merge

(* The push at the revision read, the attempt repeated, or the last one. *)
LEMMA JoinStep ==
  ASSUME IInv, NEW s \in Submission, Join(s)
  PROVE  IInv'
<1> DEFINE n == req[s].number
<1>1. ~Filed(s) /\ n \in Number
  BY DEF Join, At, IInv, NotFiledYet, NumberOK
<1>2. CASE /\ cases' = [cases EXCEPT ![n].joined = @ \union {s}, ![n].revision = @ + 1]
           /\ Goto(s, "filed")
  <2> DEFINE c == [cases[n] EXCEPT !.joined = @ \union {s}, !.revision = @ + 1]
  <2>1. cases[n] \in Case
    BY <1>1 DEF IInv, TypeInv, Number
  <2>2. /\ c \in Case /\ c.origin = cases[n].origin
        /\ c.joined = cases[n].joined \union {s}
    <3> DEFINE joined == cases[n].joined \union {s}
               revision == cases[n].revision + 1
    <3>1. joined \in SUBSET Submission /\ revision \in Nat
      BY <2>1 DEF Case
    <3>2. c = [cases[n] EXCEPT !.joined = joined, !.revision = revision]
      OBVIOUS
    <3> HIDE DEF joined, revision, c
    <3>3. c \in Case /\ c.origin = cases[n].origin /\ c.joined = joined
      BY <2>1, <3>1, <3>2 DEF Case
    <3> QED BY <3>3 DEF joined
  <2>3. cases' = [cases EXCEPT ![n] = c]
    BY <1>1, <1>2 DEF IInv, TypeInv, Number
  <2> HIDE DEF c
  <2>4. /\ cases' \in Seq(Case) /\ Number' = Number
        /\ \A m \in Number : cases'[m] = IF m = n THEN c ELSE cases[m]
    BY <1>1, <2>2, <2>3, WriteOK
  <2>5. s # cases[n].origin /\ cases[n].origin \notin cases[n].joined
    BY <1>1 DEF Filed, In, IInv, JoinedOrOrigin
  <2> HIDE DEF n
  <2>6. /\ In(s, cases'[n]) /\ cases'[n].origin \notin cases'[n].joined
        /\ \A t \in Submission \ {s} : In(t, cases'[n]) => In(t, cases[n])
    BY <1>1, <2>2, <2>4, <2>5 DEF In
  <2>7. Number' = Number \union {n} /\ \A m \in Number \ {n} : cases'[m] = cases[m]
    BY <1>1, <2>4
  <2> QED BY <1>1, <1>2, <2>4, <2>6, <2>7, StoreStep
<1>3. CASE cases' = cases /\ req' = [req EXCEPT ![s].at = "merge", ![s].tries = @ + 1]
  <2> DEFINE r == [req[s] EXCEPT !.at = "merge", !.tries = @ + 1]
  <2>1. /\ r \in Handling /\ r.at = "merge" /\ r.number = n
        /\ req' = [req EXCEPT ![s] = r]
    BY <1>3 DEF IInv, TypeInv, Handling, Locked
  <2> HIDE DEF r
  <2> QED BY <1>1, <1>3, <2>1, HandlerStep
<1> QED BY <1>2, <1>3, FailedStep DEF Join

(* Handlers that die come back at the lookup, or never. *)
LEMMA CrashStep == IInv /\ Crash => IInv'
<1> SUFFICES ASSUME IInv, Crash
             PROVE  IInv'
  OBVIOUS
<1>1. New \in Handling /\ [New EXCEPT !.at = "refused"] \in Handling
  BY DEF New, Unread, Case, Handling
<1>2. /\ cases' = cases
      /\ \A s \in Submission :
           /\ req'[s] \in Handling
           /\ req'[s].at \in {"done", "refused", "dead", "sent"}
      /\ req' \in [Submission -> Handling]
  BY <1>1 DEF Crash, IInv, TypeInv, New
<1> QED BY <1>2 DEF IInv, TypeInv, NumberOK, NotFiledYet, InOne, JoinedOrOrigin,
                    Number

(* Staff and the repair pass change no reporter. *)
LEMMA StaffStep ==
  ASSUME IInv, NEW n \in Number,
         Created(n) \/ Take(n) \/ Close(n) \/ Abandon(n) \/ Reopen(n)
  PROVE  IInv'
<1>1. cases[n] \in Case
  BY DEF IInv, TypeInv, Number
<1>2. PICK c \in {cases[n]} \union
                 {[cases[n] EXCEPT !.status = st] :
                    st \in {"open", "closed", "cancelled"}} \union
                 {[cases[n] EXCEPT !.status = "open", !.reopened = TRUE]} :
        Write(n, c) /\ req' = req
  BY DEF Created, Take, Close, Abandon, Reopen, Staff
<1>3. c \in Case /\ c.origin = cases[n].origin /\ c.joined = cases[n].joined
  BY <1>1 DEF Case, Active
<1> QED BY <1>2, <1>3, OutsideStep

(* Every step preserves the invariant. *)
LEMMA StepIInv == IInv /\ [Next]_vars => IInv'
<1> SUFFICES ASSUME IInv, [Next]_vars
             PROVE  IInv'
  OBVIOUS
<1>1. ASSUME NEW s \in Submission, Handle(s)
      PROVE  IInv'
  BY <1>1, LookupStep, InsertStep, KeyStep, MergeStep, JoinStep DEF Handle
<1>2. ASSUME UNCHANGED <<cases, req>>
      PROVE  IInv'
  BY <1>2 DEF IInv, TypeInv, NumberOK, NotFiledYet, Filed, InOne, JoinedOrOrigin,
              Number
<1> QED BY <1>1, <1>2, StaffStep, CrashStep DEF Next, Elapse, vars

(* FiledOnce: a submission is stored in one case and once there, however often
   its event is delivered (open and merge of CaseService). *)
THEOREM FiledOnceSafe == Spec => []FiledOnce
<1>1. IInv => FiledOnce
  <2> SUFFICES ASSUME IInv, NEW s \in Submission
               PROVE  /\ Cardinality({n \in Number : In(s, cases[n])}) <= 1
                      /\ \A n \in Number :
                           ~(s = cases[n].origin /\ s \in cases[n].joined)
    BY DEF FiledOnce
  <2> DEFINE holders == {n \in Number : In(s, cases[n])}
  <2>1. CASE holders = {}
    <3>1. Cardinality(holders) = 0
      BY <2>1, FS_EmptySet
    <3> QED BY <3>1 DEF IInv, JoinedOrOrigin
  <2>2. ASSUME NEW n \in holders
        PROVE  Cardinality(holders) <= 1
    <3>1. holders = {n}
      BY <2>2 DEF IInv, InOne
    <3> HIDE DEF holders
    <3>2. Cardinality(holders) = 1
      BY <3>1, FS_Singleton
    <3> QED BY <3>2
  <2> QED BY <2>1, <2>2 DEF IInv, JoinedOrOrigin
<1> QED BY <1>1, InitIInv, StepIInv, PTL DEF Spec
-----------------------------------------------------------------------------
(* The cap.  The count of _check_limits holds until the handler stores, for *)
(* it has the lock of its reporter: nobody else enters a case for the same  *)
(* person in between.                                                       *)

(* The active cases the sender of s entered from Discord. *)
Entered(s) ==
  {n \in Number :
     /\ cases[n].status \in Active /\ ~cases[n].reopened
     /\ \E d \in Discord : By[d] = By[s] /\ In(d, cases[n])}

Counted == {"insert", "clash", "key", "merge", "join"}

OneHolder ==
  \A s, t \in Submission :
    /\ By[s] = By[t]
    /\ req[s].at \in Locked /\ req[t].at \in Locked
    => s = t

BelowCap ==
  \A s \in Discord :
    /\ Cardinality(Entered(s)) <= MaxOpen
    /\ req[s].at \in Counted => Cardinality(Entered(s)) < MaxOpen

CapInv == OneHolder /\ BelowCap

(* Only finitely many cases exist. *)
LEMMA EnteredFinite ==
  ASSUME TypeInv, NEW S \in SUBSET Number
  PROVE  IsFiniteSet(S) /\ Cardinality(S) \in Nat
<1>1. IsFiniteSet(Number)
  BY FS_Interval DEF TypeInv, Number
<1> QED BY <1>1, FS_Subset, FS_CardinalityType

(* Nobody has entered a case at the start. *)
LEMMA InitCap == Init => CapInv
<1> SUFFICES ASSUME Init
             PROVE  CapInv
  OBVIOUS
<1>1. \A s \in Submission : req[s].at = "sent"
  BY DEF Init, New
<1>2. \A s : Entered(s) = {}
  BY DEF Init, Entered, Number
<1>3. \A s : Cardinality(Entered(s)) = 0
  BY <1>2, FS_EmptySet
<1> QED BY <1>1, <1>3, IntakeAssumption DEF CapInv, OneHolder, BelowCap, Locked,
                                            Counted

(* A step that enters no case for a Discord reporter, and in which no handler *)
(* takes a lock or passes the count.                                          *)
LEMMA QuietCap ==
  ASSUME IInv, CapInv,
         \A s \in Discord : Entered(s)' \subseteq Entered(s),
         \A s \in Submission : req'[s].at \in Locked => req[s].at \in Locked,
         \A s \in Discord : req'[s].at \in Counted => req[s].at \in Counted
  PROVE  CapInv'
<1>1. OneHolder'
  BY DEF CapInv, OneHolder
<1>2. ASSUME NEW s \in Discord
      PROVE  /\ Cardinality(Entered(s))' \in Nat
             /\ Cardinality(Entered(s)) \in Nat
             /\ Cardinality(Entered(s))' <= Cardinality(Entered(s))
  <2>1. Entered(s) \subseteq Number
    BY DEF Entered
  <2>2. IsFiniteSet(Entered(s)) /\ Cardinality(Entered(s)) \in Nat
    BY <2>1, EnteredFinite DEF IInv
  <2>3. Entered(s)' \subseteq Entered(s)
    BY <1>2
  <2> QED BY <2>2, <2>3, FS_Subset, FS_CardinalityType
<1>3. BelowCap'
  <2> SUFFICES ASSUME NEW s \in Discord
               PROVE  /\ Cardinality(Entered(s))' <= MaxOpen
                      /\ req'[s].at \in Counted => Cardinality(Entered(s))' < MaxOpen
    BY DEF BelowCap
  <2> QED BY <1>2, IntakeAssumption DEF CapInv, BelowCap
<1> QED BY <1>1, <1>3 DEF CapInv

(* The handler of s stores s in the case n and lets the lock go. *)
LEMMA StoreCap ==
  ASSUME IInv, CapInv, NEW s \in Submission, req[s].at \in Counted,
         Goto(s, "filed"), NEW n, cases' \in Seq(Case), Number' = Number \union {n},
         \A t \in Submission \ {s} :
           In(t, cases'[n]) => n \in Number /\ In(t, cases[n]),
         n \in Number => /\ cases'[n].status = cases[n].status
                         /\ cases'[n].reopened = cases[n].reopened,
         \A m \in Number \ {n} : cases'[m] = cases[m]
  PROVE  CapInv'
<1>1. /\ \A t \in Submission \ {s} : req'[t] = req[t]
      /\ req'[s].at = "filed"
  BY DEF IInv, TypeInv, Goto, Handling
<1>2. "filed" \notin Locked /\ Counted \subseteq Locked
  BY DEF Locked, Counted
<1>3. OneHolder'
  BY <1>1, <1>2 DEF CapInv, OneHolder
<1>4. ASSUME NEW t \in Discord, s \notin Discord \/ By[t] # By[s]
      PROVE  Entered(t)' \subseteq Entered(t)
  <2> SUFFICES ASSUME NEW m \in Entered(t)'
               PROVE  m \in Entered(t)
    OBVIOUS
  <2>1. /\ m \in Number'
        /\ cases'[m].status \in Active /\ ~cases'[m].reopened
    BY DEF Entered
  <2>2. PICK d \in Discord : By[d] = By[t] /\ In(d, cases'[m])
    BY DEF Entered
  <2>3. d \in Submission \ {s}
    BY <1>4, <2>2, IntakeAssumption
  <2>4. m \in Number /\ In(d, cases[m])
    BY <2>1, <2>2, <2>3
  <2>5. cases[m].status \in Active /\ ~cases[m].reopened
    BY <2>1, <2>4
  <2> QED BY <2>2, <2>4, <2>5 DEF Entered
<1>5. ASSUME NEW t \in Discord
      PROVE  Entered(t)' \subseteq Entered(t) \union {n}
  BY DEF Entered
<1>6. BelowCap'
  <2> SUFFICES ASSUME NEW t \in Discord
               PROVE  /\ Cardinality(Entered(t))' <= MaxOpen
                      /\ req'[t].at \in Counted => Cardinality(Entered(t))' < MaxOpen
    BY DEF BelowCap
  <2> DEFINE D == Entered(t)
  <2>1. /\ t \in Submission
        /\ Cardinality(D) <= MaxOpen
        /\ req[t].at \in Counted => Cardinality(D) < MaxOpen
    BY IntakeAssumption DEF CapInv, BelowCap
  <2>2. IsFiniteSet(D) /\ Cardinality(D) \in Nat /\ MaxOpen \in Nat
    BY EnteredFinite, IntakeAssumption DEF Entered, IInv
  <2>3. CASE s \in Discord /\ By[t] = By[s]
    <3>1. D = Entered(s) /\ Cardinality(D) < MaxOpen
      BY <2>3 DEF Entered, CapInv, BelowCap
    <3>2. req'[t].at \notin Counted
      BY <1>1, <1>2, <2>1, <2>3 DEF CapInv, OneHolder
    <3>3. D' \subseteq D \union {n}
      BY <1>5
    <3> HIDE DEF D
    <3>4. /\ IsFiniteSet(D \union {n})
          /\ Cardinality(D \union {n}) <= Cardinality(D) + 1
          /\ Cardinality(D \union {n}) \in Nat
      <4>1. /\ IsFiniteSet(D \union {n})
            /\ \/ Cardinality(D \union {n}) = Cardinality(D)
               \/ Cardinality(D \union {n}) = Cardinality(D) + 1
        BY <2>2, FS_AddElement
      <4> QED BY <2>2, <4>1
    <3>5. Cardinality(D') <= Cardinality(D) + 1 /\ Cardinality(D') \in Nat
      BY <2>2, <3>3, <3>4, FS_Subset, FS_CardinalityType
    <3> QED BY <2>2, <3>1, <3>2, <3>5 DEF D
  <2>4. CASE s \notin Discord \/ By[t] # By[s]
    <3>1. D' \subseteq D
      BY <1>4, <2>4
    <3>2. req'[t].at \in Counted => req[t].at \in Counted
      BY <1>1, <1>2, <2>1 DEF Counted
    <3> HIDE DEF D
    <3>3. Cardinality(D') <= Cardinality(D) /\ Cardinality(D') \in Nat
      BY <2>2, <3>1, FS_Subset, FS_CardinalityType
    <3> QED BY <2>1, <2>2, <3>2, <3>3 DEF D
  <2> QED BY <2>3, <2>4
<1> QED BY <1>3, <1>6 DEF CapInv

(* A handler that goes on without storing anything. *)
LEMMA IdleCap ==
  ASSUME IInv, CapInv, NEW s \in Submission, UNCHANGED cases,
         NEW r \in Handling, req' = [req EXCEPT ![s] = r],
         r.at \in Locked => req[s].at \in Locked,
         s \in Discord /\ r.at \in Counted => req[s].at \in Counted
  PROVE  CapInv'
<1>1. \A t \in Submission : req'[t] = IF t = s THEN r ELSE req[t]
  BY DEF IInv, TypeInv
<1>2. \A t : Entered(t)' = Entered(t)
  BY DEF Entered, Number
<1>3. Discord \subseteq Submission
  BY IntakeAssumption
<1> QED BY <1>1, <1>2, <1>3, QuietCap

(* A failed delivery lets the lock go. *)
LEMMA FailedCap ==
  ASSUME IInv, CapInv, NEW s \in Submission, UNCHANGED cases, Failed(s)
  PROVE  CapInv'
<1>1. CASE Goto(s, "refused")
  <2>1. PICK r \in Handling : r.at = "refused" /\ req' = [req EXCEPT ![s] = r]
    BY <1>1, GotoOK
  <2> QED BY <2>1, IdleCap DEF Locked, Counted
<1>2. ASSUME NEW r \in {New, [New EXCEPT !.at = "dead"]},
             req' = [req EXCEPT ![s] = r]
      PROVE  CapInv'
  <2>1. New \in Handling /\ [New EXCEPT !.at = "dead"] \in Handling
    BY DEF New, Unread, Case, Handling
  <2>2. r \in Handling /\ r.at \in {"sent", "dead"}
    BY <2>1 DEF New
  <2> QED BY <1>2, <2>2, IdleCap DEF Locked, Counted
<1> QED BY <1>1, <1>2 DEF Failed

(* The lock is taken when nobody has it, and the count is below the cap. *)
LEMMA AdmitCap ==
  ASSUME IInv, CapInv, NEW s \in Submission, Acquire(s) \/ Limits(s)
  PROVE  CapInv'
<1>1. \A t : Entered(t)' = Entered(t)
  BY DEF Acquire, Limits, Entered, Number
<1>2. Discord \subseteq Submission
  BY IntakeAssumption
<1>3. CASE Acquire(s)
  <2>1. \A t \in Submission : req'[t].at = IF t = s THEN "known" ELSE req[t].at
    BY <1>3 DEF Acquire, Goto, IInv, TypeInv, Handling
  <2>2. OneHolder'
    BY <1>3, <2>1 DEF Acquire, LockFree, CapInv, OneHolder
  <2>3. BelowCap'
    BY <1>1, <1>2, <2>1 DEF CapInv, BelowCap, Counted
  <2> QED BY <2>2, <2>3 DEF CapInv
<1>4. CASE Limits(s) /\ Goto(s, "refused")
  <2>1. PICK r \in Handling : r.at = "refused" /\ req' = [req EXCEPT ![s] = r]
    BY <1>4, GotoOK
  <2> QED BY <1>4, <2>1, IdleCap DEF Limits, Locked, Counted
<1>5. CASE Limits(s) /\ Goto(s, "insert") /\ CountOpen(By[s]) < MaxOpen
  <2>1. \A t \in Submission : req'[t].at = IF t = s THEN "insert" ELSE req[t].at
    BY <1>5 DEF Goto, IInv, TypeInv, Handling
  <2>2. OneHolder'
    BY <1>5, <2>1 DEF Limits, At, CapInv, OneHolder, Locked
  <2>3. Cardinality(Entered(s)) < MaxOpen
    <3> DEFINE all == {n \in Number : /\ cases[n].status \in Active
                                      /\ By[s] \in Reporters(cases[n])}
    <3>1. Entered(s) \subseteq all
      BY DEF Entered, Reporters, In
    <3>2. IsFiniteSet(all) /\ Cardinality(all) \in Nat
      BY EnteredFinite DEF IInv
    <3>3. Cardinality(all) < MaxOpen /\ MaxOpen \in Nat
      BY <1>5, IntakeAssumption DEF CountOpen
    <3> HIDE DEF all
    <3> QED BY <3>1, <3>2, <3>3, FS_Subset, FS_CardinalityType
  <2>4. BelowCap'
    <3> SUFFICES ASSUME NEW t \in Discord
                 PROVE  /\ Cardinality(Entered(t)') <= MaxOpen
                        /\ req'[t].at \in Counted => Cardinality(Entered(t)') < MaxOpen
      BY DEF BelowCap
    <3> QED BY <1>1, <1>2, <2>1, <2>3 DEF CapInv, BelowCap
  <2> QED BY <2>2, <2>4 DEF CapInv
<1>6. Limits(s) => \/ Goto(s, "refused")
                   \/ Goto(s, "insert") /\ CountOpen(By[s]) < MaxOpen
  <2>1. CountOpen(By[s]) \in Nat /\ MaxOpen \in Nat
    BY EnteredFinite, IntakeAssumption DEF CountOpen, IInv
  <2> QED BY <2>1 DEF Limits
<1> QED BY <1>3, <1>4, <1>5, <1>6

(* What the handler does after the count. *)
LEMMA HandleCap ==
  ASSUME IInv, CapInv, NEW s \in Submission, Handle(s)
  PROVE  CapInv'
<1> USE DEF At, Locked, Counted
<1>1. ASSUME NEW place \in Locked \union {"filed", "done"}, Goto(s, place),
             UNCHANGED cases, place \in Locked => req[s].at \in Locked,
             s \in Discord /\ place \in Counted => req[s].at \in Counted
      PROVE  CapInv'
  <2>1. PICK r \in Handling : r.at = place /\ req' = [req EXCEPT ![s] = r]
    BY <1>1, GotoOK
  <2> QED BY <1>1, <2>1, IdleCap
<1>2. CASE Known(s)
  BY <1>1, <1>2 DEF Known
<1>3. CASE Clash(s)
  BY <1>1, <1>3 DEF Clash
<1>4. CASE Acknowledge(s)
  BY <1>1, <1>4 DEF Acknowledge
<1>5. CASE Insert(s)
  <2>1. CASE Goto(s, "clash") /\ UNCHANGED cases
    BY <1>1, <1>5, <2>1 DEF Insert
  <2> DEFINE c == [Unread EXCEPT !.status = "creating", !.key = About[s],
                                 !.origin = s, !.revision = 1]
  <2>2. CASE Goto(s, "filed") /\ cases' = Append(cases, c)
    <3> DEFINE n == Len(cases) + 1
    <3>1. c \in Case /\ c.origin = s /\ c.joined = {}
      BY IntakeAssumption DEF Unread, Case, Active
    <3> HIDE DEF c
    <3>2. cases \in Seq(Case) /\ Number = 1..Len(cases) /\ Len(cases) \in Nat
      BY DEF IInv, TypeInv, Number
    <3>3. /\ cases' \in Seq(Case) /\ Number' = 1..n /\ cases'[n] = c
          /\ \A m \in Number : cases'[m] = cases[m]
      BY <2>2, <3>1, <3>2, AppendProperties DEF Number
    <3>4. Number' = Number \union {n} /\ n \notin Number
      BY <3>2, <3>3
    <3> HIDE DEF n
    <3>5. \A t \in Submission \ {s} : ~In(t, cases'[n])
      BY <3>1, <3>3 DEF In
    <3> QED BY <1>5, <2>2, <3>3, <3>4, <3>5, StoreCap DEF Insert
  <2> QED BY <1>5, <2>1, <2>2 DEF Insert
<1>6. CASE Key(s)
  <2>1. ASSUME NEW n \in ByKey(About[s]),
               req' = [req EXCEPT ![s].at = "merge", ![s].number = n]
        PROVE  CapInv'
    <3> DEFINE r == [req[s] EXCEPT !.at = "merge", !.number = n]
    <3>1. n \in Nat
      BY DEF ByKey, IInv, TypeInv, Number
    <3>2. /\ r \in Handling /\ r.at = "merge"
          /\ req' = [req EXCEPT ![s] = r]
      BY <2>1, <3>1 DEF IInv, TypeInv, Handling
    <3> HIDE DEF r
    <3> QED BY <1>6, <3>2, IdleCap DEF Key
  <2> QED BY <1>6, <2>1, FailedCap DEF Key
<1>7. CASE Merge(s)
  <2>1. CASE req' = [req EXCEPT ![s].at = "join", ![s].read = cases[req[s].number]]
    <3> DEFINE r == [req[s] EXCEPT !.at = "join", !.read = cases[req[s].number]]
    <3>1. cases[req[s].number] \in Case
      BY <1>7 DEF Merge, IInv, NumberOK, TypeInv, Number
    <3>2. /\ r \in Handling /\ r.at = "join"
          /\ req' = [req EXCEPT ![s] = r]
      BY <2>1, <3>1 DEF IInv, TypeInv, Handling
    <3> HIDE DEF r
    <3> QED BY <1>7, <3>2, IdleCap DEF Merge
  <2>2. CASE Goto(s, "filed")
    BY <1>1, <1>7, <2>2 DEF Merge
  <2> QED BY <1>7, <2>1, <2>2, FailedCap DEF Merge
<1>8. CASE Join(s)
  <2> DEFINE n == req[s].number
  <2>1. n \in Number
    BY <1>8 DEF Join, IInv, NumberOK
  <2>2. CASE /\ cases' = [cases EXCEPT ![n].joined = @ \union {s},
                                       ![n].revision = @ + 1]
             /\ Goto(s, "filed")
    <3> DEFINE c == [cases[n] EXCEPT !.joined = @ \union {s}, !.revision = @ + 1]
    <3>1. cases[n] \in Case
      BY <2>1 DEF IInv, TypeInv, Number
    <3>2. /\ c \in Case /\ c.origin = cases[n].origin
          /\ c.joined = cases[n].joined \union {s}
          /\ c.status = cases[n].status /\ c.reopened = cases[n].reopened
      <4> DEFINE joined == cases[n].joined \union {s}
                 revision == cases[n].revision + 1
      <4>1. joined \in SUBSET Submission /\ revision \in Nat
        BY <3>1 DEF Case
      <4>2. c = [cases[n] EXCEPT !.joined = joined, !.revision = revision]
        OBVIOUS
      <4> HIDE DEF joined, revision, c
      <4>3. /\ c \in Case /\ c.origin = cases[n].origin /\ c.joined = joined
            /\ c.status = cases[n].status /\ c.reopened = cases[n].reopened
        BY <3>1, <4>1, <4>2 DEF Case
      <4> QED BY <4>3 DEF joined
    <3>3. cases' = [cases EXCEPT ![n] = c]
      BY <2>1, <2>2 DEF IInv, TypeInv, Number
    <3> HIDE DEF c
    <3>4. /\ cases' \in Seq(Case) /\ Number' = Number
          /\ \A m \in Number : cases'[m] = IF m = n THEN c ELSE cases[m]
      BY <2>1, <3>2, <3>3, WriteOK
    <3> HIDE DEF n
    <3>5. Number' = Number \union {n}
      BY <2>1, <3>4
    <3>6. \A t \in Submission \ {s} : In(t, cases'[n]) => In(t, cases[n])
      BY <2>1, <3>2, <3>4 DEF In
    <3>7. /\ n \in Number => /\ cases'[n].status = cases[n].status
                            /\ cases'[n].reopened = cases[n].reopened
          /\ \A m \in Number \ {n} : cases'[m] = cases[m]
          /\ Goto(s, "filed") /\ req[s].at \in Counted
      BY <1>8, <2>1, <2>2, <3>2, <3>4 DEF Join
    <3> QED BY <2>1, <3>4, <3>5, <3>6, <3>7, StoreCap
  <2>3. CASE cases' = cases /\ req' = [req EXCEPT ![s].at = "merge", ![s].tries = @ + 1]
    <3> DEFINE r == [req[s] EXCEPT !.at = "merge", !.tries = @ + 1]
    <3>1. r \in Handling /\ r.at = "merge" /\ req' = [req EXCEPT ![s] = r]
      BY <2>3 DEF IInv, TypeInv, Handling
    <3> HIDE DEF r
    <3> QED BY <1>8, <2>3, <3>1, IdleCap DEF Join
  <2> QED BY <1>8, <2>2, <2>3, FailedCap DEF Join
<1> QED BY <1>2, <1>3, <1>4, <1>5, <1>6, <1>7, <1>8, AdmitCap DEF Handle

(* Staff and the repair pass enter no case, for a case they reopen is not *)
(* counted.                                                               *)
LEMMA StaffCap ==
  ASSUME IInv, CapInv, NEW n \in Number,
         Created(n) \/ Take(n) \/ Close(n) \/ Abandon(n) \/ Reopen(n)
  PROVE  CapInv'
<1>1. cases[n] \in Case
  BY DEF IInv, TypeInv, Number
<1>2. PICK c \in Case :
        /\ c.origin = cases[n].origin /\ c.joined = cases[n].joined
        /\ c.status \in Active /\ ~c.reopened
           => cases[n].status \in Active /\ ~cases[n].reopened
        /\ Write(n, c) /\ req' = req
  <2>1. CASE Created(n) \/ Take(n) \/ Close(n) \/ Abandon(n)
    <3>1. PICK c \in {cases[n]} \union
                     {[cases[n] EXCEPT !.status = st] :
                        st \in {"closed", "cancelled"}} \union
                     {d \in {[cases[n] EXCEPT !.status = "open"]} :
                        cases[n].status = "creating"} :
            Write(n, c) /\ req' = req
      BY <2>1 DEF Created, Take, Close, Abandon, Staff
    <3>2. /\ c \in Case
          /\ c.origin = cases[n].origin /\ c.joined = cases[n].joined
          /\ c.status \in Active /\ ~c.reopened
             => cases[n].status \in Active /\ ~cases[n].reopened
      BY <1>1 DEF Case, Active
    <3> QED BY <3>1, <3>2
  <2>2. CASE Reopen(n)
    <3> DEFINE c == [cases[n] EXCEPT !.status = "open", !.reopened = TRUE]
    <3>1. /\ c \in Case /\ c.reopened
          /\ c.origin = cases[n].origin /\ c.joined = cases[n].joined
      BY <1>1 DEF Case, Active
    <3>2. Write(n, c) /\ req' = req
      BY <2>2 DEF Reopen, Staff
    <3> HIDE DEF c
    <3> QED BY <3>1, <3>2
  <2> QED BY <2>1, <2>2
<1> DEFINE w == [c EXCEPT !.revision = @ + 1]
<1>3. /\ w \in Case /\ w.origin = c.origin /\ w.joined = c.joined
      /\ w.status = c.status /\ w.reopened = c.reopened
      /\ cases' = [cases EXCEPT ![n] = w]
  BY <1>2 DEF Case, Write
<1> HIDE DEF w
<1>4. /\ Number' = Number
      /\ \A m \in Number : cases'[m] = IF m = n THEN w ELSE cases[m]
  BY <1>3, WriteOK
<1>5. \A s \in Discord : Entered(s)' \subseteq Entered(s)
  BY <1>2, <1>3, <1>4 DEF Entered, In
<1> QED BY <1>2, <1>5, QuietCap

(* OpenCap: the cap of _check_limits is not passed by sending twice at once,
   for the count and the write are under one lock of the reporter. *)
THEOREM OpenCapSafe == Spec => []OpenCap
<1>1. ASSUME IInv, CapInv, [Next]_vars
      PROVE  CapInv'
  <2>1. ASSUME UNCHANGED <<cases, req>>
        PROVE  CapInv'
    BY <1>1, <2>1 DEF CapInv, OneHolder, BelowCap, Entered, Number
  <2>2. CASE Crash
    <3>1. /\ UNCHANGED cases
          /\ \A s \in Submission :
               req'[s].at \in {"done", "refused", "dead", "sent"}
      BY <2>2 DEF Crash, New
    <3>2. \A s : Entered(s)' = Entered(s)
      BY <3>1 DEF Entered, Number
    <3>3. Discord \subseteq Submission
      BY IntakeAssumption
    <3> QED BY <1>1, <3>1, <3>2, <3>3, QuietCap DEF Locked, Counted
  <2> QED BY <1>1, <2>1, <2>2, HandleCap, StaffCap DEF Next, Elapse, vars
<1>2. CapInv => OpenCap
  BY DEF CapInv, BelowCap, OpenCap, Entered
<1> QED BY <1>1, <1>2, InitIInv, InitCap, StepIInv, PTL DEF Spec

-----------------------------------------------------------------------------
(* The sanctions of a case *)

Somebody == Player \union {NoPlayer}
Verb == Trails \union {"none", "lift", "shorten"}
BanRecord == [id : Nat, of : Somebody, expiry : Nat]
AuditRecord == [action : Verb, of : Somebody, at : Nat, token : Nat, ban : Nat]
CaseRecord ==
  [status : {"absent", "open", "busy", "closed"}, subject : Somebody, ref : Nat,
   chosen : Somebody, revision : Nat, attempt : Nat, since : Nat,
   by : {"nobody", "action", "observed"},
   code : Verb \union {"recovered", "rejected"}, stamp : Nat]
FormRecord ==
  [at : {"none", "number", "check", "snapshot", "open", "mute"},
   row : BanRecord, chosen : Somebody]
ActRecord ==
  [at : {"none", "read", "check", "write", "audit", "close"}, verb : Verb,
   row : BanRecord, until : Nat]
ModRecord ==
  [at : Trails \union {"none", "undo", "number", "unban"}, of : Somebody,
   row : BanRecord]
EventRecord == [action : Trails, of : Player, dated : BOOLEAN, ban : Nat, at : Nat]
HookRecord ==
  [at : {"none", "trail", "close"}, of : Somebody, revision : Nat, since : Nat,
   action : Trails \union {"none"}, ban : Nat, stamp : Nat,
   event : SUBSET EventRecord]

SType ==
  /\ now \in Nat /\ kind \in {"report", "ban", "mute"} /\ counter \in Nat
  /\ bans \subseteq BanRecord /\ mutes \in [Player -> Nat]
  /\ audits \subseteq AuditRecord
  /\ case \in CaseRecord /\ form \in FormRecord /\ act \in ActRecord
  /\ mod \in ModRecord /\ hook \in HookRecord
  /\ stream \subseteq EventRecord

(* A submission and an action never meet; only an appeal has a submission. *)
FlowOK ==
  /\ form.at # "none" =>
       /\ kind # "report" /\ case.status = "absent"
       /\ form.row.of = form.chosen
       /\ form.at = "mute" => kind = "mute"
  /\ act.at # "none" => case.status = "busy"
  /\ case.status # "closed" => case.by # "observed"
  /\ kind = "report" => case.status # "absent" /\ case.chosen = NoPlayer

(* A number is given to the bans of one player. *)
RowsOK ==
  /\ \A r \in bans : r.id <= counter
  /\ \A r, q \in bans : r.id = q.id /\ r.id # Legacy => r.of = q.of

Owned(id, p) ==
  id \in 1..counter /\ \A r \in bans : r.id = id => r.of = p

(* What is appealed by its number is a ban of the player it was chosen for, for
   ever: numbers are not given again. *)
AppealOK ==
  kind = "ban" =>
    /\ form.at \in {"check", "snapshot", "open"} => Owned(form.row.id, form.row.of)
    /\ case.status # "absent" => Owned(case.ref, case.subject)
    /\ act.at \in {"check", "write"} => act.row.id = case.ref

Base == SType /\ FlowOK /\ RowsOK /\ AppealOK /\ ChosenSanction

Evidence(p, since, action, stamp) ==
  \E a \in Trail(p, since) : a.action = action /\ a.at = stamp

(* An event with a time has its record. *)
StreamOK ==
  \A e \in stream : e.dated => Evidence(e.of, e.at, e.action, e.at)

(* What a handler of an event or the repair pass has read of the case holds as
   long as the revision does. *)
HookOK ==
  hook.at # "none" =>
    /\ kind = "report"
    /\ hook.revision <= case.revision
    /\ hook.revision = case.revision =>
         hook.of = case.subject /\ hook.since = case.since
    /\ hook.at = "close" =>
         Evidence(hook.of, hook.since, hook.action, hook.stamp)

Seen == StreamOK /\ HookOK /\ ObservedAnswers
SanctionsIInv == Base /\ Seen

(* Beside it: the sanctions outside the case are counted, from which the bans of
   the game have their numbers. *)
NumbersOK == sanctions \in Nat

-----------------------------------------------------------------------------
(* Helpers *)

(* What nothing under way looks like is of its type. *)
LEMMA Nones ==
  /\ NoBan \in BanRecord /\ NoForm \in FormRecord /\ NoAct \in ActRecord
  /\ NoMod \in ModRecord /\ NoHook \in HookRecord
  /\ NoForm.at = "none" /\ NoAct.at = "none" /\ NoHook.at = "none"
  BY DEF NoBan, NoForm, NoAct, NoMod, NoHook, Ban, Legacy, Verb, Trails, Somebody,
         BanRecord, FormRecord, ActRecord, ModRecord, HookRecord

(* Expiries are clock readings. *)
LEMMA Times ==
  ASSUME now \in Nat
  PROVE  Expiries \subseteq Nat
  BY SanctionsAssumption DEF Expiries

(* A move keeps all but the status and the revision. *)
LEMMA Moves ==
  ASSUME case \in CaseRecord, NEW status \in {"open", "busy", "closed"}
  PROVE  LET m == Move(status) IN
         /\ m \in CaseRecord /\ m.status = status
         /\ m.revision = case.revision + 1
         /\ m.subject = case.subject /\ m.ref = case.ref /\ m.chosen = case.chosen
         /\ m.attempt = case.attempt /\ m.since = case.since /\ m.by = case.by
         /\ m.code = case.code /\ m.stamp = case.stamp
<1> DEFINE n == case.revision + 1
<1>1. n \in Nat
  BY DEF CaseRecord
<1>2. Move(status) = [case EXCEPT !.status = status, !.revision = n]
  BY DEF Move, CaseRecord
<1> HIDE DEF n
<1>3. LET m == Move(status) IN
         /\ m \in CaseRecord /\ m.status = status /\ m.revision = n
         /\ m.subject = case.subject /\ m.ref = case.ref /\ m.chosen = case.chosen
         /\ m.attempt = case.attempt /\ m.since = case.since /\ m.by = case.by
         /\ m.code = case.code /\ m.stamp = case.stamp
  BY <1>1, <1>2 DEF CaseRecord
<1> QED BY <1>3 DEF n

(* A case that is closed says by whom, why and when. *)
LEMMA Closes ==
  ASSUME case \in CaseRecord, NEW by \in {"action", "observed"},
         NEW code \in Verb \union {"recovered", "rejected"}, NEW stamp \in Nat
  PROVE  LET m == Closed(by, code, stamp) IN
         /\ m \in CaseRecord /\ m.status = "closed"
         /\ m.revision = case.revision + 1
         /\ m.subject = case.subject /\ m.ref = case.ref /\ m.chosen = case.chosen
         /\ m.since = case.since /\ m.by = by /\ m.code = code /\ m.stamp = stamp
<1> DEFINE m == Move("closed")
<1>1. /\ m \in CaseRecord /\ m.status = "closed"
      /\ m.revision = case.revision + 1
      /\ m.subject = case.subject /\ m.ref = case.ref /\ m.chosen = case.chosen
      /\ m.since = case.since
  BY Moves
<1>2. Closed(by, code, stamp) = [m EXCEPT !.by = by, !.code = code, !.stamp = stamp]
  BY DEF Closed
<1> HIDE DEF m
<1> QED BY <1>1, <1>2 DEF CaseRecord

(* What the store may do to the bans: a row keeps its number and player, or has
   a number never given before. *)
Kept ==
  /\ bans' \subseteq BanRecord /\ counter' \in Nat /\ counter <= counter'
  /\ \A r \in bans' : \/ \E q \in bans : q.id = r.id /\ q.of = r.of
                      \/ r.id = counter' /\ counter' = counter + 1
  /\ \A r, q \in bans' : r.id = q.id /\ r.id > counter => r.of = q.of

(* Then numbers stay with their players. *)
LEMMA KeptRows ==
  ASSUME SType, RowsOK, Kept
  PROVE  RowsOK' /\ \A id, p : Owned(id, p) => Owned(id, p)'
<1> USE DEF SType, Kept
<1>1. \A r \in bans : r.id \in Nat /\ r.id <= counter
  BY DEF RowsOK, BanRecord
<1>2. \A r \in bans' : r.id \in Nat /\ r.id <= counter'
  BY <1>1 DEF BanRecord
<1>3. ASSUME NEW r \in bans', NEW q \in bans', r.id = q.id, r.id # Legacy
      PROVE  r.of = q.of
  <2>1. CASE r.id > counter
    BY <1>3, <2>1
  <2>2. CASE r.id <= counter
    <3>1. PICK r0 \in bans : r0.id = r.id /\ r0.of = r.of
      BY <2>2
    <3>2. PICK q0 \in bans : q0.id = q.id /\ q0.of = q.of
      BY <1>3, <2>2
    <3> QED BY <1>3, <3>1, <3>2 DEF RowsOK
  <2> QED BY <1>2, <2>1, <2>2
<1>4. ASSUME NEW id, NEW p, Owned(id, p)
      PROVE  Owned(id, p)'
  <2>1. id \in 1..counter /\ id \in 1..counter'
    BY <1>4 DEF Owned
  <2>2. ASSUME NEW r \in bans', r.id = id PROVE r.of = p
    <3>1. PICK q \in bans : q.id = r.id /\ q.of = r.of
      BY <2>1, <2>2
    <3> QED BY <1>4, <2>2, <3>1 DEF Owned
  <2> QED BY <2>1, <2>2 DEF Owned
<1> QED BY <1>2, <1>3, <1>4 DEF RowsOK

(* Rows may go. *)
LEMMA KeptSame ==
  ASSUME SType, RowsOK, counter' = counter, bans' \subseteq bans
  PROVE  Kept
<1>1. \A r \in bans : r.id \in Nat /\ r.id <= counter
  BY DEF RowsOK, SType, BanRecord
<1>2. \A r, q \in bans' : ~(r.id > counter)
  BY <1>1 DEF SType
<1> QED BY <1>2 DEF Kept, SType

(* One row goes, another comes with a number that is its own or new. *)
LEMMA KeptReplace ==
  ASSUME SType, RowsOK, NEW new \in BanRecord,
         bans' \subseteq bans \union {new}, counter' \in {counter, counter + 1},
         \/ new.id = counter + 1 /\ counter' = counter + 1
         \/ \E q \in bans : q.id = new.id /\ q.of = new.of
  PROVE  Kept
<1>1. \A r \in bans : r.id \in Nat /\ r.id <= counter
  BY DEF RowsOK, SType, BanRecord
<1>2. \A r \in bans' : r \in bans \/ r = new
  OBVIOUS
<1>3. counter \in Nat /\ counter' \in Nat /\ counter <= counter'
  BY DEF SType
<1>4. \A r, q \in bans' : r.id = q.id /\ r.id > counter => r.of = q.of
  BY <1>1, <1>2, <1>3
<1> QED BY <1>2, <1>3, <1>4 DEF Kept, SType

(* A new ban gets a new number; a new mute leaves the bans alone. *)
LEMMA IssueKeeps ==
  ASSUME SType, RowsOK, NEW action, NEW p \in Somebody, Issue(action, p)
  PROVE  Kept /\ mutes' \in [Player -> Nat]
<1>1. CASE UNCHANGED store
  BY <1>1, KeptSame DEF store, SType
<1>2. CASE IssueBan(p) /\ ~UNCHANGED store
  <2>1. PICK expiry \in Expiries : UpsertBan(p, counter + 1, expiry)
    BY <1>2 DEF IssueBan, NoRows
  <2> DEFINE new == Ban(counter + 1, p, expiry)
  <2>2. expiry \in Nat /\ counter + 1 \in Nat
    BY Times DEF SType
  <2>3. new \in BanRecord /\ new.id = counter + 1
    BY <2>2 DEF Ban, BanRecord
  <2>4. bans' \subseteq bans \union {new} /\ counter' = counter + 1
    BY <1>2, <2>1 DEF UpsertBan, IssueBan, NoRows
  <2> HIDE DEF new
  <2>5. Kept
    BY <2>3, <2>4, KeptReplace
  <2>6. mutes' = mutes
    BY <1>2 DEF IssueBan, NoRows
  <2> QED BY <2>5, <2>6 DEF SType
<1>3. CASE IssueMute(p) /\ ~UNCHANGED store
  <2>1. PICK expiry \in Expiries : UpsertMute(p, expiry)
    BY <1>3 DEF IssueMute, NoRows
  <2>2. expiry \in Nat
    BY Times DEF SType
  <2>3. mutes' \in [Player -> Nat]
    BY <2>1, <2>2 DEF UpsertMute, SType
  <2>4. bans' = bans /\ counter' = counter
    BY <1>3 DEF IssueMute, NoRows
  <2> QED BY <2>3, <2>4, KeptSame
<1> QED BY <1>1, <1>2, <1>3 DEF Issue

(* A row that is numbered stays the row of its player. *)
LEMMA EnsureKeeps ==
  ASSUME SType, RowsOK, NEW r \in bans, EnsureId(r)
  PROVE  /\ Kept /\ mutes' = mutes
         /\ Numbered(r) \in BanRecord /\ Numbered(r) \in bans'
         /\ Numbered(r).of = r.of /\ Numbered(r).expiry = r.expiry
         /\ Numbered(r).id \in 1..counter'
<1> DEFINE new == Numbered(r)
<1>0. r \in BanRecord /\ counter \in Nat /\ counter + 1 \in Nat /\ r.id <= counter
  BY DEF SType, RowsOK
<1>1. /\ new \in BanRecord /\ new.of = r.of /\ new.expiry = r.expiry
      /\ new.id = IF r.id = Legacy THEN counter + 1 ELSE r.id
  BY <1>0 DEF Numbered, BanRecord
<1>2. /\ bans' = (bans \ {r}) \union {new} /\ mutes' = mutes
      /\ counter' = IF r.id = Legacy THEN counter + 1 ELSE counter
  BY DEF EnsureId
<1> HIDE DEF new
<1>3. \/ new.id = counter + 1 /\ counter' = counter + 1
      \/ \E q \in bans : q.id = new.id /\ q.of = new.of
  BY <1>1, <1>2
<1>4. Kept
  BY <1>1, <1>2, <1>3, KeptReplace
<1>5. new.id \in 1..counter'
  BY <1>0, <1>1, <1>2 DEF Legacy, BanRecord
<1> QED BY <1>1, <1>2, <1>4, <1>5 DEF new

-----------------------------------------------------------------------------
(* Submissions, actions and commands *)

(* Steps of a submission, which are all before the case is there. *)
LEMMA FormBase ==
  ASSUME Base, UNCHANGED <<now, kind, mutes, audits, case, act, mod, stream, hook>>,
         Kept, form' \in FormRecord,
         form'.at # "none" =>
           /\ kind # "report" /\ case.status = "absent"
           /\ form'.row.of = form'.chosen
           /\ form'.at = "mute" => kind = "mute"
           /\ form'.at \in {"check", "snapshot", "open"} /\ kind = "ban" =>
                Owned(form.row.id, form.row.of)'
  PROVE  Base'
<1>1. SType'
  BY DEF Base, SType, Kept
<1>2. FlowOK' /\ ChosenSanction'
  BY DEF Base, FlowOK, ChosenSanction
<1>3. RowsOK' /\ \A id, p : Owned(id, p) => Owned(id, p)'
  BY KeptRows DEF Base
<1>4. AppealOK'
  BY <1>3 DEF Base, AppealOK
<1> QED BY <1>1, <1>2, <1>3, <1>4 DEF Base

(* Steps of a case that is there: its submission is over. *)
LEMMA CaseBase ==
  ASSUME Base, UNCHANGED <<now, kind, form>>, Kept, mutes' \in [Player -> Nat],
         audits' \subseteq AuditRecord, stream' \subseteq EventRecord,
         mod' \in ModRecord, hook' \in HookRecord,
         case.status # "absent", act' \in ActRecord, case' \in CaseRecord,
         case'.status # "absent",
         act'.at # "none" => case'.status = "busy",
         case'.status # "closed" => case'.by # "observed",
         case'.ref = case.ref, case'.chosen = case.chosen,
         kind # "report" => case'.subject = case.subject,
         kind = "ban" /\ act'.at \in {"check", "write"} => act'.row.id = case.ref
  PROVE  Base'
<1>1. SType'
  BY DEF Base, SType, Kept
<1>2. FlowOK' /\ ChosenSanction'
  BY DEF Base, FlowOK, ChosenSanction
<1>3. RowsOK' /\ \A id, p : Owned(id, p) => Owned(id, p)'
  BY KeptRows DEF Base
<1>4. AppealOK'
  BY <1>3 DEF Base, AppealOK, FlowOK
<1> QED BY <1>1, <1>2, <1>3, <1>4 DEF Base

(* Steps outside the case, its submission and its action. *)
LEMMA OutsideBase ==
  ASSUME Base, UNCHANGED <<kind, case, form, act>>, Kept, now' \in Nat,
         mutes' \in [Player -> Nat], audits' \subseteq AuditRecord,
         stream' \subseteq EventRecord, mod' \in ModRecord, hook' \in HookRecord
  PROVE  Base'
<1>1. SType'
  BY DEF Base, SType, Kept
<1>2. FlowOK' /\ ChosenSanction'
  BY DEF Base, FlowOK, ChosenSanction
<1>3. RowsOK' /\ \A id, p : Owned(id, p) => Owned(id, p)'
  BY KeptRows DEF Base
<1>4. AppealOK'
  BY <1>3 DEF Base, AppealOK
<1> QED BY <1>1, <1>2, <1>3, <1>4 DEF Base

(* The submission keeps to the player it was chosen for. *)
LEMMA SubmissionBase ==
  ASSUME Base, AppealForm
  PROVE  Base'
<1> USE DEF Base
<1>1. CASE Choose
  <2>1. PICK r \in bans :
          form' = [at |-> IF r.id = Legacy THEN "number" ELSE "check",
                   row |-> r, chosen |-> r.of]
    BY <1>1 DEF Choose, Lookup
  <2>2. r \in BanRecord /\ r.of \in Somebody /\ r.id \in Nat /\ r.id <= counter
    BY DEF SType, BanRecord, RowsOK
  <2>3. /\ form' \in FormRecord /\ form'.row = r /\ form'.chosen = r.of
        /\ form'.at \in {"number", "check"}
        /\ form'.at = "check" => r.id # Legacy
    BY <2>1, <2>2 DEF FormRecord
  <2>4. r.id # Legacy => Owned(r.id, r.of)
    BY <2>2 DEF Owned, RowsOK, Legacy, SType
  <2>5. Kept /\ UNCHANGED <<bans, counter>>
    BY <1>1, KeptSame DEF Choose, store
  <2>6. form'.at = "check" => Owned(form.row.id, form.row.of)'
    BY <2>3, <2>4, <2>5 DEF Owned
  <2> QED BY <1>1, <2>3, <2>5, <2>6, FormBase DEF Choose, store, fixed
<1>2. CASE NumberForm
  <2>1. UNCHANGED <<now, kind, audits, case, act, mod, stream, hook>>
    BY <1>2 DEF NumberForm, fixed
  <2>2. kind # "report" /\ case.status = "absent" /\ form \in FormRecord
    BY <1>2 DEF NumberForm, FlowOK, SType
  <2>3. CASE form' = NoForm /\ UNCHANGED store
    BY <2>1, <2>3, Nones, KeptSame, FormBase DEF store
  <2>4. ASSUME NEW r \in bans, EnsureId(r),
               form' = IF Same(form.row, r) /\ r.expiry = form.row.expiry
                         THEN [form EXCEPT !.at = "check", !.row = Numbered(r)]
                         ELSE NoForm
        PROVE  Base'
    <3> DEFINE new == Numbered(r)
    <3>1. /\ Kept /\ mutes' = mutes /\ new \in BanRecord /\ new \in bans'
          /\ new.of = r.of /\ new.id \in 1..counter'
      BY <2>4, EnsureKeeps
    <3>2. RowsOK'
      BY <3>1, KeptRows
    <3> HIDE DEF new
    <3>3. CASE form' = NoForm
      BY <2>1, <3>1, <3>3, Nones, FormBase
    <3>4. CASE Same(form.row, r) /\ form' = [form EXCEPT !.at = "check", !.row = new]
      <4>1. /\ form' \in FormRecord /\ form'.at = "check" /\ form'.row = new
            /\ form'.chosen = form.chosen
        BY <2>2, <3>1, <3>4 DEF FormRecord
      <4>2. form'.row.of = form'.chosen
        BY <1>2, <3>1, <3>4, <4>1 DEF Same, FlowOK, NumberForm
      <4>3. Owned(form.row.id, form.row.of)'
        BY <3>1, <3>2, <4>1 DEF Owned, RowsOK, Legacy
      <4> QED BY <2>1, <2>2, <3>1, <4>1, <4>2, <4>3, FormBase
    <3> QED BY <2>4, <3>3, <3>4 DEF new
  <2> QED BY <1>2, <2>3, <2>4 DEF NumberForm, Lookup
<1>3. CASE CheckForm
  <2>1. /\ UNCHANGED <<now, kind, mutes, audits, case, act, mod, stream, hook>>
        /\ UNCHANGED <<bans, counter>> /\ Kept
    BY <1>3, KeptSame DEF CheckForm, fixed, store
  <2>2. kind # "report" /\ case.status = "absent" /\ form \in FormRecord
    BY <1>3 DEF CheckForm, FlowOK, SType
  <2>3. CASE form' = NoForm
    BY <2>1, <2>3, Nones, FormBase
  <2>4. ASSUME NEW r \in bans, r.id = form.row.id, Same(form.row, r),
               form' = [form EXCEPT !.row = r,
                          !.at = IF form.at = "check" THEN "snapshot" ELSE "open"]
        PROVE  Base'
    <3>1. /\ form' \in FormRecord /\ form'.at \in {"snapshot", "open"} /\ form'.row = r
          /\ form'.chosen = form.chosen
      BY <2>2, <2>4 DEF FormRecord, SType
    <3>2. form'.row.of = form'.chosen
      BY <1>3, <2>4, <3>1 DEF Same, FlowOK, CheckForm
    <3>3. kind = "ban" => Owned(form.row.id, form.row.of)'
      <4>1. kind = "ban" => Owned(form.row.id, form.row.of)
        BY <1>3 DEF AppealOK, CheckForm
      <4>2. r.of = form.row.of
        BY <2>4 DEF Same
      <4> QED BY <2>1, <2>4, <3>1, <4>1, <4>2 DEF Owned
    <3> QED BY <2>1, <2>2, <3>1, <3>2, <3>3, FormBase
  <2> QED BY <1>3, <2>3, <2>4 DEF CheckForm
<1>4. CASE ChooseMute \/ CheckMute
  <2>1. /\ UNCHANGED <<now, kind, mutes, audits, case, act, mod, stream, hook>>
        /\ UNCHANGED <<bans, counter>> /\ Kept
    BY <1>4, KeptSame DEF ChooseMute, CheckMute, fixed, store
  <2>2. CASE ChooseMute
    <3>1. mutes[Subject] \in Nat /\ Subject \in Player
      BY DEF SType, Player
    <3>2. /\ form' \in FormRecord /\ form'.at = "mute"
          /\ form'.row.of = Subject /\ form'.chosen = Subject
      BY <2>2, <3>1 DEF ChooseMute, Ban, Legacy, FormRecord, BanRecord, Somebody
    <3> QED BY <2>1, <2>2, <3>2, FormBase DEF ChooseMute
  <2>3. CASE CheckMute
    <3>1. form \in FormRecord /\ form.at = "mute" /\ kind = "mute"
      BY <2>3 DEF SType, CheckMute, FlowOK
    <3>2. CASE form' = NoForm
      BY <2>1, <3>2, Nones, FormBase
    <3>3. CASE form' = [form EXCEPT !.at = "open"]
      <4>1. /\ form' \in FormRecord /\ form'.at = "open" /\ form'.row = form.row
            /\ form'.chosen = form.chosen
        BY <3>1, <3>3 DEF FormRecord
      <4> QED BY <2>1, <3>1, <4>1, FormBase DEF FlowOK
    <3> QED BY <2>3, <3>2, <3>3 DEF CheckMute
  <2> QED BY <1>4, <2>2, <2>3
<1>5. CASE Open
  <2>1. /\ UNCHANGED <<now, kind, mutes, audits, act, mod, stream, hook, bans, counter>>
        /\ form' = NoForm
    BY <1>5 DEF Open, fixed, store
  <2>2. /\ form.at = "open" /\ kind # "report" /\ case.status = "absent"
        /\ form.row.of = form.chosen /\ form \in FormRecord /\ case \in CaseRecord
        /\ form.row \in BanRecord /\ now \in Nat /\ act.at = "none"
    BY <1>5 DEF Open, FlowOK, SType, FormRecord
  <2> DEFINE ref == IF kind = "ban" THEN form.row.id ELSE form.row.expiry
  <2>3. ref \in Nat /\ (kind = "ban" => ref = form.row.id)
    BY <2>2 DEF BanRecord
  <2>4. case' = [case EXCEPT !.status = "open", !.subject = form.row.of,
                  !.ref = ref, !.chosen = form.chosen, !.since = now]
    BY <1>5 DEF Open
  <2> HIDE DEF ref
  <2>5. /\ case' \in CaseRecord /\ case'.status = "open" /\ case'.subject = form.row.of
        /\ case'.ref = ref /\ case'.chosen = form.chosen /\ case'.by = case.by
    BY <2>2, <2>3, <2>4 DEF CaseRecord, FormRecord, BanRecord
  <2>6. SType'
    BY <2>1, <2>5, Nones DEF SType
  <2>7. FlowOK' /\ ChosenSanction'
    BY <2>1, <2>2, <2>5, Nones DEF FlowOK, ChosenSanction
  <2>8. RowsOK' /\ AppealOK'
    BY <2>1, <2>2, <2>3, <2>5, Nones DEF RowsOK, AppealOK, Owned
  <2> QED BY <2>6, <2>7, <2>8
<1> QED BY <1>1, <1>2, <1>3, <1>4, <1>5 DEF AppealForm

(* The action goes on. *)
LEMMA ActBase ==
  ASSUME Base, act.at # "none", UNCHANGED <<now, kind, form, case, mod, stream, hook>>,
         Kept, mutes' \in [Player -> Nat], audits' \subseteq AuditRecord,
         act' \in ActRecord,
         kind = "ban" /\ act'.at \in {"check", "write"} => act'.row.id = case.ref
  PROVE  Base'
  BY CaseBase DEF Base, SType, FlowOK

(* An action that is refused opens its case again. *)
LEMMA RefusedBase ==
  ASSUME Base, act.at # "none", Refused,
         UNCHANGED <<now, kind, form, mod, stream, hook, audits, mutes, bans, counter>>
  PROVE  Base'
<1> DEFINE m == Move("open")
<1>1. /\ m \in CaseRecord /\ m.status = "open" /\ m.subject = case.subject
      /\ m.ref = case.ref /\ m.chosen = case.chosen /\ m.by = case.by
  BY Moves DEF Base, SType
<1>2. case' = m /\ act' = NoAct /\ Kept
  BY KeptSame DEF Refused, Base
<1>3. case.status = "busy" /\ case.by # "observed"
  BY DEF Base, FlowOK
<1> HIDE DEF m
<1> QED BY <1>1, <1>2, <1>3, Nones, CaseBase DEF Base, SType

(* The action begins with the guard of the case. *)
LEMMA PressBase ==
  ASSUME Base, NEW verb \in Trails \union {"lift", "shorten"}, Press(verb)
  PROVE  Base'
<1> DEFINE m == Move("busy")
           n == case.revision + 1
<1>1. /\ m \in CaseRecord /\ m.status = "busy" /\ m.subject = case.subject
      /\ m.ref = case.ref /\ m.chosen = case.chosen /\ m.by = case.by
  BY Moves DEF Base, SType
<1>2. n \in Nat
  BY DEF Base, SType, CaseRecord
<1>3. /\ case' = [m EXCEPT !.attempt = n]
      /\ act' = [NoAct EXCEPT !.at = "read", !.verb = verb]
  BY DEF Press
<1> HIDE DEF m, n
<1>4. /\ case' \in CaseRecord /\ case'.status = "busy" /\ case'.subject = case.subject
      /\ case'.ref = case.ref /\ case'.chosen = case.chosen /\ case'.by = case.by
  BY <1>1, <1>2, <1>3 DEF CaseRecord
<1>5. act' \in ActRecord /\ act'.at = "read"
  BY <1>3, Nones DEF ActRecord, Verb
<1>6. /\ case.status = "open" /\ case.by # "observed" /\ Kept
      /\ UNCHANGED <<now, kind, mutes, audits, form, mod, stream, hook>>
  BY KeptSame DEF Press, Base, FlowOK, store, fixed
<1> QED BY <1>4, <1>5, <1>6, CaseBase DEF Base, SType

(* The rows shortened keep their numbers and players. *)
LEMMA ShortenKeeps ==
  ASSUME SType, RowsOK, NEW until \in Nat, NEW id,
         counter' = counter,
         bans' = (bans \ Later(id, until))
                   \union {[r EXCEPT !.expiry = until] : r \in Later(id, until)}
  PROVE  Kept
<1>1. ASSUME NEW r \in bans'
      PROVE  /\ r \in BanRecord
             /\ \E q \in bans : q.id = r.id /\ q.of = r.of
  <2>1. CASE r \in bans
    BY <2>1 DEF SType
  <2>2. ASSUME NEW q \in bans, r = [q EXCEPT !.expiry = until]
        PROVE  r \in BanRecord /\ q.id = r.id /\ q.of = r.of
    BY <2>2 DEF SType, BanRecord
  <2> QED BY <2>1, <2>2 DEF Later
<1>2. \A r \in bans : r.id \in Nat /\ r.id <= counter
  BY DEF RowsOK, SType, BanRecord
<1>3. \A r \in bans' : ~(r.id > counter)
  BY <1>1, <1>2 DEF SType
<1> QED BY <1>1, <1>3 DEF Kept, SType

(* The action on an appeal holds the row that is appealed. *)
LEMMA AppealActBase ==
  ASSUME Base,
         \/ ReadBan \/ StillCurrent \/ LiftBan \/ ShortenBan
         \/ ReadMute \/ LiftMute \/ ShortenMute
  PROVE  Base'
<1>1. /\ act.at # "none" /\ act \in ActRecord
      /\ UNCHANGED <<now, kind, form, mod, stream, hook, audits>>
  BY DEF ReadBan, StillCurrent, LiftBan, ShortenBan, WriteBan, ReadMute, LiftMute,
         ShortenMute, WriteMute, fixed, Base, SType
<1>2. CASE Refused /\ UNCHANGED <<mutes, bans, counter>>
  BY <1>1, <1>2, RefusedBase
<1>3. Untils \subseteq Nat
  BY Times DEF Untils, Base, SType
<1>4. CASE ReadBan /\ ~Refused
  <2>1. PICK r \in Current, until \in Untils :
          act' = [act EXCEPT !.at = "check", !.row = r, !.until = until]
    BY <1>4 DEF ReadBan
  <2>2. r \in BanRecord /\ r.id = case.ref /\ until \in Nat
    BY <1>3 DEF Current, Base, SType
  <2>3. act' \in ActRecord /\ act'.row = r
    BY <1>1, <2>1, <2>2 DEF ActRecord
  <2>4. UNCHANGED <<case, mutes, bans, counter>> /\ Kept
    BY <1>4, KeptSame DEF ReadBan, store, Base
  <2> QED BY <1>1, <2>2, <2>3, <2>4, ActBase DEF Base, SType
<1>5. CASE StillCurrent /\ ~Refused
  <2>1. act' = [act EXCEPT !.at = "write"] /\ act.at = "check" /\ kind = "ban"
    BY <1>5 DEF StillCurrent
  <2>2. act' \in ActRecord /\ act'.row = act.row
    BY <1>1, <2>1 DEF ActRecord
  <2>3. UNCHANGED <<case, mutes, bans, counter>> /\ Kept
    BY <1>5, KeptSame DEF StillCurrent, store, Base
  <2> QED BY <1>1, <2>1, <2>2, <2>3, ActBase DEF Base, SType, AppealOK
<1>6. CASE (LiftBan \/ ShortenBan) /\ ~(Refused /\ UNCHANGED bans)
  <2>1. act' = [act EXCEPT !.at = "audit"] /\ UNCHANGED <<case, mutes, counter>>
    BY <1>6 DEF LiftBan, ShortenBan, WriteBan
  <2>2. act' \in ActRecord /\ act'.at = "audit"
    BY <1>1, <2>1 DEF ActRecord
  <2>3. Kept
    <3>1. CASE LiftBan
      BY <1>6, <2>1, <3>1, KeptSame DEF LiftBan, WriteBan, Base
    <3>2. CASE ShortenBan
      <4>1. act.until \in Nat
        BY <1>1 DEF ActRecord
      <4>2. bans' = (bans \ Later(case.ref, act.until))
               \union {[r EXCEPT !.expiry = act.until] :
                          r \in Later(case.ref, act.until)}
        BY <1>6, <3>2 DEF ShortenBan, WriteBan
      <4> QED BY <2>1, <4>1, <4>2, ShortenKeeps DEF Base
    <3> QED BY <1>6, <3>1, <3>2
  <2> QED BY <1>1, <2>1, <2>2, <2>3, ActBase DEF Base, SType
<1>7. CASE ReadMute /\ ~Refused
  <2>1. PICK until \in Untils : act' = [act EXCEPT !.at = "write", !.until = until]
    BY <1>7 DEF ReadMute
  <2>2. act' \in ActRecord /\ kind = "mute" /\ until \in Nat
    BY <1>1, <1>3, <1>7, <2>1 DEF ActRecord, ReadMute
  <2>3. UNCHANGED <<case, mutes, bans, counter>> /\ Kept
    BY <1>7, KeptSame DEF ReadMute, store, Base
  <2> QED BY <1>1, <2>2, <2>3, ActBase DEF Base, SType
<1>8. CASE (LiftMute \/ ShortenMute) /\ ~(Refused /\ UNCHANGED mutes)
  <2>1. PICK expiry \in {0, act.until} :
          /\ mutes' = [mutes EXCEPT ![case.subject] = expiry]
          /\ act' = [act EXCEPT !.at = "audit"] /\ kind = "mute"
          /\ UNCHANGED <<case, bans, counter>>
    BY <1>8 DEF LiftMute, ShortenMute, WriteMute
  <2>2. act' \in ActRecord /\ expiry \in Nat
    BY <1>1, <2>1 DEF ActRecord
  <2>3. mutes' \in [Player -> Nat] /\ Kept
    BY <2>1, <2>2, KeptSame DEF Base, SType
  <2> QED BY <1>1, <2>1, <2>2, <2>3, ActBase DEF Base, SType
<1>9. /\ ReadBan \/ StillCurrent => UNCHANGED <<mutes, bans, counter>>
      /\ LiftBan \/ ShortenBan => UNCHANGED <<mutes, counter>>
      /\ LiftMute \/ ShortenMute => UNCHANGED <<bans, counter>>
      /\ ReadMute => UNCHANGED <<mutes, bans, counter>>
  BY DEF ReadBan, StillCurrent, LiftBan, ShortenBan, WriteBan, ReadMute, LiftMute,
         ShortenMute, WriteMute, store
<1> QED BY <1>2, <1>4, <1>5, <1>6, <1>7, <1>8, <1>9

(* The sanction of a report, the record of an action and its closing. *)
LEMMA ActionBase ==
  ASSUME Base, Action
  PROVE  Base'
<1>1. CASE ChooseTarget
  <2>1. PICK p \in Player :
          case' = IF case.subject = p THEN case
                  ELSE [Move("busy") EXCEPT !.subject = p]
    BY <1>1 DEF ChooseTarget
  <2>2. /\ kind = "report" /\ act.at = "read"
        /\ act \in ActRecord /\ case \in CaseRecord
        /\ act' = [act EXCEPT !.at = "write"] /\ p \in Somebody
        /\ case.status = "busy" /\ case.by # "observed"
        /\ UNCHANGED <<now, kind, mutes, audits, form, mod, stream, hook>> /\ Kept
    BY <1>1, KeptSame DEF ChooseTarget, Base, SType, FlowOK, store, fixed, Somebody
  <2>3. act' \in ActRecord /\ act'.at = "write"
    BY <2>2 DEF ActRecord
  <2> DEFINE m == Move("busy")
  <2>4. /\ m \in CaseRecord /\ m.status = "busy" /\ m.ref = case.ref
        /\ m.chosen = case.chosen /\ m.by = case.by
    BY <2>2, Moves
  <2>5. case' = case \/ case' = [m EXCEPT !.subject = p]
    BY <2>1
  <2> HIDE DEF m
  <2>6. /\ case' \in CaseRecord /\ case'.status = "busy" /\ case'.ref = case.ref
        /\ case'.chosen = case.chosen /\ case'.by = case.by
    BY <2>2, <2>4, <2>5 DEF CaseRecord
  <2> QED BY <2>2, <2>3, <2>6, CaseBase DEF Base, SType
<1>2. CASE Sanction
  <2>1. /\ act \in ActRecord /\ act' = [act EXCEPT !.at = "audit"]
        /\ act.at = "write" /\ case.subject \in Somebody
        /\ UNCHANGED <<now, kind, audits, case, form, mod, stream, hook>>
    BY <1>2 DEF Sanction, Base, SType, CaseRecord, fixed
  <2>2. act' \in ActRecord /\ act'.at = "audit"
    BY <2>1 DEF ActRecord
  <2>3. Kept /\ mutes' \in [Player -> Nat]
    BY <1>2, <2>1, IssueKeeps DEF Sanction, Base
  <2> QED BY <2>1, <2>2, <2>3, ActBase DEF Base, SType
<1>3. CASE AuditAct
  <2>1. /\ act \in ActRecord /\ act' = [act EXCEPT !.at = "close"] /\ act.at = "audit"
        /\ UNCHANGED <<now, kind, mutes, case, form, mod, stream, hook>> /\ Kept
    BY <1>3, KeptSame DEF AuditAct, Base, SType, fixed, store
  <2>2. act' \in ActRecord /\ act'.at = "close"
    BY <2>1 DEF ActRecord
  <2>3. audits' \subseteq AuditRecord
    <3>1. act.verb \in Verb /\ case.subject \in Somebody /\ case.attempt \in Nat
      BY <2>1 DEF ActRecord, Base, SType, CaseRecord
    <3> QED BY <1>3, <3>1 DEF AuditAct, Put, AuditRecord, Base, SType
  <2> QED BY <2>1, <2>2, <2>3, ActBase DEF Base, SType
<1>4. CASE CloseActed
  <2>1. /\ act \in ActRecord /\ case \in CaseRecord /\ act' = NoAct
        /\ case.status = "busy" /\ act.verb \in Verb
        /\ UNCHANGED <<now, kind, mutes, audits, form, mod, stream, hook>> /\ Kept
    BY <1>4, KeptSame DEF CloseActed, Base, SType, FlowOK, fixed, store, ActRecord
  <2> DEFINE m == Closed("action", act.verb, 0)
  <2>2. /\ m \in CaseRecord /\ m.status = "closed" /\ m.subject = case.subject
        /\ m.ref = case.ref /\ m.chosen = case.chosen
    BY <2>1, Closes
  <2>3. case' = m
    BY <1>4 DEF CloseActed
  <2> HIDE DEF m
  <2> QED BY <2>1, <2>2, <2>3, Nones, CaseBase DEF Base, SType
<1> QED BY <1>1, <1>2, <1>3, <1>4, AppealActBase DEF Action

(* A decision, or the guard of a dead action, moves the case only. *)
LEMMA DecideBase ==
  ASSUME Base, Recover \/ Decide
  PROVE  Base'
<1>1. /\ UNCHANGED <<now, kind, mutes, audits, form, act, mod, stream, hook>> /\ Kept
      /\ case \in CaseRecord /\ act \in ActRecord /\ act.at = "none"
      /\ case.status # "absent" /\ now \in Nat
  BY KeptSame DEF Recover, Decide, Base, SType, FlowOK, fixed, store
<1>2. PICK m \in CaseRecord :
        /\ case' = m /\ m.status \in {"open", "closed"}
        /\ m.status # "closed" => m.by # "observed"
        /\ m.ref = case.ref /\ m.chosen = case.chosen
        /\ m.subject = case.subject
  <2>1. CASE \E code \in {"recovered", "rejected"} : case' = Closed("action", code, 0)
    <3>1. PICK code \in {"recovered", "rejected"} : case' = Closed("action", code, 0)
      BY <2>1
    <3> DEFINE m == Closed("action", code, 0)
    <3>2. /\ m \in CaseRecord /\ m.status = "closed" /\ m.subject = case.subject
          /\ m.ref = case.ref /\ m.chosen = case.chosen
      BY <1>1, Closes
    <3> QED BY <3>1, <3>2
  <2> DEFINE m == Move("open")
  <2>2. /\ m \in CaseRecord /\ m.status = "open" /\ m.subject = case.subject
        /\ m.ref = case.ref /\ m.chosen = case.chosen /\ m.by = case.by
    BY <1>1, Moves
  <2>3. CASE case' = m /\ case.status = "busy"
    BY <2>2, <2>3 DEF Base, FlowOK
  <2>4. CASE case' = [m EXCEPT !.since = now, !.by = "nobody", !.code = "none",
                               !.stamp = 0]
    <3> HIDE DEF m
    <3>1. /\ case' \in CaseRecord /\ case'.status = "open" /\ case'.by = "nobody"
          /\ case'.subject = case.subject /\ case'.ref = case.ref
          /\ case'.chosen = case.chosen
      BY <1>1, <2>2, <2>4 DEF CaseRecord, Verb
    <3> QED BY <3>1
  <2> QED BY <2>1, <2>3, <2>4 DEF Recover, Decide
<1> QED BY <1>1, <1>2, CaseBase DEF Base, SType

(* Commands of moderators, the game and the clock. *)
LEMMA CommandBase ==
  ASSUME Base, NumbersOK,
         \/ Command \/ Tick
         \/ \E p \in Player : \/ FindBan(p) \/ Unmute(p) \/ ConfirmBan(p) \/ CmdMute(p)
                              \/ \E action \in Trails : GameSanction(p, action)
  PROVE  Base'
<1> USE DEF Base
<1>1. ASSUME NEW p \in Player, NEW action \in Trails, GameSanction(p, action)
      PROVE  Base'
  <2>1. UNCHANGED <<now, kind, case, form, act, mod, hook>> /\ p \in Somebody
    BY <1>1 DEF GameSanction, fixed, Somebody
  <2>2. Kept /\ mutes' \in [Player -> Nat]
    BY <1>1, <2>1, IssueKeeps DEF GameSanction
  <2>3. audits' \subseteq AuditRecord
    <3>1. PICK ban \in Nat :
            audits' = audits \union
              {[action |-> action, of |-> p, at |-> now, token |-> 0, ban |-> ban]}
      BY <1>1 DEF GameSanction, Put, NumbersOK
    <3> QED BY <2>1, <3>1 DEF AuditRecord, Verb, SType
  <2>4. stream' \subseteq EventRecord
    <3>1. PICK dated \in BOOLEAN, ban \in Nat :
            stream' = stream \union {[action |-> action, of |-> p, dated |-> dated,
                                      ban |-> ban, at |-> IF dated THEN now ELSE 0]}
      BY <1>1 DEF GameSanction, NumbersOK
    <3>2. (IF dated THEN now ELSE 0) \in Nat
      BY DEF SType
    <3> QED BY <3>1, <3>2 DEF SType, EventRecord
  <2> QED BY <2>1, <2>2, <2>3, <2>4, OutsideBase DEF SType
<1>2. ASSUME NEW p \in Player, NEW action \in Trails, StoreSanction(p, action)
      PROVE  Base'
  <2>1. /\ UNCHANGED <<now, kind, audits, case, form, act, stream, hook>>
        /\ p \in Somebody /\ mod' = [NoMod EXCEPT !.at = action, !.of = p]
    BY <1>2 DEF StoreSanction, fixed, Somebody
  <2>2. Kept /\ mutes' \in [Player -> Nat]
    BY <1>2, <2>1, IssueKeeps DEF StoreSanction
  <2>3. mod' \in ModRecord
    BY <2>1, Nones DEF ModRecord
  <2> QED BY <2>1, <2>2, <2>3, OutsideBase DEF SType
<1>3. CASE AuditSanction
  <2>1. /\ UNCHANGED <<now, kind, mutes, case, form, act, stream, hook>> /\ Kept
        /\ mod \in ModRecord /\ mod.at \in Trails
    BY <1>3, KeptSame DEF AuditSanction, fixed, store, SType
  <2>2. mod' \in ModRecord
    BY <1>3, <2>1, Nones DEF AuditSanction, ModRecord
  <2>3. audits' \subseteq AuditRecord
    <3>1. mod.of \in Somebody /\ mod.at \in Verb /\ now \in Nat
      BY <2>1 DEF ModRecord, Verb, SType
    <3> QED BY <1>3, <3>1 DEF AuditSanction, Put, AuditRecord, SType
  <2> QED BY <2>1, <2>2, <2>3, OutsideBase DEF SType
<1>4. ASSUME NEW p \in Player, FindBan(p)
      PROVE  Base'
  <2>1. PICK r \in bans :
          mod' = [at |-> IF r.id = Legacy THEN "number" ELSE "unban", of |-> p,
                  row |-> r]
    BY <1>4 DEF FindBan, Lookup
  <2>2. mod' \in ModRecord
    BY <2>1 DEF ModRecord, Somebody, SType
  <2>3. UNCHANGED <<now, kind, mutes, audits, case, form, act, stream, hook>> /\ Kept
    BY <1>4, KeptSame DEF FindBan, fixed, store
  <2> QED BY <2>2, <2>3, OutsideBase DEF SType
<1>5. CASE NumberBan
  <2>1. /\ UNCHANGED <<now, kind, audits, case, form, act, stream, hook>>
        /\ mod \in ModRecord
    BY <1>5 DEF NumberBan, fixed, SType
  <2>2. CASE mod' = NoMod /\ UNCHANGED store
    BY <2>1, <2>2, Nones, KeptSame, OutsideBase DEF store, SType
  <2>3. ASSUME NEW r \in bans, EnsureId(r),
               mod' = [mod EXCEPT !.at = "unban", !.row = Numbered(r)]
        PROVE  Base'
    <3> DEFINE new == Numbered(r)
    <3>1. Kept /\ mutes' = mutes /\ new \in BanRecord
      BY <2>3, EnsureKeeps
    <3>2. mod' = [mod EXCEPT !.at = "unban", !.row = new]
      BY <2>3
    <3> HIDE DEF new
    <3>3. mod' \in ModRecord
      BY <2>1, <3>1, <3>2 DEF ModRecord
    <3> QED BY <2>1, <3>1, <3>3, OutsideBase DEF SType
  <2> QED BY <1>5, <2>2, <2>3 DEF NumberBan, Lookup
<1>6. CASE Unban
  <2>1. /\ UNCHANGED <<now, kind, mutes, audits, case, form, act, stream, hook,
                       counter>>
        /\ mod' = NoMod /\ bans' \subseteq bans
    BY <1>6 DEF Unban, fixed
  <2> QED BY <2>1, Nones, KeptSame, OutsideBase DEF SType
<1>7. CASE Undo \/ \E p \in Player : Unmute(p)
  <2>1. /\ UNCHANGED <<now, kind, audits, case, form, act, stream, hook, bans, counter>>
        /\ mod' \in {mod, NoMod}
    BY <1>7 DEF Undo, Unmute, DeleteMute, fixed
  <2>2. mutes' \in [Player -> Nat]
    BY <1>7 DEF Undo, Unmute, DeleteMute, SType
  <2> QED BY <2>1, <2>2, Nones, KeptSame, OutsideBase DEF SType
<1>8. CASE UndoExpires
  <2>1. /\ UNCHANGED <<now, kind, mutes, audits, case, form, act, stream, hook, bans,
                       counter>>
        /\ mod' = NoMod
    BY <1>8 DEF UndoExpires, fixed, store
  <2> QED BY <2>1, Nones, KeptSame, OutsideBase DEF SType
<1>9. CASE Tick
  <2>1. /\ UNCHANGED <<kind, mutes, audits, case, form, act, mod, stream, hook, bans,
                       counter>>
        /\ now' \in Nat
    BY <1>9 DEF Tick, store, SType
  <2> QED BY <2>1, KeptSame, OutsideBase DEF SType
<1> QED
  BY <1>1, <1>2, <1>3, <1>4, <1>5, <1>6, <1>7, <1>8, <1>9
  DEF Command, ConfirmBan, CmdMute, Trails

(* A dead bot leaves rows, records and the case. *)
LEMMA CrashBase ==
  ASSUME Base, BotStops
  PROVE  Base'
<1>1. /\ UNCHANGED <<now, kind, mutes, audits, case, stream, bans, counter>>
      /\ form' = NoForm /\ act' = NoAct /\ mod' = NoMod /\ hook' = NoHook
  BY DEF BotStops, store, fixed
<1>2. SType'
  BY <1>1, Nones DEF Base, SType
<1>3. FlowOK' /\ ChosenSanction' /\ RowsOK' /\ AppealOK'
  BY <1>1, Nones DEF Base, FlowOK, ChosenSanction, RowsOK, AppealOK, Owned
<1> QED BY <1>2, <1>3 DEF Base

-----------------------------------------------------------------------------
(* Sanctions observed *)

(* Records are never removed from the audit trail. *)
LEMMA EvidenceStays ==
  ASSUME NEW p, NEW since, NEW action, NEW stamp, Evidence(p, since, action, stamp),
         audits \subseteq audits'
  PROVE  Evidence(p, since, action, stamp)'
  BY DEF Evidence, Trail

(* What the watchers rely on outlasts the other steps: a case whose subject or
   time changes gets a new revision. *)
LEMMA SeenStays ==
  ASSUME Base, Seen, UNCHANGED <<kind, hook, stream>>, audits \subseteq audits',
         kind = "report" => case'.revision \in Nat /\ case.revision <= case'.revision,
         kind = "report" /\ case'.revision = case.revision =>
           case'.subject = case.subject /\ case'.since = case.since,
         case'.by = "observed" => case' = case
  PROVE  Seen'
<1>1. StreamOK'
  BY EvidenceStays DEF Seen, StreamOK
<1>2. HookOK'
  <2>1. hook.revision \in Nat /\ case.revision \in Nat
    BY DEF Base, SType, HookRecord, CaseRecord
  <2>2. /\ hook.revision <= case.revision /\ kind = "report"
        /\ hook.revision = case'.revision
        => case'.revision = case.revision
    BY <2>1
  <2>3. hook.revision <= case.revision /\ kind = "report"
          => hook.revision <= case'.revision
    BY <2>1
  <2> QED BY <2>2, <2>3, EvidenceStays DEF Seen, HookOK
<1>3. ObservedAnswers'
  <2> SUFFICES ASSUME case'.by = "observed" PROVE ObservedAnswers'
    BY DEF ObservedAnswers
  <2>1. Evidence(case.subject, case.since, case.code, case.stamp) /\ case' = case
    BY DEF Seen, ObservedAnswers, Evidence
  <2>2. Evidence(case.subject, case.since, case.code, case.stamp)'
    BY <2>1, EvidenceStays DEF Evidence, Trail
  <2> QED BY <2>2 DEF ObservedAnswers, Evidence
<1> QED BY <1>1, <1>2, <1>3 DEF Seen

(* The steps of a case raise its revision with whatever the watchers read. *)
LEMMA CaseSeen ==
  ASSUME Base, Seen,
         \/ AppealForm \/ Action \/ Recover \/ Decide
         \/ \E verb \in Trails \union {"lift", "shorten"} : Press(verb)
  PROVE  Seen'
<1>0. case \in CaseRecord /\ case.revision \in Nat
  BY DEF Base, SType, CaseRecord
<1>1. UNCHANGED <<kind, hook, stream>>
  BY DEF AppealForm, Choose, NumberForm, CheckForm, ChooseMute, CheckMute, Open, Action,
     ReadBan, StillCurrent, LiftBan, ShortenBan, WriteBan, ReadMute, LiftMute,
     ShortenMute, WriteMute, ChooseTarget, Sanction, AuditAct, CloseActed, Recover,
     Decide, Press, fixed
<1>2. audits \subseteq audits'
  BY DEF AppealForm, Choose, NumberForm, CheckForm, ChooseMute, CheckMute, Open, Action,
     ReadBan, StillCurrent, LiftBan, ShortenBan, WriteBan, ReadMute, LiftMute,
     ShortenMute, WriteMute, ChooseTarget, Sanction, AuditAct, Put, CloseActed, Recover,
     Decide, Press, store
<1>3. CASE case' = case
  BY <1>0, <1>1, <1>2, <1>3, SeenStays
<1>4. CASE Open
  <2>1. kind # "report" /\ case.by # "observed"
    BY <1>4 DEF Open, Base, FlowOK
  <2>2. case'.by = case.by
    BY <1>0, <1>4 DEF Open, CaseRecord
  <2> QED BY <1>1, <1>2, <2>1, <2>2, SeenStays
<1>5. CASE case'.revision = case.revision + 1 /\ case'.by # "observed"
  <2>1. case'.revision \in Nat /\ case.revision <= case'.revision
    BY <1>0, <1>5
  <2>2. case'.revision # case.revision
    BY <1>0, <1>5
  <2> QED BY <1>1, <1>2, <1>5, <2>1, <2>2, SeenStays
<1>6. ASSUME NEW status \in {"open", "busy"}, case.status \in {"open", "busy"},
             \/ case' = Move(status)
             \/ \E p \in Player : case' = [Move(status) EXCEPT !.subject = p]
             \/ \E n \in Nat : case' = [Move(status) EXCEPT !.attempt = n]
      PROVE  case'.revision = case.revision + 1 /\ case'.by # "observed"
  <2> DEFINE m == Move(status)
  <2>1. m \in CaseRecord /\ m.revision = case.revision + 1 /\ m.by = case.by
    BY <1>0, Moves
  <2>2. case.by # "observed"
    BY <1>6 DEF Base, FlowOK
  <2>3. \/ case' = m
        \/ \E p \in Player : case' = [m EXCEPT !.subject = p]
        \/ \E n \in Nat : case' = [m EXCEPT !.attempt = n]
    BY <1>6
  <2> HIDE DEF m
  <2> QED BY <2>1, <2>2, <2>3 DEF CaseRecord
<1>7. ASSUME NEW code \in Verb \union {"recovered", "rejected"},
             case' = Closed("action", code, 0)
      PROVE  case'.revision = case.revision + 1 /\ case'.by # "observed"
  BY <1>0, <1>7, Closes
<1>8. CASE case' = [Move("open") EXCEPT !.since = now, !.by = "nobody", !.code = "none",
                                        !.stamp = 0]
  <2> DEFINE m == Move("open")
  <2>1. m \in CaseRecord /\ m.revision = case.revision + 1
    BY <1>0, Moves
  <2>2. case' = [m EXCEPT !.since = now, !.by = "nobody", !.code = "none", !.stamp = 0]
    BY <1>8
  <2> HIDE DEF m
  <2>3. case'.revision = case.revision + 1 /\ case'.by = "nobody"
    BY <2>1, <2>2 DEF CaseRecord
  <2> QED BY <1>5, <2>3
<1>9. CASE AppealForm /\ ~Open
  <2>1. case' = case
    BY <1>9 DEF AppealForm, Choose, NumberForm, CheckForm, ChooseMute, CheckMute
  <2> QED BY <1>3, <2>1
<1>10. CASE Action
  <2>1. act.at # "none" /\ act \in ActRecord
    BY <1>10 DEF Action, ReadBan, StillCurrent, LiftBan, ShortenBan, WriteBan, ReadMute,
       LiftMute, ShortenMute, WriteMute, ChooseTarget, Sanction, AuditAct, CloseActed,
       Base, SType
  <2>2. case.status = "busy" /\ act.verb \in Verb
    BY <2>1 DEF Base, FlowOK, ActRecord
  <2>3. \/ case' = case \/ case' = Move("open")
        \/ \E p \in Player : case' = [Move("busy") EXCEPT !.subject = p]
        \/ case' = Closed("action", act.verb, 0)
    BY <1>10 DEF Action, ReadBan, StillCurrent, LiftBan, ShortenBan, WriteBan, ReadMute,
       LiftMute, ShortenMute, WriteMute, ChooseTarget, Sanction, AuditAct, CloseActed,
       Refused
  <2> QED BY <1>3, <1>5, <1>6, <1>7, <2>2, <2>3
<1>11. CASE Recover
  BY <1>5, <1>6, <1>7, <1>11 DEF Recover
<1>12. CASE Decide
  BY <1>5, <1>6, <1>7, <1>8, <1>12 DEF Decide
<1>13. ASSUME NEW verb \in Trails \union {"lift", "shorten"}, Press(verb)
       PROVE  Seen'
  <2>1. case.revision + 1 \in Nat
    BY <1>0
  <2>2. case.status = "open"
          /\ \E n \in Nat : case' = [Move("busy") EXCEPT !.attempt = n]
    BY <1>13, <2>1 DEF Press
  <2> QED BY <1>5, <1>6, <2>2
<1> QED BY <1>4, <1>9, <1>10, <1>11, <1>12, <1>13

(* A command, the game and the clock leave the case alone; what the game sends
   with a time it has recorded. *)
LEMMA CommandSeen ==
  ASSUME Base, Seen,
         \/ Command \/ Tick
         \/ \E p \in Player : \/ FindBan(p) \/ Unmute(p) \/ ConfirmBan(p) \/ CmdMute(p)
                              \/ \E action \in Trails : GameSanction(p, action)
  PROVE  Seen'
<1>0. case.revision \in Nat /\ now \in Nat
  BY DEF Base, SType, CaseRecord
<1>1. CASE UNCHANGED <<kind, case, hook, stream>> /\ audits \subseteq audits'
  BY <1>0, <1>1, SeenStays
<1>2. CASE Command \/ Tick
            \/ \E p \in Player : FindBan(p) \/ Unmute(p) \/ ConfirmBan(p) \/ CmdMute(p)
  <2>1. UNCHANGED <<kind, case, hook, stream>>
    BY <1>2 DEF Command, AuditSanction, NumberBan, Unban, Undo, UndoExpires, DeleteMute,
       Tick, FindBan, Unmute, ConfirmBan, CmdMute, StoreSanction, fixed
  <2>2. audits \subseteq audits'
    BY <1>2 DEF Command, AuditSanction, NumberBan, Unban, Undo, UndoExpires, DeleteMute,
       Tick, FindBan, Unmute, ConfirmBan, CmdMute, StoreSanction, Put
  <2> QED BY <1>1, <2>1, <2>2
<1>3. ASSUME NEW p \in Player, NEW action \in Trails, GameSanction(p, action)
      PROVE  Seen'
  <2>1. UNCHANGED <<now, kind, case, hook>>
    BY <1>3 DEF GameSanction, fixed
  <2> DEFINE Asked(dated) ==
        IF action = "BAN" /\ ~dated THEN sanctions + 1 ELSE 0
  <2>3. PICK dated \in BOOLEAN :
          stream' = stream \union {[action |-> action, of |-> p, dated |-> dated,
                                    ban |-> Asked(dated),
                                    at |-> IF dated THEN now ELSE 0]} /\
          audits' = audits \union
                     {[action |-> action, of |-> p, at |-> now, token |-> 0,
                       ban |-> Asked(dated)]}
    BY <1>3 DEF GameSanction, Put
  <2> DEFINE ban == Asked(dated)
  <2>2. audits' = audits \union
          {[action |-> action, of |-> p, at |-> now, token |-> 0, ban |-> ban]}
    BY <2>3
  <2> HIDE DEF ban
  <2>4. Evidence(p, now, action, now)'
    <3>1. [action |-> action, of |-> p, at |-> now, token |-> 0, ban |-> ban]
            \in Trail(p, now)'
      BY <1>0, <2>1, <2>2 DEF Trail
    <3> QED BY <2>1, <3>1 DEF Evidence
  <2>5. StreamOK'
    <3> SUFFICES ASSUME NEW e \in stream', e.dated
                 PROVE  Evidence(e.of, e.at, e.action, e.at)'
      BY DEF StreamOK
    <3>1. CASE e \in stream
      BY <2>2, <3>1, EvidenceStays DEF Seen, StreamOK
    <3>2. CASE e = [action |-> action, of |-> p, dated |-> dated, ban |-> ban,
                    at |-> IF dated THEN now ELSE 0]
      BY <2>1, <2>4, <3>2
    <3> QED BY <2>3, <3>1, <3>2 DEF ban
  <2>6. HookOK'
    BY <2>1, <2>2, EvidenceStays DEF Seen, HookOK
  <2>7. ObservedAnswers'
    BY <2>1, <2>2 DEF Seen, ObservedAnswers, Trail
  <2> QED BY <2>5, <2>6, <2>7 DEF Seen
<1> QED BY <1>2, <1>3

(* A handler starts from the case as it is. *)
LEMMA Observes ==
  ASSUME Base, NEW at \in {"trail", "close"}, NEW action \in Trails \union {"none"},
         NEW ban \in Nat, NEW stamp \in Nat, NEW event \in SUBSET EventRecord,
         hook' = [Observing EXCEPT !.at = at, !.action = action, !.ban = ban,
                                   !.stamp = stamp, !.event = event]
  PROVE  /\ hook' \in HookRecord /\ hook'.at = at /\ hook'.of = case.subject
         /\ hook'.revision = case.revision /\ hook'.since = case.since
         /\ hook'.action = action /\ hook'.stamp = stamp
<1>1. /\ case.subject \in Somebody /\ case.revision \in Nat /\ case.since \in Nat
  BY DEF Base, SType, CaseRecord
<1>2. hook' = [at |-> at, of |-> case.subject, revision |-> case.revision,
               since |-> case.since, action |-> action, ban |-> ban,
               stamp |-> stamp, event |-> event]
  BY DEF Observing, NoHook
<1>3. hook' \in HookRecord
  BY <1>1, <1>2 DEF HookRecord
<1>4. hook'.at = at /\ hook'.of = case.subject /\ hook'.revision = case.revision
  BY ONLY <1>2
<1>5. hook'.since = case.since /\ hook'.action = action /\ hook'.stamp = stamp
  BY ONLY <1>2
<1> QED BY <1>3, <1>4, <1>5

(* The steps of a handler but its last leave the case alone and read of it, or
   of the trail, what holds. *)
LEMMA WatchKeeps ==
  ASSUME Base, Seen, hook' \in HookRecord,
         UNCHANGED <<store, fixed, audits, case, form, act, mod>>,
         stream' \subseteq stream,
         hook'.at # "none" =>
           /\ kind = "report"
           /\ hook'.revision <= case.revision
           /\ hook'.revision = case.revision =>
                hook'.of = case.subject /\ hook'.since = case.since
           /\ hook'.at = "close" =>
                Evidence(hook'.of, hook'.since, hook'.action, hook'.stamp)
  PROVE  SanctionsIInv'
<1>1. UNCHANGED <<now, kind, bans, mutes, counter, audits, case, form, act, mod>>
  BY DEF store, fixed
<1>2. Base'
  BY <1>1, KeptSame, OutsideBase DEF Base, SType
<1>3. \A p, since, action, stamp :
        Evidence(p, since, action, stamp) => Evidence(p, since, action, stamp)'
  BY <1>1, EvidenceStays
<1>4. StreamOK' /\ HookOK'
  BY <1>1, <1>3 DEF Seen, StreamOK, HookOK
<1>5. ObservedAnswers'
  BY <1>1 DEF Seen, ObservedAnswers, Trail
<1> QED BY <1>2, <1>4, <1>5 DEF SanctionsIInv, Seen

(* The handler closes the case it has read, and with the sanction it has read:
   neither has changed when the revision has not. *)
LEMMA CloseObservedKeeps ==
  ASSUME SanctionsIInv, CloseObserved
  PROVE  SanctionsIInv'
<1>1. /\ hook.at = "close" /\ hook \in HookRecord /\ case \in CaseRecord
      /\ kind = "report" /\ hook' = NoHook /\ stream' \subseteq stream
      /\ UNCHANGED <<store, fixed, audits, form, act, mod>>
      /\ Evidence(hook.of, hook.since, hook.action, hook.stamp)
  BY DEF CloseObserved, SanctionsIInv, Base, SType, Seen, HookOK
<1>2. CASE ~AsRead
  <2>1. UNCHANGED case
    BY <1>2 DEF CloseObserved
  <2> QED BY <1>1, <2>1, Nones, WatchKeeps DEF SanctionsIInv
<1>3. CASE AsRead
  <2> DEFINE m == Closed("observed", hook.action, hook.stamp)
  <2>1. hook.action \in Verb /\ hook.stamp \in Nat
    BY <1>1 DEF HookRecord, Verb
  <2>2. /\ m \in CaseRecord /\ m.status = "closed" /\ m.subject = case.subject
        /\ m.ref = case.ref /\ m.chosen = case.chosen /\ m.since = case.since
        /\ m.code = hook.action /\ m.stamp = hook.stamp
    BY <1>1, <2>1, Closes
  <2>3. case' = m /\ case.status = "open"
    BY <1>3 DEF CloseObserved, AsRead
  <2> HIDE DEF m
  <2>4. /\ UNCHANGED <<now, kind, mutes, audits, form, act, mod, bans, counter>>
        /\ Kept
    BY <1>1, KeptSame DEF store, fixed, SanctionsIInv, Base
  <2>5. act.at = "none" /\ case.by # "observed"
    BY <2>3 DEF SanctionsIInv, Base, FlowOK
  <2>6. Base'
    BY <1>1, <2>2, <2>3, <2>4, <2>5, Nones, CaseBase DEF SanctionsIInv, Base, SType
  <2>7. StreamOK' /\ HookOK'
    BY <1>1, <2>4, EvidenceStays, Nones DEF SanctionsIInv, Seen, StreamOK, HookOK
  <2>8. hook.of = case.subject /\ hook.since = case.since
    BY <1>1, <1>3 DEF AsRead, SanctionsIInv, Seen, HookOK
  <2>9. PICK a \in Trail(case.subject, case.since) :
           a.action = hook.action /\ a.at = hook.stamp
    BY <1>1, <2>8 DEF Evidence
  <2>10. a \in Trail(case.subject, case.since)'
    BY <2>2, <2>3, <2>4 DEF Trail
  <2>11. ObservedAnswers'
    BY <2>2, <2>3, <2>9, <2>10 DEF ObservedAnswers
  <2> QED BY <2>6, <2>7, <2>11 DEF SanctionsIInv, Seen
<1> QED BY <1>2, <1>3

(* The steps of a handler. *)
LEMMA WatchStep ==
  ASSUME SanctionsIInv, Watching
  PROVE  SanctionsIInv'
<1>0. /\ case \in CaseRecord /\ case.revision \in Nat /\ case.since \in Nat
      /\ hook \in HookRecord
  BY DEF SanctionsIInv, Base, SType, CaseRecord
<1>1. ASSUME NEW e \in stream, Observe(e)
      PROVE  SanctionsIInv'
  <2>1. e \in EventRecord /\ e.at \in Nat /\ e.action \in Trails /\ e.ban \in Nat
    BY DEF SanctionsIInv, Base, SType, EventRecord
  <2>2. UNCHANGED <<store, fixed, audits, case, form, act, mod>>
    BY <1>1 DEF Observe
  <2>3. CASE UNCHANGED hook /\ stream' \subseteq stream
    <3>1. hook'.at = "none"
      BY <1>1, <2>3 DEF Observe
    <3> QED BY <1>0, <2>2, <2>3, <3>1, WatchKeeps DEF SanctionsIInv
  <2>4. CASE /\ kind = "report" /\ case.subject = e.of /\ stream' = stream
             /\ ~(e.dated /\ e.at < case.since)
             /\ hook' = [Observing EXCEPT !.at = IF e.dated THEN "close" ELSE "trail",
                           !.action = e.action, !.ban = e.ban, !.stamp = e.at,
                           !.event = {e}]
    <3> DEFINE at == IF e.dated THEN "close" ELSE "trail"
    <3>1. /\ hook' \in HookRecord /\ hook'.at = at /\ hook'.of = case.subject
          /\ hook'.revision = case.revision /\ hook'.since = case.since
          /\ hook'.action = e.action /\ hook'.stamp = e.at
      <4>1. at \in {"trail", "close"} /\ {e} \in SUBSET EventRecord
        BY <2>1
      <4>2. hook' = [Observing EXCEPT !.at = at, !.action = e.action, !.ban = e.ban,
                                      !.stamp = e.at, !.event = {e}]
        BY <2>4
      <4> DEFINE action == e.action  ban == e.ban  stamp == e.at  event == {e}
      <4>3. /\ Base /\ action \in Trails \union {"none"} /\ ban \in Nat
            /\ stamp \in Nat /\ event \in SUBSET EventRecord
        BY <2>1, <4>1 DEF SanctionsIInv
      <4>4. hook' = [Observing EXCEPT !.at = at, !.action = action, !.ban = ban,
                                      !.stamp = stamp, !.event = event]
        BY <4>2
      <4>5. /\ hook' \in HookRecord /\ hook'.at = at /\ hook'.of = case.subject
            /\ hook'.revision = case.revision /\ hook'.since = case.since
            /\ hook'.action = action /\ hook'.stamp = stamp
        <5> HIDE DEF at, action, ban, stamp, event
        <5> QED BY <4>1, <4>3, <4>4, Observes
      <4> QED BY <4>5
    <3>2. e.dated => Evidence(case.subject, case.since, e.action, e.at)
      <4> SUFFICES ASSUME e.dated
                   PROVE  Evidence(case.subject, case.since, e.action, e.at)
        OBVIOUS
      <4>1. PICK a \in Trail(e.of, e.at) : a.action = e.action /\ a.at = e.at
        BY DEF SanctionsIInv, Seen, StreamOK, Evidence
      <4>2. a.at >= case.since
        BY <1>0, <2>1, <2>4, <4>1
      <4>3. a \in Trail(case.subject, case.since)
        BY <2>4, <4>1, <4>2 DEF Trail
      <4> QED BY <4>1, <4>3 DEF Evidence
    <3>3. hook'.at = "close" => e.dated
      BY <3>1
    <3> QED BY <1>0, <2>2, <2>4, <3>1, <3>2, <3>3, WatchKeeps DEF SanctionsIInv
  <2> QED BY <1>1, <2>3, <2>4 DEF Observe
<1>2. CASE Repair
  <2>1. /\ UNCHANGED <<store, fixed, audits, case, form, act, mod>> /\ kind = "report"
        /\ stream' = stream
    BY <1>2 DEF Repair
  <2>2. hook' = [at |-> "trail", of |-> case.subject, revision |-> case.revision,
                 since |-> case.since, action |-> "none", ban |-> 0, stamp |-> 0,
                 event |-> {}]
    BY <1>2 DEF Repair, Observing, NoHook
  <2>3. hook' \in HookRecord
    BY <1>0, <2>2 DEF HookRecord, CaseRecord
  <2> QED BY <1>0, <2>1, <2>2, <2>3, WatchKeeps DEF SanctionsIInv
<1>3. CASE ReadTrail
  <2>1. /\ UNCHANGED <<store, fixed, audits, case, form, act, mod>>
        /\ hook.at = "trail"
    BY <1>3 DEF ReadTrail
  <2>2. CASE hook' = NoHook /\ stream' \subseteq stream
    BY <2>1, <2>2, Nones, WatchKeeps DEF SanctionsIInv
  <2>3. ASSUME NEW a \in Trail(hook.of, hook.since),
               hook' = [hook EXCEPT !.at = "close", !.action = a.action,
                                    !.stamp = a.at],
               stream' = stream
        PROVE  SanctionsIInv'
    <3>1. a.action \in Trails /\ a.at \in Nat
      BY DEF Trail, SanctionsIInv, Base, SType, AuditRecord
    <3>2. /\ hook' \in HookRecord /\ hook'.at = "close" /\ hook'.of = hook.of
          /\ hook'.revision = hook.revision /\ hook'.since = hook.since
          /\ hook'.action = a.action /\ hook'.stamp = a.at
      BY <1>0, <2>3, <3>1 DEF HookRecord
    <3>3. Evidence(hook.of, hook.since, a.action, a.at)
      BY DEF Evidence
    <3>4. /\ kind = "report" /\ hook.revision <= case.revision
          /\ hook.revision = case.revision =>
               hook.of = case.subject /\ hook.since = case.since
      BY <2>1 DEF SanctionsIInv, Seen, HookOK
    <3> QED BY <2>1, <2>3, <3>2, <3>3, <3>4, WatchKeeps DEF SanctionsIInv
  <2> QED BY <1>3, <2>2, <2>3 DEF ReadTrail, Newest
<1> QED BY <1>1, <1>2, <1>3, CloseObservedKeeps DEF Watching

-----------------------------------------------------------------------------
(* A crash loses the handlers, and the trail and the events stay. *)
LEMMA CrashSeen ==
  ASSUME Seen, BotStops
  PROVE  Seen'
<1>1. UNCHANGED <<kind, audits, case, stream>> /\ hook' = NoHook
  BY DEF BotStops, fixed
<1> QED BY <1>1, EvidenceStays, Nones
        DEF Seen, StreamOK, HookOK, ObservedAnswers, Trail

(* No sanction is observed and nothing handled at first. *)
LEMMA InitSanctionsIInv ==
  ASSUME SanctionsInit
  PROVE  SanctionsIInv
<1>1. /\ now = 0 /\ kind \in {"report", "ban", "mute"} /\ counter = 1 /\ audits = {}
      /\ form = NoForm /\ act = NoAct /\ mod = NoMod /\ stream = {} /\ hook = NoHook
  BY DEF SanctionsInit
<1>2. \A r \in bans : /\ r \in BanRecord /\ r.id <= 1 /\ r.of = Subject
  BY DEF SanctionsInit, Ban, Legacy, BanRecord, Somebody, Player
<1>3. mutes \in [Player -> Nat]
  BY DEF SanctionsInit
<1>4. PICK p \in {Subject, NoPlayer} :
        case = [status |-> IF kind = "report" THEN "open" ELSE "absent",
                subject |-> p, ref |-> 0, chosen |-> NoPlayer, revision |-> 0,
                attempt |-> 0, since |-> 0, by |-> "nobody", code |-> "none",
                stamp |-> 0]
  BY DEF SanctionsInit
<1>5. p \in Somebody /\ NoPlayer \in Somebody
  BY DEF Somebody, Player
<1>6. /\ case \in CaseRecord /\ case.chosen = NoPlayer /\ case.by = "nobody"
      /\ case.status = IF kind = "report" THEN "open" ELSE "absent"
  BY <1>4, <1>5 DEF CaseRecord, Verb
<1>7. SType
  BY <1>1, <1>2, <1>3, <1>6, Nones DEF SType
<1>8. FlowOK /\ ChosenSanction
  BY <1>1, <1>6, Nones DEF FlowOK, ChosenSanction
<1>9. RowsOK /\ AppealOK
  BY <1>1, <1>2, <1>6, Nones DEF RowsOK, AppealOK
<1>10. Seen
  BY <1>1, <1>6, Nones DEF Seen, StreamOK, HookOK, ObservedAnswers
<1> QED BY <1>7, <1>8, <1>9, <1>10 DEF SanctionsIInv, Base

(* No step but a sanction outside the case, which adds one, counts. *)
LEMMA StepCounted ==
  ASSUME NumbersOK, [SanctionsNext]_sanctionvars
  PROVE  NumbersOK'
<1>1. CASE UNCHANGED sanctionvars
  BY <1>1 DEF NumbersOK, sanctionvars
<1>2. CASE AppealForm \/ Action \/ Recover \/ Decide \/ Tick \/ BotStops
  BY <1>2 DEF NumbersOK, AppealForm, Choose, NumberForm, CheckForm, ChooseMute, CheckMute,
     Open, Action, ReadBan, StillCurrent, LiftBan, ShortenBan, WriteBan, ReadMute,
     LiftMute, ShortenMute, WriteMute, ChooseTarget, Sanction, AuditAct, CloseActed,
     Recover, Decide, Tick, BotStops
<1>3. CASE Command \/ Watching
  BY <1>3 DEF NumbersOK, Command, AuditSanction, NumberBan, Unban, Undo, UndoExpires,
     Watching, Repair, ReadTrail, CloseObserved, Observe
<1>4. ASSUME NEW verb \in Trails \union {"lift", "shorten"}, Press(verb)
      PROVE  NumbersOK'
  BY <1>4 DEF NumbersOK, Press
<1>5. ASSUME NEW p \in Player,
             \/ FindBan(p) \/ Unmute(p) \/ ConfirmBan(p) \/ CmdMute(p)
             \/ \E action \in Trails : GameSanction(p, action)
      PROVE  NumbersOK'
  BY <1>5 DEF NumbersOK, FindBan, Unmute, ConfirmBan, CmdMute, StoreSanction,
     GameSanction, Outside
<1> QED BY <1>1, <1>2, <1>3, <1>4, <1>5 DEF SanctionsNext

(* Every step keeps the inductive invariant. *)
LEMMA StepSanctionsIInv ==
  ASSUME SanctionsIInv, NumbersOK, [SanctionsNext]_sanctionvars
  PROVE  SanctionsIInv'
<1> USE DEF SanctionsIInv
<1>1. CASE UNCHANGED sanctionvars
  <2>1. UNCHANGED <<now, kind, bans, mutes, counter, audits, case, form, act, mod,
                    stream, hook>>
    BY <1>1 DEF sanctionvars
  <2>2. Base'
    BY <2>1, KeptSame, OutsideBase DEF Base, SType
  <2>3. case.revision \in Nat
    BY DEF Base, SType, CaseRecord
  <2> QED BY <2>1, <2>2, <2>3, SeenStays
<1>2. CASE AppealForm
  BY <1>2, SubmissionBase, CaseSeen
<1>3. CASE Action
  BY <1>3, ActionBase, CaseSeen
<1>4. CASE Recover \/ Decide
  BY <1>4, DecideBase, CaseSeen
<1>5. ASSUME NEW verb \in Trails \union {"lift", "shorten"}, Press(verb)
      PROVE  SanctionsIInv'
  BY <1>5, PressBase, CaseSeen
<1>6. CASE Watching
  BY <1>6, WatchStep
<1>7. CASE BotStops
  BY <1>7, CrashBase, CrashSeen
<1>8. CASE \/ Command \/ Tick
           \/ \E p \in Player :
                \/ FindBan(p) \/ Unmute(p) \/ ConfirmBan(p) \/ CmdMute(p)
                \/ \E action \in Trails : GameSanction(p, action)
  BY <1>8, CommandBase, CommandSeen
<1> QED BY <1>1, <1>2, <1>3, <1>4, <1>5, <1>6, <1>7, <1>8 DEF SanctionsNext

(* The inductive invariant holds of every behaviour. *)
LEMMA SanctionsInvariance == SanctionsSpec => []SanctionsIInv
<1> DEFINE Inv == SanctionsIInv /\ NumbersOK
<1>1. SanctionsInit => Inv
  BY InitSanctionsIInv DEF SanctionsInit, NumbersOK
<1>2. Inv /\ [SanctionsNext]_sanctionvars => Inv'
  BY StepSanctionsIInv, StepCounted
<1> QED BY <1>1, <1>2, PTL DEF SanctionsSpec

(* The appeal is about the sanction the person chose, whatever is replaced,
   numbered, lifted or reissued between the steps of its submission
   (_checked, _submit, _snapshot). *)
THEOREM ChosenSanctionSafe == SanctionsSpec => []ChosenSanction
<1>1. SanctionsIInv => ChosenSanction
  BY DEF SanctionsIInv, Base
<1> QED BY <1>1, SanctionsInvariance, PTL

(* A report closed by an observed sanction was answered by one of its subject,
   issued outside the case and not before it was filed or last reopened. *)
THEOREM ObservedAnswersSafe == SanctionsSpec => []ObservedAnswers
<1>1. SanctionsIInv => ObservedAnswers
  BY DEF SanctionsIInv, Seen
<1> QED BY <1>1, SanctionsInvariance, PTL

(* The write of a ban's appeal takes the rows of its own number, which are bans
   of its subject, or makes them end sooner. *)
LEMMA BanWriteOwn ==
  ASSUME SanctionsIInv, LiftBan \/ ShortenBan, act'.at = "audit"
  PROVE  OwnBan /\ OwnMute
<1>1. /\ act.at = "write" /\ kind = "ban" /\ act \in ActRecord /\ mutes' = mutes
      /\ bans \subseteq BanRecord
  BY DEF LiftBan, ShortenBan, WriteBan, SanctionsIInv, Base, SType
<1>2. act.row.id = case.ref /\ Owned(case.ref, case.subject)
  BY <1>1 DEF SanctionsIInv, Base, AppealOK, FlowOK
<1>3. OwnMute
  BY <1>1 DEF OwnMute
<1>4. act' # NoAct
  BY Nones
<1>5. CASE LiftBan
  <2>1. bans' = (bans \ Doomed(act.row.of, act.row.id)) \union {}
    BY <1>4, <1>5 DEF LiftBan, WriteBan, Refused
  <2>2. \A r \in bans \ bans' : r.id = case.ref
    BY <1>2, <2>1 DEF Doomed
  <2> QED BY <1>2, <1>3, <2>1, <2>2 DEF OwnBan, Owned
<1>6. CASE ShortenBan
  <2> DEFINE hit == Later(case.ref, act.until)
  <2>1. bans' = (bans \ hit) \union {[r EXCEPT !.expiry = act.until] : r \in hit}
    BY <1>4, <1>6 DEF ShortenBan, WriteBan, Refused
  <2>2. hit \subseteq bans /\ \A r \in hit : r.id = case.ref /\ r.expiry > act.until
    BY DEF Later
  <2> HIDE DEF hit
  <2>3. \A r \in bans \ bans' : r.id = case.ref /\ r.of = case.subject
    BY <1>2, <2>1, <2>2 DEF Owned
  <2>4. ASSUME NEW r \in bans' \ bans
        PROVE  \E q \in bans : q.id = r.id /\ q.of = r.of /\ r.expiry < q.expiry
    <3>1. PICK q \in hit : r = [q EXCEPT !.expiry = act.until]
      BY <2>1, <2>4
    <3>2. q \in BanRecord /\ q \in bans /\ act.until \in Nat /\ q.expiry \in Nat
      BY <1>1, <2>2 DEF BanRecord, ActRecord
    <3>3. q.id = r.id /\ q.of = r.of /\ r.expiry = act.until
      BY <3>1, <3>2 DEF BanRecord
    <3> QED BY <2>2, <3>2, <3>3
  <2> QED BY <1>3, <2>3, <2>4 DEF OwnBan
<1> QED BY <1>5, <1>6

(* The write of a mute's appeal finds the mute by its expiry. *)
LEMMA MuteWriteOwn ==
  ASSUME SanctionsIInv, LiftMute \/ ShortenMute, act'.at = "audit"
  PROVE  OwnBan /\ OwnMute
<1>1. act' # NoAct /\ bans' = bans
  BY Nones DEF LiftMute, ShortenMute, WriteMute
<1>2. /\ act \in ActRecord /\ case.ref \in Nat /\ now \in Nat
      /\ mutes \in [Player -> Nat] /\ act.until \in Nat
  BY DEF SanctionsIInv, Base, SType, CaseRecord, ActRecord
<1>3. PICK expiry \in Nat :
        /\ mutes[case.subject] = case.ref /\ expiry < case.ref
        /\ mutes' = [mutes EXCEPT ![case.subject] = expiry]
  BY <1>1, <1>2 DEF LiftMute, ShortenMute, WriteMute, Refused, IsTheMute
<1> QED BY <1>1, <1>2, <1>3 DEF OwnBan, OwnMute

(* The write of an appeal touches the sanction it appeals and no other, and only
   to end it sooner, whatever was stored, lifted or reissued since the action
   read it. *)
THEOREM AppealTouchesItsOwnSafe == SanctionsSpec => AppealTouchesItsOwn
<1>1. ASSUME SanctionsIInv, [SanctionsNext]_sanctionvars,
             act.at = "write", act'.at = "audit", kind # "report"
      PROVE  OwnBan /\ OwnMute
  <2>1. act' # act /\ act' # NoAct /\ act \in ActRecord
    BY <1>1, Nones DEF SanctionsIInv, Base, SType
  <2>2. Action
    BY <1>1, <2>1, Nones DEF SanctionsNext, sanctionvars, AppealForm, Choose,
       NumberForm, CheckForm, ChooseMute,
       CheckMute, Open, Press, Recover, Decide, Tick, BotStops, Command, AuditSanction,
       NumberBan, Unban, Undo, UndoExpires, DeleteMute, Watching, Repair, ReadTrail,
       CloseObserved, Observe, FindBan, Unmute, ConfirmBan, CmdMute, StoreSanction,
       GameSanction
  <2>3. LiftBan \/ ShortenBan \/ LiftMute \/ ShortenMute
    BY <1>1, <2>1, <2>2
    DEF Action, ReadBan, StillCurrent, ReadMute, ChooseTarget, Sanction,
       AuditAct, CloseActed
  <2> QED BY <1>1, <2>3, BanWriteOwn, MuteWriteOwn
<1>2. SanctionsIInv /\ [SanctionsNext]_sanctionvars =>
        [act.at = "write" /\ act'.at = "audit" /\ kind # "report" =>
           OwnBan /\ OwnMute]_sanctionvars
  BY <1>1
<1> QED BY <1>2, SanctionsInvariance, PTL DEF SanctionsSpec, AppealTouchesItsOwn
=============================================================================
