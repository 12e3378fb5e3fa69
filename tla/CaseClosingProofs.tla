-------------------------- MODULE CaseClosingProofs --------------------------
(***************************************************************************)
(* The person of a case never has two living threads, for any number of    *)
(* threads, deletions, decisions, crashes and failed calls.  A new thread  *)
(* is made only when finish_close has read that none is recorded; no other *)
(* coroutine records one meanwhile (MakesForNone), so every living thread  *)
(* is an orphan then, and is adopted.                                      *)
(*                                                                         *)
(* Whatever reaches a person twice is paid for by a death, a failed call   *)
(* or a deletion (RepeatInv).  A delivery that is recorded as done was     *)
(* posted (PostedInv), unless a call failed and a thread was deleted: with *)
(* no deletion the thread stays the one the case was created with (Whole). *)
(***************************************************************************)
EXTENDS CaseClosing, FiniteSetTheorems, TLAPS

(* finish_close works on closed cases: reopen waits for the lock. *)
Working ==
  /\ closer.at # "idle" => case.status = "closed"
  /\ case.status = "closed" => case.verdict \in Verdict

MakesForNone ==
  closer.at = "making" /\ closer.thread = None => case.thread = None

AtMostOne == \A t, u \in living : t = u

IInv == TypeOK /\ Working /\ MakesForNone /\ AtMostOne

(* There is a thread to begin with, and an unused one while some are left. *)
LEMMA FreshOK ==
  ASSUME NEW taken \in SUBSET Thread, taken # Thread
  PROVE  Fresh(taken) \in Thread /\ Fresh(taken) \notin taken
BY DEF Fresh

(* The created case has its one thread. *)
LEMMA InitIInv == Init => IInv
<1> SUFFICES ASSUME Init
             PROVE  IInv
  OBVIOUS
<1>1. Fresh({}) \in Thread
  BY FreshOK, ClosingAssumption
<1>2. MaxDecisions \in Nat /\ MaxCrashes \in Nat /\ MaxErrors \in Nat
  BY ClosingAssumption
<1>3. CaseOK /\ DiscordOK
  BY <1>1, <1>2 DEF Init, CaseOK, DiscordOK, Receipt
<1>4. CloserOK /\ ForgetOK
  BY DEF Init, CloserOK, ForgetOK, Idle, Quiet, Place
<1>5. /\ notices \in [Verdict -> 0..MaxDecisions]
      /\ crashes \in 0..MaxCrashes /\ errors \in 0..MaxErrors
  BY <1>2 DEF Init
<1>7. reopening \in BOOLEAN
  BY DEF Init
<1>6. Working /\ MakesForNone /\ AtMostOne
  BY DEF Init, Working, MakesForNone, AtMostOne, Idle
<1> QED BY <1>3, <1>4, <1>5, <1>6, <1>7 DEF IInv, TypeOK

(* After a failed call the closing goes on, and never at the making of a
   thread. *)
LEMMA SkipOK ==
  ASSUME closer.at \in DOMAIN After, Skip
  PROVE  \E next \in Place \ {"making"} :
           closer' = [closer EXCEPT !.at = next, !.failed = TRUE]
<1> DEFINE next == IF closer.at = "hooking" /\ closer.told THEN "rendering"
                                                          ELSE After[closer.at]
<1>1. closer.at \in {"validating", "owing", "resetting", "making", "saving",
                    "welcoming", "hooking", "telling", "noticing", "noticed",
                    "posting", "posted", "messaging", "messaged", "rendering"}
  BY DEF After
<1>2. After[closer.at] \in Place \ {"making"}
  BY <1>1 DEF After, Place
<1>3. next \in Place \ {"making"}
  BY <1>2 DEF Place
<1>4. closer' = [closer EXCEPT !.at = next, !.failed = TRUE]
  BY DEF Skip
<1> QED BY <1>3, <1>4

(* Every step preserves the invariant. *)
LEMMA StepIInv == IInv /\ [Next]_vars => IInv'
<1> SUFFICES ASSUME IInv, [Next]_vars
             PROVE  IInv'
  OBVIOUS
<1>0. /\ MaxDecisions \in Nat /\ MaxCrashes \in Nat /\ MaxErrors \in Nat
      /\ None \notin Thread /\ None \notin Verdict /\ Verdict # {}
  BY ClosingAssumption
<1> USE <1>0 DEF IInv, TypeOK, Rest, Goto, Idle, Quiet, discord, Insert, Post,
                 Message, Store, Fault
<1>1. ASSUME NEW v \in Outcome, Close(v)
     PROVE  IInv'
  <2>1. CaseOK'
    <3>1. v \in Verdict /\ case.decision + 1 \in 0..MaxDecisions
      BY <1>1 DEF Close, Outcome, CaseOK
    <3>2. case' = [case EXCEPT !.status = "closed", !.verdict = v,
                               !.decision = case.decision + 1]
      BY <1>1 DEF Close
    <3> QED BY <3>1, <3>2 DEF CaseOK
  <2>2. Working' /\ MakesForNone' /\ AtMostOne'
    BY <1>1 DEF Close, CaseOK, CloserOK, Working, MakesForNone, AtMostOne, Outcome
  <2> QED BY <1>1, <2>1, <2>2 DEF Close, DiscordOK, CloserOK, ForgetOK
<1>2. CASE Reopen
  <2>1. CaseOK'
    BY <1>2 DEF Reopen, CaseOK, CloserOK, ForgetOK, Receipt, Outcome
  <2>2. reopening' \in BOOLEAN /\ crashes' \in 0..MaxCrashes /\ errors' \in 0..MaxErrors
    BY <1>2 DEF Reopen
  <2>3. Working' /\ MakesForNone' /\ AtMostOne'
    BY <1>2 DEF Reopen, CaseOK, CloserOK, Working, MakesForNone, AtMostOne
  <2> QED BY <1>2, <2>1, <2>2, <2>3 DEF Reopen, DiscordOK, CloserOK, ForgetOK
<1>3. CASE FreeNotices
  <2>1. notices' \in [Verdict -> 0..MaxDecisions]
    BY <1>3 DEF FreeNotices, CaseOK
  <2>2. reopening' \in BOOLEAN /\ crashes' \in 0..MaxCrashes /\ errors' \in 0..MaxErrors
    BY <1>3 DEF FreeNotices
  <2>3. Working' /\ MakesForNone' /\ AtMostOne'
    BY <1>3 DEF FreeNotices, CaseOK, CloserOK, Working, MakesForNone, AtMostOne
  <2> QED BY <1>3, <2>1, <2>2, <2>3 DEF FreeNotices, CaseOK, DiscordOK,
                CloserOK, ForgetOK
<1>4. ASSUME NEW t \in Thread, DeleteThread(t)
     PROVE  IInv'
  <2>1. DiscordOK'
    BY <1>4 DEF DeleteThread, Forgetter, DiscordOK, CaseOK, CloserOK, Working, Decision
  <2>2. ForgetOK'
    <3>1. CASE UNCHANGED forget
      BY <3>1 DEF ForgetOK
    <3>2. ASSUME NEW h \in Handler,
                 forget' = [forget EXCEPT ![h] = [Quiet EXCEPT !.at = "called",
                                                               !.thread = t]]
          PROVE  ForgetOK'
      BY <3>2 DEF ForgetOK, Forgetter
    <3> QED BY <1>4, <3>1, <3>2 DEF DeleteThread
  <2>3. Working' /\ MakesForNone' /\ AtMostOne'
    BY <1>4 DEF DeleteThread, Forgetter, CaseOK, CloserOK, Working,
            MakesForNone, AtMostOne
  <2> QED BY <1>4, <2>1, <2>2, <2>3 DEF DeleteThread, Forgetter, CaseOK, CloserOK
<1>5. ASSUME NEW p \in Forgetter, ForgetRead(p)
     PROVE  IInv'
  <2>1. ForgetOK'
    <3>1. CASE case.thread = forget[p].thread
      <4>1. forget' = [forget EXCEPT ![p] =
              [forget[p] EXCEPT !.at = "writing",
                                !.receipt = case.receipt \ {"thread"}]]
        BY <1>5, <3>1 DEF ForgetRead
      <4>2. case.receipt \ {"thread"} \in SUBSET Receipt
        BY DEF CaseOK
      <4> QED BY <4>1, <4>2 DEF ForgetOK
    <3>2. CASE case.thread # forget[p].thread
      BY <1>5, <3>2 DEF ForgetRead, ForgetOK
    <3> QED BY <3>1, <3>2
  <2>2. Working' /\ MakesForNone' /\ AtMostOne'
    BY <1>5 DEF ForgetRead, CaseOK, CloserOK, Working, MakesForNone, AtMostOne
  <2> QED BY <1>5, <2>1, <2>2 DEF ForgetRead, CaseOK, DiscordOK, CloserOK
<1>6. ASSUME NEW p \in Forgetter, ForgetWrite(p)
     PROVE  IInv'
  <2>1. CaseOK'
    BY <1>6 DEF ForgetWrite, CaseOK, CloserOK, ForgetOK, Receipt, Outcome
  <2>2. ForgetOK'
    BY <1>6 DEF ForgetWrite, CaseOK, CloserOK, ForgetOK, Receipt, Forgetter
  <2>3. Working' /\ MakesForNone' /\ AtMostOne'
    BY <1>6 DEF ForgetWrite, CaseOK, CloserOK, Working, MakesForNone, AtMostOne
  <2> QED BY <1>6, <2>1, <2>2, <2>3 DEF ForgetWrite, DiscordOK, CloserOK
<1>7. CASE Start
  <2>1. CloserOK'
    BY <1>7 DEF Start, CaseOK, CloserOK, Place, Receipt
  <2>2. Working' /\ MakesForNone' /\ AtMostOne'
    BY <1>7 DEF Start, CaseOK, CloserOK, Working, MakesForNone, AtMostOne
  <2> QED BY <1>7, <2>1, <2>2 DEF Start, CaseOK, DiscordOK, ForgetOK
<1>8. CASE Validate
  <2>1. CloserOK'
    <3>1. CASE closer.thread \in living \union {None}
      BY <1>8, <3>1 DEF Validate, Forgetter, CaseOK, CloserOK, Place, Receipt
    <3>2. CASE ~(closer.thread \in living \union {None})
      BY <1>8, <3>2 DEF Validate, Forgetter, CaseOK, CloserOK, Place, Receipt
    <3> QED BY <3>1, <3>2
  <2>2. ForgetOK'
    <3>1. CASE UNCHANGED forget
      BY <3>1 DEF ForgetOK
    <3>2. CASE forget' = [forget EXCEPT ![Closer] =
                 [Quiet EXCEPT !.at = "called", !.thread = closer.thread]]
      BY <3>2 DEF ForgetOK, CloserOK, Forgetter
    <3> QED BY <1>8, <3>1, <3>2 DEF Validate
  <2>3. Working' /\ MakesForNone' /\ AtMostOne'
    BY <1>8 DEF Validate, Forgetter, CaseOK, CloserOK, Working, MakesForNone, AtMostOne
  <2> QED BY <1>8, <2>1, <2>2, <2>3 DEF Validate, Forgetter, CaseOK, DiscordOK
<1>9. CASE Forgotten
  <2>1. CloserOK'
    BY <1>9 DEF Forgotten, CaseOK, CloserOK, Place, Receipt
  <2>2. Working' /\ MakesForNone' /\ AtMostOne'
    BY <1>9 DEF Forgotten, CaseOK, CloserOK, Working, MakesForNone, AtMostOne
  <2> QED BY <1>9, <2>1, <2>2 DEF Forgotten, CaseOK, DiscordOK, ForgetOK
<1>10. CASE Owe
  <2>1. CloserOK'
    <3>1. CASE case.thread # None /\ case.ready
      BY <1>10, <3>1 DEF Owe, CaseOK, CloserOK, Place, Receipt
    <3>2. CASE ~(case.thread # None /\ case.ready)
      <4> DEFINE kept == IF case.thread = None THEN case.receipt \ {"thread"}
                                               ELSE case.receipt
      <4>1. kept \in SUBSET Receipt /\ case.thread \in Thread \union {None}
        BY DEF CaseOK
      <4>2. closer' = [closer EXCEPT !.at = "resetting", !.thread = case.thread,
                                     !.receipt = kept]
        BY <1>10, <3>2 DEF Owe
      <4> HIDE DEF kept
      <4> QED BY <4>1, <4>2 DEF CloserOK, Place
    <3> QED BY <3>1, <3>2
  <2>2. Working' /\ MakesForNone' /\ AtMostOne'
    BY <1>10 DEF Owe, CaseOK, CloserOK, Working, MakesForNone, AtMostOne
  <2> QED BY <1>10, <2>1, <2>2 DEF Owe, CaseOK, DiscordOK, ForgetOK
<1>11. CASE Reset
  <2>1. CaseOK'
    BY <1>11 DEF Reset, CaseOK, CloserOK, ForgetOK, Receipt, Outcome
  <2>2. CloserOK'
    BY <1>11 DEF Reset, CaseOK, CloserOK, Place, Receipt
  <2>3. Working' /\ MakesForNone' /\ AtMostOne'
    BY <1>11 DEF Reset, CaseOK, CloserOK, Working, MakesForNone, AtMostOne
  <2> QED BY <1>11, <2>1, <2>2, <2>3 DEF Reset, DiscordOK, ForgetOK
<1>12. CASE Make
  <2>1. UNCHANGED <<case, notices, posted, dms, forget, reopening, crashes, errors>>
    BY <1>12 DEF Make
  <2>2. /\ living' \subseteq used' /\ used' \subseteq Thread /\ AtMostOne'
        /\ CloserOK' /\ closer'.at = "saving"
    <3>1. CASE closer.thread # None
      <4>1. closer' = [closer EXCEPT !.at = "saving"] /\ UNCHANGED <<living, used>>
        BY <1>12, <3>1 DEF Make
      <4> QED BY <4>1 DEF AtMostOne, CloserOK, DiscordOK, Place
    <3>2. CASE closer.thread = None /\ living # {}
      <4>1. living \ {case.thread} = living
        BY <1>12, <3>2 DEF Make, MakesForNone, DiscordOK
      <4>2. PICK t \in living :
              /\ living' = living \union {t} /\ used' = used \union {t}
              /\ closer' = [closer EXCEPT !.at = "saving", !.thread = t]
        BY <1>12, <3>2, <4>1 DEF Make
      <4> QED BY <4>2 DEF AtMostOne, CloserOK, DiscordOK, Place
    <3>3. CASE closer.thread = None /\ living = {}
      <4>1. /\ used # Thread /\ living' = {Fresh(used)}
            /\ used' = used \union {Fresh(used)}
            /\ closer' = [closer EXCEPT !.at = "saving", !.thread = Fresh(used)]
        BY <1>12, <3>3 DEF Make
      <4>2. Fresh(used) \in Thread
        BY <4>1, FreshOK DEF DiscordOK
      <4> QED BY <4>1, <4>2 DEF AtMostOne, CloserOK, DiscordOK, Place
    <3> QED BY <3>1, <3>2, <3>3
  <2>3. Working' /\ MakesForNone'
    BY <1>12, <2>1, <2>2 DEF Make, Working, MakesForNone
  <2> QED BY <2>1, <2>2, <2>3 DEF CaseOK, DiscordOK, ForgetOK
<1>13. CASE SaveThread
  <2>1. CaseOK'
    BY <1>13 DEF SaveThread, CaseOK, CloserOK, ForgetOK, Receipt, Outcome
  <2>2. CloserOK'
    BY <1>13 DEF SaveThread, CaseOK, CloserOK, Place, Receipt
  <2>3. Working' /\ MakesForNone' /\ AtMostOne'
    BY <1>13 DEF SaveThread, CaseOK, CloserOK, Working, MakesForNone, AtMostOne
  <2> QED BY <1>13, <2>1, <2>2, <2>3 DEF SaveThread, DiscordOK, ForgetOK
<1>14. CASE Welcome
  <2>1. CaseOK'
    BY <1>14 DEF Welcome, CaseOK, CloserOK, ForgetOK, Receipt, Outcome
  <2>2. CloserOK'
    BY <1>14 DEF Welcome, CaseOK, CloserOK, Place, Receipt
  <2>3. Working' /\ MakesForNone' /\ AtMostOne'
    BY <1>14 DEF Welcome, CaseOK, CloserOK, Working, MakesForNone, AtMostOne
  <2> QED BY <1>14, <2>1, <2>2, <2>3 DEF Welcome, DiscordOK, ForgetOK
<1>15. CASE ReadAgain
  <2> DEFINE next == IF ~case.hooked THEN "hooking"
                     ELSE IF case.told THEN "rendering" ELSE "telling"
  <2>1. next \in Place \ {"making", "idle"}
    BY DEF Place
  <2>2. closer.at = "reading" /\ case.told \in BOOLEAN
    BY <1>15 DEF ReadAgain, CaseOK
  <2>3. \/ closer' = Idle
        \/ closer' = [closer EXCEPT !.told = case.told, !.at = next]
    BY <1>15 DEF ReadAgain
  <2> HIDE DEF next
  <2>4. CloserOK' /\ closer'.at # "making"
    <3>1. CASE closer' = Idle
      BY <3>1 DEF CloserOK, Place
    <3>2. CASE closer' = [closer EXCEPT !.told = case.told, !.at = next]
      BY <2>1, <2>2, <3>2 DEF CloserOK
    <3> QED BY <2>3, <3>1, <3>2
  <2>5. UNCHANGED <<case, notices, discord, forget, reopening, crashes, errors>>
    BY <1>15 DEF ReadAgain
  <2>6. Working' /\ MakesForNone' /\ AtMostOne'
    BY <2>2, <2>4, <2>5 DEF Working, MakesForNone, AtMostOne
  <2> QED BY <2>4, <2>5, <2>6 DEF CaseOK, DiscordOK, ForgetOK
<1>16. CASE Hook
  <2>1. CaseOK'
    BY <1>16 DEF Hook, CaseOK, CloserOK, ForgetOK, Receipt, Outcome
  <2>2. CloserOK'
    BY <1>16 DEF Hook, CaseOK, CloserOK, Place, Receipt
  <2>3. Working' /\ MakesForNone' /\ AtMostOne'
    BY <1>16 DEF Hook, CaseOK, CloserOK, Working, MakesForNone, AtMostOne
  <2> QED BY <1>16, <2>1, <2>2, <2>3 DEF Hook, DiscordOK, ForgetOK
<1>17. CASE Tell
  <2>1. CloserOK'
    BY <1>17 DEF Tell, CaseOK, CloserOK, Place, Receipt
  <2>2. Working' /\ MakesForNone' /\ AtMostOne'
    BY <1>17 DEF Tell, CaseOK, CloserOK, Working, MakesForNone, AtMostOne
  <2> QED BY <1>17, <2>1, <2>2 DEF Tell, CaseOK, DiscordOK, ForgetOK
<1>18. CASE SendNotice
  <2>1. CloserOK'
    <3>1. CASE "notice" \in closer.receipt
      BY <1>18, <3>1 DEF SendNotice, CaseOK, CloserOK, Place, Receipt
    <3>2. CASE ~("notice" \in closer.receipt)
      <4>1. closer.receipt \union {"notice"} \in SUBSET Receipt
        BY DEF CloserOK, Receipt
      <4>2. closer' = [closer EXCEPT !.at = "noticed",
                                     !.receipt = closer.receipt \union {"notice"}]
        BY <1>18, <3>2 DEF SendNotice
      <4> QED BY <4>1, <4>2 DEF CloserOK, Place
    <3> QED BY <3>1, <3>2
  <2>2. notices' \in [Verdict -> 0..MaxDecisions]
    BY <1>18 DEF SendNotice, CaseOK
  <2>3. Working' /\ MakesForNone' /\ AtMostOne'
    BY <1>18 DEF SendNotice, CaseOK, CloserOK, Working, MakesForNone, AtMostOne
  <2> QED BY <1>18, <2>1, <2>2, <2>3 DEF SendNotice, CaseOK, DiscordOK, ForgetOK
<1>19. CASE SendThread
  <2>1. CloserOK'
    <3>1. CASE "thread" \in closer.receipt
      BY <1>19, <3>1 DEF SendThread, CaseOK, CloserOK, Place, Receipt
    <3>2. CASE ~("thread" \in closer.receipt)
      <4>1. closer.receipt \union {"thread"} \in SUBSET Receipt
        BY DEF CloserOK, Receipt
      <4>2. closer' = [closer EXCEPT !.at = "posted",
                                     !.receipt = closer.receipt \union {"thread"}]
        BY <1>19, <3>2 DEF SendThread
      <4> QED BY <4>1, <4>2 DEF CloserOK, Place
    <3> QED BY <3>1, <3>2
  <2>2. DiscordOK'
    BY <1>19 DEF SendThread, DiscordOK, CaseOK, CloserOK, Working, Decision
  <2>3. Working' /\ MakesForNone' /\ AtMostOne'
    BY <1>19 DEF SendThread, CaseOK, CloserOK, Working, MakesForNone, AtMostOne
  <2> QED BY <1>19, <2>1, <2>2, <2>3 DEF SendThread, CaseOK, ForgetOK
<1>20. CASE SendDm
  <2>1. CloserOK'
    <3>1. CASE closer.receipt \intersect {"dm", "dm_unavailable"} # {}
      BY <1>20, <3>1 DEF SendDm, CaseOK, CloserOK, Place, Receipt
    <3>2. CASE ~(closer.receipt \intersect {"dm", "dm_unavailable"} # {})
      <4>1. PICK answer \in {"dm", "dm_unavailable"} :
              closer' = [closer EXCEPT !.at = "messaged",
                                       !.receipt = closer.receipt \union {answer}]
        BY <1>20, <3>2 DEF SendDm
      <4>2. closer.receipt \union {answer} \in SUBSET Receipt
        BY DEF CloserOK, Receipt
      <4> QED BY <4>1, <4>2 DEF CloserOK, Place
    <3> QED BY <3>1, <3>2
  <2>2. DiscordOK'
    <3>1. CASE UNCHANGED dms
      BY <1>20, <3>1 DEF SendDm, DiscordOK
    <3>2. CASE dms' = [dms EXCEPT ![case.decision] = dms[case.decision] + 1]
      <4>1. CASE case.decision \in Decision
        BY <1>20, <3>2, <4>1 DEF SendDm, DiscordOK
      <4>2. CASE case.decision \notin Decision
        <5>1. dms' = dms
          BY <3>2, <4>2 DEF DiscordOK
        <5> QED BY <1>20, <5>1 DEF SendDm, DiscordOK
      <4> QED BY <4>1, <4>2
    <3> QED BY <1>20, <3>1, <3>2 DEF SendDm
  <2>3. Working' /\ MakesForNone' /\ AtMostOne'
    BY <1>20 DEF SendDm, CaseOK, CloserOK, Working, MakesForNone, AtMostOne
  <2> QED BY <1>20, <2>1, <2>2, <2>3 DEF SendDm, CaseOK, ForgetOK
<1>21. CASE Record
  <2>1. CaseOK'
    BY <1>21 DEF Record, CaseOK, CloserOK, ForgetOK, Receipt, Outcome
  <2>2. CloserOK'
    BY <1>21 DEF Record, CaseOK, CloserOK, Place, Receipt
  <2>3. Working' /\ MakesForNone' /\ AtMostOne'
    BY <1>21 DEF Record, CaseOK, CloserOK, Working, MakesForNone, AtMostOne
  <2> QED BY <1>21, <2>1, <2>2, <2>3 DEF Record, DiscordOK, ForgetOK
<1>22. CASE MarkTold
  <2>1. CaseOK'
    BY <1>22 DEF MarkTold, CaseOK, CloserOK, ForgetOK, Receipt, Outcome
  <2>2. CloserOK'
    BY <1>22 DEF MarkTold, CaseOK, CloserOK, Place, Receipt
  <2>3. Working' /\ MakesForNone' /\ AtMostOne'
    BY <1>22 DEF MarkTold, CaseOK, CloserOK, Working, MakesForNone, AtMostOne
  <2> QED BY <1>22, <2>1, <2>2, <2>3 DEF MarkTold, DiscordOK, ForgetOK
<1>23. CASE Render
  <2>1. CloserOK'
    BY <1>23 DEF Render, CaseOK, CloserOK, Place, Receipt
  <2>2. Working' /\ MakesForNone' /\ AtMostOne'
    BY <1>23 DEF Render, CaseOK, CloserOK, Working, MakesForNone, AtMostOne
  <2> QED BY <1>23, <2>1, <2>2 DEF Render, CaseOK, DiscordOK, ForgetOK
<1>24. CASE MarkDone
  <2>1. CaseOK'
    BY <1>24 DEF MarkDone, CaseOK, CloserOK, ForgetOK, Receipt, Outcome
  <2>2. CloserOK'
    BY <1>24 DEF MarkDone, CaseOK, CloserOK, Place, Receipt
  <2>3. Working' /\ MakesForNone' /\ AtMostOne'
    BY <1>24 DEF MarkDone, CaseOK, CloserOK, Working, MakesForNone, AtMostOne
  <2> QED BY <1>24, <2>1, <2>2, <2>3 DEF MarkDone, DiscordOK, ForgetOK
<1>25. CASE ThreadGone
  <2>1. CloserOK'
    <3>1. PICK next \in Place :
            closer' = [closer EXCEPT !.at = next, !.failed = TRUE]
      BY <1>25, SkipOK DEF ThreadGone, After
    <3> QED BY <3>1 DEF CloserOK
  <2>2. Working' /\ MakesForNone' /\ AtMostOne'
    BY <1>25 DEF ThreadGone, Skip, After, CaseOK, CloserOK, Working,
            MakesForNone, AtMostOne
  <2> QED BY <1>25, <2>1, <2>2 DEF ThreadGone, Skip, After, CaseOK, DiscordOK, ForgetOK
<1>26. CASE Fail \/ AnswerLost
  <2>1. PICK next \in Place \ {"making"} :
          closer' = [closer EXCEPT !.at = next, !.failed = TRUE]
    BY <1>26, SkipOK DEF Fail, AnswerLost
  <2>2. CloserOK' /\ closer'.at # "making" /\ closer.at # "idle"
    BY <1>26, <2>1 DEF CloserOK, Fail, AnswerLost, After
  <2>3. /\ UNCHANGED forget
        /\ reopening' \in BOOLEAN /\ crashes' \in 0..MaxCrashes
        /\ errors' \in 0..MaxErrors
    BY <1>26 DEF Fail, AnswerLost
  <2>4. CaseOK' /\ case'.status = case.status /\ case'.verdict = case.verdict
    BY <1>26 DEF Fail, AnswerLost, CaseOK, CloserOK
  <2>5. notices' \in [Verdict -> 0..MaxDecisions]
    BY <1>26 DEF Fail, AnswerLost, CaseOK
  <2>6. DiscordOK' /\ AtMostOne'
    <3>1. CASE UNCHANGED discord
      BY <3>1 DEF DiscordOK, AtMostOne
    <3>2. CASE /\ closer.at = "making" /\ closer.thread = None
               /\ living \ {case.thread} = {} /\ Create
      <4>1. living = {} /\ used # Thread
        BY <3>2 DEF MakesForNone, DiscordOK, Create
      <4>2. Fresh(used) \in Thread
        BY <4>1, FreshOK DEF DiscordOK
      <4> QED BY <3>2, <4>1, <4>2 DEF Create, DiscordOK, AtMostOne
    <3>3. CASE Post /\ UNCHANGED <<living, used, dms>>
      <4>1. case.verdict \in Verdict
        BY <2>2 DEF Working
      <4> QED BY <3>3, <4>1 DEF DiscordOK, AtMostOne
    <3>4. CASE Message /\ UNCHANGED <<living, used, posted>>
      <4>1. dms' \in [Decision -> Nat]
        <5>1. dms' = [dms EXCEPT ![case.decision] = dms[case.decision] + 1]
          BY <3>4
        <5>2. CASE case.decision \in Decision
          BY <5>1, <5>2 DEF DiscordOK
        <5>3. CASE case.decision \notin Decision
          BY <5>1, <5>3 DEF DiscordOK
        <5> QED BY <5>2, <5>3
      <4> QED BY <3>4, <4>1 DEF DiscordOK, AtMostOne
    <3> QED BY <1>26, <3>1, <3>2, <3>3, <3>4 DEF Fail, AnswerLost
  <2>7. Working' /\ MakesForNone'
    BY <2>2, <2>4 DEF Working, MakesForNone
  <2> QED BY <2>2, <2>3, <2>4, <2>5, <2>6, <2>7 DEF ForgetOK
<1>29. CASE Abort
  <2>1. CloserOK' /\ Working' /\ MakesForNone' /\ AtMostOne'
    BY <1>29 DEF Abort, CloserOK, Place, Receipt, Working, MakesForNone, AtMostOne
  <2> QED BY <1>29, <2>1 DEF Abort, CaseOK, DiscordOK, ForgetOK
<1>30. ASSUME NEW p \in Forgetter, ForgetFails(p)
       PROVE  IInv'
  <2>1. ForgetOK'
    BY <1>30 DEF ForgetFails, ForgetOK, Receipt
  <2>2. CloserOK' /\ closer'.at = closer.at /\ closer'.thread = closer.thread
    <3>1. closer' = [closer EXCEPT !.failed = closer.failed \/ p = Closer]
      BY <1>30 DEF ForgetFails
    <3>2. (closer.failed \/ p = Closer) \in BOOLEAN
      OBVIOUS
    <3> QED BY <3>1, <3>2 DEF CloserOK
  <2>3. Working' /\ MakesForNone' /\ AtMostOne'
    BY <1>30, <2>2 DEF ForgetFails, Working, MakesForNone, AtMostOne
  <2> QED BY <1>30, <2>1, <2>2, <2>3 DEF ForgetFails, CaseOK, DiscordOK
<1>27. CASE Crash
  <2>1. CloserOK'
    BY <1>27 DEF Crash, CaseOK, CloserOK, Place, Receipt
  <2>2. ForgetOK'
    BY <1>27 DEF Crash, CaseOK, CloserOK, ForgetOK, Receipt, Forgetter
  <2>3. reopening' \in BOOLEAN /\ crashes' \in 0..MaxCrashes /\ errors' \in 0..MaxErrors
    <3>1. crashes + 1 \in 0..MaxCrashes
      BY <1>27 DEF Crash
    <3> QED BY <1>27, <3>1 DEF Crash
  <2>4. Working' /\ MakesForNone' /\ AtMostOne'
    BY <1>27 DEF Crash, CaseOK, CloserOK, Working, MakesForNone, AtMostOne
  <2> QED BY <1>27, <2>1, <2>2, <2>3, <2>4 DEF Crash, CaseOK, DiscordOK
<1>28. CASE UNCHANGED vars
  <2>1. Working' /\ MakesForNone' /\ AtMostOne'
    BY <1>28 DEF vars, CaseOK, CloserOK, Working, MakesForNone, AtMostOne
  <2> QED BY <1>28, <2>1 DEF vars, CaseOK, DiscordOK, CloserOK, ForgetOK
<1> QED
  BY <1>1, <1>2, <1>3, <1>4, <1>5, <1>6, <1>7, <1>8, <1>9, <1>10, <1>11,
     <1>12, <1>13, <1>14, <1>15, <1>16, <1>17, <1>18, <1>19, <1>20, <1>21,
     <1>22, <1>23, <1>24, <1>25, <1>26, <1>27, <1>28, <1>29, <1>30
  DEF Next, CloserStep, ForgetStep

(* TypeOK: finish_close, reopen and thread_deleted keep every variable in its
   type, whatever is interrupted or fails. *)
THEOREM TypeCorrect == Spec => []TypeOK
<1>1. Init => IInv
  BY InitIInv
<1>2. IInv /\ [Next]_vars => IInv'
  BY StepIInv
<1>3. IInv => TypeOK
  BY DEF IInv
<1> QED BY <1>1, <1>2, <1>3, PTL DEF Spec

(* OneThread: the person of a case never has two living threads: what an
   earlier attempt created and did not record is adopted (_private_thread). *)
THEOREM OneThreadSafe == Spec => []OneThread
<1>1. IInv => OneThread
  <2> SUFFICES ASSUME AtMostOne
               PROVE  Cardinality(living) <= 1
    BY DEF IInv, OneThread
  <2>1. CASE living = {}
    BY <2>1, FS_EmptySet
  <2>2. ASSUME NEW t \in living
        PROVE  Cardinality(living) = 1
    <3>1. living = {t}
      BY <2>2 DEF AtMostOne
    <3> QED BY <3>1, FS_Singleton
  <2> QED BY <2>1, <2>2
<1> QED BY <1>1, InitIInv, StepIInv, PTL DEF Spec
-----------------------------------------------------------------------------
(* Direct messages.  What they are charged to: the first one, each death of  *)
(* the bot, each failed call, and each deleted thread whose deletion has     *)
(* been dealt with.                                                          *)

NoDm(receipt) == receipt \intersect {"dm", "dm_unavailable"} = {}

Pending(p) == forget[p].at # "quiet"

(* Deletions that are over: no event of them is still being handled. *)
Spent == {t \in used \ living :
            \A h \in Handler : Pending(h) => forget[h].thread # t}

Budget == 1 + crashes + errors + Cardinality(Spent)

(* No receipt of a direct message is stored, or finish_close or its own
   thread_deleted may yet store receipts without one. *)
Lacks ==
  \/ closer.at # "messaged" /\ NoDm(case.receipt)
  \/ /\ closer.at \in {"resetting", "noticing", "noticed", "posting", "posted",
                       "messaging"}
     /\ NoDm(closer.receipt)
  \/ forget[Closer].at = "writing" /\ NoDm(forget[Closer].receipt)

(* Every event the gateway delivers is about a dead thread of its own. *)
Deletions ==
  /\ \A h \in Handler : Pending(h) => forget[h].thread \in used \ living
  /\ \A g, h \in Handler :
       Pending(g) /\ Pending(h) /\ forget[g].thread = forget[h].thread => g = h

Waiting == Pending(Closer) => closer.at = "forgetting"

Answered == closer.at = "messaged" => ~NoDm(closer.receipt)

(* A message that may still be repeated has been paid for in advance. *)
Accounted ==
  /\ \A d \in Decision : d > case.decision => dms[d] = 0
  /\ \A d \in Decision : dms[d] <= Budget
  /\ case.status = "closed" =>
       /\ case.decision \in Decision
       /\ Lacks => dms[case.decision] < Budget

RepeatInv == Deletions /\ Waiting /\ Answered /\ Accounted

(* The deletions that are over can be counted: every thread had an id. *)
LEMMA SpentFinite ==
  ASSUME TypeOK, IsFiniteSet(used)
  PROVE  /\ IsFiniteSet(Spent) /\ Cardinality(Spent) \in Nat /\ Budget \in Nat
         /\ \A S \in SUBSET used : IsFiniteSet(S) /\ Cardinality(S) \in Nat
<1>1. \A S \in SUBSET used : IsFiniteSet(S) /\ Cardinality(S) \in Nat
  BY FS_Subset, FS_CardinalityType
<1>2. crashes \in Nat /\ errors \in Nat /\ Spent \subseteq used
  BY ClosingAssumption DEF TypeOK, Spent
<1> QED BY <1>1, <1>2 DEF Budget

(* Threads come one at a time. *)
LEMMA UsedFinite == Spec => []IsFiniteSet(used)
<1>1. Init => IsFiniteSet(used)
  BY FS_Singleton DEF Init
<1>2. IsFiniteSet(used) /\ [Next]_vars => IsFiniteSet(used)'
  <2> SUFFICES ASSUME IsFiniteSet(used), [Next]_vars
               PROVE  IsFiniteSet(used)'
    OBVIOUS
  <2>1. CASE Make \/ AnswerLost
    <3>1. \/ used' = used
          \/ \E t : used' = used \union {t}
      BY <2>1 DEF Make, AnswerLost, Create, discord
    <3> QED BY <3>1, FS_AddElement
  <2>2. CASE UNCHANGED used
    BY <2>2
  <2> QED
    BY <2>1, <2>2
    DEF Next, CloserStep, ForgetStep, Close, Reopen, FreeNotices, DeleteThread,
        ForgetRead, ForgetWrite, Start, Validate, Forgotten, Owe, Reset,
        SaveThread, Welcome, ReadAgain, Hook, Tell, SendNotice, SendThread,
        SendDm, Record, MarkTold, Render, MarkDone, ThreadGone, Fail, Abort,
        ForgetFails, Crash, discord, vars
<1> QED BY <1>1, <1>2, PTL DEF Spec

(* The account survives a step that sends nothing, takes nothing back and pays
   for each message it makes possible again. *)
LEMMA AccountStep ==
  ASSUME TypeOK, TypeOK', IsFiniteSet(used), IsFiniteSet(used)', Accounted,
         dms' = dms, case'.decision = case.decision,
         case'.status = "closed" => case.status = "closed",
         Spent \subseteq Spent', crashes' >= crashes, errors' >= errors,
         \/ Lacks' => Lacks
         \/ crashes' > crashes \/ errors' > errors \/ Spent' # Spent
  PROVE  Accounted'
<1>1. /\ Budget \in Nat /\ Cardinality(Spent) \in Nat /\ IsFiniteSet(Spent)
  BY SpentFinite
<1>2. {crashes, crashes', errors, errors'} \subseteq Nat
  BY ClosingAssumption DEF TypeOK
<1>3. IsFiniteSet(Spent') /\ Cardinality(Spent') \in Nat
  <2>1. Spent' \subseteq used'
    BY DEF Spent
  <2> QED BY <2>1, FS_Subset, FS_CardinalityType
<1>4. Cardinality(Spent) <= Cardinality(Spent')
  BY <1>3, FS_Subset
<1>5. Spent' # Spent => Cardinality(Spent) < Cardinality(Spent')
  BY <1>1, <1>4, <1>3, FS_Subset
<1>6. /\ Budget <= Budget' /\ Budget' \in Nat
      /\ Lacks' /\ ~Lacks => Budget < Budget'
  BY <1>1, <1>2, <1>4, <1>5, <1>3 DEF Budget
<1>7. \A d \in Decision : dms[d] \in Nat
  BY DEF TypeOK, DiscordOK
<1> QED BY <1>1, <1>6, <1>7 DEF Accounted

(* A step that only moves finish_close on, or reopens the case. *)
LEMMA QuietRepeat ==
  ASSUME TypeOK, TypeOK', IsFiniteSet(used), RepeatInv,
         UNCHANGED <<living, used, dms, forget, crashes, errors>>,
         case'.decision = case.decision,
         case'.status = "closed" => case.status = "closed",
         Lacks' => Lacks, Waiting', Answered'
  PROVE  RepeatInv'
<1>1. Spent' = Spent /\ crashes \in Nat /\ errors \in Nat
  BY ClosingAssumption DEF Spent, Pending, TypeOK
<1>2. Accounted'
  BY <1>1, AccountStep DEF RepeatInv
<1>3. Deletions'
  BY DEF RepeatInv, Deletions, Pending
<1> QED BY <1>2, <1>3 DEF RepeatInv

(* Where finish_close goes on after a failed call. *)
LEMMA SkipWhere ==
  ASSUME TypeOK, closer.at \in DOMAIN After, Skip
  PROVE  \E next \in {"owing", "reading", "telling", "posting", "messaging",
                      "told", "rendering", "marking"} :
           /\ closer' = [closer EXCEPT !.at = next, !.failed = TRUE]
           /\ next = "posting" => closer.at \in {"noticing", "noticed"}
           /\ next = "messaging" => closer.at \in {"posting", "posted"}
           /\ next = "reading" => closer.at \in {"owing", "resetting", "making",
                                                 "saving", "welcoming"}
           /\ next = "owing" => closer.at = "validating"
           /\ next = "telling" => closer.at = "hooking"
           /\ closer.at \notin {"idle", "forgetting"}
<1> DEFINE next == IF closer.at = "hooking" /\ closer.told THEN "rendering"
                                                          ELSE After[closer.at]
<1>1. closer.at \in {"validating", "owing", "resetting", "making", "saving",
                    "welcoming", "hooking", "telling", "noticing", "noticed",
                    "posting", "posted", "messaging", "messaged", "rendering"}
  BY DEF After
<1>2. /\ next \in {"owing", "reading", "telling", "posting", "messaging",
                   "told", "rendering", "marking"}
      /\ next = "posting" => closer.at \in {"noticing", "noticed"}
      /\ next = "messaging" => closer.at \in {"posting", "posted"}
      /\ next = "reading" => closer.at \in {"owing", "resetting", "making",
                                            "saving", "welcoming"}
      /\ next = "owing" => closer.at = "validating"
      /\ next = "telling" => closer.at = "hooking"
  BY <1>1 DEF After
<1>3. closer' = [closer EXCEPT !.at = next, !.failed = TRUE]
  BY DEF Skip
<1> QED BY <1>1, <1>2, <1>3

(* The steps of finish_close that send no direct message. *)
LEMMA CloserRepeat ==
  ASSUME TypeOK, TypeOK', IsFiniteSet(used), RepeatInv,
         \/ Start \/ Forgotten \/ Owe \/ Reset \/ SaveThread \/ Welcome
         \/ ReadAgain \/ Hook \/ Tell \/ SendNotice \/ SendThread \/ Record
         \/ MarkTold \/ Render \/ MarkDone \/ ThreadGone
  PROVE  RepeatInv'
<1> USE DEF Rest, Goto, discord, Insert, Post, Store
<1> DEFINE Frame ==
      /\ UNCHANGED <<living, used, dms, forget, crashes, errors>>
      /\ case'.decision = case.decision /\ case'.status = case.status
<1>1. ASSUME Frame, Lacks' => Lacks, Answered',
             closer.at = "forgetting" => forget[Closer] = Quiet
      PROVE  RepeatInv'
  <2>1. Waiting'
    BY <1>1 DEF Waiting, Pending, Quiet, RepeatInv
  <2> QED BY <1>1, <2>1, QuietRepeat
<1> HIDE DEF Frame
<1> USE DEF TypeOK, CaseOK, CloserOK
<1>2. CASE Start
  <2>1. Frame /\ closer.at = "idle"
    BY <1>2 DEF Start, Frame
  <2>2. (Lacks' => Lacks) /\ Answered'
    BY <1>2, <2>1 DEF Start, Idle, Lacks, Answered, Frame
  <2> QED BY <1>1, <2>1, <2>2
<1>3. CASE Forgotten
  <2>1. Frame /\ closer.at = "forgetting" /\ forget[Closer] = Quiet
    BY <1>3 DEF Forgotten, Frame
  <2>2. (Lacks' => Lacks) /\ Answered'
    BY <1>3, <2>1 DEF Forgotten, Lacks, Answered, Frame
  <2> QED BY <1>1, <2>1, <2>2
<1>4. CASE Owe
  <2>1. Frame /\ closer.at = "owing"
    BY <1>4 DEF Owe, Frame
  <2>2. \/ closer' = [closer EXCEPT !.at = "reading"]
        \/ \E kept \in {case.receipt, case.receipt \ {"thread"}} :
             closer' = [closer EXCEPT !.at = "resetting", !.thread = case.thread,
                                      !.receipt = kept]
    BY <1>4 DEF Owe
  <2>3. /\ closer'.at \in {"reading", "resetting"}
        /\ closer'.at = "resetting" /\ NoDm(closer'.receipt) => NoDm(case.receipt)
    <3>1. CASE closer' = [closer EXCEPT !.at = "reading"]
      BY <3>1
    <3>2. ASSUME NEW kept \in {case.receipt, case.receipt \ {"thread"}},
                 closer' = [closer EXCEPT !.at = "resetting", !.thread = case.thread,
                                          !.receipt = kept]
          PROVE  /\ closer'.at = "resetting"
                 /\ NoDm(closer'.receipt) => NoDm(case.receipt)
      <4>1. NoDm(kept) => NoDm(case.receipt)
        BY DEF NoDm
      <4>2. closer'.at = "resetting" /\ closer'.receipt = kept
        BY <3>2
      <4> QED BY <4>1, <4>2
    <3> QED BY <2>2, <3>1, <3>2
  <2>4. (Lacks' => Lacks) /\ Answered'
    BY <1>4, <2>1, <2>3 DEF Owe, Lacks, Answered, Frame
  <2> QED BY <1>1, <2>1, <2>4
<1>5. CASE Reset
  <2>1. Frame /\ closer.at = "resetting"
    BY <1>5 DEF Reset, Frame
  <2>2. (Lacks' => Lacks) /\ Answered'
    BY <1>5, <2>1 DEF Reset, Lacks, Answered, Frame
  <2> QED BY <1>1, <2>1, <2>2
<1>6. CASE SaveThread
  <2>1. Frame /\ closer.at = "saving"
    BY <1>6 DEF SaveThread, Frame
  <2>2. (Lacks' => Lacks) /\ Answered'
    BY <1>6, <2>1 DEF SaveThread, Lacks, Answered, Frame
  <2> QED BY <1>1, <2>1, <2>2
<1>7. CASE Welcome
  <2>1. Frame /\ closer.at = "welcoming"
    BY <1>7 DEF Welcome, Frame
  <2>2. (Lacks' => Lacks) /\ Answered'
    BY <1>7, <2>1 DEF Welcome, Lacks, Answered, Frame
  <2> QED BY <1>1, <2>1, <2>2
<1>8. CASE ReadAgain
  <2>1. Frame /\ closer.at = "reading" /\ case' = case
    BY <1>8 DEF ReadAgain, Frame
  <2>2. closer'.at \in {"idle", "hooking", "rendering", "telling"}
    <3> DEFINE next == IF ~case.hooked THEN "hooking"
                       ELSE IF case.told THEN "rendering" ELSE "telling"
    <3>1. next \in {"hooking", "rendering", "telling"}
      OBVIOUS
    <3>2. \/ closer' = Idle
          \/ closer' = [closer EXCEPT !.told = case.told, !.at = next]
      BY <1>8 DEF ReadAgain
    <3> HIDE DEF next
    <3>3. closer'.at \in {"idle", next}
      <4>1. CASE closer' = Idle
        BY <4>1 DEF Idle
      <4>2. CASE closer' = [closer EXCEPT !.told = case.told, !.at = next]
        <5>1. closer'.at = next
          BY <4>2
        <5> QED BY <5>1
      <4> QED BY <3>2, <4>1, <4>2
    <3> QED BY <3>1, <3>3
  <2>3. (Lacks' => Lacks) /\ Answered'
    BY <2>1, <2>2 DEF Lacks, Answered, Frame
  <2> QED BY <1>1, <2>1, <2>3
<1>9. CASE Hook
  <2>1. Frame /\ closer.at = "hooking"
    BY <1>9 DEF Hook, Frame
  <2>2. (Lacks' => Lacks) /\ Answered'
    BY <1>9, <2>1 DEF Hook, Lacks, Answered, Frame
  <2> QED BY <1>1, <2>1, <2>2
<1>10. CASE Tell
  <2>1. Frame /\ closer.at = "telling"
    BY <1>10 DEF Tell, Frame
  <2>2. (Lacks' => Lacks) /\ Answered'
    BY <1>10, <2>1 DEF Tell, Lacks, Answered, Frame
  <2> QED BY <1>1, <2>1, <2>2
<1>11. CASE SendNotice
  <2>1. Frame /\ closer.at = "noticing" /\ case' = case
    BY <1>11 DEF SendNotice, Frame
  <2>2. /\ closer'.at \in {"posting", "noticed"}
        /\ NoDm(closer'.receipt) => NoDm(closer.receipt)
    <3>1. CASE "notice" \in closer.receipt
      BY <1>11, <3>1 DEF SendNotice
    <3>2. CASE "notice" \notin closer.receipt
      <4>1. closer'.at = "noticed" /\ closer'.receipt = closer.receipt \union {"notice"}
        BY <1>11, <3>2 DEF SendNotice
      <4> QED BY <4>1 DEF NoDm
    <3> QED BY <3>1, <3>2
  <2>3. (Lacks' => Lacks) /\ Answered'
    BY <2>1, <2>2 DEF Lacks, Answered, Frame
  <2> QED BY <1>1, <2>1, <2>3
<1>12. CASE SendThread
  <2>1. Frame /\ closer.at = "posting" /\ case' = case
    BY <1>12 DEF SendThread, Frame
  <2>2. /\ closer'.at \in {"posted", "messaging"}
        /\ NoDm(closer'.receipt) => NoDm(closer.receipt)
    <3>1. CASE "thread" \in closer.receipt
      BY <1>12, <3>1 DEF SendThread
    <3>2. CASE "thread" \notin closer.receipt
      <4>1. closer'.at = "posted" /\ closer'.receipt = closer.receipt \union {"thread"}
        BY <1>12, <3>2 DEF SendThread
      <4> QED BY <4>1 DEF NoDm
    <3> QED BY <3>1, <3>2
  <2>3. (Lacks' => Lacks) /\ Answered'
    BY <2>1, <2>2 DEF Lacks, Answered, Frame
  <2> QED BY <1>1, <2>1, <2>3
<1>13. CASE Record
  <2>1. Frame /\ closer.at \in {"noticed", "posted", "messaged"}
    BY <1>13 DEF Record, Frame
  <2>2. /\ case'.receipt = closer.receipt /\ closer'.receipt = closer.receipt
        /\ closer'.at \in {"posting", "messaging", "told"}
        /\ closer.at = "messaged" => closer'.at = "told"
    BY <1>13 DEF Record
  <2>3. (Lacks' => Lacks) /\ Answered'
    BY <2>1, <2>2 DEF Lacks, Answered, Frame, RepeatInv
  <2> QED BY <1>1, <2>1, <2>3
<1>14. CASE MarkTold
  <2>1. Frame /\ closer.at = "told"
    BY <1>14 DEF MarkTold, Frame
  <2>2. (Lacks' => Lacks) /\ Answered'
    BY <1>14, <2>1 DEF MarkTold, Lacks, Answered, Frame
  <2> QED BY <1>1, <2>1, <2>2
<1>15. CASE Render
  <2>1. Frame /\ closer.at = "rendering"
    BY <1>15 DEF Render, Frame
  <2>2. (Lacks' => Lacks) /\ Answered'
    BY <1>15, <2>1 DEF Render, Lacks, Answered, Frame
  <2> QED BY <1>1, <2>1, <2>2
<1>16. CASE MarkDone
  <2>1. Frame /\ closer.at = "marking"
    BY <1>16 DEF MarkDone, Frame
  <2>2. (Lacks' => Lacks) /\ Answered'
    BY <1>16, <2>1 DEF MarkDone, Idle, Lacks, Answered, Frame
  <2> QED BY <1>1, <2>1, <2>2
<1>17. CASE ThreadGone
  <2>1. /\ Frame /\ case' = case /\ closer.at \in DOMAIN After /\ Skip
        /\ closer.at \in {"making", "welcoming", "posting"}
    BY <1>17 DEF ThreadGone, Frame, After
  <2>2. PICK next \in {"owing", "reading", "telling", "posting", "messaging",
                       "told", "rendering", "marking"} :
          /\ closer' = [closer EXCEPT !.at = next, !.failed = TRUE]
          /\ next = "posting" => closer.at \in {"noticing", "noticed"}
          /\ next = "messaging" => closer.at \in {"posting", "posted"}
    BY <2>1, SkipWhere
  <2>3. (Lacks' => Lacks) /\ Answered'
    BY <2>1, <2>2 DEF Lacks, Answered, Frame
  <2> QED BY <1>1, <2>1, <2>2, <2>3
<1> QED BY <1>2, <1>3, <1>4, <1>5, <1>6, <1>7, <1>8, <1>9, <1>10, <1>11, <1>12,
           <1>13, <1>14, <1>15, <1>16, <1>17

(* A deletion is reported, read and written back: when it is over, and it took
   the receipts with it, it pays for the next message. *)
LEMMA ForgetRepeat ==
  ASSUME TypeOK, TypeOK', IsFiniteSet(used), RepeatInv,
         NEW p \in Forgetter, ForgetRead(p) \/ ForgetWrite(p)
  PROVE  RepeatInv'
<1> USE DEF TypeOK, CaseOK, ForgetOK, discord
<1>1. /\ UNCHANGED <<living, used, dms, closer, crashes, errors>>
      /\ crashes \in Nat /\ errors \in Nat
      /\ case'.decision = case.decision /\ case'.status = case.status
      /\ \A q \in Forgetter : q # p => forget'[q] = forget[q]
      /\ forget[p].at # "quiet"
      /\ forget'[p] = Quiet \/ forget'[p].thread = forget[p].thread
  <2>1. crashes \in Nat /\ errors \in Nat
    BY ClosingAssumption
  <2>2. CASE ForgetRead(p)
    <3>1. CASE case.thread = forget[p].thread
      <4>1. forget' = [forget EXCEPT ![p] =
              [forget[p] EXCEPT !.at = "writing",
                                !.receipt = case.receipt \ {"thread"}]]
        BY <2>2, <3>1 DEF ForgetRead
      <4> QED BY <2>1, <2>2, <4>1 DEF ForgetRead
    <3>2. CASE case.thread # forget[p].thread
      <4>1. forget' = [forget EXCEPT ![p] = Quiet]
        BY <2>2, <3>2 DEF ForgetRead
      <4> QED BY <2>1, <2>2, <4>1 DEF ForgetRead
    <3> QED BY <3>1, <3>2
  <2>3. CASE ForgetWrite(p)
    BY <2>1, <2>3 DEF ForgetWrite
  <2> QED BY <2>2, <2>3
<1>2. Closer \notin Handler /\ Handler \subseteq Forgetter /\ Closer \in Forgetter
  BY ClosingAssumption DEF Forgetter
<1>3. \A q \in Forgetter : Pending(q)'
                              => Pending(q) /\ forget'[q].thread = forget[q].thread
  BY <1>1 DEF Pending, Quiet
<1>4. Deletions' /\ Waiting' /\ Answered'
  BY <1>1, <1>2, <1>3 DEF Deletions, Waiting, Answered, RepeatInv
<1>5. Spent \subseteq Spent'
  BY <1>1, <1>2, <1>3 DEF Spent
<1>6. Lacks' => Lacks \/ Spent' # Spent
  <2>1. CASE ForgetRead(p)
    <3>1. /\ case' = case
          /\ forget'[p] = Quiet \/ forget'[p].receipt = case.receipt \ {"thread"}
      BY <2>1 DEF ForgetRead
    <3>2. forget[Closer]'.at = "writing" /\ NoDm(forget'[Closer].receipt) => Lacks
      BY <1>1, <1>2, <3>1 DEF Lacks, NoDm, Quiet, RepeatInv, Waiting, Pending
    <3> QED BY <1>1, <3>1, <3>2 DEF Lacks
  <2>2. CASE ForgetWrite(p) /\ p = Closer
    BY <1>1, <2>2 DEF ForgetWrite, Lacks, NoDm, Quiet
  <2>3. CASE ForgetWrite(p) /\ p \in Handler
    <3>1. forget[p].thread \in Spent' /\ forget[p].thread \notin Spent
      <4>1. Pending(p) /\ ~Pending(p)'
        BY <1>1, <2>3 DEF ForgetWrite, Pending, Quiet
      <4>2. forget[p].thread \in used \ living
        BY <2>3, <4>1 DEF RepeatInv, Deletions
      <4>3. \A h \in Handler : Pending(h)' => forget'[h].thread # forget[p].thread
        BY <1>2, <1>3, <2>3, <4>1 DEF RepeatInv, Deletions
      <4> QED BY <1>1, <2>3, <4>1, <4>2, <4>3 DEF Spent
    <3> QED BY <3>1
  <2> QED BY <1>2, <2>1, <2>2, <2>3 DEF Forgetter
<1>7. Accounted'
  BY <1>1, <1>5, <1>6, AccountStep DEF RepeatInv
<1> QED BY <1>4, <1>7 DEF RepeatInv

(* A failed call pays for the message that it sent without an answer, or whose
   receipt it did not store. *)
LEMMA FaultRepeat ==
  ASSUME IInv, IInv', IsFiniteSet(used), IsFiniteSet(used)', RepeatInv,
         \/ Fail \/ AnswerLost \/ Abort
         \/ \E p \in Forgetter : ForgetFails(p)
  PROVE  RepeatInv'
<1> USE DEF IInv, Fault, discord
<1>1. /\ errors' = errors + 1 /\ crashes' = crashes
      /\ errors \in Nat /\ crashes \in Nat
      /\ Closer \in Forgetter /\ Handler \subseteq Forgetter
  BY ClosingAssumption DEF Fail, AnswerLost, Abort, ForgetFails, TypeOK, Forgetter
<1>2. /\ case'.decision = case.decision /\ case'.status = case.status
      /\ \A p \in Forgetter : Pending(p)' => forget'[p] = forget[p]
  <2>1. CASE Fail \/ AnswerLost \/ Abort
    BY <2>1 DEF Fail, AnswerLost, Abort, Store, TypeOK, CaseOK
  <2>2. ASSUME NEW q \in Forgetter, ForgetFails(q)
        PROVE  /\ case' = case
               /\ \A p \in Forgetter : Pending(p)' => forget'[p] = forget[p]
    BY <2>2 DEF ForgetFails, Pending, Quiet, TypeOK, ForgetOK
  <2> QED BY <2>1, <2>2
<1>3. used' \ living' = used \ living
  <2>1. CASE UNCHANGED <<living, used>>
    BY <2>1
  <2>2. CASE Create
    <3>1. Fresh(used) \notin used /\ Fresh(used) \in Thread
      BY <2>2, FreshOK DEF Create, TypeOK, DiscordOK
    <3> QED BY <2>2, <3>1 DEF Create, TypeOK, DiscordOK
  <2> QED BY <2>1, <2>2 DEF Fail, AnswerLost, Abort, ForgetFails, Post, Message
<1>4. Deletions' /\ Spent \subseteq Spent'
  BY <1>1, <1>2, <1>3 DEF RepeatInv, Deletions, Spent, Pending
<1>5. Waiting' /\ Answered'
  <2>1. CASE Fail \/ AnswerLost
    <3>1. PICK next \in {"owing", "reading", "telling", "posting", "messaging",
                         "told", "rendering", "marking"} :
            /\ closer' = [closer EXCEPT !.at = next, !.failed = TRUE]
            /\ closer.at \notin {"idle", "forgetting"}
      BY <2>1, SkipWhere DEF Fail, AnswerLost
    <3>2. closer'.at # "messaged" /\ ~Pending(Closer)
      BY <3>1 DEF RepeatInv, Waiting, TypeOK, CloserOK
    <3> QED BY <2>1, <3>2 DEF Waiting, Answered, Pending, Fail, AnswerLost
  <2>2. CASE Abort
    BY <2>2 DEF Abort, Idle, Waiting, Answered, RepeatInv, Pending
  <2>3. ASSUME NEW p \in Forgetter, ForgetFails(p)
        PROVE  Waiting' /\ Answered'
    <3>1. closer'.at = closer.at /\ closer'.receipt = closer.receipt
      BY <2>3 DEF ForgetFails, TypeOK, CloserOK
    <3>2. Pending(Closer)' => Pending(Closer)
      BY <1>1, <1>2 DEF Pending
    <3> QED BY <3>1, <3>2 DEF Waiting, Answered, RepeatInv
  <2> QED BY <2>1, <2>2, <2>3
<1>6. CASE dms' = dms
  <2>1. Accounted'
    BY <1>1, <1>2, <1>4, <1>6, AccountStep DEF RepeatInv
  <2> QED BY <1>4, <1>5, <2>1 DEF RepeatInv
<1>7. CASE closer.at = "messaging" /\ Calling /\ Message
  <2>1. NoDm(closer.receipt) /\ case.status = "closed"
    BY <1>7 DEF Calling, NoDm, Working
  <2>2. case.decision \in Decision /\ dms[case.decision] < Budget
    BY <1>7, <2>1 DEF RepeatInv, Accounted, Lacks
  <2>3. \A d \in Decision :
          dms'[d] = IF d = case.decision THEN dms[d] + 1 ELSE dms[d]
    BY <1>7 DEF Message, TypeOK, DiscordOK
  <2>4. Budget \in Nat /\ \A d \in Decision : dms[d] \in Nat /\ d \in Nat
    <3>1. Budget \in Nat
      BY SpentFinite
    <3> QED BY <3>1 DEF TypeOK, DiscordOK, Decision
  <2>5. Budget' = Budget + 1
    <3>1. Spent' = Spent
      BY <1>3, <1>7 DEF Fail, AnswerLost, Abort, ForgetFails, Message, Spent,
                        Pending, TypeOK, DiscordOK
    <3>2. Cardinality(Spent) \in Nat
      BY SpentFinite
    <3> QED BY <1>1, <3>1, <3>2 DEF Budget
  <2>6. Accounted'
    BY <1>2, <2>2, <2>3, <2>4, <2>5 DEF RepeatInv, Accounted
  <2> QED BY <1>4, <1>5, <2>6 DEF RepeatInv
<1> QED BY <1>6, <1>7 DEF Fail, AnswerLost, Abort, ForgetFails, Create, Post

(* Every step keeps the account. *)
LEMMA StepRepeat ==
  ASSUME IInv, IInv', IsFiniteSet(used), IsFiniteSet(used)', RepeatInv, [Next]_vars
  PROVE  RepeatInv'
<1> USE DEF IInv, Rest, Goto, discord, Message
<1>0. Closer \notin Handler /\ Handler \subseteq Forgetter /\ Closer \in Forgetter
      /\ crashes \in Nat /\ errors \in Nat
  BY ClosingAssumption DEF Forgetter, TypeOK
<1>1. ASSUME NEW v \in Outcome, Close(v)
      PROVE  RepeatInv'
  <2>1. Spent' = Spent /\ Deletions' /\ Waiting' /\ Answered'
    BY <1>1 DEF Close, Spent, Pending, RepeatInv, Deletions, Waiting, Answered
  <2>2. case'.decision = case.decision + 1 /\ case'.decision \in Decision
    BY <1>1, ClosingAssumption DEF Close, TypeOK, CaseOK, Decision
  <2>3. Budget' = Budget /\ Budget \in Nat /\ Budget >= 1
    <3>1. Cardinality(Spent) \in Nat
      BY SpentFinite
    <3> QED BY <1>0, <1>1, <2>1, <3>1 DEF Close, Budget
  <2>4. Accounted'
    <3>1. dms' = dms /\ case.decision \in Nat /\ Decision \subseteq Nat
      BY <1>1 DEF Close, TypeOK, CaseOK, Decision
    <3> QED BY <2>2, <2>3, <3>1 DEF Accounted, RepeatInv
  <2> QED BY <2>1, <2>4 DEF RepeatInv
<1>2. CASE Reopen
  <2>1. Waiting' /\ Answered' /\ case'.status = "open" /\ case'.decision = case.decision
    BY <1>2 DEF Reopen, Waiting, Answered, Pending, RepeatInv, TypeOK, CaseOK
  <2>2. Spent' = Spent /\ Deletions'
    BY <1>2 DEF Reopen, Spent, Pending, RepeatInv, Deletions
  <2>3. Budget' = Budget /\ dms' = dms
    BY <1>2, <2>2 DEF Reopen, Budget
  <2> QED BY <2>1, <2>2, <2>3 DEF RepeatInv, Accounted
<1>3. CASE FreeNotices \/ UNCHANGED vars
  <2>1. UNCHANGED <<case, living, used, dms, forget, closer, crashes, errors>>
    BY <1>3 DEF FreeNotices, vars
  <2>2. (Lacks' => Lacks) /\ Waiting' /\ Answered'
    BY <2>1 DEF Lacks, Waiting, Answered, Pending, RepeatInv
  <2> QED BY <2>1, <2>2, QuietRepeat
<1>4. ASSUME NEW t \in Thread, DeleteThread(t)
      PROVE  RepeatInv'
  <2>1. /\ t \in living /\ living' = living \ {t}
        /\ UNCHANGED <<case, used, dms, closer, crashes, errors>>
    BY <1>4 DEF DeleteThread
  <2>2. /\ \A q \in Forgetter : Pending(q) => forget'[q] = forget[q]
        /\ \A q \in Handler : Pending(q)' /\ ~Pending(q) => forget'[q].thread = t
        /\ \A g, h \in Handler : Pending(g)' /\ ~Pending(g) /\ Pending(h)' /\ ~Pending(h)
              => g = h
        /\ forget'[Closer] = forget[Closer]
    <3>1. CASE UNCHANGED forget
      BY <3>1 DEF Pending
    <3>2. ASSUME NEW h \in Handler, forget[h] = Quiet,
                 forget' = [forget EXCEPT ![h] = [Quiet EXCEPT !.at = "called",
                                                               !.thread = t]]
          PROVE  /\ \A q \in Forgetter : Pending(q) => forget'[q] = forget[q]
                 /\ \A q \in Handler : Pending(q)' /\ ~Pending(q)
                                            => forget'[q].thread = t
                 /\ \A g, i \in Handler :
                      Pending(g)' /\ ~Pending(g) /\ Pending(i)' /\ ~Pending(i) => g = i
                 /\ forget'[Closer] = forget[Closer]
      BY <1>0, <3>2 DEF Pending, Quiet, TypeOK, ForgetOK
    <3> QED BY <1>4, <3>1, <3>2 DEF DeleteThread
  <2>3. Deletions'
    BY <1>0, <2>1, <2>2 DEF RepeatInv, Deletions, TypeOK, DiscordOK, Pending
  <2>4. Spent \subseteq Spent'
    BY <1>0, <2>1, <2>2 DEF Spent, Pending
  <2>5. (Lacks' => Lacks) /\ Waiting' /\ Answered'
    BY <2>1, <2>2 DEF Lacks, Waiting, Answered, Pending, RepeatInv
  <2>6. Accounted'
    BY <1>0, <2>1, <2>4, <2>5, AccountStep DEF RepeatInv
  <2> QED BY <2>3, <2>5, <2>6 DEF RepeatInv
<1>5. CASE Validate
  <2>1. /\ closer.at = "validating"
        /\ UNCHANGED <<case, living, used, dms, crashes, errors>>
        /\ \A h \in Handler : forget'[h] = forget[h]
    BY <1>0, <1>5 DEF Validate, TypeOK, ForgetOK
  <2>2. Spent' = Spent /\ Deletions'
    BY <2>1 DEF Spent, Pending, RepeatInv, Deletions
  <2>3. /\ forget'[Closer].at # "writing" /\ closer'.at \in {"owing", "forgetting"}
        /\ Waiting'
    <3>1. forget[Closer].at = "quiet"
      BY <2>1 DEF RepeatInv, Waiting, Pending
    <3>2. CASE closer.thread \in living \union {None}
      BY <1>5, <3>1, <3>2 DEF Validate, Waiting, Pending, TypeOK, CloserOK
    <3>3. CASE closer.thread \notin living \union {None}
      <4>1. /\ closer' = [closer EXCEPT !.at = "forgetting"]
            /\ forget' = [forget EXCEPT ![Closer] =
                 [Quiet EXCEPT !.at = "called", !.thread = closer.thread]]
        BY <1>5, <3>3 DEF Validate
      <4>2. closer'.at = "forgetting"
        BY <4>1 DEF TypeOK, CloserOK
      <4>3. forget'[Closer].at = "called"
        BY <1>0, <4>1 DEF TypeOK, ForgetOK, Quiet
      <4> QED BY <4>2, <4>3 DEF Waiting
    <3> QED BY <3>2, <3>3
  <2>4. (Lacks' => Lacks) /\ Answered'
    BY <2>1, <2>3 DEF Lacks, Answered
  <2>5. Accounted'
    BY <1>0, <2>1, <2>2, <2>4, AccountStep DEF RepeatInv
  <2> QED BY <2>2, <2>3, <2>4, <2>5 DEF RepeatInv
<1>6. CASE Make
  <2>1. /\ closer.at = "making" /\ closer'.at = "saving"
        /\ UNCHANGED <<case, dms, forget, crashes, errors>>
    BY <1>6 DEF Make, TypeOK, CloserOK
  <2>2. used' \ living' = used \ living
    <3>1. CASE UNCHANGED <<living, used>>
      BY <3>1
    <3>2. ASSUME NEW t \in living \union {Fresh(used)},
                 t = Fresh(used) => t \in living \/ used # Thread,
                 living' = living \union {t}, used' = used \union {t}
          PROVE  used' \ living' = used \ living
      <4>1. t \in living \/ t \notin used
        BY <3>2, FreshOK DEF TypeOK, DiscordOK
      <4> QED BY <3>2, <4>1
    <3> QED BY <1>6, <3>1, <3>2 DEF Make
  <2>3. Spent' = Spent /\ Deletions'
    BY <2>1, <2>2 DEF Spent, Pending, RepeatInv, Deletions
  <2>4. (Lacks' => Lacks) /\ Waiting' /\ Answered'
    BY <2>1 DEF Lacks, Waiting, Answered, Pending, RepeatInv
  <2>5. Accounted'
    BY <1>0, <2>1, <2>3, <2>4, AccountStep DEF RepeatInv
  <2> QED BY <2>3, <2>4, <2>5 DEF RepeatInv
<1>7. CASE SendDm
  <2>1. /\ closer.at = "messaging"
        /\ UNCHANGED <<case, living, used, forget, crashes, errors>>
        /\ case.status = "closed"
    BY <1>7 DEF SendDm, Working
  <2>2. Spent' = Spent /\ Deletions' /\ Budget' = Budget
    BY <2>1 DEF Spent, Budget, Pending, RepeatInv, Deletions
  <2>3. Waiting' /\ ~Pending(Closer)'
    BY <2>1 DEF RepeatInv, Waiting, Pending
  <2>4. CASE ~NoDm(closer.receipt)
    <3>1. dms' = dms /\ closer'.at = "told" /\ closer'.receipt = closer.receipt
      BY <1>7, <2>4 DEF SendDm, NoDm, TypeOK, CloserOK
    <3>2. (Lacks' => Lacks) /\ Answered'
      BY <2>1, <3>1 DEF Lacks, Answered
    <3> QED BY <2>1, <2>3, <3>1, <3>2, QuietRepeat
  <2>5. CASE NoDm(closer.receipt)
    <3>1. PICK answer \in {"dm", "dm_unavailable"} :
            /\ dms' = [dms EXCEPT ![case.decision] = @ + 1]
            /\ closer' = [closer EXCEPT !.at = "messaged",
                                        !.receipt = @ \union {answer}]
      BY <1>7, <2>5 DEF SendDm, NoDm
    <3>2. Answered' /\ ~Lacks'
      BY <2>3, <3>1 DEF Answered, Lacks, NoDm, Pending, TypeOK, CloserOK
    <3>3. case.decision \in Decision /\ dms[case.decision] < Budget
      BY <2>1, <2>5 DEF RepeatInv, Accounted, Lacks
    <3>4. \A d \in Decision :
            dms'[d] = IF d = case.decision THEN dms[d] + 1 ELSE dms[d]
      BY <3>1 DEF TypeOK, DiscordOK
    <3>5. Budget \in Nat /\ \A d \in Decision : dms[d] \in Nat /\ d \in Nat
      <4>1. Budget \in Nat
        BY SpentFinite
      <4> QED BY <4>1 DEF TypeOK, DiscordOK, Decision
    <3>6. Accounted'
      BY <2>1, <2>2, <3>2, <3>3, <3>4, <3>5 DEF RepeatInv, Accounted
    <3> QED BY <2>2, <2>3, <3>2, <3>6 DEF RepeatInv
  <2> QED BY <2>4, <2>5
<1>8. CASE Crash
  <2>1. /\ UNCHANGED <<case, living, used, dms, errors>> /\ crashes' > crashes
        /\ closer'.at = "idle" /\ \A p \in Forgetter : forget'[p] = Quiet
    BY <1>0, <1>8 DEF Crash, Idle
  <2>2. \A p \in Forgetter : ~Pending(p)'
    BY <2>1 DEF Pending, Quiet
  <2>3. Deletions' /\ Waiting' /\ Answered' /\ Spent \subseteq Spent'
    BY <1>0, <2>1, <2>2 DEF Deletions, Waiting, Answered, Spent
  <2>4. Accounted'
    BY <1>0, <2>1, <2>3, AccountStep DEF RepeatInv, TypeOK
  <2> QED BY <2>3, <2>4 DEF RepeatInv
<1> QED
  BY <1>1, <1>2, <1>3, <1>4, <1>5, <1>6, <1>7, <1>8, CloserRepeat, ForgetRepeat,
     FaultRepeat
  DEF Next, CloserStep, ForgetStep

(* Nothing is sent and nothing deleted at the start. *)
LEMMA InitRepeat == Init => RepeatInv
<1> SUFFICES ASSUME Init
             PROVE  RepeatInv
  OBVIOUS
<1>1. /\ \A p \in Forgetter : forget[p].at = "quiet"
      /\ closer.at = "idle" /\ case.status = "open" /\ case.decision = 0
      /\ crashes = 0 /\ errors = 0 /\ \A d \in Decision : dms[d] = 0
  BY DEF Init, Idle, Quiet
<1>2. Spent = {} /\ Handler \subseteq Forgetter /\ Closer \in Forgetter
  BY DEF Init, Spent, Forgetter
<1>3. Budget = 1
  BY <1>1, <1>2, FS_EmptySet DEF Budget
<1>4. Deletions /\ Waiting /\ Answered
  BY <1>1, <1>2 DEF Deletions, Waiting, Answered, Pending
<1>5. Accounted
  BY <1>1, <1>3 DEF Accounted
<1> QED BY <1>4, <1>5 DEF RepeatInv

(* RepeatsAreAccounted: a direct message is repeated only for a death of the bot
   between send and receipt, for a failed call, its own or that of its receipt,
   or for a thread deleted meanwhile, and once for each. *)
THEOREM RepeatsAreAccountedSafe == Spec => []RepeatsAreAccounted
<1>1. IInv /\ IsFiniteSet(used) /\ RepeatInv => RepeatsAreAccounted
  <2> SUFFICES ASSUME IInv, IsFiniteSet(used), RepeatInv, NEW d \in Decision
               PROVE  dms[d] <= 1 + crashes + errors + Cardinality(used \ living)
    BY DEF RepeatsAreAccounted
  <2> DEFINE dead == used \ living
  <2>1. /\ IsFiniteSet(dead) /\ Cardinality(dead) \in Nat
        /\ Cardinality(Spent) \in Nat
    BY SpentFinite DEF IInv
  <2>2. Spent \subseteq dead
    BY DEF Spent
  <2> HIDE DEF dead
  <2>3. Cardinality(Spent) <= Cardinality(dead)
    BY <2>1, <2>2, FS_Subset
  <2>4. dms[d] <= 1 + crashes + errors + Cardinality(Spent)
    BY DEF RepeatInv, Accounted, Budget
  <2>5. dms[d] \in Nat /\ crashes \in Nat /\ errors \in Nat
    BY ClosingAssumption DEF IInv, TypeOK, DiscordOK
  <2> QED BY <2>1, <2>3, <2>4, <2>5 DEF dead
<1>2. /\ IInv /\ IInv' /\ IsFiniteSet(used) /\ IsFiniteSet(used)' /\ RepeatInv
      /\ [Next]_vars
      => RepeatInv'
  BY StepRepeat
<1> QED BY <1>1, <1>2, InitIInv, StepIInv, UsedFinite, InitRepeat, PTL DEF Spec
-----------------------------------------------------------------------------
(* The outcome in the thread, as long as no call fails or no thread is       *)
(* deleted.  The receipt of the thread and the marks of the closing speak of *)
(* the thread that is recorded: whoever records another one has dropped them *)
(* first.                                                                    *)

Telling == {"noticing", "noticed", "posting", "posted", "messaging", "messaged"}

Posted(t) == t \in living => case.verdict \in posted[t]

ForgetDrops == \A p \in Forgetter : "thread" \notin forget[p].receipt

OpenIsBare ==
  case.status = "open" => "thread" \notin case.receipt /\ ~case.told /\ ~case.done

ReceiptHolds ==
  case.status = "closed" /\ case.thread # None =>
    /\ "thread" \in case.receipt => case.ready /\ Posted(case.thread)
    /\ case.told \/ case.done => Posted(case.thread)

(* From the reset to the welcome nothing says that the outcome is posted. *)
MakingOK ==
  /\ closer.at \in {"resetting", "making", "saving", "welcoming"}
     => "thread" \notin closer.receipt
  /\ closer.at \in {"making", "saving", "welcoming"} =>
       /\ "thread" \notin case.receipt /\ ~case.told /\ ~case.done
       /\ case.thread \in {None, closer.thread}

(* A thread without its welcome is told nothing: it died under finish_close. *)
Settled ==
  /\ closer.at \in Telling \union {"reading", "hooking", "telling"}
  /\ case.thread # None /\ ~case.ready
  => case.thread \notin living

TellingOK ==
  /\ closer.at \in Telling =>
       /\ case.thread \in {None, closer.thread}
       /\ "thread" \in closer.receipt =>
            /\ closer.thread # None => Posted(closer.thread)
            /\ case.thread # None => case.ready
  /\ closer.at \in {"posted", "messaging", "messaged"} /\ ~closer.failed
     => "thread" \in closer.receipt
  /\ closer.at \in {"told", "rendering", "marking"} /\ ~closer.failed
       /\ case.thread # None
     => Posted(case.thread)

PostedInv ==
  /\ ForgetDrops /\ OpenIsBare /\ ReceiptHolds
  /\ MakingOK /\ Settled /\ TellingOK

(* The steps before the outcome is told. *)
LEMMA MakingPosted ==
  ASSUME IInv, PostedInv,
         Start \/ Validate \/ Forgotten \/ Owe \/ Reset \/ Make \/ SaveThread \/ Welcome
  PROVE  PostedInv'
<1> USE DEF PostedInv, IInv, TypeOK, CaseOK, CloserOK, Rest, Goto, discord
<1> DEFINE Still == UNCHANGED <<case, forget, living, posted>>
<1>1. ASSUME Still
      PROVE  ForgetDrops' /\ OpenIsBare' /\ ReceiptHolds'
  BY <1>1 DEF ForgetDrops, OpenIsBare, ReceiptHolds, Posted
<1> HIDE DEF Still
<1>2. CASE Start
  <2>1. Still /\ closer'.at = "validating"
    BY <1>2 DEF Start, Still, Idle
  <2>2. MakingOK' /\ Settled' /\ TellingOK'
    BY <2>1 DEF MakingOK, Settled, TellingOK, Telling
  <2> QED BY <1>1, <2>1, <2>2
<1>3. CASE Validate
  <2>1. UNCHANGED <<case, living, posted>> /\ closer'.at \in {"owing", "forgetting"}
    BY <1>3 DEF Validate
  <2>2. ForgetDrops'
    <3>1. CASE UNCHANGED forget
      BY <3>1 DEF ForgetDrops
    <3>2. CASE forget' = [forget EXCEPT ![Closer] =
                 [Quiet EXCEPT !.at = "called", !.thread = closer.thread]]
      BY <3>2 DEF ForgetDrops, ForgetOK, Quiet
    <3> QED BY <1>3, <3>1, <3>2 DEF Validate
  <2>3. OpenIsBare' /\ ReceiptHolds' /\ MakingOK' /\ Settled' /\ TellingOK'
    BY <2>1 DEF OpenIsBare, ReceiptHolds, Posted, MakingOK, Settled, TellingOK, Telling
  <2> QED BY <2>2, <2>3
<1>4. CASE Forgotten
  <2>1. Still /\ closer'.at = "owing"
    BY <1>4 DEF Forgotten, Still
  <2>2. MakingOK' /\ Settled' /\ TellingOK'
    BY <2>1 DEF MakingOK, Settled, TellingOK, Telling
  <2> QED BY <1>1, <2>1, <2>2
<1>5. CASE Owe
  <2>1. Still /\ case.status = "closed"
    BY <1>5 DEF Owe, Still, Working
  <2>2. CASE case.thread # None /\ case.ready
    <3>1. closer'.at = "reading"
      BY <1>5, <2>2 DEF Owe
    <3>2. MakingOK' /\ Settled' /\ TellingOK'
      BY <2>1, <2>2, <3>1 DEF MakingOK, Settled, TellingOK, Telling, Still
    <3> QED BY <1>1, <2>1, <3>2
  <2>3. CASE ~(case.thread # None /\ case.ready)
    <3> DEFINE kept == IF case.thread = None THEN case.receipt \ {"thread"}
                                             ELSE case.receipt
    <3>1. "thread" \notin kept
      BY <2>1, <2>3 DEF ReceiptHolds
    <3>2. closer' = [closer EXCEPT !.at = "resetting", !.thread = case.thread,
                                   !.receipt = kept]
      BY <1>5, <2>3 DEF Owe
    <3> HIDE DEF kept
    <3>3. MakingOK' /\ Settled' /\ TellingOK'
      BY <3>1, <3>2 DEF MakingOK, Settled, TellingOK, Telling
    <3> QED BY <1>1, <2>1, <3>3
  <2> QED BY <2>2, <2>3
<1>6. CASE Reset
  <2>1. /\ UNCHANGED <<forget, living, posted>> /\ closer'.at = "making"
        /\ closer'.receipt = closer.receipt /\ closer'.thread = case.thread
        /\ case'.receipt = closer.receipt /\ ~case'.told /\ ~case'.done
        /\ case'.thread = case.thread /\ "thread" \notin closer.receipt
    BY <1>6 DEF Reset, MakingOK
  <2>2. ForgetDrops' /\ OpenIsBare' /\ ReceiptHolds'
    BY <2>1 DEF ForgetDrops, OpenIsBare, ReceiptHolds
  <2>3. MakingOK' /\ Settled' /\ TellingOK'
    BY <2>1 DEF MakingOK, Settled, TellingOK, Telling
  <2> QED BY <2>2, <2>3
<1>7. CASE Make
  <2>1. /\ UNCHANGED <<case, forget, posted>> /\ closer'.at = "saving"
        /\ closer'.receipt = closer.receipt
        /\ case.thread \in {None, closer'.thread}
        /\ "thread" \notin case.receipt /\ ~case.told /\ ~case.done
        /\ "thread" \notin closer.receipt
    <3>1. CASE closer.thread # None
      BY <1>7, <3>1 DEF Make, MakingOK
    <3>2. CASE closer.thread = None
      BY <1>7, <3>2 DEF Make, MakingOK, MakesForNone
    <3> QED BY <3>1, <3>2
  <2>2. ForgetDrops' /\ OpenIsBare' /\ ReceiptHolds'
    BY <2>1 DEF ForgetDrops, OpenIsBare, ReceiptHolds
  <2>3. MakingOK' /\ Settled' /\ TellingOK'
    BY <2>1 DEF MakingOK, Settled, TellingOK, Telling
  <2> QED BY <2>2, <2>3
<1>8. CASE SaveThread
  <2>1. /\ UNCHANGED <<forget, living, posted>> /\ closer'.at = "welcoming"
        /\ closer'.receipt = closer.receipt /\ closer'.thread = closer.thread
        /\ case'.thread = closer.thread
        /\ "thread" \notin case'.receipt /\ ~case'.told /\ ~case'.done
        /\ "thread" \notin closer.receipt
    BY <1>8 DEF SaveThread, MakingOK
  <2>2. ForgetDrops' /\ OpenIsBare' /\ ReceiptHolds'
    BY <2>1 DEF ForgetDrops, OpenIsBare, ReceiptHolds
  <2>3. MakingOK' /\ Settled' /\ TellingOK'
    BY <2>1 DEF MakingOK, Settled, TellingOK, Telling
  <2> QED BY <2>2, <2>3
<1>9. CASE Welcome
  <2>1. /\ UNCHANGED <<forget, living, posted>> /\ closer'.at = "reading"
        /\ case'.ready
        /\ "thread" \notin case'.receipt /\ ~case'.told /\ ~case'.done
    BY <1>9 DEF Welcome, MakingOK
  <2>2. ForgetDrops' /\ OpenIsBare' /\ ReceiptHolds'
    BY <2>1 DEF ForgetDrops, OpenIsBare, ReceiptHolds
  <2>3. MakingOK' /\ Settled' /\ TellingOK'
    BY <2>1 DEF MakingOK, Settled, TellingOK, Telling
  <2> QED BY <2>2, <2>3
<1> QED BY <1>2, <1>3, <1>4, <1>5, <1>6, <1>7, <1>8, <1>9

(* The steps that tell the outcome and mark the closing. *)
LEMMA TellingPosted ==
  ASSUME IInv, PostedInv,
         \/ ReadAgain \/ Hook \/ Tell \/ SendNotice \/ SendThread \/ SendDm
         \/ Record \/ MarkTold \/ Render \/ MarkDone
  PROVE  PostedInv'
<1> USE DEF PostedInv, IInv, TypeOK, CaseOK, CloserOK, Rest, Goto, discord,
            Insert, Post, Message, Store
<1> DEFINE Still == UNCHANGED <<case, forget, living, posted>>
<1>1. ASSUME Still
      PROVE  ForgetDrops' /\ OpenIsBare' /\ ReceiptHolds'
  BY <1>1 DEF ForgetDrops, OpenIsBare, ReceiptHolds, Posted
<1>2. CASE ReadAgain
  <2> DEFINE next == IF ~case.hooked THEN "hooking"
                     ELSE IF case.told THEN "rendering" ELSE "telling"
  <2>1. /\ next \in {"hooking", "rendering", "telling"}
        /\ next = "rendering" => case.told
    OBVIOUS
  <2>2. /\ closer.at = "reading" /\ case.status = "closed"
        /\ \/ closer' = Idle
           \/ closer' = [closer EXCEPT !.told = case.told, !.at = next]
    BY <1>2 DEF ReadAgain, Working
  <2> HIDE DEF next
  <2>3. closer'.at \in {"idle", next}
    <3>1. CASE closer' = Idle
      BY <3>1 DEF Idle
    <3>2. CASE closer' = [closer EXCEPT !.told = case.told, !.at = next]
      BY <3>2
    <3> QED BY <2>2, <3>1, <3>2
  <2>4. Still
    BY <1>2 DEF ReadAgain
  <2>5. MakingOK' /\ Settled'
    BY <2>1, <2>2, <2>3, <2>4 DEF MakingOK, Settled, Telling
  <2>6. TellingOK'
    BY <2>1, <2>2, <2>3, <2>4 DEF TellingOK, Telling, Posted, ReceiptHolds
  <2> QED BY <1>1, <2>4, <2>5, <2>6
<1>3. CASE Hook
  <2>1. /\ UNCHANGED <<forget, living, posted>>
        /\ closer.at = "hooking" /\ case.status = "closed"
        /\ case' = [case EXCEPT !.hooked = TRUE]
        /\ closer'.at \in {"rendering", "telling"}
        /\ closer'.at = "rendering" => case.told
    BY <1>3 DEF Hook, Working
  <2>2. ForgetDrops' /\ OpenIsBare' /\ ReceiptHolds'
    BY <2>1 DEF ForgetDrops, OpenIsBare, ReceiptHolds, Posted
  <2>3. MakingOK' /\ Settled'
    BY <2>1 DEF MakingOK, Settled, Telling
  <2>4. TellingOK'
    BY <2>1 DEF TellingOK, Telling, Posted, ReceiptHolds
  <2> QED BY <2>2, <2>3, <2>4
<1>4. CASE Tell
  <2>1. /\ Still /\ closer.at = "telling" /\ case.status = "closed"
        /\ closer'.at = "noticing" /\ closer'.thread = case.thread
        /\ closer'.receipt = case.receipt
    BY <1>4 DEF Tell, Working
  <2>2. MakingOK' /\ Settled'
    BY <2>1 DEF MakingOK, Settled, Telling
  <2>3. TellingOK'
    BY <2>1 DEF TellingOK, Telling, Posted, ReceiptHolds
  <2> QED BY <1>1, <2>1, <2>2, <2>3
<1>5. CASE SendNotice
  <2>1. /\ Still /\ closer.at = "noticing"
        /\ closer'.at \in {"posting", "noticed"} /\ closer'.thread = closer.thread
        /\ "thread" \in closer'.receipt => "thread" \in closer.receipt
    <3>1. CASE "notice" \in closer.receipt
      BY <1>5, <3>1 DEF SendNotice
    <3>2. CASE "notice" \notin closer.receipt
      <4>1. /\ Still /\ closer.at = "noticing"
            /\ closer' = [closer EXCEPT !.at = "noticed",
                                        !.receipt = closer.receipt \union {"notice"}]
        BY <1>5, <3>2 DEF SendNotice
      <4> QED BY <4>1
    <3> QED BY <3>1, <3>2
  <2>2. MakingOK' /\ Settled'
    BY <2>1 DEF MakingOK, Settled, Telling
  <2>3. TellingOK'
    BY <2>1 DEF TellingOK, Telling, Posted
  <2> QED BY <1>1, <2>1, <2>2, <2>3
<1>6. CASE SendThread
  <2>1. CASE "thread" \in closer.receipt
    <3>1. /\ Still /\ closer.at = "posting" /\ closer'.at = "messaging"
          /\ closer'.thread = closer.thread /\ closer'.receipt = closer.receipt
      BY <1>6, <2>1 DEF SendThread
    <3>2. MakingOK' /\ Settled'
      BY <3>1 DEF MakingOK, Settled, Telling
    <3>3. TellingOK'
      BY <2>1, <3>1 DEF TellingOK, Telling, Posted
    <3> QED BY <1>1, <3>1, <3>2, <3>3
  <2>2. CASE "thread" \notin closer.receipt
    <3>1. /\ UNCHANGED <<case, forget, living>>
          /\ closer.at = "posting" /\ closer.thread \in living
          /\ posted' = [posted EXCEPT ![closer.thread] = @ \union {case.verdict}]
          /\ closer'.at = "posted" /\ closer'.thread = closer.thread
          /\ "thread" \in closer'.receipt
      <4>1. closer' = [closer EXCEPT !.at = "posted",
                                     !.receipt = closer.receipt \union {"thread"}]
        BY <1>6, <2>2 DEF SendThread
      <4>2. /\ closer'.at = "posted" /\ closer'.thread = closer.thread
            /\ "thread" \in closer'.receipt
        BY <4>1
      <4> QED BY <1>6, <2>2, <4>2 DEF SendThread
    <3>2. /\ \A t \in living : posted[t] \subseteq posted'[t]
          /\ case.verdict \in posted'[closer.thread]
      BY <3>1 DEF DiscordOK
    <3>3. ForgetDrops' /\ OpenIsBare' /\ ReceiptHolds'
      BY <3>1, <3>2 DEF ForgetDrops, OpenIsBare, ReceiptHolds, Posted
    <3>4. MakingOK' /\ Settled'
      BY <3>1 DEF MakingOK, Settled, Telling
    <3>5. case.thread # None => case.ready
      BY <3>1 DEF Settled, TellingOK, Telling
    <3>6. TellingOK'
      BY <3>1, <3>2, <3>5 DEF TellingOK, Telling, Posted
    <3> QED BY <3>3, <3>4, <3>6
  <2> QED BY <2>1, <2>2
<1>7. CASE SendDm
  <2>1. /\ Still /\ closer.at = "messaging"
        /\ closer'.at \in {"told", "messaged"} /\ closer'.thread = closer.thread
        /\ "thread" \in closer'.receipt <=> "thread" \in closer.receipt
        /\ closer'.failed = closer.failed
    <3>1. CASE closer' = [closer EXCEPT !.at = "told"]
      BY <1>7, <3>1 DEF SendDm
    <3>2. ASSUME NEW answer \in {"dm", "dm_unavailable"},
                 closer' = [closer EXCEPT !.at = "messaged",
                                          !.receipt = closer.receipt \union {answer}]
          PROVE  /\ closer'.at = "messaged" /\ closer'.thread = closer.thread
                 /\ "thread" \in closer'.receipt <=> "thread" \in closer.receipt
                 /\ closer'.failed = closer.failed
      BY <3>2
    <3> QED BY <1>7, <3>1, <3>2 DEF SendDm
  <2>2. MakingOK' /\ Settled'
    BY <2>1 DEF MakingOK, Settled, Telling
  <2>3. TellingOK'
    BY <2>1 DEF TellingOK, Telling, Posted
  <2> QED BY <1>1, <2>1, <2>2, <2>3
<1>8. CASE Record
  <2>1. /\ UNCHANGED <<forget, living, posted>>
        /\ closer.at \in {"noticed", "posted", "messaged"}
        /\ case.status = "closed"
        /\ case' = [case EXCEPT !.receipt = closer.receipt]
        /\ closer'.at \in {"posting", "messaging", "told"}
        /\ closer'.at = "messaging" => closer.at = "posted"
        /\ closer'.at = "told" => closer.at = "messaged"
        /\ closer'.thread = closer.thread /\ closer'.receipt = closer.receipt
        /\ closer'.failed = closer.failed
    BY <1>8 DEF Record, Working
  <2>2. ForgetDrops' /\ OpenIsBare'
    BY <2>1 DEF ForgetDrops, OpenIsBare
  <2>3. ReceiptHolds'
    BY <2>1 DEF ReceiptHolds, TellingOK, Telling, Posted
  <2>4. MakingOK' /\ Settled'
    BY <2>1 DEF MakingOK, Settled, Telling
  <2>5. TellingOK'
    BY <2>1 DEF TellingOK, Telling, Posted
  <2> QED BY <2>2, <2>3, <2>4, <2>5
<1>9. CASE MarkTold
  <2>1. /\ UNCHANGED <<forget, living, posted>>
        /\ closer.at = "told" /\ case.status = "closed"
        /\ case' = [case EXCEPT !.told = @ \/ ~closer.failed]
        /\ closer'.at = "rendering" /\ closer'.failed = closer.failed
    BY <1>9 DEF MarkTold, Working
  <2>2. ForgetDrops' /\ OpenIsBare'
    BY <2>1 DEF ForgetDrops, OpenIsBare
  <2>3. ReceiptHolds'
    BY <2>1 DEF ReceiptHolds, TellingOK, Posted
  <2>4. MakingOK' /\ Settled'
    BY <2>1 DEF MakingOK, Settled, Telling
  <2>5. TellingOK'
    BY <2>1 DEF TellingOK, Telling, Posted
  <2> QED BY <2>2, <2>3, <2>4, <2>5
<1>10. CASE Render
  <2>1. /\ Still /\ closer.at = "rendering" /\ closer'.at = "marking"
        /\ ~closer'.failed => ~closer.failed
    BY <1>10 DEF Render
  <2>2. MakingOK' /\ Settled'
    BY <2>1 DEF MakingOK, Settled, Telling
  <2>3. TellingOK'
    BY <2>1 DEF TellingOK, Telling, Posted
  <2> QED BY <1>1, <2>1, <2>2, <2>3
<1>11. CASE MarkDone
  <2>1. /\ UNCHANGED <<forget, living, posted>>
        /\ closer.at = "marking" /\ case.status = "closed"
        /\ case' = [case EXCEPT !.done = @ \/ ~closer.failed]
        /\ closer'.at = "idle"
    BY <1>11 DEF MarkDone, Idle, Working
  <2>2. ForgetDrops' /\ OpenIsBare'
    BY <2>1 DEF ForgetDrops, OpenIsBare
  <2>3. ReceiptHolds'
    BY <2>1 DEF ReceiptHolds, TellingOK, Posted
  <2>4. MakingOK' /\ Settled' /\ TellingOK'
    BY <2>1 DEF MakingOK, Settled, TellingOK, Telling
  <2> QED BY <2>3, <2>2, <2>4
<1> QED BY <1>2, <1>3, <1>4, <1>5, <1>6, <1>7, <1>8, <1>9, <1>10, <1>11

(* A thread that dies under finish_close is told nothing, and the closing is
   not marked. *)
LEMMA GonePosted ==
  ASSUME IInv, PostedInv, ThreadGone
  PROVE  PostedInv'
<1> USE DEF PostedInv, IInv, TypeOK, CaseOK, CloserOK, Rest, discord
<1>1. /\ UNCHANGED <<case, forget, living, posted>>
      /\ closer.at \in DOMAIN After /\ Skip
      /\ closer.thread \notin living
      /\ closer.at \in {"making", "welcoming", "posting"}
  BY DEF ThreadGone, After
<1>2. PICK next \in {"owing", "reading", "telling", "posting", "messaging",
                     "told", "rendering", "marking"} :
        /\ closer' = [closer EXCEPT !.at = next, !.failed = TRUE]
        /\ next = "posting" => closer.at \in {"noticing", "noticed"}
        /\ next = "messaging" => closer.at \in {"posting", "posted"}
        /\ next = "reading" => closer.at \in {"owing", "resetting", "making",
                                              "saving", "welcoming"}
        /\ next = "telling" => closer.at = "hooking"
  BY <1>1, SkipWhere
<1>3. /\ closer'.at = next /\ closer'.failed
      /\ closer'.thread = closer.thread /\ closer'.receipt = closer.receipt
  BY <1>2
<1>4. ForgetDrops' /\ OpenIsBare' /\ ReceiptHolds'
  BY <1>1 DEF ForgetDrops, OpenIsBare, ReceiptHolds, Posted
<1>5. MakingOK'
  BY <1>1, <1>2, <1>3 DEF MakingOK
<1>6. Settled'
  BY <1>1, <1>2, <1>3 DEF Settled, MakingOK, Telling
<1>7. TellingOK'
  BY <1>1, <1>2, <1>3 DEF TellingOK, Telling, Posted
<1> QED BY <1>4, <1>5, <1>6, <1>7

(* What the decisions, the deletions and a death of the bot do. *)
LEMMA OthersPosted ==
  ASSUME IInv, PostedInv,
         \/ \E v \in Outcome : Close(v)
         \/ Reopen \/ FreeNotices
         \/ \E t \in Thread : DeleteThread(t)
         \/ \E p \in Forgetter : ForgetStep(p)
         \/ Crash
  PROVE  PostedInv'
<1> USE DEF PostedInv, IInv, TypeOK, CaseOK, CloserOK, ForgetOK, Rest, discord
<1>1. ASSUME NEW v \in Outcome, Close(v)
      PROVE  PostedInv'
  <2>1. /\ UNCHANGED <<forget, living, posted, closer>> /\ closer.at = "idle"
        /\ case.status = "open"
        /\ case'.receipt = case.receipt /\ case'.told = case.told
        /\ case'.done = case.done /\ case'.status = "closed"
    BY <1>1 DEF Close, Working
  <2>2. ForgetDrops' /\ OpenIsBare' /\ ReceiptHolds'
    BY <2>1 DEF ForgetDrops, OpenIsBare, ReceiptHolds
  <2>3. MakingOK' /\ Settled' /\ TellingOK'
    BY <2>1 DEF MakingOK, Settled, TellingOK, Telling
  <2> QED BY <2>2, <2>3
<1>2. CASE Reopen
  <2>1. /\ UNCHANGED <<forget, living, posted, closer>> /\ closer.at = "idle"
        /\ case'.receipt = {} /\ ~case'.told /\ ~case'.done /\ case'.status = "open"
    BY <1>2 DEF Reopen
  <2>2. ForgetDrops' /\ OpenIsBare' /\ ReceiptHolds'
    BY <2>1 DEF ForgetDrops, OpenIsBare, ReceiptHolds
  <2>3. MakingOK' /\ Settled' /\ TellingOK'
    BY <2>1 DEF MakingOK, Settled, TellingOK, Telling
  <2> QED BY <2>2, <2>3
<1>3. CASE FreeNotices
  <2>1. UNCHANGED <<case, forget, living, posted, closer>>
    BY <1>3 DEF FreeNotices
  <2> QED BY <2>1 DEF ForgetDrops, OpenIsBare, ReceiptHolds, Posted, MakingOK, Settled,
                      TellingOK
<1>4. ASSUME NEW t \in Thread, DeleteThread(t)
      PROVE  PostedInv'
  <2>1. UNCHANGED <<case, posted, closer>> /\ living' \subseteq living
    BY <1>4 DEF DeleteThread
  <2>2. ForgetDrops'
    <3>1. CASE UNCHANGED forget
      BY <3>1 DEF ForgetDrops
    <3>2. ASSUME NEW h \in Handler,
                 forget' = [forget EXCEPT ![h] = [Quiet EXCEPT !.at = "called",
                                                               !.thread = t]]
          PROVE  ForgetDrops'
      BY <3>2 DEF ForgetDrops, Quiet
    <3> QED BY <1>4, <3>1, <3>2 DEF DeleteThread
  <2>3. OpenIsBare' /\ ReceiptHolds' /\ MakingOK' /\ Settled' /\ TellingOK'
    BY <2>1 DEF OpenIsBare, ReceiptHolds, Posted, MakingOK, Settled, TellingOK
  <2> QED BY <2>2, <2>3
<1>5. ASSUME NEW p \in Forgetter, ForgetRead(p)
      PROVE  PostedInv'
  <2>1. UNCHANGED <<case, living, posted, closer>>
    BY <1>5 DEF ForgetRead
  <2>2. ForgetDrops'
    <3>1. CASE case.thread = forget[p].thread
      <4>1. forget' = [forget EXCEPT ![p] =
              [forget[p] EXCEPT !.at = "writing",
                                !.receipt = case.receipt \ {"thread"}]]
        BY <1>5, <3>1 DEF ForgetRead
      <4> QED BY <4>1 DEF ForgetDrops
    <3>2. CASE case.thread # forget[p].thread
      BY <1>5, <3>2 DEF ForgetRead, ForgetDrops, Quiet
    <3> QED BY <3>1, <3>2
  <2>3. OpenIsBare' /\ ReceiptHolds' /\ MakingOK' /\ Settled' /\ TellingOK'
    BY <2>1 DEF OpenIsBare, ReceiptHolds, Posted, MakingOK, Settled, TellingOK
  <2> QED BY <2>2, <2>3
<1>6. ASSUME NEW p \in Forgetter, ForgetWrite(p)
      PROVE  PostedInv'
  <2>1. /\ UNCHANGED <<living, posted, closer>>
        /\ case'.thread = None /\ "thread" \notin case'.receipt
        /\ ~case'.told /\ ~case'.done
        /\ case'.status = case.status /\ case'.verdict = case.verdict
    BY <1>6 DEF ForgetWrite, ForgetDrops
  <2>2. ForgetDrops'
    BY <1>6 DEF ForgetWrite, ForgetDrops, Quiet
  <2>3. OpenIsBare' /\ ReceiptHolds' /\ MakingOK' /\ Settled'
    BY <2>1 DEF OpenIsBare, ReceiptHolds, MakingOK, Settled
  <2>4. TellingOK'
    BY <2>1 DEF TellingOK, Posted
  <2> QED BY <2>2, <2>3, <2>4
<1>7. CASE Crash
  <2>1. /\ UNCHANGED <<case, living, posted>> /\ closer'.at = "idle"
        /\ \A p \in Forgetter : forget'[p].receipt = {}
    BY <1>7 DEF Crash, Idle, Quiet
  <2>2. ForgetDrops' /\ OpenIsBare' /\ ReceiptHolds'
    BY <2>1 DEF ForgetDrops, OpenIsBare, ReceiptHolds, Posted
  <2>3. MakingOK' /\ Settled' /\ TellingOK'
    BY <2>1 DEF MakingOK, Settled, TellingOK, Telling
  <2> QED BY <2>2, <2>3
<1> QED BY <1>1, <1>2, <1>3, <1>4, <1>5, <1>6, <1>7 DEF ForgetStep

(* As long as no thread was deleted the case keeps the one it was created
   with, and finish_close has nothing to validate, forget or make. *)
Whole ==
  used = living =>
    /\ case.thread \in living /\ case.ready
    /\ closer.at = "validating" => closer.thread \in living
    /\ closer.at \notin {"forgetting", "resetting", "making", "saving",
                         "welcoming"}
    /\ closer.at \in Telling => closer.thread \in living
    /\ \A p \in Forgetter : forget[p].at = "quiet"

(* The created case has its thread, and its welcome. *)
LEMMA InitWhole == Init => Whole
BY DEF Init, Whole, Idle, Quiet, Telling

(* No thread comes back, and new ones are made for the lack of a living one. *)
LEMMA StepWhole ==
  ASSUME IInv, Whole, [Next]_vars, used' = living'
  PROVE  Whole' /\ used = living
<1> USE DEF IInv, TypeOK, CaseOK, CloserOK, Rest, Goto, discord
<1>1. used = living
  <2>1. CASE UNCHANGED <<living, used>>
    BY <2>1
  <2>2. ASSUME NEW t \in Thread, DeleteThread(t)
        PROVE  FALSE
    BY <2>2 DEF DeleteThread, DiscordOK
  <2>3. ASSUME NEW t \in living \union {Fresh(used)},
               t = Fresh(used) => t \in living \/ used # Thread,
               living' = living \union {t}, used' = used \union {t}
        PROVE  used = living
    <3>1. t \in living \/ t \notin used
      BY <2>3, FreshOK DEF DiscordOK
    <3>2. \A u \in used : u \in living
      BY <2>3, <3>1
    <3> QED BY <3>2 DEF DiscordOK
  <2>4. CASE Make
    BY <2>1, <2>3, <2>4 DEF Make
  <2>5. CASE AnswerLost
    BY <2>1, <2>3, <2>5 DEF AnswerLost, Create, Post, Message
  <2> QED
    BY <2>1, <2>2, <2>4, <2>5
    DEF Next, CloserStep, ForgetStep, Close, Reopen, FreeNotices, ForgetRead,
        ForgetWrite, Start, Validate, Forgotten, Owe, Reset, SaveThread,
        Welcome, ReadAgain, Hook, Tell, SendNotice, SendThread, SendDm, Record,
        MarkTold, Render, MarkDone, ThreadGone, Fail, Abort, ForgetFails,
        Crash, vars
<1>2. /\ case.thread \in living /\ case.ready
      /\ closer.at = "validating" => closer.thread \in living
      /\ closer.at \notin {"forgetting", "resetting", "making", "saving",
                           "welcoming"}
      /\ closer.at \in Telling => closer.thread \in living
      /\ \A p \in Forgetter : forget[p].at = "quiet"
      /\ case.thread # None /\ closer.thread \in living => closer.thread # None
  <2>1. None \notin Thread
    BY ClosingAssumption
  <2> QED BY <1>1, <2>1 DEF Whole, DiscordOK
<1> SUFFICES Whole'
  BY <1>1
<1> DEFINE Kept == UNCHANGED <<living, used, forget>>
                   /\ case'.thread = case.thread /\ case'.ready = case.ready
<1>3. ASSUME Kept, closer'.at \notin {"validating", "forgetting", "resetting",
               "making", "saving", "welcoming"} \union Telling
      PROVE  Whole'
  BY <1>1, <1>2, <1>3 DEF Whole
<1>4. ASSUME Kept, closer'.at \in Telling, closer'.thread \in living
      PROVE  Whole'
  BY <1>1, <1>2, <1>4 DEF Whole, Telling
<1>5. ASSUME Kept, UNCHANGED closer
      PROVE  Whole'
  BY <1>1, <1>2, <1>5 DEF Whole
<1> HIDE DEF Kept
<1>6. CASE \/ \E v \in Outcome : Close(v)
           \/ Reopen \/ FreeNotices \/ UNCHANGED vars
  BY <1>5, <1>6 DEF Kept, Close, Reopen, FreeNotices, vars
<1>7. ASSUME NEW t \in Thread, DeleteThread(t)
      PROVE  FALSE
  BY <1>1, <1>7 DEF DeleteThread, DiscordOK
<1>8. ASSUME NEW p \in Forgetter, ForgetStep(p) \/ ForgetFails(p)
      PROVE  FALSE
  BY <1>2, <1>8 DEF ForgetStep, ForgetRead, ForgetWrite, ForgetFails
<1>9. CASE Start
  <2>1. /\ UNCHANGED <<living, used, forget, case>>
        /\ closer'.at = "validating" /\ closer'.thread = case.thread
    BY <1>9 DEF Start, Idle
  <2> QED BY <1>1, <1>2, <2>1 DEF Whole, Telling
<1>10. CASE Validate
  <2>1. Kept /\ closer'.at = "owing"
    BY <1>2, <1>10 DEF Validate, Kept
  <2> QED BY <1>3, <2>1 DEF Telling
<1>11. CASE Forgotten \/ Reset \/ Make \/ SaveThread \/ Welcome
  BY <1>2, <1>11 DEF Forgotten, Reset, Make, SaveThread, Welcome
<1>12. CASE Owe
  <2>1. case.thread # None /\ case.ready
    BY <1>2, ClosingAssumption DEF DiscordOK
  <2>2. Kept /\ closer'.at = "reading"
    BY <1>12, <2>1 DEF Owe, Kept
  <2> QED BY <1>3, <2>2 DEF Telling
<1>13. CASE ReadAgain \/ Hook
  <2>1. Kept /\ closer'.at \in {"idle", "hooking", "rendering", "telling"}
    <3>1. CASE closer' = Idle
      BY <1>13, <3>1 DEF ReadAgain, Hook, Kept, Idle
    <3>2. CASE \E next \in {"hooking", "rendering", "telling"} :
                 closer' = [closer EXCEPT !.told = case.told, !.at = next]
      BY <1>13, <3>2 DEF ReadAgain, Hook, Kept
    <3> QED BY <1>13, <3>1, <3>2 DEF ReadAgain, Hook
  <2> QED BY <1>3, <2>1 DEF Telling
<1>14. CASE Tell
  <2>1. Kept /\ closer'.at = "noticing" /\ closer'.thread = case.thread
    BY <1>14 DEF Tell, Kept
  <2> QED BY <1>2, <1>4, <2>1 DEF Telling
<1>15. CASE SendNotice \/ SendThread \/ SendDm \/ Record
  <2>1. /\ Kept /\ closer.at \in Telling
        /\ closer'.at \in Telling \union {"told"} /\ closer'.thread = closer.thread
    <3>1. closer.at \in Telling /\ Kept
      BY <1>15 DEF SendNotice, SendThread, SendDm, Record, Kept, Telling, Store
    <3>2. \/ \E next \in Telling \union {"told"} :
               closer' = [closer EXCEPT !.at = next]
          \/ \E next \in Telling, receipt \in SUBSET Receipt :
               closer' = [closer EXCEPT !.at = next, !.receipt = receipt]
      <4>1. CASE SendNotice
        <5>1. CASE "notice" \in closer.receipt
          BY <4>1, <5>1 DEF SendNotice, Telling
        <5>2. CASE "notice" \notin closer.receipt
          <6>1. closer' = [closer EXCEPT !.at = "noticed",
                                         !.receipt = closer.receipt \union {"notice"}]
            BY <4>1, <5>2 DEF SendNotice
          <6> QED BY <6>1 DEF Receipt, Telling
        <5> QED BY <5>1, <5>2
      <4>2. CASE SendThread
        <5>1. CASE "thread" \in closer.receipt
          BY <4>2, <5>1 DEF SendThread, Telling
        <5>2. CASE "thread" \notin closer.receipt
          <6>1. closer' = [closer EXCEPT !.at = "posted",
                                         !.receipt = closer.receipt \union {"thread"}]
            BY <4>2, <5>2 DEF SendThread
          <6> QED BY <6>1 DEF Receipt, Telling
        <5> QED BY <5>1, <5>2
      <4>3. CASE SendDm
        <5>1. CASE closer.receipt \intersect {"dm", "dm_unavailable"} # {}
          BY <4>3, <5>1 DEF SendDm, Telling
        <5>2. CASE closer.receipt \intersect {"dm", "dm_unavailable"} = {}
          <6>1. PICK answer \in {"dm", "dm_unavailable"} :
                  closer' = [closer EXCEPT !.at = "messaged",
                                           !.receipt = closer.receipt \union {answer}]
            BY <4>3, <5>2 DEF SendDm
          <6> QED BY <6>1 DEF Receipt, Telling
        <5> QED BY <5>1, <5>2
      <4>4. CASE Record
        <5>1. \E next \in {"posting", "messaging", "told"} :
                closer' = [closer EXCEPT !.at = next]
          BY <4>4 DEF Record
        <5> QED BY <5>1 DEF Telling
      <4> QED BY <1>15, <4>1, <4>2, <4>3, <4>4
    <3>3. closer'.at \in Telling \union {"told"} /\ closer'.thread = closer.thread
      BY <3>2
    <3> QED BY <3>1, <3>3
  <2> QED BY <1>2, <1>3, <1>4, <2>1 DEF Telling
<1>16. CASE MarkTold \/ Render \/ MarkDone \/ Abort
  <2>1. Kept /\ closer'.at \in {"rendering", "marking", "idle"}
    <3>1. CASE MarkTold
      BY <3>1 DEF MarkTold, Kept
    <3>2. CASE Render
      BY <3>2 DEF Render, Kept
    <3>3. CASE MarkDone
      BY <3>3 DEF MarkDone, Kept, Idle
    <3>4. CASE Abort
      BY <3>4 DEF Abort, Kept, Idle
    <3> QED BY <1>16, <3>1, <3>2, <3>3, <3>4
  <2> QED BY <1>3, <2>1 DEF Telling
<1>17. CASE ThreadGone \/ Fail \/ AnswerLost
  <2>1. closer.at \in DOMAIN After /\ Skip
    BY <1>17 DEF ThreadGone, Fail, AnswerLost, After
  <2>2. PICK next \in {"owing", "reading", "telling", "posting", "messaging",
                       "told", "rendering", "marking"} :
          /\ closer' = [closer EXCEPT !.at = next, !.failed = TRUE]
          /\ next = "posting" => closer.at \in {"noticing", "noticed"}
          /\ next = "messaging" => closer.at \in {"posting", "posted"}
    BY <2>1, SkipWhere
  <2>3. closer'.at = next /\ closer'.thread = closer.thread
    BY <2>2
  <2>4. Kept
    BY <1>2, <1>17 DEF ThreadGone, Fail, AnswerLost, Post, Message, Store, Kept
  <2>5. CASE next \in {"posting", "messaging"}
    BY <1>2, <1>4, <2>2, <2>3, <2>4, <2>5 DEF Telling
  <2>6. CASE next \notin {"posting", "messaging"}
    BY <1>3, <2>2, <2>3, <2>4, <2>6 DEF Telling
  <2> QED BY <2>5, <2>6
<1>18. CASE Crash
  <2>1. /\ UNCHANGED <<living, used, case>> /\ closer'.at = "idle"
        /\ \A p \in Forgetter : forget'[p].at = "quiet"
    BY <1>18 DEF Crash, Idle, Quiet
  <2> QED BY <1>1, <1>2, <2>1 DEF Whole, Telling
<1> QED
  BY <1>1, <1>6, <1>7, <1>8, <1>9, <1>10, <1>11, <1>12, <1>13, <1>14, <1>15,
     <1>16, <1>17, <1>18
  DEF Next, CloserStep

(* A failed call leaves out its channel, and the closing is not marked: with
   the thread in place nothing is recorded that was not posted. *)
LEMMA FaultPosted ==
  ASSUME IInv, PostedInv, Whole, used = living, used' = living',
         \/ Fail \/ AnswerLost \/ Abort
         \/ \E p \in Forgetter : ForgetFails(p)
  PROVE  PostedInv'
<1> USE DEF PostedInv, IInv, TypeOK, CaseOK, CloserOK, discord
<1>1. /\ UNCHANGED forget
      /\ closer.at \notin {"forgetting", "resetting", "making", "saving",
                           "welcoming"}
      /\ case.ready
  BY DEF Whole, Fail, AnswerLost, Abort, ForgetFails
<1>2. /\ ForgetDrops' /\ UNCHANGED living
      /\ case'.status = case.status /\ case'.verdict = case.verdict
      /\ case'.thread = case.thread /\ case'.ready = case.ready
      /\ case'.told = case.told /\ case'.done = case.done
      /\ \A t \in living : posted[t] \subseteq posted'[t]
  <2>1. ~\E p \in Forgetter : ForgetFails(p)
    BY DEF ForgetFails, Whole
  <2>2. ForgetDrops'
    BY <1>1 DEF ForgetDrops
  <2>3. UNCHANGED living /\ \A t \in living : posted[t] \subseteq posted'[t]
    <3>1. CASE UNCHANGED <<living, posted>>
      BY <3>1
    <3>2. CASE Post /\ UNCHANGED living
      BY <3>2 DEF Post, DiscordOK
    <3> QED BY <1>1, <2>1, <3>1, <3>2 DEF Fail, AnswerLost, Abort, Message
  <2>4. /\ case'.status = case.status /\ case'.verdict = case.verdict
        /\ case'.thread = case.thread /\ case'.ready = case.ready
        /\ case'.told = case.told /\ case'.done = case.done
    <3>1. CASE UNCHANGED case
      BY <3>1
    <3>2. CASE case' = [case EXCEPT !.receipt = closer.receipt]
      BY <3>2
    <3> QED BY <2>1, <3>1, <3>2 DEF Fail, AnswerLost, Abort, Store
  <2> QED BY <2>2, <2>3, <2>4
<1>3. CASE Abort
  <2>1. UNCHANGED <<case, posted>> /\ closer'.at = "idle"
    BY <1>3 DEF Abort, Idle
  <2> QED BY <1>2, <2>1 DEF OpenIsBare, ReceiptHolds, Posted, MakingOK, Settled,
                            TellingOK, Telling
<1>4. CASE Fail \/ AnswerLost
  <2>1. closer.at \in DOMAIN After /\ Skip
    BY <1>4 DEF Fail, AnswerLost
  <2>2. PICK next \in {"owing", "reading", "telling", "posting", "messaging",
                       "told", "rendering", "marking"} :
          /\ closer' = [closer EXCEPT !.at = next, !.failed = TRUE]
          /\ next = "posting" => closer.at \in {"noticing", "noticed"}
          /\ next = "messaging" => closer.at \in {"posting", "posted"}
          /\ closer.at # "idle"
    BY <2>1, SkipWhere
  <2>3. /\ closer'.at = next /\ closer'.failed
        /\ closer'.thread = closer.thread /\ closer'.receipt = closer.receipt
    BY <2>2
  <2>4. /\ closer.at \notin Telling \/ case'.receipt # closer.receipt
             => case'.receipt = case.receipt
        /\ case.status = "closed"
    <3>1. CASE UNCHANGED case
      BY <2>2, <3>1 DEF Working
    <3>2. CASE /\ closer.at \in {"noticed", "posted", "messaged"}
               /\ case' = [case EXCEPT !.receipt = closer.receipt]
      BY <2>2, <3>2 DEF Telling, Working
    <3> QED BY <1>4, <3>1, <3>2 DEF Fail, AnswerLost, Store
  <2>5. OpenIsBare' /\ ReceiptHolds'
    BY <1>1, <1>2, <2>4 DEF OpenIsBare, ReceiptHolds, TellingOK, Posted
  <2>6. MakingOK' /\ Settled'
    BY <1>1, <1>2, <2>3 DEF MakingOK, Settled
  <2>7. TellingOK'
    BY <1>1, <1>2, <2>2, <2>3 DEF TellingOK, Telling, Posted
  <2> QED BY <1>2, <2>5, <2>6, <2>7
<1>5. ASSUME NEW p \in Forgetter, ForgetFails(p)
      PROVE  FALSE
  BY <1>5 DEF ForgetFails, Whole
<1> QED BY <1>3, <1>4, <1>5

(* DoneIsPosted: a case marked done has its outcome in the thread the person
   has: whatever was deleted as long as no call fails, whatever failed as long
   as no thread is deleted, and wherever the bot died. *)
THEOREM DoneIsPostedSafe == Spec => []DoneIsPosted
<1> DEFINE Inv == Whole /\ (errors = 0 \/ used = living => PostedInv)
<1>1. Init => Inv
  <2> SUFFICES ASSUME Init
               PROVE  PostedInv
    BY InitWhole
  <2>1. /\ case.status = "open" /\ case.receipt = {} /\ ~case.told /\ ~case.done
        /\ closer.at = "idle" /\ \A p \in Forgetter : forget[p].receipt = {}
    BY DEF Init, Idle, Quiet
  <2> QED BY <2>1 DEF PostedInv, ForgetDrops, OpenIsBare, ReceiptHolds, MakingOK,
                      Settled, TellingOK, Telling
<1>2. IInv /\ Inv /\ [Next]_vars => Inv'
  <2> SUFFICES ASSUME IInv, Inv, [Next]_vars
               PROVE  Inv'
    OBVIOUS
  <2> DEFINE Faulty == \/ Fail \/ AnswerLost \/ Abort
                       \/ \E p \in Forgetter : ForgetFails(p)
  <2>1. errors \in Nat
    BY ClosingAssumption DEF IInv, TypeOK
  <2>2. Whole'
    <3>1. CASE used' = living'
      BY <3>1, StepWhole
    <3>2. CASE used' # living'
      BY <3>2 DEF Whole
    <3> QED BY <3>1, <3>2
  <2>3. Faulty => errors' # 0
    BY <2>1 DEF Fail, AnswerLost, Abort, ForgetFails, Fault
  <2>4. ~Faulty => errors' = errors
    BY DEF Next, CloserStep, ForgetStep, Close, Reopen, FreeNotices, DeleteThread,
           ForgetRead, ForgetWrite, Start, Validate, Forgotten, Owe, Reset, Make,
           SaveThread, Welcome, ReadAgain, Hook, Tell, SendNotice, SendThread,
           SendDm, Record, MarkTold, Render, MarkDone, ThreadGone, Crash,
           Rest, discord, vars
  <2>5. ASSUME errors' = 0 \/ used' = living'
        PROVE  PostedInv'
    <3>1. used' = living' => used = living
      BY StepWhole
    <3>2. PostedInv
      BY <2>3, <2>4, <2>5, <3>1
    <3>3. CASE Faulty
      BY <2>3, <2>5, <3>1, <3>2, <3>3, FaultPosted
    <3>4. CASE UNCHANGED vars
      BY <3>2, <3>4 DEF vars, PostedInv, ForgetDrops, OpenIsBare, ReceiptHolds,
                        Posted, MakingOK, Settled, TellingOK
    <3>5. CASE ~Faulty /\ Next
      <4>1. \/ \E v \in Outcome : Close(v)
            \/ Reopen \/ FreeNotices
            \/ \E t \in Thread : DeleteThread(t)
            \/ \E p \in Forgetter : ForgetStep(p)
            \/ CloserStep \/ Crash
        BY <3>5 DEF Next
      <4> HIDE DEF Inv, Faulty
      <4> QED BY <3>2, <4>1, MakingPosted, TellingPosted, GonePosted, OthersPosted
              DEF CloserStep
    <3> QED BY <3>3, <3>4, <3>5
  <2> QED BY <2>2, <2>5
<1>3. IInv /\ Inv => DoneIsPosted
  <2>1. None \notin Thread
    BY ClosingAssumption
  <2> QED BY <2>1 DEF IInv, TypeOK, DiscordOK, PostedInv, ReceiptHolds, Posted,
                      DoneIsPosted
<1> QED BY <1>1, <1>2, <1>3, InitIInv, StepIInv, PTL DEF Spec
=============================================================================
