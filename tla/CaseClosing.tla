---------------------------- MODULE CaseClosing ----------------------------
(***************************************************************************)
(* What happens once a decision is stored: finish_close of cases/service.py*)
(* with the deliveries of cases/notify.py and the private thread of the    *)
(* person to tell, repeated by the repair pass until it is marked done,    *)
(* while threads are deleted, the case is reopened and the bot dies.       *)
(*                                                                         *)
(* One person, who reported from Discord and has a game account, is told   *)
(* over three channels; a receipt on the case records each delivery.       *)
(* finish_close and reopen hold the projection lock of the case; the       *)
(* gateway's thread_deleted does not.  The actions that close the case are *)
(* those of CaseActions: here one step stores a verdict.                   *)
(***************************************************************************)
EXTENDS Naturals, FiniteSets

CONSTANTS
  Thread,        \* threads Discord may ever create for the case
  Handler,       \* deletion events the gateway may deliver
  Closer,        \* the holder of the projection lock
  Verdict,       \* outcomes with a text of their own
  None,          \* no thread, no verdict
  MaxDecisions,  \* bound: closes of the case
  MaxCrashes,    \* bound: deaths of the bot
  MaxErrors      \* bound: failed calls to Discord and MongoDB

ASSUME ClosingAssumption ==
  /\ Closer \notin Handler
  /\ None \notin Thread \union Verdict
  /\ Thread # {} /\ Verdict # {}
  /\ {MaxDecisions, MaxCrashes, MaxErrors} \subseteq Nat

VARIABLES
  case,      \* the document: status, verdict, thread, receipts, progress
  notices,   \* case_notices: the decision a verdict's row was written for
  living,    \* threads that exist
  used,      \* threads that ever existed
  posted,    \* verdicts posted in each thread
  dms,       \* direct messages sent, or refused, for each decision
  closer,    \* finish_close: where it waits and what it read
  forget,    \* thread_deleted: likewise, for each caller
  reopening, \* reopen stored the reopening, the notices are still there
  crashes, errors

vars == <<case, notices, living, used, posted, dms, closer, forget,
          reopening, crashes, errors>>
discord == <<living, used, posted, dms>>

Decision == 1..MaxDecisions
Forgetter == Handler \union {Closer}
Receipt == {"notice", "thread", "dm", "dm_unavailable"}

Idle == [at |-> "idle", thread |-> None, receipt |-> {}, failed |-> FALSE,
         told |-> FALSE]
Quiet == [at |-> "quiet", thread |-> None, receipt |-> {}]

(* Which id a new thread gets decides nothing: one unused stands for all. *)
Fresh(taken) == CHOOSE t \in Thread : t \notin taken

Init ==
  LET t == Fresh({}) IN
    /\ case = [status |-> "open", verdict |-> None, decision |-> 0,
               thread |-> t, ready |-> TRUE, receipt |-> {},
               hooked |-> FALSE, told |-> FALSE, done |-> FALSE]
    /\ living = {t}
    /\ used = {t}
    /\ notices = [v \in Verdict |-> 0]
    /\ posted = [u \in Thread |-> {}]
    /\ dms = [d \in Decision |-> 0]
    /\ closer = Idle
    /\ forget = [p \in Forgetter |-> Quiet]
    /\ reopening = FALSE
    /\ crashes = 0
    /\ errors = 0

(* Most steps of finish_close touch neither the deletions nor the bounds. *)
Rest == UNCHANGED <<forget, reopening, crashes, errors>>

Goto(place) == closer' = [closer EXCEPT !.at = place]

-----------------------------------------------------------------------------
(* The decision, and reopen under the lock. *)

(* Outcomes differ in nothing but their text, so the first stands for any. *)
Outcome == IF case.decision = 0 THEN {CHOOSE v \in Verdict : TRUE} ELSE Verdict

Close(v) ==
  /\ case.status = "open"
  /\ case.decision < MaxDecisions
  /\ case' = [case EXCEPT !.status = "closed", !.verdict = v,
                          !.decision = @ + 1]
  /\ UNCHANGED <<notices, discord, closer>> /\ Rest

(* The receipts and the progress of the closing are dropped. *)
Reopen ==
  /\ closer.at = "idle" /\ ~reopening
  /\ case.status = "closed"
  /\ case' = [case EXCEPT !.status = "open", !.verdict = None,
                          !.receipt = {}, !.hooked = FALSE,
                          !.told = FALSE, !.done = FALSE]
  /\ reopening' = TRUE
  /\ UNCHANGED <<notices, discord, closer, forget, crashes, errors>>

(* A later step frees the notice ids for the next decision. *)
FreeNotices ==
  /\ reopening
  /\ notices' = [v \in Verdict |-> 0]
  /\ reopening' = FALSE
  /\ UNCHANGED <<case, discord, closer, forget, crashes, errors>>

-----------------------------------------------------------------------------
(* thread_deleted: reads the case by the thread's id, then writes what it
   computed from that read, whatever the case has become. *)

ForgetRead(p) ==
  /\ forget[p].at = "called"
  /\ forget' = [forget EXCEPT ![p] =
       IF case.thread = @.thread
       THEN [@ EXCEPT !.at = "writing", !.receipt = case.receipt \ {"thread"}]
       ELSE Quiet]
  /\ UNCHANGED <<case, notices, discord, closer, reopening, crashes, errors>>

ForgetWrite(p) ==
  /\ forget[p].at = "writing"
  /\ case' = [case EXCEPT !.thread = None, !.ready = FALSE,
                          !.receipt = forget[p].receipt,
                          !.told = FALSE, !.done = FALSE]
  /\ forget' = [forget EXCEPT ![p] = Quiet]
  /\ UNCHANGED <<notices, discord, closer, reopening, crashes, errors>>

(* Somebody deletes a thread (bound: one may still be created instead); the
   event may never reach the bot. *)
DeleteThread(t) ==
  /\ t \in living
  /\ used # Thread
  /\ living' = living \ {t}
  /\ \/ UNCHANGED forget
     \/ \E h \in Handler :
          /\ forget[h] = Quiet
          /\ forget' = [forget EXCEPT ![h] = [Quiet EXCEPT !.at = "called",
                                                           !.thread = t]]
  /\ UNCHANGED <<case, notices, used, posted, dms, closer, reopening,
                 crashes, errors>>

-----------------------------------------------------------------------------
(* finish_close, first part: the private thread must exist. *)

(* Called by the action that closed the case and by every repair pass. *)
Start ==
  /\ closer.at = "idle" /\ ~reopening
  /\ case.status = "closed"
  /\ closer' = [Idle EXCEPT !.at = "validating", !.thread = case.thread]
  /\ UNCHANGED <<case, notices, discord>> /\ Rest

(* Mutant: only the gateway's event makes a thread forgotten. *)
ValidateNothing ==
  /\ closer.at = "validating"
  /\ Goto("owing") /\ UNCHANGED forget
  /\ UNCHANGED <<case, notices, discord, reopening, crashes, errors>>

(* validate_private_threads: a thread that is gone is forgotten inline. *)
Validate ==
  /\ closer.at = "validating"
  /\ IF closer.thread \in living \union {None}
     THEN Goto("owing") /\ UNCHANGED forget
     ELSE /\ Goto("forgetting")
          /\ forget' = [forget EXCEPT ![Closer] =
               [Quiet EXCEPT !.at = "called", !.thread = closer.thread]]
  /\ UNCHANGED <<case, notices, discord, reopening, crashes, errors>>

Forgotten ==
  /\ closer.at = "forgetting"
  /\ forget[Closer] = Quiet
  /\ Goto("owing")
  /\ UNCHANGED <<case, notices, discord>> /\ Rest

(* _ensure_private_threads: is a thread owed? *)
Owe ==
  /\ closer.at = "owing"
  /\ IF case.thread # None /\ case.ready
     THEN Goto("reading")
     ELSE closer' = [closer EXCEPT !.at = "resetting", !.thread = case.thread,
            !.receipt = IF case.thread = None THEN case.receipt \ {"thread"}
                                              ELSE case.receipt]
  /\ UNCHANGED <<case, notices, discord>> /\ Rest

(* Then its receipt is dropped and the closing is not complete any more. *)
Reset ==
  /\ closer.at = "resetting"
  /\ case' = [case EXCEPT !.receipt = closer.receipt, !.told = FALSE,
                          !.done = FALSE]
  /\ closer' = [closer EXCEPT !.at = "making", !.thread = case.thread]
  /\ UNCHANGED <<notices, discord>> /\ Rest

(* Mutant: no orphan is ever looked for. *)
MakeNew ==
  /\ closer.at = "making"
  /\ IF closer.thread # None
     THEN /\ closer.thread \in living
          /\ Goto("saving")
          /\ UNCHANGED <<living, used>>
     ELSE LET t == Fresh(used) IN
            /\ used # Thread
            /\ living' = living \union {t}
            /\ used' = used \union {t}
            /\ closer' = [closer EXCEPT !.at = "saving", !.thread = t]
  /\ UNCHANGED <<case, notices, posted, dms>> /\ Rest

Create ==
  LET t == Fresh(used) IN
    /\ used # Thread
    /\ living' = living \union {t}
    /\ used' = used \union {t}
    /\ UNCHANGED <<posted, dms>>

(* ensure_user_thread: the recorded thread, an orphan of an earlier attempt
   (one of the case's that is not recorded), or a new one. *)
Make ==
  LET orphans == living \ {case.thread} IN
  /\ closer.at = "making"
  /\ IF closer.thread # None
     THEN /\ closer.thread \in living
          /\ Goto("saving")
          /\ UNCHANGED <<living, used>>
     ELSE \E t \in IF orphans # {} THEN orphans ELSE {Fresh(used)} :
            /\ orphans = {} => used # Thread
            /\ living' = living \union {t}
            /\ used' = used \union {t}
            /\ closer' = [closer EXCEPT !.at = "saving", !.thread = t]
  /\ UNCHANGED <<case, notices, posted, dms>> /\ Rest

(* The id is saved before the welcome, so a failure resumes on it. *)
SaveThread ==
  /\ closer.at = "saving"
  /\ case' = [case EXCEPT !.thread = closer.thread]
  /\ Goto("welcoming")
  /\ UNCHANGED <<notices, discord>> /\ Rest

(* The thread is welcomed and its readiness stored: until both are done the
   next pass repeats both, so one step stands for them. *)
Welcome ==
  /\ closer.at = "welcoming"
  /\ closer.thread \in living
  /\ case' = [case EXCEPT !.thread = closer.thread, !.ready = TRUE]
  /\ Goto("reading")
  /\ UNCHANGED <<notices, discord>> /\ Rest

-----------------------------------------------------------------------------
(* finish_close, second part: hook, outcomes, marks. *)

(* The case is read again; a finished one needs nothing more. *)
ReadAgain ==
  /\ closer.at = "reading"
  /\ IF case.done /\ ~closer.failed
     THEN closer' = Idle
     ELSE closer' = [closer EXCEPT !.told = case.told,
            !.at = IF ~case.hooked THEN "hooking"
                   ELSE IF case.told THEN "rendering" ELSE "telling"]
  /\ UNCHANGED <<case, notices, discord>> /\ Rest

Hook ==
  /\ closer.at = "hooking"
  /\ case' = [case EXCEPT !.hooked = TRUE]
  /\ closer' = [closer EXCEPT !.told = case.told,
                              !.at = IF case.told THEN "rendering"
                                                  ELSE "telling"]
  /\ UNCHANGED <<notices, discord>> /\ Rest

(* CaseNotifier.send reads the receipt and the thread once. *)
Tell ==
  /\ closer.at = "telling"
  /\ closer' = [closer EXCEPT !.at = "noticing", !.thread = case.thread,
                              !.receipt = case.receipt]
  /\ UNCHANGED <<case, notices, discord>> /\ Rest

(* The row for the game: its id is the case, the player and the kind, and a
   second insert of the same id does nothing. *)
Insert ==
  notices' = IF notices[case.verdict] # 0 THEN notices
             ELSE [notices EXCEPT ![case.verdict] = case.decision]

SendNotice ==
  /\ closer.at = "noticing"
  /\ IF "notice" \in closer.receipt
     THEN Goto("posting") /\ UNCHANGED notices
     ELSE /\ Insert
          /\ closer' = [closer EXCEPT !.at = "noticed",
                                      !.receipt = @ \union {"notice"}]
  /\ UNCHANGED <<case, discord>> /\ Rest

(* The message in the thread; the same text is not posted twice. *)
Post ==
  /\ closer.thread \in living
  /\ posted' = [posted EXCEPT ![closer.thread] = @ \union {case.verdict}]

SendThread ==
  /\ closer.at = "posting"
  /\ IF "thread" \in closer.receipt
     THEN Goto("messaging") /\ UNCHANGED posted
     ELSE /\ Post
          /\ closer' = [closer EXCEPT !.at = "posted",
                                      !.receipt = @ \union {"thread"}]
  /\ UNCHANGED <<case, notices, living, used, dms>> /\ Rest

Message == dms' = [dms EXCEPT ![case.decision] = @ + 1]

(* Mutant: a refusal is not remembered. *)
SendDmAgain ==
  /\ closer.at = "messaging"
  /\ IF "dm" \in closer.receipt
     THEN Goto("told") /\ UNCHANGED dms
     ELSE \E answer \in {"dm", "dm_unavailable"} :
            /\ Message
            /\ closer' = [closer EXCEPT !.at = "messaged",
                                        !.receipt = @ \union {answer}]
  /\ UNCHANGED <<case, notices, living, used, posted>> /\ Rest

(* The direct message; a refusal by the person's settings is final too. *)
SendDm ==
  /\ closer.at = "messaging"
  /\ IF closer.receipt \intersect {"dm", "dm_unavailable"} # {}
     THEN Goto("told") /\ UNCHANGED dms
     ELSE \E answer \in {"dm", "dm_unavailable"} :
            /\ Message
            /\ closer' = [closer EXCEPT !.at = "messaged",
                                        !.receipt = @ \union {answer}]
  /\ UNCHANGED <<case, notices, living, used, posted>> /\ Rest

(* _receipt: what was delivered so far, as send remembers it. *)
Store == case' = [case EXCEPT !.receipt = closer.receipt]

Record ==
  \E step \in {<<"noticed", "posting">>, <<"posted", "messaging">>,
               <<"messaged", "told">>} :
    /\ closer.at = step[1]
    /\ Store
    /\ Goto(step[2])
    /\ UNCHANGED <<notices, discord>> /\ Rest

(* Mutant: a channel that failed counts as told. *)
MarkToldAnyway ==
  /\ closer.at = "told"
  /\ Goto("rendering")
  /\ case' = [case EXCEPT !.told = TRUE]
  /\ UNCHANGED <<notices, discord>> /\ Rest

(* outcomes_done only if every recipient got every channel. *)
MarkTold ==
  /\ closer.at = "told"
  /\ Goto("rendering")
  /\ case' = [case EXCEPT !.told = @ \/ ~closer.failed]
  /\ UNCHANGED <<notices, discord>> /\ Rest

(* render looks at the thread once more. *)
Render ==
  /\ closer.at = "rendering"
  /\ closer' = [closer EXCEPT !.at = "marking",
       !.failed = @ \/ case.thread \notin living \union {None}]
  /\ UNCHANGED <<case, notices, discord>> /\ Rest

(* closed_done only without a single error. *)
MarkDone ==
  /\ closer.at = "marking"
  /\ case' = [case EXCEPT !.done = @ \/ ~closer.failed]
  /\ closer' = Idle
  /\ UNCHANGED <<notices, discord>> /\ Rest

-----------------------------------------------------------------------------
(* Failures. *)

(* Where finish_close goes on after a call that failed: each part of the
   closing and each channel is independent, but the receipt of the direct
   message is the last call of send, and so is a player it cannot look up. *)
After == [validating |-> "owing", owing |-> "reading", resetting |-> "reading",
          making |-> "reading", saving |-> "reading", welcoming |-> "reading",
          hooking |-> "telling", telling |-> "told",
          noticing |-> "posting", noticed |-> "posting",
          posting |-> "messaging", posted |-> "messaging",
          messaging |-> "told", messaged |-> "told", rendering |-> "marking"]

(* Channels whose receipt is there are not called. *)
Calling ==
  /\ closer.at = "noticing" => "notice" \notin closer.receipt
  /\ closer.at = "posting" => "thread" \notin closer.receipt
  /\ closer.at = "messaging" =>
       closer.receipt \intersect {"dm", "dm_unavailable"} = {}

Skip ==
  LET next == IF closer.at = "hooking" /\ closer.told THEN "rendering"
                                                      ELSE After[closer.at]
  IN closer' = [closer EXCEPT !.at = next, !.failed = TRUE]

Fault ==
  /\ errors < MaxErrors
  /\ errors' = errors + 1
  /\ UNCHANGED <<reopening, crashes>>

(* A call to Discord or MongoDB fails, the write of a receipt too: it lost
   every race of checkpoint, or the database did not answer. *)
Fail ==
  /\ closer.at \in DOMAIN After /\ Calling
  /\ Fault /\ Skip
  /\ UNCHANGED <<case, notices, discord, forget>>

(* A call has its effect but its answer is lost, and send takes it for failed:
   a thread, a notice, a message, or a receipt that is stored after all. *)
AnswerLost ==
  /\ closer.at \in DOMAIN After /\ Calling
  /\ Fault /\ Skip
  /\ UNCHANGED forget
  /\ \/ /\ closer.at = "making" /\ closer.thread = None
        /\ living \ {case.thread} = {}
        /\ Create /\ UNCHANGED <<case, notices>>
     \/ /\ closer.at = "noticing"
        /\ Insert /\ UNCHANGED <<case, discord>>
     \/ /\ closer.at = "posting"
        /\ Post /\ UNCHANGED <<case, notices, living, used, dms>>
     \/ /\ closer.at = "messaging"
        /\ Message /\ UNCHANGED <<case, notices, living, used, posted>>
     \/ /\ closer.at \in {"noticed", "posted", "messaged"}
        /\ Store /\ UNCHANGED <<notices, discord>>

(* Between its parts finish_close reads and marks the case outside any try:
   it gives up there. *)
Abort ==
  /\ closer.at \in {"reading", "told", "marking"}
  /\ Fault
  /\ closer' = Idle
  /\ UNCHANGED <<case, notices, discord, forget>>

(* thread_deleted fails: nobody repeats the event, finish_close goes on. *)
ForgetFails(p) ==
  /\ forget[p].at # "quiet"
  /\ Fault
  /\ forget' = [forget EXCEPT ![p] = Quiet]
  /\ closer' = [closer EXCEPT !.failed = @ \/ p = Closer]
  /\ UNCHANGED <<case, notices, discord>>

(* The thread the closing works on was deleted under it. *)
ThreadGone ==
  /\ \/ closer.at = "making" /\ closer.thread # None
     \/ closer.at = "welcoming"
     \/ closer.at = "posting" /\ "thread" \notin closer.receipt
  /\ closer.thread \notin living
  /\ Skip
  /\ UNCHANGED <<case, notices, discord>> /\ Rest

Crash ==
  /\ crashes < MaxCrashes
  /\ crashes' = crashes + 1
  /\ closer' = Idle
  /\ forget' = [p \in Forgetter |-> Quiet]
  /\ reopening' = FALSE
  /\ UNCHANGED <<case, notices, discord, errors>>

-----------------------------------------------------------------------------
CloserStep ==
  \/ Start \/ Validate \/ Forgotten \/ Owe \/ Reset \/ Make \/ SaveThread
  \/ Welcome \/ ReadAgain \/ Hook \/ Tell \/ SendNotice \/ SendThread
  \/ SendDm \/ Record \/ MarkTold \/ Render \/ MarkDone \/ ThreadGone

ForgetStep(p) == ForgetRead(p) \/ ForgetWrite(p)

Next ==
  \/ \E v \in Outcome : Close(v)
  \/ Reopen \/ FreeNotices
  \/ \E t \in Thread : DeleteThread(t)
  \/ \E p \in Forgetter : ForgetStep(p)
  \/ CloserStep
  \/ \E p \in Forgetter : ForgetFails(p)
  \/ Fail \/ AnswerLost \/ Abort \/ Crash

Spec == Init /\ [][Next]_vars

(* The repair pass comes back every five minutes and what runs goes on. *)
Fairness ==
  /\ WF_vars(CloserStep)
  /\ WF_vars(FreeNotices)
  /\ \A p \in Forgetter : WF_vars(ForgetStep(p))

FairSpec == Spec /\ Fairness

-----------------------------------------------------------------------------
Place == {"idle", "validating", "forgetting", "owing", "resetting", "making",
          "saving", "welcoming", "reading", "hooking", "telling", "noticing",
          "noticed", "posting", "posted", "messaging", "messaged", "told",
          "rendering", "marking"}

CaseOK ==
  case \in [status : {"open", "closed"}, verdict : Verdict \union {None},
            decision : 0..MaxDecisions, thread : Thread \union {None},
            ready : BOOLEAN, receipt : SUBSET Receipt, hooked : BOOLEAN,
            told : BOOLEAN, done : BOOLEAN]

DiscordOK ==
  /\ living \subseteq used /\ used \subseteq Thread
  /\ posted \in [Thread -> SUBSET Verdict]
  /\ dms \in [Decision -> Nat]

CloserOK ==
  closer \in [at : Place, thread : Thread \union {None},
              receipt : SUBSET Receipt, failed : BOOLEAN, told : BOOLEAN]

ForgetOK ==
  forget \in [Forgetter -> [at : {"quiet", "called", "writing"},
                            thread : Thread \union {None},
                            receipt : SUBSET Receipt]]

TypeOK ==
  /\ CaseOK /\ DiscordOK /\ CloserOK /\ ForgetOK
  /\ notices \in [Verdict -> 0..MaxDecisions]
  /\ reopening \in BOOLEAN
  /\ crashes \in 0..MaxCrashes /\ errors \in 0..MaxErrors

(* A case marked done has its outcome in the thread the person has.  As long
   as no call fails this is so however that thread was deleted, adopted or
   replaced; as long as no thread is deleted, whichever calls of whichever
   channel fail or lose their answer: a failed channel leaves the case
   incomplete.  Wherever the bot died, both.  Together they break it: after a
   failed welcome _ensure_private_threads writes back the thread receipt that
   a deletion has just dropped. *)
DoneIsPosted ==
  /\ errors = 0 \/ used = living
  /\ case.status = "closed" /\ case.done /\ case.thread \in living
  => case.verdict \in posted[case.thread]

(* The person never has two threads of the case that live: what an earlier
   attempt created is adopted, never duplicated. *)
OneThread == Cardinality(living) <= 1

(* A direct message is repeated only for a mishap, once for each: the bot died
   between send and receipt, a call failed (the message whose answer was lost,
   its receipt that could not be written), or a thread was deleted meanwhile.
   The passes of the repair task, their number unbounded, repeat nothing by
   themselves, and no mishap is ever charged twice. *)
RepeatsAreAccounted ==
  \A d \in Decision :
    dms[d] <= 1 + crashes + errors + Cardinality(used \ living)

(* However it is interrupted, the closing of a case that stays closed ends
   up marked done, with a living thread for the person. *)
EventuallyDone ==
  <>[](case.status = "closed") => <>[](case.done /\ case.thread \in living)

(* cases/README.md, Private threads: "A missing thread invalidates only that
   owner's thread receipt; successful DM and notice receipts survive". *)
ReceiptsSurvive ==
  [][case.status = "closed" /\ case'.status = "closed" =>
       case.receipt \ {"thread"} \subseteq case'.receipt]_vars

(* cases/README.md, Outcomes: "sends a DM - each once, recorded on the
   case": a case marked done has sent the one of this decision. *)
DoneIsMessaged ==
  case.status = "closed" /\ case.done => dms[case.decision] > 0

(* reopen: "Outcome notice ids are per (case, player, kind): free them for
   the next decision and drop a stale undelivered one": the notice row of a
   case marked done was written for its decision. *)
DoneIsNoticed ==
  case.status = "closed" /\ case.done =>
    notices[case.verdict] = case.decision
=============================================================================
