----------------------------- MODULE BusProofs ------------------------------
(***************************************************************************)
(* What the bot reads from the bus and what it sends on it: the consumer   *)
(* loop of a stream and the role sync's requests to a game server, each    *)
(* with the inductive invariant its properties rest on.                    *)
(*                                                                         *)
(* The consumer loop, for any number of events, attempts, failures and     *)
(* interruptions.  What an acknowledgement stands for rests on the place   *)
(* of the event in hand (InHandOK), on the batch being part of the pending *)
(* events, which are never settled (BatchOK), and the bounds on logs and   *)
(* dead letters on counting each event's own failures (LogOK, CounterOK).  *)
(*                                                                         *)
(* The role sync, for any members, roles, changes and losses.  That no     *)
(* stale member is forgotten rests on what a request may hold until it is  *)
(* applied: the roles of the moment, unless a change is still coming       *)
(* (AskedOK), on the same of what the pass has read, until the member's    *)
(* version moves (SnapshotOK), and on a request the bot gave up on being   *)
(* for a member on record (InboxOK).                                       *)
(***************************************************************************)
EXTENDS StreamConsumer, StaffSync, SequenceTheorems, TLAPS

-----------------------------------------------------------------------------
(* The consumer loop *)

Busy == Handler \union After

(* What the loop still holds is pending, and pending is not settled. *)
BatchOK ==
  /\ unread \intersect (pending \union settled) = {}
  /\ pending \intersect settled = {}
  /\ idle \subseteq pending
  /\ loop.at = "loop" => loop.batch = {}
  /\ loop.batch \subseteq pending

InHandOK ==
  /\ loop.at \in Busy => InHand \in Message /\ InHand \notin loop.batch
  /\ loop.at \in Busy \ {"clear"} => InHand \in pending
  /\ loop.at \in Handler => InHand \notin Own \union Garbled
  /\ loop.at \in {"count", "bury"} => InHand \notin Own
  /\ loop.at = "ack" => InHand \in handled \union dead \union Own
  /\ loop.at = "bury" => InHand \in Garbled \/ failed[InHand] >= MaxAttempts

(* The log of an event was posted at most once for its mark and once for
   each mark that was lost. *)
LogOK ==
  /\ loop.at \in {"post", "mark"} => InHand \notin marks
  /\ \A m \in Message :
       /\ unmarked[m] <= failures + interrupts
       /\ posts[m] <= unmarked[m] +
            IF m \in marks \/ (loop.at = "mark" /\ InHand = m) THEN 1 ELSE 0

(* The counter is never ahead of the event's own failures, and passes the
   limit only through an interruption on the way to the dead letters. *)
CounterOK ==
  \A m \in Message :
    /\ counter[m] <= failed[m]
    /\ counter[m] < MaxAttempts + interrupts
         \/ /\ counter[m] = MaxAttempts + interrupts
            /\ loop.at \in {"bury", "ack", "clear"} /\ InHand = m

(* TypeOK without the bounds, which CounterOK and LogOK imply. *)
TypeInv ==
  /\ unread \subseteq Message /\ pending \subseteq Message
  /\ dead \subseteq Message /\ settled \subseteq Message
  /\ handled \subseteq Message /\ marks \subseteq Message
  /\ loop \in [at : Handler \union {"loop", "next"} \union After,
               batch : SUBSET Message, event : Message \union {NoEvent}]
  /\ active \in BOOLEAN
  /\ counter \in [Message -> Nat]
  /\ posts \in [Message -> Nat]
  /\ unmarked \in [Message -> Nat]
  /\ failed \in [Message -> Nat]
  /\ failures \in 0..MaxFailures
  /\ interrupts \in 0..MaxInterrupts
  /\ toggles \in 0..MaxToggles

IInv ==
  TypeInv /\ BatchOK /\ InHandOK /\ LogOK /\ CounterOK /\ DeadLettersEarned

(* Nothing has been read when the consumer starts. *)
LEMMA InitIInv == Init => IInv
  BY ConsumerAssumption
  DEF Init, IInv, TypeInv, BatchOK, InHandOK, LogOK, CounterOK,
      DeadLettersEarned, Looping, Busy, Handler, After, InHand, Message,
      NoEvent

(* Every step preserves the invariant. *)
LEMMA StepIInv == IInv /\ [Next]_vars => IInv'
<1> SUFFICES ASSUME IInv, [Next]_vars
             PROVE  IInv'
  OBVIOUS
<1>0. /\ MaxAttempts \in Nat \ {0}
      /\ MaxFailures \in Nat /\ MaxInterrupts \in Nat /\ MaxToggles \in Nat
  BY ConsumerAssumption
<1> USE <1>0 DEF IInv, At, Goto, InHand, Busy, Handler, After, group, effects,
             outcome, bounds
<1>1. CASE Reclaim
  <2>1. TypeInv'
    BY <1>1 DEF Reclaim, TypeInv, BatchOK, InHandOK
  <2>2. BatchOK'
    BY <1>1 DEF Reclaim, TypeInv, BatchOK, InHandOK
  <2>3. InHandOK'
    BY <1>1 DEF Reclaim, TypeInv, BatchOK, InHandOK
  <2>4. LogOK'
    BY <1>1 DEF Reclaim, TypeInv, InHandOK, LogOK
  <2>5. CounterOK'
    BY <1>1 DEF Reclaim, TypeInv, InHandOK, CounterOK
  <2>6. DeadLettersEarned'
    BY <1>1 DEF Reclaim, TypeInv, InHandOK,
               DeadLettersEarned
  <2> QED BY <2>1, <2>2, <2>3, <2>4, <2>5, <2>6
<1>2. CASE Read
  <2>1. TypeInv'
    BY <1>2 DEF Read, TypeInv
  <2>2. BatchOK'
    BY <1>2 DEF Read, TypeInv, BatchOK, InHandOK
  <2>3. InHandOK'
    BY <1>2 DEF Read, TypeInv, BatchOK, InHandOK
  <2>4. LogOK'
    BY <1>2 DEF Read, TypeInv, InHandOK, LogOK
  <2>5. CounterOK'
    BY <1>2 DEF Read, TypeInv, InHandOK, CounterOK
  <2>6. DeadLettersEarned'
    BY <1>2 DEF Read, TypeInv, InHandOK,
               DeadLettersEarned
  <2> QED BY <2>1, <2>2, <2>3, <2>4, <2>5, <2>6
<1>3. CASE TakeNext
  <2>1. TypeInv'
    BY <1>3 DEF TakeNext, Looping, FirstPlace, TypeInv
  <2>2. BatchOK'
    BY <1>3 DEF TakeNext, Looping, FirstPlace, TypeInv, BatchOK, InHandOK
  <2>3. InHandOK'
    BY <1>3 DEF TakeNext, Looping, FirstPlace, TypeInv, BatchOK, InHandOK
  <2>4. LogOK'
    BY <1>3 DEF TakeNext, Looping, FirstPlace, TypeInv, InHandOK, LogOK
  <2>5. CounterOK'
    BY <1>3 DEF TakeNext, Looping, FirstPlace, TypeInv, InHandOK, CounterOK
  <2>6. DeadLettersEarned'
    BY <1>3 DEF TakeNext, Looping, FirstPlace, TypeInv, InHandOK,
               DeadLettersEarned
  <2> QED BY <2>1, <2>2, <2>3, <2>4, <2>5, <2>6
<1>4. CASE CheckMark
  <2>1. TypeInv'
    BY <1>4 DEF CheckMark, TypeInv
  <2>2. BatchOK'
    BY <1>4 DEF CheckMark, TypeInv, BatchOK, InHandOK
  <2>3. InHandOK'
    BY <1>4 DEF CheckMark, TypeInv, BatchOK, InHandOK
  <2>4. LogOK'
    BY <1>4 DEF CheckMark, TypeInv, InHandOK, LogOK
  <2>5. CounterOK'
    BY <1>4 DEF CheckMark, TypeInv, InHandOK, CounterOK
  <2>6. DeadLettersEarned'
    BY <1>4 DEF CheckMark, TypeInv, InHandOK,
               DeadLettersEarned
  <2> QED BY <2>1, <2>2, <2>3, <2>4, <2>5, <2>6
<1>5. CASE Post
  <2>1. TypeInv'
    BY <1>5 DEF Post, TypeInv, BatchOK, InHandOK
  <2>2. BatchOK'
    BY <1>5 DEF Post, TypeInv, BatchOK, InHandOK
  <2>3. InHandOK'
    BY <1>5 DEF Post, TypeInv, BatchOK, InHandOK
  <2>4. LogOK'
    BY <1>5 DEF Post, TypeInv, InHandOK, LogOK
  <2>5. CounterOK'
    BY <1>5 DEF Post, TypeInv, InHandOK, CounterOK
  <2>6. DeadLettersEarned'
    BY <1>5 DEF Post, TypeInv, InHandOK,
               DeadLettersEarned
  <2> QED BY <2>1, <2>2, <2>3, <2>4, <2>5, <2>6
<1>6. CASE Mark
  <2>1. TypeInv'
    BY <1>6 DEF Mark, TypeInv, BatchOK, InHandOK
  <2>2. BatchOK'
    BY <1>6 DEF Mark, TypeInv, BatchOK, InHandOK
  <2>3. InHandOK'
    BY <1>6 DEF Mark, TypeInv, BatchOK, InHandOK
  <2>4. LogOK'
    BY <1>6 DEF Mark, TypeInv, InHandOK, LogOK
  <2>5. CounterOK'
    BY <1>6 DEF Mark, TypeInv, InHandOK, CounterOK
  <2>6. DeadLettersEarned'
    BY <1>6 DEF Mark, TypeInv, InHandOK,
               DeadLettersEarned
  <2> QED BY <2>1, <2>2, <2>3, <2>4, <2>5, <2>6
<1>7. CASE Hook
  <2>1. TypeInv'
    BY <1>7 DEF Hook, TypeInv, BatchOK, InHandOK
  <2>2. BatchOK'
    BY <1>7 DEF Hook, TypeInv, BatchOK, InHandOK
  <2>3. InHandOK'
    BY <1>7 DEF Hook, TypeInv, BatchOK, InHandOK
  <2>4. LogOK'
    BY <1>7 DEF Hook, TypeInv, InHandOK, LogOK
  <2>5. CounterOK'
    BY <1>7 DEF Hook, TypeInv, InHandOK, CounterOK
  <2>6. DeadLettersEarned'
    BY <1>7 DEF Hook, TypeInv, InHandOK,
               DeadLettersEarned
  <2> QED BY <2>1, <2>2, <2>3, <2>4, <2>5, <2>6
<1>8. CASE Count
  <2>1. TypeInv'
    BY <1>8 DEF Count, Exhausted, TypeInv, BatchOK, InHandOK
  <2>2. BatchOK'
    BY <1>8 DEF Count, Exhausted, TypeInv, BatchOK, InHandOK
  <2>3. InHandOK'
    BY <1>8 DEF Count, Exhausted, TypeInv, BatchOK, InHandOK, CounterOK
  <2>4. LogOK'
    BY <1>8 DEF Count, Exhausted, TypeInv, InHandOK, LogOK
  <2>5. CounterOK'
    BY <1>8 DEF Count, Exhausted, TypeInv, InHandOK, CounterOK
  <2>6. DeadLettersEarned'
    BY <1>8 DEF Count, Exhausted, TypeInv, InHandOK,
               DeadLettersEarned
  <2> QED BY <2>1, <2>2, <2>3, <2>4, <2>5, <2>6
<1>9. CASE RouteToDlq
  <2>1. TypeInv'
    BY <1>9 DEF RouteToDlq, TypeInv, BatchOK, InHandOK
  <2>2. BatchOK'
    BY <1>9 DEF RouteToDlq, TypeInv, BatchOK, InHandOK
  <2>3. InHandOK'
    BY <1>9 DEF RouteToDlq, TypeInv, BatchOK, InHandOK
  <2>4. LogOK'
    BY <1>9 DEF RouteToDlq, TypeInv, InHandOK, LogOK
  <2>5. CounterOK'
    BY <1>9 DEF RouteToDlq, TypeInv, InHandOK, CounterOK
  <2>6. DeadLettersEarned'
    BY <1>9 DEF RouteToDlq, TypeInv, InHandOK,
               DeadLettersEarned
  <2> QED BY <2>1, <2>2, <2>3, <2>4, <2>5, <2>6
<1>10. CASE Ack
  <2>1. TypeInv'
    BY <1>10 DEF Ack, TypeInv, BatchOK, InHandOK
  <2>2. BatchOK'
    BY <1>10 DEF Ack, TypeInv, BatchOK, InHandOK
  <2>3. InHandOK'
    BY <1>10 DEF Ack, TypeInv, BatchOK, InHandOK
  <2>4. LogOK'
    BY <1>10 DEF Ack, TypeInv, InHandOK, LogOK
  <2>5. CounterOK'
    BY <1>10 DEF Ack, TypeInv, InHandOK, CounterOK
  <2>6. DeadLettersEarned'
    BY <1>10 DEF Ack, TypeInv, InHandOK,
               DeadLettersEarned
  <2> QED BY <2>1, <2>2, <2>3, <2>4, <2>5, <2>6
<1>11. CASE ClearCounter
  <2>1. TypeInv'
    BY <1>11 DEF ClearCounter, TypeInv
  <2>2. BatchOK'
    BY <1>11 DEF ClearCounter, TypeInv, BatchOK, InHandOK
  <2>3. InHandOK'
    BY <1>11 DEF ClearCounter, TypeInv, BatchOK, InHandOK
  <2>4. LogOK'
    BY <1>11 DEF ClearCounter, TypeInv, InHandOK, LogOK
  <2>5. CounterOK'
    BY <1>11 DEF ClearCounter, TypeInv, InHandOK, CounterOK
  <2>6. DeadLettersEarned'
    BY <1>11 DEF ClearCounter, TypeInv, InHandOK,
               DeadLettersEarned
  <2> QED BY <2>1, <2>2, <2>3, <2>4, <2>5, <2>6
<1>12. CASE Fail
  <2>1. TypeInv'
    BY <1>12 DEF Fail, Unmark, TypeInv, BatchOK, InHandOK
  <2>2. BatchOK'
    BY <1>12 DEF Fail, Unmark, TypeInv, BatchOK, InHandOK
  <2>3. InHandOK'
    BY <1>12 DEF Fail, Unmark, TypeInv, BatchOK, InHandOK
  <2>4. LogOK'
    BY <1>12 DEF Fail, Unmark, TypeInv, InHandOK, LogOK
  <2>5. CounterOK'
    BY <1>12 DEF Fail, Unmark, TypeInv, InHandOK, CounterOK
  <2>6. DeadLettersEarned'
    BY <1>12 DEF Fail, Unmark, TypeInv, InHandOK,
               DeadLettersEarned
  <2> QED BY <2>1, <2>2, <2>3, <2>4, <2>5, <2>6
<1>13. CASE Age
  <2>1. TypeInv'
    BY <1>13 DEF Age, TypeInv
  <2>2. BatchOK'
    BY <1>13 DEF Age, TypeInv, BatchOK, InHandOK
  <2>3. InHandOK'
    BY <1>13 DEF Age, TypeInv, BatchOK, InHandOK
  <2>4. LogOK'
    BY <1>13 DEF Age, TypeInv, InHandOK, LogOK
  <2>5. CounterOK'
    BY <1>13 DEF Age, TypeInv, InHandOK, CounterOK
  <2>6. DeadLettersEarned'
    BY <1>13 DEF Age, TypeInv, InHandOK,
               DeadLettersEarned
  <2> QED BY <2>1, <2>2, <2>3, <2>4, <2>5, <2>6
<1>14. CASE Toggle
  <2>1. TypeInv'
    BY <1>14 DEF Toggle, TypeInv
  <2>2. BatchOK'
    BY <1>14 DEF Toggle, TypeInv, BatchOK, InHandOK
  <2>3. InHandOK'
    BY <1>14 DEF Toggle, TypeInv, BatchOK, InHandOK
  <2>4. LogOK'
    BY <1>14 DEF Toggle, TypeInv, InHandOK, LogOK
  <2>5. CounterOK'
    BY <1>14 DEF Toggle, TypeInv, InHandOK, CounterOK
  <2>6. DeadLettersEarned'
    BY <1>14 DEF Toggle, TypeInv, InHandOK,
               DeadLettersEarned
  <2> QED BY <2>1, <2>2, <2>3, <2>4, <2>5, <2>6
<1>15. CASE Interrupt
  <2>1. TypeInv'
    BY <1>15 DEF Interrupt, Unmark, Looping, TypeInv, BatchOK, InHandOK
  <2>2. BatchOK'
    BY <1>15 DEF Interrupt, Unmark, Looping, TypeInv, BatchOK, InHandOK
  <2>3. InHandOK'
    BY <1>15 DEF Interrupt, Unmark, Looping, TypeInv, BatchOK, InHandOK
  <2>4. LogOK'
    BY <1>15 DEF Interrupt, Unmark, Looping, TypeInv, InHandOK, LogOK
  <2>5. CounterOK'
    BY <1>15 DEF Interrupt, Unmark, Looping, TypeInv, InHandOK, CounterOK
  <2>6. DeadLettersEarned'
    BY <1>15 DEF Interrupt, Unmark, Looping, TypeInv, InHandOK,
               DeadLettersEarned
  <2> QED BY <2>1, <2>2, <2>3, <2>4, <2>5, <2>6
<1>16. CASE UNCHANGED vars
  BY <1>16 DEF vars, TypeInv, BatchOK, InHandOK, LogOK, CounterOK,
               DeadLettersEarned
<1> QED
  BY <1>1, <1>2, <1>3, <1>4, <1>5, <1>6, <1>7, <1>8, <1>9, <1>10, <1>11,
     <1>12, <1>13, <1>14, <1>15, <1>16 DEF Next, Consume

(* The inductive invariant holds of every behaviour. *)
LEMMA Invariance == Spec => []IInv
<1>1. Init => IInv
  BY InitIInv
<1>2. IInv /\ [Next]_vars => IInv'
  BY StepIInv
<1> QED
  BY <1>1, <1>2, PTL DEF Spec

-----------------------------------------------------------------------------
(* Every variable keeps its type and the counters their bounds: an event
   passes MaxAttempts only by one interruption each time. *)
THEOREM TypeCorrect == Spec => []TypeOK
<1>1. IInv => TypeOK
  <2> SUFFICES ASSUME IInv PROVE TypeOK
    OBVIOUS
  <2> USE ConsumerAssumption DEF IInv, TypeInv
  <2>1. counter \in [Message -> 0..MaxAttempts + MaxInterrupts]
    BY DEF CounterOK
  <2>2. unmarked \in [Message -> 0..MaxFailures + MaxInterrupts]
    BY DEF LogOK
  <2> QED
    BY <2>1, <2>2 DEF TypeOK, BatchOK
<1> QED
  BY <1>1, Invariance, PTL

(* An event reaches the dead-letter queue for its own failures only. *)
THEOREM DeadLettersFair == Spec => []DeadLettersEarned
<1>1. IInv => DeadLettersEarned
  BY DEF IInv
<1> QED
  BY <1>1, Invariance, PTL

(* A ban is logged once, and again only for a mark that was lost. *)
THEOREM LogsSafe == Spec => []LogsAreAccounted
<1>1. IInv => LogsAreAccounted
  BY DEF IInv, TypeInv, LogOK, LogsAreAccounted
<1> QED
  BY <1>1, Invariance, PTL

(* The read loop implements StreamDelivery: nothing is acknowledged that was
   neither handled nor dead-lettered nor skipped. *)
THEOREM Implements == Spec => DeliverySpec
<1>1. Init => Delivery!DeliveryInit
  BY DEF Init, Delivery!DeliveryInit
<1>2. IInv /\ [Next]_vars => [Delivery!DeliveryNext]_(Delivery!svars)
  <2> SUFFICES ASSUME IInv, [Next]_vars
               PROVE  [Delivery!DeliveryNext]_(Delivery!svars)
    OBVIOUS
  <2> USE DEF IInv, At, InHand, Busy, Handler, After, Delivery!svars,
              Delivery!DeliveryNext
  <2>1. CASE Hook
    <3>1. InHand \in Message /\ InHand \notin Own \union settled
      BY <2>1 DEF Hook, InHandOK, BatchOK
    <3> QED
      BY <2>1, <3>1 DEF Hook, Delivery!Handle
  <2>2. CASE RouteToDlq
    <3>1. InHand \in Message /\ InHand \notin Own \union settled
      BY <2>2 DEF RouteToDlq, InHandOK, BatchOK
    <3> QED
      BY <2>2, <3>1 DEF RouteToDlq, Delivery!Bury
  <2>3. CASE Ack
    <3>1. InHand \in Message /\ InHand \in handled \union dead \union Own
      BY <2>3 DEF Ack, InHandOK
    <3> QED
      BY <2>3, <3>1 DEF Ack, Delivery!Settle
  <2>4. CASE ~(Hook \/ RouteToDlq \/ Ack)
    BY <2>4 DEF Next, Consume, Reclaim, Read, TakeNext, CheckMark, Post, Mark,
       Count, ClearCounter, Fail, Age, Toggle, Interrupt, vars, outcome
  <2> QED
    BY <2>1, <2>2, <2>3, <2>4
<1> QED
  BY <1>1, <1>2, Invariance, PTL
  DEF Spec, DeliverySpec, Delivery!DeliverySpec

-----------------------------------------------------------------------------
(* The role sync *)

Pending(p) == \E e \in Event : event[e].person = p /\ event[e].at # "done"
Coming(p) ==
  \E e \in Event : event[e].person = p /\ event[e].at \in {"lookup", "queued"}
Looking(p) ==
  \E e \in Event : event[e].person = p /\ event[e].at = "lookup"
Asking == call.at \in {"send", "wait"}
Removal == call.by \in Event /\ event[call.by].removed

EventRec ==
  [at : {"none", "lookup", "queued", "holding", "done"},
   person : Person \union {Nobody}, removed : BOOLEAN]
PassRec ==
  [at : {"idle", "members", "sending"}, left : SUBSET Person,
   fetched : RoleMap, seen : [Person -> Nat]]
CallRec ==
  [by : 0..Free, at : {"free", "fetch", "send", "wait"},
   person : Person \union {Nobody}, value : SUBSET Role, tries : 0..2]

SyncType ==
  /\ roles \in RoleMap /\ game \in RoleMap
  /\ inbox \in Seq([person : Person, value : SUBSET Role])
  /\ changes \in 0..MaxChanges
  /\ event \in [Event -> EventRec]
  /\ versions \in [Person -> Nat]
  /\ pass \in PassRec
  /\ call \in CallRec
  /\ losses \in 0..MaxLosses
  /\ excused \subseteq Person
  /\ had \in [Person -> SUBSET SUBSET Role]

(* An event of the future has not happened; the one that holds the lock is the
   one the lock names. *)
EventsOK ==
  \A e \in Event :
    /\ e > changes => event[e] = NoChange
    /\ event[e].at # "none" => event[e].person \in Person
    /\ event[e].at = "holding" <=> call.by = e

LockOK ==
  /\ call.at = "free" => call = Unlocked
  /\ call.at # "free" =>
       call.person \in Person /\ call.by \in Event \union {Pass}
  /\ call.at \in {"fetch", "send"} => call.tries < 2
  /\ call.by \in Event => event[call.by].person = call.person
  /\ Removal => Asking /\ call.value = {}
  /\ call.by = Pass =>
       /\ Asking /\ pass.at = "sending" /\ call.person \in pass.left
       /\ call.value \in had[call.person]

(* The pass has fetched the member and not yet dealt with it. *)
Collected(p) ==
  \/ pass.at = "members" /\ p \notin pass.left
  \/ pass.at = "sending" /\ p \in pass.left

SnapshotOK ==
  \A p \in Person :
    /\ roles[p] \in had[p]
    /\ pass.seen[p] <= versions[p]
    /\ Collected(p) =>
         /\ pass.fetched[p] \in had[p]
         /\ \/ pass.fetched[p] = roles[p] \/ p \in excused
            \/ Looking(p) \/ versions[p] # pass.seen[p]

AskedOK ==
  Asking =>
    \/ call.value = roles[call.person] \/ call.person \in excused
    \/ Coming(call.person) \/ Removal

InboxOK ==
  \A i \in DOMAIN inbox :
    inbox[i].person \in excused \/ (Asking /\ inbox[i] = Request)

DeliveredOK ==
  call.at = "wait" =>
    IF inbox = <<>> THEN game[call.person] = call.value
                    ELSE inbox[Len(inbox)] = Request

SyncIInv ==
  /\ SyncType /\ EventsOK /\ LockOK /\ SnapshotOK /\ AskedOK
  /\ InboxOK /\ DeliveredOK /\ NoSilentStale

(* Who may hold the lock: a handler, the pass or nobody. *)
LEMMA Holders ==
  /\ MaxChanges \in Nat /\ Free \in Nat /\ Pass \in Nat
  /\ Pass \notin Event /\ Free \notin Event /\ Free # Pass
  /\ Event \subseteq 0..Free /\ Pass \in 0..Free /\ Free \in 0..Free
  BY StaffSyncAssumption DEF Free, Pass, Event

(* No member has a role when the bot starts. *)
LEMMA InitSyncIInv == SyncInit => SyncIInv
<1> SUFFICES ASSUME SyncInit PROVE SyncIInv
  OBVIOUS
<1> USE Holders DEF SyncInit, NoRoles, NoChange, Unlocked, Asleep
<1>1. SyncType
  BY StaffSyncAssumption DEF SyncType, RoleMap, EventRec, CallRec, PassRec
<1>2. EventsOK /\ LockOK
  BY DEF EventsOK, LockOK, Removal, Asking
<1>3. SnapshotOK
  <2>1. pass.at = "idle" /\ pass.seen = [p \in Person |-> 0]
    OBVIOUS
  <2>2. \A p \in Person : /\ roles[p] \in had[p] /\ ~Collected(p)
                          /\ pass.seen[p] <= versions[p]
    <3> SUFFICES ASSUME NEW p \in Person PROVE pass.seen[p] <= versions[p]
      BY <2>1 DEF Collected
    <3>1. pass.seen[p] = 0 /\ versions[p] = 0
      BY <2>1
    <3> QED BY <3>1
  <2> QED BY <2>2 DEF SnapshotOK
<1>4. AskedOK /\ InboxOK /\ DeliveredOK /\ NoSilentStale
  BY DEF AskedOK, InboxOK, DeliveredOK, Asking, NoSilentStale
<1> QED BY <1>1, <1>2, <1>3, <1>4 DEF SyncIInv

(* A role change or departure, with its handler or lost. *)
LEMMA StepChange ==
  ASSUME SyncIInv, NEW p \in Person, NEW set \in SUBSET Role,
    NEW removed \in BOOLEAN,
         Change(p, set, removed)
  PROVE  SyncIInv'
<1> USE Holders DEF SyncIInv, Change
<1> DEFINE n == changes'
<1>1. n \in Event /\ n > changes /\ event[n] = NoChange /\ changes \in Nat
  <2>1. changes \in Nat /\ changes < MaxChanges /\ n = changes + 1
    BY DEF SyncType, EventRec, CallRec, PassRec
  <2>2. n \in Event /\ n > changes
    BY <2>1 DEF Event
  <2> QED BY <2>1, <2>2 DEF EventsOK
<1>2. n # call.by /\ call.at' = call.at /\ call' = call
  BY <1>1 DEF EventsOK, NoChange
<1>3. SyncType'
  <2>1. roles' \in RoleMap /\ had' \in [Person -> SUBSET SUBSET Role]
    BY DEF SyncType, RoleMap, EventRec, CallRec, PassRec
  <2>2. event' \in [Event -> EventRec]
    <3>1. CASE event' = event
      BY <3>1 DEF SyncType, EventRec, CallRec, PassRec
    <3>2. CASE event' = [event EXCEPT ![n] =
                 [at |-> "lookup", person |-> p, removed |-> removed]]
      BY <3>2, <1>1 DEF SyncType, EventRec, CallRec, PassRec
    <3> QED BY <3>1, <3>2
  <2>3. changes' \in 0..MaxChanges /\ losses' \in 0..MaxLosses
    BY <1>1, StaffSyncAssumption DEF SyncType, EventRec, CallRec, PassRec
  <2>4. excused' \subseteq Person
    BY DEF SyncType, EventRec, CallRec, PassRec
  <2> QED BY <2>1, <2>2, <2>3, <2>4 DEF SyncType, EventRec, CallRec, PassRec
<1>4. \A e \in Event : e # n => event'[e] = event[e]
  BY DEF SyncType, EventRec, CallRec, PassRec
<1>5. \/ event'[n] = [at |-> "lookup", person |-> p, removed |-> removed]
      \/ p \in excused' /\ event' = event
  BY <1>1 DEF SyncType, EventRec, CallRec, PassRec
<1>6. excused \subseteq excused'
  OBVIOUS
<1>7. EventsOK'
  BY <1>1, <1>2, <1>4, <1>5 DEF EventsOK, NoChange, Event
<1>8. /\ \A q \in Person : q # p => roles'[q] = roles[q]
      /\ \A q \in Person : had[q] \subseteq had'[q]
      /\ roles'[p] \in had'[p]
  BY DEF SyncType, RoleMap, EventRec, CallRec, PassRec
<1>9. LockOK'
  <2>1. call.by \in Event => event'[call.by] = event[call.by]
    BY <1>2, <1>4
  <2>2. Removal' <=> Removal
    BY <1>2, <2>1 DEF Removal
  <2>3. pass' = pass /\ call' = call
    OBVIOUS
  <2> QED BY <1>8, <2>1, <2>2, <2>3 DEF LockOK, Asking, Unlocked
<1>10. Looking(p)' \/ p \in excused'
  BY <1>1, <1>5 DEF Looking
<1>11. \A q \in Person : /\ Looking(q) => Looking(q)'
                         /\ Coming(q) => Coming(q)'
                         /\ Pending(q) => Pending(q)'
  <2> SUFFICES ASSUME NEW q \in Person, NEW e \in Event, event[e].person = q
               PROVE  event'[e] = event[e]
    BY DEF Looking, Coming, Pending
  <2> QED BY <1>1, <1>4, StaffSyncAssumption DEF NoChange
<1>12. SnapshotOK'
  BY <1>6, <1>8, <1>10, <1>11 DEF SnapshotOK, Collected
<1>13. Looking(p)' => Coming(p)' /\ Pending(p)'
  BY DEF Looking, Coming, Pending
<1>14. Removal => Removal'
  BY <1>2, <1>4 DEF Removal
<1>15. AskedOK'
  BY <1>2, <1>6, <1>8, <1>10, <1>11, <1>13, <1>14 DEF AskedOK, Asking, LockOK
<1>16. InboxOK' /\ DeliveredOK'
  BY <1>2, <1>6 DEF InboxOK, DeliveredOK, Asking, Request
<1>17. NoSilentStale'
  BY <1>6, <1>8, <1>10, <1>11, <1>13 DEF NoSilentStale, Pending
<1> QED
  BY <1>3, <1>7, <1>9, <1>12, <1>15, <1>16, <1>17

(* What the handlers and the pass leave alone. *)
LEMMA StepStarted ==
  ASSUME SyncIInv, NEW e \in Event, Started(e)
  PROVE  SyncIInv'
<1> USE Holders DEF SyncIInv, Started, Rest
<1> DEFINE p == event[e].person
<1>1. p \in Person /\ event[e].at = "lookup" /\ e # call.by
  BY DEF EventsOK
<1>2. event' = [event EXCEPT ![e].at = "queued"]
  OBVIOUS
<1>3. versions' = [versions EXCEPT ![p] = versions[p] + 1]
  OBVIOUS
<1>4. SyncType'
  <2>1. event' \in [Event -> EventRec]
    BY <1>2 DEF SyncType, EventRec, CallRec, PassRec
  <2>2. versions' \in [Person -> Nat]
    BY <1>1, <1>3 DEF SyncType, EventRec, CallRec, PassRec
  <2> QED BY <2>1, <2>2 DEF SyncType, EventRec, CallRec, PassRec
<1>5. \A f \in Event : /\ event'[f].person = event[f].person
                       /\ event'[f].removed = event[f].removed
                       /\ f # e => event'[f] = event[f]
  BY <1>2 DEF SyncType, EventRec, CallRec, PassRec
<1>6. event'[e].at = "queued"
  BY <1>2 DEF SyncType, EventRec, CallRec, PassRec
<1>7. EventsOK'
  <2> SUFFICES ASSUME NEW f \in Event
               PROVE  /\ f > changes => event'[f] = NoChange
                      /\ event'[f].at # "none" => event'[f].person \in Person
                      /\ event'[f].at = "holding" <=> call.by = f
    BY DEF EventsOK
  <2>1. CASE f = e
    BY <1>1, <1>5, <1>6, <2>1 DEF EventsOK, NoChange
  <2>2. CASE f # e
    BY <1>5, <2>2 DEF EventsOK
  <2> QED BY <2>1, <2>2
<1>8. LockOK'
  BY <1>5 DEF LockOK, Removal, Asking, Unlocked
<1>9. \A q \in Person : /\ Coming(q) => Coming(q)'
                        /\ Pending(q) => Pending(q)'
                        /\ q # p => (Looking(q) => Looking(q)')
  BY <1>1, <1>5, <1>6 DEF Coming, Pending, Looking
<1>10. SnapshotOK'
  <2> SUFFICES ASSUME NEW q \in Person
               PROVE  /\ pass.seen[q] <= versions'[q]
                      /\ Collected(q) =>
                          \/ pass.fetched[q] = roles[q] \/ q \in excused
                          \/ Looking(q)' \/ versions'[q] # pass.seen[q]
    BY DEF SnapshotOK, Collected
  <2>1. pass.seen[q] \in Nat /\ versions[q] \in Nat /\ pass.seen[q] <= versions[q]
    BY DEF SnapshotOK, SyncType, EventRec, CallRec, PassRec
  <2>2. CASE q = p
    BY <1>3, <2>1, <2>2 DEF SyncType, EventRec, CallRec, PassRec
  <2>3. CASE q # p
    <3>1. versions'[q] = versions[q]
      BY <1>3, <2>3 DEF SyncType, EventRec, CallRec, PassRec
    <3> QED BY <1>9, <2>1, <2>3, <3>1 DEF SnapshotOK
  <2> QED BY <2>2, <2>3
<1>11. Removal => Removal'
  BY <1>5 DEF Removal
<1>12. AskedOK'
  BY <1>9, <1>11 DEF AskedOK, Asking, LockOK
<1>13. InboxOK' /\ DeliveredOK'
  BY DEF InboxOK, DeliveredOK, Asking, Request
<1>14. NoSilentStale'
  BY <1>9 DEF NoSilentStale, Pending
<1> QED BY <1>4, <1>7, <1>8, <1>10, <1>12, <1>13, <1>14

(* It gets the lock: to read the roles, or to send the removal it is for. *)
LEMMA StepHold ==
  ASSUME SyncIInv, NEW e \in Event, Hold(e)
  PROVE  SyncIInv'
<1> USE Holders DEF SyncIInv, Hold, Rest
<1> DEFINE p == event[e].person
           at == IF event[e].removed THEN "send" ELSE "fetch"
<1>1. p \in Person /\ event[e].at = "queued" /\ ~Asking /\ call.by \notin Event
  BY DEF EventsOK, Asking, Unlocked
<1>2. event' = [event EXCEPT ![e].at = "holding"]
  OBVIOUS
<1>3. call' = [by |-> e, at |-> at, person |-> p, value |-> {}, tries |-> 0]
  BY DEF Unlocked
<1>4. SyncType'
  <2>1. event' \in [Event -> EventRec]
    BY <1>2 DEF SyncType, EventRec, CallRec, PassRec
  <2>2. call' \in CallRec
    <3>1. at \in {"free", "fetch", "send", "wait"} /\ e \in 0..Free
      OBVIOUS
    <3> HIDE DEF at, p
    <3> QED BY <1>1, <1>3, <3>1 DEF CallRec
  <2> QED BY <2>1, <2>2 DEF SyncType, EventRec, CallRec, PassRec
<1>5. \A f \in Event : /\ event'[f].person = event[f].person
                       /\ event'[f].removed = event[f].removed
                       /\ f # e => event'[f] = event[f]
  BY <1>2 DEF SyncType, EventRec, CallRec, PassRec
<1>6. event'[e].at = "holding"
  BY <1>2 DEF SyncType, EventRec, CallRec, PassRec
<1>7. EventsOK'
  <2> SUFFICES ASSUME NEW f \in Event
               PROVE  /\ f > changes => event'[f] = NoChange
                      /\ event'[f].at # "none" => event'[f].person \in Person
                      /\ event'[f].at = "holding" <=> call'.by = f
    BY DEF EventsOK
  <2>1. CASE f = e
    BY <1>1, <1>3, <1>5, <1>6, <2>1 DEF EventsOK, NoChange
  <2>2. CASE f # e
    BY <1>1, <1>3, <1>5, <2>2 DEF EventsOK
  <2> QED BY <2>1, <2>2
<1>8. LockOK'
  <2>1. /\ call'.at \in {"send", "fetch"} /\ call'.by = e /\ call'.person = p
        /\ call'.value = {} /\ call'.tries = 0
        /\ event[e].removed => call'.at = "send"
    <3>1. at \in {"send", "fetch"} /\ (event[e].removed => at = "send")
      OBVIOUS
    <3> HIDE DEF at, p, Hold
    <3>2. /\ call'.at = at /\ call'.by = e /\ call'.person = p
          /\ call'.value = {} /\ call'.tries = 0
      BY <1>3
    <3> QED BY <3>1, <3>2
  <2>2. Removal' => event[e].removed
    BY <2>1, <1>5 DEF Removal
  <2> HIDE DEF p
  <2> QED BY <1>1, <1>5, <2>1, <2>2 DEF LockOK, Asking
<1>9. \A q \in Person : /\ Pending(q) => Pending(q)'
                        /\ Looking(q) => Looking(q)'
  BY <1>1, <1>5, <1>6 DEF Pending, Looking
<1>10. SnapshotOK'
  BY <1>9 DEF SnapshotOK, Collected
<1>11. AskedOK'
  BY <1>3, <1>5 DEF AskedOK, Asking, Removal
<1>12. InboxOK' /\ DeliveredOK'
  BY <1>1, <1>3 DEF InboxOK, DeliveredOK, Asking
<1>13. NoSilentStale'
  BY <1>9 DEF NoSilentStale, Pending
<1> QED BY <1>4, <1>7, <1>8, <1>10, <1>11, <1>12, <1>13

(* It reads the roles of the moment. *)
LEMMA StepFetch ==
  ASSUME SyncIInv, Fetch
  PROVE  SyncIInv'
<1> USE Holders DEF SyncIInv, Fetch, Rest
<1>1. /\ call.person \in Person /\ ~Asking /\ ~Removal
      /\ call.by \in Event
  BY DEF LockOK, Asking
<1>2. /\ call'.at = "send" /\ call'.value = roles[call.person]
      /\ call'.by = call.by /\ call'.person = call.person
      /\ call'.tries = call.tries
  BY DEF SyncType, EventRec, CallRec, PassRec
<1>3. SyncType'
  <2>1. roles[call.person] \in SUBSET Role
    BY <1>1 DEF SyncType, RoleMap
  <2>2. call' \in CallRec
    BY <2>1 DEF SyncType, CallRec
  <2> QED BY <2>2 DEF SyncType
<1>4. EventsOK'
  BY <1>2 DEF EventsOK
<1>5. LockOK'
  BY <1>1, <1>2 DEF LockOK, Removal, Asking
<1>6. SnapshotOK'
  BY DEF SnapshotOK, Collected, Looking
<1>7. AskedOK'
  BY <1>1, <1>2 DEF AskedOK
<1>8. InboxOK' /\ DeliveredOK'
  BY <1>1, <1>2 DEF InboxOK, DeliveredOK
<1>9. NoSilentStale'
  BY DEF NoSilentStale
<1> QED BY <1>3, <1>4, <1>5, <1>6, <1>7, <1>8, <1>9

(* A request is put behind those already in the stream. *)
LEMMA StepSend ==
  ASSUME SyncIInv, Send
  PROVE  SyncIInv'
<1> USE Holders DEF SyncIInv, Send, Rest
<1>1. /\ call'.at = "wait" /\ call'.value = call.value
      /\ call'.by = call.by /\ call'.person = call.person
      /\ call'.tries = call.tries + 1
  BY DEF SyncType, CallRec
<1>2. call.person \in Person /\ Asking /\ call.tries \in 0..1
  BY DEF LockOK, Asking, SyncType, CallRec
<1>3. Request \in [person : Person, value : SUBSET Role]
  BY <1>2 DEF Request, SyncType, CallRec
<1>4. /\ inbox' \in Seq([person : Person, value : SUBSET Role])
      /\ Len(inbox') = Len(inbox) + 1 /\ Len(inbox) \in Nat
      /\ inbox'[Len(inbox')] = Request
      /\ \A i \in 1..Len(inbox) : inbox'[i] = inbox[i]
  BY <1>3 DEF SyncType
<1>5. SyncType'
  <2>1. call.tries + 1 \in 0..2
    BY <1>2
  <2>2. call' \in CallRec
    BY <2>1 DEF SyncType, CallRec
  <2> QED BY <1>4, <2>2 DEF SyncType
<1>6. Request' = Request
  BY <1>1 DEF Request
<1>7. EventsOK' /\ SnapshotOK' /\ NoSilentStale'
  BY <1>1 DEF EventsOK, SnapshotOK, Collected, Looking, NoSilentStale
<1>8. LockOK'
  BY <1>1, <1>2 DEF LockOK, Removal, Asking
<1>9. AskedOK'
  BY <1>1, <1>2 DEF AskedOK, Asking, Coming, Removal
<1>10. InboxOK'
  BY <1>1, <1>2, <1>4, <1>6 DEF InboxOK, Asking, SyncType
<1>11. DeliveredOK'
  BY <1>4, <1>6 DEF DeliveredOK
<1> QED BY <1>5, <1>7, <1>8, <1>9, <1>10, <1>11

(* The server applies the oldest request: the holder's, or one given up. *)
LEMMA StepApply ==
  ASSUME SyncIInv, Apply
  PROVE  SyncIInv'
<1> USE Holders DEF SyncIInv, Apply
<1> DEFINE h == Head(inbox)
<1>1. /\ Len(inbox) \in Nat \ {0} /\ h = inbox[1] /\ 1 \in DOMAIN inbox
      /\ h \in [person : Person, value : SUBSET Role]
      /\ inbox' \in Seq([person : Person, value : SUBSET Role])
      /\ Len(inbox') = Len(inbox) - 1
      /\ \A i \in 1..Len(inbox') : inbox'[i] = inbox[i + 1]
  <2>1. inbox \in Seq([person : Person, value : SUBSET Role]) /\ inbox # <<>>
    BY DEF SyncType
  <2>2. Len(inbox) \in Nat \ {0} /\ DOMAIN inbox = 1..Len(inbox)
    BY <2>1
  <2>3. h = inbox[1] /\ h \in [person : Person, value : SUBSET Role]
    <3>1. h = inbox[1]
      BY <2>1
    <3>2. inbox[1] \in [person : Person, value : SUBSET Role]
      <4> DEFINE R == [person : Person, value : SUBSET Role]
      <4>1. inbox \in Seq(R) /\ 1 \in 1..Len(inbox)
        BY <2>1, <2>2
      <4> HIDE DEF R
      <4>2. inbox[1] \in R
        BY <4>1, ElementOfSeq
      <4> QED BY <4>2 DEF R
    <3> QED BY <3>1, <3>2
  <2>4. /\ inbox' \in Seq([person : Person, value : SUBSET Role])
        /\ Len(inbox') = Len(inbox) - 1
        /\ \A i \in 1..Len(inbox') : inbox'[i] = inbox[i + 1]
    BY <2>1, HeadTailProperties
  <2> QED BY <2>2, <2>3, <2>4
<1>2. game' = [game EXCEPT ![h.person] = h.value]
  OBVIOUS
<1> HIDE DEF h
<1>3. SyncType'
  <2>1. game' \in RoleMap
    BY <1>1, <1>2 DEF SyncType, RoleMap
  <2> QED BY <1>1, <2>1 DEF SyncType
<1>4. EventsOK' /\ LockOK' /\ SnapshotOK' /\ AskedOK'
  BY DEF EventsOK, LockOK, SnapshotOK, AskedOK, Collected, Looking, Coming,
         Removal, Asking
<1>5. InboxOK'
  BY <1>1 DEF InboxOK, SyncType, Request, Asking
<1>6. h.person \in excused \/ (Asking /\ h = Request)
  BY <1>1 DEF InboxOK
<1>7. DeliveredOK'
  <2> SUFFICES ASSUME call.at = "wait"
               PROVE  IF inbox' = <<>> THEN game'[call.person] = call.value
                      ELSE inbox'[Len(inbox')] = Request
    BY DEF DeliveredOK, Request
  <2>1. inbox[Len(inbox)] = Request
    BY <1>1 DEF DeliveredOK
  <2>2. CASE Len(inbox) = 1
    <3>1. h.person = call.person /\ h.value = call.value
      BY <1>1, <2>1, <2>2 DEF Request
    <3>2. inbox' = <<>>
      BY <1>1, <2>2
    <3> QED BY <1>1, <1>2, <3>1, <3>2 DEF SyncType, RoleMap
  <2>3. CASE Len(inbox) # 1
    <3>1. Len(inbox') \in 1..Len(inbox') /\ Len(inbox') + 1 = Len(inbox)
      BY <1>1, <2>3
    <3>2. inbox' # <<>>
      <4> HIDE DEF Apply, SyncIInv
      <4>1. Len(inbox') # 0
        BY <3>1
      <4> QED BY <4>1
    <3> QED BY <1>1, <2>1, <3>1, <3>2
  <2> QED BY <2>2, <2>3
<1>8. NoSilentStale'
  <2> SUFFICES ASSUME NEW p \in Person, ~Pending(p), p \notin excused
               PROVE  game'[p] = roles[p]
    BY DEF NoSilentStale, Pending
  <2>1. game[p] = roles[p]
    BY DEF NoSilentStale, Pending
  <2>2. CASE h.person # p
    BY <1>2, <2>1, <2>2 DEF SyncType, RoleMap
  <2>3. CASE h.person = p
    <3>1. Asking /\ call.person = p /\ h.value = call.value
      BY <1>6, <2>3 DEF Request
    <3>2. ~Coming(p)
      BY DEF Coming, Pending
    <3>3. ~Removal
      BY <3>1 DEF Removal, LockOK, EventsOK, Pending
    <3>4. call.value = roles[p]
      BY <3>1, <3>2, <3>3 DEF AskedOK
    <3> QED BY <1>2, <2>3, <3>1, <3>4 DEF SyncType, RoleMap
  <2> QED BY <2>2, <2>3
<1> QED BY <1>3, <1>4, <1>5, <1>7, <1>8

(* The holder of the lock leaves it: what is left of its request was asked for
   a member who is excused. *)
LEMMA Released ==
  ASSUME SyncIInv, Release, call.at # "free", Rest,
         versions' = versions, inbox' \in {inbox, <<>>},
         losses' \in 0..MaxLosses,
         excused' \subseteq Person,
         excused \ {call.person} \subseteq excused',
         ~(call.by = Pass) => excused \subseteq excused',
         inbox' = <<>> \/ call.person \in excused',
         \/ call.person \in excused'
         \/ game[call.person] = roles[call.person]
         \/ Coming(call.person)
  PROVE  SyncIInv'
<1> USE Holders DEF SyncIInv, Release, Rest
<1> DEFINE p == call.person
           e == call.by
<1>1. /\ p \in Person /\ e \in Event \union {Pass}
      /\ call' = Unlocked /\ call'.at = "free" /\ call'.by = Free /\ ~Asking'
  BY DEF LockOK, Unlocked, Asking
<1>4. AskedOK' /\ InboxOK' /\ DeliveredOK'
  <2>1. \A i \in DOMAIN inbox' : inbox'[i].person \in excused'
    <3> SUFFICES ASSUME NEW i \in DOMAIN inbox', inbox'[i].person # p
                 PROVE  inbox'[i].person \in excused'
      OBVIOUS
    <3>1. inbox' = inbox
      OBVIOUS
    <3>2. inbox[i].person \in excused
      BY <3>1 DEF InboxOK, Request
    <3> QED BY <3>1, <3>2
  <2> QED BY <1>1, <2>1 DEF AskedOK, InboxOK, DeliveredOK
<1>5. inbox' \in Seq([person : Person, value : SUBSET Role])
  <2> DEFINE R == [person : Person, value : SUBSET Role]
  <2>1. inbox \in Seq(R)
    BY DEF SyncType
  <2> HIDE DEF R
  <2>2. <<>> \in Seq(R)
    OBVIOUS
  <2>3. inbox' \in Seq(R)
    BY <2>1, <2>2
  <2> QED BY <2>3 DEF R
<1>2. CASE e = Pass
  <2>1. /\ event' = event /\ pass' = [pass EXCEPT !.left = pass.left \ {p}]
        /\ pass.at = "sending"
    BY <1>2 DEF LockOK
  <2>2. /\ pass' \in PassRec /\ pass'.at = "sending" /\ pass'.left = pass.left \ {p}
        /\ pass'.fetched = pass.fetched /\ pass'.seen = pass.seen
    BY <2>1 DEF SyncType, PassRec
  <2>3. SyncType'
    BY <1>1, <1>5, <2>1, <2>2 DEF SyncType, CallRec, Unlocked
  <2>4. EventsOK'
    BY <1>1, <1>2, <2>1 DEF EventsOK
  <2>5. LockOK'
    BY <1>1 DEF LockOK, Removal
  <2>6. SnapshotOK'
    BY <2>1, <2>2 DEF SnapshotOK, Collected, Looking
  <2>7. NoSilentStale'
    BY <1>1, <2>1 DEF NoSilentStale, Coming
  <2> QED BY <1>4, <2>3, <2>4, <2>5, <2>6, <2>7
<1>3. CASE e # Pass
  <2>1. /\ event' = [event EXCEPT ![e].at = "done"] /\ pass' = pass /\ e \in Event
        /\ excused \subseteq excused'
    BY <1>1, <1>3
  <2>2. event[e].at = "holding" /\ event[e].person = p
    BY <2>1 DEF EventsOK, LockOK
  <2>3. /\ event' \in [Event -> EventRec] /\ event'[e].at = "done"
        /\ event'[e].person = p
        /\ \A f \in Event : f # e => event'[f] = event[f]
    BY <2>1, <2>2 DEF SyncType, EventRec
  <2>4. SyncType'
    BY <1>1, <1>5, <2>1, <2>3 DEF SyncType, CallRec, Unlocked
  <2>5. EventsOK'
    <3> SUFFICES ASSUME NEW f \in Event
                 PROVE  /\ f > changes => event'[f] = NoChange
                        /\ event'[f].at # "none" => event'[f].person \in Person
                        /\ event'[f].at = "holding" <=> call'.by = f
      BY DEF EventsOK
    <3>1. CASE f = e
      BY <1>1, <2>2, <2>3, <3>1 DEF EventsOK, NoChange
    <3>2. CASE f # e
      BY <1>1, <2>3, <3>2 DEF EventsOK
    <3> QED BY <3>1, <3>2
  <2>6. LockOK'
    BY <1>1 DEF LockOK, Removal
  <2>7. \A q \in Person : /\ Looking(q) => Looking(q)'
                          /\ q # p => (Pending(q) => Pending(q)')
    BY <2>2, <2>3 DEF Looking, Pending
  <2>8. ASSUME NEW q \in Person, Coming(q) PROVE Pending(q)'
    <3>1. PICK f \in Event : event[f].person = q /\ event[f].at \in {"lookup",
      "queued"}
      BY <2>8 DEF Coming
    <3>2. event'[f] = event[f]
      BY <2>2, <2>3, <3>1
    <3> QED BY <3>1, <3>2 DEF Pending
  <2>9. SnapshotOK'
    BY <2>1, <2>7 DEF SnapshotOK, Collected
  <2>10. NoSilentStale'
    <3>1. \A q \in Person : game[q] = roles[q] \/ Pending(q) \/ q \in excused
      BY DEF NoSilentStale, Pending
    <3>2. \A q \in Person : game[q] = roles[q] \/ Pending(q)' \/ q \in excused'
      <4> SUFFICES ASSUME NEW q \in Person
                   PROVE  game[q] = roles[q] \/ Pending(q)' \/ q \in excused'
        OBVIOUS
      <4>1. CASE q = p
        BY <2>8, <4>1
      <4>2. CASE q # p
        BY <2>1, <2>7, <3>1, <4>2
      <4> QED BY <4>1, <4>2
    <3> QED BY <3>2 DEF NoSilentStale, Pending
  <2> QED BY <1>4, <2>4, <2>5, <2>6, <2>9, <2>10
<1> QED BY <1>2, <1>3

(* The roles of a member cannot be read. *)
LEMMA StepFetchFails ==
  ASSUME SyncIInv, FetchFails
  PROVE  SyncIInv'
<1> USE DEF FetchFails
<1>1. losses' \in 0..MaxLosses
  BY StaffSyncAssumption DEF SyncIInv, SyncType
<1>2. call.person \in Person
  BY DEF SyncIInv, LockOK
<1> QED BY <1>1, <1>2, Released DEF SyncIInv, SyncType

(* No answer in time: sent once more, or given up. *)
LEMMA StepTimedOut ==
  ASSUME SyncIInv, TimedOut
  PROVE  SyncIInv'
<1> USE Holders DEF TimedOut
<1>1. losses' \in 0..MaxLosses
  BY StaffSyncAssumption DEF SyncIInv, SyncType
<1>2. call.person \in Person
  BY DEF SyncIInv, LockOK
<1>3. CASE excused' = excused \union {call.person} /\ Release
  BY <1>1, <1>2, <1>3, Released DEF SyncIInv, SyncType
<1>4. CASE /\ call.tries < 2
           /\ call' = [call EXCEPT !.at = "send"]
           /\ UNCHANGED <<event, pass, excused>>
  <2>1. /\ call'.at = "send" /\ call'.by = call.by /\ call'.person = call.person
        /\ call'.value = call.value /\ call'.tries = call.tries /\ call' \in CallRec
        /\ Asking /\ Asking'
    BY <1>4 DEF SyncIInv, SyncType, CallRec, Asking
  <2>2. SyncType'
    BY <1>1, <1>4, <2>1 DEF SyncIInv, SyncType, Rest
  <2>3. EventsOK' /\ SnapshotOK' /\ NoSilentStale'
    BY <1>4, <2>1
    DEF SyncIInv, EventsOK, SnapshotOK, Collected, Looking, NoSilentStale, Rest
  <2>4. LockOK'
    BY <1>4, <2>1 DEF SyncIInv, LockOK, Removal, Rest
  <2>5. AskedOK' /\ InboxOK' /\ DeliveredOK'
    BY <1>4, <2>1
    DEF SyncIInv, AskedOK, InboxOK, DeliveredOK, Coming, Removal, Request, Rest
  <2> QED BY <2>2, <2>3, <2>4, <2>5 DEF SyncIInv
<1> QED BY <1>3, <1>4

(* The server did not carry the request out: sent once more or given up, and
   the pass may end with it. *)
LEMMA StepFailed ==
  ASSUME SyncIInv, Failed
  PROVE  SyncIInv'
<1> USE Holders DEF Failed
<1>1. losses' \in 0..MaxLosses
  BY StaffSyncAssumption DEF SyncIInv, SyncType
<1>2. call.person \in Person
  BY DEF SyncIInv, LockOK
<1>3. CASE excused' = excused \union {call.person} /\ Release
  BY <1>1, <1>2, <1>3, Released DEF SyncIInv, SyncType
<1>4. CASE /\ call.tries < 2
           /\ call' = [call EXCEPT !.at = "send"]
           /\ UNCHANGED <<event, pass, excused>>
  <2>1. /\ call'.at = "send" /\ call'.by = call.by /\ call'.person = call.person
        /\ call'.value = call.value /\ call'.tries = call.tries /\ call' \in CallRec
        /\ Asking /\ Asking'
    BY <1>4 DEF SyncIInv, SyncType, CallRec, Asking
  <2>2. SyncType'
    BY <1>1, <1>4, <2>1 DEF SyncIInv, SyncType, Rest
  <2>3. EventsOK' /\ SnapshotOK' /\ NoSilentStale'
    BY <1>4, <2>1
    DEF SyncIInv, EventsOK, SnapshotOK, Collected, Looking, NoSilentStale, Rest
  <2>4. LockOK'
    BY <1>4, <2>1 DEF SyncIInv, LockOK, Removal, Rest
  <2>5. AskedOK' /\ InboxOK' /\ DeliveredOK'
    BY <1>4, <2>1
    DEF SyncIInv, AskedOK, InboxOK, DeliveredOK, Coming, Removal, Request, Rest
  <2> QED BY <2>2, <2>3, <2>4, <2>5 DEF SyncIInv
<1>5. CASE /\ call.by = Pass
           /\ excused' = excused \union {call.person}
           /\ call' = Unlocked /\ pass' = Asleep
           /\ UNCHANGED event
  <2> USE DEF SyncIInv
  <2>1. /\ call'.at = "free" /\ call'.by = Free /\ ~Asking' /\ call' \in CallRec
        /\ pass'.at = "idle" /\ pass'.seen = [p \in Person |-> 0]
        /\ pass' \in PassRec
    BY <1>5 DEF Unlocked, Asking, Asleep, NoRoles, CallRec, PassRec, RoleMap
  <2>2. SyncType'
    BY <1>1, <1>2, <1>5, <2>1 DEF SyncType, Rest
  <2>3. EventsOK'
    BY <1>5, <2>1 DEF EventsOK, Rest
  <2>7. LockOK'
    BY <1>5, <2>1 DEF LockOK, Removal
  <2>4. SnapshotOK'
    BY <2>1 DEF SnapshotOK, Collected, SyncType, Rest
  <2>5. AskedOK' /\ InboxOK' /\ DeliveredOK'
    BY <2>1 DEF AskedOK, InboxOK, DeliveredOK
  <2>6. NoSilentStale'
    BY <1>5 DEF NoSilentStale, Rest
  <2> QED BY <2>2, <2>3, <2>4, <2>5, <2>6, <2>7
<1> QED BY <1>3, <1>4, <1>5

(* The server has applied every request, the holder's last. *)
LEMMA StepAnswered ==
  ASSUME SyncIInv, Answered
  PROVE  SyncIInv'
<1> USE Holders DEF Answered, SyncIInv
<1>1. call.person \in Person /\ call.by \in Event \union {Pass} /\ Asking
  BY DEF LockOK, Asking
<1>2. game[call.person] = call.value
  BY DEF DeliveredOK
<1>3. CASE call.by = Pass /\ call.value = roles[call.person]
  BY <1>1, <1>2, <1>3, Released DEF SyncType
<1>4. CASE ~(call.by = Pass /\ call.value = roles[call.person])
  <2>1. excused' = excused \union {p \in {call.person} : Late}
    BY <1>4
  <2>2. CASE call.value = roles[call.person] \/ call.person \in excused
               \/ Coming(call.person)
    BY <1>1, <1>2, <2>1, <2>2, Released DEF SyncType
  <2>3. CASE Removal
    <3>1. call.value = {} /\ call.by # Pass /\ event[call.by].removed
      BY <2>3 DEF LockOK, Removal
    <3>2. call.person \in excused' \/ roles[call.person] = {}
      BY <2>1, <3>1 DEF Late
    <3> QED BY <1>1, <1>2, <2>1, <3>1, <3>2, Released DEF SyncType
  <2> QED BY <1>1, <2>2, <2>3 DEF AskedOK
<1> QED BY <1>3, <1>4

(* The pass collects: only its own state changes, and the lock is another's. *)
LEMMA StepPassAlone ==
  ASSUME SyncIInv, UNCHANGED <<roles, game, inbox, changes, event, versions, call,
    excused>>,
         losses' \in 0..MaxLosses,
         had' \in [Person -> SUBSET SUBSET Role], pass' \in PassRec,
         \/ call.by # Pass
         \/ had' = had /\ pass'.at = pass.at /\ call.person \in pass'.left,
         SnapshotOK'
  PROVE  SyncIInv'
<1> USE Holders DEF SyncIInv
<1>1. SyncType'
  BY DEF SyncType
<1>2. EventsOK' /\ AskedOK' /\ InboxOK' /\ DeliveredOK' /\ NoSilentStale'
  BY DEF EventsOK, AskedOK, InboxOK, DeliveredOK, NoSilentStale, Asking, Coming,
         Removal, Request
<1>3. LockOK'
  BY DEF LockOK, Asking, Removal, Unlocked
<1> QED BY <1>1, <1>2, <1>3

(* The pass begins, reads a member, has read all, ends or fails. *)
LEMMA StepCollect ==
  ASSUME SyncIInv,
         \/ Begin \/ AllFetched \/ Finish \/ PageFails
         \/ \E p \in Person : FetchMember(p)
  PROVE  SyncIInv'
<1> USE Holders
<1>1. CASE Begin
  <2>1. call.by # Pass
    BY <1>1 DEF Begin, SyncIInv, LockOK
  <2>2. /\ pass' = [at |-> "members", left |-> Person, fetched |-> NoRoles,
                    seen |-> versions]
        /\ had' = [p \in Person |-> {roles[p]}]
    BY <1>1 DEF Begin, Asleep
  <2>3. had' \in [Person -> SUBSET SUBSET Role] /\ pass' \in PassRec
    BY <2>2 DEF SyncIInv, SyncType, RoleMap, PassRec, NoRoles
  <2>4. SnapshotOK'
    <3> SUFFICES ASSUME NEW p \in Person
                 PROVE  roles[p] \in had'[p] /\ versions[p] <= versions[p]
      BY <1>1, <2>2 DEF SnapshotOK, Collected, Begin
    <3> QED BY <2>2 DEF SyncIInv, SyncType
  <2> QED BY <1>1, <2>1, <2>3, <2>4, StepPassAlone DEF Begin, SyncIInv, SyncType
<1>2. ASSUME NEW p \in Person, FetchMember(p)
      PROVE  SyncIInv'
  <2>1. call.by # Pass /\ had' = had
    BY <1>2 DEF FetchMember, SyncIInv, LockOK, Rest
  <2>2. /\ pass'.at = "members" /\ pass'.left = pass.left \ {p}
        /\ pass'.fetched = [pass.fetched EXCEPT ![p] = roles[p]]
        /\ pass'.seen = pass.seen /\ pass' \in PassRec
    BY <1>2 DEF FetchMember, SyncIInv, SyncType, PassRec, RoleMap
  <2>3. SnapshotOK'
    <3> SUFFICES ASSUME NEW q \in Person
                 PROVE  Collected(q)' =>
                   /\ pass'.fetched[q] \in had[q]
                   /\ \/ pass'.fetched[q] = roles[q] \/ q \in excused
                      \/ Looking(q) \/ versions[q] # pass.seen[q]
      BY <1>2, <2>1, <2>2 DEF SyncIInv, SnapshotOK, FetchMember, Rest, Looking
    <3>1. CASE q = p
      BY <2>2, <3>1 DEF SyncIInv, SnapshotOK, SyncType, PassRec, RoleMap
    <3>2. CASE q # p
      <4>1. pass'.fetched[q] = pass.fetched[q]
        BY <2>2, <3>2 DEF SyncIInv, SyncType, PassRec, RoleMap
      <4>2. Collected(q)' => Collected(q)
        BY <1>2, <2>2, <3>2 DEF Collected, FetchMember
      <4> QED BY <4>1, <4>2 DEF SyncIInv, SnapshotOK
    <3> QED BY <3>1, <3>2
  <2> QED BY <1>2, <2>1, <2>2, <2>3, StepPassAlone
  DEF FetchMember, Rest, SyncIInv, SyncType
<1>3. CASE AllFetched
  <2>1. call.by # Pass /\ had' = had
    BY <1>3 DEF AllFetched, SyncIInv, LockOK, Rest
  <2>2. /\ pass'.at = "sending" /\ pass'.left = Person
        /\ pass'.fetched = pass.fetched /\ pass'.seen = pass.seen
        /\ pass' \in PassRec
    BY <1>3 DEF AllFetched, SyncIInv, SyncType, PassRec
  <2>3. SnapshotOK'
    <3>1. \A p \in Person : Collected(p)
      BY <1>3 DEF AllFetched, Collected
    <3> QED BY <1>3, <2>1, <2>2, <3>1
    DEF AllFetched, Rest, SyncIInv, SnapshotOK, Looking
  <2> QED BY <1>3, <2>1, <2>2, <2>3, StepPassAlone
  DEF AllFetched, Rest, SyncIInv, SyncType
<1>4. CASE Finish \/ PageFails
  <2>1. call.by # Pass /\ had' = had /\ pass' = Asleep
    BY <1>4 DEF Finish, PageFails, SyncIInv, LockOK, Rest
  <2>2. /\ pass' \in PassRec /\ pass'.at = "idle"
        /\ \A p \in Person : pass'.seen[p] = 0
    BY <2>1 DEF Asleep, PassRec, NoRoles, RoleMap
  <2>3. SnapshotOK'
    <3>1. ASSUME NEW p \in Person PROVE 0 <= versions[p]
      <4>1. versions[p] \in Nat
        BY DEF SyncIInv, SyncType
      <4> QED BY <4>1
    <3> QED BY <1>4, <2>1, <2>2, <3>1
            DEF Finish, PageFails, Rest, SyncIInv, SnapshotOK, Collected
  <2>4. losses' \in 0..MaxLosses
    BY <1>4, StaffSyncAssumption DEF Finish, PageFails, SyncIInv, SyncType
  <2> QED BY <1>4, <2>1, <2>2, <2>3, <2>4, StepPassAlone
          DEF Finish, PageFails, Rest, SyncIInv, SyncType
<1> QED BY <1>1, <1>2, <1>3, <1>4

(* The pass sends what it read, unless the member changed since. *)
LEMMA StepPassSync ==
  ASSUME SyncIInv, NEW p \in Person, PassSync(p)
  PROVE  SyncIInv'
<1> USE Holders DEF SyncIInv, PassSync, Rest
<1>1. call = Unlocked /\ ~Asking /\ call.by = Free
  BY DEF Asking, Unlocked
<1>2. CASE ~Unchanged(p) /\ call' = call /\ pass' = [pass EXCEPT !.left = @ \ {p}]
  <2>1. /\ pass' \in PassRec /\ pass'.at = "sending" /\ pass'.left = pass.left \ {p}
        /\ pass'.fetched = pass.fetched /\ pass'.seen = pass.seen
    BY <1>2 DEF SyncType, PassRec
  <2>2. SnapshotOK'
    BY <2>1 DEF SnapshotOK, Collected, Looking
  <2> QED BY <1>1, <1>2, <2>1, <2>2, StepPassAlone DEF SyncType
<1>3. CASE /\ Unchanged(p) /\ pass' = pass
           /\ call' = [Unlocked EXCEPT !.by = Pass, !.at = "send", !.person = p,
                                       !.value = pass.fetched[p]]
  <2>1. /\ call'.by = Pass /\ call'.at = "send" /\ call'.person = p /\ Asking'
        /\ call'.value = pass.fetched[p] /\ call'.tries = 0
    BY <1>3 DEF Unlocked, Asking
  <2>2. pass.fetched[p] \in SUBSET Role
    BY DEF SyncType, PassRec, RoleMap
  <2>3. call' \in CallRec
    <3>1. call' = [by |-> Pass, at |-> "send", person |-> p,
                   value |-> pass.fetched[p], tries |-> 0]
      BY <1>3 DEF Unlocked
    <3> QED BY <2>2, <3>1 DEF CallRec
  <2>4. SyncType' /\ EventsOK' /\ NoSilentStale'
    BY <1>1, <1>3, <2>1, <2>3 DEF SyncType, EventsOK, NoSilentStale
  <2>5. SnapshotOK'
    BY <1>3 DEF SnapshotOK, Collected, Looking
  <2>6. /\ pass.fetched[p] \in had[p]
        /\ pass.fetched[p] = roles[p] \/ p \in excused \/ Looking(p)
    BY <1>3 DEF SnapshotOK, Collected, Unchanged
  <2>7. LockOK'
    BY <1>3, <2>1, <2>6 DEF LockOK, Removal
  <2>8. AskedOK'
    BY <2>1, <2>6 DEF AskedOK, Looking, Coming
  <2>9. InboxOK' /\ DeliveredOK'
    BY <1>1, <2>1 DEF InboxOK, DeliveredOK
  <2> QED BY <2>4, <2>5, <2>7, <2>8, <2>9
<1> QED BY <1>2, <1>3

(* Every step preserves the invariant. *)
LEMMA StepSyncIInv ==
  ASSUME SyncIInv, [SyncNext]_syncvars
  PROVE  SyncIInv'
<1>1. CASE UNCHANGED syncvars
  BY <1>1
  DEF syncvars, SyncIInv, SyncType, EventsOK, LockOK, SnapshotOK, AskedOK, InboxOK,
     DeliveredOK, NoSilentStale, Collected, Looking, Coming, Removal, Asking,
       Request
<1>2. ASSUME NEW p \in Person, Update(p) \/ Depart(p)
      PROVE  SyncIInv'
  BY <1>2, StepChange DEF Update, Depart
<1>3. ASSUME NEW e \in Event, Handle(e)
      PROVE  SyncIInv'
  BY <1>3, StepStarted, StepHold DEF Handle
<1>4. CASE Apply \/ Requesting \/ FetchFails \/ TimedOut \/ Failed
  BY <1>4, StepApply, StepFetch, StepSend, StepAnswered, StepFetchFails,
     StepTimedOut, StepFailed
  DEF Requesting
<1>5. CASE Scheduled \/ PageFails
  BY <1>5, StepCollect, StepPassSync DEF Scheduled
<1> QED BY <1>1, <1>2, <1>3, <1>4, <1>5 DEF SyncNext

(* The inductive invariant holds of every behaviour. *)
LEMMA SyncInvariance == SyncSpec => []SyncIInv
  BY InitSyncIInv, StepSyncIInv, PTL DEF SyncSpec

(* The game has the roles a member has in Discord, or a handler of a change of
   the member is under way, or something failed for the member since the last
   good sync. *)
THEOREM NoSilentStaleSafe == SyncSpec => []NoSilentStale
<1>1. SyncIInv => NoSilentStale
  BY DEF SyncIInv
<1> QED BY <1>1, SyncInvariance, PTL

(* The pass sends roles the member had while it ran, however many changes,
   requests and timeouts came between its reading and its sending. *)
THEOREM PassSendsSeenSafe == SyncSpec => []PassSendsSeen
<1>1. SyncIInv => PassSendsSeen
  BY DEF SyncIInv, LockOK, PassSendsSeen
<1> QED BY <1>1, SyncInvariance, PTL

(* Every variable of the role sync keeps its type. *)
THEOREM SyncTypeCorrect == SyncSpec => []SyncTypeOK
<1>1. SyncIInv => SyncTypeOK
  BY DEF SyncIInv, SyncType, SyncTypeOK, EventRec, PassRec, CallRec
<1> QED BY <1>1, SyncInvariance, PTL
=============================================================================
