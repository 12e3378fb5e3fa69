--------------------------- MODULE StreamConsumer ---------------------------
(***************************************************************************)
(* The read loop of bus/transport.py for one stream: live reads, reclaim   *)
(* of the events left pending, the failure counter, the dead-letter queue, *)
(* the flag that suspends a consumer, and run_consumer_forever around it.  *)
(* The handler is that of the ban stream: consume_bans posts the ban log   *)
(* once per delivery (run_ban_log_once), then runs the hooks of the cases. *)
(*                                                                         *)
(* A lost connection outside the handler and the death of the process look *)
(* the same from here: the loop starts again, and whatever was read and    *)
(* not acknowledged is still pending.                                      *)
(***************************************************************************)
EXTENDS Naturals

CONSTANTS
  Newest,        \* the events are 1..Newest, in stream order
  Own,           \* those the bot produced, which this consumer skips
  Garbled,       \* those that do not parse
  MaxAttempts,   \* failures before the dead-letter queue
  MaxFailures,   \* bound: failed handlers
  MaxInterrupts, \* bound: deaths and lost connections
  MaxToggles     \* bound: changes of the flag

Message == 1..Newest

ASSUME ConsumerAssumption ==
  /\ {Newest, MaxFailures, MaxInterrupts, MaxToggles} \subseteq Nat
  /\ MaxAttempts \in Nat \ {0}
  /\ Own \subseteq Message
  /\ Garbled \subseteq Message

VARIABLES
  unread,    \* events the group has not read yet
  pending,   \* read, not acknowledged
  idle,      \* pending for at least RECLAIM_MIN_IDLE_MS
  counter,   \* the failure counter of each event
  marks,     \* completed ban logs, by delivery identity
  loop,      \* the consumer: where it is, the batch, the event in hand
  active,    \* is_active
  handled, dead, settled,            \* as in StreamDelivery
  posts,     \* ban logs posted for each event
  unmarked,  \* logs whose mark was lost, for each event
  failed,    \* failures of each event, never reset
  failures, interrupts, toggles

vars == <<unread, pending, idle, counter, marks, loop, active, handled, dead,
          settled, posts, unmarked, failed, failures, interrupts, toggles>>
group == <<unread, pending, idle>>
effects == <<marks, posts, unmarked>>
outcome == <<handled, dead, settled>>
bounds == <<failures, interrupts, toggles>>

NoEvent == 0
Looping == [at |-> "loop", batch |-> {}, event |-> NoEvent]

Init ==
  /\ unread = Message
  /\ pending = {} /\ idle = {} /\ marks = {}
  /\ counter = [m \in Message |-> 0]
  /\ loop = Looping
  /\ active = TRUE
  /\ handled = {} /\ dead = {} /\ settled = {}
  /\ posts = [m \in Message |-> 0]
  /\ unmarked = [m \in Message |-> 0]
  /\ failed = [m \in Message |-> 0]
  /\ failures = 0 /\ interrupts = 0 /\ toggles = 0

At(place) == loop.at = place
Goto(place) == loop' = [loop EXCEPT !.at = place]
InHand == loop.event

-----------------------------------------------------------------------------
(* The loop: a batch of idle events or of new ones, then one by one in the
   order of the stream. *)

(* Mutant: what XAUTOCLAIM returns is left alone. *)
ReclaimNothing ==
  /\ At("loop") /\ active
  /\ idle # {}
  /\ idle' = {}
  /\ UNCHANGED <<unread, pending, counter, loop, active, failed>>
  /\ UNCHANGED <<effects, outcome, bounds>>

(* _reclaim_pending, all pages of it. *)
Reclaim ==
  /\ At("loop") /\ active
  /\ idle # {}
  /\ loop' = [loop EXCEPT !.at = "next", !.batch = idle]
  /\ idle' = {}
  /\ UNCHANGED <<unread, pending, counter, active, failed>>
  /\ UNCHANGED <<effects, outcome, bounds>>

(* XREADGROUP returns the events written so far, in order. *)
Read ==
  /\ At("loop") /\ active
  /\ \E m \in unread :
       LET new == {u \in unread : u <= m} IN
       /\ loop' = [loop EXCEPT !.at = "next", !.batch = new]
       /\ unread' = unread \ new
       /\ pending' = pending \union new
  /\ UNCHANGED <<idle, counter, active, failed>>
  /\ UNCHANGED <<effects, outcome, bounds>>

(* The bot's own events are acknowledged unseen; what does not parse counts
   as a failure. *)
FirstPlace(m) ==
  IF m \in Own THEN "ack" ELSE IF m \in Garbled THEN "count" ELSE "marked"

(* A suspended consumer leaves the rest of its batch pending. *)
TakeNext ==
  /\ At("next")
  /\ \/ /\ loop.batch = {} \/ ~active
        /\ loop' = Looping
     \/ /\ active
        /\ \E m \in loop.batch :
             /\ \A n \in loop.batch : m <= n
             /\ loop' = [at |-> FirstPlace(m), batch |-> loop.batch \ {m},
                         event |-> m]
  /\ UNCHANGED <<group, counter, active, failed, effects, outcome, bounds>>

-----------------------------------------------------------------------------
(* The handler of the ban stream *)

Handler == {"marked", "post", "mark", "hook"}

(* Mutant: the mark of an earlier delivery is not looked up. *)
CheckMarkNever ==
  /\ At("marked")
  /\ Goto("post")
  /\ UNCHANGED <<group, counter, active, failed, effects, outcome, bounds>>

CheckMark ==
  /\ At("marked")
  /\ Goto(IF InHand \in marks THEN "hook" ELSE "post")
  /\ UNCHANGED <<group, counter, active, failed, effects, outcome, bounds>>

Post ==
  /\ At("post")
  /\ posts' = [posts EXCEPT ![InHand] = @ + 1]
  /\ Goto("mark")
  /\ UNCHANGED <<group, counter, active, failed, marks, unmarked,
                 outcome, bounds>>

Mark ==
  /\ At("mark")
  /\ marks' = marks \union {InHand}
  /\ Goto("hook")
  /\ UNCHANGED <<group, counter, active, failed, posts, unmarked,
                 outcome, bounds>>

Hook ==
  /\ At("hook")
  /\ handled' = handled \union {InHand}
  /\ Goto("ack")
  /\ UNCHANGED <<group, counter, active, failed, effects, dead, settled,
                 bounds>>

Unmark ==
  unmarked' = IF At("mark") THEN [unmarked EXCEPT ![InHand] = @ + 1]
                            ELSE unmarked

(* Discord, MongoDB or Redis fails inside the handler. *)
Fail ==
  /\ loop.at \in Handler
  /\ failures < MaxFailures
  /\ failures' = failures + 1
  /\ Unmark
  /\ Goto("count")
  /\ UNCHANGED <<group, counter, active, failed, marks, posts, outcome,
                 interrupts, toggles>>

-----------------------------------------------------------------------------
(* After it *)

After == {"count", "bury", "ack", "clear"}

(* Mutant: the comparison forgets the failure just counted. *)
ExhaustedEarly(m) == m \in Garbled \/ counter[m] + 2 >= MaxAttempts

Exhausted(m) == m \in Garbled \/ counter[m] + 1 >= MaxAttempts

(* Mutant: a failed event is acknowledged as well. *)
CountAndAck ==
  /\ At("count")
  /\ counter' = [counter EXCEPT ![InHand] = @ + 1]
  /\ failed' = [failed EXCEPT ![InHand] = @ + 1]
  /\ Goto(IF Exhausted(InHand) THEN "bury" ELSE "ack")
  /\ UNCHANGED <<group, active, effects, outcome, bounds>>

Count ==
  /\ At("count")
  /\ counter' = [counter EXCEPT ![InHand] = @ + 1]
  /\ failed' = [failed EXCEPT ![InHand] = @ + 1]
  /\ Goto(IF Exhausted(InHand) THEN "bury" ELSE "next")
  /\ UNCHANGED <<group, active, effects, outcome, bounds>>

RouteToDlq ==
  /\ At("bury")
  /\ dead' = dead \union {InHand}
  /\ Goto("ack")
  /\ UNCHANGED <<group, counter, active, failed, effects, handled, settled,
                 bounds>>

Ack ==
  /\ At("ack")
  /\ pending' = pending \ {InHand}
  /\ idle' = idle \ {InHand}
  /\ settled' = settled \union {InHand}
  /\ Goto("clear")
  /\ UNCHANGED <<unread, counter, active, failed, effects, handled, dead,
                 bounds>>

ClearCounter ==
  /\ At("clear")
  /\ counter' = [counter EXCEPT ![InHand] = 0]
  /\ Goto("next")
  /\ UNCHANGED <<group, active, failed, effects, outcome, bounds>>

-----------------------------------------------------------------------------
(* Time, the flag, and the failures of the process and its connection *)

(* What the loop does not hold becomes idle. *)
Age ==
  /\ At("loop")
  /\ idle # pending
  /\ idle' = pending
  /\ UNCHANGED <<unread, pending, counter, loop, active, failed>>
  /\ UNCHANGED <<effects, outcome, bounds>>

Toggle ==
  /\ toggles < MaxToggles
  /\ toggles' = toggles + 1
  /\ active' = ~active
  /\ UNCHANGED <<group, counter, loop, failed, effects, outcome,
                 failures, interrupts>>

(* Before or after the effect of any step; the caller starts a new loop. *)
Interrupt ==
  /\ ~At("loop")
  /\ interrupts < MaxInterrupts
  /\ interrupts' = interrupts + 1
  /\ Unmark
  /\ loop' = Looping
  /\ UNCHANGED <<group, counter, active, failed, marks, posts, outcome,
                 failures, toggles>>

Consume ==
  \/ Reclaim \/ Read \/ TakeNext
  \/ CheckMark \/ Post \/ Mark \/ Hook
  \/ Count \/ RouteToDlq \/ Ack \/ ClearCounter

Next == Consume \/ Fail \/ Age \/ Toggle \/ Interrupt

(* The consumer task runs for ever and time passes; a loop that has new
   events to read still reclaims every RECLAIM_INTERVAL_SEC. *)
Fairness == WF_vars(Consume) /\ SF_vars(Reclaim) /\ WF_vars(Age)

Spec == Init /\ [][Next]_vars
FairSpec == Spec /\ Fairness

-----------------------------------------------------------------------------
TypeOK ==
  /\ unread \subseteq Message /\ pending \subseteq Message
  /\ idle \subseteq Message /\ marks \subseteq Message
  /\ handled \subseteq Message /\ dead \subseteq Message
  /\ settled \subseteq Message
  /\ counter \in [Message -> 0..MaxAttempts + MaxInterrupts]
  /\ loop \in [at : Handler \union {"loop", "next"} \union After,
               batch : SUBSET Message, event : Message \union {NoEvent}]
  /\ active \in BOOLEAN
  /\ posts \in [Message -> Nat]
  /\ unmarked \in [Message -> 0..MaxFailures + MaxInterrupts]
  /\ failed \in [Message -> Nat]
  /\ failures \in 0..MaxFailures
  /\ interrupts \in 0..MaxInterrupts
  /\ toggles \in 0..MaxToggles

Delivery == INSTANCE StreamDelivery

(* No event is acknowledged before its handler returned or its copy is in
   the dead-letter queue, whatever dies in between. *)
DeliverySpec == Delivery!DeliverySpec

(* An event is dead-lettered for MaxAttempts failures of its own or because
   it does not parse, never for the failures of another event. *)
DeadLettersEarned ==
  \A m \in dead : m \in Garbled \/ failed[m] >= MaxAttempts

(* "The completed log marker survives that retry": a ban is logged again
   only if the bot could not record the log it had just posted. *)
LogsAreAccounted == \A m \in Message : posts[m] <= 1 + unmarked[m]

(* Every event is settled in the end, unless the consumer stays suspended. *)
EventuallySettled == <>[]active => \A m \in Message : <>(m \in settled)
=============================================================================
