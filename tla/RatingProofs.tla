---------------------------- MODULE RatingProofs ----------------------------
(***************************************************************************)
(* The ladder: the season that commands change and the account merges that *)
(* move what was earned on it, each with the inductive invariant its       *)
(* properties rest on.                                                     *)
(*                                                                         *)
(* A season command changes the season once, for any number of commands,   *)
(* servers, events and faults.  Silent servers hold requests of a command  *)
(* for as long as they like, so what has to be invariant is that a request *)
(* still under way can change nothing more once its command has: its id    *)
(* was seen, or the prizes it hands over are not owed any more (Spent).    *)
(*                                                                         *)
(* And every move is announced, once: a claim that nobody gave back stands *)
(* for a post or for a dead poster (Explained), one row stands for all the *)
(* copies of the same news (NewsByKey), and a post counts while its row    *)
(* says so, or its handler is about to (Counted).                          *)
(*                                                                         *)
(* A merge is whole for any number of accounts, commands, joins, bans and  *)
(* deaths of the bot.  Snapshots grow old while others write, so what has  *)
(* to be invariant is what a transaction that is not tried again may rely  *)
(* on: its two accounts differ and the documents it read were open and     *)
(* their players away (ViewsOK).  PIDs then stay apart (PidsDiffer), as a  *)
(* merge keeps both or swaps them.                                         *)
(***************************************************************************)
EXTENDS Seasons, AccountMerge, SequenceTheorems, TLAPS

-----------------------------------------------------------------------------
(* The season and its news *)

Op == Reschedules \union PrizeChanges \union Deliveries

(* The numbers of seasons start at 1, which is not the season of LastSeason. *)
SeasonOK ==
  season \in [number : Nat \ {0}, end : Nat, prizes : Nat, owed : SUBSET Nat]

TypeInv ==
  /\ SeasonOK
  /\ applied \in [Command -> Nat]
  /\ given \subseteq Command
  /\ admin \in [at : {"none", "confirm", "send", "wait"},
                command : Command \union {None}, op : Op, tries : Nat]
  /\ asked \subseteq [command : Command, op : Op,
                      id : (Command \union {None}) \X Nat, try : Nat]

Spent(c, op) ==
  IF op \in Deliveries THEN LastSeason \notin season.owed
                       ELSE RequestId(c, 1) \in seen

(* A command that has not been given has changed nothing. *)
NotYetGiven == \A c \in Command \ given : applied[c] = 0

(* What the administrator waits for. *)
AdminOK ==
  admin.at # "none" =>
    /\ admin.command \in given
    /\ applied[admin.command] > 0 => Spent(admin.command, admin.op)

(* What a server may still carry out: all of one command ask the same thing. *)
AskedOK ==
  \A r \in asked :
    /\ r.command \in given
    /\ r.id = IF r.op \in Deliveries THEN NoId ELSE RequestId(r.command, 1)
    /\ applied[r.command] > 0 => Spent(r.command, r.op)
    /\ admin.at # "none" /\ admin.command = r.command => admin.op = r.op
    /\ \A q \in asked : q.command = r.command => q.op = r.op

IInv == TypeInv /\ NotYetGiven /\ AdminOK /\ AskedOK /\ ChangedOnce

(* Nothing has been asked at the start. *)
LEMMA InitIInv == Init => IInv
  BY SeasonsAssumption
  DEF Init, IInv, TypeInv, SeasonOK, NotYetGiven, AdminOK, AskedOK, ChangedOnce,
      NoAdmin, Op, Reschedules, PrizeChanges, Deliveries, FirstEnd, LastSeason

(* Whatever is asked, the season stays one, and prizes that were handed over
   are not owed again; to hand them over twice changes nothing. *)
LEMMA ChangedOK ==
  ASSUME SeasonOK, NEW op \in Op
  PROVE  /\ Changed(op) \in [number : Nat \ {0}, end : Nat, prizes : Nat,
                             owed : SUBSET Nat]
         /\ LastSeason \notin season.owed => LastSeason \notin Changed(op).owed
         /\ op \in Deliveries => LastSeason \notin Changed(op).owed
         /\ op \in Deliveries /\ LastSeason \notin season.owed
              => Changed(op) = season
<1> USE DEF SeasonOK, Changed, Reschedules, PrizeChanges, Deliveries, LastSeason,
            FirstEnd
<1>1. CASE op \in Reschedules
  <2>1. CASE op = "extend"
    BY <1>1, <2>1 DEF Moved
  <2>2. CASE op = "set_end"
    BY <1>1, <2>2 DEF Moved
  <2>3. CASE op = "end_now"
    BY <1>1, <2>3 DEF Moved
  <2> QED BY <1>1, <2>1, <2>2, <2>3
<1>2. CASE op = "add_prize"
  BY <1>2 DEF PrizeAdded
<1>3. CASE op = "clear_prizes"
  BY <1>3 DEF PrizesCleared
<1>4. CASE op = "delivered"
  <2>1. Changed(op) = [season EXCEPT !.owed = @ \ {LastSeason}]
    BY <1>4 DEF PrizesDelivered
  <2>2. LastSeason \notin season.owed => season.owed \ {LastSeason} = season.owed
    OBVIOUS
  <2> QED BY <1>4, <2>1, <2>2
<1> QED BY <1>1, <1>2, <1>3, <1>4 DEF Op

(* A new command has changed nothing, and no request of it is under way. *)
LEMMA GiveStep ==
  ASSUME IInv, NEW c \in Command, NEW op \in Op, NEW at \in {"send", "confirm"},
         Give(c, op, at)
  PROVE  IInv'
<1> USE DEF IInv, Give, servers
<1>1. TypeInv'
  BY DEF TypeInv, SeasonOK
<1>2. NotYetGiven' /\ ChangedOnce'
  BY DEF NotYetGiven, ChangedOnce
<1>3. AdminOK'
  BY DEF NotYetGiven, TypeInv, AdminOK
<1>4. AskedOK'
  BY DEF AskedOK, Spent, RequestId
<1> QED BY <1>1, <1>2, <1>3, <1>4

(* What only ends or moves the wait of the administrator. *)
LEMMA WaitStep ==
  ASSUME IInv, UNCHANGED <<servers, asked, given>>,
         \/ admin' = NoAdmin
         \/ admin' = admin
         \/ /\ admin.at # "none"
            /\ \/ admin' = [admin EXCEPT !.at = "send"]
               \/ admin' = [admin EXCEPT !.at = "wait"]
               \/ admin' = [admin EXCEPT !.at = "send", !.tries = @ + 1]
  PROVE  IInv'
<1> USE DEF IInv, servers
<1>0. /\ admin \in [at : {"none", "confirm", "send", "wait"},
                    command : Command \union {None}, op : Op, tries : Nat]
      /\ "extend" \in Op
  BY DEF TypeInv, Op, Reschedules
<1>1. /\ admin' \in [at : {"none", "confirm", "send", "wait"},
                     command : Command \union {None}, op : Op, tries : Nat]
      /\ admin'.at # "none" => /\ admin.at # "none"
                               /\ admin'.command = admin.command
                               /\ admin'.op = admin.op
  <2>1. CASE admin' = NoAdmin
    BY <1>0, <2>1 DEF NoAdmin
  <2>2. CASE admin' = admin
    BY <1>0, <2>2
  <2>3. CASE admin.at # "none" /\ admin' # admin /\ admin' # NoAdmin
    <3>1. CASE admin' = [admin EXCEPT !.at = "send"]
      BY <1>0, <2>3, <3>1
    <3>2. CASE admin' = [admin EXCEPT !.at = "wait"]
      BY <1>0, <2>3, <3>2
    <3>3. CASE admin' = [admin EXCEPT !.at = "send", !.tries = @ + 1]
      <4>1. admin.tries + 1 \in Nat
        BY <1>0
      <4> DEFINE n == admin.tries + 1
      <4>2. n \in Nat /\ admin' = [admin EXCEPT !.at = "send", !.tries = n]
        BY <3>3, <4>1
      <4> HIDE DEF n
      <4> QED BY <1>0, <2>3, <4>2
    <3> QED BY <2>3, <3>1, <3>2, <3>3
  <2> QED BY <2>1, <2>2, <2>3
<1>2. TypeInv'
  BY <1>1 DEF TypeInv, SeasonOK
<1>3. NotYetGiven' /\ ChangedOnce'
  BY DEF NotYetGiven, ChangedOnce
<1>4. \A c, op : Spent(c, op)' = Spent(c, op)
  BY DEF Spent, RequestId
<1>5. AdminOK'
  BY <1>1, <1>4 DEF AdminOK
<1>6. AskedOK'
  BY <1>1, <1>4 DEF AskedOK, RequestId
<1> QED BY <1>2, <1>3, <1>5, <1>6

(* A request asks what the administrator asked for. *)
LEMMA SendStep == IInv /\ Send => IInv'
<1> SUFFICES ASSUME IInv, Send
             PROVE  IInv'
  OBVIOUS
<1> USE DEF IInv, Send, servers
<1>1. /\ admin.command \in Command /\ admin.op \in Op /\ admin.tries \in Nat
      /\ admin.command \in given /\ admin.at # "none"
  BY DEF TypeInv, AdminOK
<1>2. /\ Request.command = admin.command /\ Request.op = admin.op
      /\ Request \in [command : Command, op : Op,
                      id : (Command \union {None}) \X Nat, try : Nat]
      /\ Request.id = IF admin.op \in Deliveries THEN NoId
                      ELSE RequestId(admin.command, 1)
  <2>1. CASE admin.op \in Reschedules
    BY <1>1, <2>1 DEF Request, RescheduleRequest, RequestId, Reschedules,
                      PrizeChanges, Deliveries
  <2>2. CASE admin.op \in PrizeChanges
    BY <1>1, <2>2 DEF Request, PrizesRequest, RequestId, Reschedules, PrizeChanges,
                      Deliveries
  <2>3. CASE admin.op \in Deliveries
    BY <1>1, <2>3 DEF Request, DeliveredRequest, NoId, Reschedules, PrizeChanges,
                      Deliveries
  <2> QED BY <1>1, <2>1, <2>2, <2>3 DEF Op
<1>3. TypeInv'
  BY <1>2 DEF TypeInv, SeasonOK
<1>4. NotYetGiven' /\ ChangedOnce'
  BY DEF NotYetGiven, ChangedOnce
<1>5. AdminOK'
  BY <1>1 DEF TypeInv, AdminOK, Spent, RequestId
<1>6. AskedOK'
  <2>1. /\ asked' = asked \union {Request} /\ UNCHANGED <<seen, season, applied, given>>
        /\ admin'.command = admin.command /\ admin'.op = admin.op
    BY DEF TypeInv
  <2>2. \A c, op : Spent(c, op)' = Spent(c, op)
    BY <2>1 DEF Spent, RequestId
  <2>3. ASSUME NEW r \in asked
        PROVE  /\ r.command \in given
               /\ r.id = IF r.op \in Deliveries THEN NoId ELSE RequestId(r.command, 1)
               /\ applied[r.command] > 0 => Spent(r.command, r.op)
               /\ admin.command = r.command => admin.op = r.op
               /\ \A q \in asked : q.command = r.command => q.op = r.op
    BY <1>1 DEF AskedOK
  <2>4. applied[admin.command] > 0 => Spent(admin.command, admin.op)
    BY <1>1 DEF AdminOK
  <2>5. ASSUME NEW r \in asked'
        PROVE  /\ r.command \in given
               /\ r.id = IF r.op \in Deliveries THEN NoId ELSE RequestId(r.command, 1)
               /\ applied[r.command] > 0 => Spent(r.command, r.op)
               /\ admin.command = r.command => admin.op = r.op
               /\ \A q \in asked' : q.command = r.command => q.op = r.op
    <3>1. CASE r \in asked
      BY <1>2, <2>1, <2>3, <3>1
    <3>2. CASE r = Request
      BY <1>1, <1>2, <2>1, <2>3, <2>4, <3>2
    <3> QED BY <2>1, <3>1, <3>2
  <2> QED BY <2>1, <2>2, <2>5 DEF AskedOK, RequestId
<1> QED BY <1>3, <1>4, <1>5, <1>6

(* A request that changes the season is the first of its command to do so, and
   spends the others. *)
LEMMA ServeStep ==
  ASSUME IInv, NEW r \in asked, Serve(r)
  PROVE  IInv'
<1> USE DEF IInv
<1>1. CASE r.id \in seen
  BY <1>1 DEF Serve, servers, TypeInv, SeasonOK, NotYetGiven, AdminOK, AskedOK,
              ChangedOnce, Spent, RequestId
<1>2. CASE r.id \notin seen
  <2>1. /\ r.command \in Command /\ r.op \in Op /\ r.command \in given
        /\ r.id = IF r.op \in Deliveries THEN NoId ELSE RequestId(r.command, 1)
        /\ applied[r.command] > 0 => Spent(r.command, r.op)
    BY DEF TypeInv, AskedOK
  <2>2. /\ season' = Changed(r.op)
        /\ seen' = seen \union ({r.id} \ {NoId})
        /\ applied' = IF season' = season /\ r.op = "delivered" THEN applied
                      ELSE [applied EXCEPT ![r.command] = @ + 1]
        /\ asked' = asked \ {r} /\ UNCHANGED <<admin, given>>
    BY <1>2 DEF Serve
  <2>3. /\ SeasonOK'
        /\ LastSeason \notin season.owed => LastSeason \notin season'.owed
        /\ r.op \in Deliveries => LastSeason \notin season'.owed
        /\ r.op \in Deliveries /\ LastSeason \notin season.owed => season' = season
    BY <2>1, <2>2, ChangedOK DEF TypeInv, SeasonOK
  <2>4. \A c, op : Spent(c, op) => Spent(c, op)'
    BY <2>2, <2>3 DEF Spent, RequestId
  <2>5. Spent(r.command, r.op)'
    BY <2>1, <2>2, <2>3 DEF Spent, RequestId, NoId
  <2>6. /\ applied' \in [Command -> Nat]
        /\ \A c \in Command \ {r.command} : applied'[c] = applied[c]
        /\ applied'[r.command] <= 1
    <3>1. CASE Spent(r.command, r.op)
      <4>1. r.op \in Deliveries /\ LastSeason \notin season.owed
        BY <1>2, <2>1, <3>1 DEF Spent
      <4> QED BY <2>1, <2>2, <2>3, <4>1 DEF TypeInv, ChangedOnce, Deliveries
    <3>2. CASE ~Spent(r.command, r.op)
      <4>1. applied[r.command] = 0
        BY <2>1, <3>2 DEF TypeInv
      <4> QED BY <2>1, <2>2, <4>1 DEF TypeInv
    <3> QED BY <3>1, <3>2
  <2>7. TypeInv'
    BY <2>2, <2>3, <2>6 DEF TypeInv
  <2>8. NotYetGiven' /\ ChangedOnce'
    BY <2>1, <2>2, <2>6 DEF NotYetGiven, ChangedOnce
  <2>9. AdminOK'
    BY <2>1, <2>2, <2>4, <2>5, <2>6 DEF AdminOK, AskedOK, TypeInv
  <2>10. AskedOK'
    BY <2>1, <2>2, <2>4, <2>5, <2>6 DEF AskedOK, TypeInv, RequestId
  <2> QED BY <2>7, <2>8, <2>9, <2>10
<1> QED BY <1>1, <1>2

(* Every step preserves the invariant. *)
LEMMA StepIInv == IInv /\ [Next]_vars => IInv'
<1> SUFFICES ASSUME IInv, [Next]_vars
             PROVE  IInv'
  OBVIOUS
<1>1. ASSUME NEW c \in Command,
             \/ CmdExtend(c) \/ CmdEndAt(c) \/ CmdEndNow(c)
             \/ CmdPrizeSet(c) \/ CmdPrizeClear(c) \/ CmdPrizeDelivered(c)
      PROVE  IInv'
  <2> USE DEF Op, Reschedules, PrizeChanges, Deliveries
  <2>1. PICK op \in Op, at \in {"send", "confirm"} : Give(c, op, at)
    BY <1>1 DEF CmdExtend, CmdEndAt, CmdEndNow, CmdPrizeSet, CmdPrizeClear,
                CmdPrizeDelivered
  <2> QED BY <2>1, GiveStep
<1>2. CASE Confirm \/ Cancel
  BY <1>2, WaitStep DEF Confirm, Cancel
<1>3. CASE Send
  BY <1>3, SendStep
<1>4. CASE Answered \/ Unanswered
  BY <1>4, WaitStep DEF Answered, Unanswered
<1>5. ASSUME NEW r \in asked, Serve(r)
      PROVE  IInv'
  BY <1>5, ServeStep
<1>6. CASE EndingSoon \/ \E e \in 1..MaxEvents : Replay(e)
  BY <1>6, WaitStep DEF EndingSoon, Replay, request
<1>7. CASE \/ \E e \in inbox : Take(e)
           \/ Claim \/ ClaimFails \/ Post \/ PostFails \/ Release \/ Record
           \/ \E r \in rows : Stale(r)
  BY <1>7, WaitStep DEF Take, Claim, ClaimFails, Post, PostFails, Release, Record, Stale,
                        request
<1>8. CASE Crash
  BY <1>8, WaitStep DEF Crash
<1>9. CASE UNCHANGED vars
  BY <1>9, WaitStep DEF vars, servers
<1> QED BY <1>1, <1>2, <1>3, <1>4, <1>5, <1>6, <1>7, <1>8, <1>9 DEF Next

(* ChangedOnce: a confirmed command of an administrator changes the season or
   its prizes at most once, however many servers on_any_live_server asked and
   whenever they answer. *)
THEOREM ChangedOnceSafe == Spec => []ChangedOnce
<1>1. Init => IInv
  BY InitIInv
<1>2. IInv /\ [Next]_vars => IInv'
  BY StepIInv
<1>3. IInv => ChangedOnce
  BY DEF IInv
<1> QED BY <1>1, <1>2, <1>3, PTL DEF Spec
-----------------------------------------------------------------------------
(* The announcements.  What a reader takes for the same news has the same    *)
(* key (NewsByKey), a claim of that key is what the poster in hand works     *)
(* under (Holding), and an announcement that counts has a row that says so,  *)
(* or is about to (Counted).                                                 *)

EventRecord == [kind : Kind, season : Nat, end : Nat]

(* Seasons begin and end once, in order. *)
LogOK ==
  /\ log \in Seq(EventRecord) /\ Len(log) <= MaxEvents
  /\ inbox \subseteq DOMAIN log
  /\ \A e \in DOMAIN log :
       /\ log[e].kind = "started" => log[e].season <= season.number
       /\ log[e].kind = "ended" => log[e].season < season.number
  /\ \A e, f \in DOMAIN log :
       /\ log[e].kind \in {"started", "ended"}
       /\ log[f].kind = log[e].kind /\ log[f].season = log[e].season
       => e = f

Busy == {"send", "release", "record"}

NewsType ==
  /\ posts \in [1..MaxEvents -> Nat] /\ repeats \in [1..MaxEvents -> Nat]
  /\ hand \in [at : {"none", "claim"} \union Busy, event : Nat]
  /\ hand.at # "none" => hand.event \in DOMAIN log
  /\ hand.at = "none" => hand.event = 0
  /\ \A e \in 1..MaxEvents \ DOMAIN log : posts[e] = 0 /\ repeats[e] = 0

(* Who posts has claimed it: nobody else may take the claim over. *)
Holding ==
  hand.at \in Busy => \A r \in rows : r.key = Key(hand.event) => r.at = "claimed"

Recording == hand.at = "record" => Announced(hand.event)

Reason(e) == posts[e] > 0 \/ e \in left

(* A claim that nobody gave back stands for a post, or for a dead poster. *)
Explained ==
  \A r \in rows : \E e \in DOMAIN log :
    Key(e) = r.key /\ (Reason(e) \/ (hand.event = e /\ hand.at \in Busy))

Counted ==
  \A e \in DOMAIN log :
    /\ posts[e] \in repeats[e]..(repeats[e] + 1)
    /\ Announced(e) => \/ hand.at = "record" /\ hand.event = e
                       \/ \E r \in rows : r.key = Key(e) /\ r.at = "posted"

OneCounts ==
  \A e, f \in DOMAIN log : Key(e) = Key(f) /\ Announced(e) /\ Announced(f) => e = f

Acknowledged ==
  \A e \in DOMAIN log \ inbox : \E f \in DOMAIN log : Key(f) = Key(e) /\ Reason(f)

NewsInv ==
  /\ LogOK /\ NewsType /\ Holding /\ Recording
  /\ Explained /\ Counted /\ OneCounts /\ Acknowledged

(* Two events have one key just when a reader takes them for the same news. *)
LEMMA NewsByKey ==
  ASSUME LogOK, NEW e \in DOMAIN log, NEW f \in DOMAIN log
  PROVE  Key(f) = Key(e) <=> f \in SameNews(e)
<1>1. log[e] \in EventRecord /\ log[f] \in EventRecord
  BY DEF LogOK
<1>2. Key(e)[1] = log[e].kind /\ Key(f)[1] = log[f].kind
  BY DEF Key
<1>3. CASE log[f].kind # log[e].kind
  BY <1>2, <1>3 DEF SameNews
<1>4. CASE log[f].kind = "rescheduled" /\ log[e].kind = "rescheduled"
  BY <1>4 DEF SameNews, Key
<1>5. CASE log[f].kind = "ending-soon" /\ log[e].kind = "ending-soon"
  <2>1. log[f] = log[e] <=> log[f].season = log[e].season /\ log[f].end = log[e].end
    BY <1>1, <1>5 DEF EventRecord
  <2> QED BY <1>5, <2>1 DEF SameNews, Key
<1>6. CASE log[f].kind = log[e].kind /\ log[e].kind \in {"started", "ended"}
  <2>1. Key(f) = Key(e) <=> log[f].season = log[e].season
    BY <1>6 DEF Key
  <2>2. log[f].season = log[e].season => e = f
    BY <1>6 DEF LogOK
  <2> QED BY <1>6, <2>1, <2>2 DEF SameNews
<1> QED BY <1>1, <1>3, <1>4, <1>5, <1>6 DEF EventRecord, Kind

(* What the servers publish comes after what they have published. *)
LEMMA PublishOK ==
  ASSUME LogOK, NEW events \in Seq(EventRecord), Publish(events)
  PROVE  /\ log' \in Seq(EventRecord) /\ Len(log') = Len(log) + Len(events)
         /\ Len(log') <= MaxEvents
         /\ \A e \in DOMAIN log : e \in DOMAIN log' /\ log'[e] = log[e]
         /\ \A i \in 1..Len(events) : log'[Len(log) + i] = events[i]
         /\ \A e \in DOMAIN log' \ DOMAIN log :
              e \in inbox' /\ e - Len(log) \in 1..Len(events)
         /\ inbox \subseteq inbox' /\ inbox' \subseteq DOMAIN log'
<1>1. /\ log \in Seq(EventRecord) /\ Len(log) \in Nat /\ Len(events) \in Nat
      /\ DOMAIN log = 1..Len(log)
  BY DEF LogOK
<1>2. log' = log \o events
  BY DEF Publish
<1>3. /\ log' \in Seq(EventRecord) /\ Len(log') = Len(log) + Len(events)
      /\ DOMAIN log' = 1..(Len(log) + Len(events))
      /\ \A i \in 1..(Len(log) + Len(events)) :
           log'[i] = IF i <= Len(log) THEN log[i] ELSE events[i - Len(log)]
  BY <1>1, <1>2, ConcatProperties
<1>4. \A i \in 1..Len(events) : log'[Len(log) + i] = events[i]
  <2> TAKE i \in 1..Len(events)
  <2>1. Len(log) + i \in 1..(Len(log) + Len(events)) /\ ~(Len(log) + i <= Len(log))
    BY <1>1
  <2>2. (Len(log) + i) - Len(log) = i
    BY <1>1
  <2> QED BY <1>3, <2>1, <2>2
<1>5. inbox' = inbox \union (Len(log) + 1)..(Len(log) + Len(events))
  BY DEF Publish
<1> QED BY <1>1, <1>3, <1>4, <1>5 DEF LogOK, Publish

(* The claims and the posts know nothing of events that come after. *)
LEMMA GrowStep ==
  ASSUME NewsInv, LogOK', UNCHANGED <<rows, hand, posts, left, repeats>>,
         \A e \in DOMAIN log : e \in DOMAIN log' /\ log'[e] = log[e],
         inbox \subseteq inbox', DOMAIN log' \ DOMAIN log \subseteq inbox'
  PROVE  NewsInv'
<1> USE DEF NewsInv
<1>0. \A e \in DOMAIN log' \ DOMAIN log : posts[e] = 0 /\ repeats[e] = 0
  <2>1. DOMAIN log' \subseteq 1..MaxEvents
    BY SeasonsAssumption DEF LogOK
  <2> QED BY <2>1 DEF NewsType
<1>1. \A e \in DOMAIN log : Key(e)' = Key(e)
  BY DEF Key
<1>2. NewsType' /\ Holding' /\ Recording'
  BY <1>1 DEF NewsType, Holding, Recording, Announced, Busy
<1>3. Explained'
  BY <1>1 DEF Explained, Reason
<1>4. Counted'
  BY <1>0, <1>1 DEF Counted, Announced
<1>5. OneCounts'
  BY <1>0, <1>1 DEF OneCounts, Announced
<1>6. Acknowledged'
  BY <1>1 DEF Acknowledged, Reason
<1> QED BY <1>2, <1>3, <1>4, <1>5, <1>6

(* The servers publish the end of a season, the start of the next, a move of the
   end and the notices that count down to it. *)
LEMMA ServersNews ==
  ASSUME IInv, IInv', NewsInv,
         (\E r \in asked : Serve(r)) \/ EndingSoon \/ (\E e \in 1..MaxEvents : Replay(e))
  PROVE  NewsInv'
<1> DEFINE Same(e) == e \in DOMAIN log' /\ log'[e] = log[e]
<1>0. /\ season \in [number : Nat \ {0}, end : Nat, prizes : Nat, owed : SUBSET Nat]
      /\ season' \in [number : Nat \ {0}, end : Nat, prizes : Nat, owed : SUBSET Nat]
      /\ LogOK
  BY DEF IInv, TypeInv, SeasonOK, NewsInv
<1>1. ASSUME NEW events \in Seq(EventRecord), Publish(events),
             UNCHANGED news, season'.number >= season.number,
             \A i \in 1..Len(events) :
               /\ events[i].kind = "started" => events[i].season = season'.number
               /\ events[i].kind = "ended" => events[i].season = season.number
               /\ events[i].kind \in {"started", "ended"}
                  => season'.number = season.number + 1,
             \A i, j \in 1..Len(events) : events[i].kind = events[j].kind => i = j
      PROVE  NewsInv'
  <2> DEFINE New == DOMAIN log' \ DOMAIN log
  <2>1. /\ log' \in Seq(EventRecord) /\ Len(log') <= MaxEvents
        /\ \A e \in DOMAIN log : Same(e)
        /\ \A i \in 1..Len(events) : log'[Len(log) + i] = events[i]
        /\ \A e \in New : e \in inbox' /\ e - Len(log) \in 1..Len(events)
        /\ inbox \subseteq inbox' /\ inbox' \subseteq DOMAIN log'
    BY <1>0, <1>1, PublishOK
  <2>2. \A e \in New : log'[e] = events[e - Len(log)]
    <3> TAKE e \in New
    <3> DEFINE i == e - Len(log)
    <3>1. i \in 1..Len(events) /\ e \in Nat /\ Len(log) \in Nat
      BY <1>0, <2>1 DEF LogOK
    <3>2. Len(log) + i = e
      BY <3>1
    <3> QED BY <2>1, <3>1, <3>2
  <2>3. \A e \in DOMAIN log' :
          /\ log'[e].kind = "started" => log'[e].season <= season'.number
          /\ log'[e].kind = "ended" => log'[e].season < season'.number
    <3> TAKE e \in DOMAIN log'
    <3>1. CASE e \in DOMAIN log
      <4>1. log[e] \in EventRecord
        BY <1>0, <3>1 DEF LogOK
      <4>2. log[e].season \in Nat
        BY <4>1 DEF EventRecord
      <4> QED BY <1>0, <1>1, <2>1, <3>1, <4>2 DEF LogOK
    <3>2. CASE e \in New
      BY <1>0, <1>1, <2>1, <2>2, <3>2
    <3> QED BY <3>1, <3>2
  <2>4. ASSUME NEW e \in DOMAIN log', NEW f \in DOMAIN log',
               log'[e].kind \in {"started", "ended"},
               log'[f].kind = log'[e].kind, log'[f].season = log'[e].season
        PROVE  e = f
    <3>1. CASE e \in DOMAIN log /\ f \in DOMAIN log
      BY <1>0, <2>1, <2>4, <3>1 DEF LogOK
    <3>2. CASE e \in New /\ f \in New
      <4>1. e - Len(log) = f - Len(log)
        <5> DEFINE i == e - Len(log)
                   j == f - Len(log)
        <5>1. i \in 1..Len(events) /\ j \in 1..Len(events)
          BY <2>1, <3>2
        <5>2. log'[e] = events[i] /\ log'[f] = events[j]
          BY <2>2, <3>2
        <5> HIDE DEF i, j
        <5>3. i = j
          BY <1>1, <2>4, <5>1, <5>2
        <5> QED BY <5>3 DEF i, j
      <4>2. e \in Nat /\ f \in Nat /\ Len(log) \in Nat
        BY <1>0, <2>1 DEF LogOK
      <4> QED BY <4>1, <4>2
    <3>3. ASSUME NEW g \in DOMAIN log, NEW h \in New,
                 log'[g].kind \in {"started", "ended"}, log'[g].kind = log'[h].kind
          PROVE  log'[g].season # log'[h].season
      <4>1. /\ log[g].kind = "started" => log[g].season <= season.number
            /\ log[g].kind = "ended" => log[g].season < season.number
            /\ log'[g] = log[g] /\ log[g].season \in Nat
        <5>1. log[g] \in EventRecord
          BY <1>0 DEF LogOK
        <5>2. log[g].season \in Nat
          BY <5>1 DEF EventRecord
        <5> QED BY <1>0, <2>1, <5>2 DEF LogOK
      <4>2. /\ log'[h].kind = "started" => log'[h].season = season.number + 1
            /\ log'[h].kind = "ended" => log'[h].season = season.number
        BY <1>1, <2>1, <2>2, <3>3
      <4> QED BY <1>0, <3>3, <4>1, <4>2
    <3> QED BY <2>4, <3>1, <3>2, <3>3
  <2>5. LogOK'
    BY <2>1, <2>3, <2>4 DEF LogOK
  <2> HIDE DEF New
  <2>6. DOMAIN log' \ DOMAIN log \subseteq inbox'
    BY <2>1 DEF New
  <2> QED BY <1>1, <2>1, <2>5, <2>6, GrowStep DEF news
<1>2. ASSUME NEW kind \in Kind, NEW s \in {season, season'}
      PROVE  /\ Event(kind, s) \in EventRecord
             /\ Event(kind, s).kind = kind /\ Event(kind, s).season = s.number
  BY <1>0, <1>2 DEF Event, EventRecord
<1>3. ASSUME NEW kind \in {"rescheduled", "ending-soon"}, NEW s \in {season, season'},
             Publish(<<Event(kind, s)>>), UNCHANGED news,
             season'.number >= season.number
      PROVE  NewsInv'
  <2> DEFINE events == <<Event(kind, s)>>
  <2>1. /\ events \in Seq(EventRecord) /\ Len(events) = 1
        /\ events[1].kind = kind
    BY <1>2 DEF Kind
  <2> HIDE DEF events
  <2>2. Publish(events)
    BY <1>3 DEF events
  <2> QED BY <1>1, <1>3, <2>1, <2>2
<1>4. ASSUME NEW r \in asked, Serve(r)
      PROVE  NewsInv'
  <2>1. UNCHANGED news /\ r.op \in Op
    BY <1>4 DEF Serve, IInv, TypeInv
  <2>2. CASE UNCHANGED <<servers, feed>>
    <3>1. LogOK'
      BY <1>0, <2>2 DEF LogOK, servers, feed
    <3> QED BY <2>1, <2>2, <3>1, GrowStep DEF servers, feed, news, NewsInv
  <2>3. CASE season' = Changed(r.op) /\ Publish(Published(r.op))
    <3>1. CASE r.op = "end_now"
      <4>1. /\ season'.number = season.number + 1
            /\ Published(r.op) = <<Event("ended", season), Event("started", season')>>
        BY <2>3, <3>1 DEF Changed, Moved, Published, Reschedules
      <4> DEFINE events == <<Event("ended", season), Event("started", season')>>
      <4>2. /\ events \in Seq(EventRecord) /\ Len(events) = 2
            /\ events[1].kind = "ended" /\ events[1].season = season.number
            /\ events[2].kind = "started" /\ events[2].season = season'.number
        BY <1>2 DEF Kind
      <4>3. Publish(events)
        BY <2>3, <4>1
      <4> HIDE DEF events
      <4>4. /\ season'.number >= season.number
            /\ 1..Len(events) = {1, 2}
        BY <1>0, <4>1, <4>2
      <4>5. \A i \in 1..Len(events) :
              /\ events[i].kind = "started" => events[i].season = season'.number
              /\ events[i].kind = "ended" => events[i].season = season.number
              /\ events[i].kind \in {"started", "ended"}
                 => season'.number = season.number + 1
        BY <4>1, <4>2, <4>4
      <4>6. \A i, j \in 1..Len(events) : events[i].kind = events[j].kind => i = j
        BY <4>2, <4>4
      <4> QED BY <1>1, <2>1, <4>2, <4>3, <4>4, <4>5, <4>6
    <3>2. CASE r.op \in {"extend", "set_end"}
      <4>1. season'.number = season.number
        BY <1>0, <2>3, <3>2 DEF Changed, Moved, Reschedules
      <4>2. Publish(<<Event("rescheduled", season')>>)
        BY <2>3, <3>2 DEF Published
      <4> QED BY <1>0, <1>3, <2>1, <4>1, <4>2
    <3>3. CASE r.op \in PrizeChanges \union Deliveries
      <4>1. season'.number = season.number
        BY <1>0, <2>3, <3>3 DEF Changed, PrizeAdded, PrizesCleared, PrizesDelivered,
                                Reschedules, PrizeChanges, Deliveries
      <4>2. Publish(<<>>)
        BY <2>3, <3>3 DEF Published, PrizeChanges, Deliveries
      <4> DEFINE events == <<>>
      <4>3. events \in Seq(EventRecord) /\ 1..Len(events) = {} /\ Publish(events)
        BY <4>2
      <4> HIDE DEF events
      <4>4. season'.number >= season.number
        BY <1>0, <4>1
      <4> QED BY <1>1, <2>1, <4>3, <4>4
    <3> QED BY <2>1, <3>1, <3>2, <3>3 DEF Op, Reschedules
  <2> QED BY <1>4, <2>2, <2>3 DEF Serve
<1>5. CASE EndingSoon
  BY <1>0, <1>3, <1>5 DEF EndingSoon, servers
<1>6. ASSUME NEW e \in 1..MaxEvents, Replay(e)
      PROVE  NewsInv'
  <2>1. LogOK'
    BY <1>0, <1>6 DEF Replay, LogOK, servers
  <2> QED BY <1>6, <2>1, GrowStep DEF Replay, news
<1> QED BY <1>4, <1>5, <1>6

(* A consumer takes an event, claims it, or finds it claimed or posted. *)
LEMMA ClaimNews ==
  ASSUME NewsInv, (\E e \in inbox : Take(e)) \/ Claim
  PROVE  NewsInv'
<1> USE DEF NewsInv
<1>1. UNCHANGED <<log, season, posts, left, repeats>> /\ inbox' \subseteq inbox
  BY DEF Take, Claim, servers, feed
<1>2. LogOK' /\ \A e : Key(e)' = Key(e)
  BY <1>1 DEF LogOK, Key
<1>3. ASSUME NEW e \in inbox, Take(e)
      PROVE  NewsInv'
  <2>1. /\ hand.at = "none" /\ hand'.at = "claim" /\ hand'.event = e
        /\ hand' \in [at : {"none", "claim"} \union Busy, event : Nat]
        /\ UNCHANGED <<rows, inbox>> /\ e \in DOMAIN log
    BY <1>3 DEF Take, NoHand, LogOK, feed
  <2>2. NewsType' /\ Holding' /\ Recording'
    BY <1>1, <2>1 DEF NewsType, Holding, Recording, Busy
  <2>3. Explained'
    BY <1>1, <1>2, <2>1 DEF Explained, Reason, Busy
  <2>4. Counted' /\ OneCounts' /\ Acknowledged'
    BY <1>1, <1>2, <2>1 DEF Counted, OneCounts, Acknowledged, Reason, Announced
  <2> QED BY <1>2, <2>2, <2>3, <2>4
<1> DEFINE e == hand.event
<1>4. CASE Claim /\ rows' = (rows \ RowOf(e)) \union {Row(e, "claimed")}
           /\ hand' = [hand EXCEPT !.at = "send"] /\ UNCHANGED inbox
           /\ \A r \in RowOf(e) : r.at = "stale"
  <2>1. hand.at = "claim" /\ e \in DOMAIN log
    BY <1>4 DEF Claim, NewsType
  <2>2. /\ hand' \in [at : {"none", "claim"} \union Busy, event : Nat]
        /\ hand'.at = "send" /\ hand'.event = e
    BY <1>4 DEF NewsType, Busy
  <2>3. \A r \in rows' : IF r.key = Key(e) THEN r.at = "claimed" ELSE r \in rows
    BY <1>4 DEF RowOf, Row
  <2>4. \A r \in rows : r.at = "posted" => r \in rows'
    BY <1>4 DEF RowOf
  <2>5. NewsType' /\ Holding' /\ Recording'
    BY <1>1, <1>2, <2>1, <2>2, <2>3 DEF NewsType, Holding, Recording, Busy
  <2>6. Explained'
    BY <1>1, <1>2, <2>1, <2>2, <2>3 DEF Explained, Reason, Busy
  <2>7. Counted' /\ OneCounts' /\ Acknowledged'
    BY <1>1, <1>2, <1>4, <2>1, <2>4 DEF Counted, OneCounts, Acknowledged,
            Reason, Announced
  <2> QED BY <1>2, <2>5, <2>6, <2>7
<1>5. CASE Claim /\ (\E r \in RowOf(e) : r.at # "stale") /\ inbox' = inbox \ {e}
           /\ hand' = NoHand /\ UNCHANGED rows
  <2>1. /\ hand.at = "claim" /\ e \in DOMAIN log
        /\ hand'.at = "none" /\ hand'.event = 0
        /\ hand' \in [at : {"none", "claim"} \union Busy, event : Nat]
    BY <1>5 DEF Claim, NewsType, NoHand
  <2>2. NewsType' /\ Holding' /\ Recording'
    BY <1>1, <2>1 DEF NewsType, Holding, Recording, Busy
  <2>3. Explained'
    BY <1>1, <1>2, <1>5, <2>1 DEF Explained, Reason, Busy
  <2>4. Counted' /\ OneCounts'
    BY <1>1, <1>2, <1>5, <2>1 DEF Counted, OneCounts, Announced
  <2>5. \E f \in DOMAIN log : Key(f) = Key(e) /\ Reason(f)
    BY <1>5, <2>1 DEF RowOf, Explained, Busy
  <2>6. Acknowledged'
    BY <1>1, <1>2, <1>5, <2>5 DEF Acknowledged, Reason
  <2> QED BY <1>2, <2>2, <2>3, <2>4, <2>6
<1> QED BY <1>3, <1>4, <1>5 DEF Claim

(* The announcement and what may fail about it. *)
LEMMA PostNews ==
  ASSUME NewsInv, Post \/ PostFails
  PROVE  NewsInv'
<1> USE DEF NewsInv
<1> DEFINE e == hand.event
<1>1. /\ UNCHANGED <<log, inbox, season, rows, left>>
      /\ hand.at = "send" /\ e \in DOMAIN log /\ e \in 1..MaxEvents
  BY SeasonsAssumption DEF Post, PostFails, servers, feed, NewsType, LogOK
<1>2. LogOK' /\ \A f : Key(f)' = Key(f)
  BY <1>1 DEF LogOK, Key
<1>3. /\ hand' \in [at : {"none", "claim"} \union Busy, event : Nat]
      /\ hand'.at \in {"record", "release"} /\ hand'.event = e
      /\ Post => hand'.at = "record"
      /\ PostFails => hand'.at = "release"
  BY DEF Post, PostFails, NewsType, Busy
<1>4. DOMAIN log \subseteq 1..MaxEvents
  BY SeasonsAssumption DEF LogOK
<1>5. /\ posts' \in [1..MaxEvents -> Nat] /\ repeats' \in [1..MaxEvents -> Nat]
      /\ \A f \in 1..MaxEvents : f # e => posts'[f] = posts[f] /\ repeats'[f] = repeats[f]
      /\ posts'[e] >= posts[e]
      /\ Post => posts'[e] = posts[e] + 1 /\ repeats'[e] = repeats[e]
      /\ PostFails => \/ posts'[e] = posts[e] /\ repeats'[e] = repeats[e]
                      \/ posts'[e] = posts[e] + 1 /\ repeats'[e] = repeats[e] + 1
  <2>1. posts[e] \in Nat /\ repeats[e] \in Nat
    BY <1>1 DEF NewsType
  <2>2. CASE Post
    BY <1>1, <2>1, <2>2 DEF Post, NewsType, PostFails
  <2>3. CASE PostFails /\ UNCHANGED <<posts, repeats>>
    BY <1>3, <2>1, <2>3 DEF NewsType
  <2>4. CASE /\ PostFails /\ posts' = [posts EXCEPT ![e] = @ + 1]
             /\ repeats' = [repeats EXCEPT ![e] = @ + 1]
    BY <1>1, <1>3, <2>1, <2>4 DEF NewsType
  <2> QED BY <2>2, <2>3, <2>4 DEF PostFails
<1>6. \A f \in DOMAIN log : Key(f) = Key(e) => posts[f] = repeats[f]
  <2> TAKE f \in DOMAIN log
  <2> HAVE Key(f) = Key(e)
  <2>1. ~Announced(f)
    BY <1>1 DEF Counted, Holding, Busy
  <2> QED BY <2>1, <1>4 DEF Counted, Announced, NewsType
<1>7. NewsType'
  BY <1>1, <1>3, <1>5 DEF NewsType
<1>8. Holding'
  BY <1>1, <1>2, <1>3 DEF Holding, Busy
<1>9. Recording' /\ Counted'
  <2>1. posts[e] = repeats[e] /\ posts[e] \in Nat
    BY <1>1, <1>6 DEF NewsType
  <2> DEFINE p == posts'[e]
             q == repeats'[e]
  <2>2. /\ Post => p > q /\ p \in q..(q + 1)
        /\ PostFails => ~(p > q) /\ p \in q..(q + 1)
    <3>1. /\ Post => p = posts[e] + 1 /\ q = repeats[e]
          /\ PostFails => p = q /\ q \in Nat
      BY <1>5, <2>1
    <3> HIDE DEF p, q
    <3> QED BY <2>1, <3>1
  <2>3. Post => Announced(e)' /\ posts'[e] \in repeats'[e]..(repeats'[e] + 1)
    BY <1>3, <2>2 DEF Announced
  <2>4. PostFails => ~Announced(e)' /\ posts'[e] \in repeats'[e]..(repeats'[e] + 1)
    BY <1>3, <2>2 DEF Announced
  <2>5. Recording'
    BY <1>3, <2>3 DEF Recording
  <2>6. Counted'
    BY <1>1, <1>2, <1>3, <1>4, <1>5, <2>3, <2>4 DEF Counted, Announced
  <2> QED BY <2>5, <2>6
<1>10. OneCounts'
  <2> SUFFICES ASSUME NEW f \in DOMAIN log, NEW g \in DOMAIN log, Key(f) = Key(g),
                      Announced(f)', Announced(g)', f # g
               PROVE  FALSE
    BY <1>1, <1>2 DEF OneCounts
  <2>1. \A h \in DOMAIN log : h # e => Announced(h)' = Announced(h)
    BY <1>3, <1>4, <1>5 DEF Announced
  <2>2. \A h \in DOMAIN log : Key(h) = Key(e) => ~Announced(h)
    BY <1>4, <1>6 DEF Announced, NewsType
  <2> QED BY <2>1, <2>2 DEF OneCounts
<1>11. Explained'
  BY <1>1, <1>2, <1>3, <1>4, <1>5, <1>7 DEF Explained, Reason, Busy, NewsType
<1>12. Acknowledged'
  <2>1. \A f \in DOMAIN log : Reason(f) => Reason(f)'
    <3> TAKE f \in DOMAIN log
    <3>1. posts[f] \in Nat /\ posts'[f] \in Nat /\ posts'[f] >= posts[f]
      BY <1>4, <1>5 DEF NewsType
    <3> QED BY <1>1, <3>1 DEF Reason
  <2> QED BY <1>1, <1>2, <2>1 DEF Acknowledged
<1> QED BY <1>2, <1>7, <1>8, <1>9, <1>10, <1>11, <1>12

(* The claim is given back or left behind, the post is recorded, or neither. *)
LEMMA SettleNews ==
  ASSUME NewsInv, ClaimFails \/ Release \/ Record \/ Crash
  PROVE  NewsInv'
<1> USE DEF NewsInv
<1> DEFINE e == hand.event
<1>1. UNCHANGED <<log, season, posts>> /\ inbox' \subseteq inbox
  BY DEF ClaimFails, Release, Record, Crash, servers, feed
<1>2. LogOK' /\ \A f : Key(f)' = Key(f)
  BY <1>1 DEF LogOK, Key
<1>3. /\ hand' = NoHand /\ hand'.at = "none" /\ hand'.event = 0
      /\ hand' \in [at : {"none", "claim"} \union Busy, event : Nat]
  BY DEF ClaimFails, Release, Record, Crash, NoHand
<1>4. Holding' /\ Recording' /\ DOMAIN log \subseteq 1..MaxEvents
  BY <1>3, SeasonsAssumption DEF Holding, Recording, Busy, LogOK
<1>5. ASSUME UNCHANGED repeats, left \subseteq left', inbox' = inbox,
             \A r \in rows' : r \in rows,
             \A r \in rows : r.at = "posted" => r \in rows',
             hand.at # "record",
             hand.at \in Busy => e \in left' \/ \A r \in rows' : r.key # Key(e)
      PROVE  NewsInv'
  <2>1. NewsType'
    BY <1>1, <1>3, <1>5 DEF NewsType
  <2>2. Explained'
    BY <1>1, <1>2, <1>3, <1>5 DEF Explained, Reason, Busy
  <2>3. Counted' /\ OneCounts'
    BY <1>1, <1>2, <1>3, <1>5 DEF Counted, OneCounts, Announced
  <2>4. Acknowledged'
    BY <1>1, <1>2, <1>5 DEF Acknowledged, Reason
  <2> QED BY <1>2, <1>4, <2>1, <2>2, <2>3, <2>4
<1>6. ASSUME hand.at = "record", repeats' = [repeats EXCEPT ![e] = @ + 1],
             UNCHANGED <<left, inbox, rows>>
      PROVE  NewsInv'
  <2>1. /\ e \in DOMAIN log /\ e \in 1..MaxEvents /\ Announced(e)
        /\ posts[e] \in repeats[e]..(repeats[e] + 1)
    BY <1>4, <1>6 DEF NewsType, Recording, Counted
  <2>2. /\ repeats' \in [1..MaxEvents -> Nat]
        /\ \A f \in 1..MaxEvents :
             repeats'[f] = IF f = e THEN repeats[f] + 1 ELSE repeats[f]
    BY <1>6, <2>1 DEF NewsType
  <2>3. /\ posts[e] > 0 /\ ~(posts[e] > repeats'[e])
        /\ posts[e] \in repeats'[e]..(repeats'[e] + 1)
    <3> DEFINE p == posts[e]
               q == repeats[e]
    <3>1. p \in Nat /\ q \in Nat /\ p > q /\ p \in q..(q + 1)
      BY <2>1 DEF NewsType, Announced
    <3>2. repeats'[e] = q + 1
      BY <2>1, <2>2
    <3> HIDE DEF p, q
    <3>3. p > 0 /\ ~(p > q + 1) /\ p \in (q + 1)..(q + 1 + 1)
      BY <3>1
    <3> QED BY <3>2, <3>3 DEF p, q
  <2>4. NewsType'
    BY <1>1, <1>3, <1>6, <2>1, <2>2 DEF NewsType
  <2>5. Explained'
    BY <1>1, <1>2, <1>3, <1>6, <2>3 DEF Explained, Reason, Busy
  <2>6. Counted'
    <3> SUFFICES ASSUME NEW f \in DOMAIN log
                 PROVE  /\ posts'[f] \in repeats'[f]..(repeats'[f] + 1)
                        /\ Announced(f)' => \E r \in rows' : r.key = Key(f)'
                                                          /\ r.at = "posted"
      BY <1>1 DEF Counted
    <3>1. CASE f = e
      BY <1>1, <2>3, <3>1 DEF Announced
    <3>2. CASE f # e
      BY <1>1, <1>2, <1>4, <1>6, <2>2, <3>2 DEF Counted, Announced
    <3> QED BY <3>1, <3>2
  <2>7. OneCounts'
    BY <1>1, <1>2, <1>4, <2>2, <2>3 DEF OneCounts, Announced
  <2>8. Acknowledged'
    BY <1>1, <1>2, <1>6 DEF Acknowledged, Reason
  <2> QED BY <1>2, <1>4, <2>4, <2>5, <2>6, <2>7, <2>8
<1>7. CASE Release
  <2>1. /\ hand.at = "release" /\ UNCHANGED <<repeats, inbox>>
        /\ \/ rows' = rows \ RowOf(e) /\ UNCHANGED left
           \/ left' = left \union {e} /\ UNCHANGED rows
    BY <1>7 DEF Release, feed
  <2>2. \A r \in rows : r.key = Key(e) => r.at = "claimed"
    BY <2>1 DEF Holding, Busy
  <2> QED BY <1>5, <2>1, <2>2 DEF RowOf
<1>8. CASE Crash
  <2>1. UNCHANGED <<inbox, rows>>
    BY <1>8 DEF Crash, feed
  <2>2. CASE hand.at = "record"
    BY <1>6, <1>8, <2>1, <2>2 DEF Crash
  <2>3. CASE hand.at # "record"
    BY <1>5, <1>8, <2>1, <2>3 DEF Crash, Busy
  <2> QED BY <2>2, <2>3
<1>9. CASE Record
  <2>1. CASE repeats' = [repeats EXCEPT ![e] = @ + 1] /\ UNCHANGED <<rows, inbox>>
    BY <1>6, <1>9, <2>1 DEF Record
  <2>2. CASE /\ rows' = (rows \ RowOf(e)) \union {Row(e, "posted")}
             /\ inbox' = inbox \ {e} /\ UNCHANGED repeats
    <3>1. /\ hand.at = "record" /\ e \in DOMAIN log /\ Announced(e) /\ UNCHANGED left
          /\ posts[e] > 0
      BY <1>4, <1>9 DEF Record, NewsType, Recording, Announced
    <3>2. \A r \in rows' : IF r.key = Key(e) THEN r.at = "posted" ELSE r \in rows
      BY <2>2 DEF RowOf, Row
    <3>3. /\ \A r \in rows : r.key # Key(e) => r \in rows'
          /\ \E r \in rows' : r.key = Key(e) /\ r.at = "posted"
      <4>1. /\ Row(e, "posted") \in rows'
            /\ Row(e, "posted").key = Key(e) /\ Row(e, "posted").at = "posted"
        BY <2>2 DEF Row
      <4> QED BY <2>2, <4>1 DEF RowOf
    <3>4. NewsType'
      BY <1>1, <1>3, <2>2 DEF NewsType
    <3>5. Explained'
      BY <1>1, <1>2, <3>1, <3>2 DEF Explained, Reason, Busy
    <3>6. Counted'
      <4> SUFFICES ASSUME NEW f \in DOMAIN log, Announced(f)
                   PROVE  \E r \in rows' : r.key = Key(f) /\ r.at = "posted"
        BY <1>1, <1>2, <2>2 DEF Counted, Announced
      <4>1. CASE Key(f) = Key(e)
        BY <3>3, <4>1
      <4>2. CASE Key(f) # Key(e)
        BY <3>3, <4>2 DEF Counted
      <4> QED BY <4>1, <4>2
    <3>7. OneCounts'
      BY <1>1, <1>2, <2>2 DEF OneCounts, Announced
    <3>8. Acknowledged'
      BY <1>1, <1>2, <2>2, <3>1 DEF Acknowledged, Reason
    <3> QED BY <1>2, <1>4, <3>4, <3>5, <3>6, <3>7, <3>8
  <2> QED BY <1>9, <2>1, <2>2 DEF Record
<1>10. CASE ClaimFails
  <2>1. hand.at = "claim" /\ e \in DOMAIN log /\ UNCHANGED <<repeats, inbox>>
    BY <1>10 DEF ClaimFails, NewsType, feed
  <2>2. CASE UNCHANGED <<rows, left>>
    BY <1>5, <2>1, <2>2 DEF Busy
  <2>3. CASE /\ \A r \in RowOf(e) : r.at = "stale"
             /\ rows' = (rows \ RowOf(e)) \union {Row(e, "claimed")}
             /\ left' = left \union {e}
    <3>1. \A r \in rows' : r.key = Key(e) \/ r \in rows
      BY <2>3 DEF Row
    <3>2. \A r \in rows : r.at = "posted" => r \in rows'
      BY <2>3 DEF RowOf
    <3>3. NewsType'
      BY <1>1, <1>3, <2>1 DEF NewsType
    <3>4. Explained'
      BY <1>1, <1>2, <1>3, <2>1, <2>3, <3>1 DEF Explained, Reason, Busy
    <3>5. Counted' /\ OneCounts'
      BY <1>1, <1>2, <1>3, <2>1, <3>2 DEF Counted, OneCounts, Announced
    <3>6. Acknowledged'
      BY <1>1, <1>2, <2>1, <2>3 DEF Acknowledged, Reason
    <3> QED BY <1>2, <1>4, <3>3, <3>4, <3>5, <3>6
  <2> QED BY <1>10, <2>2, <2>3 DEF ClaimFails
<1> QED BY <1>7, <1>8, <1>9, <1>10

(* A claim gets old: not the one a poster in hand works under. *)
LEMMA StaleNews ==
  ASSUME NewsInv, NEW s \in rows, Stale(s)
  PROVE  NewsInv'
<1> USE DEF NewsInv
<1> DEFINE old == [s EXCEPT !.at = "stale"]
<1>1. /\ UNCHANGED <<log, inbox, season, posts, repeats, left, hand>>
      /\ s.at = "claimed" /\ rows' = (rows \ {s}) \union {old}
      /\ hand.event # 0 => Key(hand.event) # s.key
  BY DEF Stale, servers, feed
<1>2. LogOK' /\ \A f : Key(f)' = Key(f)
  BY <1>1 DEF LogOK, Key
<1>3. old.key = s.key
  OBVIOUS
<1>4. hand.at \in Busy => hand.event # 0
  BY DEF NewsType, LogOK, Busy
<1> HIDE DEF old
<1>5. NewsType' /\ Recording' /\ OneCounts' /\ Acknowledged'
  BY <1>1, <1>2 DEF NewsType, Recording, OneCounts, Acknowledged, Announced, Reason
<1>6. Holding'
  BY <1>1, <1>2, <1>3, <1>4 DEF Holding
<1>7. Explained'
  BY <1>1, <1>2, <1>3 DEF Explained, Reason
<1>8. Counted'
  BY <1>1, <1>2 DEF Counted, Announced
<1> QED BY <1>2, <1>5, <1>6, <1>7, <1>8

(* Every step preserves the invariant of the announcements. *)
LEMMA StepNews == IInv /\ IInv' /\ NewsInv /\ [Next]_vars => NewsInv'
<1> SUFFICES ASSUME IInv, IInv', NewsInv, [Next]_vars
             PROVE  NewsInv'
  OBVIOUS
<1>1. ASSUME UNCHANGED <<season, feed, news>>
      PROVE  NewsInv'
  <2>1. LogOK'
    BY <1>1 DEF NewsInv, LogOK, feed
  <2> QED BY <1>1, <2>1, GrowStep DEF NewsInv, LogOK, feed, news
<1>2. CASE \/ \E c \in Command :
                \/ CmdExtend(c) \/ CmdEndAt(c) \/ CmdEndNow(c)
                \/ CmdPrizeSet(c) \/ CmdPrizeClear(c) \/ CmdPrizeDelivered(c)
           \/ Confirm \/ Cancel \/ Send \/ Answered \/ Unanswered \/ UNCHANGED vars
  <2>1. UNCHANGED <<season, feed, news>>
    BY <1>2
    DEF CmdExtend, CmdEndAt, CmdEndNow, CmdPrizeSet, CmdPrizeClear,
        CmdPrizeDelivered, Give, Confirm, Cancel, Send, Answered, Unanswered,
        vars, servers, feed, news
  <2> QED BY <1>1, <2>1
<1> QED BY <1>2, ServersNews, ClaimNews, PostNews, SettleNews, StaleNews DEF Next

(* Nothing has been published or announced at the start. *)
LEMMA InitNews == Init => NewsInv
<1> SUFFICES ASSUME Init
             PROVE  NewsInv
  OBVIOUS
<1>1. /\ log = <<>> /\ inbox = {} /\ rows = {} /\ hand = NoHand
      /\ posts = [e \in 1..MaxEvents |-> 0] /\ repeats = [e \in 1..MaxEvents |-> 0]
  BY DEF Init
<1>2. DOMAIN log = {} /\ log \in Seq(EventRecord) /\ Len(log) = 0
  BY <1>1
<1>3. LogOK
  BY <1>1, <1>2, SeasonsAssumption DEF LogOK
<1> QED BY <1>1, <1>2, <1>3
        DEF NewsInv, NewsType, Holding, Recording, Explained, Counted, OneCounts,
            Acknowledged, NoHand, Busy

(* ToldOnce: whatever is acknowledged was announced, or a dead poster holds its
   claim; and it is announced once, and once more only for a post whose record
   was lost (_post_once, claim_post). *)
THEOREM ToldOnceSafe == Spec => []ToldOnce
<1>1. NewsInv => ToldOnce
  <2> SUFFICES ASSUME NewsInv, NEW e \in DOMAIN log
               PROVE  /\ e \notin inbox =>
                           \E f \in SameNews(e) : posts[f] > 0 \/ f \in left
                      /\ posts[e] \in repeats[e]..(repeats[e] + 1)
                      /\ \A f \in SameNews(e) :
                           Announced(e) /\ Announced(f) => e = f
    BY DEF ToldOnce
  <2>1. \A f \in DOMAIN log : Key(f) = Key(e) <=> f \in SameNews(e)
    BY NewsByKey DEF NewsInv
  <2>2. SameNews(e) \subseteq DOMAIN log
    BY DEF SameNews
  <2> QED BY <2>1, <2>2 DEF NewsInv, Acknowledged, Reason, Counted, OneCounts
<1> QED BY <1>1, InitIInv, StepIInv, InitNews, StepNews, PTL DEF Spec

-----------------------------------------------------------------------------
(* Account merges *)

Document ==
  [pid : Account \union {NoAccount}, closed : BOOLEAN, online : BOOLEAN,
   linked : BOOLEAN, play : Nat]
ViewRecord ==
  [at : {"new", "open", "read", "write", "kick", "ask", "clear", "queue", "done"},
   source : Account \union {NoAccount}, target : Account \union {NoAccount},
   keep : {"source", "target"}, tries : Nat,
   from : Account \union {NoAccount}, to : Account \union {NoAccount},
   docs : Document \X Document, banned : BOOLEAN \X BOOLEAN]

AccountsType == player \in [Account -> Document] /\ view \in [View -> ViewRecord]

(* A PID names one account. *)
PidsDiffer ==
  \A x, y \in Account : player[x].pid = player[y].pid => x = y

(* A command is about two accounts, and what a transaction has read of them is
   what it may write over. *)
ViewsOK ==
  \A v \in View : LET w == view[v] IN
    /\ w.at \in {"open", "read", "write"} => w.source # w.target
    /\ w.at = "write" =>
         /\ w.from \in Account /\ w.to \in Account /\ w.from # w.to
         /\ \A i \in 1..2 : ~w.docs[i].closed /\ ~w.docs[i].online

MergeIInv == AccountsType /\ PidsDiffer /\ ViewsOK

(* What the documents and commands start as is of their type. *)
LEMMA Nulls ==
  /\ NoDoc \in Document /\ NoView \in ViewRecord
  /\ NoView.at = "new" /\ NoView.source = NoAccount
BY DEF NoDoc, NoView, Document, ViewRecord

(* Every account starts with the PID of its own name. *)
LEMMA InitMergeIInv == MergeInit => MergeIInv
<1> SUFFICES ASSUME MergeInit PROVE MergeIInv
  OBVIOUS
<1>1. \A a \in Account :
        player[a] = [pid |-> a, closed |-> FALSE, online |-> FALSE,
                     linked |-> a \in Linked, play |-> 0]
  BY DEF MergeInit, NoDoc
<1>2. AccountsType
  <2>1. ASSUME NEW a \in Account PROVE player[a] \in Document
    <3>1. CASE a \in Linked
      <4> DEFINE d == [pid |-> a, closed |-> FALSE, online |-> FALSE,
                       linked |-> TRUE, play |-> 0]
      <4>1. (a \in Linked) = TRUE
        BY <3>1
      <4>2. player[a] = d
        BY <1>1, <4>1
      <4>3. d \in Document
        BY DEF Document
      <4> QED BY <4>2, <4>3
    <3>2. CASE a \notin Linked
      <4> DEFINE d == [pid |-> a, closed |-> FALSE, online |-> FALSE,
                       linked |-> FALSE, play |-> 0]
      <4>1. (a \in Linked) = FALSE
        BY <3>2
      <4>2. player[a] = d
        BY <1>1, <4>1
      <4>3. d \in Document
        BY DEF Document
      <4> QED BY <4>2, <4>3
    <3> QED BY <3>1, <3>2
  <2>2. player \in [Account -> Document]
    BY <2>1 DEF MergeInit
  <2>3. view \in [View -> ViewRecord]
    BY Nulls DEF MergeInit
  <2> QED BY <2>2, <2>3 DEF AccountsType
<1>3. PidsDiffer
  <2>1. ASSUME NEW a \in Account PROVE player[a].pid = a
    <3> DEFINE l == a \in Linked
    <3>1. player[a] = [pid |-> a, closed |-> FALSE, online |-> FALSE, linked |-> l,
                       play |-> 0]
      BY <1>1
    <3> HIDE DEF l
    <3> QED BY <3>1
  <2> QED BY <2>1 DEF PidsDiffer
<1>4. ViewsOK
  BY Nulls DEF MergeInit, ViewsOK
<1> QED BY <1>2, <1>3, <1>4 DEF MergeIInv

(* Joining and leaving keep the name of an account and whether it is closed. *)
LEMMA StepPlayer ==
  ASSUME MergeIInv, NEW a \in Account, Join(a) \/ Leave(a)
  PROVE  /\ MergeIInv'
         /\ \A b \in Account : player'[b].closed = player[b].closed
<1> USE DEF MergeIInv, AccountsType
<1>1. PICK d \in Document :
        /\ player' = [player EXCEPT ![a] = d]
        /\ d.pid = player[a].pid /\ d.closed = player[a].closed
  <2>1. CASE Join(a)
    <3> DEFINE d == [player[a] EXCEPT !.online = TRUE]
    <3>1. d \in Document /\ d.pid = player[a].pid /\ d.closed = player[a].closed
      BY DEF Document
    <3>2. player' = [player EXCEPT ![a] = d]
      BY <2>1 DEF Join
    <3> QED BY <3>1, <3>2
  <2>2. CASE Leave(a)
    <3> DEFINE d == [player[a] EXCEPT !.online = FALSE, !.play = @ + 1]
    <3>1. d \in Document /\ d.pid = player[a].pid /\ d.closed = player[a].closed
      <4>1. player[a] \in Document /\ player[a].play + 1 \in Nat
        BY DEF Document
      <4> QED BY <4>1 DEF Document
    <3>2. player' = [player EXCEPT ![a] = d]
      BY <2>2 DEF Leave
    <3> QED BY <3>1, <3>2
  <2> QED BY <2>1, <2>2
<1>2. view' = view
  BY DEF Join, Leave
<1>3. \A b \in Account : /\ player'[b].pid = player[b].pid
                         /\ player'[b].closed = player[b].closed
  BY <1>1
<1> QED BY <1>1, <1>2, <1>3 DEF PidsDiffer, ViewsOK

(* Steps of commands that write no document. *)
LEMMA StepView ==
  ASSUME MergeIInv, NEW v \in View, NEW w \in ViewRecord,
         view' = [view EXCEPT ![v] = w], player' = player,
         w.at \in {"open", "read", "write"} => w.source # w.target,
         w.at = "write" =>
           /\ w.from \in Account /\ w.to \in Account /\ w.from # w.to
           /\ \A i \in 1..2 : ~w.docs[i].closed /\ ~w.docs[i].online
  PROVE  MergeIInv'
BY DEF MergeIInv, AccountsType, PidsDiffer, ViewsOK

(* A command names two accounts, which have two PIDs. *)
LEMMA StepPreview ==
  ASSUME MergeIInv, NEW v \in View, NEW s \in Account, NEW t \in Account,
    Preview(v, s, t)
  PROVE  MergeIInv'
<1> DEFINE w == [view[v] EXCEPT !.at = "open", !.source = player[s].pid,
                                !.target = player[t].pid]
<1>1. /\ view[v] \in ViewRecord
      /\ player[s].pid \in Account \union {NoAccount}
      /\ player[t].pid \in Account \union {NoAccount}
      /\ player[s].pid # player[t].pid
  BY DEF MergeIInv, AccountsType, PidsDiffer, Preview, Document
<1>3. w \in ViewRecord /\ w.at = "open" /\ w.source # w.target
  BY <1>1 DEF ViewRecord
<1>2. view' = [view EXCEPT ![v] = w] /\ player' = player
  BY DEF Preview, accounts, MergeIInv, AccountsType, ViewRecord
<1> HIDE DEF w
<1> QED BY <1>2, <1>3, StepView

(* The snapshot is of two open accounts whose players are away. *)
LEMMA StepLoad ==
  ASSUME MergeIInv, NEW v \in View, Load(v)
  PROVE  MergeIInv'
<1>1. PICK s \in Account, t \in Account :
    /\ At(v, "read")
    /\ player[s].pid = view[v].source /\ player[t].pid = view[v].target
    /\ view' = [view EXCEPT ![v] =
         IF Mergeable(s) /\ Mergeable(t)
         THEN [@ EXCEPT !.at = "write", !.from = s, !.to = t,
                        !.docs = <<player[s], player[t]>>,
                        !.banned = <<Banned(s), Banned(t)>>]
         ELSE [NoView EXCEPT !.at = "done"]]
    /\ player' = player
  BY DEF Load, accounts
<1>2. view[v].source # view[v].target /\ view[v] \in ViewRecord
  BY <1>1 DEF MergeIInv, AccountsType, ViewsOK, At
<1>3. CASE Mergeable(s) /\ Mergeable(t)
  <2> DEFINE w == [view[v] EXCEPT !.at = "write", !.from = s, !.to = t,
                        !.docs = <<player[s], player[t]>>,
                        !.banned = <<Banned(s), Banned(t)>>]
  <2>1. s # t
    BY <1>1, <1>2
  <2>2. player[s] \in Document /\ player[t] \in Document
    BY DEF MergeIInv, AccountsType
  <2>3. Banned(s) \in BOOLEAN /\ Banned(t) \in BOOLEAN
    BY DEF Banned
  <2>4. /\ w.at = "write" /\ w.from = s /\ w.to = t
        /\ w.source = view[v].source /\ w.target = view[v].target
        /\ w.docs[1] = player[s] /\ w.docs[2] = player[t]
    BY <1>2 DEF ViewRecord
  <2>5. w \in ViewRecord
    <3> DEFINE b1 == Banned(s)
               b2 == Banned(t)
    <3>1. b1 \in BOOLEAN /\ b2 \in BOOLEAN
      BY <2>3
    <3> HIDE DEF b1, b2
    <3>2. [view[v] EXCEPT !.at = "write", !.from = s, !.to = t,
                          !.docs = <<player[s], player[t]>>,
                          !.banned = <<b1, b2>>] \in ViewRecord
      BY <1>2, <2>2, <3>1 DEF ViewRecord
    <3> QED BY <3>2 DEF b1, b2
  <2>6. view' = [view EXCEPT ![v] = w]
    BY <1>1, <1>3
  <2>7. ~player[s].closed /\ ~player[s].online /\ ~player[t].closed /\ ~player[t].online
    BY <1>3 DEF Mergeable
  <2>8. \A i \in 1..2 : ~w.docs[i].closed /\ ~w.docs[i].online
    <3>1. \A i \in 1..2 : i = 1 \/ i = 2
      OBVIOUS
    <3> HIDE DEF w
    <3> QED BY <2>4, <2>7, <3>1
  <2> HIDE DEF w
  <2> QED BY <1>1, <1>2, <2>1, <2>4, <2>5, <2>6, <2>8, StepView
<1>4. CASE ~(Mergeable(s) /\ Mergeable(t))
  <2>1. view' = [view EXCEPT ![v] = [NoView EXCEPT !.at = "done"]]
    BY <1>1, <1>4
  <2>2. [NoView EXCEPT !.at = "done"] \in ViewRecord
    BY Nulls DEF ViewRecord
  <2>3. [NoView EXCEPT !.at = "done"].at = "done"
    BY DEF NoView
  <2> DEFINE w == [NoView EXCEPT !.at = "done"]
  <2> HIDE DEF w
  <2> QED BY <1>1, <2>1, <2>2, <2>3, StepView DEF w
<1> QED BY <1>3, <1>4

(* Steps of a command that is not to write any more. *)
LEMMA StepOn ==
  ASSUME MergeIInv, NEW v \in View, NEW w \in ViewRecord,
         view' = [view EXCEPT ![v] = w], player' = player,
         w.at \notin {"open", "read", "write"}
  PROVE  MergeIInv'
BY StepView

(* A confirmed command is about the same accounts. *)
LEMMA StepConfirm ==
  ASSUME MergeIInv, NEW v \in View, ConfirmMerge(v)
  PROVE  MergeIInv'
<1>1. PICK keep \in {"source", "target"} :
        view' = [view EXCEPT ![v].at = "read", ![v].keep = keep]
  BY DEF ConfirmMerge
<1> DEFINE w == [view[v] EXCEPT !.at = "read", !.keep = keep]
<1>2. view[v] \in ViewRecord /\ view[v].source # view[v].target
  BY DEF MergeIInv, AccountsType, ViewsOK, ConfirmMerge, At
<1>3. w \in ViewRecord /\ w.at = "read" /\ w.source # w.target
  BY <1>2 DEF ViewRecord
<1>4. view' = [view EXCEPT ![v] = w] /\ player' = player
  BY <1>1 DEF ConfirmMerge, accounts
<1> HIDE DEF w
<1> QED BY <1>3, <1>4, StepView

(* A transaction tried again forgets its snapshot. *)
LEMMA StepRetry ==
  ASSUME MergeIInv, NEW v \in View, Retry(v)
  PROVE  MergeIInv'
<1> DEFINE w == [view[v] EXCEPT !.at = "read", !.from = NoAccount, !.to = NoAccount,
                                !.docs = NoView.docs, !.banned = NoView.banned]
<1>1. view[v] \in ViewRecord /\ view[v].source # view[v].target
  BY DEF MergeIInv, AccountsType, ViewsOK, Retry, At
<1>2. NoView.docs \in Document \X Document /\ NoView.banned \in BOOLEAN \X BOOLEAN
  BY Nulls DEF NoView
<1>3. w \in ViewRecord /\ w.at = "read" /\ w.source # w.target
  BY <1>1, <1>2 DEF ViewRecord
<1>4. view' = [view EXCEPT ![v] = w] /\ player' = player
  BY DEF Retry, accounts
<1> HIDE DEF w
<1> QED BY <1>3, <1>4, StepView

(* What the steps after the commit make of a command. *)
LEMMA StepAfter ==
  ASSUME MergeIInv, NEW v \in View,
         \/ Kick(v) \/ Asked(v) \/ AskedInVain(v) \/ AskedAndRefused(v)
         \/ RecordMerge(v) \/ RecordMergeFails(v)
  PROVE  MergeIInv'
<1>1. view[v] \in ViewRecord /\ player' = player
  BY DEF MergeIInv, AccountsType, Kick, Asked, AskedInVain, AskedAndRefused,
         RecordMerge, RecordMergeFails, accounts
<1>2. PICK w \in ViewRecord :
        /\ view' = [view EXCEPT ![v] = w]
        /\ w.at \notin {"open", "read", "write"}
  <2>1. CASE Kick(v)
    <3> DEFINE w == [view[v] EXCEPT !.at = "ask", !.tries = 1]
    <3>1. w \in ViewRecord /\ w.at = "ask"
      BY <1>1 DEF ViewRecord
    <3>2. view' = [view EXCEPT ![v] = w]
      BY <2>1 DEF Kick
    <3> QED BY <3>1, <3>2
  <2>2. CASE Asked(v)
    <3> DEFINE w == [view[v] EXCEPT !.at = "clear", !.tries = 0]
    <3>1. w \in ViewRecord /\ w.at = "clear"
      BY <1>1 DEF ViewRecord
    <3>2. view' = [view EXCEPT ![v] = w]
      BY <2>2 DEF Asked
    <3> QED BY <3>1, <3>2
  <2>3. CASE AskedInVain(v)
    <3>1. CASE view' = [view EXCEPT ![v] = NoAnswer(@, "queue")]
      <4> DEFINE w == NoAnswer(view[v], "queue")
      <4>1. CASE view[v].tries = MaxAsked
        <5>1. w = [view[v] EXCEPT !.at = "queue", !.tries = 0]
          BY <1>1, <4>1 DEF NoAnswer, ViewRecord
        <5>2. /\ [view[v] EXCEPT !.at = "queue", !.tries = 0] \in ViewRecord
              /\ [view[v] EXCEPT !.at = "queue", !.tries = 0].at = "queue"
          BY <1>1 DEF ViewRecord
        <5>3. view' = [view EXCEPT ![v] = w]
          BY <3>1
        <5> HIDE DEF w
        <5> QED BY <5>1, <5>2, <5>3
      <4>3. CASE view[v].tries # MaxAsked
        <5> DEFINE n == view[v].tries + 1
        <5>1. w = [view[v] EXCEPT !.at = "ask", !.tries = n]
          BY <1>1, <4>3 DEF NoAnswer, ViewRecord
        <5>2. n \in Nat
          BY <1>1 DEF ViewRecord
        <5> HIDE DEF w, n
        <5>3. /\ [view[v] EXCEPT !.at = "ask", !.tries = n] \in ViewRecord
              /\ [view[v] EXCEPT !.at = "ask", !.tries = n].at = "ask"
          BY <1>1, <5>2 DEF ViewRecord
        <5>4. view' = [view EXCEPT ![v] = w]
          BY <3>1 DEF w
        <5> QED BY <5>1, <5>3, <5>4
      <4> QED BY <4>1, <4>3
    <3>2. CASE view' = [view EXCEPT ![v].at = "queue", ![v].tries = 0]
      <4> DEFINE w == [view[v] EXCEPT !.at = "queue", !.tries = 0]
      <4>1. w \in ViewRecord /\ w.at = "queue"
        BY <1>1 DEF ViewRecord
      <4>2. view' = [view EXCEPT ![v] = w]
        BY <3>2
      <4> QED BY <4>1, <4>2
    <3> QED BY <2>3, <3>1, <3>2 DEF AskedInVain
  <2>4. CASE AskedAndRefused(v) \/ RecordMerge(v) \/ RecordMergeFails(v)
    <3> DEFINE w == [NoView EXCEPT !.at = "done"]
    <3>1. w \in ViewRecord /\ w.at = "done"
      BY Nulls DEF ViewRecord
    <3>2. view' = [view EXCEPT ![v] = w]
      BY <2>4 DEF AskedAndRefused, RecordMerge, RecordMergeFails
    <3> QED BY <3>1, <3>2
  <2> QED BY <2>1, <2>2, <2>3, <2>4
<1> QED BY <1>1, <1>2, StepOn

(* A dead bot leaves no command under way. *)
LEMMA StepCrash ==
  ASSUME MergeIInv, BotDies
  PROVE  MergeIInv'
<1> DEFINE done == [NoView EXCEPT !.at = "done"]
<1>1. /\ done \in ViewRecord /\ done.at = "done"
      /\ NoView \in ViewRecord /\ NoView.at = "new"
  BY Nulls DEF ViewRecord
<1>2. view' = [v \in View |-> IF At(v, "new") THEN NoView ELSE done]
  BY DEF BotDies
<1> HIDE DEF done
<1>3. /\ view' \in [View -> ViewRecord]
      /\ \A v \in View : view'[v].at \in {"new", "done"}
  BY <1>1, <1>2
<1> QED BY <1>3 DEF BotDies, accounts, MergeIInv, AccountsType, PidsDiffer, ViewsOK

(* What a transaction that is not tried again writes. *)
LEMMA Written ==
  ASSUME MergeIInv, NEW v \in View, Apply(v)
  PROVE  LET w == view[v] IN
    /\ w.from \in Account /\ w.to \in Account /\ w.from # w.to
    /\ player[w.from] \in Document /\ player[w.to] \in Document
    /\ w.docs[1] = player[w.from] /\ w.docs[2] = player[w.to]
    /\ \A a \in {w.from, w.to} : ~player[a].closed /\ ~player[a].online
    /\ Closed(w) \in Document /\ Surviving(w) \in Document
    /\ Closed(w).closed /\ Closed(w).play = 0 /\ ~Closed(w).linked
    /\ ~Surviving(w).closed
    /\ Surviving(w).play = player[w.to].play + player[w.from].play
    /\ Surviving(w).linked = (player[w.to].linked \/ player[w.from].linked)
    /\ \/ /\ Closed(w).pid = player[w.from].pid
          /\ Surviving(w).pid = player[w.to].pid
       \/ /\ Closed(w).pid = player[w.to].pid
          /\ Surviving(w).pid = player[w.from].pid
<1> DEFINE w == view[v]
           d == player[w.from]
           e == player[w.to]
<1>1. /\ w.from \in Account /\ w.to \in Account /\ w.from # w.to
      /\ \A i \in 1..2 : ~w.docs[i].closed /\ ~w.docs[i].online
  BY DEF MergeIInv, ViewsOK, Apply, At
<1>2. w.docs[1] = d /\ w.docs[2] = e
  BY DEF Apply, NotOverwritten
<1>3. d \in Document /\ e \in Document
  BY <1>1 DEF MergeIInv, AccountsType
<1>4. ~d.closed /\ ~d.online /\ ~e.closed /\ ~e.online
  BY <1>1, <1>2
<1>5. d.play + e.play \in Nat /\ d.play + e.play = e.play + d.play
  BY <1>3 DEF Document
<1>6. (d.linked \/ e.linked) \in BOOLEAN
  BY <1>3 DEF Document
<1> DEFINE p == w.docs[IF w.keep = "source" THEN 1 ELSE 2].pid
           q == w.docs[IF w.keep = "source" THEN 2 ELSE 1].pid
<1>7. (p = d.pid /\ q = e.pid) \/ (p = e.pid /\ q = d.pid)
  BY <1>2
<1>8. /\ Surviving(w) = [e EXCEPT !.pid = p, !.play = d.play + e.play,
                                  !.linked = d.linked \/ e.linked]
      /\ Closed(w) = [d EXCEPT !.pid = q, !.closed = TRUE, !.play = 0,
                               !.linked = FALSE]
  BY <1>2 DEF Surviving, Closed
<1>9. p \in Account \union {NoAccount} /\ q \in Account \union {NoAccount}
  BY <1>3, <1>7 DEF Document
<1> HIDE DEF p, q, d, e
<1>10. /\ Closed(w) \in Document /\ Closed(w).closed /\ Closed(w).play = 0
       /\ ~Closed(w).linked /\ Closed(w).pid = q
  <2>1. Closed(w) = [pid |-> q, closed |-> TRUE, online |-> d.online,
                     linked |-> FALSE, play |-> 0]
    BY <1>3, <1>8 DEF Document
  <2>2. d.online \in BOOLEAN
    BY <1>3 DEF Document
  <2> HIDE <1>8
  <2> QED BY <1>9, <2>1, <2>2 DEF Document
<1>11. /\ Surviving(w) \in Document /\ Surviving(w).closed = e.closed
       /\ Surviving(w).play = d.play + e.play /\ Surviving(w).pid = p
  <2> DEFINE n == d.play + e.play
             l == d.linked \/ e.linked
  <2>1. n \in Nat /\ l \in BOOLEAN
    BY <1>5, <1>6
  <2>2. Surviving(w) = [e EXCEPT !.pid = p, !.play = n, !.linked = l]
    BY <1>8
  <2> HIDE DEF n, l
  <2>3. /\ Surviving(w) \in Document /\ Surviving(w).closed = e.closed
        /\ Surviving(w).play = n /\ Surviving(w).pid = p
    BY <1>3, <1>9, <2>1, <2>2 DEF Document
  <2> QED BY <2>3 DEF n
<1>12. Surviving(w).linked = (d.linked \/ e.linked)
  <2> DEFINE l == d.linked \/ e.linked
  <2>1. Surviving(w) = [e EXCEPT !.pid = p, !.play = d.play + e.play, !.linked = l]
    BY <1>8
  <2> HIDE DEF l
  <2>2. Surviving(w).linked = l
    BY <1>3, <2>1 DEF Document
  <2> QED BY <2>2 DEF l
<1>13. Surviving(w).linked = (e.linked \/ d.linked)
  BY <1>12
<1> QED
  BY <1>1, <1>2, <1>3, <1>4, <1>5, <1>7, <1>10, <1>11, <1>13 DEF d, e

(* The commit: the two PIDs stay, or change places. *)
LEMMA StepApply ==
  ASSUME MergeIInv, NEW v \in View, Apply(v)
  PROVE  MergeIInv'
<1> DEFINE w == view[v]
           closed == Closed(w)
           survivor == Surviving(w)
           kick == [NoView EXCEPT !.at = "kick", !.from = w.from, !.to = w.to]
<1>1. /\ w.from \in Account /\ w.to \in Account /\ w.from # w.to
      /\ closed \in Document /\ survivor \in Document
      /\ \/ closed.pid = player[w.from].pid /\ survivor.pid = player[w.to].pid
         \/ closed.pid = player[w.to].pid /\ survivor.pid = player[w.from].pid
  BY Written
<1>2. /\ player' = [player EXCEPT ![w.from] = closed, ![w.to] = survivor]
      /\ view' = [view EXCEPT ![v] = kick]
  BY DEF Apply
<1>3. kick \in ViewRecord /\ kick.at = "kick"
  BY <1>1, Nulls DEF ViewRecord
<1> HIDE DEF w, closed, survivor, kick
<1>4. AccountsType'
  BY <1>1, <1>2, <1>3 DEF MergeIInv, AccountsType
<1>5. ViewsOK'
  BY <1>2, <1>3 DEF MergeIInv, AccountsType, ViewsOK
<1>6. PidsDiffer'
  <2>1. /\ player'[w.from] = closed /\ player'[w.to] = survivor
        /\ \A a \in Account \ {w.from, w.to} : player'[a] = player[a]
    BY <1>1, <1>2 DEF MergeIInv, AccountsType
  <2> QED BY <1>1, <2>1 DEF MergeIInv, PidsDiffer
<1> QED BY <1>4, <1>5, <1>6 DEF MergeIInv

(* What the staff, the servers and the daemon do writes no account. *)
LEMMA StepElsewhere ==
  ASSUME MergeIInv, UNCHANGED <<player, view>>
  PROVE  MergeIInv'
BY DEF MergeIInv, AccountsType, PidsDiffer, ViewsOK

(* Only the transaction writes a document, the game's steps apart. *)
LEMMA StepMergeIInv ==
  ASSUME MergeIInv, [MergeNext]_mergevars
  PROVE  /\ MergeIInv'
         /\ (\A v \in View : ~Apply(v)) =>
              \A a \in Account : player'[a].closed = player[a].closed
<1>1. ASSUME NEW a \in Account, Join(a) \/ Leave(a)
      PROVE  MergeIInv' /\ \A b \in Account : player'[b].closed = player[b].closed
  BY <1>1, StepPlayer
<1>2. CASE \/ \E a \in Account : Ban(a)
           \/ \E b \in bans : Unban(b)
           \/ \E m \in late : LateMerge(m)
           \/ Retrying \/ RetryInVain \/ RetryRefused \/ RecordRetryFails
           \/ UNCHANGED mergevars
  <2>1. UNCHANGED <<player, view>>
    BY <1>2 DEF Ban, Unban, LateMerge, Retrying, StartRetry, NextRetry, RetryAsked,
       RecordRetry, RetryInVain, RetryRefused, RecordRetryFails, mergevars, accounts
  <2> QED BY <2>1, StepElsewhere
<1>3. ASSUME NEW v \in View, NEW s \in Account, NEW t \in Account, Preview(v, s, t)
      PROVE  MergeIInv' /\ player' = player
  BY <1>3, StepPreview DEF Preview, accounts
<1>4. ASSUME NEW v \in View,
             \/ ConfirmMerge(v) \/ Load(v) \/ Retry(v) \/ Kick(v) \/ Asked(v)
             \/ RecordMerge(v) \/ RecordMergeFails(v)
             \/ AskedInVain(v) \/ AskedAndRefused(v)
      PROVE  MergeIInv' /\ player' = player
  <2>1. MergeIInv'
    BY <1>4, StepConfirm, StepLoad, StepRetry, StepAfter
  <2>2. player' = player
    BY <1>4 DEF ConfirmMerge, Load, Retry, Kick, Asked, RecordMerge, RecordMergeFails,
       AskedInVain, AskedAndRefused, accounts
  <2> QED BY <2>1, <2>2
<1>5. ASSUME NEW v \in View, Apply(v)
      PROVE  MergeIInv'
  BY <1>5, StepApply
<1>6. CASE BotDies
  BY <1>6, StepCrash DEF BotDies, accounts
<1> QED BY <1>1, <1>2, <1>3, <1>4, <1>5, <1>6 DEF MergeNext, Merging

(* The inductive invariant holds of every behaviour. *)
LEMMA MergeInvariance == MergeSpec => []MergeIInv
BY InitMergeIInv, StepMergeIInv, PTL DEF MergeSpec

(* A merge is of the two accounts its transaction read. *)
LEMMA StepWhole ==
  ASSUME MergeIInv, [MergeNext]_mergevars, NEW s \in Account, NEW t \in Account,
    MergedInto(s, t)
  PROVE  Whole(s, t)
<1>1. PICK v \in View : Apply(v)
  BY StepMergeIInv DEF MergedInto
<1> DEFINE w == view[v]
           closed == Closed(w)
           survivor == Surviving(w)
<1>2. /\ w.from \in Account /\ w.to \in Account /\ w.from # w.to
      /\ \A a \in {w.from, w.to} : ~player[a].closed /\ ~player[a].online
      /\ closed.closed /\ closed.play = 0 /\ ~closed.linked
      /\ ~survivor.closed
      /\ survivor.play = player[w.to].play + player[w.from].play
      /\ survivor.linked = (player[w.to].linked \/ player[w.from].linked)
  BY <1>1, Written
<1>3. /\ player'[w.from] = closed /\ player'[w.to] = survivor
      /\ \A a \in Account \ {w.from, w.to} : player'[a] = player[a]
  BY <1>1, <1>2 DEF Apply, MergeIInv, AccountsType
<1> HIDE DEF closed, survivor
<1>4. s = w.from /\ t = w.to
  BY <1>2, <1>3 DEF MergedInto
<1>5. Banned(t)' => Banned(t) \/ Banned(s)
  BY <1>1, <1>4 DEF Apply, Transferred, NotOverwritten, Banned
<1>6. ASSUME NEW u \in View, Committing(u), view[u].banned[1]
      PROVE  Banned(t)'
  <2>1. u = v
    <3>1. view' = [view EXCEPT ![v] = [NoView EXCEPT !.at = "kick", !.from = w.from,
                                                     !.to = w.to]]
      BY <1>1 DEF Apply
    <3> QED BY <1>6, <3>1 DEF Committing, At
  <2>2. CASE w.banned[2]
    <3>1. Banned(t) /\ bans \subseteq bans'
      BY <1>1, <1>4, <2>2 DEF Apply, NotOverwritten
    <3> QED BY <3>1 DEF Banned
  <2>3. CASE ~w.banned[2]
    <3>1. [uuid |-> t, of |-> "merge"] \in bans'
      BY <1>1, <1>4, <1>6, <2>1, <2>3 DEF Apply, Transferred
    <3> QED BY <3>1 DEF Banned
  <2> QED BY <2>2, <2>3
<1>7. PidsDiffer'
  BY StepMergeIInv DEF MergeIInv
<1> QED BY <1>2, <1>3, <1>4, <1>5, <1>6, <1>7 DEF Whole, PidsDiffer

(* A committed merge loses nothing, counts nothing twice, lets a ban go on and
   no lifted one come back, and keeps PIDs apart, whatever the players, the
   staff and other merges did since its preview. *)
THEOREM MergeIsWholeSafe == MergeSpec => MergeIsWhole
<1>1. MergeIInv /\ [MergeNext]_mergevars =>
        [\A s, t \in Account : MergedInto(s, t) => Whole(s, t)]_mergevars
  BY StepWhole
<1> QED BY <1>1, MergeInvariance, PTL DEF MergeSpec, MergeIsWhole
=============================================================================
