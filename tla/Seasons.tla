------------------------------- MODULE Seasons -------------------------------
(***************************************************************************)
(* One ladder: the season and prize commands of administrators             *)
(* (cogs/seasons.py), asked of one game server after another               *)
(* (on_any_live_server of mindustry_rpc.py, rpc_request of transport.py),  *)
(* the events the servers publish, and their announcements                 *)
(* (handlers_seasons.py, claims of rating_store.py).                       *)
(*                                                                         *)
(* The servers share one storage; they own the season.  An event is its    *)
(* place in the log, which is also when it occurred.  The channel of the   *)
(* announcements is configured; without one every event is acknowledged    *)
(* and nothing is posted.                                                  *)
(***************************************************************************)
EXTENDS Naturals, FiniteSets, Sequences

CONSTANTS
  Command,     \* commands of administrators, each confirmed once
  None,        \* no command
  MaxServers,  \* servers asked for one command
  MaxEvents, MaxFaults  \* bounds

ASSUME SeasonsAssumption ==
  /\ None \notin Command
  /\ MaxServers \in Nat \ {0} /\ {MaxEvents, MaxFaults} \subseteq Nat

VARIABLES
  season,   \* its number, its end, its prizes, and the seasons whose prizes are owed
  seen,     \* request ids the servers have carried out
  asked,    \* [command, op, id]: requests sent, not yet handled by a server
  answers,  \* [command, id, ok] on the reply stream
  admin,    \* the command in progress
  given,    \* commands given
  applied,  \* times each command changed the season
  log,      \* events published
  inbox,    \* those not acknowledged
  rows,     \* claims of announcements: [key, at]
  hand,     \* the event a consumer is announcing
  posts,    \* times each event was announced
  left,     \* events whose claim was left behind
  repeats,  \* announcements made and not recorded
  faults

vars == <<season, seen, asked, answers, admin, given, applied, log, inbox, rows,
          hand, posts, left, repeats, faults>>
servers == <<season, seen, applied>>
request == <<asked, answers, admin, given>>
feed == <<log, inbox>>
news == <<rows, hand, posts, left, repeats>>

Reschedules == {"extend", "set_end", "end_now"}
PrizeChanges == {"add_prize", "clear_prizes"}
Deliveries == {"delivered"}
Kind == {"started", "ending-soon", "ended", "rescheduled"}

NoAdmin == [at |-> "none", command |-> None, op |-> "extend", tries |-> 0]
NoHand == [at |-> "none", event |-> 0]
FirstEnd == 1
LastSeason == 0

Init ==
  /\ season = [number |-> 1, end |-> FirstEnd, prizes |-> 0, owed |-> {LastSeason}]
  /\ seen = {} /\ asked = {} /\ answers = {}
  /\ admin = NoAdmin /\ given = {}
  /\ applied = [c \in Command |-> 0]
  /\ log = <<>> /\ inbox = {}
  /\ rows = {} /\ hand = NoHand
  /\ posts = [e \in 1..MaxEvents |-> 0]
  /\ left = {} /\ repeats = [e \in 1..MaxEvents |-> 0]
  /\ faults = 0

Fault == faults < MaxFaults /\ faults' = faults + 1

-----------------------------------------------------------------------------
(* The command *)

(* Mutant: an id for every server asked. *)
RequestIdEach(c, n) == <<c, n>>

(* _request_id: one for the command, whichever server is asked. *)
RequestId(c, n) == <<c, 1>>

(* A command is given once; an administrator waits for its answer. *)
Give(c, op, at) ==
  /\ admin = NoAdmin /\ c \notin given
  /\ given' = given \union {c}
  /\ admin' = [at |-> at, command |-> c, op |-> op, tries |-> 1]
  /\ UNCHANGED <<asked, answers, servers, feed, news, faults>>

CmdExtend(c) == Give(c, "extend", "send")
CmdEndAt(c) == Give(c, "set_end", "send")
CmdPrizeSet(c) == Give(c, "add_prize", "send")
CmdPrizeClear(c) == Give(c, "clear_prizes", "send")
CmdPrizeDelivered(c) == Give(c, "delivered", "send")

(* The end of a season is asked to be confirmed. *)
CmdEndNow(c) == Give(c, "end_now", "confirm")

(* The view stops at the first press of the administrator who asked. *)
Confirm ==
  /\ admin.at = "confirm"
  /\ admin' = [admin EXCEPT !.at = "send"]
  /\ UNCHANGED <<asked, answers, given, servers, feed, news, faults>>

(* _cancel and on_timeout. *)
Cancel ==
  /\ admin.at = "confirm"
  /\ admin' = NoAdmin
  /\ UNCHANGED <<asked, answers, given, servers, feed, news, faults>>

NoId == <<None, 0>>

(* What goes to the stream of a server.  Prizes handed over carry no id: to
   mark them again changes nothing. *)
RescheduleRequest(c, op, n) ==
  [command |-> c, op |-> op, id |-> RequestId(c, n), try |-> n]
PrizesRequest(c, op, n) ==
  [command |-> c, op |-> op, id |-> RequestId(c, n), try |-> n]
DeliveredRequest(c, op, n) ==
  [command |-> c, op |-> op, id |-> NoId, try |-> n]

Request ==
  CASE admin.op \in Reschedules -> RescheduleRequest(admin.command, admin.op, admin.tries)
    [] admin.op \in PrizeChanges -> PrizesRequest(admin.command, admin.op, admin.tries)
    [] admin.op \in Deliveries -> DeliveredRequest(admin.command, admin.op, admin.tries)

(* rpc_request: the cursor is at the end of the reply stream, so earlier
   answers are not read. *)
Send ==
  /\ admin.at = "send"
  /\ asked' = asked \union {Request}
  /\ admin' = [admin EXCEPT !.at = "wait"]
  /\ UNCHANGED <<answers, given, servers, feed, news, faults>>

(* run_admin words the first answer that belongs to the request: done, or
   refused, which ends the attempt. *)
Answered ==
  /\ admin.at = "wait"
  /\ \E a \in answers : a.command = admin.command /\ a.try = admin.tries
  /\ admin' = NoAdmin
  /\ answers' = {}
  /\ UNCHANGED <<asked, given, servers, feed, news, faults>>

(* TimeoutError and RpcFailed: the next server, and the request may still be
   carried out; after the last one the administrator is told to look. *)
Unanswered ==
  /\ admin.at = "wait" /\ Fault
  /\ admin' = IF admin.tries = MaxServers THEN NoAdmin
              ELSE [admin EXCEPT !.at = "send", !.tries = @ + 1]
  /\ UNCHANGED <<asked, answers, given, servers, feed, news>>

-----------------------------------------------------------------------------
(* The servers *)

Publish(events) ==
  /\ Len(log) + Len(events) <= MaxEvents
  /\ log' = log \o events
  /\ inbox' = inbox \union (Len(log) + 1)..(Len(log) + Len(events))

Event(kind, s) == [kind |-> kind, season |-> s.number, end |-> s.end]

(* Bound: whole intervals of the end. *)
Moved(op) ==
  CASE op = "extend" -> [season EXCEPT !.end = @ + 1]
    [] op = "set_end" -> [season EXCEPT !.end = FirstEnd]
    [] op = "end_now" -> [number |-> season.number + 1, end |-> FirstEnd,
                          prizes |-> 0,
                          owed |-> season.owed \union
                                     {n \in {season.number} : season.prizes > 0}]

PrizeAdded == [season EXCEPT !.prizes = @ + 1]
PrizesCleared == [season EXCEPT !.prizes = 0]

(* Bound: only the prizes of the season before are handed over. *)
PrizesDelivered == [season EXCEPT !.owed = @ \ {LastSeason}]

Changed(op) ==
  CASE op \in Reschedules -> Moved(op)
    [] op = "add_prize" -> PrizeAdded
    [] op = "clear_prizes" -> PrizesCleared
    [] op = "delivered" -> PrizesDelivered

Published(op) ==
  CASE op = "end_now" -> <<Event("ended", season), Event("started", season')>>
    [] op \in {"extend", "set_end"} -> <<Event("rescheduled", season')>>
    [] OTHER -> <<>>

(* A request is carried out once for its id; a repetition is refused. *)
Serve(r) ==
  /\ asked' = asked \ {r}
  /\ answers' = answers \union {[command |-> r.command, try |-> r.try]}
  /\ \/ r.id \in seen /\ UNCHANGED <<servers, feed>>
     \/ /\ r.id \notin seen
        /\ seen' = seen \union ({r.id} \ {NoId})
        /\ season' = Changed(r.op)
        /\ applied' = IF season' = season /\ r.op = "delivered" THEN applied
                      ELSE [applied EXCEPT ![r.command] = @ + 1]
        /\ Publish(Published(r.op))
  /\ UNCHANGED <<admin, given, news, faults>>

(* A notice, again after the end was moved. *)
EndingSoon ==
  /\ \A e \in DOMAIN log : log[e] # Event("ending-soon", season)
  /\ Publish(<<Event("ending-soon", season)>>)
  /\ UNCHANGED <<servers, request, news, faults>>

(* The stream delivers an event again. *)
Replay(e) ==
  /\ Fault
  /\ e \in DOMAIN log \ inbox
  /\ inbox' = inbox \union {e}
  /\ UNCHANGED <<servers, request, log, news>>

-----------------------------------------------------------------------------
(* The announcements *)

(* Mutant: a move is told apart by where the end went. *)
KeyByEnd(e) ==
  CASE log[e].kind = "rescheduled" -> <<"rescheduled", log[e].season, log[e].end>>
    [] log[e].kind = "ending-soon" -> <<"ending-soon", log[e].season, log[e].end>>
    [] OTHER -> <<log[e].kind, log[e].season>>

(* on_season_started and its like: one announcement for each season and kind,
   for each end a notice counts down to, and for each move. *)
Key(e) ==
  CASE log[e].kind = "rescheduled" -> <<"rescheduled", log[e].season, log[e].end, e>>
    [] log[e].kind = "ending-soon" -> <<"ending-soon", log[e].season, log[e].end>>
    [] OTHER -> <<log[e].kind, log[e].season>>

RowOf(e) == {r \in rows : r.key = Key(e)}
Row(e, at) == [key |-> Key(e), at |-> at]

(* One event at a time. Bound: the consumers of the four kinds, which share no
   claim, also take turns. *)
Take(e) ==
  /\ hand = NoHand
  /\ e \in inbox
  /\ hand' = [at |-> "claim", event |-> e]
  /\ UNCHANGED <<servers, request, feed, rows, posts, left, repeats, faults>>

(* claim_post: a new row or a stale claim; else the event is acknowledged as
   posted. *)
Claim ==
  LET e == hand.event IN
  /\ hand.at = "claim"
  /\ \/ /\ \A r \in RowOf(e) : r.at = "stale"
        /\ rows' = (rows \ RowOf(e)) \union {Row(e, "claimed")}
        /\ hand' = [hand EXCEPT !.at = "send"]
        /\ UNCHANGED inbox
     \/ /\ \E r \in RowOf(e) : r.at # "stale"
        /\ inbox' = inbox \ {e}
        /\ hand' = NoHand
        /\ UNCHANGED rows
  /\ UNCHANGED <<servers, request, log, posts, left, repeats, faults>>

(* claim_post raises: nothing was written, or the row was, or was taken over,
   and its answer is lost.  The event stays pending. *)
ClaimFails ==
  LET e == hand.event IN
  /\ hand.at = "claim" /\ Fault
  /\ hand' = NoHand
  /\ \/ UNCHANGED <<rows, left>>
     \/ /\ \A r \in RowOf(e) : r.at = "stale"
        /\ rows' = (rows \ RowOf(e)) \union {Row(e, "claimed")}
        /\ left' = left \union {e}
  /\ UNCHANGED <<servers, request, feed, posts, repeats>>

(* STALE_POST_CLAIM has passed. *)
Stale(r) ==
  /\ r.at = "claimed"
  /\ hand.event # 0 => Key(hand.event) # r.key
  /\ rows' = (rows \ {r}) \union {[r EXCEPT !.at = "stale"]}
  /\ UNCHANGED <<servers, request, feed, hand, posts, left, repeats, faults>>

Post ==
  /\ hand.at = "send"
  /\ posts' = [posts EXCEPT ![hand.event] = @ + 1]
  /\ hand' = [hand EXCEPT !.at = "record"]
  /\ UNCHANGED <<servers, request, feed, rows, left, repeats, faults>>

(* An error or a cancellation, with the message out or not: the claim is given
   back, and the event stays pending. *)
PostFails ==
  LET e == hand.event IN
  /\ hand.at = "send" /\ Fault
  /\ \/ UNCHANGED <<posts, repeats>>
     \/ /\ posts' = [posts EXCEPT ![e] = @ + 1]
        /\ repeats' = [repeats EXCEPT ![e] = @ + 1]
  /\ hand' = [hand EXCEPT !.at = "release"]
  /\ UNCHANGED <<servers, request, feed, rows, left>>

(* release_post, which may fail. *)
Release ==
  LET e == hand.event IN
  /\ hand.at = "release"
  /\ hand' = NoHand
  /\ \/ /\ rows' = rows \ RowOf(e)
        /\ UNCHANGED <<left, faults>>
     \/ Fault /\ left' = left \union {e} /\ UNCHANGED rows
  /\ UNCHANGED <<servers, request, feed, posts, repeats>>

(* record_post and the acknowledgement, or a failure that leaves the event
   pending. *)
Record ==
  LET e == hand.event IN
  /\ hand.at = "record"
  /\ hand' = NoHand
  /\ \/ /\ rows' = (rows \ RowOf(e)) \union {Row(e, "posted")}
        /\ inbox' = inbox \ {e}
        /\ UNCHANGED <<repeats, faults>>
     \/ /\ Fault /\ repeats' = [repeats EXCEPT ![e] = @ + 1]
        /\ UNCHANGED <<rows, inbox>>
  /\ UNCHANGED <<servers, request, log, posts, left>>

(* The bot dies with what it had in hand; no claim is given back. *)
Crash ==
  LET e == hand.event IN
  /\ Fault
  /\ hand' = NoHand /\ admin' = NoAdmin
  /\ left' = IF hand.at \in {"send", "release"} THEN left \union {e} ELSE left
  /\ repeats' = IF hand.at = "record" THEN [repeats EXCEPT ![e] = @ + 1] ELSE repeats
  /\ UNCHANGED <<servers, asked, answers, given, feed, rows, posts>>

Next ==
  \/ \E c \in Command :
       \/ CmdExtend(c) \/ CmdEndAt(c) \/ CmdEndNow(c)
       \/ CmdPrizeSet(c) \/ CmdPrizeClear(c) \/ CmdPrizeDelivered(c)
  \/ Confirm \/ Cancel
  \/ Send \/ Answered \/ Unanswered
  \/ \E r \in asked : Serve(r)
  \/ EndingSoon \/ \E e \in 1..MaxEvents : Replay(e)
  \/ \E e \in inbox : Take(e)
  \/ Claim \/ ClaimFails \/ Post \/ PostFails \/ Release \/ Record
  \/ \E r \in rows : Stale(r)
  \/ Crash

Spec == Init /\ [][Next]_vars

-----------------------------------------------------------------------------
(* Properties *)

(* A command changes the season or its prizes once, however many servers were
   asked for it and whenever they get to it, and whether it carries an id or
   changes nothing when it is repeated. *)
ChangedOnce == \A c \in Command : applied[c] <= 1

(* What a reader of the channel takes for the same announcement: every move is
   one of its own. *)
SameNews(e) ==
  {f \in DOMAIN log : f = e \/ (log[e].kind # "rescheduled" /\ log[f] = log[e])}

(* A post of e that was recorded, or may still be: the others are repeats. *)
Announced(e) == posts[e] > repeats[e]

(* Whatever is acknowledged was announced, or its claim was left behind by a
   handler that died, got no answer to the claim or could not give it back; it
   is announced once, and once more only for a post whose record was lost. *)
ToldOnce ==
  \A e \in DOMAIN log :
    /\ e \notin inbox =>
         \E f \in SameNews(e) : posts[f] > 0 \/ f \in left
    /\ posts[e] \in repeats[e]..(repeats[e] + 1)
    /\ \A f \in SameNews(e) : Announced(e) /\ Announced(f) => e = f

(* "one post per season and kind, however often an event is replayed", and "a
   claim left without a message [...] is taken over": neither holds when the
   bot dies or a claim is left otherwise, as the event comes again before the
   claim is stale. *)
NotSwallowed ==
  \A e \in DOMAIN log :
    e \notin inbox => \E f \in SameNews(e) : posts[f] > 0
=============================================================================
