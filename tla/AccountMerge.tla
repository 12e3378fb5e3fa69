---------------------------- MODULE AccountMerge ----------------------------
(***************************************************************************)
(* The merge of two player accounts: the preview and its confirmation      *)
(* (handlers_account_merge.py, moderation_views.py), the transaction of    *)
(* account_merge_store.py, and the rating merge that follows it            *)
(* (player_service.py, rating_service.py) with its queue and daemon.       *)
(*                                                                         *)
(* An account is its document; the UUID it was created with names it and   *)
(* "merged:" in front of it closes it.  Of the fields the target inherits  *)
(* there are the play time, which is added, and the Discord link, which    *)
(* the target's own precedes.  Bans stand for bans and mutes.              *)
(***************************************************************************)
EXTENDS Naturals

CONSTANTS
  Account,     \* accounts; the PID an account starts with has its name
  Linked,      \* those linked to a Discord user
  View,        \* commands given, each with its preview
  Commanded,   \* the accounts a command may name, source first
  NoAccount,   \* none of them
  MaxAsked,    \* servers asked for one rating merge
  MaxJoins,    \* bound: times a player joins a game
  MaxChanges   \* bound: bans, liftings, failures and deaths of the bot

ASSUME AccountMergeAssumption ==
  /\ Linked \subseteq Account /\ NoAccount \notin Account
  /\ MaxAsked \in Nat \ {0} /\ {MaxJoins, MaxChanges} \subseteq Nat
  /\ Commanded \in [View -> SUBSET (Account \X Account)]

VARIABLES
  player,    \* the document of each account
  bans,      \* [uuid, of]: a ban of staff, or the copy a merge made
  view,
  standing,  \* the account that holds what was earned as each account
  queue,     \* rating merges on record, waiting or failed
  late,      \* asked of a server that has not answered
  retry,     \* the pass of the daemon
  excused,   \* closed while the bot died, refused in the reply, or not queued
             \* because the write failed
  joins, changes

mergevars ==
  <<player, bans, view, standing, queue, late, retry, excused, joins, changes>>
accounts == <<player, bans>>
ratings == <<standing, queue, late, retry, excused>>

NoDoc == [pid |-> NoAccount, closed |-> FALSE, online |-> FALSE, linked |-> FALSE,
          play |-> 0]
NoView == [at |-> "new", source |-> NoAccount, target |-> NoAccount,
           keep |-> "target", tries |-> 0, from |-> NoAccount, to |-> NoAccount,
           docs |-> <<NoDoc, NoDoc>>, banned |-> <<FALSE, FALSE>>]
NoRetry == [at |-> "none", todo |-> {}, from |-> NoAccount, to |-> NoAccount,
            tries |-> 0]

MergeInit ==
  /\ player = [a \in Account |-> [NoDoc EXCEPT !.pid = a, !.linked = a \in Linked]]
  /\ bans = {}
  /\ view = [v \in View |-> NoView]
  /\ standing = [a \in Account |-> a]
  /\ queue = {} /\ late = {} /\ retry = NoRetry /\ excused = {}
  /\ joins = 0 /\ changes = 0

Change == changes < MaxChanges /\ changes' = changes + 1

Banned(a) == \E b \in bans : b.uuid = a
At(v, place) == view[v].at = place

-----------------------------------------------------------------------------
(* The game and the staff *)

(* Bound: they act while a merge is proposed or under way. *)
Concurrent == \E v \in View : view[v].at \in {"open", "read", "write"}

Join(a) ==
  /\ Concurrent
  /\ joins < MaxJoins /\ joins' = joins + 1
  /\ ~player[a].closed /\ ~player[a].online
  /\ player' = [player EXCEPT ![a].online = TRUE]
  /\ UNCHANGED <<bans, view, ratings, changes>>

Leave(a) ==
  /\ player[a].online
  /\ player' = [player EXCEPT ![a].online = FALSE, ![a].play = @ + 1]
  /\ UNCHANGED <<bans, view, ratings, joins, changes>>

Ban(a) ==
  /\ Concurrent /\ Change
  /\ ~player[a].closed /\ ~Banned(a)
  /\ bans' = bans \union {[uuid |-> a, of |-> "staff"]}
  /\ UNCHANGED <<player, view, ratings, joins>>

(* By its number: one row. *)
Unban(b) ==
  /\ Concurrent /\ Change
  /\ bans' = bans \ {b}
  /\ UNCHANGED <<player, view, ratings, joins>>

-----------------------------------------------------------------------------
(* The command and its buttons *)

Mergeable(a) == ~player[a].closed /\ ~player[a].online

(* cmd_merge_player: an account is named by its PID of the moment. *)
Preview(v, s, t) ==
  /\ At(v, "new") /\ <<s, t>> \in Commanded[v]
  /\ s # t
  /\ Mergeable(s) /\ Mergeable(t)
  /\ view' = [view EXCEPT ![v].at = "open", ![v].source = player[s].pid,
                ![v].target = player[t].pid]
  /\ UNCHANGED <<accounts, ratings, joins, changes>>

(* _swap_pid and _confirm: the PID chosen by then survives. *)
ConfirmMerge(v) ==
  /\ At(v, "open")
  /\ \E keep \in {"source", "target"} :
       view' = [view EXCEPT ![v].at = "read", ![v].keep = keep]
  /\ UNCHANGED <<accounts, ratings, joins, changes>>

-----------------------------------------------------------------------------
(* The transaction: a snapshot, then writes that all happen or, when another
   writer was there first, are tried again from a new snapshot. *)

(* _load_merge_pair *)
Load(v) ==
  \E s, t \in Account :
    /\ At(v, "read")
    /\ player[s].pid = view[v].source /\ player[t].pid = view[v].target
    /\ view' = [view EXCEPT ![v] =
         IF Mergeable(s) /\ Mergeable(t)
         THEN [@ EXCEPT !.at = "write", !.from = s, !.to = t,
                        !.docs = <<player[s], player[t]>>,
                        !.banned = <<Banned(s), Banned(t)>>]
         ELSE [NoView EXCEPT !.at = "done"]]
    /\ UNCHANGED <<accounts, ratings, joins, changes>>

(* Mutant: no transaction, whatever was read is written. *)
NotOverwrittenAny(v) == TRUE

(* Every document the transaction writes is as its snapshot has it; a row it
   only looked for and did not find may have come. *)
NotOverwritten(v) ==
  LET w == view[v] IN
  /\ player[w.from] = w.docs[1] /\ player[w.to] = w.docs[2]
  /\ w.banned[1] => Banned(w.from)
  /\ w.banned[2] => Banned(w.to)

(* _plan_merge: the surviving document, then the closed one. *)
Surviving(w) ==
  [w.docs[2] EXCEPT
     !.pid = w.docs[IF w.keep = "source" THEN 1 ELSE 2].pid,
     !.play = w.docs[1].play + w.docs[2].play,
     !.linked = w.docs[1].linked \/ w.docs[2].linked]
Closed(w) ==
  [w.docs[1] EXCEPT
     !.pid = w.docs[IF w.keep = "source" THEN 2 ELSE 1].pid,
     !.closed = TRUE, !.play = 0, !.linked = FALSE]

(* _transfer_punishment: unless the target has a ban of its own. *)
Transferred(w) ==
  IF w.banned[1] /\ ~w.banned[2] THEN {[uuid |-> w.to, of |-> "merge"]} ELSE {}

Apply(v) ==
  /\ At(v, "write")
  /\ NotOverwritten(v)
  /\ LET w == view[v] IN
       /\ player' = [player EXCEPT ![w.from] = Closed(w), ![w.to] = Surviving(w)]
       /\ bans' = bans \union Transferred(w)
       /\ view' = [view EXCEPT ![v] = [NoView EXCEPT !.at = "kick", !.from = w.from,
                                                     !.to = w.to]]
  /\ UNCHANGED <<ratings, joins, changes>>

(* with_transaction *)
Retry(v) ==
  /\ At(v, "write")
  /\ ~NotOverwritten(v)
  /\ view' = [view EXCEPT
       ![v] = [@ EXCEPT !.at = "read", !.from = NoAccount, !.to = NoAccount,
                        !.docs = NoView.docs, !.banned = NoView.banned]]
  /\ UNCHANGED <<accounts, ratings, joins, changes>>

-----------------------------------------------------------------------------
(* After the merge *)

(* Mutant: an error of the kick ends the merge. *)
KickRaises(v) ==
  /\ At(v, "kick")
  /\ \/ view' = [view EXCEPT ![v].at = "ask", ![v].tries = 1] /\ UNCHANGED changes
     \/ Change /\ view' = [view EXCEPT ![v].at = "done"]
  /\ UNCHANGED <<accounts, ratings, joins>>

(* The kick of the closed account; an error of it is raised after the rest. *)
Kick(v) ==
  /\ At(v, "kick")
  /\ view' = [view EXCEPT ![v].at = "ask", ![v].tries = 1]
  /\ \/ Change
     \/ UNCHANGED changes
  /\ UNCHANGED <<accounts, ratings, joins>>

(* What a server does with the standings, however often it is asked. *)
MovedTo(s, t) == [a \in Account |-> IF standing[a] = s THEN t ELSE standing[a]]

(* on_any_live_server: the next server after a silent or failing one. *)
NoAnswer(c, give) == [c EXCEPT !.at = IF c.tries = MaxAsked THEN give ELSE "ask",
                                 !.tries = IF @ = MaxAsked THEN 0 ELSE @ + 1]

(* merge_standings *)
Asked(v) ==
  /\ At(v, "ask")
  /\ standing' = MovedTo(view[v].from, view[v].to)
  /\ view' = [view EXCEPT ![v].at = "clear", ![v].tries = 0]
  /\ UNCHANGED <<accounts, queue, late, retry, excused, joins, changes>>

AskedInVain(v) ==
  /\ At(v, "ask") /\ Change
  /\ \/ /\ late' = late \union {[from |-> view[v].from, to |-> view[v].to]}
        /\ view' = [view EXCEPT ![v] = NoAnswer(@, "queue")]
     \/ (* no server is online *)
        /\ view' = [view EXCEPT ![v].at = "queue", ![v].tries = 0]
        /\ UNCHANGED late
  /\ UNCHANGED <<accounts, standing, queue, retry, excused, joins>>

(* A refusal is only told. *)
AskedAndRefused(v) ==
  /\ At(v, "ask") /\ Change
  /\ view' = [view EXCEPT ![v] = [NoView EXCEPT !.at = "done"]]
  /\ excused' = excused \union {view[v].from}
  /\ UNCHANGED <<accounts, standing, queue, late, retry, joins>>

Pair(c, at) == [from |-> c.from, to |-> c.to, at |-> at]
Forget(c) == {p \in queue : ~(p.from = c.from /\ p.to = c.to)}

(* add_pending_merge and clear_pending_merge *)
RecordMerge(v) ==
  /\ \/ At(v, "queue") /\ queue' = Forget(view[v]) \union {Pair(view[v], "waiting")}
     \/ At(v, "clear") /\ queue' = Forget(view[v])
  /\ view' = [view EXCEPT ![v] = [NoView EXCEPT !.at = "done"]]
  /\ UNCHANGED <<accounts, standing, late, retry, excused, joins, changes>>

(* The write fails: a merge that no server carried out is not queued either.
   One that is stored with its answer lost ends as RecordMerge does. *)
RecordMergeFails(v) ==
  /\ view[v].at \in {"queue", "clear"} /\ Change
  /\ excused' = excused \union {s \in {view[v].from} : At(v, "queue")}
  /\ view' = [view EXCEPT ![v] = [NoView EXCEPT !.at = "done"]]
  /\ UNCHANGED <<accounts, standing, queue, late, retry, joins>>

(* A server that did not answer carries the merge out after all. *)
LateMerge(m) ==
  /\ late' = late \ {m}
  /\ standing' = MovedTo(m.from, m.to)
  /\ UNCHANGED <<accounts, view, queue, retry, excused, joins, changes>>

-----------------------------------------------------------------------------
(* The daemon *)

(* pending_merges *)
Waiting == {p \in queue : p.at = "waiting"}

StartRetry ==
  /\ retry.at = "none" /\ Waiting # {}
  /\ retry' = [NoRetry EXCEPT !.at = "next", !.todo = Waiting]
  /\ UNCHANGED <<accounts, view, standing, queue, late, excused, joins, changes>>

NextRetry ==
  /\ retry.at = "next"
  /\ \/ retry.todo = {} /\ retry' = NoRetry
     \/ \E p \in retry.todo :
          retry' = [at |-> "ask", todo |-> retry.todo \ {p}, from |-> p.from,
                    to |-> p.to, tries |-> 1]
  /\ UNCHANGED <<accounts, view, standing, queue, late, excused, joins, changes>>

RetryAsked ==
  /\ retry.at = "ask"
  /\ standing' = MovedTo(retry.from, retry.to)
  /\ retry' = [retry EXCEPT !.at = "clear", !.tries = 0]
  /\ UNCHANGED <<accounts, view, queue, late, excused, joins, changes>>

RetryInVain ==
  /\ retry.at = "ask" /\ Change
  /\ late' = late \union {[from |-> retry.from, to |-> retry.to]}
  /\ retry' = NoAnswer(retry, "next")
  /\ UNCHANGED <<accounts, view, standing, queue, excused, joins>>

RetryRefused ==
  /\ retry.at = "ask" /\ Change
  /\ retry' = [retry EXCEPT !.at = "fail", !.tries = 0]
  /\ UNCHANGED <<accounts, view, standing, queue, late, excused, joins>>

(* clear_pending_merge, and fail_pending_merge, which finds no row when the
   merge was cleared meanwhile. *)
RecordRetry ==
  /\ \/ retry.at = "clear" /\ queue' = Forget(retry)
     \/ /\ retry.at = "fail"
        /\ queue' = IF Forget(retry) = queue THEN queue
                    ELSE Forget(retry) \union {Pair(retry, "failed")}
  /\ retry' = [retry EXCEPT !.at = "next"]
  /\ UNCHANGED <<accounts, view, standing, late, excused, joins, changes>>

(* The write fails, which ends the pass; the row waits for the next one. *)
RecordRetryFails ==
  /\ retry.at \in {"clear", "fail"} /\ Change
  /\ retry' = NoRetry
  /\ UNCHANGED <<accounts, view, standing, queue, late, excused, joins>>

-----------------------------------------------------------------------------
(* The bot dies, or the answer to a commit never comes: the rating merge of an
   account closed meanwhile is neither sent nor queued. *)
Closing(v) == view[v].at \in {"kick", "ask", "queue", "clear"}

BotDies ==
  /\ Change
  /\ excused' = excused \union {view[v].from : v \in {w \in View : Closing(w)}}
  /\ view' = [v \in View |-> IF At(v, "new") THEN NoView
                             ELSE [NoView EXCEPT !.at = "done"]]
  /\ retry' = NoRetry
  /\ UNCHANGED <<accounts, standing, queue, late, joins>>

Merging(v) ==
  Load(v) \/ Apply(v) \/ Retry(v) \/ Kick(v) \/ Asked(v) \/ RecordMerge(v)
Retrying == StartRetry \/ NextRetry \/ RetryAsked \/ RecordRetry

MergeNext ==
  \/ \E a \in Account : Join(a) \/ Leave(a) \/ Ban(a)
  \/ \E b \in bans : Unban(b)
  \/ \E v \in View :
       \/ \E s, t \in Account : Preview(v, s, t)
       \/ ConfirmMerge(v) \/ Merging(v)
       \/ AskedInVain(v) \/ AskedAndRefused(v) \/ RecordMergeFails(v)
  \/ \E m \in late : LateMerge(m)
  \/ Retrying \/ RetryInVain \/ RetryRefused \/ RecordRetryFails
  \/ BotDies

(* A confirmed merge goes on, the daemon runs every minute, and a server
   answers in the end. *)
MergeFairness == WF_mergevars(Retrying) /\ \A v \in View : WF_mergevars(Merging(v))

MergeSpec == MergeInit /\ [][MergeNext]_mergevars /\ MergeFairness

-----------------------------------------------------------------------------
(* Properties *)

(* The step closes s and writes t, which stays open. *)
MergedInto(s, t) ==
  /\ ~player[s].closed /\ player'[s].closed
  /\ ~player'[t].closed /\ player'[t] # player[t]
Committing(v) == At(v, "write") /\ view'[v].at = "kick"
Whole(s, t) ==
  /\ ~player[s].online /\ ~player[t].online
  /\ ~player[t].closed
  /\ player'[t].play = player[t].play + player[s].play
  /\ player'[t].linked = (player[t].linked \/ player[s].linked)
  /\ player'[s].play = 0 /\ ~player'[s].linked
  /\ \A v \in View : Committing(v) /\ view[v].banned[1] => Banned(t)'
  /\ Banned(t)' => Banned(t) \/ Banned(s)
  /\ \A x, y \in Account : player'[x].pid = player'[y].pid => x = y

(* At the moment a merge is committed, whatever joined, played, was banned,
   unbanned or merged since its preview and its reads: neither player is
   online, nothing either has is lost or counted twice, a ban of the closed
   account that the transaction found goes on for the survivor, a lifted one
   does not come back, and every PID still names one account. *)
MergeIsWhole ==
  [][\A s, t \in Account : MergedInto(s, t) => Whole(s, t)]_mergevars

(* What was earned as a closed account leaves it in the end, or the refusal is
   on record for an administrator, through silent servers, failed kicks and
   restarts, unless the bot died before it could queue the merge, or no server
   carried it out and the write of the queue failed as well. *)
MergesSettle ==
  <>[](\A a \in Account : player[a].closed /\ a \notin excused =>
         standing[a] # a \/ \E p \in queue : p.from = a /\ p.at = "failed")

(* No standings are on a closed account. It does not hold: a queued merge into
   an account that was merged away meanwhile moves them there. *)
NoneLeftBehind ==
  <>[](excused = {} /\ (\A p \in queue : p.at = "waiting") =>
         \A a \in Account : ~player[standing[a]].closed)
=============================================================================
