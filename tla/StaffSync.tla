----------------------------- MODULE StaffSync -----------------------------
(***************************************************************************)
(* Game staff roles follow the Discord roles of linked members             *)
(* (daemons/staff_sync_daemon.py): role changes and departures start a     *)
(* handler each, a periodic pass sends a snapshot of all linked members,   *)
(* and both send through one request lock.  A request goes to the stream   *)
(* of one game server, which applies requests in order and may apply one   *)
(* after the bot has given up on it; the bot sends it once more.           *)
(*                                                                         *)
(* A member has one linked account here, and the links do not change.      *)
(***************************************************************************)
EXTENDS Naturals, Sequences

CONSTANTS
  Person,      \* linked members
  Role,        \* bound roles
  Nobody,
  MaxChanges,  \* bound: changes of roles, departures included
  MaxLosses    \* bound: timeouts, failures of requests and fetches, lost events

ASSUME StaffSyncAssumption ==
  /\ Nobody \notin Person
  /\ {MaxChanges, MaxLosses} \subseteq Nat

Event == 1..MaxChanges   \* one for every change

VARIABLES
  roles,     \* the bound roles of each member; none once departed
  game,      \* what the game server has stored
  inbox,     \* its request stream
  changes,
  event,     \* the handler of each change
  versions,  \* _member_versions
  pass,      \* the scheduled pass: where it is and its snapshot
  call,      \* the holder of the request lock and its request
  losses,
  had,       \* the roles each member had since the pass began
  excused    \* members for whom something failed since the last good sync

syncvars == <<roles, game, inbox, changes, event, versions, pass, call, losses,
              had, excused>>

Pass == 0   \* the pass, as a holder of the lock
Free == MaxChanges + 1

NoChange == [at |-> "none", person |-> Nobody, removed |-> FALSE]
Unlocked == [by |-> Free, at |-> "free", person |-> Nobody, value |-> {},
             tries |-> 0]
NoRoles == [p \in Person |-> {}]
Asleep == [at |-> "idle", left |-> {}, fetched |-> NoRoles,
           seen |-> [p \in Person |-> 0]]

SyncInit ==
  /\ roles = NoRoles
  /\ game = NoRoles
  /\ inbox = <<>>
  /\ changes = 0
  /\ event = [e \in Event |-> NoChange]
  /\ versions = [p \in Person |-> 0]
  /\ pass = Asleep
  /\ call = Unlocked
  /\ losses = 0
  /\ had = [p \in Person |-> {{}}]
  /\ excused = {}

-----------------------------------------------------------------------------
(* Discord and the game server *)

Change(p, set, removed) ==
  /\ changes < MaxChanges
  /\ set # roles[p]
  /\ changes' = changes + 1
  /\ roles' = [roles EXCEPT ![p] = set]
  /\ had' = [had EXCEPT ![p] = @ \union {set}]
  /\ \/ /\ event' = [event EXCEPT ![changes'] =
             [at |-> "lookup", person |-> p, removed |-> removed]]
        /\ UNCHANGED <<losses, excused>>
     \/ /\ losses < MaxLosses   \* the gateway was disconnected
        /\ losses' = losses + 1
        /\ excused' = excused \union {p}
        /\ UNCHANGED event
  /\ UNCHANGED <<game, inbox, versions, pass, call>>

(* A role change, after a return as well, or a departure. *)
Update(p) == \E set \in SUBSET Role : Change(p, set, FALSE)
Depart(p) == Change(p, {}, TRUE)

Apply ==
  /\ inbox # <<>>
  /\ game' = [game EXCEPT ![Head(inbox).person] = Head(inbox).value]
  /\ inbox' = Tail(inbox)
  /\ UNCHANGED <<roles, changes, event, versions, pass, call, losses, had,
                 excused>>

-----------------------------------------------------------------------------
(* sync_member and sync_player, for one event.  The database lookup of each
   handler ends in any order. *)

Rest == UNCHANGED <<roles, game, changes, had>>

Started(e) ==
  /\ event[e].at = "lookup"
  /\ event' = [event EXCEPT ![e].at = "queued"]
  /\ versions' = [versions EXCEPT ![event[e].person] = @ + 1]
  /\ UNCHANGED <<inbox, pass, call, losses, excused>> /\ Rest

Hold(e) ==
  /\ event[e].at = "queued"
  /\ call = Unlocked
  /\ event' = [event EXCEPT ![e].at = "holding"]
  /\ call' = [Unlocked EXCEPT !.by = e, !.person = event[e].person,
                !.at = IF event[e].removed THEN "send" ELSE "fetch"]
  /\ UNCHANGED <<inbox, versions, pass, losses, excused>> /\ Rest

(* _fetch_role_ids: the member as Discord has it now. *)
Fetch ==
  /\ call.at = "fetch"
  /\ call' = [call EXCEPT !.at = "send", !.value = roles[call.person]]
  /\ UNCHANGED <<inbox, event, versions, pass, losses, excused>> /\ Rest

(* The holder leaves the lock: a handler is done, the pass goes on. *)
Release ==
  /\ call' = Unlocked
  /\ IF call.by = Pass
       THEN /\ pass' = [pass EXCEPT !.left = @ \ {call.person}]
            /\ UNCHANGED event
       ELSE /\ event' = [event EXCEPT ![call.by].at = "done"]
            /\ UNCHANGED pass

FetchFails ==
  /\ call.at = "fetch"
  /\ losses < MaxLosses
  /\ losses' = losses + 1
  /\ excused' = excused \union {call.person}
  /\ Release
  /\ UNCHANGED <<inbox, versions>> /\ Rest

-----------------------------------------------------------------------------
(* The request: sync_staff with _retry_staff, under the lock *)

Request == [person |-> call.person, value |-> call.value]

Send ==
  /\ call.at = "send"
  /\ inbox' = Append(inbox, Request)
  /\ call' = [call EXCEPT !.at = "wait", !.tries = @ + 1]
  /\ UNCHANGED <<event, versions, pass, losses, excused>> /\ Rest

Late == call.by # Pass /\ event[call.by].removed /\ roles[call.person] # {}

(* The requests of this holder are applied before it is answered.  A pass
   that sends the present roles makes up for what failed before; a departure
   handled late, after the return, fails as well. *)
Answered ==
  /\ call.at = "wait"
  /\ inbox = <<>>
  /\ excused' = IF call.by = Pass /\ call.value = roles[call.person]
                  THEN excused \ {call.person}
                  ELSE excused \union {p \in {call.person} : Late}
  /\ Release
  /\ UNCHANGED <<inbox, versions, losses>> /\ Rest

(* No answer: the request is sent once more, then given up; what was sent may
   still be applied. *)
TimedOut ==
  /\ call.at = "wait"
  /\ losses < MaxLosses
  /\ losses' = losses + 1
  /\ \/ /\ call.tries < 2
        /\ call' = [call EXCEPT !.at = "send"]
        /\ UNCHANGED <<event, pass, excused>>
     \/ /\ call.tries = 2
        /\ excused' = excused \union {call.person}
        /\ Release
  /\ UNCHANGED <<inbox, versions>> /\ Rest

(* The server answers that it did not carry the last request out.  UNAVAILABLE
   is tried once more, any other failure is not; a refusal, and roles that are
   switched off, also end the pass that sent it. *)
Failed ==
  /\ call.at = "wait" /\ Len(inbox) = 1
  /\ losses < MaxLosses
  /\ losses' = losses + 1
  /\ inbox' = <<>>
  /\ \/ /\ call.tries < 2
        /\ call' = [call EXCEPT !.at = "send"]
        /\ UNCHANGED <<event, pass, excused>>
     \/ /\ excused' = excused \union {call.person}
        /\ Release
     \/ /\ call.by = Pass
        /\ excused' = excused \union {call.person}
        /\ call' = Unlocked /\ pass' = Asleep
        /\ UNCHANGED event
  /\ UNCHANGED versions /\ Rest

-----------------------------------------------------------------------------
(* reconcile: versions first, then the complete member list, page by page,
   then one request after another. *)

(* Mutant: the versions of the first pass are kept. *)
BeginStale ==
  /\ pass.at = "idle"
  /\ pass' = [Asleep EXCEPT !.at = "members", !.left = Person]
  /\ had' = [p \in Person |-> {roles[p]}]
  /\ UNCHANGED <<roles, game, inbox, changes, event, versions, call, losses,
                 excused>>

Begin ==
  /\ pass.at = "idle"
  /\ pass' = [Asleep EXCEPT !.at = "members", !.left = Person,
                            !.seen = versions]
  /\ had' = [p \in Person |-> {roles[p]}]
  /\ UNCHANGED <<roles, game, inbox, changes, event, versions, call, losses,
                 excused>>

FetchMember(p) ==
  /\ pass.at = "members"
  /\ p \in pass.left
  /\ pass' = [pass EXCEPT !.left = @ \ {p}, !.fetched[p] = roles[p]]
  /\ UNCHANGED <<inbox, event, versions, call, losses, excused>> /\ Rest

AllFetched ==
  /\ pass.at = "members"
  /\ pass.left = {}
  /\ pass' = [pass EXCEPT !.at = "sending", !.left = Person]
  /\ UNCHANGED <<inbox, event, versions, call, losses, excused>> /\ Rest

(* Mutant: a page that fails ends the list. *)
PageFailsAsEnd ==
  /\ pass.at = "members"
  /\ losses < MaxLosses
  /\ losses' = losses + 1
  /\ pass' = [pass EXCEPT !.at = "sending", !.left = Person]
  /\ UNCHANGED <<inbox, event, versions, call, excused>> /\ Rest

(* A page that fails ends the pass before anything is sent. *)
PageFails ==
  /\ pass.at = "members"
  /\ losses < MaxLosses
  /\ losses' = losses + 1
  /\ pass' = Asleep
  /\ UNCHANGED <<inbox, event, versions, call, excused>> /\ Rest

(* Mutant: the snapshot is sent whatever came in since. *)
UnchangedAlways(p) == TRUE

Unchanged(p) == versions[p] = pass.seen[p]

(* An event newer than the snapshot takes precedence. *)
PassSync(p) ==
  /\ pass.at = "sending"
  /\ p \in pass.left
  /\ call = Unlocked
  /\ \/ /\ Unchanged(p)
        /\ call' = [Unlocked EXCEPT !.by = Pass, !.at = "send", !.person = p,
                                    !.value = pass.fetched[p]]
        /\ UNCHANGED pass
     \/ /\ ~Unchanged(p)
        /\ pass' = [pass EXCEPT !.left = @ \ {p}]
        /\ UNCHANGED call
  /\ UNCHANGED <<inbox, event, versions, losses, excused>> /\ Rest

Finish ==
  /\ pass.at = "sending"
  /\ pass.left = {}
  /\ pass' = Asleep
  /\ UNCHANGED <<inbox, event, versions, call, losses, excused>> /\ Rest

-----------------------------------------------------------------------------
Handle(e) == Started(e) \/ Hold(e)
Requesting == Fetch \/ Send \/ Answered
Scheduled == Begin \/ AllFetched \/ Finish
               \/ \E p \in Person : FetchMember(p) \/ PassSync(p)

SyncNext ==
  \/ \E p \in Person : Update(p) \/ Depart(p)
  \/ \E e \in Event : Handle(e)
  \/ Apply \/ Requesting \/ FetchFails \/ TimedOut \/ Failed
  \/ Scheduled \/ PageFails

(* The tasks and the server run; asyncio.Lock wakes its waiters in order, so
   nobody waits for the lock for ever. *)
SyncFairness ==
  /\ WF_syncvars(Apply) /\ WF_syncvars(Requesting) /\ WF_syncvars(Scheduled)
  /\ \A e \in Event : WF_syncvars(Started(e)) /\ SF_syncvars(Hold(e))
  /\ \A p \in Person : SF_syncvars(PassSync(p))

SyncSpec == SyncInit /\ [][SyncNext]_syncvars
FairSyncSpec == SyncSpec /\ SyncFairness

-----------------------------------------------------------------------------
RoleMap == [Person -> SUBSET Role]

SyncTypeOK ==
  /\ {roles, game} \subseteq RoleMap
  /\ inbox \in Seq([person : Person, value : SUBSET Role])
  /\ changes \in 0..MaxChanges
  /\ event \in [Event ->
       [at : {"none", "lookup", "queued", "holding", "done"},
        person : Person \union {Nobody}, removed : BOOLEAN]]
  /\ versions \in [Person -> Nat]
  /\ pass \in [at : {"idle", "members", "sending"}, left : SUBSET Person,
               fetched : RoleMap, seen : [Person -> Nat]]
  /\ call \in [by : 0..Free, at : {"free", "fetch", "send", "wait"},
               person : Person \union {Nobody}, value : SUBSET Role,
               tries : 0..2]
  /\ losses \in 0..MaxLosses
  /\ excused \subseteq Person

(* "A newer event takes precedence over an older scheduled snapshot": when
   the game's roles differ from Discord's, a handler that will send the
   present ones is on its way, unless something failed or the handler of a
   departure ran after the return. *)
NoSilentStale ==
  \A p \in Person :
    \/ game[p] = roles[p]
    \/ \E e \in Event : event[e].person = p /\ event[e].at # "done"
    \/ p \in excused

(* "A failed page must not make absent members look like confirmed
   departures": the pass sends only roles the member had during the pass. *)
PassSendsSeen == call.by = Pass => call.value \in had[call.person]

(* When the changes and the failures end, the passes bring the game in line
   with Discord, whatever had gone wrong. *)
EventuallyInSync == <>[](game = roles)
=============================================================================
