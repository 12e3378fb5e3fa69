------------------------------ MODULE Sanctions ------------------------------
(***************************************************************************)
(* One case about the bans and mutes of a player: an appeal against one    *)
(* (cases/flows/appeals.py) or a report answered by one                    *)
(* (cases/flows/reports.py), with the stored sanctions                     *)
(* (punishment_store.py), the staff actions on them (staff_actions.py) and *)
(* what happens to them outside the case: commands, the game, expiry.      *)
(*                                                                         *)
(* A ban has a number, given once from a counter; rows from before the     *)
(* numbers have none (0) until a reader assigns one.  A mute has no number *)
(* and is told from a later one by its expiry.  A ban is looked up by      *)
(* "uuid or address", which finds the rows of everybody at the address.    *)
(***************************************************************************)
EXTENDS Naturals, FiniteSets

CONSTANTS
  Subject,      \* the player whose sanctions the case is opened about
  Bystander,    \* another player
  Address,      \* the address of each
  NoPlayer,     \* none of them
  MaxTime, MaxDuration, MaxSanctions, MaxChanges  \* bounds

Player == {Subject, Bystander}

ASSUME SanctionsAssumption ==
  /\ Subject # Bystander /\ NoPlayer \notin Player
  /\ DOMAIN Address = Player
  /\ {MaxTime, MaxDuration, MaxSanctions, MaxChanges} \subseteq Nat

VARIABLES
  now,
  kind,      \* "report", "ban" or "mute": what the case is about
  bans,      \* rows of the collection bans
  mutes,     \* expiry of the mute of a player, 0 if there is none
  counter,   \* the last ban number given
  given,     \* expiries given to mutes; the clock never repeats one
  audits,    \* moderation_audit
  case,
  form,      \* the submission of an appeal
  act,       \* the staff action of the case
  mod,       \* a command of a moderator
  stream,    \* sanction events of the game not yet handled
  hook,      \* the handler of such an event, or the repair pass
  sanctions, changes

sanctionvars ==
  <<now, kind, bans, mutes, counter, given, audits, case, form,
    act, mod, stream, hook, sanctions, changes>>
store == <<bans, mutes, counter, given>>
fixed == <<now, kind>>

Legacy == 0
Ban(id, p, expiry) == [id |-> id, of |-> p, expiry |-> expiry]
NoBan == Ban(Legacy, NoPlayer, 0)
NoForm == [at |-> "none", row |-> NoBan, chosen |-> NoPlayer]
NoAct == [at |-> "none", verb |-> "none", row |-> NoBan, until |-> 0]
NoMod == [at |-> "none", of |-> NoPlayer, row |-> NoBan]
NoHook == [at |-> "none", of |-> NoPlayer, revision |-> 0, since |-> 0,
           action |-> "none", ban |-> 0, stamp |-> 0, event |-> {}]
Trails == {"BAN", "MUTE"}

SanctionsInit ==
  /\ now = 0
  /\ kind \in {"report", "ban", "mute"}
  /\ bans \in IF kind = "ban" THEN {{Ban(Legacy, Subject, 2)}, {Ban(1, Subject, 2)}}
              ELSE {{}}
  /\ mutes = [p \in Player |-> IF kind = "mute" /\ p = Subject THEN 2 ELSE 0]
  /\ counter = 1 /\ given = {2}
  /\ audits = {}
  /\ \E p \in {Subject, NoPlayer} :
       /\ kind # "report" => p = NoPlayer
       /\ case = [status |-> IF kind = "report" THEN "open" ELSE "absent",
                  subject |-> p, ref |-> 0, chosen |-> NoPlayer, revision |-> 0,
                  attempt |-> 0, since |-> 0, by |-> "nobody", code |-> "none",
                  stamp |-> 0]
  /\ form = NoForm /\ act = NoAct /\ mod = NoMod
  /\ stream = {} /\ hook = NoHook
  /\ sanctions = 0 /\ changes = 0

-----------------------------------------------------------------------------
(* The stored sanctions *)

Matches(r, p) == r.of = p \/ Address[r.of] = Address[p]
Lookup(p) == {r \in bans : Matches(r, p)}
InForce(r) == r.expiry > now
Expiries == {now + d : d \in 1..MaxDuration}
Put(action, p, token, ban) ==
  audits' = audits \union
    {[action |-> action, of |-> p, at |-> now, token |-> token, ban |-> ban]}

(* upsert_ban replaces one of the rows the lookup finds. *)
UpsertBan(p, id, expiry) ==
  IF Lookup(p) = {} THEN bans' = bans \union {Ban(id, p, expiry)}
  ELSE \E r \in Lookup(p) : bans' = (bans \ {r}) \union {Ban(id, p, expiry)}

UpsertMute(p, expiry) == mutes' = [mutes EXCEPT ![p] = expiry]

(* A report reads no rows, and the rows its sanctions store are left out. *)
NoRows == kind = "report" /\ UNCHANGED store

IssueBan(p) ==
  \/ NoRows
  \/ /\ kind = "ban"
     /\ counter' = counter + 1
     /\ \E expiry \in Expiries : UpsertBan(p, counter + 1, expiry)
     /\ UNCHANGED <<mutes, given>>

IssueMute(p) ==
  \/ NoRows
  \/ /\ kind = "mute"
     /\ \E expiry \in Expiries \ given :
          UpsertMute(p, expiry) /\ given' = given \union {expiry}
     /\ UNCHANGED <<bans, counter>>

Issue(action, p) ==
  (action = "BAN" /\ IssueBan(p)) \/ (action = "MUTE" /\ IssueMute(p))

(* ensure_ban_id: any row the lookup finds, numbered now if it had no number;
   the caller gets the row with its number. *)
Numbered(r) == IF r.id = Legacy THEN [r EXCEPT !.id = counter + 1] ELSE r
EnsureId(r) ==
  /\ bans' = (bans \ {r}) \union {Numbered(r)}
  /\ counter' = IF r.id = Legacy THEN counter + 1 ELSE counter
  /\ UNCHANGED <<mutes, given>>

(* Mutant: what the lookup finds is deleted, whatever its number. *)
DoomedAny(p, id) == Lookup(p)

(* delete_ban with a number. *)
Doomed(p, id) == {r \in Lookup(p) : r.id = id}

-----------------------------------------------------------------------------
(* The submission of an appeal *)

(* Mutant: the subject is not compared. *)
SameAny(r, q) == TRUE

(* _same_subject *)
Same(r, q) == r.of = q.of

(* panel_handler: a ban found for the linked account. *)
Choose ==
  /\ kind = "ban" /\ case.status = "absent" /\ form.at = "none"
  /\ \E r \in Lookup(Subject) :
       /\ InForce(r)
       /\ form' = [at |-> IF r.id = Legacy THEN "number" ELSE "check",
                   row |-> r, chosen |-> r.of]
  /\ UNCHANGED <<store, fixed, audits, case, act, mod, stream, hook,
                 sanctions, changes>>

(* _checked: the number a row without one gets; a row replaced meanwhile is
   not the selected sanction. *)
NumberForm ==
  /\ form.at = "number"
  /\ IF Lookup(form.row.of) = {} THEN form' = NoForm /\ UNCHANGED store
     ELSE \E r \in Lookup(form.row.of) :
            /\ EnsureId(r)
            /\ form' = IF Same(form.row, r) /\ r.expiry = form.row.expiry
                         THEN [form EXCEPT !.at = "check", !.row = Numbered(r)]
                         ELSE NoForm
  /\ UNCHANGED <<fixed, audits, case, act, mod, stream, hook,
                 sanctions, changes>>

(* _submit and _snapshot read the row by its number, each again. *)
CheckForm ==
  /\ form.at \in {"check", "snapshot"}
  /\ LET found == {r \in bans : r.id = form.row.id /\ InForce(r)
                                  /\ Same(form.row, r)} IN
     IF found = {} THEN form' = NoForm
     ELSE \E r \in found :
            form' = [form EXCEPT !.row = r,
                       !.at = IF form.at = "check" THEN "snapshot" ELSE "open"]
  /\ UNCHANGED <<store, fixed, audits, case, act, mod, stream, hook,
                 sanctions, changes>>

ChooseMute ==
  /\ kind = "mute" /\ case.status = "absent" /\ form.at = "none"
  /\ mutes[Subject] > now
  /\ form' = [at |-> "mute", row |-> Ban(Legacy, Subject, mutes[Subject]),
              chosen |-> Subject]
  /\ UNCHANGED <<store, fixed, audits, case, act, mod, stream, hook,
                 sanctions, changes>>

CheckMute ==
  /\ form.at = "mute"
  /\ form' = IF mutes[Subject] = form.row.expiry /\ InForce(form.row)
               THEN [form EXCEPT !.at = "open"] ELSE NoForm
  /\ UNCHANGED <<store, fixed, audits, case, act, mod, stream, hook,
                 sanctions, changes>>

Open ==
  /\ form.at = "open"
  /\ case' = [case EXCEPT !.status = "open", !.subject = form.row.of,
                !.ref = IF kind = "ban" THEN form.row.id ELSE form.row.expiry,
                !.chosen = form.chosen, !.since = now]
  /\ form' = NoForm
  /\ UNCHANGED <<store, fixed, audits, act, mod, stream, hook,
                 sanctions, changes>>

-----------------------------------------------------------------------------
(* The staff action of the case, under its guard ("busy") *)

Move(status) == [case EXCEPT !.status = status, !.revision = @ + 1]
Change == changes < MaxChanges /\ changes' = changes + 1

Press(verb) ==
  /\ case.status = "open" /\ act.at = "none"
  /\ verb \in IF kind = "report" THEN Trails ELSE {"lift", "shorten"}
  /\ Change
  /\ case' = [Move("busy") EXCEPT !.attempt = case.revision + 1]
  /\ act' = [NoAct EXCEPT !.at = "read", !.verb = verb]
  /\ UNCHANGED <<store, fixed, audits, form, mod, stream, hook,
                 sanctions>>

Refused == act' = NoAct /\ case' = Move("open")

(* _current: the appealed ban, in force and of the same player. *)
Current == {r \in bans : r.id = case.ref /\ InForce(r) /\ r.of = case.subject}

Untils == IF act.verb = "shorten" THEN Expiries ELSE {0}

ReadBan ==
  /\ kind = "ban" /\ act.at = "read"
  /\ IF Current = {} THEN Refused
     ELSE \E r \in Current, until \in Untils :
            IF until >= r.expiry THEN Refused
            ELSE /\ act' = [act EXCEPT !.at = "check", !.row = r, !.until = until]
                 /\ UNCHANGED case
  /\ UNCHANGED <<store, fixed, audits, form, mod, stream, hook,
                 sanctions, changes>>

(* _still_current, right before the write. *)
StillCurrent ==
  /\ kind = "ban" /\ act.at = "check"
  /\ IF \E r \in Current : act.verb = "lift" \/ act.until \in now+1..r.expiry-1
       THEN act' = [act EXCEPT !.at = "write"] /\ UNCHANGED case
       ELSE Refused
  /\ UNCHANGED <<store, fixed, audits, form, mod, stream, hook,
                 sanctions, changes>>

(* What the write finds is gone, or replaced by the new rows. *)
WriteBan(hit, rows) ==
  /\ kind = "ban" /\ act.at = "write"
  /\ IF hit = {} THEN Refused /\ UNCHANGED bans
     ELSE /\ bans' = (bans \ hit) \union rows
          /\ act' = [act EXCEPT !.at = "audit"]
          /\ UNCHANGED case
  /\ UNCHANGED <<mutes, counter, given, fixed, audits, form, mod,
                 stream, hook, sanctions, changes>>

(* perform_unban deletes the row the action holds. *)
LiftBan == act.verb = "lift" /\ WriteBan(Doomed(act.row.of, act.row.id), {})

(* update_ban_expiry: by the number, a row that ends later. *)
Later(id, until) == {r \in bans : r.id = id /\ r.expiry > until}
ShortenBan ==
  LET hit == Later(case.ref, act.until) IN
  act.verb = "shorten" /\ WriteBan(hit, {[r EXCEPT !.expiry = act.until] : r \in hit})

ReadMute ==
  /\ kind = "mute" /\ act.at = "read"
  /\ IF mutes[case.subject] # case.ref \/ case.ref <= now THEN Refused
     ELSE /\ \E until \in Untils :
               act' = [act EXCEPT !.at = "write", !.until = until]
          /\ UNCHANGED case
  /\ UNCHANGED <<store, fixed, audits, form, mod, stream, hook,
                 sanctions, changes>>

(* delete_mute_if, update_mute_expiry *)
IsTheMute == mutes[case.subject] = case.ref

WriteMute(allowed, expiry) ==
  /\ kind = "mute" /\ act.at = "write"
  /\ IF IsTheMute /\ allowed
       THEN /\ mutes' = [mutes EXCEPT ![case.subject] = expiry]
            /\ given' = given \union {expiry}
            /\ act' = [act EXCEPT !.at = "audit"]
            /\ UNCHANGED case
       ELSE Refused /\ UNCHANGED <<mutes, given>>
  /\ UNCHANGED <<bans, counter, fixed, audits, form, mod, stream, hook,
                 sanctions, changes>>

LiftMute == act.verb = "lift" /\ WriteMute(case.ref > now, 0)

ShortenMute ==
  act.verb = "shorten" /\ WriteMute(act.until \in now+1..case.ref-1, act.until)

(* _target of a report: the known subject, or one the form names, which is
   stored under the guard. *)
ChooseTarget ==
  /\ kind = "report" /\ act.at = "read"
  /\ \E p \in Player :
       /\ case.subject \in {NoPlayer, p}
       /\ case' = IF case.subject = p THEN case
                  ELSE [Move("busy") EXCEPT !.subject = p]
  /\ act' = [act EXCEPT !.at = "write"]
  /\ UNCHANGED <<store, fixed, audits, form, mod, stream, hook,
                 sanctions, changes>>

(* perform_ban (its claim is in CaseActions) and perform_mute *)
Sanction ==
  /\ kind = "report" /\ act.at = "write"
  /\ Issue(act.verb, case.subject)
  /\ act' = [act EXCEPT !.at = "audit"]
  /\ UNCHANGED <<fixed, audits, case, form, mod, stream, hook, sanctions,
                 changes>>

AuditAct ==
  /\ act.at = "audit"
  /\ Put(act.verb, case.subject, case.attempt, 0)
  /\ act' = [act EXCEPT !.at = "close"]
  /\ UNCHANGED <<store, fixed, case, form, mod, stream, hook,
                 sanctions, changes>>

Closed(by, code, stamp) ==
  [Move("closed") EXCEPT !.by = by, !.code = code, !.stamp = stamp]

CloseActed ==
  /\ act.at = "close"
  /\ case' = Closed("action", act.verb, 0)
  /\ act' = NoAct
  /\ UNCHANGED <<store, fixed, audits, form, mod, stream, hook,
                 sanctions, changes>>

(* The guard of a dead action: closed from its record, or freed. *)
Recover ==
  /\ case.status = "busy" /\ act.at = "none"
  /\ case' = IF \E a \in audits : a.token = case.attempt
               THEN Closed("action", "recovered", 0) ELSE Move("open")
  /\ UNCHANGED <<store, fixed, audits, form, act, mod, stream, hook,
                 sanctions, changes>>

(* reject and reopen; no command changes the subject of such a case *)
Decide ==
  /\ Change
  /\ \/ /\ case.status = "open"
        /\ case' = Closed("action", "rejected", 0)
     \/ /\ case.status = "closed"
        /\ case' = [Move("open") EXCEPT !.since = now, !.by = "nobody",
                                           !.code = "none", !.stamp = 0]
  /\ UNCHANGED <<store, fixed, audits, form, act, mod, stream, hook,
                 sanctions>>

-----------------------------------------------------------------------------
(* Sanctions outside the case *)

Outside == sanctions < MaxSanctions /\ sanctions' = sanctions + 1

(* The game stores the sanction and its record and sends the event, in which
   old servers put no time.  The number of a ban is told apart where the record
   is asked for by it. *)
GameSanction(p, action) ==
  /\ Outside
  /\ Issue(action, p)
  /\ \E dated \in BOOLEAN :
       LET ban == IF action = "BAN" /\ ~dated THEN sanctions + 1 ELSE 0 IN
       /\ Put(action, p, 0, ban)
       /\ stream' = stream \union
                      {[action |-> action, of |-> p, dated |-> dated, ban |-> ban,
                        at |-> IF dated THEN now ELSE 0]}
  /\ UNCHANGED <<fixed, case, form, act, mod, hook, changes>>

(* perform_ban and perform_mute: the row, then the record. *)
StoreSanction(p, action) ==
  /\ Outside /\ mod.at = "none"
  /\ Issue(action, p)
  /\ mod' = [NoMod EXCEPT !.at = action, !.of = p]
  /\ UNCHANGED <<fixed, audits, case, form, act, stream, hook, changes>>

(* The moderator who gave the command confirms it. *)
ConfirmBan(p) == StoreSanction(p, "BAN")

CmdMute(p) == StoreSanction(p, "MUTE")

AuditSanction ==
  /\ mod.at \in Trails
  /\ Put(mod.at, mod.of, 0, 0)
  /\ mod' = IF kind = "mute" THEN [mod EXCEPT !.at = "undo"] ELSE NoMod
  /\ UNCHANGED <<store, fixed, case, form, act, stream, hook,
                 sanctions, changes>>

(* cmd_unban: a row the lookup finds, its number, the deletion by both. *)
FindBan(p) ==
  /\ Outside /\ kind = "ban" /\ mod.at = "none"
  /\ \E r \in Lookup(p) :
       mod' = [at |-> IF r.id = Legacy THEN "number" ELSE "unban", of |-> p,
               row |-> r]
  /\ UNCHANGED <<store, fixed, audits, case, form, act, stream, hook,
                 changes>>

NumberBan ==
  /\ mod.at = "number"
  /\ IF Lookup(mod.of) = {} THEN mod' = NoMod /\ UNCHANGED store
     ELSE \E r \in Lookup(mod.of) :
            EnsureId(r) /\ mod' = [mod EXCEPT !.at = "unban", !.row = Numbered(r)]
  /\ UNCHANGED <<fixed, audits, case, form, act, stream, hook,
                 sanctions, changes>>

Unban ==
  /\ mod.at = "unban"
  /\ bans' = bans \ Doomed(mod.of, mod.row.id)
  /\ mod' = NoMod
  /\ UNCHANGED <<mutes, counter, given, fixed, audits, case, form, act,
                 stream, hook, sanctions, changes>>

(* delete_mute: the mute of the player, whichever it is by now. *)
DeleteMute(p) ==
  /\ mutes' = [mutes EXCEPT ![p] = 0]
  /\ UNCHANGED <<bans, counter, given, fixed, audits, case, form, act,
                 stream, hook, changes>>

Unmute(p) ==
  /\ Outside /\ kind = "mute" /\ mutes[p] # 0
  /\ DeleteMute(p) /\ UNCHANGED mod

(* The Undo button of cmd_mute, for thirty seconds. *)
Undo ==
  /\ mod.at = "undo"
  /\ DeleteMute(mod.of) /\ mod' = NoMod
  /\ UNCHANGED sanctions

UndoExpires ==
  /\ mod.at = "undo"
  /\ mod' = NoMod
  /\ UNCHANGED <<store, fixed, audits, case, form, act, stream, hook,
                 sanctions, changes>>

-----------------------------------------------------------------------------
(* A report closed by a sanction observed outside it *)

(* Mutant: sanctions count from the time of the processing. *)
ObservingNow == [NoHook EXCEPT !.of = case.subject, !.revision = case.revision,
                               !.since = now]

Observing == [NoHook EXCEPT !.of = case.subject, !.revision = case.revision,
                                !.since = case.since]
Actionable == case.status \in {"open", "busy"}

(* sanctioned: without a time the audit trail is asked. *)
Observe(e) ==
  /\ hook.at = "none" /\ e \in stream
  /\ IF \/ kind # "report" \/ case.subject # e.of \/ ~Actionable
        \/ e.dated /\ e.at < case.since
       THEN stream' = stream \ {e} /\ UNCHANGED hook
       ELSE /\ hook' = [Observing EXCEPT !.at = IF e.dated THEN "close" ELSE "trail",
                          !.action = e.action, !.ban = e.ban, !.stamp = e.at,
                          !.event = {e}]
            /\ UNCHANGED stream
  /\ UNCHANGED <<store, fixed, audits, case, form, act, mod, sanctions,
                 changes>>

(* reconcile of the repair pass *)
Repair ==
  /\ hook.at = "none"
  /\ kind = "report" /\ Actionable /\ case.subject # NoPlayer
  /\ hook' = [Observing EXCEPT !.at = "trail"]
  /\ UNCHANGED <<store, fixed, audits, case, form, act, mod, stream,
                 sanctions, changes>>

(* The sanctions of a player since a time, without those of this case. *)
Trail(p, since) ==
  {a \in audits : a.of = p /\ a.action \in Trails /\ a.at >= since /\ a.token = 0}

Newest(s) == {a \in s : \A b \in s : b.at <= a.at}

(* For an event its own kind and, of a ban, its number; any for the pass. *)
ReadTrail ==
  LET found == {a \in Trail(hook.of, hook.since) :
                  hook.action \in {"none", a.action} /\ hook.ban \in {0, a.ban}} IN
  /\ hook.at = "trail"
  /\ IF found = {}
       THEN hook' = NoHook /\ stream' = stream \ hook.event
       ELSE /\ \E a \in Newest(found) :
                 hook' = [hook EXCEPT !.at = "close", !.action = a.action,
                            !.stamp = a.at]
            /\ UNCHANGED stream
  /\ UNCHANGED <<store, fixed, audits, case, form, act, mod, sanctions,
                 changes>>

(* Mutant: the case is read again before it is closed. *)
AsReadReloaded == case.status = "open"

AsRead == case.status = "open" /\ case.revision = hook.revision

(* The hooks of a mute that failed are logged, its event is acknowledged. *)
Retried(e) == e.action = "BAN"

(* _handled: at the revision that was read.  While the case stays actionable
   a race is an error: the event is retried until it is dead-lettered. *)
CloseObserved ==
  /\ hook.at = "close"
  /\ IF AsRead
       THEN /\ case' = Closed("observed", hook.action, hook.stamp)
            /\ stream' = stream \ hook.event
       ELSE /\ UNCHANGED case
            /\ \/ stream' = stream \ hook.event
               \/ /\ Actionable /\ \E e \in hook.event : Retried(e)
                  /\ UNCHANGED stream
  /\ hook' = NoHook
  /\ UNCHANGED <<store, fixed, audits, form, act, mod, sanctions,
                 changes>>

-----------------------------------------------------------------------------
Tick ==
  /\ now < MaxTime
  /\ now' = now + 1
  /\ UNCHANGED <<store, kind, audits, case, form, act, mod, stream,
                 hook, sanctions, changes>>

BotStops ==
  /\ Change
  /\ {form.at, act.at, mod.at, hook.at} # {"none"}
  /\ form' = NoForm /\ act' = NoAct /\ mod' = NoMod /\ hook' = NoHook
  /\ UNCHANGED <<store, fixed, audits, case, stream, sanctions>>

AppealForm == Choose \/ NumberForm \/ CheckForm \/ ChooseMute \/ CheckMute \/ Open
Action ==
  \/ ReadBan \/ StillCurrent \/ LiftBan \/ ShortenBan
  \/ ReadMute \/ LiftMute \/ ShortenMute
  \/ ChooseTarget \/ Sanction \/ AuditAct \/ CloseActed
Command == AuditSanction \/ NumberBan \/ Unban \/ Undo \/ UndoExpires
Watching == Repair \/ ReadTrail \/ CloseObserved \/ \E e \in stream : Observe(e)

SanctionsNext ==
  \/ AppealForm \/ Action \/ Command \/ Watching
  \/ \E verb \in Trails \union {"lift", "shorten"} : Press(verb)
  \/ Recover \/ Decide \/ Tick \/ BotStops
  \/ \E p \in Player :
       \/ FindBan(p) \/ Unmute(p)
       \/ ConfirmBan(p) \/ CmdMute(p)
       \/ \E action \in Trails : GameSanction(p, action)

(* The consumer and the repair pass run forever, and so does a handler once
   started. *)
SanctionsFairness ==
  /\ WF_sanctionvars(Action) /\ WF_sanctionvars(Command) /\ WF_sanctionvars(Recover)
  /\ WF_sanctionvars(Watching)

SanctionsSpec == SanctionsInit /\ [][SanctionsNext]_sanctionvars /\ SanctionsFairness

-----------------------------------------------------------------------------
(* Properties *)

(* The appeal is about the sanction the person chose: a row replaced while
   its number was assigned, the form filled in or the snapshot read never
   takes its place (_checked, _submit, _snapshot). *)
ChosenSanction == case.chosen # NoPlayer => case.subject = case.chosen

(* The write of an appeal touches the sanction it appeals and nothing else,
   and only to end it sooner, whatever was stored, lifted or reissued since
   the action read it. *)
OwnBan ==
  /\ \A r \in bans \ bans' : r.id = case.ref /\ r.of = case.subject
  /\ \A r \in bans' \ bans :
       \E q \in bans : q.id = r.id /\ q.of = r.of /\ r.expiry < q.expiry
OwnMute ==
  \A p \in Player : mutes'[p] # mutes[p] =>
    p = case.subject /\ mutes[p] = case.ref /\ mutes'[p] < mutes[p]
AppealTouchesItsOwn ==
  [][act.at = "write" /\ act'.at = "audit" /\ kind # "report" =>
       OwnBan /\ OwnMute]_sanctionvars

(* A report closed by an observed sanction was answered by one of its present
   subject, issued outside the case and not before it was filed or last
   reopened, though it was read in separate steps. *)
ObservedAnswers ==
  case.by = "observed" =>
    \E a \in Trail(case.subject, case.since) :
      a.action = case.code /\ a.at = case.stamp

(* A sanction of the subject since the filing closes the report in the end,
   also when its event was lost or its handler met a busy case. *)
Unanswered ==
  kind = "report" /\ Actionable /\ Trail(case.subject, case.since) # {}
EventuallyAnswered == <>[]~Unanswered
=============================================================================
