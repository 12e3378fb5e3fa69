----------------------------- MODULE MapSubmissions -----------------------------
(***************************************************************************)
(* One map case (cases/flows/maps.py): the files its author posts and      *)
(* deletes in the forum post, their inspection, the Accept of a reviewer   *)
(* with the upload to a game server whose answer may never come, and the   *)
(* Map Maker badge of the accounts linked to the author                    *)
(* (cases/flows/badges.py).                                                *)
(*                                                                         *)
(* A file is the number of the message that carries it; a Discord          *)
(* attachment never changes.  Revisions and review stamps are only         *)
(* compared for equality, so a new one is any value that no task holds.    *)
(***************************************************************************)
EXTENDS Naturals, FiniteSetsExt

CONSTANTS
  Account,   \* game accounts the author may link
  Linked,    \* those linked at the start
  MaxFiles, MaxAttempts, MaxChanges  \* bounds

ASSUME MapSubmissionsAssumption ==
  Linked \subseteq Account /\ {MaxFiles, MaxAttempts, MaxChanges} \subseteq Nat

VARIABLES
  posts,     \* messages of the author that carry a file and still exist
  posted,    \* the number of the newest one ever
  events,    \* messages of the gateway not yet handled
  case,
  fetch,     \* _refresh under the lock of the files of the case
  form,      \* the Accept a reviewer has pressed and not finished
  acc,       \* the action under its guard
  uploads,   \* the uploads sent, by attempt
  audits,    \* attempts recorded as installed, with the reviewed file
  grant,     \* _badge in progress
  linked, owned, told,  \* accounts linked, with the badge, and announced
  late,      \* the case was accepted more than BADGE_WINDOW ago
  changes

vars == <<posts, posted, events, case, fetch, form, acc, uploads, audits, grant,
          linked, owned, told, late, changes>>
badges == <<grant, linked, owned, told, late>>
forum == <<posts, posted, events>>

Attempt == 1..MaxAttempts
NoFile == 0
NoFetch == [at |-> "none", rev |-> 0, file |-> NoFile, sha |-> NoFile,
            pending |-> FALSE]
NoForm == [at |-> "none", stamp |-> 0, file |-> NoFile]
NoAcc == [at |-> "none", file |-> NoFile, seen |-> NoFile, token |-> 0]
NoGrant == [at |-> "none", seen |-> {}, todo |-> {}, missed |-> FALSE, one |-> {},
            looked |-> {}]  \* history: those linked at the last look

Init ==
  /\ posts = {1} /\ posted = 1 /\ events = {}
  /\ case = [st |-> "absent", rev |-> 1, guard |-> 0, token |-> 0, file |-> NoFile,
             stamp |-> 1, sha |-> NoFile, pending |-> TRUE, upload |-> "none",
             hook |-> FALSE, badge |-> "none"]
  /\ fetch = NoFetch /\ form = NoForm /\ acc = NoAcc
  /\ uploads = [t \in Attempt |-> [at |-> "none", file |-> NoFile, seen |-> NoFile,
                                   known |-> FALSE]]
  /\ audits = {}
  /\ linked = Linked
  /\ owned = {} /\ told = {} /\ late = FALSE /\ grant = NoGrant
  /\ changes = 0

-----------------------------------------------------------------------------
(* Writes of the case *)

NewRevision == CHOOSE r \in 1..2 : r # fetch.rev
NewStamp == CHOOSE s \in 1..2 : s # form.stamp
Write(c) == case' = [c EXCEPT !.rev = NewRevision]

Actionable == case.st = "open"
Idle == Actionable /\ case.guard = 0
Unknown == case.upload = "unknown"

(* _latest *)
Latest == IF posts = {} THEN NoFile ELSE Max(posts)

-----------------------------------------------------------------------------
(* The post of the author *)

(* Bound: while a case is closed nothing is posted or deleted; on_message and
   recheck do nothing then. *)
UnderReview == case.st \in {"absent", "open"}

Post ==
  /\ UnderReview /\ posted < MaxFiles
  /\ posted' = posted + 1
  /\ posts' = posts \union {posted + 1}
  /\ events' = events \union {posted + 1}
  /\ UNCHANGED <<case, fetch, form, acc, uploads, audits, badges, changes>>

DeleteMessage(f) ==
  /\ changes < MaxChanges /\ changes' = changes + 1
  /\ UnderReview /\ f \in posts
  /\ posts' = posts \ {f}
  /\ UNCHANGED <<posted, events, case, fetch, form, acc, uploads, audits, badges>>

(* intake: of a new post its first message, of one a reviewer names
   (/map review) the newest file. *)
Intake ==
  /\ case.st = "absent" /\ posts # {}
  /\ \E f \in {Latest} \union ({1} \intersect posts) :
       Write([case EXCEPT !.st = "open", !.file = f])
  /\ UNCHANGED <<forum, fetch, form, acc, uploads, audits, badges, changes>>

-----------------------------------------------------------------------------
(* Inspection *)

Fetch(f) == fetch' = [NoFetch EXCEPT !.at = "read", !.rev = case.rev, !.file = f]

(* on_message: an older file than the one under review changes nothing. *)
OnMessage(f) ==
  /\ f \in events /\ fetch.at = "none"
  /\ events' = events \ {f}
  /\ IF Idle /\ ~Unknown /\ f > case.file THEN Fetch(f) ELSE UNCHANGED fetch
  /\ UNCHANGED <<posts, posted, case, form, acc, uploads, audits, badges, changes>>

(* on_created and reconcile *)
Reinspect ==
  /\ fetch.at = "none" /\ Idle /\ ~Unknown /\ case.pending
  /\ Fetch(case.file)
  /\ UNCHANGED <<forum, case, form, acc, uploads, audits, badges, changes>>

(* recheck: without a file in the post the stored one is inspected again. *)
Recheck ==
  /\ changes < MaxChanges /\ changes' = changes + 1
  /\ fetch.at = "none" /\ Idle /\ ~Unknown
  /\ Fetch(IF posts = {} THEN case.file ELSE Latest)
  /\ UNCHANGED <<forum, case, form, acc, uploads, audits, badges>>

(* The attachment, the local checks and those of a server: a file that is gone,
   or cannot be fetched, is "unavailable" and looked at again, a silent server
   leaves the deep checks pending, an invalid file has no hash. *)
Inspect ==
  /\ fetch.at = "read"
  /\ \E sha \in {NoFile, fetch.file}, pending \in BOOLEAN :
       /\ fetch.file \notin posts => sha = NoFile /\ pending
       /\ fetch' = [fetch EXCEPT !.at = "write", !.sha = sha, !.pending = pending]
  /\ UNCHANGED <<forum, case, form, acc, uploads, audits, badges, changes>>

(* The write at the revision inspected.  Another file drops what the old one
   left in the payload. *)
Inspected ==
  LET kept == [case EXCEPT !.file = fetch.file, !.stamp = NewStamp,
                 !.sha = fetch.sha, !.pending = fetch.pending] IN
  /\ fetch.at = "write"
  /\ IF fetch.rev # case.rev THEN UNCHANGED case
     ELSE Write(IF fetch.file = case.file THEN kept
                ELSE [kept EXCEPT !.upload = "none", !.badge = "none"])
  /\ fetch' = NoFetch
  /\ UNCHANGED <<forum, form, acc, uploads, audits, badges, changes>>

-----------------------------------------------------------------------------
(* Accept *)

(* Mutant: an upload without an answer is sent again. *)
ReadyAgain == case.sha # NoFile

(* _ready *)
Ready == ~Unknown /\ case.sha # NoFile

(* Mutant: the review that was pressed is not compared. *)
SameReviewAny == TRUE

SameReview == form.stamp = case.stamp

(* dispatch_action reads the stored case each time, and accept starts from the
   top. *)
Dispatched == Idle /\ Ready /\ SameReview

(* The button, whatever the cached copy said.  accept keeps the stamp of the
   card it was dispatched on while it asks.  Bound: which question is open is
   not kept. *)
Press ==
  /\ form.at = "none" /\ Idle /\ Ready
  /\ form' = [at |-> "asked", stamp |-> case.stamp, file |-> case.file]
  /\ UNCHANGED <<forum, case, fetch, acc, uploads, audits, badges, changes>>

(* An answer dispatches the action again; a refusal ends it. *)
Step(next) ==
  /\ form' = IF Dispatched THEN [form EXCEPT !.at = next] ELSE NoForm
  /\ UNCHANGED <<forum, case, fetch, acc, uploads, audits, badges, changes>>

(* Pending checks, and errors, are confirmed. *)
ChooseServer ==
  form.at = "asked" /\ Step(IF case.pending THEN "asked" ELSE "chosen")

ConfirmAccept == form.at = "asked" /\ case.pending /\ Step("chosen")

(* Cancelled, or not answered in a minute. *)
Abandon ==
  /\ form.at = "asked"
  /\ form' = NoForm
  /\ UNCHANGED <<forum, case, fetch, acc, uploads, audits, badges, changes>>

(* The last press, at the revision it reads, and the checks of upload. *)
Claim ==
  /\ form.at = "chosen"
  /\ form' = NoForm
  /\ IF Idle /\ Ready /\ SameReview /\ case.token < MaxAttempts
       THEN /\ Write([case EXCEPT !.guard = case.token + 1, !.token = @ + 1])
            /\ acc' = [at |-> "mark", file |-> case.file, seen |-> form.file,
                       token |-> case.token + 1]
       ELSE UNCHANGED <<case, acc>>
  /\ UNCHANGED <<forum, fetch, uploads, audits, badges, changes>>

Fail == acc' = [NoAcc EXCEPT !.at = "failed", !.token = acc.token]

(* _attachment, and the uncertain attempt, stored before anything is sent. *)
Mark ==
  /\ acc.at = "mark"
  /\ IF acc.file \in posts
       THEN /\ Write([case EXCEPT !.upload = "unknown",
                        !.badge = IF @ = "complete" THEN "none" ELSE @])
            /\ acc' = [acc EXCEPT !.at = "latest"]
       ELSE Fail /\ UNCHANGED case
  /\ UNCHANGED <<forum, fetch, form, uploads, audits, badges, changes>>

(* A newer file, or a deleted one: only this marker is released. *)
CheckLatest ==
  /\ acc.at = "latest"
  /\ IF Latest = acc.file
       THEN acc' = [acc EXCEPT !.at = "send"] /\ UNCHANGED case
       ELSE Write([case EXCEPT !.upload = "none"]) /\ Fail
  /\ UNCHANGED <<forum, fetch, form, uploads, audits, badges, changes>>

(* perform_map_upload *)
Send ==
  /\ acc.at = "send"
  /\ uploads' = [uploads EXCEPT ![acc.token] =
                   [at |-> "sent", file |-> acc.file, seen |-> acc.seen,
                    known |-> FALSE]]
  /\ acc' = [acc EXCEPT !.at = "wait"]
  /\ UNCHANGED <<forum, case, fetch, form, audits, badges, changes>>

(* The server downloads the file and installs it or not, at any time, also
   after nobody waits for its answer. *)
Serve(t) ==
  /\ uploads[t].at = "sent"
  /\ \E at \in {"installed", "refused"} : uploads' = [uploads EXCEPT ![t].at = at]
  /\ UNCHANGED <<forum, case, fetch, form, acc, audits, badges, changes>>

Answer ==
  /\ acc.at = "wait" /\ uploads[acc.token].at \in {"installed", "refused"}
  /\ uploads' = [uploads EXCEPT ![acc.token].known = TRUE]
  /\ acc' = [acc EXCEPT !.at = IF uploads[acc.token].at = "installed"
                                 THEN "audit" ELSE "refused"]
  /\ UNCHANGED <<forum, case, fetch, form, audits, badges, changes>>

(* MapUploadTimeout and MapUploadFailed: the attempt stays unknown. *)
NoAnswer ==
  /\ acc.at = "wait"
  /\ Fail
  /\ UNCHANGED <<forum, case, fetch, form, uploads, audits, badges, changes>>

Refused ==
  /\ acc.at = "refused"
  /\ Write([case EXCEPT !.upload = "result"])
  /\ Fail
  /\ UNCHANGED <<forum, fetch, form, uploads, audits, badges, changes>>

(* _append_map_upload_audit *)
Audit ==
  /\ acc.at = "audit"
  /\ audits' = audits \union {[token |-> acc.token, file |-> acc.file]}
  /\ acc' = [acc EXCEPT !.at = "installed"]
  /\ UNCHANGED <<forum, case, fetch, form, uploads, badges, changes>>

Installed ==
  /\ acc.at = "installed"
  /\ Write([case EXCEPT !.upload = "installed", !.badge = "pending"])
  /\ acc' = [acc EXCEPT !.at = "close"]
  /\ UNCHANGED <<forum, fetch, form, uploads, audits, badges, changes>>

Accepted == [case EXCEPT !.st = "accepted", !.guard = 0, !.hook = FALSE]

Close ==
  /\ acc.at = "close"
  /\ Write(Accepted)
  /\ acc' = NoAcc
  /\ UNCHANGED <<forum, fetch, form, uploads, audits, badges, changes>>

(* The guard is released, and a file posted meanwhile comes under review. *)
Release ==
  /\ acc.at = "failed"
  /\ Write([case EXCEPT !.guard = 0])
  /\ acc' = NoAcc
  /\ events' = IF Unknown \/ Latest = NoFile THEN events ELSE events \union {Latest}
  /\ UNCHANGED <<posts, posted, fetch, form, uploads, audits, badges, changes>>

(* Mutant: any record of the file. *)
ProvesAny(a) == a.file = case.sha

(* completion_code of a record found by the token of the guard. *)
Proves(a) == a.token = case.guard /\ a.file = case.sha

(* The guard of a dead action: closed from its record, or freed. *)
Recover ==
  /\ Actionable /\ case.guard # 0 /\ acc.at = "none"
  /\ Write(IF \E a \in audits : Proves(a) THEN Accepted
           ELSE [case EXCEPT !.guard = 0])
  /\ UNCHANGED <<forum, fetch, form, acc, uploads, audits, badges, changes>>

(* reject and reopen, which forgets when the case was closed *)
Decide ==
  /\ changes < MaxChanges /\ changes' = changes + 1
  /\ late' = FALSE
  /\ \/ Idle /\ Write([case EXCEPT !.st = "rejected"])
     \/ /\ case.st \in {"accepted", "rejected"}
        /\ Write([case EXCEPT !.st = "open", !.hook = FALSE])
  /\ UNCHANGED <<forum, fetch, form, acc, uploads, audits, grant, linked, owned, told>>

-----------------------------------------------------------------------------
(* The badge of the author *)

(* Mutant: only the closing hook. *)
OwedOnce == case.st = "accepted" /\ ~case.hook

(* The owed closing hook, or within the window the repair of a pending badge. *)
Owed ==
  case.st = "accepted" /\ (~case.hook \/ (case.badge = "pending" /\ ~late))

(* on_closed: an attempt the recovery proved is no longer unknown.  _badge does
   nothing after the window. *)
StartGrant ==
  LET granting == case.badge # "complete" /\ ~late IN
  /\ grant.at = "none" /\ Owed
  /\ Write([case EXCEPT !.hook = TRUE,
              !.upload = IF Unknown THEN "installed" ELSE @,
              !.badge = IF granting THEN "pending" ELSE @])
  /\ grant' = IF granting /\ linked # {}
                THEN [NoGrant EXCEPT !.at = "give", !.seen = linked, !.todo = linked]
                ELSE NoGrant
  /\ UNCHANGED <<forum, fetch, form, acc, uploads, audits, linked, owned, told,
                 late, changes>>

(* 30 days after the case was closed; told apart only without the badge. *)
WindowEnds ==
  /\ case.st = "accepted" /\ case.badge # "complete" /\ ~late
  /\ late' = TRUE
  /\ UNCHANGED <<forum, case, fetch, form, acc, uploads, audits, grant, linked, owned,
                 told, changes>>

(* An account unlinked meanwhile is left for the next pass. *)
Give(a) ==
  /\ grant.at = "give" /\ a \in grant.todo
  /\ IF a \in linked
       THEN /\ owned' = owned \union {a}
            /\ grant' = [grant EXCEPT !.at = "tell", !.todo = @ \ {a}, !.one = {a}]
       ELSE /\ grant' = [grant EXCEPT !.todo = @ \ {a}, !.missed = TRUE]
            /\ UNCHANGED owned
  /\ UNCHANGED <<forum, case, fetch, form, acc, uploads, audits, linked, told,
                 late, changes>>

(* Also for a badge already owned: an earlier announcement may have failed. *)
Tell ==
  /\ grant.at = "tell"
  /\ told' = told \union grant.one
  /\ grant' = [grant EXCEPT !.at = "give", !.one = {}]
  /\ UNCHANGED <<forum, case, fetch, form, acc, uploads, audits, linked, owned,
                 late, changes>>

(* Mutant: the accounts are not read again. *)
AllServedOnce == ~grant.missed

AllServed == ~grant.missed /\ linked = grant.seen

LastLook ==
  /\ grant.at = "give" /\ grant.todo = {}
  /\ grant' = IF AllServed THEN [grant EXCEPT !.at = "role", !.looked = linked]
              ELSE NoGrant
  /\ UNCHANGED <<forum, case, fetch, form, acc, uploads, audits, linked, owned, told,
                 late, changes>>

(* The role of the author, which nothing reads, and the checkpoint, on the case
   as it is by then. *)
FinishGrant ==
  /\ grant.at = "role"
  /\ Write([case EXCEPT !.badge = "complete"])
  /\ grant' = NoGrant
  /\ UNCHANGED <<forum, fetch, form, acc, uploads, audits, linked, owned, told, late,
                 changes>>

(* A call to a server, Discord or MongoDB fails: recorded, the badge is left
   pending. *)
GrantFails ==
  /\ changes < MaxChanges /\ changes' = changes + 1
  /\ grant.at # "none"
  /\ grant' = NoGrant
  /\ UNCHANGED <<forum, case, fetch, form, acc, uploads, audits, linked, owned, told,
                 late>>

(* Only while the badge is pending and tried for: no other step reads the
   links. *)
Link ==
  /\ case.st = "accepted" /\ case.badge = "pending" /\ (late => grant.at # "none")
  /\ changes < MaxChanges /\ changes' = changes + 1
  /\ linked' \in SUBSET Account \ {linked}
  /\ UNCHANGED <<forum, case, fetch, form, acc, uploads, audits, grant, owned,
                 told, late>>

-----------------------------------------------------------------------------
(* The bot dies, with what it was doing and the messages it has not seen. *)
Crash ==
  /\ changes < MaxChanges /\ changes' = changes + 1
  /\ events' = {} /\ fetch' = NoFetch /\ form' = NoForm /\ acc' = NoAcc
  /\ grant' = NoGrant
  /\ UNCHANGED <<posts, posted, case, uploads, audits, linked, owned, told, late>>

Acting ==
  \/ Mark \/ CheckLatest \/ Send \/ Answer \/ Refused
  \/ Audit \/ Installed \/ Close \/ Release
Inspecting == Inspect \/ Inspected
Granting ==
  StartGrant \/ Tell \/ LastLook \/ FinishGrant \/ \E a \in Account : Give(a)

Next ==
  \/ Post \/ Intake \/ Reinspect \/ Recheck
  \/ Press \/ ChooseServer \/ ConfirmAccept \/ Abandon \/ Claim \/ NoAnswer
  \/ Recover \/ Decide \/ Link \/ WindowEnds \/ GrantFails \/ Crash
  \/ Acting \/ Inspecting \/ Granting
  \/ \E f \in 1..MaxFiles : DeleteMessage(f) \/ OnMessage(f)
  \/ \E t \in Attempt : Serve(t)

(* The repair pass runs forever, a task goes on once started, and a server
   that is up answers or is given up. *)
Fairness ==
  /\ WF_vars(Acting \/ NoAnswer) /\ WF_vars(Inspecting) /\ WF_vars(Recover)
  /\ WF_vars(Granting)

Spec == Init /\ [][Next]_vars /\ Fairness

-----------------------------------------------------------------------------
(* Properties *)

(* What is sent to a server is the file whose review the reviewer pressed
   Accept on, though files are posted, deleted and inspected meanwhile; an
   accepted case was installed by its own last attempt, also when its
   closing was recovered from the audit trail. *)
InstalledAsReviewed ==
  /\ \A t \in Attempt : uploads[t].file = uploads[t].seen
  /\ case.st = "accepted" => uploads[case.token].at = "installed"

(* No second upload is sent while the outcome of an earlier one is unknown to
   the bot, through timeouts, crashes, newer files, rejection and reopening:
   the server may still be about to install it. *)
NoBlindRetry ==
  Cardinality({t \in Attempt : uploads[t].at # "none" /\ ~uploads[t].known}) <= 1

(* The badge is marked complete only when every account that was linked at the
   last look owns it and was told, whatever failed in between. *)
BadgeReachesAll ==
  [][case.badge # "complete" /\ case'.badge = "complete" =>
       grant.looked \subseteq owned \intersect told]_vars

(* The author of an accepted map who has linked an account gets the badge,
   unless the 30 days in which the bot tries are over first. *)
EventuallyBadged ==
  <>[](case.st = "accepted" /\ linked # {} /\ ~late => case.badge = "complete")
=============================================================================
