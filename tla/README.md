# A formal model of xcore-discord-bot

TLA+ modules for the parts of the bot whose correctness depends on
interleavings, crashes, retries and lost answers, the TLC configurations that
check them on small instances, and TLAPS proofs for the core. Paths are
relative to `src/xcore_discord_bot/`. The state of the bot lives in MongoDB
(cases, audit trail, players, punishments), Redis (streams between the bot and
the game servers, idempotency claims) and Discord (posts, threads, messages);
the process itself keeps only caches, locks and coroutines, all of which a
crash loses. There is one bot process and one event loop, so a step of a model
is what runs between two awaits.

## 1. Inventory

| part | state it keeps | operations | what is hard |
|---|---|---|---|
| case document (`cases/model.py`, `cases/store.py`) | status, revision, `pending_action`, subject, dedup key, progress markers, events | `insert`, `get`, `cas`, `by_submission`, `by_dedup`, `by_thread`, `audits_for` | every write is a compare-and-set on the revision and on the guard; unique indexes decide races |
| staff actions (`cases/actions.py`) | the guard and its token, Redis claims, audit records | `run`, `close`, `recover`, `release_abandoned`, `close_observed` | an action has an effect outside the case; it can fail, die or outlive its guard at any await |
| intake (`cases/service.py` `open`, `merge`) | submissions, co-openers, open cases per opener | open, merge, limits, reopen | duplicates, concurrent submissions, dedup collisions, retries after a crash |
| creation and closing (`cases/service.py`, `cases/notify.py`, `cases/threads.py`) | progress markers, receipts, thread ids, notices | `resume_creation`, `finish_close`, `send`, `thread_deleted`, `reopen` | effects on Discord before their record; deletions at any time; repair repeats everything |
| private threads (`cases/threads.py`) | owner threads, managed memberships | `ensure_*_thread`, `reconcile_memberships`, `exclude_subject` | adoption of orphans, invitations whose acknowledgement is lost, a complaint's subject must be kept out |
| repair (`cases/reconcile.py`, `daemons/cases_reconcile_daemon.py`) | nothing | a pass every five minutes | works on snapshots |
| case flows (`cases/flows/`) | payloads, admission rows, upload attempts | reports, appeals, badges, complaints, maps | admission under redelivery, sanctions seen elsewhere, uploads whose outcome is unknown |
| staff actions on players (`staff_actions.py`, stores) | bans, mutes, badges, audit | `perform_*` | order of mutation, audit and announcement |
| transport (`bus/transport.py`, `runtime_consumers.py`) | stream groups, pending entries, dead letters, claims | consume, reclaim, RPC, publish | at-least-once delivery, poison messages, late or missing RPC answers |
| game RPC (`rpc/mindustry_rpc.py`) | nothing | staff RPC with one retry, `on_any_live_server` | a server that timed out may still apply the request |
| staff role sync (`daemons/staff_sync_daemon.py`) | the sequence of each account's latest event | event syncs, ten-minute passes | a newer event against an older snapshot |
| account merge (`account_merge_store.py`, `daemons/rating_merge_daemon.py`) | players, links, punishments, pending rating merges | merge in one transaction, retried rating merge | partial application, chains of merges, lost acknowledgements |
| ratings and seasons (`rating_store.py`, `services/rating_service.py`, `bus/rating.py`, `cogs/seasons.py`) | announcements, prizes | post once, reschedule, deliver prizes | redelivered season events |
| linking, moderation, map and stats commands (`handlers_*.py`, `cogs/`) | none of their own | slash commands | mostly I/O; the stateful part is in the stores and the RPC |
| presentation and i18n | none | text and embeds | no state |

How they interact: a button press or a stream event calls `CaseService`; the
service changes the case by compare-and-set and re-renders Discord from the
stored case; a staff action calls `staff_actions`, which writes the punishment
and an audit record that names the case and the token of its guard; the repair
task reads the audit trail back. Streams bring reports, punishments and link
changes from the game; RPC answers come on streams as well.

What makes each part correct:

- actions: one action at a time has effects, under its guard; a close carries
  the decision of the current attempt and the evidence for it; nothing stays
  guarded for ever; an audited case is closed;
- intake: one active case per dedup key, one case per submission, nobody's
  submission lost by a merge, the limit of open cases kept;
- closing: everyone is told of the decision that counts, once unless
  something died or failed, and the case is marked done only then;
- threads: a person's thread is theirs alone; exactly the authorised members;
- transport: an event is handled at least once, acknowledged only after that,
  dead-lettered rather than lost; an RPC caller gets its own answer or none;
- sync and merge: the newest roles win; a merge moves everything or nothing.

## 2. Modules and code

Every definition that models code names its lines in `PROJECT.json`, "map".

| module | what it models | state and steps in the code |
|---|---|---|
| `CaseLifecycle` | what one case promises: the status table, one owner, a decision of the latest action | `TRANSITIONS` of `cases/model.py`; `owner` is the token of `pending_action`, `latest` the last `action_started` event |
| `CaseActions` | `cases/actions.py` over `CaseStore.cas`, with the repair pass and all other writers | `case` is the document, `claims` the Redis keys, `audits` the audit records with a token; `run[p]` is a coroutine and what it last read; one action for each stretch between two awaits |
| `CaseClosing` | `finish_close`, `CaseNotifier.send`, the owner's thread, `thread_deleted`, `reopen` | `case` has the receipts and markers of `progress`; `living`, `used`, `posted`, `dms` are Discord; `closer` and `forget` are the coroutines inside and outside the projection lock |
| `CaseIntake` | `CaseService.open` and `merge` on the unique indexes of `CaseStore` | `cases` is the collection, `req[s]` the handler of a submission, `attempts` the failure counter of its event; staff decisions are single steps |
| `StreamDelivery` | what the consumers promise: acknowledged only when handled, dead-lettered or the bot's own | `handled`, `dead`, `settled` |
| `StreamConsumer` | the read loop of `bus/transport.py` with the ban handler of `runtime_consumers.py` | `unread`, `pending`, `idle` are the consumer group, `counter` the retry key, `marks` the `ban-event-log` keys, `loop` the batch and the event in hand |
| `StaffSync` | `daemons/staff_sync_daemon.py` with `_retry_staff` | `roles` is Discord, `game` and `inbox` the game server, `event` the handlers of role changes, `pass` the scheduled pass, `call` the holder of `_lock` |
| `ReportAdmission` | `submitted` and `_admission_decision` of `cases/flows/reports.py` | `rows` and `decided` are the two kinds of record in `case_report_limits`, `late` the writes whose handler has given up, `hand` the event the consumer handles |
| `PrivateThreads` | `cases/threads.py`, the creation steps, `set_subject` and the projection of `cases/service.py`, `subject_set` of `cases/flows/complaints.py` | `own` and `managed` are the document's threads and invitations; `living`, `members` are Discord, `severed` whom the bot removed without recording it; `job` holds the projection lock, `forget[t]` and `study[n]` are the handlers beside it |
| `Sanctions` | `cases/flows/appeals.py`, the observed sanctions of `cases/flows/reports.py`, bans and mutes of `staff_actions.py` | `bans`, `mutes`, `counter`, `audits` are collections; `form` is a submission, `act` the staff action, `mod` a command outside the case, `hook` the observer of the stream or the repair pass |
| `MapSubmissions` | `cases/flows/maps.py`, the badge of the author (`badges.py`) | `posts` and `events` are the forum post; `fetch` is an inspection, `form` the reviewer's Accept with its server choice, `acc` the action, `uploads[t]` what the servers were sent, `grant` the badge task |
| `AccountMerge` | `account_merge_store.py`, `handlers_account_merge.py`, `rating_service.py`, the daemon of rating merges | `player` and `bans` are collections, `view[v]` a command with its preview and transaction, `queue` the rating merges on record, `standing` the ladder of the servers, `late` requests a silent server still holds |
| `Seasons` | `cogs/seasons.py`, `handlers_seasons.py`, `on_any_live_server`, the claims of `rating_store.py` | `season` and `seen` are the servers, `asked` and `answers` the RPC streams, `log` and `inbox` the event stream, `rows` the claims, `hand` the announcement in progress |
| `MC...` | the instances for TLC | symmetry, and the functions a cfg cannot write |
| `BusProofs` | theorems about `StreamConsumer` and `StaffSync` | section 6 |
| `RatingProofs` | theorems about `Seasons` and `AccountMerge` | section 6 |
| `ReportsProofs` | theorems about `CaseIntake` and `Sanctions` | section 6 |
| `CaseActionsProofs`, `CaseClosingProofs`, `MapSubmissionsProofs`, `ReportAdmissionProofs`, `PrivateThreadsProofs` | theorems about the module they are named after | section 6 |

The modules meet where the code does. `CaseActions` treats each other writer
of a case as one compare-and-set (`OtherStep`), which is what `CaseClosing` and
`CaseIntake` open up; they in turn take a decision as one step. `StreamConsumer`
justifies how `CaseIntake`, `ReportAdmission`, `Sanctions` and `Seasons` deliver
an event: again until its handler returns. `ReportAdmission` decides whether a
game report reaches `open` at all, which is where `CaseIntake` begins.
`PrivateThreads` has the threads of all the people of a case and their members;
`CaseClosing` has the thread of one person and what is said in it. The guard of
`CaseActions` is the one under which `Sanctions` and `MapSubmissions` act; there
it is a place of `act` and `acc`.

Definitions under a comment `Mutant:` are plausible bugs. No specification uses
them; each is put in the place of a definition to see that a property notices.

## 3. Runs

| run | shows |
|---|---|
| `CaseActions_safety` | two presses, the repair pass and all other writers, interleaved at every await: effects under their guard, decisions current, the case implements `CaseLifecycle` |
| `CaseActions_live` | a press that may die anywhere: its guard is freed, and a case whose action is in the audit trail closes |
| `CaseClosing` | two decisions, two deleted threads, a crash, a failed call, before or after its effect: outcome in the living thread, one living thread, a repeated message only for a mishap of its own; the closing of a case that stays closed is marked done in the end |
| `CaseIntake` | three submissions, two staff decisions, a crash: stored once, cap kept; a report from the game is stored in the end |
| `ReportAdmission` | three submissions of two people, a lost answer or crash at every write: one verdict for a submission, registered reports a cooldown apart, every submission answered or dead-lettered |
| `PrivateThreads` | a report of two people and a complaint: nobody in another person's thread, everyone in a thread on record, the subject of a complaint never invited and only their own history shown; in the end the right people and the right history, but for a removal that failed before its record |
| `Sanctions` | an appeal or a report against two sanctions that are stored, lifted or replaced outside it: the appeal keeps to the sanction chosen and its write to that row; an observed sanction closes the reports it answers, and all of them in the end |
| `MapSubmissions` | two files, two uploads with unknown outcome: installed is what was reviewed, nothing is sent twice blindly, the badge is complete only when it reached every account linked at the last look, and is reached unless the 30 days end first |
| `AccountMerge` | two merges over three accounts against players, staff and each other: nothing lost or doubled, the standings follow or the refusal is on record, unless the bot died or the queue could not be written |
| `Seasons` | two commands asked of two servers that answer late, three events replayed: a command changes the season once, every move is announced, once, unless a claim was left behind |
| `StreamConsumer` | four events (one garbled, one the bot's own), four failures, an interruption, a suspension: the consumer implements `StreamDelivery` and settles every event unless it stays suspended |
| `StaffSync` | two members, two changes, two failures (timeouts, refusals, roles switched off, a failed page): no silent staleness, no departure invented by a failed page; the game agrees with Discord in the end |

Each type invariant (`TypeOK`) of the older modules was checked with the runs
above when the module was written; those of `CaseActions`, `StreamConsumer` and
`CaseClosing` are theorems now, and no run spends its time on one.

Deadlock is not checked where the system may stop: when the bounded presses,
submissions or events are used up and nothing is left to repair, it rests. The
passes of `StaffSync` never rest, and its run checks deadlock.

## 4. Bounds and why they are enough

- Presses: two. A race needs two owners of the guard at most, and the proofs
  cover any number. `CasTries`, five in the code, is two: one lost write and
  the last one are the cases told apart. `MaxRevision` stops the writers
  outside the actions, and four revisions allow an opening, a guard, a close
  and a reopening with another writer between. Processes that die are left to
  the run of the liveness properties and to the proofs.
- Closing: two decisions allow a receipt of the first to meet the second; three
  threads allow two deletions with a living thread after them. Thread ids are
  taken in a fixed order and the first outcome is fixed, since nothing
  compares them with anything else. One crash and one failed call, at any
  step, give every single partial failure: a call to Discord or a write of
  the receipt that is refused, one that is done with its answer lost, and a
  write that ends the whole closing.
- Intake: one reporter from the game and one from Discord who sends twice, on
  two players, so that a duplicate, a merge, a clash of keys, the cap and the
  cooldown all happen. Three deliveries may fail and staff decide twice: with
  as many decisions as deliveries, every delivery could lose its race and the
  report would be dead-lettered, as in the code.
- Admission: three submissions, two of one person on one player, so that the
  cooldown, a burst and a repetition meet; one tick separates "within" from
  "after" a cooldown and a window of one; `Tries`, five in the code, is two.
- Threads: three changes by staff (taken, released and taken again; or two
  choices of a subject, which need two selections, with an assignment), one
  deletion and two faults, which may fall on any step, four of them in all
  (`MaxTrouble`), so that a fault can spoil the pass in the middle of three
  changes and two faults can meet two. A subject is a staff member or the
  opener. Four threads cover every creation those allow.
- Sanctions: two sanctions give one to appeal and one that replaces it, on the
  same player or on another at the same address; two changes are a decision and
  a reopening, a crash or a lost event between them.
- Maps: two files and two attempts are a review and its replacement, an upload
  and its repetition; two changes are a crash and a link, a failed grant and a
  link, or a rejection and a reopening. The 30-day window of the badge may end
  at any moment.
- Merges: three accounts and two commands contain a repeated merge, its
  reversal and a chain; one join, and two bans, liftings, failures or deaths.
  One of the commands is fixed, since the accounts are alike.
- Seasons: two commands and two servers give a late answer to the first while
  the second is under way; three events are a move, a move back and a move
  again, or the two of a season's end with one before; two faults lose an
  answer and a post.
- Streams: two failures exhaust an event and two more are left for another;
  the retry keys live for a day and the log markers for a week, which the runs
  do not outlive.
- Staff sync: two changes give an event before a pass and one during it or
  during a request; two failures lose a request and its repetition.

## 5. Fairness

- `CaseActions`: the repair pass keeps running (the daemon starts one every
  five minutes, also after a restart) and guards grow old. Nothing is assumed
  of a running action, of staff or of other writers. `MaxFailures` bounds the
  passes that die, since one that always dies repairs nothing.
- `CaseClosing`: the same pass calls `finish_close` again for a case that is
  not marked done; coroutines that have begun go on until a crash.
- `CaseIntake`: handlers go on. `asyncio.Lock` wakes its waiters in order,
  hence strong fairness for the lock of the reporter.
- `StreamConsumer`: the consumer task is restarted for ever
  (`run_consumer_forever`). Reclaim is strongly fair because the loop calls it
  every `RECLAIM_INTERVAL_SEC` whatever else there is to read.
- `StaffSync`: the game server works through its stream, the loop of the pass
  goes on, and the waiters of the lock get it in order. Role changes and
  failures are bounded and never forced.

- `ReportAdmission`: the consumer delivers a pending event again, and a handler
  goes on; late writes, the clock and staff are never forced.
- `PrivateThreads`: the repair pass keeps coming (`Pass`), and handlers that
  have begun go on (`Store`, `Forget`); the posting of a history waits for the
  projection lock, which is an `asyncio.Lock`, hence strong fairness (`Post`).
  Staff and Discord are never forced.
- `Sanctions`, `MapSubmissions`, `AccountMerge`: tasks go on once started, and
  the repair passes and daemons are started for ever. A server that is silent
  is given up after the timeout of `rpc_request`; it is never forced to answer.
- `Seasons` has none: it checks safety only.

## 6. Proofs

TLAPS checks, for every value of the constants under the named assumptions of
the modules (`ConstantsAssumption`, `ConsumerAssumption`, `SeasonsAssumption`,
`ClosingAssumption`, `MapSubmissionsAssumption`, `IntakeAssumption`,
`AdmissionAssumption`, `ThreadsAssumption`, `StaffSyncAssumption`,
`SanctionsAssumption`; the proof about `AccountMerge` needs none). `BusProofs`,
`RatingProofs` and `ReportsProofs` each extend two components that share a part
of the system but no variable: the bus, the ladder, and what comes to a case.
Nothing is said of the two together, and the names of the second are its own
(`SyncSpec`, `MergeSpec`, `SanctionsSpec`).

- `CaseActionsProofs`: `TypeCorrect`, `EffectSafe`, `DecisionSafe`. The
  invariant `IInv` adds to the properties what makes them inductive: the guard
  is that of the latest attempt (`GuardIsLatest`); what a coroutine read is
  true as long as the revision it read is the case's (`ReadIsCurrent`); an
  attempt has its audit record exactly after its effect (`AuditedAfter`).
  `MoveStep`, `WriteStep` and `OutsideStep` say once what a step that moves one
  coroutine, writes the case or does neither leaves of `IInv`, and the step
  lemma takes the actions one by one.
  `Implements` says that `CaseActions` implements `CaseLifecycle` under the
  mapping of `LifecycleSpec`. Each write passed a filter on the revision, so by
  `ReadIsCurrent` it was decided on the present case; each is then one step of
  the abstract case, and everything else is a stutter.
- `BusProofs` on `StreamConsumer`: `TypeCorrect`, `DeadLettersFair`, `LogsSafe`, and
  `Implements`, that the consumer implements `StreamDelivery`. The invariant
  says where the event in hand stands at each place of the loop (`InHandOK`),
  that a batch is pending and pending is not settled (`BatchOK`), and counts
  logs and failures (`LogOK`, `CounterOK`). `CounterOK` also shows that the
  retry key may pass `MaxAttempts` by one for each interruption between the
  counting and the acknowledgement, and by no more.
- `BusProofs` on `StaffSync`: `NoSilentStaleSafe`, `PassSendsSeenSafe`,
  `SyncTypeCorrect`. That the game has the roles of Discord unless something is
  under way or failed is true of the present only, so the invariant follows the
  roles to the game: what the pass has read of a member holds until the
  member's version moves or a change is about to move it (`SnapshotOK`); what a
  request asks for is what the member has, unless a change is still coming,
  something failed for the member, or the request is the removal of somebody
  who left (`AskedOK`); a request still in the stream is the one in hand
  or was given up, and then its member is on record as failed (`InboxOK`); and
  when the stream is empty the game has what was asked (`DeliveredOK`). The
  lock belongs to one handler or to the pass, and to the pass only for a member
  it has read and not yet dealt with (`LockOK`), which is also why what it sends
  are roles the member had while it ran.
- `RatingProofs` on `Seasons`: `ChangedOnceSafe`. A silent server keeps a request as long as
  it likes, so the invariant is about every request still under way: all those
  of one command ask the same thing with the same id (`AskedOK`), the
  administrator goes on with no other operation (`AdminOK`), and once the
  command has changed the season none of them can change it again (`Spent`: its
  id was seen, or the prizes are not owed any more). A command not yet given has
  changed nothing (`NotYetGiven`).
  `ToldOnceSafe`: a claim that nobody gave back stands for a post or for a dead
  poster (`Explained`), and whoever posts holds the claim of the news
  (`Holding`), so an event acknowledged as somebody else's was announced or left
  (`Acknowledged`). A post counts as announced while its row says so or its
  handler is about to say so (`Counted`, `Recording`); as a row has one key, two
  copies of the same news are not both announced (`OneCounts`). That the key
  identifies the news (`NewsByKey`) needs seasons to begin and end once
  (`LogOK`).
- `RatingProofs` on `AccountMerge`: `MergeIsWholeSafe`, about the one step that
  commits. The documents a transaction read may be old by then, so the
  invariant says what of them is still to be relied on: the two accounts of a
  command differ from its preview on, and what a transaction that has not been
  turned back read was open and away (`ViewsOK`). The commit compares the
  documents with what was read, hence the sums and links it writes are those of
  the moment; the ban that goes on is one the transaction found. PIDs stay apart
  (`PidsDiffer`), as a merge keeps both or changes them over, but only because
  the two accounts differ.
- `CaseClosingProofs`: `TypeCorrect`, `OneThreadSafe`. A thread is made only for
  a case without one on record and nobody records one meanwhile
  (`MakesForNone`), because whoever works on the closing holds the case closed
  (`Working`); what an earlier attempt made is then adopted, so all living
  threads are the same one (`AtMostOne`).
  `RepeatsAreAccountedSafe`: the count of messages is no invariant alone, for a
  mishap comes before the repeat it causes. A message that may still be
  repeated, since its receipt is missing or will be overwritten (`Lacks`), must
  have been paid for in advance (`Accounted`): by a crash, by a failed call, or
  by a dead thread of which no deletion event is under way any more (`Spent`).
  Each deletion event pays once, for it is about a dead thread of its own
  (`Deletions`); a failed call pays at the moment it fails, also when the
  message went out with its answer lost (`FaultRepeat`), so the receipt that
  is then missing is paid for.
  `DoneIsPostedSafe`: as long as no thread was deleted, failed calls do no
  harm, for the thread on record is never replaced (`Whole`). Otherwise,
  without failed calls, a receipt for the thread, a told or a done case each
  mean that the verdict is in the thread on record (`ReceiptHolds`), while a
  thread is being replaced nothing says so (`MakingOK`), and no deletion
  handler ever writes such a receipt back (`ForgetDrops`). What `finish_close`
  read before its calls stays true of the thread it is about (`TellingOK`),
  and a thread that lost its welcome is dead (`Settled`).
- `MapSubmissionsProofs`: `NoBlindRetrySafe`, `InstalledAsReviewedSafe`. The
  case remembers a doubt as long as the bot has one, and about the last attempt
  only (`Unsettled`). Accept does not claim over a doubt; the one writer that
  could wipe it out, an inspection of another file, writes at a revision that
  had neither action nor doubt (`FetchOK`). What the action knows of its upload
  at each place is `ActionOK`; a stamp identifies the file reviewed (`FormOK`);
  and what is on record or accepted was answered as installed (`OnRecord`,
  `AcceptedOK`), so the recovery closes only what is installed.
  `BadgeReachesAllSafe`: the accounts a pass started with, less those ahead of
  it and the one in hand, own the badge and were told, unless the pass has
  missed one (`Served`); it goes on to the role and the record only if none was
  missed and the last look found the links it started with.
- `ReportsProofs` on `CaseIntake`: `FiledOnceSafe`, `OpenCapSafe`. Only the
  handler of a submission stores it, and between its lookup and its write the submission is in no case
  (`NotFiledYet`); it joins the case it has read (`NumberOK`), and the one that
  opened a case does not join it (`JoinedOrOrigin`). For the cap, the lock of a
  reporter has one holder (`OneHolder`), and a holder that has passed
  `_check_limits` finds the count below the cap until it has written
  (`BelowCap`): others who write meanwhile write for somebody else, and a
  reopening past the cap is not counted.
- `ReportsProofs` on `Sanctions`: `ChosenSanctionSafe`, `ObservedAnswersSafe`,
  `AppealTouchesItsOwnSafe`. A lookup by player or address finds the bans of
  several players, and rows come and go between any two steps, so what holds an
  appeal together is the number: it is given to the bans of one player only
  (`RowsOK`) and, as the counter only grows, never again. A number checked by
  the submission is therefore a number of its player for ever (`Owned`), in the
  form, in the case and in the row the action holds (`AppealOK`), whether or not
  a ban with that number is still there; `Kept` says once what the store may do
  to the rows, and every step that writes them is shown to do that. The write
  finds by the number, so it touches a ban of the subject of the case, and by
  the expiry, so it only ends it sooner; a mute is found by its expiry.
  For the observed sanctions, an event with a time has its record in the audit
  trail (`StreamOK`), and what a handler or the repair pass holds was true of
  the case at the revision it read, and its record is in the trail since then
  (`HookOK`): whoever closes or reopens the case raises the revision, and then
  it is not closed with what was read. `FlowOK` says which
  of the submission, the action and the handlers can be under way together.
- `ReportAdmissionProofs`: `OneVerdictSafe`, `CooldownHeldSafe`. A verdict that
  was given is on record or still in the row (`Kept`), where both agree
  (`Agree`): a write that can still replace the row, in time or late, is of a
  submission without a verdict and replaces one that is on record (`MayOwn`),
  and a record that appears behind the handler's look at it is what the handler
  then reads in the row (`NotLost`). For the cooldown the invariant says what
  every write at the present revision makes of it (`TakesOK`), that an admission
  in sight has its cooldown in the row (`TakenOK`), and that its holder has a
  verdict (`HolderOK`), so a submission being judged never takes its own.
- `PrivateThreadsProofs`: `NoSharedThreadSafe`, `MembersAreRecordedSafe`,
  `SubjectStaysOutSafe`, `HistoryOfSubjectSafe`. Who is in a thread says nothing
  about a thread that nobody has on record, so the invariant says that such a
  thread is empty or gone (`Membership`): a record is lost only when its thread
  is. A pass works from what it read, and that still holds of the threads that
  exist when it writes: of the thread it is about to record (`Making`), of those
  whose invitations it goes through (`Inviting`), of the rows it writes back
  (`RowsRead`) and of the row in hand (`Invitation`). The handlers of deletions
  are the exception, for they write without the projection lock; `Forgetting`
  says what their reads are worth, and `torn` marks the histories in which one
  stores rows over what it had not read. That the subject of a complaint is not
  added needs no such exception (`Inviting`), nor does the history, where
  everything that is not owed is there.

The assumptions say little more than that the bounds are numbers and that the
names differ; no bound is given a value, so the theorems hold for every number of presses,
threads, events, faults and changes. What each invariant says was first checked
by TLC on the instance of its run.

Every safety property a run checks is a theorem, and so are both refinements,
of `CaseLifecycle` and of `StreamDelivery`. What stays with TLC is liveness,
which is beyond the prover: that guards are freed and cases close, that
submissions and observed sanctions are answered, that threads, merges and roles
come right in the end.

## 7. Disagreements with the documentation

Each is a property that is defined in its module, outside the runs because it
does not hold. To see the trace, put it in the `.cfg` named, in place of the
properties there.

1. `ReleasedWithoutEvidence` (`CaseActions_live.cfg`): the docstring of `run`
   (`cases/actions.py:98`) says that a failed attempt whose completion is
   audited closes the case. When the recovery loses its write to a merged
   reporter (`actions.py:330`), the guard is given back and the case stays open
   until the next repair pass; staff may act on it before that.
2. `ReceiptsSurvive` (`CaseClosing.cfg`): `cases/README.md:140` says that
   successful receipts survive a missing thread. `thread_deleted`
   (`cases/service.py:753`) stores a whole array that it computed from an
   earlier read; a receipt recorded in between is lost and its message sent
   again.
3. `DoneIsMessaged` (`CaseClosing.cfg`): `cases/README.md:377` says that each
   message is sent once. A thread deletion that overlaps a reopening restores
   the receipts of the earlier decision; the next one is not sent.
4. `DoneIsNoticed` (`CaseClosing.cfg`): the comment at `cases/service.py:682`
   says that a reopening frees the notice ids. The bot dies in `reopen` before
   that; nothing repeats it and the next decision keeps the earlier row.
5. `NeverAdoptsOwned` (`PrivateThreads.cfg`, with two deletions): a comment at
   `cases/threads.py:255` says that a thread that belongs to somebody is never
   adopted. A `thread_deleted` that read the case before the replacement of its
   thread was stored clears the new record; the replacement is then an orphan,
   which the next pass may give to the other reporter.
6. `NotSwallowed` (`Seasons.cfg`): `handlers_seasons.py:1` and
   `rating_store.py:352` promise one post for each event and that a claim left
   without a message is taken over. An event comes again after 15 s
   (`RECLAIM_MIN_IDLE`), a claim is stale after five minutes: when the bot dies
   with a claim, or gets no answer to it or to its release, the event is acknowledged as somebody else's before anybody
   could take the claim over.
7. `WhoeverTakesIsAdded` (`PrivateThreads.cfg`): `cases/README.md:132` says
   that whoever takes the case is added to every thread.
   `reconcile_memberships` removes a person (`cases/threads.py:438`) before it
   stores the row without them (line 446). When the pass fails in between, the
   row still has them with `done`; if they take the case again before a pass
   has corrected the row, it is taken for an invitation already made
   (`complete`, line 429) and they are never added. Taking, releasing and
   taking again with one fault is enough, and the bounds of the run allow it:
   `severed` holds such people, and `EventuallyPrivate` excepts them. So it
   does an opener who was named as the subject of their own complaint by
   mistake: they are removed, and `exclude_subject` is never undone.

2 and 3 have one cause: arrays are computed from a read that the
compare-and-set of `checkpoint` does not cover, since `checkpoint` reads again.
`_ensure_private_threads` has it as well: after a failed welcome it can restore
a thread receipt that a deletion has just dropped, and the new thread never
gets the outcome. `DoneIsPosted` leaves histories with a failed call and a
deletion out, and the histories of 5 are marked by `torn` in `PrivateThreads`.

Where no document promises otherwise, the models also show that

- standings follow a chain of merges into a closed account when the first
  rating merge is still queued (`NoneLeftBehind` of `AccountMerge`);
- a death between the committed merge of accounts and the rating merge, or a
  write of the queue that fails after the servers did not answer
  (`rating_service.py:244`, `252`), leaves the standings behind, with no record
  (`excused` in `AccountMerge`);
- an author who links an account only after the 30 days of `BADGE_WINDOW`
  never gets the badge, and `pending_badge` stays set (`EventuallyBadged`
  leaves out what is later than that, `late`);
- a season change that a silent server applies late is announced after the
  administrator was told that no server answered;
- the history of the subject of a complaint that is closed meanwhile is not
  posted when the posting fails after its write (`EventuallyShown` leaves
  closed cases out).

## 8. Model-checked only, and not modelled

- Guards and audit records from before tokens existed (`legacy_guard`), several
  recipients of an outcome, the texts, and the locale choice.
- Of time only what a property needs: an old guard, an elapsed cooldown, an
  idle event, the expiry of a sanction. Retry keys, log markers and admission
  records that expire are left out.
- Streams: trimming by `MAXLEN`, which may drop an event before it is read, and
  `_reclaim_pending` ending at a page without idle events, which postpones what
  follows it to a later pass. The other handlers are in `Sanctions`,
  `ReportAdmission` and `Seasons`, each with one event in hand.
- RPC: a request to one server whose answer is read from the cursor of the
  reply stream (`Seasons` has the cursor: earlier answers are not read). Reads
  have no effect and are left out.
- Staff sync: changing links, several accounts of a member, a configured role
  that is missing. The pass that stops because roles are switched off is the
  last alternative of `Failed`. A departure whose handler runs after the
  member has returned is excused in `NoSilentStale`, since the next pass
  corrects it; so is a member for whom a request or a fetch failed.
- Sanctions: kicks, address bans without a player, the ban list. The trail
  is searched by the number of the ban as `reconcile` does. Maps: the
  header parser (`cases/msav.py`), attached patches, the direct commands, and
  an Accept that outlives its guard, which is the matter of `CaseActions`.
  `InstalledAsReviewed` compares the review stored at the last press with what
  is sent; the card the reviewer has on the screen is redrawn after the review
  is stored and may be older.
- Intake and sanctions: `set_subject` of a report. No command of the bot
  reaches it for a report that has a key (`cogs/cases.py:155`).
- Seasons: a bot without a season channel, which acknowledges every event
  without a post (`handlers_seasons.py:91`). What the game servers do with a
  request, and which events they publish, is assumed from how the bot uses
  them, and so is that a server carries a request id out once
  (`rpc/mindustry_rpc.py:130`).
- Discord, MongoDB, Redis and the game servers are taken at their word: a
  compare-and-set is atomic, a stream keeps its order.
- The parts marked not modelled in `PROJECT.json`, with the reasons there.
  Commands, views, texts and settings keep no state worth a model.

## 9. Plan

1. An abstract specification of a private thread (exactly the authorised
   people) that `PrivateThreads` implements outside `torn` histories.
2. The presence and server registry with its timeout, under the choice of the
   servers that `Seasons` and `AccountMerge` ask.
3. Four changes in `PrivateThreads`, which cannot be checked within minutes
   today.
