---------------------------- MODULE PrivateThreads ----------------------------
(***************************************************************************)
(* The private threads of one case: cases/threads.py with the creation     *)
(* steps of cases/service.py.                                              *)
(*                                                                         *)
(* A report has a thread for its opener and one for a reporter who joined  *)
(* it from Discord; a complaint has one for its opener.  Each belongs to   *)
(* one person; the staff member who holds the case is invited to all.      *)
(*                                                                         *)
(* A pass (resume_creation or finish_close) and the projection that        *)
(* follows a staff decision run under the projection lock of the case, as  *)
(* do set_subject and reopen.  Other decisions are single writes, and      *)
(* thread_deleted of a gateway event runs beside them: it reads the case   *)
(* and later writes arrays computed from what it read.  So does            *)
(* subject_set, which collects what the subject of a complaint did to the  *)
(* opener: the query runs outside the lock, the posting under it.          *)
(***************************************************************************)
EXTENDS Naturals, FiniteSets

CONSTANTS
  Opener, Joiner,   \* the two reporters
  Staff,            \* staff members
  Subjects,         \* people whom a complaint may name, of all of these
  None,
  MaxThreads, MaxSelections, MaxChanges, MaxDeletions, MaxFaults,
  MaxTrouble        \* bounds: of each kind, and of all together

ASSUME ThreadsAssumption ==
  /\ Opener # Joiner /\ {Opener, Joiner} \intersect Staff = {}
  /\ None \notin Staff \union {Opener, Joiner}
  /\ Subjects \subseteq Staff \union {Opener, Joiner}
  /\ {MaxThreads, MaxSelections, MaxChanges, MaxDeletions, MaxFaults, MaxTrouble}
       \subseteq Nat

VARIABLES
  kind,      \* "report" or "complaint"
  case,      \* status, assignee, subject and whether the joiner is in it
  own,       \* the record of each reporter's thread
  managed,   \* managed_memberships: the invitations recorded for a thread
  made,      \* Discord: threads 1..made have been created
  living,    \* Discord: threads that exist
  members,   \* Discord: who has been added to a thread
  severed,   \* history: who was removed or kept out, not on record
  authorised,\* staff members whose roles allow the case
  evidence,  \* the selection of the subject, whose history is stored, if it is owed
  study,     \* subject_set, for each selection
  posted,    \* selections whose history staff have been shown
  job,       \* the coroutine that holds the projection lock
  due,       \* a projection waits for the lock
  forget,    \* thread_deleted of gateway events, by thread
  torn,      \* history: such a handler overwrote what it had not read
  changes, deletions, faults

vars == <<kind, case, own, managed, made, living, members, severed, authorised,
          evidence, study, posted, job, due, forget, torn, changes, deletions, faults>>
document == <<case, own, managed>>
membership == <<members, severed>>
discord == <<made, living, members, severed>>
inquiry == <<evidence, study, posted>>
bounds == <<kind, authorised, inquiry, changes, deletions>>

Owners == {Opener, Joiner}
Thread == 1..MaxThreads
Selection == 1..MaxSelections

NoThread == 0
NotOwned == [tried |-> FALSE, thread |-> NoThread, done |-> FALSE]
NoRow == [there |-> FALSE, staff |-> {}, done |-> FALSE]
Row(staff, done) == [there |-> TRUE, staff |-> staff, done |-> done]
Unlocked == [at |-> "unlocked", closing |-> FALSE, person |-> None,
             thread |-> NoThread,
             adopt |-> FALSE, failed |-> FALSE, staff |-> None,
             fresh |-> FALSE, recorded |-> {},
             todo |-> {}, threads |-> [p \in Owners |-> NoThread],
             rows |-> [t \in Thread |-> NoRow]]
NoEvent == [at |-> "none", row |-> NotOwned, rows |-> [t \in Thread |-> NoRow],
            mine |-> None]

Init ==
  /\ kind \in {"report", "complaint"}
  /\ case = [status |-> "open", holder |-> None, subject |-> None,
             joined |-> FALSE]
  /\ own = [p \in Owners |-> NotOwned]
  /\ managed = [t \in Thread |-> NoRow]
  /\ made = 0 /\ living = {} /\ members = [t \in Thread |-> {}]
  /\ severed = {}
  /\ authorised = Staff
  /\ evidence = [selection |-> 0, history |-> 0, owed |-> FALSE]
  /\ study = [n \in Selection |-> "none"] /\ posted = {}
  /\ job = Unlocked
  /\ due = FALSE
  /\ forget = [t \in Thread |-> NoEvent]
  /\ torn = FALSE
  /\ changes = 0 /\ deletions = 0 /\ faults = 0

-----------------------------------------------------------------------------
(* Helpers *)

ThreadOf(p) == own[p].thread
Recorded == {ThreadOf(p) : p \in Owners} \ {NoThread}
Present == {Opener} \union IF case.joined THEN {Joiner} ELSE {}

(* Mutant: an attempt on record counts as a thread, finished or not. *)
OwesRow(p) == p \in Present /\ ~own[p].tried

Owes(p) == p \in Present /\ ~own[p].done

(* conflicted: a reporter of a report and the subject of a complaint. *)
Conflicted(p) ==
  IF kind = "report" THEN p \in Present \union {case.subject}
  ELSE p = case.subject

(* check_access for the verb "take". *)
MayHold(s) == s \in authorised /\ ~Conflicted(s)

At(place) == job.at = place
Goto(place) == job' = [job EXCEPT !.at = place]
Bounded == changes + deletions + faults < MaxTrouble
Fault == Bounded /\ faults < MaxFaults /\ faults' = faults + 1
NoFault == UNCHANGED faults

(* Only a closing goes on to the memberships after a failure. *)
Ensured(failed) ==
  job' = IF failed /\ ~job.closing THEN Unlocked
         ELSE [Unlocked EXCEPT !.at = "exclude"]

(* After the thread of a person, done or failed, the next one. *)
NextPerson(failed) ==
  IF job.person = Opener
    THEN job' = [Unlocked EXCEPT !.at = "joiner", !.closing = job.closing,
                                 !.failed = failed]
    ELSE Ensured(failed)

-----------------------------------------------------------------------------
(* The pass: validate_private_threads, then _ensure_private_threads *)

Study(n, place) == study' = [study EXCEPT ![n] = place]

(* Mutant: only for a history that is owed. *)
ReconcileOwed ==
  LET n == evidence.selection IN
  IF kind = "complaint" /\ case.subject # None /\ study[n] = "none" /\ evidence.owed
    THEN Study(n, "query") ELSE UNCHANGED study

(* reconcile of the flow follows a pass of the repair: for a history that is
   owed, or an open case. *)
Reconcile ==
  LET n == evidence.selection IN
  IF /\ kind = "complaint" /\ case.subject # None /\ study[n] = "none"
     /\ evidence.owed \/ case.status # "closed"
    THEN Study(n, "query") ELSE UNCHANGED study

(* finish_close of a closed case, resume_creation of any other. *)
Begin ==
  /\ At("unlocked")
  /\ job' = [job EXCEPT !.at = "validate", !.closing = case.status = "closed"]
  /\ Reconcile
  /\ UNCHANGED <<document, discord, kind, authorised, evidence, posted, changes,
                 deletions, due, forget, torn, faults>>

(* thread_deleted: a joiner's row goes, the opener's attempt is remembered. *)
Forgotten(p) ==
  IF p = Joiner THEN NotOwned
  ELSE [own[Opener] EXCEPT !.thread = NoThread, !.done = FALSE]

ForgetMissing(p) ==
  /\ At("validate")
  /\ ThreadOf(p) # NoThread /\ ThreadOf(p) \notin living
  /\ own' = [own EXCEPT ![p] = Forgotten(p)]
  /\ managed' = [managed EXCEPT ![ThreadOf(p)] = NoRow]
  /\ UNCHANGED <<case, discord, bounds, job, due, forget, torn, faults>>

(* The case is read, and whom it owes a thread.  A lookup that fails, of any
   thread, ends the creation of a case; a closing goes on. *)
Validated ==
  /\ At("validate")
  /\ \/ /\ Recorded \subseteq living /\ NoFault
        /\ Goto(IF Owes(Opener) THEN "opener" ELSE "joiner")
     \/ /\ Recorded # {} /\ Fault
        /\ job' = IF job.closing THEN [job EXCEPT !.at = "opener", !.failed = TRUE]
                  ELSE Unlocked
  /\ UNCHANGED <<document, discord, bounds, due, forget, torn>>

(* The case is read and the attempt recorded first; only a later attempt
   looks for a thread. *)
Attempt(p) ==
  /\ At(IF p = Opener THEN "opener" ELSE "joiner")
  /\ IF Owes(p)
       THEN /\ own' = [own EXCEPT ![p].tried = TRUE]
            /\ job' = [job EXCEPT !.at = "make", !.person = p,
                         !.adopt = own[p].tried, !.thread = ThreadOf(p),
                         !.fresh = ThreadOf(p) = NoThread,
                         !.recorded = Recorded,
                         !.rows = managed]
       ELSE /\ IF p = Opener THEN Goto("joiner") ELSE Ensured(job.failed)
            /\ UNCHANGED own
  /\ UNCHANGED <<case, managed, discord, bounds, due, forget, torn, faults>>

(* Mutant: any thread of the case is adopted. *)
OrphansAll == living

Orphans == living \ job.recorded

Create ==
  /\ made < MaxThreads
  /\ made' = made + 1
  /\ living' = living \union {made + 1}
  /\ UNCHANGED membership

(* _private_thread: the recorded one, an orphan, or a new one, whose
   acknowledgement may be lost. *)
Make ==
  /\ At("make")
  /\ \/ /\ job.thread # NoThread
        /\ IF job.thread \in living THEN Goto("save") ELSE NextPerson(TRUE)
        /\ UNCHANGED discord /\ NoFault
     \/ /\ job.thread = NoThread
        /\ IF job.adopt /\ Orphans # {}
             THEN /\ \E t \in Orphans :
                       job' = [job EXCEPT !.at = "save", !.thread = t]
                  /\ UNCHANGED discord /\ NoFault
             ELSE /\ Create
                  /\ \/ /\ job' = [job EXCEPT !.at = "save", !.thread = made + 1]
                        /\ NoFault
                     \/ Fault /\ NextPerson(TRUE)
  /\ UNCHANGED <<document, bounds, due, forget, torn>>

(* The id, with an empty set of invitations for a thread that has none: for
   the opener beside the rows read with the case, for a joiner beside the
   stored ones. *)
Save ==
  LET t == job.thread
      rows == IF job.person = Opener THEN job.rows ELSE managed IN
  /\ At("save")
  /\ own' = [own EXCEPT ![job.person].thread = t]
  /\ managed' = IF job.fresh /\ ~rows[t].there
                  THEN [rows EXCEPT ![t] = Row({}, TRUE)] ELSE managed
  /\ Goto("welcome")
  /\ UNCHANGED <<case, discord, bounds, due, forget, torn, faults>>

Add(t, p) ==
  /\ members' = [members EXCEPT ![t] = @ \union {p}]
  /\ severed' = severed \ {<<t, p>>}

Remove(t, people) ==
  /\ members' = [members EXCEPT ![t] = @ \ people]
  /\ severed' = severed \union {<<t, p>> : p \in people \intersect members[t]}

Welcome ==
  LET p == job.person IN
  /\ At("welcome")
  /\ IF job.thread \notin living
       THEN NextPerson(TRUE) /\ UNCHANGED membership /\ NoFault
       ELSE /\ IF kind = "complaint" /\ Conflicted(p)
                 THEN severed' = severed \union {<<job.thread, p>>} /\ UNCHANGED members
               ELSE Add(job.thread, p)
            /\ \/ Goto("finish") /\ NoFault
               \/ Fault /\ NextPerson(TRUE)
  /\ UNCHANGED <<document, made, living, bounds, due, forget, torn>>

Finish ==
  /\ At("finish")
  /\ own' = [own EXCEPT ![job.person] = [tried |-> TRUE, thread |-> job.thread,
                                         done |-> TRUE]]
  /\ NextPerson(job.failed)
  /\ UNCHANGED <<case, managed, discord, bounds, due, forget, torn, faults>>

-----------------------------------------------------------------------------
(* reconcile_memberships, alone in a projection *)

Project ==
  /\ At("unlocked") /\ due
  /\ due' = FALSE
  /\ Goto("exclude")
  /\ UNCHANGED <<document, discord, bounds, forget, torn, faults>>

(* exclude_subject, and the authorisation of the assignee as now stored: one
   who may not hold the case, or cannot be looked up, is not invited. *)
Exclude ==
  /\ At("exclude")
  /\ IF kind = "complaint" /\ case.subject # None /\ ThreadOf(Opener) # NoThread
       THEN IF ThreadOf(Opener) \in living
              THEN Remove(ThreadOf(Opener), {case.subject}) /\ Goto("staff")
              ELSE job' = Unlocked /\ UNCHANGED membership
       ELSE Goto("staff") /\ UNCHANGED membership
  /\ UNCHANGED <<document, made, living, bounds, due, forget, torn, faults>>

Authorise ==
  LET holder == IF case.status = "open" THEN None ELSE case.holder
      todo == {p \in Owners : ThreadOf(p) # NoThread} IN
  /\ At("staff")
  /\ IF todo = {} THEN job' = Unlocked /\ NoFault
     ELSE \E fails \in BOOLEAN :
       /\ IF fails THEN holder # None /\ Fault ELSE NoFault
       /\ job' = [job EXCEPT !.at = "thread",
            !.staff = IF ~fails /\ holder # None /\ MayHold(holder)
                        THEN holder ELSE None,
            !.todo = todo,
            !.threads = [p \in Owners |-> ThreadOf(p)]]
  /\ UNCHANGED <<document, discord, bounds, due, forget, torn>>

Wanted(p) == {job.staff} \ {None, p}
Skip(p) ==
  job' = IF job.todo = {p} THEN Unlocked
         ELSE [job EXCEPT !.at = "thread", !.todo = @ \ {p}, !.person = None,
                          !.rows = [t \in Thread |-> NoRow]]

(* One thread after the other, the opener's first: its row is read with the
   others. *)
ReadRows(p) ==
  /\ At("thread") /\ p \in job.todo /\ (p = Joiner => Opener \notin job.todo)
  /\ IF job.threads[p] \in living
       THEN job' = [job EXCEPT !.at = "remove", !.person = p, !.rows = managed]
       ELSE Skip(p)
  /\ UNCHANGED <<document, discord, bounds, due, forget, torn, faults>>

RemoveOld ==
  LET p == job.person  t == job.threads[p]
      old == job.rows[t].staff \ (Wanted(p) \union {p}) IN
  /\ At("remove")
  /\ IF t \notin living THEN Skip(p) /\ UNCHANGED membership /\ NoFault
     ELSE /\ Remove(t, old)
          /\ \/ Goto("intend") /\ NoFault
             \/ Fault /\ old # {} /\ Skip(p)
  /\ UNCHANGED <<document, made, living, bounds, due, forget, torn>>

Complete(p) ==
  LET row == job.rows[job.threads[p]] IN
  row.there /\ row.done /\ row.staff = Wanted(p)

(* Mutant: the intention is stored after the invitation. *)
IntendLater ==
  LET p == job.person IN
  /\ At("intend")
  /\ IF Complete(p) \/ Wanted(p) = {} THEN Skip(p) ELSE Goto("add")
  /\ UNCHANGED <<document, discord, bounds, due, forget, torn, faults>>

(* Stored before the invitation, with the other rows as they were read; a
   row that is as it should be is not stored.  What was removed is on record
   now. *)
Intend ==
  LET p == job.person  t == job.threads[p]
      row == Row(Wanted(p), Complete(p) \/ Wanted(p) = {}) IN
  /\ At("intend")
  /\ IF job.rows[t] = row THEN UNCHANGED <<managed, severed>>
     ELSE /\ managed' = [job.rows EXCEPT ![t] = row]
          /\ severed' = severed \ ({t} \X Staff)
  /\ IF Complete(p) \/ Wanted(p) = {} THEN Skip(p) ELSE Goto("add")
  /\ UNCHANGED <<case, own, made, living, members, bounds, due, forget, torn,
                 faults>>

Invite ==
  LET p == job.person  t == job.threads[p] IN
  /\ At("add")
  /\ IF t \notin living THEN Skip(p) /\ UNCHANGED membership /\ NoFault
     ELSE /\ Add(t, job.staff)
          /\ \/ Goto("added") /\ NoFault
             \/ Fault /\ Skip(p)
  /\ UNCHANGED <<document, made, living, bounds, due, forget, torn>>

Invited ==
  LET p == job.person IN
  /\ At("added")
  /\ managed' = [managed EXCEPT ![job.threads[p]] = Row(Wanted(p), TRUE)]
  /\ Skip(p)
  /\ UNCHANGED <<case, own, discord, bounds, due, forget, torn, faults>>

-----------------------------------------------------------------------------
(* Decisions *)

Change ==
  /\ Bounded /\ changes < MaxChanges
  /\ changes' = changes + 1
  /\ UNCHANGED <<kind, own, managed, made, living, deletions, forget, torn,
                 faults>>

Take(s) ==
  /\ case.status = "open" /\ MayHold(s)
  /\ case' = [case EXCEPT !.status = "taken", !.holder = s]
  /\ due' = TRUE
  /\ UNCHANGED <<membership, authorised, inquiry, job>>

Release ==
  /\ case.status = "taken"
  /\ case' = [case EXCEPT !.status = "open", !.holder = None]
  /\ due' = TRUE
  /\ UNCHANGED <<membership, authorised, inquiry, job>>

(* By a staff member, whom an open case gets as its assignee, or, a report, by
   an observed sanction. *)
Close(s) ==
  /\ case.status # "closed"
  /\ IF s = None THEN kind = "report" ELSE MayHold(s)
  /\ case' = [case EXCEPT !.status = "closed",
                         !.holder = IF @ = None THEN s ELSE @]
  /\ UNCHANGED <<membership, authorised, inquiry, job, due>>

Reopen ==
  /\ At("unlocked")
  /\ case.status = "closed"
  /\ case' = [case EXCEPT !.status = "open", !.holder = None]
  /\ UNCHANGED <<membership, authorised, inquiry, job, due>>

Join ==
  /\ kind = "report" /\ ~case.joined /\ case.status # "closed"
  /\ case' = [case EXCEPT !.joined = TRUE]
  /\ UNCHANGED <<membership, authorised, inquiry, job, due>>

LoseOrGainRole(s) ==
  /\ authorised' = IF s \in authorised THEN authorised \ {s}
                   ELSE authorised \union {s}
  /\ UNCHANGED <<case, membership, inquiry, job, due>>

(* The subject, the same again or another, does not hold the case on, and the
   new selection owes its history. *)
Accuse(s) ==
  /\ evidence.selection < MaxSelections
  /\ case' = [case EXCEPT !.subject = s,
                !.status = IF case.holder = s THEN "open" ELSE @,
                !.holder = IF case.holder = s THEN None ELSE @]
  /\ evidence' = [evidence EXCEPT !.selection = @ + 1, !.owed = TRUE]
  /\ UNCHANGED posted

(* Mutant: the subject is stored without the projection lock. *)
SetSubjectUnlocked(s) ==
  /\ kind = "complaint" /\ case.status # "closed"
  /\ Accuse(s)
  /\ due' = TRUE
  /\ UNCHANGED <<membership, authorised, study, job>>

(* set_subject of a complaint keeps the lock until the subject is removed, or
   that has failed. *)
SetSubject(s) ==
  /\ At("unlocked")
  /\ kind = "complaint" /\ case.status # "closed"
  /\ Accuse(s)
  /\ Goto("eject")
  /\ due' = TRUE
  /\ UNCHANGED <<membership, authorised, study>>

Eject ==
  /\ At("eject")
  /\ \/ /\ IF ThreadOf(Opener) \in living
             THEN Remove(ThreadOf(Opener), {case.subject}) ELSE UNCHANGED membership
        /\ NoFault
     \/ Fault /\ UNCHANGED membership
  /\ job' = Unlocked
  /\ Study(evidence.selection, "query")
  /\ UNCHANGED <<document, made, living, kind, authorised, evidence, posted,
                 changes, deletions, due, forget, torn>>

Decide ==
  /\ Change
  /\ \/ Release \/ Reopen \/ Join
     \/ \E s \in Staff : Take(s) \/ LoseOrGainRole(s)
     \/ \E s \in Staff \union {None} : Close(s)
     \/ \E s \in Subjects : SetSubject(s)

-----------------------------------------------------------------------------
(* The history of the subject of a complaint *)

NoChange ==
  UNCHANGED <<document, discord, kind, authorised, changes, deletions, job,
              forget, torn>>

(* Mutant: nothing is compared. *)
SelectedAny(n) == TRUE

(* The selection the history was collected for is still the present one:
   another that names the same subject owns its own evidence. *)
Selected(n) == evidence.selection = n

(* The write is tried again on another revision, after the same check; it may
   fail, or find an action under way. *)
StoreHistory(n) ==
  /\ study[n] = "query"
  /\ \/ /\ IF Selected(n)
             THEN /\ evidence' = [evidence EXCEPT !.history = n, !.owed = FALSE]
                  /\ Study(n, "post")
             ELSE Study(n, "none") /\ UNCHANGED evidence
        /\ NoFault
     \/ Fault /\ Study(n, "none") /\ UNCHANGED evidence
  /\ UNCHANGED <<posted, due>> /\ NoChange

(* Under the lock, read again. *)
PostHistory(n) ==
  /\ study[n] = "post" /\ At("unlocked")
  /\ Study(n, "none")
  /\ \/ /\ posted' = IF Selected(n) THEN posted \union {n} ELSE posted
        /\ NoFault
     \/ Fault /\ UNCHANGED posted
  /\ UNCHANGED <<evidence, due>> /\ NoChange

-----------------------------------------------------------------------------
(* Deletions, outside the lock, and crashes *)

Delete(t) ==
  /\ Bounded /\ deletions < MaxDeletions
  /\ t \in living
  /\ deletions' = deletions + 1
  /\ living' = living \ {t}
  /\ members' = [members EXCEPT ![t] = {}]
  /\ severed' = {x \in severed : x[1] # t}
  /\ \/ forget' = [forget EXCEPT ![t].at = "event"]
     \/ UNCHANGED forget
  /\ UNCHANGED <<kind, document, made, authorised, inquiry, job, due, torn,
                 changes, faults>>

ForgetRead(t) ==
  /\ forget[t].at = "event"
  /\ IF \E p \in Owners : ThreadOf(p) = t
       THEN \E p \in Owners :
              /\ ThreadOf(p) = t
              /\ forget' = [forget EXCEPT ![t] = [at |-> "read", mine |-> p,
                              row |-> own[Joiner], rows |-> managed]]
       ELSE forget' = [forget EXCEPT ![t] = NoEvent]
  /\ UNCHANGED <<document, discord, bounds, job, due, torn, faults>>

(* The arrays are stored as they were read, without the thread. *)
ForgetWrite(t) ==
  LET f == forget[t] IN
  /\ f.at = "read"
  /\ own' = [own EXCEPT ![f.mine] = Forgotten(f.mine)]
  /\ managed' = [f.rows EXCEPT ![t] = NoRow]
  /\ torn' = (torn \/ managed # f.rows \/ (f.mine = Joiner /\ own[Joiner] # f.row))
  /\ forget' = [forget EXCEPT ![t] = NoEvent]
  /\ UNCHANGED <<case, discord, bounds, job, due, faults>>

Crash ==
  /\ \/ ~At("unlocked") \/ due
     \/ \E t \in Thread : forget[t].at # "none"
     \/ \E n \in Selection : study[n] # "none"
  /\ Fault
  /\ job' = Unlocked
  /\ due' = FALSE
  /\ forget' = [t \in Thread |-> NoEvent]
  /\ study' = [n \in Selection |-> "none"]
  /\ UNCHANGED <<document, discord, kind, authorised, evidence, posted, changes,
                 deletions, torn>>

-----------------------------------------------------------------------------
Pass ==
  \/ Begin \/ Validated \/ Make \/ Save \/ Welcome \/ Finish
  \/ Exclude \/ Authorise \/ RemoveOld \/ Intend \/ Invite \/ Invited \/ Eject
  \/ \E p \in Owners : ForgetMissing(p) \/ Attempt(p) \/ ReadRows(p)

Store == \E n \in Selection : StoreHistory(n)
Post == \E n \in Selection : PostHistory(n)
Inquire == Store \/ Post
Forget == \E t \in Thread : ForgetRead(t) \/ ForgetWrite(t)

Next ==
  \/ Pass \/ Project \/ Decide \/ Inquire \/ Forget \/ Crash
  \/ \E t \in Thread : Delete(t)

(* The event loop runs every coroutine that is ready, the repair task comes
   again, and the projection lock is handed on in the order it is asked for. *)
Fairness == WF_vars(Pass) /\ WF_vars(Store) /\ SF_vars(Post) /\ WF_vars(Forget)

Spec == Init /\ [][Next]_vars /\ Fairness

-----------------------------------------------------------------------------
(* Properties *)

(* Nobody's thread shows another person's messages: two reporters are never
   in one thread, unless a deletion handler overwrote the record of one. *)
SharedThread ==
  \E t \in living : Opener \in members[t] /\ Joiner \in members[t]
NoSharedThread == ~torn => ~SharedThread

(* Whoever is in a thread besides its owner is in its stored invitations, so
   that a later pass can remove them, also after a lost acknowledgement or a
   crash. *)
MembersAreRecorded ==
  ~torn => \A p \in Owners :
    ThreadOf(p) \in living =>
      members[ThreadOf(p)] \subseteq {p} \union managed[ThreadOf(p)].staff

(* The present subject of a complaint is never invited, although assignee,
   subject and invitation are read and written in separate steps. *)
SubjectStaysOut ==
  [][\A t \in Thread : kind = "complaint" =>
       case.subject \notin members'[t] \ members[t]]_vars

(* Staff are shown what the present subject did, never the history of an
   earlier selection, though subjects change while it is collected, stored and
   posted; and a stored history that is not marked as owed is that of the
   present subject. *)
HistoryOfSubject ==
  [][/\ posted' \ posted \subseteq {evidence.selection}
     /\ ~evidence'.owed => evidence'.history = evidence'.selection]_vars

(* When the changes end, nobody but the authorised people is in a thread, its
   owner and the assignee who may hold the case, and each of them is: also when
   an invitation failed, was not acknowledged or was overtaken by another
   decision.  Two exceptions: torn histories, and a person whom a pass removed
   from the thread and did not get to record, for a row that still has them is
   taken for an invitation (reconcile_memberships); an opener whom a complaint
   named for a while is never added again either. *)
Allowed(p) ==
  ({p} \union IF case.status # "open" /\ case.holder # None /\ MayHold(case.holder)
                THEN {case.holder} ELSE {})
    \ (IF kind = "complaint" THEN {case.subject} ELSE {})
EventuallyPrivate ==
  <>[](torn \/ \A p \in Present : LET t == ThreadOf(p) IN
         /\ t \in living
         /\ members[t] \subseteq Allowed(p)
         /\ \A q \in Allowed(p) : q \in members[t] \/ <<t, q>> \in severed)

(* "Whoever takes the case is added to every thread" (cases/README.md). *)
WhoeverTakesIsAdded ==
  <>[](torn \/ \A p \in Present :
         ThreadOf(p) \in living => Allowed(p) \ {p} \subseteq members[ThreadOf(p)])

(* The history of the subject of an open complaint reaches the staff.  Not
   that of a closed one: a fault after the write that settles it leaves it
   unposted. *)
EventuallyShown ==
  <>[](case.subject # None /\ case.status # "closed" /\ kind = "complaint"
         => evidence.selection \in posted)

(* "a thread that already belongs to someone is never adopted"
   (_private_thread). *)
NeverAdoptsOwned == ~SharedThread
=============================================================================
