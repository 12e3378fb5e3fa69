------------------------ MODULE PrivateThreadsProofs ------------------------
(***************************************************************************)
(* The privacy of the threads of a case, for any number of staff members,  *)
(* threads, decisions, deletions and faults.  What is invariant is that a  *)
(* record is only lost once its thread is gone: then every thread that is  *)
(* not recorded is empty (Membership), and whatever a pass read of records *)
(* and invitations still holds of the threads that exist when it writes    *)
(* (Making, Inviting, RowsRead), except where a deletion handler wrote     *)
(* over what it had not read (Forgetting says when it does).               *)
(***************************************************************************)
EXTENDS PrivateThreads, TLAPS

Calm == {"unlocked", "validate", "opener", "joiner", "exclude", "staff",
         "eject"}
OwnPlaces == {"make", "save", "welcome", "finish"}
RowPlaces == {"thread", "remove", "intend", "add", "added"}

Person == Staff \union {None}
RowType == [there : BOOLEAN, staff : SUBSET Staff, done : BOOLEAN]
OwnType == [tried : BOOLEAN, thread : Nat, done : BOOLEAN]
EventType == [at : {"none", "event", "read"}, row : OwnType,
              rows : [Thread -> RowType], mine : Owners \union {None}]
JobType ==
  [at : Calm \union OwnPlaces \union RowPlaces, closing : BOOLEAN,
   person : Owners \union {None}, thread : Nat, adopt : BOOLEAN,
   failed : BOOLEAN, staff : Person, fresh : BOOLEAN, recorded : SUBSET Nat,
   todo : SUBSET Owners,
   threads : [Owners -> Nat], rows : [Thread -> RowType]]
CaseType ==
  [status : {"open", "taken", "closed"}, holder : Person,
   subject : Person \union Owners,
   joined : BOOLEAN]

TypeInv ==
  /\ case \in CaseType /\ authorised \subseteq Staff
  /\ own \in [Owners -> OwnType]
  /\ managed \in [Thread -> RowType]
  /\ made \in 0..MaxThreads /\ living \subseteq 1..made
  /\ members \in [Thread -> SUBSET (Staff \union Owners)]
  /\ job \in JobType
  /\ forget \in [Thread -> EventType]
  /\ torn \in BOOLEAN

Gone(t) == t \in 1..made /\ t \notin living

(* Each thread is recorded for one person. *)
Records ==
  /\ ThreadOf(Opener) = ThreadOf(Joiner) => ThreadOf(Opener) = NoThread
  /\ \A p \in Owners : ThreadOf(p) \in 0..made

(* The thread a pass is about to record is nobody else's, and it was not
   recorded for this person before unless it still is, or is gone. *)
Making ==
  job.at \in OwnPlaces =>
    /\ job.person \in Owners /\ job.thread \in 0..made
    /\ ThreadOf(job.person) \in {NoThread, job.thread}
    /\ \A q \in Owners \ {job.person} :
         ThreadOf(q) # NoThread => ThreadOf(q) # job.thread
    /\ job.at = "make" => /\ Recorded \subseteq job.recorded
                          /\ job.fresh = (job.thread = NoThread)
    /\ job.at # "make" => job.thread # NoThread
    /\ IF job.fresh /\ job.at \in {"make", "save"}
         THEN ThreadOf(job.person) = NoThread
         ELSE ~torn /\ job.thread \in living => ThreadOf(job.person) = job.thread

(* The threads whose invitations a pass goes through are those recorded, as
   long as they exist; and it invites nobody who is the subject. *)
Inviting ==
  job.at \in RowPlaces =>
    /\ \A p \in Owners :
         /\ job.threads[p] \in 0..made
         /\ ThreadOf(p) \in {NoThread, job.threads[p]}
         /\ ~torn /\ job.threads[p] \in living => ThreadOf(p) = job.threads[p]
    /\ job.at # "thread" => job.person \in Owners
                            /\ job.threads[job.person] \in 1..made
    /\ job.at = "add" => job.staff \in Wanted(job.person)
    /\ kind = "complaint" => job.staff \in {None} \union (Staff \ {case.subject})

(* What was read of the invitations still holds, of threads not gone. *)
RowsRead ==
  ~torn /\ job.at \in {"make", "save", "remove", "intend"} =>
    \A t \in Thread : ~Gone(t) => managed[t] = job.rows[t]

(* How far the invitations of the thread in hand are. *)
Invitation ==
  ~torn /\ job.at \in {"intend", "add", "added"} =>
    LET t == job.threads[job.person] IN
    t \in living =>
      /\ job.at = "intend" =>
           members[t] \subseteq {job.person} \union Wanted(job.person)
      /\ job.at # "intend" => managed[t].staff = Wanted(job.person)

(* A handler is about a thread that is gone.  If what it read of the
   invitations is still all there is, the thread of its owner is gone too: a
   thread recorded since is one it did not see invitations of. *)
Forgetting ==
  \A t \in Thread : LET f == forget[t] IN
    /\ f.at # "none" => Gone(t)
    /\ f.at = "read" =>
         /\ f.mine \in Owners
         /\ f.mine = Joiner => f.row.thread = t
         /\ ~torn => \A u \in Thread :
              f.rows[u].there =>
                /\ u \in Recorded \/ Gone(u)
                /\ f.mine = Opener =>
                     /\ ThreadOf(Opener) = u => u = t
                     /\ job.at \in OwnPlaces /\ job.person = Opener
                          /\ job.thread = u => u = t

(* A thread nobody has on record is empty; one that is recorded has its row,
   and nobody but its owner and those of the row is in it. *)
Membership ==
  ~torn =>
    /\ \A t \in Thread : t \in living \intersect Recorded \/ members[t] = {}
    /\ \A p \in Owners : LET t == ThreadOf(p) IN
         t \in living => /\ managed[t].there
                         /\ members[t] \subseteq {p} \union managed[t].staff
    /\ \A t \in Thread : managed[t].there => t \in Recorded \/ Gone(t)

IInv ==
  /\ TypeInv /\ Records /\ Making /\ Inviting /\ RowsRead /\ Invitation
  /\ Forgetting /\ Membership

(* What is not owed is there. *)
Settled == ~evidence.owed => evidence.history = evidence.selection

-----------------------------------------------------------------------------
(* Steps that leave the records alone *)

(* Threads are numbered in the order they are made. *)
LEMMA Numbers ==
  ASSUME TypeInv
  PROVE  /\ MaxThreads \in Nat /\ made \in Nat /\ made <= MaxThreads
         /\ 1..made \subseteq Thread /\ living \subseteq Thread
         /\ living \subseteq 1..made /\ Thread \subseteq Nat
<1>1. MaxThreads \in Nat
  BY ThreadsAssumption
<1>2. made \in Nat /\ made <= MaxThreads /\ living \subseteq 1..made
  BY <1>1 DEF TypeInv
<1> QED BY <1>1, <1>2 DEF Thread

(* Removing members changes nothing about who may be in a thread. *)
LEMMA Shrunk ==
  ASSUME IInv, UNCHANGED <<own, managed, made, living, torn>>,
         \A t \in Thread : members'[t] \subseteq members[t]
  PROVE  Membership'
<1>1. \A p \in Owners : ThreadOf(p)' \in living => ThreadOf(p)' \in Thread
  BY Numbers DEF IInv, TypeInv, ThreadOf
<1> QED BY <1>1 DEF IInv, Membership, Gone, Recorded, ThreadOf

(* Handlers may have died, but none has gone further. *)
Fewer == /\ forget' \in [Thread -> EventType]
         /\ \A t \in Thread : forget'[t] \in {forget[t], NoEvent}

(* A pass that is between two threads, or over, knows nothing. *)
LEMMA Calmed ==
  ASSUME IInv, UNCHANGED <<own, made, living, torn>>, Fewer, Membership',
         managed' \in [Thread -> RowType],
         members' \in [Thread -> SUBSET (Staff \union Owners)],
         case' \in CaseType, authorised' \subseteq Staff,
         job' \in JobType, job'.at \in Calm \union {"thread"},
         job'.at = "thread" => Inviting'
  PROVE  IInv'
<1> USE DEF IInv
<1>1. TypeInv'
  BY DEF TypeInv, Fewer
<1>2. Records'
  BY DEF Records, ThreadOf
<1>3. Making' /\ Inviting' /\ RowsRead' /\ Invitation'
  BY DEF Making, Inviting, RowsRead, Invitation, Calm, OwnPlaces, RowPlaces
<1>4. Forgetting'
  <2>1. NoEvent.at = "none"
    BY DEF NoEvent
  <2> QED
    BY <2>1 DEF Forgetting, Gone, Recorded, ThreadOf, Calm, OwnPlaces, Fewer
<1> QED BY <1>1, <1>2, <1>3, <1>4

(* A decision beside a pass, which does not change the subject. *)
LEMMA Beside ==
  ASSUME IInv,
         UNCHANGED <<kind, own, managed, discord, job, forget, torn>>,
         case' \in CaseType, case'.subject = case.subject,
         authorised' \subseteq Staff
  PROVE  IInv'
<1> USE DEF IInv, discord
<1>1. TypeInv'
  BY DEF TypeInv
<1>2. Records' /\ Making' /\ RowsRead' /\ Invitation'
  BY DEF Records, Making, RowsRead, Invitation, Gone, Recorded, ThreadOf, Wanted
<1>3. Inviting'
  BY DEF Inviting, ThreadOf, Wanted
<1>4. Forgetting' /\ Membership'
  BY DEF Forgetting, Membership, Gone, Recorded, ThreadOf
<1> QED BY <1>1, <1>2, <1>3, <1>4

(* Without the lock nothing is in hand. *)
LEMMA UnlockedIsCalm == Unlocked \in JobType /\ Unlocked.at \in Calm
<1>1. NoRow \in RowType /\ NoThread \in Nat
  BY DEF NoRow, RowType, NoThread
<1> QED BY <1>1 DEF Unlocked, JobType, Calm, Person

(* NextPerson and the other ways out of a thread. *)
LEMMA NextIsCalm ==
  ASSUME job \in JobType, NEW failed \in BOOLEAN,
         NextPerson(failed) \/ Ensured(failed)
  PROVE  job' \in JobType /\ job'.at \in Calm
<1>1. job.closing \in BOOLEAN
  BY DEF JobType
<1>2. {"joiner", "exclude"} \subseteq Calm
  BY DEF Calm
<1>3. CASE job' = Unlocked
  BY <1>3, UnlockedIsCalm
<1>4. CASE job' = [Unlocked EXCEPT !.at = "exclude"]
  BY <1>2, <1>4, UnlockedIsCalm DEF JobType
<1>5. CASE job' = [Unlocked EXCEPT !.at = "joiner", !.closing = job.closing,
                                   !.failed = failed]
  BY <1>1, <1>2, <1>5, UnlockedIsCalm DEF JobType
<1> QED BY <1>3, <1>4, <1>5 DEF NextPerson, Ensured

-----------------------------------------------------------------------------
(* The thread of a person *)

(* The attempt: what is read of records and invitations is what they are. *)
LEMMA AttemptStep ==
  ASSUME IInv, NEW p \in Owners, Attempt(p)
  PROVE  IInv'
<1> USE DEF IInv
<1>1. UNCHANGED <<case, managed, made, living, members, authorised, kind, forget, torn>>
  BY DEF Attempt, discord, bounds
<1>2. CASE UNCHANGED own /\ (Goto("joiner") \/ Ensured(job.failed))
  <2>1. job' \in JobType /\ job'.at \in Calm
    <3>1. CASE Goto("joiner")
      BY <3>1 DEF Goto, TypeInv, JobType, Calm
    <3>2. CASE Ensured(job.failed)
      BY <3>2, NextIsCalm DEF TypeInv, JobType
    <3> QED BY <1>2, <3>1, <3>2
  <2>2. Fewer /\ Membership'
    BY <1>1, <1>2, Shrunk DEF Fewer, TypeInv
  <2> QED BY <1>1, <1>2, <2>1, <2>2, Calmed DEF TypeInv, Calm
<1>3. CASE own' = [own EXCEPT ![p].tried = TRUE]
           /\ job' = [job EXCEPT !.at = "make", !.person = p, !.adopt = own[p].tried,
                        !.thread = ThreadOf(p), !.fresh = ThreadOf(p) = NoThread,
                        !.recorded = Recorded, !.rows = managed]
  <2>1. /\ own' \in [Owners -> OwnType]
        /\ \A q \in Owners : ThreadOf(q)' = ThreadOf(q)
    BY <1>3 DEF TypeInv, OwnType, ThreadOf
  <2>2. Recorded' = Recorded /\ Recorded \in SUBSET Nat
    BY <2>1 DEF Recorded, TypeInv, OwnType, ThreadOf
  <2>3. /\ job'.at = "make" /\ job'.person = p /\ job'.thread = ThreadOf(p)
        /\ job'.fresh = (ThreadOf(p) = NoThread) /\ job'.recorded = Recorded
        /\ job'.rows = managed
        /\ job' \in JobType
    <3>1. ThreadOf(p) \in Nat /\ own[p].tried \in BOOLEAN
      BY DEF TypeInv, OwnType, ThreadOf
    <3> QED BY <1>3, <2>2, <3>1 DEF TypeInv, JobType, OwnPlaces
  <2>4. TypeInv'
    BY <1>1, <2>1, <2>3 DEF TypeInv
  <2>5. Records'
    BY <1>1, <2>1 DEF Records, Owners
  <2>6. Making'
    BY <1>1, <2>1, <2>2, <2>3 DEF Making, OwnPlaces, Records, Owners
  <2>7. Inviting' /\ RowsRead' /\ Invitation'
    BY <1>1, <2>3 DEF Inviting, RowsRead, Invitation, RowPlaces, Gone
  <2>8. Forgetting'
    BY <1>1, <2>1, <2>2, <2>3 DEF Forgetting, Gone, Owners
  <2>9. Membership'
    BY <1>1, <2>1, <2>2 DEF Membership, Gone
  <2> QED BY <2>4, <2>5, <2>6, <2>7, <2>8, <2>9
<1> QED BY <1>2, <1>3 DEF Attempt

(* The thread found: the recorded one, which exists, or one that was nobody's
   when the records were read and has not been given since. *)
LEMMA FoundStep ==
  ASSUME IInv, At("make"), NEW t \in living,
         t = job.thread \/ (job.thread = NoThread /\ t \notin job.recorded),
         job' = [job EXCEPT !.at = "save", !.thread = t],
         UNCHANGED <<case, own, managed, made, living, members, authorised, kind,
                     forget, torn>>
  PROVE  IInv'
<1> USE DEF IInv
<1>1. /\ job.at = "make" /\ job'.at = "save" /\ job'.person = job.person
      /\ job'.thread = t /\ job'.fresh = job.fresh /\ job'.rows = job.rows
      /\ t \in 1..made /\ t \in Thread /\ t # NoThread /\ job' \in JobType
  <2>1. t \in 1..made /\ t \in Thread /\ t \in Nat
    BY Numbers
  <2>2. t # NoThread
    BY <2>1 DEF NoThread, Thread
  <2>3. job' \in JobType
    BY <2>1 DEF TypeInv, JobType, OwnPlaces
  <2> QED BY <2>1, <2>2, <2>3 DEF At, TypeInv, JobType
<1>2. /\ job.person \in Owners /\ Recorded \subseteq job.recorded
      /\ job.fresh = (job.thread = NoThread)
      /\ ThreadOf(job.person) \in {NoThread, job.thread}
      /\ \A q \in Owners \ {job.person} :
           ThreadOf(q) # NoThread => ThreadOf(q) # job.thread
      /\ ~job.fresh /\ ~torn /\ job.thread \in living =>
           ThreadOf(job.person) = job.thread
  BY <1>1 DEF Making, OwnPlaces
<1>3. t \in Thread /\ t # NoThread
  BY <1>1
<1>4. \A q \in Owners : ThreadOf(q) # NoThread => ThreadOf(q) \in Recorded
  BY DEF Recorded
<1>5. TypeInv' /\ Records'
  BY <1>1 DEF TypeInv, Records, ThreadOf
<1>6. Making'
  <2>1. \A q \in Owners \ {job.person} : ThreadOf(q) # NoThread => ThreadOf(q) # t
    BY <1>2, <1>4
  <2>2. job.fresh => ThreadOf(job.person) = NoThread
    BY <1>1, <1>2
  <2>3. ~job.fresh => t = job.thread
    BY <1>2
  <2> QED BY <1>1, <1>2, <1>3, <2>1, <2>2, <2>3 DEF Making, OwnPlaces, ThreadOf
<1>7. Inviting' /\ RowsRead' /\ Invitation'
  BY <1>1 DEF Inviting, RowsRead, Invitation, RowPlaces, Gone
<1>8. Forgetting'
  <2>1. ASSUME NEW u \in Thread, forget[u].at = "read", ~torn,
               forget[u].rows[t].there, forget[u].mine = Opener, job.person = Opener
        PROVE  t = u
    <3>1. t \in Recorded
      BY <1>3, <2>1 DEF Forgetting, Gone
    <3>2. t = job.thread
      BY <1>2, <3>1
    <3> QED BY <1>1, <1>3, <2>1, <3>2 DEF Forgetting, OwnPlaces
  <2> QED BY <1>1, <2>1 DEF Forgetting, Gone, Recorded, ThreadOf
<1>9. Membership'
  BY DEF Membership, Gone, Recorded, ThreadOf
<1> QED BY <1>5, <1>6, <1>7, <1>8, <1>9

(* A new thread is nobody's, and empty. *)
LEMMA CreatedStep ==
  ASSUME IInv, At("make"), job.thread = NoThread, Create,
         \/ job' = [job EXCEPT !.at = "save", !.thread = made + 1]
         \/ NextPerson(TRUE),
         UNCHANGED <<case, own, managed, authorised, kind, forget, torn>>
  PROVE  IInv'
<1> USE DEF IInv
<1> DEFINE t == made + 1
<1>1. /\ t \in Thread /\ t \notin 0..made /\ made' = t /\ made \in Nat
      /\ living' = living \union {t} /\ members' = members /\ made' \in 0..MaxThreads
      /\ living' \subseteq 1..made' /\ 0..made \subseteq 0..made'
      /\ 1..made \subseteq 1..made' /\ t # NoThread
  BY ThreadsAssumption DEF Create, Thread, TypeInv, NoThread, membership
<1>2. \A u \in Thread : Gone(u)' <=> Gone(u)
  BY <1>1 DEF Gone, TypeInv, Thread
<1> HIDE DEF t
<1>3. /\ \A q \in Owners : ThreadOf(q)' = ThreadOf(q) /\ ThreadOf(q) # t
      /\ Recorded' = Recorded /\ t \notin Recorded /\ ~Gone(t)
  BY <1>1 DEF Records, Recorded, ThreadOf, Gone
<1>4. job' \in JobType /\ (job'.at \in Calm \/ job'.at = "save")
  <2>1. t \in Nat
    BY <1>1 DEF t
  <2>2. CASE job' = [job EXCEPT !.at = "save", !.thread = t]
    BY <2>1, <2>2 DEF TypeInv, JobType, OwnPlaces
  <2>3. CASE NextPerson(TRUE)
    BY <2>3, NextIsCalm DEF TypeInv
  <2> QED BY <2>2, <2>3 DEF t
<1>5. TypeInv' /\ Records'
  BY <1>1, <1>3, <1>4 DEF TypeInv, Records, Owners
<1>6. \A u \in Thread : forget[u].at = "read" /\ ~torn => ~forget[u].rows[t].there
  BY <1>1, <1>3 DEF Forgetting
<1>7. Membership'
  <2>1. ~torn => members[t] = {}
    BY <1>1, <1>3 DEF Membership
  <2> QED BY <1>1, <1>2, <1>3, <2>1 DEF Membership
<1>8. CASE job'.at \in Calm
  <2>1. Making' /\ Inviting' /\ RowsRead' /\ Invitation'
    BY <1>8 DEF Making, Inviting, RowsRead, Invitation, Calm, OwnPlaces, RowPlaces
  <2>2. Forgetting'
    BY <1>1, <1>2, <1>3, <1>8 DEF Forgetting, Calm, OwnPlaces
  <2> QED BY <1>5, <1>7, <2>1, <2>2
<1>9. CASE job' = [job EXCEPT !.at = "save", !.thread = t]
  <2>1. /\ job.at = "make" /\ job'.at = "save" /\ job'.person = job.person
        /\ job'.thread = t /\ job'.fresh = job.fresh /\ job'.rows = job.rows
    BY <1>9 DEF At, TypeInv, JobType
  <2>2. /\ job.person \in Owners /\ job.fresh /\ ThreadOf(job.person) = NoThread
    BY <2>1 DEF Making, OwnPlaces
  <2>3. Making'
    BY <1>1, <1>3, <2>1, <2>2 DEF Making, OwnPlaces
  <2>4. Inviting' /\ RowsRead' /\ Invitation'
    BY <1>2, <2>1 DEF Inviting, RowsRead, Invitation, RowPlaces
  <2>5. Forgetting'
    BY <1>1, <1>2, <1>3, <1>6, <2>1 DEF Forgetting
  <2> QED BY <1>5, <1>7, <2>3, <2>4, <2>5
<1>10. job' = [job EXCEPT !.at = "save", !.thread = t] \/ job'.at \in Calm
  BY NextIsCalm DEF TypeInv, t
<1> QED BY <1>8, <1>9, <1>10

(* _private_thread as a whole. *)
LEMMA MakeStep ==
  ASSUME IInv, Make
  PROVE  IInv'
<1> USE DEF IInv
<1>1. /\ job \in JobType /\ At("make")
      /\ UNCHANGED <<case, own, managed, authorised, kind, forget, torn>>
  BY DEF Make, document, bounds, TypeInv
<1>2. CASE NextPerson(TRUE) /\ UNCHANGED discord
  <2>1. job' \in JobType /\ job'.at \in Calm
    BY <1>1, <1>2, NextIsCalm
  <2>2. Fewer /\ Membership'
    BY <1>1, <1>2, Shrunk DEF Fewer, TypeInv, discord
  <2> QED BY <1>1, <1>2, <2>1, <2>2, Calmed DEF discord, TypeInv, Calm
<1>3. CASE job.thread \in living /\ Goto("save") /\ UNCHANGED discord
  <2>1. PICK t : t \in living /\ t = job.thread
    BY <1>3
  <2>2. job' = [job EXCEPT !.at = "save", !.thread = t]
    BY <1>1, <1>3, <2>1 DEF Goto, JobType
  <2>3. UNCHANGED <<case, own, managed, made, living, members, authorised, kind,
                    forget, torn>>
    BY <1>1, <1>3 DEF discord
  <2> QED BY <1>1, <2>1, <2>2, <2>3, FoundStep
<1>4. ASSUME job.thread = NoThread, UNCHANGED discord, NEW t \in Orphans,
             job' = [job EXCEPT !.at = "save", !.thread = t]
      PROVE  IInv'
  <2>1. t \in living /\ t \notin job.recorded
    BY <1>4 DEF Orphans
  <2> QED BY <1>1, <1>4, <2>1, FoundStep DEF discord
<1>5. CASE /\ job.thread = NoThread /\ Create
           /\ job' = [job EXCEPT !.at = "save", !.thread = made + 1] \/ NextPerson(TRUE)
  BY <1>1, <1>5, CreatedStep
<1> QED BY <1>2, <1>3, <1>4, <1>5 DEF Make

(* The record: the thread is the person's from here on, with a row of its
   own if it is new, and the rows of the threads that exist are kept. *)
LEMMA SaveStep ==
  ASSUME IInv, Save
  PROVE  IInv'
<1> USE DEF IInv
<1>0. PICK t, p : t = job.thread /\ p = job.person
  OBVIOUS
<1> DEFINE rows == IF p = Opener THEN job.rows ELSE managed
<1>1. /\ UNCHANGED <<case, made, living, members, authorised, kind, forget, torn>>
      /\ job.at = "save" /\ job' = [job EXCEPT !.at = "welcome"]
      /\ own' = [own EXCEPT ![p].thread = t]
      /\ managed' = IF job.fresh /\ ~rows[t].there
                      THEN [rows EXCEPT ![t] = Row({}, TRUE)] ELSE managed
  BY <1>0 DEF Save, At, Goto, discord, bounds
<1>2. /\ p \in Owners /\ t \in Thread /\ t \in 1..made /\ t # NoThread
      /\ ThreadOf(p) \in {NoThread, t}
      /\ \A q \in Owners \ {p} : ThreadOf(q) # NoThread => ThreadOf(q) # t
      /\ job.fresh => ThreadOf(p) = NoThread
      /\ ~job.fresh /\ ~torn /\ t \in living => ThreadOf(p) = t
  BY <1>0, <1>1, Numbers DEF Making, OwnPlaces, NoThread
<1>3. /\ job' \in JobType /\ job'.at = "welcome" /\ job'.person = p
      /\ job'.thread = t /\ job'.fresh = job.fresh
  BY <1>0, <1>1 DEF TypeInv, JobType, OwnPlaces
<1>4. /\ own' \in [Owners -> OwnType] /\ ThreadOf(p)' = t
      /\ \A q \in Owners \ {p} : ThreadOf(q)' = ThreadOf(q)
  BY <1>1, <1>2 DEF TypeInv, OwnType, ThreadOf, JobType
<1>5. Recorded' = Recorded \union {t}
  BY <1>2, <1>4 DEF Recorded
<1>6. rows \in [Thread -> RowType] /\ Row({}, TRUE) \in RowType
  BY DEF TypeInv, JobType, RowType, Row
<1>7. managed' \in [Thread -> RowType]
  BY <1>1, <1>6 DEF TypeInv
<1>8. ~torn => \A u \in Thread : ~Gone(u) => rows[u] = managed[u]
  BY <1>1 DEF RowsRead
<1>9. ~torn /\ job.fresh /\ t \in living => /\ ~managed[t].there /\ members[t] = {}
                                            /\ managed'[t] = Row({}, TRUE)
  <2>1. job.fresh => t \notin Recorded
    BY <1>2 DEF Recorded
  <2>2. t \in living => ~Gone(t)
    BY DEF Gone
  <2> QED BY <1>1, <1>2, <1>6, <1>8, <2>1, <2>2 DEF Membership
<1>10. ~torn => \A u \in Thread : ~Gone(u) /\ u # t => managed'[u] = managed[u]
  BY <1>1, <1>2, <1>6, <1>8
<1> HIDE DEF rows
<1>11. TypeInv' /\ Records'
  <2>1. t \in 0..made
    BY <1>2
  <2>2. Records'
    BY <1>1, <1>2, <1>4, <2>1, ThreadsAssumption DEF Records, Owners
  <2> QED BY <1>1, <1>3, <1>4, <1>7, <2>2 DEF TypeInv
<1>12. Making'
  BY <1>1, <1>2, <1>3, <1>4 DEF Making, OwnPlaces
<1>13. Inviting' /\ RowsRead' /\ Invitation'
  BY <1>3 DEF Inviting, RowsRead, Invitation, RowPlaces
<1>14. Forgetting'
  <2>1. \A u \in Thread : Gone(u)' = Gone(u)
    BY <1>1 DEF Gone
  <2>2. ASSUME NEW u \in Thread, forget[u].at = "read", ~torn,
               forget[u].rows[t].there, forget[u].mine = Opener, p = Opener
        PROVE  t = u
    BY <1>0, <1>1, <1>2, <2>2 DEF Forgetting, OwnPlaces
  <2> QED BY <1>1, <1>2, <1>3, <1>4, <1>5, <2>1, <2>2 DEF Forgetting, Owners
<1>15. Membership'
  <2>1. Row({}, TRUE).there /\ Row({}, TRUE).staff = {}
    BY DEF Row
  <2>2. ~torn /\ t \in living => /\ managed'[t].there
                                 /\ members[t] \subseteq {p} \union managed'[t].staff
    BY <1>1, <1>2, <1>9, <2>1 DEF Membership
  <2>3. ~torn => \A q \in Owners \ {p} : LET u == ThreadOf(q) IN
          u \in living => /\ managed'[u].there
                          /\ members[u] \subseteq {q} \union managed'[u].staff
    BY <1>2, <1>10, Numbers DEF Membership, Gone, Records
  <2>4. ~torn => \A u \in Thread : managed'[u].there => u \in Recorded' \/ Gone(u)
    BY <1>5, <1>10 DEF Membership
  <2>5. ~torn => \A u \in Thread : u \in living \intersect Recorded' \/ members[u] = {}
    BY <1>5 DEF Membership
  <2> QED BY <1>1, <1>4, <2>2, <2>3, <2>4, <2>5 DEF Membership, Gone
<1> QED BY <1>11, <1>12, <1>13, <1>14, <1>15

(* Whoever is added to a thread is its owner, or is on record for it. *)
LEMMA Entered ==
  ASSUME IInv, UNCHANGED <<own, managed, made, living, torn>>, NEW t \in living,
         NEW p \in Staff \union Owners, Add(t, p),
         ~torn => /\ t \in Recorded
                  /\ \A q \in Owners : ThreadOf(q) = t =>
                       p = q \/ p \in managed[t].staff
  PROVE  members' \in [Thread -> SUBSET (Staff \union Owners)] /\ Membership'
<1> USE DEF IInv
<1>1. t \in Thread
  BY Numbers
<1>2. /\ members' \in [Thread -> SUBSET (Staff \union Owners)]
      /\ members'[t] = members[t] \union {p}
      /\ \A u \in Thread : u # t => members'[u] = members[u]
  BY <1>1 DEF TypeInv, Add
<1>3. \A q \in Owners : ThreadOf(q) \in living => ThreadOf(q) \in Thread
  BY Numbers
<1> QED BY <1>2, <1>3 DEF Membership, Gone, Recorded, ThreadOf

(* The owner is added to the thread that is recorded for them. *)
LEMMA WelcomeStep ==
  ASSUME IInv, Welcome
  PROVE  IInv'
<1> USE DEF IInv
<1>0. PICK t, p : t = job.thread /\ p = job.person
  OBVIOUS
<1>1. /\ UNCHANGED <<case, own, managed, made, living, authorised, kind, forget, torn>>
      /\ job.at = "welcome" /\ p \in Owners /\ Fewer
      /\ ~torn /\ t \in living => ThreadOf(p) = t
  BY <1>0 DEF Welcome, At, document, bounds, Making, OwnPlaces, Fewer, TypeInv
<1>2. /\ members' \in [Thread -> SUBSET (Staff \union Owners)] /\ Membership'
  <2>1. CASE UNCHANGED members
    BY <1>1, <2>1, Shrunk DEF TypeInv
  <2>2. CASE t \in living /\ Add(t, p)
    <3>1. ~torn => t \in Recorded /\ \A q \in Owners : ThreadOf(q) = t => p = q
      <4>1. t # NoThread
        BY <2>2, Numbers DEF NoThread
      <4> QED BY <1>1, <2>2, <4>1 DEF Records, Recorded, Owners
    <3> QED BY <1>1, <2>2, <3>1, Entered
  <2> QED BY <1>0, <2>1, <2>2 DEF Welcome, membership
<1>3. CASE NextPerson(TRUE)
  <2>1. job' \in JobType /\ job'.at \in Calm
    BY <1>3, NextIsCalm DEF TypeInv
  <2> QED BY <1>1, <1>2, <2>1, Calmed DEF TypeInv, Calm
<1>4. CASE Goto("finish")
  <2>1. /\ job' \in JobType /\ job'.at = "finish" /\ job'.person = job.person
        /\ job'.thread = job.thread /\ job'.fresh = job.fresh
    BY <1>4 DEF Goto, TypeInv, JobType, OwnPlaces
  <2>2. TypeInv' /\ Records'
    BY <1>1, <1>2, <2>1 DEF TypeInv, Records, ThreadOf
  <2>3. Making'
    BY <1>1, <2>1 DEF Making, OwnPlaces, ThreadOf
  <2>4. Inviting' /\ RowsRead' /\ Invitation'
    BY <2>1 DEF Inviting, RowsRead, Invitation, RowPlaces
  <2>5. Forgetting'
    BY <1>1, <2>1 DEF Forgetting, Gone, Recorded, ThreadOf, OwnPlaces
  <2> QED BY <1>2, <2>2, <2>3, <2>4, <2>5
<1> QED BY <1>3, <1>4 DEF Welcome

(* The record is completed: it names the thread it named before, or one that
   is gone. *)
LEMMA FinishStep ==
  ASSUME IInv, Finish
  PROVE  IInv'
<1> USE DEF IInv
<1>0. PICK t, p : t = job.thread /\ p = job.person
  OBVIOUS
<1>1. /\ UNCHANGED <<case, managed, made, living, members, authorised, kind,
                    forget, torn>>
      /\ job.at = "finish"
      /\ own' = [own EXCEPT ![p] = [tried |-> TRUE, thread |-> t, done |-> TRUE]]
      /\ NextPerson(job.failed)
  BY <1>0 DEF Finish, At, discord, bounds
<1>2. /\ p \in Owners /\ t \in 0..made /\ t # NoThread
      /\ ThreadOf(p) \in {NoThread, t}
      /\ \A q \in Owners \ {p} : ThreadOf(q) # NoThread => ThreadOf(q) # t
      /\ ~torn /\ t \in living => ThreadOf(p) = t
  BY <1>0, <1>1 DEF Making, OwnPlaces
<1>3. job' \in JobType /\ job'.at \in Calm
  BY <1>1, NextIsCalm DEF TypeInv, JobType
<1>4. /\ own' \in [Owners -> OwnType] /\ ThreadOf(p)' = t
      /\ \A q \in Owners \ {p} : ThreadOf(q)' = ThreadOf(q)
  <2>1. t \in Nat
    BY <1>2, Numbers
  <2> QED BY <1>1, <1>2, <2>1 DEF TypeInv, OwnType, ThreadOf
<1>5. Recorded' = Recorded \union {t}
  BY <1>2, <1>4 DEF Recorded
<1>6. TypeInv' /\ Records'
  <2>1. Records'
    BY <1>1, <1>2, <1>4, ThreadsAssumption DEF Records, Owners
  <2> QED BY <1>1, <1>3, <1>4, <2>1 DEF TypeInv, Calm
<1>7. Making' /\ Inviting' /\ RowsRead' /\ Invitation'
  BY <1>3 DEF Making, Inviting, RowsRead, Invitation, Calm, OwnPlaces, RowPlaces
<1>8. Forgetting'
  <2>1. ASSUME NEW u \in Thread, forget[u].at = "read", ~torn, t \in Thread,
               forget[u].rows[t].there, forget[u].mine = Opener, p = Opener
        PROVE  t = u
    BY <1>0, <1>1, <1>2, <2>1 DEF Forgetting, OwnPlaces
  <2> QED
    BY <1>1, <1>2, <1>3, <1>4, <1>5, <2>1 DEF Forgetting, Gone, Owners, Calm, OwnPlaces
<1>9. Membership'
  <2>1. ~torn => \A u \in Thread : u \in living \intersect Recorded' \/ members[u] = {}
    BY <1>5 DEF Membership
  <2> QED BY <1>1, <1>2, <1>4, <1>5, <2>1 DEF Membership, Gone
<1> QED BY <1>6, <1>7, <1>8, <1>9

-----------------------------------------------------------------------------
(* The invitations of the staff member who holds the case *)

(* Still the same threads and the same staff member. *)
LEMMA StillInviting ==
  ASSUME IInv, job.at \in RowPlaces, UNCHANGED <<case, kind, own, made, living, torn>>,
         job'.staff = job.staff, job'.threads = job.threads, job'.at # "add",
         job'.at \notin {"thread"} => job'.person \in Owners
                                      /\ job'.threads[job'.person] \in 1..made
  PROVE  Inviting'
BY DEF IInv, Inviting, ThreadOf

(* A place in the list of the threads, or its end. *)
LEMMA Skipped ==
  ASSUME IInv, job.at \in RowPlaces, NEW p, Skip(p),
         UNCHANGED <<case, kind, own, made, living, torn>>
  PROVE  /\ job' \in JobType /\ job'.at \in Calm \union {"thread"}
         /\ Inviting'
<1>1. CASE job' = Unlocked
  BY <1>1, UnlockedIsCalm DEF Inviting, Calm, RowPlaces
<1>2. CASE job' = [job EXCEPT !.at = "thread", !.todo = @ \ {p}, !.person = None,
                              !.rows = [t \in Thread |-> NoRow]]
  <2>1. NoRow \in RowType
    BY DEF NoRow, RowType
  <2>2. /\ job' \in JobType /\ job'.at = "thread"
        /\ job'.staff = job.staff /\ job'.threads = job.threads
    BY <1>2, <2>1 DEF IInv, TypeInv, JobType, RowPlaces
  <2> QED BY <2>2, StillInviting
<1> QED BY <1>1, <1>2 DEF Skip

(* The staff member to invite is not the subject, and the threads are those
   recorded. *)
LEMMA AuthoriseStep ==
  ASSUME IInv, Authorise
  PROVE  IInv'
<1> USE DEF IInv
<1> DEFINE holder == IF case.status = "open" THEN None ELSE case.holder
<1>1. /\ UNCHANGED <<case, own, managed, made, living, members, authorised, kind,
                    forget, torn>>
      /\ Fewer
  BY DEF Authorise, document, discord, bounds, Fewer, TypeInv
<1>2. CASE job' = Unlocked
  BY <1>1, <1>2, UnlockedIsCalm, Shrunk, Calmed DEF TypeInv, Calm
<1>3. CASE job' # Unlocked
  <2>1. PICK s \in Person :
          /\ job' = [job EXCEPT !.at = "thread", !.staff = s,
                       !.todo = {p \in Owners : ThreadOf(p) # NoThread},
                       !.threads = [p \in Owners |-> ThreadOf(p)]]
          /\ s # None => MayHold(s)
    <3>1. holder \in Person
      BY DEF TypeInv, CaseType, Person
    <3> QED BY <1>3, <3>1 DEF Authorise, Person
  <2>2. /\ job' \in JobType /\ job'.at = "thread" /\ job'.staff = s
        /\ job'.threads = [p \in Owners |-> ThreadOf(p)]
    <3>1. [p \in Owners |-> ThreadOf(p)] \in [Owners -> Nat]
      BY DEF TypeInv, OwnType, ThreadOf
    <3> QED BY <2>1, <3>1 DEF TypeInv, JobType, RowPlaces
  <2>3. Inviting'
    <3>1. kind = "complaint" => s \in {None} \union (Staff \ {case.subject})
      BY <2>1 DEF MayHold, Conflicted, Person
    <3>2. \A p \in Owners : job'.threads[p] = ThreadOf(p) /\ ThreadOf(p)' = ThreadOf(p)
      BY <1>1, <2>2 DEF ThreadOf
    <3> QED BY <1>1, <2>2, <3>1, <3>2 DEF Inviting, Records
  <2> QED BY <1>1, <2>2, <2>3, Shrunk, Calmed DEF TypeInv
<1> QED BY <1>2, <1>3

(* The rows are read as they are, for a thread that exists. *)
LEMMA ReadRowsStep ==
  ASSUME IInv, NEW p \in Owners, ReadRows(p)
  PROVE  IInv'
<1> USE DEF IInv
<1>1. /\ UNCHANGED <<case, own, managed, made, living, members, authorised, kind,
                    forget, torn>>
      /\ Fewer /\ job.at = "thread"
  BY DEF ReadRows, At, document, discord, bounds, Fewer, TypeInv
<1>2. CASE Skip(p)
  <2>1. /\ job' \in JobType /\ job'.at \in Calm \union {"thread"}
        /\ Inviting'
    BY <1>1, <1>2, Skipped DEF RowPlaces
  <2> QED BY <1>1, <2>1, Shrunk, Calmed DEF TypeInv
<1>3. CASE /\ job.threads[p] \in living
           /\ job' = [job EXCEPT !.at = "remove", !.person = p, !.rows = managed]
  <2>1. /\ job' \in JobType /\ job'.at = "remove" /\ job'.person = p
        /\ job'.rows = managed /\ job'.staff = job.staff
        /\ job'.threads = job.threads
    BY <1>3 DEF TypeInv, JobType, RowPlaces
  <2>2. TypeInv' /\ Records'
    BY <1>1, <2>1 DEF TypeInv, Records, ThreadOf
  <2>3. Inviting'
    BY <1>1, <1>3, <2>1, Numbers, StillInviting DEF RowPlaces
  <2>4. Making' /\ RowsRead' /\ Invitation'
    BY <1>1, <2>1 DEF Making, RowsRead, Invitation, OwnPlaces
  <2>5. Forgetting' /\ Membership'
    BY <1>1, <2>1 DEF Forgetting, Membership, Gone, Recorded, ThreadOf, OwnPlaces
  <2> QED BY <2>2, <2>3, <2>4, <2>5
<1> QED BY <1>2, <1>3 DEF ReadRows

(* What was read of a thread in hand that exists is what is stored of it. *)
LEMMA InHand ==
  ASSUME IInv, job.at \in RowPlaces \ {"thread"}, NEW t, NEW p,
         p = job.person, t = job.threads[p]
  PROVE  /\ p \in Owners /\ t \in Thread /\ t \in 1..made
         /\ ~torn /\ t \in living =>
              /\ ThreadOf(p) = t
              /\ \A q \in Owners : ThreadOf(q) = t => q = p
              /\ members[t] \subseteq {p} \union managed[t].staff
              /\ job.at \in {"remove", "intend"} => managed[t] = job.rows[t]
<1> USE DEF IInv
<1>1. p \in Owners /\ t \in 1..made /\ t \in Thread
  BY Numbers DEF Inviting
<1>2. ~torn /\ t \in living => ThreadOf(p) = t
  BY <1>1 DEF Inviting
<1>3. t # NoThread
  BY <1>1 DEF NoThread
<1> QED BY <1>1, <1>2, <1>3, ThreadsAssumption
        DEF Membership, Records, RowsRead, Gone, Owners

(* Who is no longer wanted is removed: only the owner and the wanted stay. *)
LEMMA RemoveOldStep ==
  ASSUME IInv, RemoveOld
  PROVE  IInv'
<1> USE DEF IInv
<1>0. PICK p, t : p = job.person /\ t = job.threads[p]
  OBVIOUS
<1>1. /\ UNCHANGED <<case, own, managed, made, living, authorised, kind, forget, torn>>
      /\ Fewer /\ job.at = "remove"
  BY DEF RemoveOld, At, document, bounds, Fewer, TypeInv
<1>2. /\ p \in Owners /\ t \in Thread /\ t \in 1..made
      /\ ~torn /\ t \in living =>
           /\ ThreadOf(p) = t
           /\ members[t] \subseteq {p} \union managed[t].staff
           /\ managed[t] = job.rows[t]
  BY <1>0, <1>1, InHand DEF RowPlaces
<1>3. /\ members' \in [Thread -> SUBSET (Staff \union Owners)]
      /\ \A u \in Thread : members'[u] \subseteq members[u]
      /\ t \in living => members'[t] =
           members[t] \ (job.rows[t].staff \ (Wanted(p) \union {p}))
  <2> DEFINE old == job.rows[t].staff \ (Wanted(p) \union {p})
  <2>1. CASE t \notin living /\ UNCHANGED members
    BY <2>1 DEF TypeInv
  <2>2. CASE t \in living /\ Remove(t, old)
    <3> HIDE DEF old
    <3>1. members' \in [Thread -> SUBSET (Staff \union Owners)]
      BY <1>2, <2>2 DEF TypeInv, Remove
    <3>2. \A u \in Thread : members'[u] = IF u = t THEN members[u] \ old ELSE members[u]
      BY <1>2, <2>2 DEF TypeInv, Remove
    <3> QED BY <1>2, <3>1, <3>2 DEF old
  <2> QED BY <1>0, <2>1, <2>2 DEF RemoveOld, membership
<1>4. Membership'
  BY <1>1, <1>3, Shrunk
<1>5. CASE Skip(p)
  <2>1. /\ job' \in JobType /\ job'.at \in Calm \union {"thread"}
        /\ Inviting'
    BY <1>1, <1>5, Skipped DEF RowPlaces
  <2> QED BY <1>1, <1>3, <1>4, <2>1, Calmed DEF TypeInv
<1>6. CASE Goto("intend") /\ t \in living
  <2>1. /\ job' \in JobType /\ job'.at = "intend" /\ job'.person = p
        /\ job'.rows = job.rows /\ job'.staff = job.staff
        /\ job'.threads = job.threads
    BY <1>0, <1>6 DEF Goto, TypeInv, JobType, RowPlaces
  <2>2. TypeInv' /\ Records'
    BY <1>1, <1>3, <2>1 DEF TypeInv, Records, ThreadOf
  <2>3. Inviting'
    BY <1>0, <1>1, <1>2, <2>1, StillInviting DEF RowPlaces
  <2>4. Making' /\ RowsRead'
    BY <1>1, <2>1 DEF Making, RowsRead, OwnPlaces, Gone
  <2>5. Invitation'
    BY <1>0, <1>1, <1>2, <1>3, <1>6, <2>1 DEF Invitation, Wanted
  <2>6. Forgetting'
    BY <1>1, <2>1 DEF Forgetting, Gone, Recorded, ThreadOf, OwnPlaces
  <2> QED BY <1>4, <2>2, <2>3, <2>4, <2>5, <2>6
<1> QED BY <1>0, <1>5, <1>6 DEF RemoveOld

(* A row may be stored again, with the others as they are. *)
LEMMA Rewritten ==
  ASSUME IInv, UNCHANGED <<own, made, living, members, torn>>,
         NEW t \in 1..made, managed' \in [Thread -> RowType],
         ~torn => /\ \A u \in Thread : ~Gone(u) /\ u # t => managed'[u] = managed[u]
                  /\ t \in living => t \in Recorded /\ managed'[t].there
                  /\ \A q \in Owners : t \in living /\ ThreadOf(q) = t =>
                       members[t] \subseteq {q} \union managed'[t].staff
  PROVE  Membership'
<1>1. \A q \in Owners : ThreadOf(q) \in living =>
       ThreadOf(q) \in Thread /\ ~Gone(ThreadOf(q))
  BY Numbers DEF IInv, Gone
<1>2. t \in living \/ Gone(t)
  BY DEF Gone
<1> QED BY <1>1, <1>2 DEF IInv, Membership, Gone, Recorded, ThreadOf

(* The intention covers whoever is in the thread, and the rows of the other
   threads are stored as they are. *)
LEMMA IntendStep ==
  ASSUME IInv, Intend
  PROVE  IInv'
<1> USE DEF IInv
<1>0. PICK p, t : p = job.person /\ t = job.threads[p]
  OBVIOUS
<1> DEFINE row == Row(Wanted(p), Complete(p) \/ Wanted(p) = {})
<1>1. /\ UNCHANGED <<case, own, made, living, members, authorised, kind, forget, torn>>
      /\ Fewer /\ job.at = "intend"
      /\ managed' = IF job.rows[t] = row THEN managed
                    ELSE [job.rows EXCEPT ![t] = row]
      /\ \/ Skip(p)
         \/ Wanted(p) # {} /\ Goto("add")
  BY <1>0 DEF Intend, At, discord, bounds, Fewer, TypeInv
<1>2. /\ p \in Owners /\ t \in Thread /\ t \in 1..made
      /\ ~torn /\ t \in living => /\ ThreadOf(p) = t
                                  /\ \A q \in Owners : ThreadOf(q) = t => q = p
                                  /\ managed[t] = job.rows[t]
                                  /\ members[t] \subseteq {p} \union Wanted(p)
  BY <1>0, <1>1, InHand DEF RowPlaces, Invitation
<1>3. row \in RowType /\ row.staff = Wanted(p) /\ row.there
  <2>1. Wanted(p) \in SUBSET Staff
    BY DEF Wanted, TypeInv, JobType, Person
  <2>2. (Complete(p) \/ Wanted(p) = {}) \in BOOLEAN
    OBVIOUS
  <2> QED BY <2>1, <2>2 DEF Row, RowType
<1> HIDE DEF row
<1>4. managed' \in [Thread -> RowType]
  BY <1>1, <1>2, <1>3 DEF TypeInv, JobType
<1>5. ~torn => /\ \A u \in Thread : ~Gone(u) /\ u # t => managed'[u] = managed[u]
               /\ t \in living => managed'[t] = row
  <2>1. job.rows \in [Thread -> RowType]
    BY DEF TypeInv, JobType
  <2> QED BY <1>1, <1>2, <2>1 DEF RowsRead
<1>6. Membership'
  <2>1. t \in living /\ ~torn => t \in Recorded
    BY <1>2, Numbers DEF Recorded, NoThread
  <2> QED BY <1>1, <1>2, <1>3, <1>4, <1>5, <2>1, Rewritten
<1>7. CASE Skip(p)
  <2>1. /\ job' \in JobType /\ job'.at \in Calm \union {"thread"}
        /\ Inviting'
    BY <1>1, <1>7, Skipped DEF RowPlaces
  <2> QED BY <1>1, <1>4, <1>6, <2>1, Calmed DEF TypeInv
<1>8. CASE Wanted(p) # {} /\ Goto("add")
  <2>1. /\ job' \in JobType /\ job'.at = "add" /\ job'.person = p
        /\ job'.staff = job.staff /\ job'.threads = job.threads
    BY <1>0, <1>8 DEF Goto, TypeInv, JobType, RowPlaces
  <2>2. TypeInv' /\ Records'
    BY <1>1, <1>4, <2>1 DEF TypeInv, Records, ThreadOf
  <2>3. Inviting'
    <3>1. job.staff \in Wanted(p)
      BY <1>8 DEF Wanted
    <3> QED BY <1>0, <1>1, <1>2, <2>1, <3>1 DEF Inviting, ThreadOf, Wanted, RowPlaces
  <2>4. Making' /\ RowsRead'
    BY <2>1 DEF Making, RowsRead, OwnPlaces
  <2>5. Invitation'
    BY <1>0, <1>1, <1>3, <1>5, <2>1 DEF Invitation, Wanted
  <2>6. Forgetting'
    BY <1>1, <2>1 DEF Forgetting, Gone, Recorded, ThreadOf, OwnPlaces
  <2> QED BY <1>6, <2>2, <2>3, <2>4, <2>5, <2>6
<1> QED BY <1>1, <1>7, <1>8

(* The staff member invited is the one intended. *)
LEMMA InviteStep ==
  ASSUME IInv, Invite
  PROVE  IInv'
<1> USE DEF IInv
<1>0. PICK p, t, s : p = job.person /\ t = job.threads[p] /\ s = job.staff
  OBVIOUS
<1>1. /\ UNCHANGED <<case, own, managed, made, living, authorised, kind, forget, torn>>
      /\ Fewer /\ job.at = "add"
  BY DEF Invite, At, document, bounds, Fewer, TypeInv
<1>2. /\ p \in Owners /\ t \in Thread /\ t \in 1..made /\ s \in Wanted(p)
      /\ s \in Staff
      /\ ~torn /\ t \in living => /\ ThreadOf(p) = t
                                  /\ managed[t].staff = Wanted(p)
  BY <1>0, <1>1, InHand
  DEF RowPlaces, Inviting, Invitation, Wanted, TypeInv, JobType, Person
<1>3. members' \in [Thread -> SUBSET (Staff \union Owners)] /\ Membership'
  <2>1. CASE UNCHANGED members
    BY <1>1, <2>1, Shrunk DEF TypeInv
  <2>2. CASE t \in living /\ Add(t, s)
    <3>1. ~torn => t \in Recorded
      BY <1>2, <2>2, Numbers DEF Recorded, NoThread
    <3> QED BY <1>1, <1>2, <2>2, <3>1, Entered
  <2> QED BY <1>0, <2>1, <2>2 DEF Invite, membership
<1>4. CASE Skip(p)
  <2>1. /\ job' \in JobType /\ job'.at \in Calm \union {"thread"}
        /\ Inviting'
    BY <1>1, <1>4, Skipped DEF RowPlaces
  <2> QED BY <1>1, <1>3, <2>1, Calmed DEF TypeInv
<1>5. CASE Goto("added")
  <2>1. /\ job' \in JobType /\ job'.at = "added" /\ job'.person = p
        /\ job'.staff = job.staff /\ job'.threads = job.threads
    BY <1>0, <1>5 DEF Goto, TypeInv, JobType, RowPlaces
  <2>2. TypeInv' /\ Records'
    BY <1>1, <1>3, <2>1 DEF TypeInv, Records, ThreadOf
  <2>3. Inviting'
    BY <1>0, <1>1, <1>2, <2>1, StillInviting DEF RowPlaces
  <2>4. Making' /\ RowsRead'
    BY <2>1 DEF Making, RowsRead, OwnPlaces
  <2>5. Invitation'
    BY <1>0, <1>1, <1>2, <2>1 DEF Invitation, Wanted
  <2>6. Forgetting'
    BY <1>1, <2>1 DEF Forgetting, Gone, Recorded, ThreadOf, OwnPlaces
  <2> QED BY <1>3, <2>2, <2>3, <2>4, <2>5, <2>6
<1> QED BY <1>0, <1>4, <1>5 DEF Invite

(* The invitation is marked as made. *)
LEMMA InvitedStep ==
  ASSUME IInv, Invited
  PROVE  IInv'
<1> USE DEF IInv
<1>0. PICK p, t : p = job.person /\ t = job.threads[p]
  OBVIOUS
<1>1. /\ UNCHANGED <<case, own, made, living, members, authorised, kind, forget, torn>>
      /\ Fewer /\ job.at = "added" /\ Skip(p)
      /\ managed' = [managed EXCEPT ![t] = Row(Wanted(p), TRUE)]
  BY <1>0 DEF Invited, At, discord, bounds, Fewer, TypeInv
<1>2. /\ p \in Owners /\ t \in Thread /\ t \in 1..made
      /\ ~torn /\ t \in living => /\ ThreadOf(p) = t
                                  /\ \A q \in Owners : ThreadOf(q) = t => q = p
                                  /\ members[t] \subseteq {p} \union Wanted(p)
  BY <1>0, <1>1, InHand DEF RowPlaces, Invitation
<1>3. /\ Row(Wanted(p), TRUE) \in RowType /\ Row(Wanted(p), TRUE).there
      /\ Row(Wanted(p), TRUE).staff = Wanted(p)
  BY DEF Row, RowType, Wanted, TypeInv, JobType, Person
<1>4. /\ managed' \in [Thread -> RowType]
      /\ \A u \in Thread : managed'[u] = IF u = t THEN Row(Wanted(p), TRUE)
                                         ELSE managed[u]
  BY <1>1, <1>2, <1>3 DEF TypeInv
<1>5. Membership'
  <2>1. t \in living /\ ~torn => t \in Recorded
    BY <1>2, Numbers DEF Recorded, NoThread
  <2> QED BY <1>1, <1>2, <1>3, <1>4, <2>1, Rewritten
<1>6. job' \in JobType /\ job'.at \in Calm \union {"thread"} /\ Inviting'
  BY <1>1, Skipped DEF RowPlaces
<1> QED BY <1>1, <1>4, <1>5, <1>6, Calmed DEF TypeInv

-----------------------------------------------------------------------------
(* Threads that go *)

(* A record is dropped: of a thread that is gone, or the case is torn. *)
LEMMA Lost ==
  ASSUME IInv, NEW t \in Thread, Gone(t), NEW p \in Owners,
         own' = [own EXCEPT ![p] = Forgotten(p)], Fewer,
         managed' \in [Thread -> RowType], torn' \in BOOLEAN,
         ~torn' => /\ ~torn /\ managed' = [managed EXCEPT ![t] = NoRow]
                   /\ ThreadOf(p) \notin living,
         UNCHANGED <<case, authorised, kind, made, living, members, job>>
  PROVE  IInv'
<1> USE DEF IInv
<1>1. /\ own' \in [Owners -> OwnType] /\ ThreadOf(p)' = NoThread
      /\ \A q \in Owners \ {p} : ThreadOf(q)' = ThreadOf(q)
  <2>1. Forgotten(p) \in OwnType /\ Forgotten(p).thread = NoThread
    BY DEF Forgotten, NotOwned, OwnType, TypeInv, Owners, NoThread
  <2> QED BY <2>1 DEF TypeInv, ThreadOf
<1>2. /\ Recorded' \subseteq Recorded
      /\ \A u \in Recorded : ~torn' => u \in Recorded' \/ Gone(u)
  BY <1>1 DEF Recorded, Records, Gone, NoThread
<1>3. TypeInv' /\ Records'
  <2>1. Records'
    BY <1>1, Numbers DEF Records, Owners, NoThread
  <2> QED BY <1>1, <2>1 DEF TypeInv, Fewer
<1>4. ~torn' => \A u \in Thread : ~Gone(u) => managed'[u] = managed[u]
  BY DEF TypeInv
<1>5. Making'
  BY <1>1, <1>2 DEF Making
<1>6. Inviting'
  BY <1>1, Numbers DEF Inviting, Wanted, NoThread
<1>7. RowsRead'
  BY <1>4 DEF RowsRead, Gone
<1>8. Invitation'
  <2>1. ~torn' => \A u \in living : managed'[u] = managed[u]
    BY <1>4, Numbers DEF Gone
  <2> QED BY <2>1 DEF Invitation, Wanted
<1>9. Forgetting'
  <2>1. NoEvent.at = "none"
    BY DEF NoEvent
  <2>2. ThreadOf(Opener)' \in Thread => ThreadOf(Opener)' = ThreadOf(Opener)
    BY <1>1 DEF Thread, NoThread, Owners
  <2>3. \A u \in Thread : Gone(u)' = Gone(u)
    BY DEF Gone
  <2> QED BY <1>2, <2>1, <2>2, <2>3 DEF Forgetting, Fewer
<1>10. Membership'
  <2>1. ~torn' => ~managed'[t].there
    BY DEF TypeInv, NoRow
  <2>2. ~torn' => \A u \in Thread : managed'[u].there => u \in Recorded' \/ Gone(u)
    BY <1>2, <1>4, <2>1 DEF Membership, TypeInv
  <2>3. ~torn' => \A u \in Thread : u \in living \intersect Recorded' \/ members[u] = {}
    BY <1>2 DEF Membership, Gone
  <2>4. ~torn' => \A q \in Owners : ThreadOf(q)' \in living =>
          /\ ThreadOf(q)' = ThreadOf(q)
          /\ managed'[ThreadOf(q)] = managed[ThreadOf(q)]
    BY <1>1, <1>4, Numbers DEF Gone, NoThread, Thread
  <2> QED BY <2>2, <2>3, <2>4 DEF Membership, Gone
<1> QED BY <1>3, <1>5, <1>6, <1>7, <1>8, <1>9, <1>10

(* A pass forgets a thread that is gone. *)
LEMMA ForgetMissingStep ==
  ASSUME IInv, NEW p \in Owners, ForgetMissing(p)
  PROVE  IInv'
<1> USE DEF IInv
<1>0. PICK t : t = ThreadOf(p)
  OBVIOUS
<1>1. /\ UNCHANGED <<case, authorised, kind, made, living, members, job, torn>>
      /\ Fewer /\ own' = [own EXCEPT ![p] = Forgotten(p)]
      /\ managed' = [managed EXCEPT ![t] = NoRow]
  BY <1>0 DEF ForgetMissing, discord, bounds, Fewer, TypeInv
<1>2. t \in Thread /\ Gone(t) /\ t \notin living
  BY <1>0, Numbers DEF ForgetMissing, Records, Gone, NoThread
<1>3. managed' \in [Thread -> RowType]
  BY <1>1 DEF TypeInv, NoRow, RowType
<1> QED BY <1>0, <1>1, <1>2, <1>3, Lost DEF TypeInv

(* The handler writes what it read: if nothing was written since, its owner
   has no thread any more. *)
LEMMA ForgetWriteStep ==
  ASSUME IInv, NEW t \in Thread, ForgetWrite(t)
  PROVE  IInv'
<1> USE DEF IInv
<1>0. PICK p, f : f = forget[t] /\ p = f.mine
  OBVIOUS
<1>1. /\ UNCHANGED <<case, authorised, kind, made, living, members, job>>
      /\ own' = [own EXCEPT ![p] = Forgotten(p)]
      /\ managed' = [f.rows EXCEPT ![t] = NoRow]
      /\ torn' = (torn \/ managed # f.rows \/ (p = Joiner /\ own[Joiner] # f.row))
      /\ forget' = [forget EXCEPT ![t] = NoEvent] /\ f.at = "read"
  BY <1>0 DEF ForgetWrite, discord, bounds
<1>2. /\ f \in EventType /\ p \in Owners /\ Gone(t)
      /\ p = Joiner => f.row.thread = t
  BY <1>0, <1>1 DEF Forgetting, TypeInv
<1>3. Fewer
  <2>1. NoEvent \in EventType
    BY DEF NoEvent, EventType, NotOwned, OwnType, NoRow, RowType, NoThread
  <2> QED BY <1>1, <2>1 DEF Fewer, TypeInv
<1>4. managed' \in [Thread -> RowType]
  BY <1>1, <1>2 DEF EventType, NoRow, RowType
<1>5. ~torn' => ~torn /\ managed = f.rows /\ (p = Joiner => own[Joiner] = f.row)
  BY <1>1 DEF TypeInv
<1>6. torn' \in BOOLEAN
  BY <1>1 DEF TypeInv
<1>7. ~torn' => ThreadOf(p) \notin living
  <2> SUFFICES ASSUME ~torn', ThreadOf(p) \in living
               PROVE  FALSE
    OBVIOUS
  <2>1. p = Joiner => ThreadOf(p) = t
    BY <1>2, <1>5 DEF ThreadOf
  <2>2. ThreadOf(p) \in Thread /\ managed[ThreadOf(p)].there
    BY <1>2, <1>5, Numbers DEF Membership
  <2>3. p = Opener => ThreadOf(p) = t
    BY <1>0, <1>1, <1>5, <2>2 DEF Forgetting
  <2> QED BY <1>2, <2>1, <2>3 DEF Gone, Owners
<1> QED BY <1>1, <1>2, <1>3, <1>4, <1>5, <1>6, <1>7, Lost

(* A handler reads the rows: whatever has one is recorded, or gone. *)
LEMMA ForgetReadStep ==
  ASSUME IInv, NEW t \in Thread, ForgetRead(t)
  PROVE  IInv'
<1> USE DEF IInv
<1>1. /\ UNCHANGED <<case, authorised, kind, own, managed, made, living,
                    members, job, torn>>
      /\ Gone(t)
  BY DEF ForgetRead, document, discord, bounds, Forgetting
<1>2. PICK g : /\ forget' = [forget EXCEPT ![t] = g] /\ g \in EventType
               /\ \/ g.at = "none"
                  \/ /\ g.mine \in Owners /\ ThreadOf(g.mine) = t
                     /\ g.row = own[Joiner] /\ g.rows = managed
  <2>1. NoEvent \in EventType /\ NoEvent.at = "none"
    BY DEF NoEvent, EventType, NotOwned, OwnType, NoRow, RowType, NoThread
  <2>2. ASSUME NEW p \in Owners
        PROVE  [at |-> "read", mine |-> p, row |-> own[Joiner], rows |-> managed]
                 \in EventType
    BY DEF EventType, TypeInv, Owners
  <2> QED BY <2>1, <2>2 DEF ForgetRead
<1>3. /\ forget' \in [Thread -> EventType]
      /\ \A u \in Thread : forget'[u] = IF u = t THEN g ELSE forget[u]
  BY <1>2 DEF TypeInv
<1>4. TypeInv' /\ Records' /\ Making' /\ Inviting' /\ RowsRead' /\ Invitation'
  BY <1>1, <1>3
  DEF TypeInv, Records, Making, Inviting, RowsRead, Invitation, Wanted, Gone,
      Recorded, ThreadOf
<1>5. Membership'
  BY <1>1 DEF Membership, Gone, Recorded, ThreadOf
<1>6. Forgetting'
  <2>1. g.mine = Joiner /\ g.at # "none" => g.row.thread = t
    BY <1>2 DEF ThreadOf
  <2>2. ~torn /\ g.at # "none" => \A u \in Thread :
          g.rows[u].there => u \in Recorded \/ Gone(u)
    BY <1>2 DEF Membership
  <2>3. g.mine = Opener /\ g.at # "none" /\ job.at \in OwnPlaces /\ job.person = Opener
          => job.thread = t
    BY <1>2 DEF Making, NoThread, Thread
  <2>4. \A u \in Thread : Gone(u)' = Gone(u)
    BY <1>1 DEF Gone
  <2> QED BY <1>1, <1>2, <1>3, <2>1, <2>2, <2>3, <2>4 DEF Forgetting, Recorded, ThreadOf
<1> QED BY <1>4, <1>5, <1>6

(* A thread is deleted, with everybody in it. *)
LEMMA DeleteStep ==
  ASSUME IInv, NEW t \in Thread, Delete(t)
  PROVE  IInv'
<1> USE DEF IInv
<1>1. /\ UNCHANGED <<case, authorised, kind, own, managed, made, job, torn>>
      /\ living' = living \ {t} /\ members' = [members EXCEPT ![t] = {}]
      /\ forget' \in {forget, [forget EXCEPT ![t].at = "event"]} /\ t \in living
  BY DEF Delete, document
<1>2. /\ forget' \in [Thread -> EventType]
      /\ \A u \in Thread \ {t} : forget'[u] = forget[u]
      /\ forget'[t] = forget[t] \/ forget'[t].at = "event"
  <2>1. forget[t] \in EventType /\ forget \in [Thread -> EventType]
    BY DEF TypeInv
  <2>2. [forget[t] EXCEPT !.at = "event"] \in EventType
    BY <2>1 DEF EventType
  <2>3. [forget[t] EXCEPT !.at = "event"].at = "event"
    BY <2>1 DEF EventType
  <2> QED BY <1>1, <2>1, <2>2, <2>3
<1>3. /\ members' \in [Thread -> SUBSET (Staff \union Owners)]
      /\ members'[t] = {} /\ \A u \in Thread \ {t} : members'[u] = members[u]
  BY <1>1 DEF TypeInv
<1>4. \A u \in Thread : Gone(u)' <=> Gone(u) \/ u = t
  BY <1>1, Numbers DEF Gone
<1>5. TypeInv' /\ Records' /\ Making'
  BY <1>1, <1>2, <1>3 DEF TypeInv, Records, Making, Recorded, ThreadOf
<1>6. Inviting' /\ RowsRead'
  BY <1>1, <1>4 DEF Inviting, RowsRead, Wanted, ThreadOf
<1>7. Invitation'
  <2>1. \A u \in living' : members'[u] = members[u]
    BY <1>1, <1>3, Numbers
  <2> QED BY <1>1, <2>1 DEF Invitation, Wanted
<1>8. Forgetting'
  <2>1. forget[t].at = "none"
    BY <1>1 DEF Forgetting, Gone
  <2> QED BY <1>1, <1>2, <1>4, <2>1 DEF Forgetting, Recorded, ThreadOf
<1>9. Membership'
  <2>1. \A q \in Owners : ThreadOf(q)' \in living' =>
          /\ members'[ThreadOf(q)] = members[ThreadOf(q)]
          /\ ThreadOf(q) \in living
    BY <1>1, <1>3, Numbers DEF ThreadOf
  <2> QED BY <1>1, <1>3, <1>4, <2>1 DEF Membership, Recorded, ThreadOf
<1> QED BY <1>5, <1>6, <1>7, <1>8, <1>9

-----------------------------------------------------------------------------
(* The rest of the pass, the decisions and crashes *)

LEMMA CalmSteps ==
  ASSUME IInv, Begin \/ Validated \/ Project
  PROVE  IInv'
<1> USE DEF IInv
<1>1. /\ UNCHANGED <<case, own, managed, made, living, members, authorised, forget,
                    torn>>
      /\ Fewer
  BY DEF Begin, Validated, Project, document, discord, bounds, Fewer, TypeInv
<1>2. job' \in JobType /\ job'.at \in Calm
  <2>1. ASSUME NEW place \in Calm, Goto(place)
        PROVE  job' \in JobType /\ job'.at \in Calm
    BY <2>1 DEF Goto, TypeInv, JobType
  <2>2. {"validate", "opener", "joiner", "exclude"} \subseteq Calm
    BY DEF Calm
  <2>3. CASE Begin
    BY <2>2, <2>3 DEF Begin, TypeInv, JobType
  <2>4. CASE job' = Unlocked
    BY <2>4, UnlockedIsCalm
  <2>5. CASE job' = [job EXCEPT !.at = "opener", !.failed = TRUE]
    BY <2>2, <2>5 DEF TypeInv, JobType
  <2> QED BY <2>1, <2>2, <2>3, <2>4, <2>5 DEF Validated, Project
<1>3. Membership'
  BY <1>1, Shrunk
<1> QED BY <1>1, <1>2, <1>3, Calmed DEF TypeInv, Calm

(* exclude_subject, in a pass and under the lock of set_subject. *)
LEMMA RemovingSteps ==
  ASSUME IInv, Exclude \/ Eject
  PROVE  IInv'
<1> USE DEF IInv
<1>1. /\ UNCHANGED <<case, own, managed, made, living, authorised, forget, torn>>
      /\ Fewer
  BY DEF Exclude, Eject, document, bounds, Fewer, TypeInv
<1>2. job' \in JobType /\ job'.at \in Calm
  <2>1. CASE Goto("staff")
    BY <2>1 DEF Goto, TypeInv, JobType, Calm
  <2> QED BY <2>1, UnlockedIsCalm DEF Exclude, Eject
<1>3. /\ members' \in [Thread -> SUBSET (Staff \union Owners)]
      /\ \A t \in Thread : members'[t] \subseteq members[t]
  <2>1. CASE UNCHANGED members
    BY <2>1 DEF TypeInv
  <2>2. ASSUME NEW t \in living, NEW p, Remove(t, {p})
        PROVE  /\ members' \in [Thread -> SUBSET (Staff \union Owners)]
               /\ \A u \in Thread : members'[u] \subseteq members[u]
    <3>1. t \in Thread
      BY Numbers
    <3> QED BY <2>2, <3>1 DEF Remove, TypeInv
  <2> QED BY <2>1, <2>2 DEF Exclude, Eject, membership
<1>4. Membership'
  BY <1>1, <1>3, Shrunk
<1> QED BY <1>1, <1>2, <1>3, <1>4, Calmed DEF TypeInv, Calm

(* A new subject is stored while no pass holds the lock. *)
LEMMA SetSubjectStep ==
  ASSUME IInv, NEW s \in Subjects, SetSubject(s), Change
  PROVE  IInv'
<1> USE DEF IInv
<1>1. /\ UNCHANGED <<own, managed, made, living, members, authorised, forget, torn>>
      /\ Fewer
  BY DEF SetSubject, Change, Fewer, TypeInv, membership
<1>2. job' \in JobType /\ job'.at \in Calm
  BY DEF SetSubject, Goto, TypeInv, JobType, Calm
<1>3. case' \in CaseType
  BY ThreadsAssumption DEF SetSubject, Accuse, TypeInv, CaseType, Person, Owners
<1>4. Membership'
  BY <1>1, Shrunk
<1> QED BY <1>1, <1>2, <1>3, <1>4, Calmed DEF TypeInv, Calm

(* The decisions. *)
LEMMA DecideStep ==
  ASSUME IInv, Decide
  PROVE  IInv'
<1> USE DEF IInv
<1>1. UNCHANGED <<kind, own, managed, made, living, forget, torn>>
  BY DEF Decide, Change
<1>2. ASSUME NEW s \in Staff, Take(s) \/ LoseOrGainRole(s)
      PROVE  IInv'
  <2>1. /\ UNCHANGED <<members, severed, job>> /\ case' \in CaseType
        /\ case'.subject = case.subject /\ authorised' \subseteq Staff
    BY <1>2 DEF Take, LoseOrGainRole, TypeInv, CaseType, Person, membership
  <2> QED BY <1>1, <2>1, Beside DEF discord
<1>3. ASSUME NEW s \in Person, Release \/ Close(s) \/ Reopen \/ Join
      PROVE  IInv'
  <2>1. /\ UNCHANGED <<members, severed, job>> /\ case' \in CaseType
        /\ case'.subject = case.subject /\ authorised' \subseteq Staff
    BY <1>3 DEF Release, Close, Reopen, Join, TypeInv, CaseType, Person, membership
  <2> QED BY <1>1, <2>1, Beside DEF discord
<1>4. ASSUME NEW s \in Subjects, SetSubject(s)
      PROVE  IInv'
  BY <1>4, SetSubjectStep DEF Decide
<1>5. None \in Person
  BY DEF Person
<1> QED BY <1>2, <1>3, <1>4, <1>5 DEF Decide, Person

(* What is in memory is lost, and nothing else. *)
LEMMA CrashStep ==
  ASSUME IInv, Crash
  PROVE  IInv'
<1> USE DEF IInv
<1>1. UNCHANGED <<case, own, managed, made, living, members, authorised, torn>>
  BY DEF Crash, document, discord
<1>2. job' \in JobType /\ job'.at \in Calm
  BY UnlockedIsCalm DEF Crash
<1>3. Fewer
  <2>1. NoEvent \in EventType
    BY DEF NoEvent, EventType, NotOwned, OwnType, NoRow, RowType, NoThread
  <2> QED BY <2>1 DEF Crash, Fewer
<1>4. Membership'
  BY <1>1, Shrunk
<1> QED BY <1>1, <1>2, <1>3, <1>4, Calmed DEF TypeInv, Calm

(* What staff are shown of the subject touches no thread. *)
LEMMA InquireStep ==
  ASSUME IInv, Inquire
  PROVE  IInv'
<1>1. /\ UNCHANGED <<kind, own, managed, discord, job, forget, torn, case, authorised>>
  BY DEF Inquire, Store, Post, StoreHistory, PostHistory, NoChange, document
<1> QED BY <1>1, Beside DEF IInv, TypeInv

(* A step of something else. *)
LEMMA StutterStep ==
  ASSUME IInv, UNCHANGED vars
  PROVE  IInv'
<1>1. UNCHANGED <<kind, own, managed, discord, job, forget, torn, case, authorised>>
  BY DEF vars, discord
<1> QED BY <1>1, Beside DEF IInv, TypeInv

(* Every step preserves the invariant. *)
LEMMA StepIInv == IInv /\ [Next]_vars => IInv'
<1> SUFFICES ASSUME IInv, [Next]_vars
             PROVE  IInv'
  OBVIOUS
<1>1. CASE Pass
  <2>1. ASSUME NEW p \in Owners, ForgetMissing(p) \/ Attempt(p) \/ ReadRows(p)
        PROVE  IInv'
    BY <2>1, ForgetMissingStep, AttemptStep, ReadRowsStep
  <2> QED
    BY <1>1, <2>1, CalmSteps, RemovingSteps, MakeStep, SaveStep, WelcomeStep,
       FinishStep, AuthoriseStep, RemoveOldStep, IntendStep, InviteStep,
       InvitedStep
    DEF Pass
<1>2. ASSUME NEW t \in Thread, Delete(t) \/ ForgetRead(t) \/ ForgetWrite(t)
      PROVE  IInv'
  BY <1>2, DeleteStep, ForgetReadStep, ForgetWriteStep
<1>3. CASE Project \/ Decide \/ Inquire \/ Crash
  BY <1>3, CalmSteps, DecideStep, InquireStep, CrashStep
<1>4. CASE UNCHANGED vars
  BY <1>4, StutterStep
<1> QED BY <1>1, <1>2, <1>3, <1>4 DEF Next, Forget

(* A new case has no threads. *)
LEMMA InitIInv == Init => IInv
<1> SUFFICES ASSUME Init
             PROVE  IInv
  OBVIOUS
<1>1. /\ NotOwned \in OwnType /\ NotOwned.thread = NoThread /\ NoThread = 0
      /\ NoRow \in RowType /\ ~NoRow.there
      /\ NoEvent \in EventType /\ NoEvent.at = "none"
  BY DEF NoEvent, EventType, NotOwned, OwnType, NoRow, RowType, NoThread
<1>2. case \in CaseType
  BY DEF Init, CaseType, Person
<1>3. MaxThreads \in Nat
  BY ThreadsAssumption
<1>4. TypeInv
  <2>1. managed \in [Thread -> RowType] /\ forget \in [Thread -> EventType]
    BY <1>1 DEF Init
  <2>2. own \in [Owners -> OwnType] /\ job \in JobType
    BY <1>1, UnlockedIsCalm DEF Init
  <2>3. made \in 0..MaxThreads /\ living \subseteq 1..made /\ torn \in BOOLEAN
    <3>1. made = 0 /\ living = {} /\ torn = FALSE
      BY DEF Init
    <3>2. 0 \in 0..MaxThreads
      BY <1>3
    <3> QED BY <3>1, <3>2
  <2>4. members \in [Thread -> SUBSET (Staff \union Owners)]
    BY DEF Init
  <2>5. authorised \subseteq Staff
    BY DEF Init
  <2> QED BY <1>2, <2>1, <2>2, <2>3, <2>4, <2>5 DEF TypeInv
<1>5. \A p \in Owners : ThreadOf(p) = NoThread
  BY <1>1 DEF Init, ThreadOf
<1>6. Records
  BY <1>1, <1>5 DEF Records, Owners, Init
<1>7. job.at \in Calm
  BY UnlockedIsCalm DEF Init
<1>8. Making /\ Inviting /\ RowsRead /\ Invitation
  BY <1>7 DEF Making, Inviting, RowsRead, Invitation, Calm, OwnPlaces, RowPlaces
<1>9. Forgetting
  BY <1>1 DEF Init, Forgetting
<1>10. Membership
  BY <1>1 DEF Init, Membership
<1> QED BY <1>4, <1>6, <1>8, <1>9, <1>10 DEF IInv

(* The invariant holds whatever fails and whoever interleaves. *)
THEOREM Invariance == Spec => []IInv
BY InitIInv, StepIInv, PTL DEF Spec

-----------------------------------------------------------------------------
(* No two reporters are ever in one thread, whatever fails, is lost or is
   deleted, as long as no deletion handler overwrites what it has not read. *)
THEOREM NoSharedThreadSafe == Spec => []NoSharedThread
<1>1. IInv => NoSharedThread
  <2> SUFFICES ASSUME IInv, ~torn, NEW t \in living,
                      Opener \in members[t], Joiner \in members[t]
               PROVE  FALSE
    BY DEF NoSharedThread, SharedThread
  <2>1. t \in Thread /\ t \in Recorded
    BY Numbers DEF IInv, Membership
  <2>2. PICK p \in Owners : ThreadOf(p) = t
    BY <2>1 DEF Recorded
  <2>3. members[t] \subseteq {p} \union Staff
    BY <2>1, <2>2 DEF IInv, Membership, TypeInv, RowType
  <2> QED BY <2>3, ThreadsAssumption DEF Owners
<1> QED BY <1>1, Invariance, PTL

(* Whoever is in a thread besides its owner is among its stored invitations,
   after a lost acknowledgement, a crash or a deletion too. *)
THEOREM MembersAreRecordedSafe == Spec => []MembersAreRecorded
<1>1. IInv => MembersAreRecorded
  BY DEF IInv, MembersAreRecorded, Membership
<1> QED BY <1>1, Invariance, PTL

(* The subject of a complaint is never added to a thread: neither as its owner
   nor as the staff member a pass authorised before. *)
THEOREM SubjectStaysOutSafe == Spec => SubjectStaysOut
<1> DEFINE Out == \A t \in Thread : kind = "complaint" =>
                    case.subject \notin members'[t] \ members[t]
<1>1. IInv /\ [Next]_vars => [Out]_vars
  <2> SUFFICES ASSUME IInv, Next
               PROVE  Out
    OBVIOUS
  <2>1. CASE UNCHANGED members
    BY <2>1
  <2>2. CASE Welcome
    <3>1. PICK p, u : p = job.person /\ u = job.thread
      OBVIOUS
    <3>2. CASE Add(u, p) /\ ~(kind = "complaint" /\ Conflicted(p))
      <4>1. kind = "complaint" => p # case.subject
        BY <3>2 DEF Conflicted
      <4>2. \A t \in Thread : members'[t] \subseteq members[t] \union {p}
        BY <3>2 DEF Add, IInv, TypeInv
      <4> QED BY <4>1, <4>2
    <3> QED BY <2>1, <2>2, <3>1, <3>2 DEF Welcome, membership
  <2>3. CASE Invite
    <3>1. /\ job.staff # None
          /\ kind = "complaint" => job.staff # case.subject
      BY <2>3 DEF Invite, At, IInv, Inviting, RowPlaces, Wanted
    <3> QED BY <2>3, <3>1 DEF Invite, Add, IInv, TypeInv, membership
  <2>4. CASE Exclude \/ Eject
    BY <2>4 DEF Exclude, Eject, Remove, IInv, TypeInv, membership
  <2>5. CASE RemoveOld
    BY <2>5 DEF RemoveOld, Remove, IInv, TypeInv, membership
  <2>6. ASSUME NEW t \in Thread, Delete(t)
        PROVE  Out
    BY <2>6 DEF Delete, IInv, TypeInv
  <2>7. CASE Make
    BY <2>1, <2>7 DEF Make, Create, discord, membership
  <2>8. ASSUME NEW p \in Owners, ForgetMissing(p) \/ Attempt(p) \/ ReadRows(p)
        PROVE  UNCHANGED members
    BY <2>8 DEF ForgetMissing, Attempt, ReadRows, discord
  <2>9. CASE Begin \/ Validated \/ Save \/ Finish \/ Authorise \/ Intend
             \/ Invited \/ Project
    BY <2>1, <2>9
    DEF Begin, Validated, Save, Finish, Authorise, Intend, Invited, Project, discord
  <2>10. CASE Decide \/ Inquire \/ Crash
    BY <2>1, <2>10
    DEF Decide, Take, Release, Close, Reopen, Join, LoseOrGainRole, SetSubject,
        Inquire, Store, Post, StoreHistory, PostHistory, NoChange, Crash, discord,
        membership
  <2>11. ASSUME NEW t \in Thread, ForgetRead(t) \/ ForgetWrite(t)
         PROVE  UNCHANGED members
    BY <2>11 DEF ForgetRead, ForgetWrite, discord
  <2> QED BY <2>1, <2>2, <2>3, <2>4, <2>5, <2>6, <2>7, <2>8, <2>9, <2>10, <2>11
          DEF Next, Pass, Forget
<1> QED BY <1>1, Invariance, PTL DEF Spec, SubjectStaysOut

(* Staff are only ever shown the history of the present selection, and what
   is not marked as owed is its history. *)
THEOREM HistoryOfSubjectSafe == Spec => HistoryOfSubject
<1> DEFINE Shown == /\ posted' \ posted \subseteq {evidence.selection}
                    /\ ~evidence'.owed => evidence'.history = evidence'.selection
           Typed == evidence \in [selection : Nat, history : Nat, owed : BOOLEAN]
           Inv == Typed /\ Settled
<1>1. Init => Inv
  BY DEF Init, Settled
<1>2. Inv /\ [Next]_vars => Inv' /\ [Shown]_vars
  <2> SUFFICES ASSUME Inv, [Next]_vars
               PROVE  Inv' /\ posted' \ posted \subseteq {evidence.selection}
    BY DEF Settled
  <2> USE DEF Settled
  <2>1. CASE UNCHANGED <<evidence, posted>>
    BY <2>1
  <2>2. ASSUME NEW s \in Subjects, SetSubject(s)
        PROVE  Inv' /\ posted' \ posted \subseteq {evidence.selection}
    <3>1. /\ evidence' = [evidence EXCEPT !.selection = @ + 1, !.owed = TRUE]
          /\ posted' = posted
      BY <2>2 DEF SetSubject, Accuse
    <3>2. Typed /\ evidence.selection + 1 \in Nat
      OBVIOUS
    <3>3. Typed'
      BY <3>1, <3>2
    <3>4. evidence'.owed
      BY <3>1, <3>2
    <3> QED BY <3>1, <3>3, <3>4
  <2>3. ASSUME NEW n \in Selection, StoreHistory(n)
        PROVE  Inv' /\ posted' \ posted \subseteq {evidence.selection}
    BY <2>3 DEF StoreHistory, Selected, Selection
  <2>4. ASSUME NEW n \in Selection, PostHistory(n)
        PROVE  Inv' /\ posted' \ posted \subseteq {evidence.selection}
    BY <2>4 DEF PostHistory, Selected
  <2>5. CASE Decide
    BY <2>1, <2>2, <2>5
    DEF Decide, Take, Release, Close, Reopen, Join, LoseOrGainRole, inquiry
  <2>6. CASE Pass
    <3>1. ASSUME NEW p \in Owners, ForgetMissing(p) \/ Attempt(p) \/ ReadRows(p)
          PROVE  UNCHANGED <<evidence, posted>>
      BY <3>1 DEF ForgetMissing, Attempt, ReadRows, bounds, inquiry
    <3> QED
      BY <2>1, <2>6, <3>1
      DEF Pass, Begin, Validated, Make, Save, Welcome, Finish, Exclude, Authorise,
          RemoveOld, Intend, Invite, Invited, Eject, bounds, inquiry
  <2>7. ASSUME NEW t \in Thread, Delete(t) \/ ForgetRead(t) \/ ForgetWrite(t)
        PROVE  UNCHANGED <<evidence, posted>>
    BY <2>7 DEF Delete, ForgetRead, ForgetWrite, bounds, inquiry
  <2>8. CASE Project \/ Crash \/ UNCHANGED vars
    BY <2>1, <2>8 DEF Project, Crash, vars, bounds, inquiry
  <2> QED BY <2>3, <2>4, <2>5, <2>6, <2>7, <2>1, <2>8
        DEF Next, Inquire, Store, Post, Forget
<1> QED BY <1>1, <1>2, PTL DEF Spec, HistoryOfSubject
=============================================================================
