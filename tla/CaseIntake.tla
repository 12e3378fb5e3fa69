----------------------------- MODULE CaseIntake -----------------------------
(***************************************************************************)
(* How a report becomes a case: open and merge of cases/service.py, on top *)
(* of the two unique indexes of cases/store.py, while staff close and      *)
(* reopen cases and the bot dies.  The commands that set a subject refuse  *)
(* a report that has one, so its key does not change.                      *)
(*                                                                         *)
(* A submission from the game is an event of the stream: it is delivered   *)
(* again until it is acknowledged or its attempts are used up.  One from   *)
(* Discord is sent once, and an error is shown to its sender.  A handler   *)
(* holds the in-memory lock of its reporter from the first read to the     *)
(* stored case.  Staff decisions are single steps here: each is one        *)
(* compare-and-set on the revision it read (CaseActions has the details).  *)
(***************************************************************************)
EXTENDS Naturals, FiniteSets, Sequences

CONSTANTS
  Submission,   \* submission ids
  Discord,      \* those that come from the panel
  By,           \* the reporter of each submission
  About,        \* the player each submission is about
  Target,       \* players
  None,         \* no submission
  MaxOpen,      \* cases_max_open_per_user
  MergeTries,   \* compare-and-set attempts of merge (five in the code)
  MaxAttempts,  \* deliveries that may fail before the dead-letter queue
  MaxStaff,     \* bound: staff decisions
  MaxCrashes    \* bound: deaths of the bot

ASSUME IntakeAssumption ==
  /\ Discord \subseteq Submission
  /\ About \in [Submission -> Target]
  /\ None \notin Submission
  /\ {MaxOpen, MergeTries, MaxAttempts} \subseteq Nat \ {0}
  /\ {MaxStaff, MaxCrashes} \subseteq Nat

VARIABLES
  cases,     \* the collection, by number
  req,       \* the handler of each submission
  recent,    \* submissions stored less than a cooldown ago
  attempts,  \* failed deliveries of each submission
  staff, crashes

vars == <<cases, req, recent, attempts, staff, crashes>>

Active == {"creating", "open"}
Number == DOMAIN cases

Unread == [status |-> "none", key |-> None, origin |-> None, joined |-> {},
           revision |-> 0, reopened |-> FALSE]
New == [at |-> "sent", number |-> 0, read |-> Unread, tries |-> 0]

Init ==
  /\ cases = <<>>
  /\ req = [s \in Submission |-> New]
  /\ recent = {}
  /\ attempts = [s \in Submission |-> 0]
  /\ staff = 0
  /\ crashes = 0

-----------------------------------------------------------------------------
(* Queries *)

In(s, case) == s = case.origin \/ s \in case.joined
Filed(s) == \E n \in Number : In(s, cases[n])

(* Mutant: the lookup by submission forgets merged reporters. *)
BySubmissionOrigin(s) == {n \in Number : s = cases[n].origin}

BySubmission(s) == {n \in Number : In(s, cases[n])}

ByKey(key) == {n \in Number : cases[n].status \in Active /\ cases[n].key = key}

Reporters(case) == {By[s] : s \in case.joined \union {case.origin}}

CountOpen(person) ==
  Cardinality({n \in Number : /\ cases[n].status \in Active
                              /\ person \in Reporters(cases[n])})

Locked == {"known", "limits", "insert", "clash", "key", "merge", "join"}

(* Mutant: every submission has a lock of its own. *)
LockFreeAlways(person) == TRUE

LockFree(person) ==
  \A s \in Submission : By[s] = person => req[s].at \notin Locked

-----------------------------------------------------------------------------
(* open, under the lock of the reporter *)

At(s, place) == req[s].at = place
Goto(s, place) == req' = [req EXCEPT ![s].at = place]
Bounds == UNCHANGED <<attempts, staff, crashes>>

Acquire(s) ==
  /\ At(s, "sent")
  /\ LockFree(By[s])
  /\ Goto(s, "known")
  /\ UNCHANGED <<cases, recent>> /\ Bounds

Known(s) ==
  /\ At(s, "known")
  /\ Goto(s, IF BySubmission(s) # {} THEN "filed"
             ELSE IF s \in Discord THEN "limits" ELSE "insert")
  /\ UNCHANGED <<cases, recent>> /\ Bounds

(* _check_limits: the cap, then the cooldown since the latest submission. *)
Limits(s) ==
  /\ At(s, "limits")
  /\ Goto(s, IF \/ CountOpen(By[s]) >= MaxOpen
                \/ \E r \in recent : By[r] = By[s]
             THEN "refused" ELSE "insert")
  /\ UNCHANGED <<cases, recent>> /\ Bounds

Insert(s) ==
  /\ At(s, "insert")
  /\ IF \/ ByKey(About[s]) # {}
        \/ \E n \in Number : cases[n].origin = s
     THEN /\ Goto(s, "clash")
          /\ UNCHANGED <<cases, recent>>
     ELSE /\ cases' = Append(cases, [Unread EXCEPT !.status = "creating",
                               !.key = About[s], !.origin = s, !.revision = 1])
          /\ recent' = recent \union {s}
          /\ Goto(s, "filed")
  /\ Bounds

Clash(s) ==
  /\ At(s, "clash")
  /\ Goto(s, IF BySubmission(s) # {} THEN "filed" ELSE "key")
  /\ UNCHANGED <<cases, recent>> /\ Bounds

(* Mutant: the consumer acknowledges an event whose handler failed. *)
FailedIsFinal(s) ==
  Goto(s, "refused") /\ UNCHANGED attempts

(* An error is final for a Discord submission and a failed delivery for a
   game event, whose attempts are counted. *)
Failed(s) ==
  IF s \in Discord
    THEN Goto(s, "refused") /\ UNCHANGED attempts
    ELSE /\ attempts' = [attempts EXCEPT ![s] = @ + 1]
         /\ req' = [req EXCEPT ![s] =
              IF attempts[s] + 1 >= MaxAttempts
                THEN [New EXCEPT !.at = "dead"] ELSE New]

(* The case that owned the key may be closed by now: the error goes up. *)
Key(s) ==
  /\ At(s, "key")
  /\ \/ /\ ByKey(About[s]) = {}
        /\ Failed(s)
     \/ \E n \in ByKey(About[s]) :
          /\ req' = [req EXCEPT ![s].at = "merge", ![s].number = n]
          /\ UNCHANGED attempts
  /\ UNCHANGED <<cases, recent, staff, crashes>>

(* merge: reads the case by its number, then pushes the reporter. *)
Merge(s) ==
  /\ At(s, "merge")
  /\ LET case == cases[req[s].number] IN
     IF case.status \notin Active
       THEN Failed(s)
       ELSE /\ IF In(s, case)
                 THEN Goto(s, "filed")
                 ELSE req' = [req EXCEPT ![s].at = "join", ![s].read = case]
            /\ UNCHANGED attempts
  /\ UNCHANGED <<cases, recent, staff, crashes>>

Join(s) ==
  /\ At(s, "join")
  /\ LET n == req[s].number IN
     \/ /\ cases[n].revision = req[s].read.revision
        /\ cases' = [cases EXCEPT ![n].joined = @ \union {s},
                                  ![n].revision = @ + 1]
        /\ recent' = recent \union {s}
        /\ Goto(s, "filed")
        /\ UNCHANGED attempts
     \/ /\ cases[n].revision # req[s].read.revision
        /\ IF req[s].tries + 1 < MergeTries
             THEN /\ req' = [req EXCEPT ![s].at = "merge", ![s].tries = @ + 1]
                  /\ UNCHANGED attempts
             ELSE Failed(s)
        /\ UNCHANGED <<cases, recent>>
  /\ UNCHANGED <<staff, crashes>>

(* The handler returns; only now is the event acknowledged. *)
Acknowledge(s) ==
  /\ At(s, "filed")
  /\ Goto(s, "done")
  /\ UNCHANGED <<cases, recent>> /\ Bounds

-----------------------------------------------------------------------------
(* Everybody else *)

Write(n, case) ==
  cases' = [cases EXCEPT ![n] = [case EXCEPT !.revision = @ + 1]]

(* The post exists: the case is open. *)
Created(n) ==
  /\ cases[n].status = "creating"
  /\ Write(n, [cases[n] EXCEPT !.status = "open"])
  /\ UNCHANGED <<req, recent>> /\ Bounds

Staff(n, case) ==
  /\ staff < MaxStaff
  /\ staff' = staff + 1
  /\ Write(n, case)
  /\ UNCHANGED <<req, recent, attempts, crashes>>

(* take, release: the revision moves on, nothing else that matters here. *)
Take(n) == cases[n].status = "open" /\ Staff(n, cases[n])

Close(n) ==
  /\ cases[n].status = "open"
  /\ Staff(n, [cases[n] EXCEPT !.status = "closed"])

(* The repair pass gives up a case that was never created. *)
Abandon(n) ==
  /\ cases[n].status = "creating"
  /\ Staff(n, [cases[n] EXCEPT !.status = "cancelled"])

(* The index on the key refuses it while another case has the key. *)
Reopen(n) ==
  /\ cases[n].status = "closed"
  /\ ByKey(cases[n].key) = {}
  /\ Staff(n, [cases[n] EXCEPT !.status = "open", !.reopened = TRUE])

(* The cooldown of one reporter runs out. *)
Elapse(s) ==
  /\ s \in recent
  /\ recent' = {r \in recent : By[r] # By[s]}
  /\ UNCHANGED <<cases, req>> /\ Bounds

(* Every handler and lock is gone; events not acknowledged come again. *)
Crash ==
  /\ crashes < MaxCrashes
  /\ crashes' = crashes + 1
  /\ req' = [s \in Submission |->
       IF req[s].at \in {"done", "refused", "dead"} THEN req[s]
       ELSE IF s \in Discord /\ req[s].at # "sent"
         THEN [New EXCEPT !.at = "refused"] ELSE New]
  /\ UNCHANGED <<cases, recent, attempts, staff>>

Handle(s) ==
  \/ Acquire(s) \/ Known(s) \/ Limits(s) \/ Insert(s) \/ Clash(s)
  \/ Key(s) \/ Merge(s) \/ Join(s) \/ Acknowledge(s)

Next ==
  \/ \E s \in Submission : Handle(s) \/ Elapse(s)
  \/ \E n \in Number :
       Created(n) \/ Take(n) \/ Close(n) \/ Abandon(n) \/ Reopen(n)
  \/ Crash

(* The consumer and the panel's handlers keep running.  The lock is a fair
   asyncio.Lock, hence strong fairness for its holder to come. *)
Fairness ==
  \A s \in Submission : SF_vars(Acquire(s)) /\ WF_vars(Handle(s))

Spec == Init /\ [][Next]_vars
FairSpec == Spec /\ Fairness

-----------------------------------------------------------------------------
Case == [status : Active \union {"closed", "cancelled", "none"},
         key : Target \union {None}, origin : Submission \union {None},
         joined : SUBSET Submission, revision : Nat, reopened : BOOLEAN]

TypeOK ==
  /\ cases \in Seq(Case)
  /\ req \in [Submission ->
       [at : Locked \union {"sent", "filed", "done", "refused", "dead"},
        number : 0..Len(cases), read : Case, tries : 0..MergeTries - 1]]
  /\ recent \subseteq Submission
  /\ attempts \in [Submission -> 0..MaxAttempts]
  /\ staff \in 0..MaxStaff
  /\ crashes \in 0..MaxCrashes

(* A submission is stored in one case and once there, however often its
   event is delivered and whatever happened to the case in between
   (by_submission before the insert, merge idempotent by submission). *)
FiledOnce ==
  \A s \in Submission :
    /\ Cardinality({n \in Number : In(s, cases[n])}) <= 1
    /\ \A n \in Number : ~(s = cases[n].origin /\ s \in cases[n].joined)

(* The cap of _check_limits is not passed by sending twice at once: the
   active cases somebody entered from Discord, the ones that staff reopened
   aside, are at most MaxOpen. *)
OpenCap ==
  \A s \in Discord :
    Cardinality({n \in Number :
      /\ cases[n].status \in Active /\ ~cases[n].reopened
      /\ \E d \in Discord : By[d] = By[s] /\ In(d, cases[n])}) <= MaxOpen

(* A report from the game is stored whatever the staff do meanwhile, if the
   deliveries that may fail outnumber their decisions. *)
EventuallyFiled == \A s \in Submission \ Discord : <>Filed(s)
=============================================================================
