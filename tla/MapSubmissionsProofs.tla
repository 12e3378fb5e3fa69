------------------------- MODULE MapSubmissionsProofs -------------------------
(***************************************************************************)
(* No upload is repeated blindly and what is installed is what was         *)
(* reviewed, for any number of files, attempts, deletions, crashes and     *)
(* silent servers.  The case remembers a doubt as long as the bot has one  *)
(* (Unsettled), and the only writer that can wipe it out for another file, *)
(* an inspection, writes at a revision that had none (FetchOK).            *)
(*                                                                         *)
(* The badge of the author is complete when every linked account has it: a *)
(* pass knows what it has done of the accounts it started with (Served).   *)
(***************************************************************************)
EXTENDS MapSubmissions, FiniteSetTheorems, WellFoundedInduction, TLAPS

Case == [st : {"absent", "open", "accepted", "rejected"}, rev : 1..2, guard : Nat,
         token : Nat, file : Nat, stamp : 1..2, sha : Nat, pending : BOOLEAN,
         upload : {"none", "unknown", "result", "installed"}, hook : BOOLEAN,
         badge : {"none", "pending", "complete"}]
Inspection == [at : {"none", "read", "write"}, rev : 0..2, file : Nat, sha : Nat,
               pending : BOOLEAN]
Form == [at : {"none", "asked", "chosen"}, stamp : 0..2, file : Nat]
Action == [at : {"none", "mark", "latest", "send", "wait", "refused", "audit",
                 "installed", "close", "failed"},
           file : Nat, seen : Nat, token : Nat]
Upload == [at : {"none", "sent", "installed", "refused"}, file : Nat, seen : Nat,
           known : BOOLEAN]

TypeInv ==
  /\ posted \in Nat /\ posts \subseteq 1..posted
  /\ case \in Case /\ fetch \in Inspection /\ form \in Form /\ acc \in Action
  /\ uploads \in [Attempt -> Upload]

(* The guard, living or left behind, is that of the last attempt. *)
GuardOK == case.guard # 0 => case.guard = case.token /\ case.token \in Attempt

(* Attempts that have not been made have sent nothing. *)
NotYetSent == \A t \in Attempt : t > case.token => uploads[t].at = "none"

(* An upload whose outcome the bot does not know is the last one, and the case
   says so. *)
Sent(t) == uploads[t].at # "none"
Unsettled ==
  \A t \in Attempt : Sent(t) /\ ~uploads[t].known => t = case.token /\ Unknown

(* The action works on an open case under its guard. *)
ActionOK ==
  acc.at # "none" =>
    /\ case.st = "open" /\ case.guard = acc.token /\ acc.token \in Attempt
    /\ acc.at # "failed" => acc.file = acc.seen
    /\ acc.at \in {"latest", "send"} => Unknown
    /\ acc.at \in {"mark", "latest", "send"} => ~Sent(acc.token)
    /\ acc.at \in {"refused", "audit", "installed", "close"} =>
         uploads[acc.token].known
    /\ acc.at \in {"audit", "installed", "close"} =>
         uploads[acc.token].at = "installed"

AsReviewed == \A t \in Attempt : uploads[t].file = uploads[t].seen

Done(t) == t \in Attempt /\ uploads[t].at = "installed" /\ uploads[t].known

(* What is on record as installed was answered so, and so was what is accepted. *)
OnRecord == \A a \in audits : Done(a.token)
AcceptedOK == case.st = "accepted" => Done(case.token)

(* An inspection that can still be written found a case without action or
   doubt. *)
FetchOK ==
  fetch.at # "none" /\ fetch.rev = case.rev => Idle /\ ~Unknown

(* A reviewer with the stamp of the case has seen its file. *)
FormOK ==
  form.at # "none" =>
    case.st # "absent" /\ (form.stamp = case.stamp => form.file = case.file)

IInv ==
  /\ TypeInv /\ GuardOK /\ NotYetSent /\ Unsettled /\ ActionOK /\ AsReviewed
  /\ OnRecord /\ AcceptedOK /\ FetchOK /\ FormOK

-----------------------------------------------------------------------------
(* The newest of the posts is one of them. *)
LEMMA LatestOK ==
  ASSUME NEW n \in Nat, posts \subseteq 1..n, posts # {}
  PROVE  Latest \in Nat
<1> DEFINE below == {n - f : f \in posts}
<1>1. below \subseteq Nat /\ below # {}
  OBVIOUS
<1>2. PICK d \in below : \A e \in below : <<e, d>> \notin OpToRel(<, Nat)
  BY <1>1, WFMin, NatLessThanWellFounded
<1>3. \A e \in below : ~ (e < d)
  BY <1>1, <1>2 DEF OpToRel
<1>4. PICK f \in posts : d = n - f
  OBVIOUS
<1>5. \A g \in posts : n - g \in below
  OBVIOUS
<1>6. \A g \in posts : f >= g
  BY <1>3, <1>4, <1>5
<1>7. Latest \in posts
  BY <1>4, <1>6 DEF Latest, Max
<1>8. \A g \in posts : g \in Nat
  OBVIOUS
<1> QED BY <1>7, <1>8

(* Nothing in progress. *)
LEMMA IdleOK == NoFetch \in Inspection /\ NoForm \in Form /\ NoAcc \in Action
BY DEF NoFetch, NoForm, NoAcc, NoFile, Inspection, Form, Action

(* A new stamp is one that no form holds. *)
LEMMA NewStampOK == NewStamp \in 1..2 /\ NewStamp # form.stamp
<1>1. \E s \in 1..2 : s # form.stamp
  OBVIOUS
<1> QED BY <1>1 DEF NewStamp

(* A write of the case has a revision that no inspection holds. *)
LEMMA WriteOK ==
  ASSUME NEW c \in Case, Write(c)
  PROVE  /\ case' \in Case /\ case'.rev # fetch.rev
         /\ case'.st = c.st /\ case'.guard = c.guard /\ case'.token = c.token
         /\ case'.file = c.file /\ case'.stamp = c.stamp /\ case'.upload = c.upload
<1>1. \E r \in 1..2 : r # fetch.rev
  OBVIOUS
<1>2. NewRevision \in 1..2 /\ NewRevision # fetch.rev
  BY <1>1 DEF NewRevision
<1> QED BY <1>2 DEF Case, Write

(* The post has its first file and no case. *)
LEMMA InitIInv == Init => IInv
BY DEF Init, IInv, TypeInv, Case, Inspection, Form, Action, Upload, GuardOK,
       NotYetSent, Sent, Unsettled, ActionOK, AsReviewed, OnRecord, AcceptedOK,
       FetchOK, FormOK, Attempt, NoFetch, NoForm, NoAcc, NoFile

-----------------------------------------------------------------------------
(* What the steps leave of the invariant *)

(* A step that neither writes the case nor touches an upload. *)
LEMMA QuietStep ==
  ASSUME IInv, UNCHANGED <<case, uploads, audits>>,
         posted' \in Nat, posts' \subseteq 1..posted',
         fetch' \in Inspection, form' \in Form, acc' \in Action,
         FetchOK', FormOK', ActionOK'
  PROVE  IInv'
BY DEF IInv, TypeInv, GuardOK, NotYetSent, Sent, Unsettled, Unknown, AsReviewed,
       OnRecord, Done, AcceptedOK

NoDoubt == \A t \in Attempt : Sent(t) => uploads[t].known

(* A step that writes the case, makes no attempt and touches no upload. *)
LEMMA WriteStep ==
  ASSUME IInv, NEW c \in Case, Write(c),
         UNCHANGED <<posts, posted, uploads, audits>>,
         c.token = case.token,
         c.guard \in {0, case.guard},
         \/ c.upload = case.upload
         \/ NoDoubt
         \/ c.upload = "unknown",
         c.st = "accepted" => Done(case.token),
         c.st = "absent" => case.st = "absent",
         \/ c.file = case.file /\ c.stamp = case.stamp
         \/ c.stamp # form.stamp
         \/ case.st = "absent",
         fetch' \in {fetch, NoFetch}, form' = form, acc' \in Action,
         ActionOK'
  PROVE  IInv'
<1>1. /\ case' \in Case /\ case'.rev # fetch.rev
      /\ case'.st = c.st /\ case'.guard = c.guard /\ case'.token = c.token
      /\ case'.file = c.file /\ case'.stamp = c.stamp /\ case'.upload = c.upload
  BY WriteOK
<1>2. TypeInv'
  <2>1. fetch' \in Inspection
    BY IdleOK DEF IInv, TypeInv
  <2> QED BY <1>1, <2>1 DEF IInv, TypeInv
<1>3. GuardOK' /\ NotYetSent' /\ AsReviewed' /\ OnRecord' /\ AcceptedOK'
  BY <1>1 DEF IInv, GuardOK, NotYetSent, Sent, AsReviewed, OnRecord, Done, AcceptedOK
<1>4. Unsettled'
  BY <1>1 DEF IInv, Unsettled, NoDoubt, Sent, Unknown
<1>5. FetchOK'
  BY <1>1 DEF FetchOK, NoFetch
<1>6. FormOK'
  BY <1>1 DEF IInv, FormOK
<1> QED BY <1>2, <1>3, <1>4, <1>5, <1>6 DEF IInv

(* Without doubt in the case there is none. *)
LEMMA NoDoubtOK == IInv /\ (~Unknown \/ case.st = "accepted") => NoDoubt
BY DEF IInv, Unsettled, NoDoubt, AcceptedOK, Done

(* A step of the action under its guard: nobody else can write meanwhile. *)
LEMMA GuardHeld ==
  ASSUME IInv, acc.at # "none"
  PROVE  ~Idle /\ case.st = "open" /\ case.guard # 0
BY DEF IInv, ActionOK, Idle, Attempt

-----------------------------------------------------------------------------
(* The post *)

(* Posting and deleting leave the case and the action alone. *)
LEMMA PostStep ==
  ASSUME IInv, \/ Post
               \/ \E f \in 1..MaxFiles : DeleteMessage(f)
               \/ UNCHANGED vars
  PROVE  IInv'
<1>1. /\ UNCHANGED <<case, fetch, form, acc, uploads, audits>>
      /\ posted' \in Nat /\ posts' \subseteq 1..posted'
  <2>0. posted \in Nat /\ posts \subseteq 1..posted
    BY DEF IInv, TypeInv
  <2>1. CASE Post
    BY <2>0, <2>1 DEF Post
  <2>2. CASE \E f \in 1..MaxFiles : DeleteMessage(f)
    BY <2>0, <2>2 DEF DeleteMessage
  <2>3. CASE UNCHANGED vars
    BY <2>0, <2>3 DEF vars
  <2> QED BY <2>1, <2>2, <2>3
<1>2. FetchOK' /\ FormOK' /\ ActionOK'
  BY <1>1 DEF IInv, FetchOK, FormOK, ActionOK, Idle, Actionable, Unknown, Sent
<1> QED BY <1>1, <1>2, QuietStep DEF IInv, TypeInv

(* The first file of the post, or the newest, is a file. *)
LEMMA IntakeStep == IInv /\ Intake => IInv'
<1> SUFFICES ASSUME IInv, Intake
             PROVE  IInv'
  OBVIOUS
<1>1. PICK f \in {Latest} \union ({1} \intersect posts) :
        Write([case EXCEPT !.st = "open", !.file = f])
  BY DEF Intake
<1> DEFINE c == [case EXCEPT !.st = "open", !.file = f]
<1>2. f \in Nat
  BY LatestOK DEF Intake, IInv, TypeInv
<1>3. /\ c \in Case
      /\ c.token = case.token /\ c.guard = case.guard /\ c.upload = case.upload
      /\ c.st = "open"
  BY <1>2 DEF IInv, TypeInv, Case
<1>4. Write(c) /\ case.st = "absent"
  BY <1>1 DEF Intake
<1>5. UNCHANGED <<posts, posted, fetch, form, acc, uploads, audits>>
  BY DEF Intake, forum
<1>6. acc.at = "none"
  BY <1>4 DEF IInv, ActionOK
<1>7. ActionOK'
  BY <1>5, <1>6 DEF ActionOK
<1> HIDE DEF c
<1> QED BY <1>3, <1>4, <1>5, <1>7, WriteStep DEF IInv, TypeInv

-----------------------------------------------------------------------------
(* Inspection *)

(* An inspection begins on a case without action or doubt. *)
LEMMA FetchStep ==
  ASSUME IInv, UNCHANGED <<posts, posted, case, form, acc, uploads, audits>>,
         \/ fetch' \in {fetch, NoFetch}
         \/ Idle /\ ~Unknown /\ \E f \in Nat : Fetch(f)
         \/ /\ fetch.at # "none" /\ fetch' \in Inspection
            /\ fetch'.rev = fetch.rev
  PROVE  IInv'
<1>1. fetch' \in Inspection
  <2>1. CASE fetch' \in {fetch, NoFetch}
    BY <2>1, IdleOK DEF IInv, TypeInv
  <2>2. ASSUME NEW f \in Nat, Fetch(f)
        PROVE  fetch' \in Inspection
    <3>1. case.rev \in 0..2
      BY DEF IInv, TypeInv, Case
    <3> QED BY <2>2, <3>1 DEF Fetch, NoFetch, NoFile, Inspection
  <2> QED BY <2>1, <2>2
<1>2. FetchOK'
  BY DEF IInv, FetchOK, NoFetch, Idle, Actionable, Unknown
<1>3. FormOK' /\ ActionOK'
  BY DEF IInv, FormOK, ActionOK, Unknown, Sent
<1> QED BY <1>1, <1>2, <1>3, QuietStep DEF IInv, TypeInv

(* Each of the three ways to begin an inspection looks for action and doubt. *)
LEMMA BeginStep ==
  ASSUME IInv, \/ Reinspect \/ Recheck
               \/ \E f \in 1..MaxFiles : OnMessage(f)
  PROVE  IInv'
<1>1. case.file \in Nat /\ (posts # {} => Latest \in Nat)
  <2>1. posted \in Nat /\ posts \subseteq 1..posted /\ case \in Case
    BY DEF IInv, TypeInv
  <2>2. posts # {} => Latest \in Nat
    BY <2>1, LatestOK
  <2>3. case.file \in Nat
    BY <2>1 DEF Case
  <2> QED BY <2>1, <2>2, <2>3
<1>2. CASE Reinspect
  BY <1>1, <1>2, FetchStep DEF Reinspect, forum
<1>3. CASE Recheck
  BY <1>1, <1>3, FetchStep DEF Recheck, forum
<1>4. ASSUME NEW f \in 1..MaxFiles, OnMessage(f)
      PROVE  IInv'
  BY <1>4, FetchStep DEF OnMessage, MapSubmissionsAssumption
<1> QED BY <1>2, <1>3, <1>4

(* The checks leave the revision the inspection began at. *)
LEMMA InspectStep == IInv /\ Inspect => IInv'
<1> SUFFICES ASSUME IInv, Inspect
             PROVE  IInv'
  OBVIOUS
<1>1. PICK sha \in {NoFile, fetch.file}, pending \in BOOLEAN :
        fetch' = [fetch EXCEPT !.at = "write", !.sha = sha, !.pending = pending]
  BY DEF Inspect
<1>2. fetch' \in Inspection /\ fetch'.rev = fetch.rev
  <2>1. fetch \in Inspection
    BY DEF IInv, TypeInv
  <2>2. sha \in Nat
    BY <2>1 DEF Inspection, NoFile
  <2> QED BY <1>1, <2>1, <2>2 DEF Inspection
<1> QED BY <1>2, FetchStep DEF Inspect, forum

(* Another file comes under review with a new stamp, and on a case without
   doubt. *)
LEMMA InspectedStep == IInv /\ Inspected => IInv'
<1> SUFFICES ASSUME IInv, Inspected
             PROVE  IInv'
  OBVIOUS
<1>1. CASE fetch.rev # case.rev
  BY <1>1, FetchStep DEF Inspected, forum
<1>2. CASE fetch.rev = case.rev
  <2> DEFINE kept == [case EXCEPT !.file = fetch.file, !.stamp = NewStamp,
                        !.sha = fetch.sha, !.pending = fetch.pending]
             c == IF fetch.file = case.file THEN kept
                  ELSE [kept EXCEPT !.upload = "none", !.badge = "none"]
  <2>1. /\ Write(c) /\ fetch' = NoFetch
        /\ UNCHANGED <<posts, posted, form, acc, uploads, audits>>
    BY <1>2 DEF Inspected, forum
  <2>2. case \in Case /\ fetch \in Inspection
    BY DEF IInv, TypeInv
  <2>3. /\ c \in Case /\ c.st = case.st /\ c.guard = case.guard
        /\ c.token = case.token /\ c.stamp # form.stamp
    BY <2>2, NewStampOK DEF Case, Inspection
  <2>4. Idle /\ NoDoubt
    BY <1>2, NoDoubtOK DEF IInv, FetchOK, Inspected
  <2>5. ActionOK' /\ acc' \in Action
    BY <2>1, <2>4, GuardHeld DEF ActionOK, IInv, TypeInv
  <2>6. case.st = "open"
    BY <2>4 DEF Idle, Actionable
  <2> HIDE DEF c
  <2> QED BY <2>1, <2>3, <2>4, <2>5, <2>6, WriteStep
<1> QED BY <1>1, <1>2

-----------------------------------------------------------------------------
(* Accept *)

(* Steps of the form, and an action given up. *)
LEMMA FormStep ==
  ASSUME IInv, UNCHANGED <<posts, posted, case, fetch, uploads, audits>>,
         \/ form' = NoForm
         \/ form' = form
         \/ /\ form.at # "none" /\ form' \in Form
            /\ form'.stamp = form.stamp /\ form'.file = form.file
         \/ /\ Idle /\ form' \in Form
            /\ form'.stamp = case.stamp /\ form'.file = case.file,
         \/ acc' \in {acc, NoAcc}
         \/ Fail /\ acc.at # "none"
  PROVE  IInv'
<1>1. form' \in Form /\ FormOK'
  BY IdleOK DEF IInv, TypeInv, FormOK, NoForm, Idle, Actionable
<1>2. acc' \in Action /\ ActionOK'
  <2>1. CASE acc' \in {acc, NoAcc}
    BY <2>1, IdleOK DEF IInv, TypeInv, ActionOK, NoAcc, Unknown, Sent
  <2>2. CASE Fail /\ acc.at # "none"
    <3>1. /\ acc' \in Action /\ acc'.at = "failed" /\ acc'.token = acc.token
      BY <2>2 DEF IInv, TypeInv, Fail, NoAcc, NoFile, Action
    <3> QED BY <2>2, <3>1 DEF IInv, ActionOK
  <2> QED BY <2>1, <2>2
<1>3. FetchOK'
  BY DEF IInv, FetchOK, Idle, Actionable, Unknown
<1> QED BY <1>1, <1>2, <1>3, QuietStep DEF IInv, TypeInv

(* The button notes the stamp and the file of the card. *)
LEMMA AskStep ==
  ASSUME IInv, Press \/ ChooseServer \/ ConfirmAccept \/ Abandon \/ NoAnswer
  PROVE  IInv'
<1>1. CASE Press
  <2>1. form' \in Form /\ form'.stamp = case.stamp /\ form'.file = case.file
    BY <1>1 DEF Press, IInv, TypeInv, Case, Form
  <2>2. /\ UNCHANGED <<posts, posted, case, fetch, acc, uploads, audits>>
        /\ Idle
    BY <1>1 DEF Press, forum
  <2> QED BY <2>1, <2>2, FormStep
<1>2. CASE ChooseServer \/ ConfirmAccept
  <2>1. PICK next \in {"asked", "chosen"} : Step(next) /\ form.at # "none"
    BY <1>2 DEF ChooseServer, ConfirmAccept
  <2>2. \/ form' = NoForm
        \/ /\ form' \in Form
           /\ form'.stamp = form.stamp /\ form'.file = form.file
    BY <2>1 DEF Step, IInv, TypeInv, Form
  <2>3. UNCHANGED <<posts, posted, case, fetch, acc, uploads, audits>>
    BY <2>1 DEF Step, forum
  <2> QED BY <2>1, <2>2, <2>3, FormStep
<1>3. CASE Abandon
  <2>1. /\ UNCHANGED <<posts, posted, case, fetch, acc, uploads, audits>>
        /\ form' = NoForm
    BY <1>3 DEF Abandon, forum
  <2> QED BY <2>1, FormStep
<1>4. CASE NoAnswer
  BY <1>4, FormStep DEF NoAnswer, forum
<1> QED BY <1>1, <1>2, <1>3, <1>4

(* The first attempt that has sent nothing, for the file reviewed. *)
LEMMA ClaimStep == IInv /\ Claim => IInv'
<1> SUFFICES ASSUME IInv, Claim
             PROVE  IInv'
  OBVIOUS
<1> DEFINE token == case.token + 1
           c == [case EXCEPT !.guard = token, !.token = token]
<1>1. CASE UNCHANGED <<case, acc>>
  <2>1. /\ UNCHANGED <<posts, posted, case, fetch, acc, uploads, audits>>
        /\ form' = NoForm
    BY <1>1 DEF Claim, forum
  <2> QED BY <2>1, FormStep
<1>2. CASE /\ Idle /\ Ready /\ SameReview /\ case.token < MaxAttempts
           /\ Write(c)
           /\ acc' = [at |-> "mark", file |-> case.file, seen |-> form.file,
                      token |-> token]
  <2>1. /\ UNCHANGED <<posts, posted, fetch, uploads, audits>>
        /\ form' = NoForm /\ form.at # "none"
    BY DEF Claim, forum
  <2>2. case \in Case /\ form \in Form /\ token \in Attempt
    BY <1>2, MapSubmissionsAssumption DEF IInv, TypeInv, Case, Attempt
  <2> HIDE DEF token
  <2>3. /\ c \in Case /\ c.st = "open" /\ c.guard = token /\ c.token = token
        /\ c.upload = case.upload
    <3>1. token \in Nat /\ case.st = "open"
      BY <1>2, <2>2 DEF Attempt, Idle, Actionable
    <3> QED BY <2>2, <3>1 DEF Case
  <2> HIDE DEF c
  <2>4. /\ case' \in Case /\ case'.rev # fetch.rev /\ case'.st = "open"
        /\ case'.guard = token /\ case'.token = token
        /\ case'.upload = case.upload
    BY <1>2, <2>3, WriteOK
  <2>5. /\ acc' \in Action /\ acc'.token = token /\ acc'.at = "mark"
        /\ acc'.file = acc'.seen
    BY <1>2, <2>1, <2>2 DEF Action, Case, Form, Attempt, IInv, FormOK, SameReview
  <2>6. TypeInv'
    BY <2>1, <2>4, <2>5, IdleOK DEF IInv, TypeInv
  <2>7. ~Sent(token)
    BY <2>2 DEF token, IInv, TypeInv, NotYetSent, Sent, Case
  <2>8. NotYetSent'
    BY <2>1, <2>2, <2>4 DEF token, IInv, TypeInv, NotYetSent, Case, Attempt
  <2>9. NoDoubt
    BY <1>2, NoDoubtOK DEF Ready
  <2>10. Unsettled' /\ ActionOK' /\ GuardOK'
    BY <2>1, <2>2, <2>4, <2>5, <2>7, <2>9
    DEF Unsettled, ActionOK, GuardOK, NoDoubt, Sent
  <2>11. AsReviewed' /\ OnRecord' /\ AcceptedOK' /\ FetchOK' /\ FormOK'
    BY <2>1, <2>4 DEF IInv, AsReviewed, OnRecord, Done, AcceptedOK, FetchOK, FormOK,
                      NoForm
  <2> QED BY <2>6, <2>8, <2>10, <2>11 DEF IInv
<1> QED BY <1>1, <1>2 DEF Claim

(* What the action writes under its guard, without a step of a server. *)
LEMMA ActionStep ==
  ASSUME IInv, acc.at # "none",
         UNCHANGED <<posts, posted, fetch, form, uploads>>,
         NEW c \in Case, Write(c), audits' = audits,
         c.st \in {"open", "accepted"}, c.guard \in {0, case.guard},
         c.token = case.token, c.file = case.file, c.stamp = case.stamp,
         \/ c.upload = case.upload
         \/ c.upload = "unknown"
         \/ NoDoubt,
         c.st = "accepted" => Done(case.token),
         acc' \in Action,
         acc'.at # "none" => c.st = "open" /\ c.guard = case.guard,
         \/ acc'.at \in {"none", "failed"} /\ acc'.token = acc.token
         \/ acc'.at = "none"
         \/ /\ acc'.token = acc.token /\ acc'.file = acc'.seen
            /\ acc'.at \in {"latest", "send"} => c.upload = "unknown"
            /\ acc'.at \in {"mark", "latest", "send"} => ~Sent(acc.token)
            /\ acc'.at \in {"refused", "audit", "installed", "close"}
                 => uploads[acc.token].known
            /\ acc'.at \in {"audit", "installed", "close"} => Done(acc.token)
  PROVE  IInv'
<1>1. case'.st = c.st /\ case'.guard = c.guard /\ case'.upload = c.upload
  BY WriteOK
<1>2. ActionOK'
  BY <1>1 DEF IInv, ActionOK, Unknown, Sent, Done
<1> QED BY <1>2, WriteStep

(* The steps of the action between the marker and the release of its guard. *)
LEMMA ActingStep ==
  ASSUME IInv, \/ Mark \/ CheckLatest \/ Refused \/ Installed \/ Close \/ Release
  PROVE  IInv'
<1>0. case \in Case /\ acc \in Action
  BY DEF IInv, TypeInv
<1>1. CASE Mark
  <2> DEFINE c == [case EXCEPT !.upload = "unknown",
                     !.badge = IF @ = "complete" THEN "none" ELSE @]
  <2>0. /\ UNCHANGED <<posts, posted, fetch, form, uploads, audits>>
        /\ acc.at = "mark"
    BY <1>1 DEF Mark, forum
  <2>1. CASE Write(c) /\ acc' = [acc EXCEPT !.at = "latest"]
    <3>1. /\ c \in Case /\ c.st = case.st /\ c.guard = case.guard
          /\ c.token = case.token /\ c.file = case.file /\ c.stamp = case.stamp
          /\ c.upload = "unknown"
      BY <1>0 DEF Case
    <3> HIDE DEF c
    <3>2. /\ acc' \in Action /\ acc'.at = "latest" /\ acc'.token = acc.token
          /\ acc'.file = acc.file /\ acc'.seen = acc.seen
      BY <1>0, <2>1 DEF Action
    <3>3. case.st = "open" /\ acc.file = acc.seen /\ ~Sent(acc.token)
      BY <2>0 DEF IInv, ActionOK
    <3> QED BY <2>0, <2>1, <3>1, <3>2, <3>3, ActionStep
  <2>2. CASE Fail /\ UNCHANGED case
    BY <2>0, <2>2, FormStep
  <2> QED BY <1>1, <2>1, <2>2 DEF Mark
<1>2. ASSUME acc.at \in {"latest", "refused"}, NEW left \in {"none", "result"},
             Write([case EXCEPT !.upload = left]), Fail,
             UNCHANGED <<posts, posted, fetch, form, uploads, audits>>
      PROVE  IInv'
  <2> DEFINE c == [case EXCEPT !.upload = left]
  <2>1. /\ c \in Case /\ c.st = case.st /\ c.guard = case.guard
        /\ c.token = case.token /\ c.file = case.file /\ c.stamp = case.stamp
    BY <1>0 DEF Case
  <2>2. /\ acc' \in Action /\ acc'.at = "failed" /\ acc'.token = acc.token
    BY <1>0, <1>2 DEF Fail, NoAcc, NoFile, Action
  <2>3. case.st = "open"
    BY <1>2 DEF IInv, ActionOK
  <2>4. NoDoubt
    BY <1>2 DEF IInv, ActionOK, Unsettled, GuardOK, NoDoubt, Attempt
  <2>5. Write(c)
    BY <1>2
  <2> HIDE DEF c
  <2> QED BY <1>2, <2>1, <2>2, <2>3, <2>4, <2>5, ActionStep
<1>3. CASE CheckLatest
  <2>1. CASE acc' = [acc EXCEPT !.at = "send"] /\ UNCHANGED case
    <3>1. /\ acc' \in Action /\ acc'.at = "send" /\ acc'.token = acc.token
          /\ acc'.file = acc.file /\ acc'.seen = acc.seen
      BY <1>0, <2>1 DEF Action
    <3>2. /\ UNCHANGED <<posts, posted, case, fetch, form, uploads, audits>>
          /\ acc.at = "latest"
      BY <1>3, <2>1 DEF CheckLatest, forum
    <3>3. ActionOK'
      BY <3>1, <3>2 DEF IInv, ActionOK, Unknown, Sent
    <3>4. FetchOK' /\ FormOK'
      BY <3>2 DEF IInv, FetchOK, FormOK, Idle, Actionable, Unknown
    <3> QED BY <3>1, <3>2, <3>3, <3>4, QuietStep DEF IInv, TypeInv
  <2>2. CASE Write([case EXCEPT !.upload = "none"]) /\ Fail
    BY <1>2, <1>3, <2>2 DEF CheckLatest, forum
  <2> QED BY <1>3, <2>1, <2>2 DEF CheckLatest
<1>4. CASE Refused
  BY <1>2, <1>4 DEF Refused, forum
<1>5. CASE Installed
  <2> DEFINE c == [case EXCEPT !.upload = "installed", !.badge = "pending"]
  <2>1. /\ UNCHANGED <<posts, posted, fetch, form, uploads, audits>>
        /\ acc.at = "installed" /\ Write(c)
        /\ acc' = [acc EXCEPT !.at = "close"]
    BY <1>5 DEF Installed, forum
  <2>2. /\ c \in Case /\ c.st = case.st /\ c.guard = case.guard
        /\ c.token = case.token /\ c.file = case.file /\ c.stamp = case.stamp
    BY <1>0 DEF Case
  <2> HIDE DEF c
  <2>3. /\ acc' \in Action /\ acc'.at = "close" /\ acc'.token = acc.token
        /\ acc'.file = acc.file /\ acc'.seen = acc.seen
    BY <1>0, <2>1 DEF Action
  <2>4. /\ case.st = "open" /\ acc.file = acc.seen /\ Done(acc.token)
        /\ case.token = acc.token
    BY <2>1 DEF IInv, ActionOK, GuardOK, Done, Attempt
  <2>5. NoDoubt
    BY <2>4 DEF IInv, Unsettled, NoDoubt, Done
  <2> QED BY <2>1, <2>2, <2>3, <2>4, <2>5, ActionStep DEF Done
<1>6. CASE Close
  <2>1. /\ UNCHANGED <<posts, posted, fetch, form, uploads, audits>>
        /\ acc.at = "close" /\ Write(Accepted) /\ acc' = NoAcc
    BY <1>6 DEF Close, forum
  <2>2. /\ Accepted \in Case /\ Accepted.st = "accepted" /\ Accepted.guard = 0
        /\ Accepted.token = case.token /\ Accepted.file = case.file
        /\ Accepted.stamp = case.stamp /\ Accepted.upload = case.upload
    BY <1>0 DEF Case, Accepted
  <2>3. Done(case.token)
    BY <2>1 DEF IInv, ActionOK, GuardOK, Done, Attempt
  <2>4. acc' \in Action /\ acc'.at = "none"
    BY <2>1, IdleOK DEF NoAcc
  <2> QED BY <2>1, <2>2, <2>3, <2>4, ActionStep
<1>7. CASE Release
  <2> DEFINE c == [case EXCEPT !.guard = 0]
  <2>1. /\ UNCHANGED <<posts, posted, fetch, form, uploads, audits>>
        /\ acc.at = "failed" /\ Write(c) /\ acc' = NoAcc
    BY <1>7 DEF Release, forum
  <2>2. /\ c \in Case /\ c.st = case.st /\ c.guard = 0
        /\ c.token = case.token /\ c.file = case.file /\ c.stamp = case.stamp
        /\ c.upload = case.upload
    BY <1>0 DEF Case
  <2> HIDE DEF c
  <2>3. case.st = "open"
    BY <2>1 DEF IInv, ActionOK
  <2>4. acc' \in Action /\ acc'.at = "none"
    BY <2>1, IdleOK DEF NoAcc
  <2> QED BY <2>1, <2>2, <2>3, <2>4, ActionStep
<1> QED BY <1>1, <1>3, <1>4, <1>5, <1>6, <1>7

-----------------------------------------------------------------------------
(* The servers *)

(* A step on one upload, of the action that holds the guard or of a server. *)
LEMMA UploadStep ==
  ASSUME IInv, UNCHANGED <<posts, posted, case, fetch, form>>,
         NEW t \in Attempt, NEW u \in Upload,
         uploads' = [uploads EXCEPT ![t] = u],
         u.file = u.seen,
         u.at # "none",
         ~u.known => t = case.token /\ Unknown,
         t <= case.token,
         Done(t) => u.at = "installed" /\ u.known,
         audits' = audits, acc' \in Action, ActionOK'
  PROVE  IInv'
<1>1. TypeInv'
  BY DEF IInv, TypeInv
<1>2. \A s \in Attempt : uploads'[s] = IF s = t THEN u ELSE uploads[s]
  BY DEF IInv, TypeInv
<1>3. \A s : Done(s) => Done(s)'
  BY <1>2 DEF Done
<1>4. AcceptedOK' /\ OnRecord'
  BY <1>3 DEF IInv, AcceptedOK, OnRecord
<1>5. NotYetSent'
  BY <1>2 DEF IInv, TypeInv, NotYetSent, Case, Attempt
<1>6. Unsettled' /\ AsReviewed'
  BY <1>2 DEF IInv, Unsettled, AsReviewed, Sent, Unknown
<1>7. GuardOK' /\ FetchOK' /\ FormOK'
  BY DEF IInv, GuardOK, FetchOK, FormOK, Idle, Actionable, Unknown
<1> QED BY <1>1, <1>4, <1>5, <1>6, <1>7 DEF IInv

(* A move of the action that leaves its file and attempt. *)
LEMMA MoveOK ==
  ASSUME NEW at \in {"wait", "audit", "refused", "installed"}, acc \in Action,
         acc' = [acc EXCEPT !.at = at]
  PROVE  /\ acc' \in Action /\ acc'.at = at /\ acc'.token = acc.token
         /\ acc'.file = acc.file /\ acc'.seen = acc.seen
BY DEF Action

(* The first upload of its attempt, with the marker stored. *)
LEMMA SendStep == IInv /\ Send => IInv'
<1> SUFFICES ASSUME IInv, Send
             PROVE  IInv'
  OBVIOUS
<1> DEFINE t == acc.token
           u == [at |-> "sent", file |-> acc.file, seen |-> acc.seen,
                 known |-> FALSE]
<1>1. /\ UNCHANGED <<posts, posted, case, fetch, form, audits>>
      /\ acc.at = "send" /\ acc' = [acc EXCEPT !.at = "wait"]
      /\ uploads' = [uploads EXCEPT ![t] = u]
  BY DEF Send, forum
<1>2. /\ case.st = "open" /\ case.guard = t /\ t \in Attempt /\ acc.file = acc.seen
      /\ Unknown /\ ~Sent(t) /\ case.token = t
  BY <1>1 DEF IInv, ActionOK, GuardOK, Attempt
<1>3. u \in Upload /\ ~Done(t) /\ t <= case.token
  BY <1>2 DEF IInv, TypeInv, Upload, Action, Done, Sent, Attempt
<1>4. /\ acc' \in Action /\ acc'.at = "wait" /\ acc'.token = t
      /\ acc'.file = acc'.seen
  BY <1>1, <1>2, MoveOK DEF IInv, TypeInv
<1>5. ActionOK'
  BY <1>1, <1>2, <1>4 DEF ActionOK
<1> HIDE DEF t
<1> QED BY <1>1, <1>2, <1>3, <1>4, <1>5, UploadStep

(* A server installs or refuses what the last attempt sent, however late. *)
LEMMA ServeStep ==
  ASSUME IInv, NEW t \in Attempt, Serve(t)
  PROVE  IInv'
<1>1. PICK at \in {"installed", "refused"} : uploads' = [uploads EXCEPT ![t].at = at]
  BY DEF Serve
<1> DEFINE u == [uploads[t] EXCEPT !.at = at]
<1>2. uploads[t] \in Upload
  BY DEF IInv, TypeInv
<1>3. /\ u \in Upload /\ u.at = at /\ u.known = uploads[t].known
      /\ u.file = uploads[t].file /\ u.seen = uploads[t].seen
      /\ uploads' = [uploads EXCEPT ![t] = u]
  BY <1>1, <1>2 DEF Upload, IInv, TypeInv
<1> HIDE DEF u
<1>4. /\ u.file = u.seen /\ Sent(t) /\ ~Done(t)
      /\ UNCHANGED <<posts, posted, case, fetch, form, audits, acc>>
      /\ ~u.known => t = case.token /\ Unknown
      /\ t <= case.token
  BY <1>3 DEF IInv, TypeInv, AsReviewed, Serve, Sent, Done, Unsettled, NotYetSent,
              forum, Attempt, Case
<1>5. ActionOK'
  BY <1>2, <1>3, <1>4 DEF IInv, TypeInv, ActionOK, Serve, Sent, Unknown
<1> QED BY <1>3, <1>4, <1>5, UploadStep DEF IInv, TypeInv

(* The answer settles the upload. *)
LEMMA AnswerStep == IInv /\ Answer => IInv'
<1> SUFFICES ASSUME IInv, Answer
             PROVE  IInv'
  OBVIOUS
<1> DEFINE t == acc.token
           u == [uploads[t] EXCEPT !.known = TRUE]
           at == IF uploads[t].at = "installed" THEN "audit" ELSE "refused"
<1>1. /\ UNCHANGED <<posts, posted, case, fetch, form, audits>>
      /\ acc.at = "wait" /\ acc' = [acc EXCEPT !.at = at]
      /\ uploads' = [uploads EXCEPT ![t].known = TRUE]
      /\ uploads[t].at \in {"installed", "refused"}
  BY DEF Answer, forum
<1>2. /\ case.st = "open" /\ case.guard = t /\ t \in Attempt /\ acc.file = acc.seen
      /\ case.token = t
  BY <1>1 DEF IInv, ActionOK, GuardOK, Attempt
<1>3. uploads[t] \in Upload
  BY <1>2 DEF IInv, TypeInv
<1>4. /\ u \in Upload /\ u.at = uploads[t].at /\ u.known
      /\ u.file = u.seen
      /\ uploads' = [uploads EXCEPT ![t] = u]
  BY <1>1, <1>2, <1>3 DEF IInv, TypeInv, AsReviewed, Upload
<1>5. /\ acc' \in Action /\ acc'.at = at /\ acc'.token = t /\ acc'.file = acc'.seen
  BY <1>1, <1>2, MoveOK DEF IInv, TypeInv
<1>6. t <= case.token /\ (Done(t) => u.at = "installed")
  BY <1>2, <1>4 DEF Done, Attempt
<1>7. uploads'[t] = u
  BY <1>2, <1>4 DEF IInv, TypeInv
<1>8. ActionOK'
  <2>1. /\ acc'.at \in {"audit", "refused"}
        /\ acc'.at = "audit" => uploads'[t].at = "installed"
        /\ uploads'[t].known
    BY <1>4, <1>5, <1>7
  <2> HIDE DEF t, u, at
  <2> QED BY <1>1, <1>2, <1>5, <2>1 DEF ActionOK
<1> HIDE DEF t, u
<1> QED BY <1>1, <1>2, <1>4, <1>5, <1>6, <1>8, UploadStep

(* Only what was answered as installed is put on record. *)
LEMMA AuditStep == IInv /\ Audit => IInv'
<1> SUFFICES ASSUME IInv, Audit
             PROVE  IInv'
  OBVIOUS
<1>1. /\ UNCHANGED <<posts, posted, case, fetch, form, uploads>>
      /\ acc.at = "audit" /\ acc' = [acc EXCEPT !.at = "installed"]
      /\ audits' = audits \union {[token |-> acc.token, file |-> acc.file]}
  BY DEF Audit, forum
<1>2. Done(acc.token)
  BY <1>1 DEF IInv, ActionOK, Done
<1>3. OnRecord'
  BY <1>1, <1>2 DEF IInv, OnRecord, Done
<1>4. /\ acc' \in Action /\ acc'.at = "installed" /\ acc'.token = acc.token
      /\ acc'.file = acc.file /\ acc'.seen = acc.seen
  BY <1>1, MoveOK DEF IInv, TypeInv
<1>5. ActionOK'
  BY <1>1, <1>2, <1>4 DEF IInv, ActionOK, Done
<1>6. TypeInv'
  BY <1>1, <1>4 DEF IInv, TypeInv
<1> QED BY <1>1, <1>3, <1>5, <1>6
        DEF IInv, GuardOK, NotYetSent, Sent, Unsettled, Unknown, AsReviewed,
            AcceptedOK, Done, FetchOK, FormOK, Idle, Actionable

-----------------------------------------------------------------------------
(* Recovery, decisions and the badge *)

(* A case is closed from the record of its own last attempt. *)
LEMMA RecoverStep == IInv /\ Recover => IInv'
<1> SUFFICES ASSUME IInv, Recover
             PROVE  IInv'
  OBVIOUS
<1>1. /\ UNCHANGED <<posts, posted, fetch, form, acc, uploads, audits>>
      /\ case.st = "open" /\ case.guard # 0 /\ acc.at = "none"
  BY DEF Recover, Actionable, forum
<1>2. acc' \in Action /\ ActionOK' /\ case \in Case
  BY <1>1 DEF IInv, TypeInv, ActionOK
<1>3. CASE Write(Accepted) /\ \E a \in audits : Proves(a)
  <2>1. Done(case.token)
    BY <1>1, <1>3 DEF IInv, OnRecord, Proves, GuardOK
  <2>2. /\ Accepted \in Case /\ Accepted.st = "accepted" /\ Accepted.guard = 0
        /\ Accepted.token = case.token /\ Accepted.file = case.file
        /\ Accepted.stamp = case.stamp /\ Accepted.upload = case.upload
    BY <1>2 DEF Case, Accepted
  <2> QED BY <1>1, <1>2, <1>3, <2>1, <2>2, WriteStep
<1>4. CASE Write([case EXCEPT !.guard = 0])
  <2> DEFINE c == [case EXCEPT !.guard = 0]
  <2>1. /\ c \in Case /\ c.st = case.st /\ c.guard = 0
        /\ c.token = case.token /\ c.file = case.file /\ c.stamp = case.stamp
        /\ c.upload = case.upload
    BY <1>2 DEF Case
  <2>2. Write(c)
    BY <1>4
  <2> HIDE DEF c
  <2> QED BY <1>1, <1>2, <2>1, <2>2, WriteStep
<1> QED BY <1>3, <1>4 DEF Recover

(* No decision while an action holds its guard. *)
LEMMA DecideStep == IInv /\ Decide => IInv'
<1> SUFFICES ASSUME IInv, Decide
             PROVE  IInv'
  OBVIOUS
<1>1. PICK c \in {[case EXCEPT !.st = "rejected"],
                  [case EXCEPT !.st = "open", !.hook = FALSE]} :
        Write(c) /\ (Idle \/ case.st # "open") /\ case.st # "absent"
  BY DEF Decide, Idle, Actionable
<1>2. /\ c \in Case /\ c.st \in {"open", "rejected"} /\ c.guard = case.guard
      /\ c.token = case.token /\ c.file = case.file /\ c.stamp = case.stamp
      /\ c.upload = case.upload
  BY DEF IInv, TypeInv, Case
<1>3. UNCHANGED <<posts, posted, fetch, form, acc, uploads, audits>>
  BY DEF Decide, forum
<1>4. acc.at = "none"
  BY <1>1, GuardHeld
<1>5. acc' \in Action /\ ActionOK'
  BY <1>3, <1>4 DEF IInv, TypeInv, ActionOK
<1> QED BY <1>1, <1>2, <1>3, <1>5, WriteStep

(* The badge: its writes leave the attempt alone, except that the closing hook
   of an accepted case takes back a doubt that the recovery resolved. *)
LEMMA GrantStep ==
  ASSUME IInv, \/ StartGrant \/ Tell \/ LastLook \/ FinishGrant
               \/ Link \/ WindowEnds \/ GrantFails
               \/ \E a \in Account : Give(a)
  PROVE  IInv'
<1>0. case \in Case
  BY DEF IInv, TypeInv
<1>1. UNCHANGED <<posts, posted, fetch, form, acc, uploads, audits>>
  BY DEF StartGrant, Tell, LastLook, FinishGrant, Link, WindowEnds, GrantFails, Give,
         forum
<1>2. CASE UNCHANGED case
  BY <1>1, <1>2, FetchStep
<1>3. ASSUME NEW badge \in {"none", "pending", "complete"}, NEW hook \in BOOLEAN,
             NEW upload \in {case.upload, "installed"},
             upload = case.upload \/ case.st = "accepted",
             Write([case EXCEPT !.hook = hook, !.upload = upload, !.badge = badge])
      PROVE  IInv'
  <2> DEFINE c == [case EXCEPT !.hook = hook, !.upload = upload, !.badge = badge]
  <2>1. /\ c \in Case /\ c.st = case.st /\ c.guard = case.guard
        /\ c.token = case.token /\ c.file = case.file /\ c.stamp = case.stamp
        /\ c.upload = upload
    BY <1>0 DEF Case
  <2>2. Write(c)
    BY <1>3
  <2> HIDE DEF c
  <2>3. upload = case.upload \/ NoDoubt
    BY <1>3, NoDoubtOK
  <2>4. case.st = "accepted" => Done(case.token)
    BY DEF IInv, AcceptedOK
  <2>5. case'.st = case.st /\ case'.guard = case.guard /\ case'.upload = upload
    BY <2>1, <2>2, WriteOK
  <2>6. acc' \in Action /\ ActionOK'
    BY <1>1, <1>3, <2>5 DEF IInv, TypeInv, ActionOK, Unknown, Sent
  <2> QED BY <1>1, <2>1, <2>2, <2>3, <2>4, <2>6, WriteStep
<1>4. CASE StartGrant
  <2> DEFINE upload == IF Unknown THEN "installed" ELSE case.upload
             badge == IF case.badge # "complete" /\ ~late THEN "pending"
                      ELSE case.badge
  <2>1. Write([case EXCEPT !.hook = TRUE, !.upload = upload, !.badge = badge])
    BY <1>4 DEF StartGrant
  <2>2. case.st = "accepted"
    BY <1>4 DEF StartGrant, Owed
  <2>3. badge \in {"none", "pending", "complete"}
    BY <1>0 DEF Case
  <2> QED BY <1>3, <2>1, <2>2, <2>3
<1>5. CASE FinishGrant
  <2>1. CASE Write([case EXCEPT !.badge = "complete"])
    <3>1. [case EXCEPT !.badge = "complete"]
            = [case EXCEPT !.hook = case.hook, !.upload = case.upload,
                           !.badge = "complete"]
      BY <1>0 DEF Case
    <3>2. case.hook \in BOOLEAN
      BY <1>0 DEF Case
    <3> QED BY <1>3, <2>1, <3>1, <3>2 DEF Write
  <2> QED BY <1>2, <1>5, <2>1 DEF FinishGrant
<1> QED BY <1>2, <1>4, <1>5 DEF Tell, LastLook, Link, WindowEnds, GrantFails, Give

(* What was under way is lost; the guard and the doubt stay in the case. *)
LEMMA CrashStep == IInv /\ Crash => IInv'
<1> SUFFICES ASSUME IInv, Crash
             PROVE  IInv'
  OBVIOUS
<1>1. /\ UNCHANGED <<posts, posted, case, uploads, audits>>
      /\ fetch' = NoFetch /\ form' = NoForm /\ acc' = NoAcc
  BY DEF Crash
<1>2. FetchOK' /\ FormOK' /\ ActionOK'
  BY <1>1 DEF FetchOK, FormOK, ActionOK, NoFetch, NoForm, NoAcc
<1> QED BY <1>1, <1>2, IdleOK, QuietStep DEF IInv, TypeInv

-----------------------------------------------------------------------------
(* Every step preserves the invariant. *)
LEMMA StepIInv == IInv /\ [Next]_vars => IInv'
<1> SUFFICES ASSUME IInv, [Next]_vars
             PROVE  IInv'
  OBVIOUS
<1>1. CASE Inspecting
  BY <1>1, InspectStep, InspectedStep DEF Inspecting
<1>2. CASE Acting
  BY <1>2, ActingStep, SendStep, AnswerStep, AuditStep DEF Acting
<1>3. CASE Granting \/ Link \/ WindowEnds \/ GrantFails
  BY <1>3, GrantStep DEF Granting
<1> QED
  BY <1>1, <1>2, <1>3, PostStep, IntakeStep, BeginStep, AskStep, ClaimStep,
     RecoverStep, DecideStep, CrashStep, ServeStep
  DEF Next

(* NoBlindRetry: no second upload is sent while the outcome of an earlier one
   is unknown to the bot (the upload marker of cases/flows/maps.py). *)
THEOREM NoBlindRetrySafe == Spec => []NoBlindRetry
<1>1. IInv => NoBlindRetry
  <2> SUFFICES ASSUME IInv
               PROVE  NoBlindRetry
    OBVIOUS
  <2> DEFINE doubted == {t \in Attempt : uploads[t].at # "none" /\ ~uploads[t].known}
  <2>1. doubted \subseteq {case.token}
    BY DEF IInv, Unsettled, Sent
  <2>2. CASE doubted = {}
    BY <2>2, FS_EmptySet DEF NoBlindRetry
  <2>3. CASE doubted = {case.token}
    <3> HIDE DEF doubted
    <3>1. Cardinality(doubted) = 1
      BY <2>3, FS_Singleton
    <3> QED BY <3>1 DEF NoBlindRetry, doubted
  <2> QED BY <2>1, <2>2, <2>3
<1> QED BY <1>1, InitIInv, StepIInv, PTL DEF Spec

(* InstalledAsReviewed: a server is sent the file whose review the reviewer
   accepted, and an accepted case was installed by its last attempt, also when
   it was closed from the audit trail (completion_code). *)
THEOREM InstalledAsReviewedSafe == Spec => []InstalledAsReviewed
<1>1. IInv => InstalledAsReviewed
  BY DEF IInv, InstalledAsReviewed, AsReviewed, AcceptedOK, Done
<1> QED BY <1>1, InitIInv, StepIInv, PTL DEF Spec

-----------------------------------------------------------------------------
(* The badge *)

(* What a pass has done for the accounts it started with: all but those ahead
   of it and the one in hand own the badge and were told.  At the end these
   were the ones linked. *)
Served ==
  /\ grant.at \in {"none", "give", "tell", "role"} /\ grant.missed \in BOOLEAN
  /\ grant.at = "role" => grant.looked \subseteq owned \intersect told
  /\ grant.at = "give" => grant.one = {}
  /\ grant.at = "tell" => grant.one \subseteq owned
  /\ grant.at # "none" /\ ~grant.missed =>
       grant.seen \ (grant.todo \union grant.one) \subseteq owned \intersect told

Completes == case.badge # "complete" /\ case'.badge = "complete"

LookedServed == grant.looked \subseteq owned \intersect told

(* Writes that leave the badge or take it back. *)
LEMMA BadgeKept ==
  ASSUME IInv,
         \/ UNCHANGED case
         \/ \E c \in Case : Write(c) /\ (c.badge = "complete" => case.badge = "complete")
  PROVE  ~Completes
<1>1. ASSUME NEW c \in Case, Write(c)
      PROVE  case'.badge = c.badge
  BY <1>1 DEF Write, Case
<1> QED BY <1>1 DEF Completes

(* No other step of the case completes the badge. *)
LEMMA OthersKeepBadge ==
  ASSUME IInv, Next, ~Granting, ~Link
  PROVE  ~Completes
<1>0. /\ case \in Case /\ fetch \in Inspection /\ acc \in Action /\ posts \subseteq Nat
      /\ posted \in Nat
  BY DEF IInv, TypeInv
<1> DEFINE Kept(c) == c \in Case /\ (c.badge = "complete" => case.badge = "complete")
<1>1. CASE UNCHANGED case
  BY <1>1, BadgeKept
<1>2. ASSUME NEW c, Write(c), Kept(c)
      PROVE  ~Completes
  BY <1>2, BadgeKept
<1>3. CASE Intake
  <2>1. Latest \in Nat
    BY <1>0, <1>3, LatestOK DEF Intake, IInv, TypeInv
  <2>2. ASSUME NEW f \in Nat
        PROVE  Kept([case EXCEPT !.st = "open", !.file = f])
    BY <1>0 DEF Case
  <2> QED BY <1>2, <1>3, <2>1, <2>2 DEF Intake
<1>4. CASE Inspected
  <2> DEFINE kept == [case EXCEPT !.file = fetch.file, !.stamp = NewStamp,
                        !.sha = fetch.sha, !.pending = fetch.pending]
  <2>1. Kept(kept) /\ kept \in Case
    BY <1>0, NewStampOK DEF Case, Inspection
  <2> HIDE DEF kept
  <2>2. Kept([kept EXCEPT !.upload = "none", !.badge = "none"])
    BY <2>1 DEF Case
  <2> QED BY <1>1, <1>2, <1>4, <2>1, <2>2 DEF Inspected, kept
<1>5. CASE Claim
  <2> DEFINE token == case.token + 1
             c == [case EXCEPT !.guard = token, !.token = token]
  <2>1. token \in Nat
    BY <1>0 DEF Case
  <2>2. UNCHANGED case \/ Write(c)
    BY <1>5 DEF Claim
  <2> HIDE DEF token
  <2>3. Kept(c)
    BY <1>0, <2>1 DEF Case
  <2> QED BY <1>1, <1>2, <2>2, <2>3
<1>6. CASE Acting
  <2>1. /\ Kept([case EXCEPT !.upload = "unknown",
                   !.badge = IF @ = "complete" THEN "none" ELSE @])
        /\ Kept([case EXCEPT !.upload = "none"])
        /\ Kept([case EXCEPT !.upload = "result"])
        /\ Kept([case EXCEPT !.upload = "installed", !.badge = "pending"])
        /\ Kept(Accepted)
        /\ Kept([case EXCEPT !.guard = 0])
    BY <1>0 DEF Case, Accepted
  <2> HIDE DEF Kept
  <2> QED
    BY <1>1, <1>2, <1>6, <2>1
    DEF Acting, Mark, CheckLatest, Send, Answer, Refused, Audit, Installed,
        Close, Release
<1>7. CASE Recover
  <2>1. Kept(Accepted) /\ Kept([case EXCEPT !.guard = 0])
    BY <1>0 DEF Case, Accepted
  <2> QED BY <1>2, <1>7, <2>1 DEF Recover
<1>8. CASE Decide
  <2>1. /\ Kept([case EXCEPT !.st = "rejected"])
        /\ Kept([case EXCEPT !.st = "open", !.hook = FALSE])
    BY <1>0 DEF Case
  <2> QED BY <1>2, <1>8, <2>1 DEF Decide
<1>9. CASE \/ Post \/ Reinspect \/ Recheck \/ Press \/ ChooseServer \/ ConfirmAccept
           \/ Abandon \/ NoAnswer \/ WindowEnds \/ GrantFails \/ Crash \/ Inspect
  BY <1>1, <1>9
  DEF Post, Reinspect, Recheck, Press, ChooseServer, ConfirmAccept, Step, Abandon,
      NoAnswer, WindowEnds, GrantFails, Crash, Inspect
<1>10. ASSUME NEW f \in 1..MaxFiles, DeleteMessage(f) \/ OnMessage(f)
       PROVE  UNCHANGED case
  BY <1>10 DEF DeleteMessage, OnMessage
<1>11. ASSUME NEW t \in Attempt, Serve(t)
       PROVE  UNCHANGED case
  BY <1>11 DEF Serve
<1> QED
  BY <1>1, <1>3, <1>4, <1>5, <1>6, <1>7, <1>8, <1>9, <1>10, <1>11
  DEF Next, Inspecting

(* A pass over the accounts, and whatever happens beside it. *)
LEMMA StepServed ==
  ASSUME IInv, Served, Next
  PROVE  Served'
<1> USE DEF Served
<1>1. CASE StartGrant
  BY <1>1 DEF StartGrant, NoGrant
<1>2. ASSUME NEW a \in Account, Give(a)
      PROVE  Served'
  <2>1. CASE /\ owned' = owned \union {a} /\ told' = told
             /\ grant' = [grant EXCEPT !.at = "tell", !.todo = @ \ {a}, !.one = {a}]
    BY <1>2, <2>1 DEF Give
  <2>2. CASE /\ grant' = [grant EXCEPT !.todo = @ \ {a}, !.missed = TRUE]
             /\ owned' = owned /\ told' = told
    BY <1>2, <2>2 DEF Give
  <2> QED BY <1>2, <2>1, <2>2 DEF Give
<1>3. CASE Tell
  BY <1>3 DEF Tell
<1>4. CASE LastLook \/ FinishGrant \/ GrantFails \/ Crash
  <2>1. CASE grant' = NoGrant
    BY <2>1 DEF NoGrant
  <2>2. CASE /\ grant.at = "give" /\ grant.todo = {} /\ AllServed
             /\ grant' = [grant EXCEPT !.at = "role", !.looked = linked]
             /\ UNCHANGED <<owned, told>>
    BY <2>2 DEF AllServed
  <2> QED BY <1>4, <2>1, <2>2 DEF LastLook, FinishGrant, GrantFails, Crash
<1>5. CASE UNCHANGED <<grant, owned, told>>
  BY <1>5
<1>6. CASE \/ Post \/ Intake \/ Reinspect \/ Recheck \/ Press \/ ChooseServer
           \/ ConfirmAccept \/ Abandon \/ Claim \/ NoAnswer \/ Recover \/ Decide
           \/ Link \/ WindowEnds \/ Acting \/ Inspecting
  BY <1>5, <1>6
  DEF Post, Intake, Reinspect, Recheck, Press, ChooseServer, ConfirmAccept, Step,
      Abandon, Claim, NoAnswer, Recover, Decide, Link, WindowEnds, Acting,
      Inspecting, Inspect, Inspected, Mark, CheckLatest, Send, Answer, Refused,
       Audit, Installed, Close,
      Release, badges
<1>7. ASSUME NEW f \in 1..MaxFiles, DeleteMessage(f) \/ OnMessage(f)
      PROVE  UNCHANGED <<grant, owned, told>>
  BY <1>7 DEF DeleteMessage, OnMessage, badges
<1>8. ASSUME NEW t \in Attempt, Serve(t)
      PROVE  UNCHANGED <<grant, owned, told>>
  BY <1>8 DEF Serve, badges
<1> QED
  BY <1>1, <1>2, <1>3, <1>4, <1>5, <1>6, <1>7, <1>8 DEF Next, Granting

(* BadgeReachesAll: a badge is only marked complete when everybody linked at the
   last look owns it and was told (the loop of cases/flows/badges.py). *)
THEOREM BadgeReachesAllSafe == Spec => BadgeReachesAll
<1> DEFINE Inv == IInv /\ Served
<1>1. Init => Inv
  BY InitIInv DEF Init, Served, NoGrant
<1>2. Inv /\ [Next]_vars => Inv'
  BY StepIInv, StepServed DEF vars, Served
<1>3. Inv /\ [Next]_vars => [Completes => LookedServed]_vars
  <2> SUFFICES ASSUME Inv, Next, Completes
               PROVE  LookedServed
    OBVIOUS
  <2>1. case \in Case
    BY DEF IInv, TypeInv
  <2>2. Granting \/ Link
    BY OthersKeepBadge
  <2>3. ~(Link \/ Tell \/ LastLook \/ \E a \in Account : Give(a))
    BY DEF Link, Tell, LastLook, Give, Completes
  <2>4. CASE StartGrant
    <3> DEFINE c == [case EXCEPT !.hook = TRUE,
                       !.upload = IF Unknown THEN "installed" ELSE @,
                       !.badge = IF case.badge # "complete" /\ ~late THEN "pending"
                                 ELSE @]
    <3>1. c \in Case /\ (c.badge = "complete" => case.badge = "complete")
      BY <2>1 DEF Case
    <3>2. Write(c)
      BY <2>4 DEF StartGrant
    <3> QED BY <3>1, <3>2, BadgeKept
  <2>5. CASE FinishGrant
    BY <2>5 DEF FinishGrant, Served, LookedServed
  <2> QED BY <2>2, <2>3, <2>4, <2>5 DEF Granting
<1> QED
  BY <1>1, <1>2, <1>3, PTL DEF Spec, BadgeReachesAll, Completes, LookedServed
=============================================================================
