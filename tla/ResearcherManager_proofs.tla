----------------------- MODULE ResearcherManager_proofs -----------------------
(***************************************************************************)
(* What every state of ResearcherManager keeps, for any specialists, any   *)
(* limit and any number of requests and commands.                          *)
(*                                                                         *)
(* The id of a review counts the revisions of either kind, and a revision  *)
(* begins only on a request about the report as it is.  A line that has    *)
(* built a report has made every request stale, so no other line begins    *)
(* under the same numbers: the numbers tell reports apart.                 *)
(***************************************************************************)
EXTENDS ResearcherManager, TLAPS, FiniteSetTheorems

-----------------------------------------------------------------------------
(* Types.                                                                  *)

Bases == [plan : Nat, report : Nat, seen : Nat]

Decision == {"none", "revise", "accept"}

Note == {"none", "processing", "failed", "blocked", "reply_sent"}

State == [status : Status, tasks : SUBSET Task, done : SUBSET Task, drifted : SUBSET Task,
          failed : SUBSET Agent, plan : Nat, report : Nat, seen : Nat, review : Nat,
          saved : SUBSET Nat, decision : Decision, phase : Phase, active : Nat,
          count : Nat, externals : Nat, record : Note, request : Nat, pending : Nat,
          checkpoint : Checkpoint, consumed : SUBSET Nat, error : Nat, basis : Bases]

Kind == {"result", "drift", "error"}

Then == {"integrate", "external", "internal", "repair", "task"}

Run == [todo : SUBSET Task, got : SUBSET (Task \X Kind), failures : Nat, then : Then,
        ext : BOOLEAN, reuse : BOOLEAN, call : Nat]

Report == [plan : Nat, rests : SUBSET Task]

ReviewId == [ext : Nat, count : Nat, contract : BOOLEAN, retry : BOOLEAN]

Review == [id : ReviewId, about : Nat, answer : Verdict \union Fault, valid : BOOLEAN]

Request == [route : {"internal", "upstream", "refresh"}, base : Bases, targets : SUBSET Agent]
             \union [route : {"external"}, base : Bases, targets : SUBSET Agent, legacy : BOOLEAN]

Claim == [request : Nat, tasks : SUBSET Task, review : ReviewId]

Result == [request : Nat, status : {"completed", "partial"}, report : Nat, review : Nat]

Answer == [request : Nat, completed : BOOLEAN]

Mail == [request : Nat, base : Bases]

How == {"none", "returned", "failed", "crashed", "nothing", "stale", "processed",
         "tasks_missing", "checkpoint_conflict", "exhausted", "not_resumable",
         "incomplete", "upstream_budget"}

TypeInv ==
  /\ disk \in State
  /\ mem \in State
  /\ run \in Run
  /\ ended \in How
  /\ paid \subseteq Task /\ repairs \subseteq Task /\ repaid \subseteq repairs
  /\ reports \in Seq(Report)
  /\ reviews \in Seq(Review)
  /\ retries \subseteq ReviewId
  /\ requests \in Seq(Request)
  /\ slots \subseteq DOMAIN requests /\ IsFiniteSet(slots)
  /\ claims \subseteq Claim /\ {c.request : c \in claims} \subseteq DOMAIN requests
  /\ results \subseteq Result
  /\ answers \subseteq Answer
  /\ outbox \in Mail

-----------------------------------------------------------------------------
(* What holds in every workflow.                                           *)

\* A line begins a revision, is about to build its report, or has built it.
Beginning == {"begin", "consume", "execute"}

Before == {"integrate", "build"}

After == {"reviewing", "ask", "hear", "assess", "embed"}

\* Numbers are of what there is.
RangeInv ==
  /\ disk.report = Len(reports)
  /\ disk.seen <= Len(reviews) /\ disk.review <= Len(reviews) /\ disk.error <= Len(reviews)
  /\ disk.saved \subseteq DOMAIN reviews
  /\ disk.active <= Len(requests) /\ disk.request <= Len(requests)
  /\ disk.pending <= Len(requests) /\ outbox.request <= Len(requests)
  /\ \A t \in disk.tasks : t.cycle <= Len(requests)
  /\ \A x \in answers : x.request \in DOMAIN requests

\* A request and what is handed over are about a report that was built.
AboutInv ==
  /\ \A r \in DOMAIN requests : requests[r].base.report \in 1 .. disk.report
  /\ \A c \in DOMAIN reviews : reviews[c].about \in 1 .. disk.report
  /\ outbox = NoMail \/ outbox.base.report \in 1 .. disk.report
  /\ outbox.base.seen <= Len(reviews)

\* The copy of a command differs only while it integrates.
CopyInv ==
  \/ mem = disk
  \/ pc = "build" /\ mem = [disk EXCEPT !.status = "INTEGRATING"]

\* What is done or failed for the drift was paid for, and what is paid is a task.
WorkInv ==
  /\ disk.done \union disk.drifted \subseteq paid
  /\ paid \union repairs \subseteq disk.tasks

\* The requests of Deliberation, and the one in the slot.
ExternalInv ==
  /\ External # {} => \E r \in External : \A x \in External : x <= r
  /\ disk.externals = 0 <=> disk.request = 0
  /\ disk.request # 0 => disk.request \in External
  /\ disk.pending \in {0, disk.request}
  /\ outbox.request # 0 => outbox.request \in External

\* What a revision has reserved are saved tasks of its own.
ClaimsInv ==
  \A c \in claims : \A t \in c.tasks : t \in disk.tasks /\ t.cycle = c.request

\* The budget.
BudgetInv == Cardinality(slots) <= MaxRevisions

Data == RangeInv /\ AboutInv /\ WorkInv /\ ExternalInv /\ ClaimsInv /\ BudgetInv

\* What a command knows where it is: what it asks is authorized.
PlaceInv ==
  /\ run.call <= Len(reviews)
  /\ run.todo \subseteq disk.tasks
  /\ run.reuse => disk.report # 0
  /\ pc # "record" => run.got = {}
  /\ \A x \in run.got : x[1] \in run.todo /\ (x[2] # "error" => x[1] \in paid)
  /\ pc \in After \union {"route"} => disk.report # 0
  /\ pc \in {"hear", "assess", "embed"} => run.call # 0
  /\ pc = "repairing" => run.todo \subseteq (repairs \intersect disk.drifted) \ disk.done
  /\ pc \in {"received", "external"} => External # {} /\ outbox.request # Slot
  /\ pc = "external" => TasksOf(Slot, Asked) \subseteq disk.tasks
  /\ pc \in Beginning => disk.active \in slots
  /\ pc = "execute" => \A t \in disk.tasks : t.cycle = disk.active => t \in Reserved(t.cycle)
  /\ pc = "gather" /\ run.then # "task" => \A t \in run.todo : Authorized(t)

Always == Data /\ CopyInv /\ PlaceInv

-----------------------------------------------------------------------------
(* What holds in an orderly one.                                           *)

\* A report was built since the request.
Built(r) == requests[r].base.report < disk.report

\* The request is about the report as it is.
Open == disk.active # 0 /\ ~Built(disk.active)

\* No review has the numbers of the present revisions.
Unreviewed ==
  \A c \in DOMAIN reviews :
    reviews[c].id.ext # disk.externals \/ reviews[c].id.count # disk.count

\* An id is paid for once, and its numbers were reached.
ReviewsInv ==
  /\ \A c, e \in DOMAIN reviews : reviews[c].id = reviews[e].id => c = e
  /\ \A c \in DOMAIN reviews :
       reviews[c].id.ext <= disk.externals /\ reviews[c].id.count <= disk.count

\* The count is that of the slots, but between a slot and the save behind it.
CountInv ==
  /\ pc # "begin" => disk.count = Cardinality(slots)
  /\ pc = "begin" => disk.count < Cardinality(slots)
  /\ disk.active \in slots /\ pc # "begin" => RevisionTasks(disk.active) \subseteq disk.tasks

\* Under the numbers of a revision nothing is reviewed before its report is built.
NumbersInv ==
  /\ disk.active \in slots /\ pc # "begin" /\ ~Built(disk.active) =>
       \A c \in DOMAIN reviews : reviews[c].id.count # disk.count
  /\ disk.request # 0 /\ ~Built(disk.request) =>
       /\ \A c \in DOMAIN reviews : reviews[c].id.ext # disk.externals
       /\ disk.checkpoint \notin Advanced

\* A revision in execution holds a slot, has no result, and its tasks are done once
\* a report is built.
ExecutingInv ==
  disk.phase = "executing" =>
    /\ disk.active \in slots
    /\ Built(disk.active) => RevisionTasks(disk.active) \subseteq disk.done
    /\ \A x \in results : x.request # disk.active

\* An internal request that is still about the report was decided or is one the
\* review demanded of the Producer, what lies with Deliberation was accepted.
DecisionInv ==
  /\ disk.decision # "none" =>
       disk.review # 0 /\ VerdictOf(disk) \in {"approved", "approved_gaps", "gaps"}
  /\ Open => disk.review # 0 /\ (disk.decision = "revise" \/ VerdictOf(disk) = "plan")
  /\ Open /\ Waits(disk) => VerdictOf(disk) = "plan"
  /\ outbox # NoMail /\ outbox.base.report = disk.report => disk.decision = "accept"
  /\ \A r \in External : ~Built(r) => disk.decision = "accept"

ResultsInv ==
  /\ \A x \in results :
       /\ x.request \in DOMAIN requests /\ Built(x.request)
       /\ x.report \in 1 .. disk.report
       /\ x.review \in DOMAIN reviews
  /\ ResultsAreTruthful

\* The tasks of the revision in execution.
Owed == IF disk.phase = "executing" THEN RevisionTasks(disk.active) ELSE {}

CollectInv ==
  /\ run.then \in {"integrate", "external", "internal"}
  /\ run.then = "integrate" => disk.report = 0
  /\ pc = "gather" => Owed \subseteq disk.done \union run.todo
  /\ pc = "record" /\ run.failures = 0 =>
       Owed \subseteq disk.done \union {x[1] : x \in run.got}

BeforeInv ==
  /\ run.ext \/ disk.externals = 0
  /\ ~run.reuse
  /\ Unreviewed

AfterInv ==
  /\ run.ext \/ disk.externals = 0
  /\ \A r \in DOMAIN requests : Built(r)
  /\ outbox.base.report < disk.report
  /\ disk.seen = 0
  /\ Owed \subseteq reports[disk.report].rests

LineInv ==
  /\ pc \in {"gather", "record"} /\ run.then # "task" => CollectInv /\ BeforeInv
  /\ pc \in Before => BeforeInv /\ Owed \subseteq disk.done
  /\ pc \in {"repair", "repairing"} => disk.report = 0 /\ ~run.reuse
  /\ pc \in {"received", "external"} => disk.request = Slot /\ ~Built(Slot)
  /\ pc \in Beginning =>
       ~Built(disk.active) /\ ~run.reuse /\ (run.ext \/ disk.externals = 0) /\ run.then = "internal"
  /\ pc \in After => AfterInv
  /\ pc \in {"reviewing", "ask"} => Unreviewed
  /\ pc \in {"hear", "assess", "embed"} => reviews[run.call].about = disk.report
  /\ pc \in {"assess", "embed"} => reviews[run.call].answer \in Verdict
  /\ pc = "embed" => disk.review = run.call
  /\ pc = "route" => disk.review # 0 /\ VerdictOf(disk) = "plan"

Order ==
  /\ ReviewsInv /\ CountInv /\ NumbersInv /\ ExecutingInv /\ DecisionInv
  /\ ReviewedAsShown /\ ResultsInv

Ordered == Order /\ LineInv

\* The inductive invariant.
IInv == TypeInv /\ Always /\ (Orderly => Ordered)

-----------------------------------------------------------------------------
(* What a save leaves alone.                                               *)

\* The report, its review, the decision and the revisions.
Alike(t, s) ==
  /\ t.report = s.report /\ t.seen = s.seen /\ t.review = s.review
  /\ t.decision = s.decision /\ t.active = s.active /\ t.count = s.count
  /\ t.externals = s.externals /\ t.request = s.request

Works(t, s) == t.tasks = s.tasks /\ t.done = s.done /\ t.drifted = s.drifted

Filed(t, s) == t.saved = s.saved /\ t.error = s.error

\* Only the status, the record of a request and its checkpoint may differ.
Still(t, s) ==
  t \in State /\ Alike(t, s) /\ Works(t, s) /\ Filed(t, s) /\ t.phase = s.phase

LEMMA StillAgain ==
  ASSUME NEW s, NEW t, NEW u, Still(t, s), Still(u, t)
  PROVE  Still(u, s)
BY DEF Still, Alike, Works, Filed

LEMMA StillSelf == ASSUME NEW s \in State PROVE Still(s, s)
BY DEF Still, Alike, Works, Filed

LEMMA StatusIs ==
  ASSUME NEW s \in State, NEW x \in Status,
         NEW t, t = [s EXCEPT !.status = x]
  PROVE  /\ Still(t, s) /\ t.checkpoint = s.checkpoint /\ t.pending = s.pending
            /\ t.status = x /\ t.basis = s.basis
BY DEF State, Still, Alike, Works, Filed

LEMMA CheckpointIs ==
  ASSUME NEW s \in State, NEW c \in Checkpoint,
         NEW t, t = [s EXCEPT !.checkpoint = c]
  PROVE  Still(t, s) /\ t.checkpoint = c /\ t.pending = s.pending /\ t.status = s.status
BY DEF State, Still, Alike, Works, Filed

LEMMA RecordIs ==
  ASSUME NEW s \in State, NEW n \in Note,
         NEW t, t = [s EXCEPT !.record = n]
  PROVE  /\ Still(t, s) /\ t.checkpoint = s.checkpoint /\ t.pending = s.pending
            /\ t.status = s.status
BY DEF State, Still, Alike, Works, Filed

LEMMA PhaseIs ==
  ASSUME NEW s \in State, NEW p \in Phase,
         NEW t, t = [s EXCEPT !.phase = p]
  PROVE  /\ t \in State /\ Alike(t, s) /\ Works(t, s) /\ Filed(t, s) /\ t.phase = p
            /\ t.checkpoint = s.checkpoint /\ t.pending = s.pending
BY DEF State, Alike, Works, Filed

LEMMA SavedIs ==
  ASSUME NEW s \in State, NEW cs \in SUBSET Nat,
         NEW t, t = [s EXCEPT !.saved = cs]
  PROVE  /\ t \in State /\ Alike(t, s) /\ Works(t, s) /\ t.saved = cs
            /\ t.error = s.error /\ t.phase = s.phase /\ t.checkpoint = s.checkpoint
            /\ t.pending = s.pending
BY DEF State, Alike, Works

LEMMA ErrorIs ==
  ASSUME NEW s \in State, NEW c \in Nat,
         NEW t, t = [s EXCEPT !.error = c]
  PROVE  /\ t \in State /\ Alike(t, s) /\ Works(t, s) /\ t.saved = s.saved
            /\ t.error = c /\ t.phase = s.phase /\ t.checkpoint = s.checkpoint
            /\ t.pending = s.pending
BY DEF State, Alike, Works

LEMMA SeenIs ==
  ASSUME NEW s \in State, NEW c \in Nat,
         NEW t, t = [s EXCEPT !.seen = c]
  PROVE  /\ t \in State /\ t.seen = c
            /\ t.report = s.report /\ t.review = s.review /\ t.decision = s.decision
            /\ t.active = s.active /\ t.count = s.count /\ t.externals = s.externals
            /\ t.request = s.request /\ Works(t, s) /\ Filed(t, s) /\ t.phase = s.phase
            /\ t.checkpoint = s.checkpoint /\ t.pending = s.pending
BY DEF State, Works, Filed

LEMMA RecordedIs ==
  ASSUME NEW s \in State, NEW t \in Task, NEW kind \in Kind
  PROVE  LET u == Recorded(s, t, kind)
         IN /\ u \in State /\ Alike(u, s) /\ Filed(u, s) /\ u.phase = s.phase
            /\ u.checkpoint = s.checkpoint /\ u.pending = s.pending /\ u.tasks = s.tasks
            /\ u.done = (IF kind = "result" THEN s.done \union {t} ELSE s.done)
            /\ u.drifted = (IF kind = "drift" THEN s.drifted \union {t} ELSE s.drifted)
<1>1. t.agent \in Agent
  BY DEF Task
<1>2. CASE kind = "result"
  <2> DEFINE d == s.done \union {t}
             f == s.failed \ {t.agent}
             u == [s EXCEPT !.done = d, !.failed = f]
  <2>1. d \in SUBSET Task /\ f \in SUBSET Agent
    BY DEF State
  <2>2. Recorded(s, t, kind) = u
    BY <1>2 DEF Recorded
  <2>3. /\ u \in State /\ Alike(u, s) /\ Filed(u, s) /\ u.phase = s.phase
        /\ u.checkpoint = s.checkpoint /\ u.pending = s.pending /\ u.tasks = s.tasks
        /\ u.done = d /\ u.drifted = s.drifted
    <3> HIDE DEF d, f
    <3> QED
      BY <2>1 DEF State, Alike, Filed
  <2> HIDE DEF u
  <2> QED
    BY <1>2, <2>2, <2>3
<1>3. CASE kind # "result"
  <2> DEFINE d == IF kind = "drift" THEN s.drifted \union {t} ELSE s.drifted
             f == s.failed \union {t.agent}
             u == [s EXCEPT !.failed = f, !.drifted = d]
  <2>1. d \in SUBSET Task /\ f \in SUBSET Agent
    BY <1>1 DEF State
  <2>2. Recorded(s, t, kind) = u
    BY <1>3 DEF Recorded
  <2>3. /\ u \in State /\ Alike(u, s) /\ Filed(u, s) /\ u.phase = s.phase
        /\ u.checkpoint = s.checkpoint /\ u.pending = s.pending /\ u.tasks = s.tasks
        /\ u.done = s.done /\ u.drifted = d
    <3> HIDE DEF d, f
    <3> QED
      BY <2>1 DEF State, Alike, Filed
  <2> HIDE DEF u
  <2> QED
    BY <1>3, <2>2, <2>3
<1> QED
  BY <1>2, <1>3

\* A repair that failed is given up.
LEMMA GivenUpIs ==
  ASSUME NEW s \in State, NEW t
  PROVE  LET u == [s EXCEPT !.drifted = @ \ {t}]
         IN /\ u \in State /\ Alike(u, s) /\ Filed(u, s) /\ u.phase = s.phase
            /\ u.checkpoint = s.checkpoint /\ u.pending = s.pending /\ u.tasks = s.tasks
            /\ u.done = s.done /\ u.drifted = s.drifted \ {t}
<1> DEFINE d == s.drifted \ {t}
           u == [s EXCEPT !.drifted = d]
<1>1. d \in SUBSET Task
  BY DEF State
<1>2. /\ u \in State /\ Alike(u, s) /\ Filed(u, s) /\ u.phase = s.phase
      /\ u.checkpoint = s.checkpoint /\ u.pending = s.pending /\ u.tasks = s.tasks
      /\ u.done = s.done /\ u.drifted = d
  <2> HIDE DEF d
  <2> QED
    BY <1>1 DEF State, Alike, Filed
<1> QED
  BY <1>2

-----------------------------------------------------------------------------
(* A save that builds and asks nothing.                                    *)

\* The stores, but what was paid for or may be asked again.
records == <<repairs, repaid, reports, reviews, revision, outbox>>

LEMMA NothingRuns == NoRun \in Run /\ NewState \in State
<1>1. TasksOf(0, Agent) \in SUBSET Task
  BY DEF TasksOf, Task
<1> DEFINE ts == TasksOf(0, Agent)
<1>2. NewState \in State
  <2> HIDE DEF ts
  <2> QED
    BY <1>1 DEF NewState, State, Status, Decision, Phase, Note, Checkpoint, NoBase, Bases
<1> QED
  BY <1>2 DEF NoRun, Run, Then

LEMMA DataBy ==
  ASSUME TypeInv, Data, disk' \in State, disk'.tasks = disk.tasks,
         disk'.done \union disk'.drifted \subseteq paid',
         disk'.report = disk.report, disk'.externals = disk.externals,
         disk'.request = disk.request,
         disk'.seen <= Len(reviews), disk'.review <= Len(reviews),
         disk'.error <= Len(reviews), disk'.saved \subseteq DOMAIN reviews,
         disk'.active <= Len(requests), disk'.pending \in {0, disk.pending},
         paid' \union repairs' \subseteq disk.tasks,
         \A x \in answers' : x.request \in DOMAIN requests,
         UNCHANGED <<reports, reviews, requests, slots, claims, outbox>>
  PROVE  Data'
<1> USE DEF Data
<1>1. RangeInv'
  <2>1. 0 <= Len(requests)
    BY DEF TypeInv
  <2>2. disk'.pending <= Len(requests)
    BY <2>1 DEF RangeInv
  <2> QED
    BY <2>2 DEF RangeInv
<1>2. AboutInv'
  BY DEF AboutInv
<1>3. WorkInv'
  BY DEF WorkInv
<1>4. ExternalInv'
  BY DEF ExternalInv, External
<1>5. ClaimsInv'
  BY DEF ClaimsInv
<1>6. BudgetInv'
  BY DEF BudgetInv
<1> QED
  BY <1>1, <1>2, <1>3, <1>4, <1>5, <1>6

\* Nothing the order is about changes.
Calm ==
  /\ UNCHANGED <<reports, reviews, requests, slots, claims, results, outbox>>
  /\ disk' \in State /\ Alike(disk', disk)
  /\ disk.tasks \subseteq disk'.tasks /\ disk.done \subseteq disk'.done
  /\ disk'.phase \in {disk.phase, "blocked"}
  /\ disk'.checkpoint \in Advanced => disk.checkpoint \in Advanced \/ pc \in After
  /\ pc # "begin" /\ pc' # "begin"

LEMMA CalmOrder ==
  ASSUME TypeInv, Always, Orderly, Ordered, Calm
  PROVE  Order'
<1> USE DEF Ordered, Order, Calm, Alike
<1>1. ReviewsInv'
  BY DEF ReviewsInv
<1>2. CountInv'
  BY DEF CountInv, RevisionTasks, Reserved
<1>3. NumbersInv'
  <2>1. disk.request # 0 => disk.request \in DOMAIN requests
    BY DEF Always, Data, ExternalInv, External
  <2>2. pc \in After /\ disk.request # 0 => Built(disk.request)
    BY <2>1 DEF LineInv, AfterInv
  <2> QED
    BY <2>2 DEF NumbersInv, Built
<1>4. ExecutingInv'
  BY DEF ExecutingInv, Built, RevisionTasks, Reserved
<1>5. DecisionInv'
  BY DEF DecisionInv, Open, Built, Waits, VerdictOf, External
<1>6. ReviewedAsShown'
  BY DEF ReviewedAsShown, OfItsReport
<1>7. ResultsInv'
  BY DEF ResultsInv, ResultsAreTruthful, Built, RevisionTasks, Reserved
<1> QED
  BY <1>1, <1>2, <1>3, <1>4, <1>5, <1>6, <1>7

\* Where a command ends nothing is known.
LEMMA IdleKnows ==
  ASSUME pc' = "idle", run' = NoRun, TypeInv
  PROVE  run' \in Run /\ PlaceInv' /\ LineInv'
<1>1. PlaceInv'
  BY DEF PlaceInv, NoRun, After, Beginning, TypeInv
<1>2. LineInv'
  BY DEF LineInv, Before, After, Beginning
<1> QED
  BY <1>1, <1>2, NothingRuns

\* A save of this state is one.
Quiet(s) ==
  /\ s \in State /\ Alike(s, disk) /\ Works(s, disk)
  /\ s.saved \subseteq DOMAIN reviews /\ s.error <= Len(reviews)
  /\ s.pending \in {0, disk.pending} /\ s.phase \in {disk.phase, "blocked"}
  /\ s.checkpoint \in Advanced => disk.checkpoint \in Advanced \/ pc \in After

\* A step that builds nothing, and reviews, requests and answers nothing.
LEMMA KeepStep ==
  ASSUME IInv,
         UNCHANGED <<reports, reviews, requests, slots, claims, results, outbox>>,
         paid' \union repairs' \subseteq disk.tasks, repaid' \subseteq repairs',
         retries' \subseteq ReviewId,
         answers' \subseteq Answer, \A x \in answers' : x.request \in DOMAIN requests,
         run' \in Run, ended' \in How,
         Orderly' => Orderly /\ pc # "begin" /\ pc' # "begin",
         disk' \in State, mem' \in State, CopyInv', Alike(disk', disk),
         disk'.tasks = disk.tasks, disk.done \subseteq disk'.done,
         disk'.done \union disk'.drifted \subseteq paid',
         disk'.saved \subseteq DOMAIN reviews, disk'.error <= Len(reviews),
         disk'.pending \in {0, disk.pending}, disk'.phase \in {disk.phase, "blocked"},
         PlaceInv',
         Orderly /\ Ordered =>
           /\ disk'.checkpoint \in Advanced => disk.checkpoint \in Advanced \/ pc \in After
           /\ LineInv'
  PROVE  IInv'
<1>1. TypeInv'
  <2>1. disk.tasks \subseteq Task
    BY DEF IInv, TypeInv, State
  <2> QED
    BY <2>1 DEF IInv, TypeInv
<1>2. Data'
  BY DataBy DEF IInv, TypeInv, Always, Data, RangeInv, Alike
<1>3. Orderly' => Order'
  <2> HAVE Orderly'
  <2>1. Calm
    BY DEF Calm, IInv
  <2> QED
    BY <2>1, CalmOrder DEF IInv
<1> QED
  BY <1>1, <1>2, <1>3 DEF IInv, Always, Ordered

LEMMA WorkStep ==
  ASSUME IInv,
         UNCHANGED <<reports, reviews, requests, slots, claims, results, outbox>>,
         paid' \union repairs' \subseteq disk.tasks, repaid' \subseteq repairs',
         retries' \subseteq ReviewId,
         answers' \subseteq Answer, \A x \in answers' : x.request \in DOMAIN requests,
         run' \in Run, ended' \in How,
         Orderly' => Orderly /\ pc # "begin" /\ pc' # "begin",
         disk' \in State, mem' = disk', Alike(disk', disk),
         disk'.tasks = disk.tasks, disk.done \subseteq disk'.done,
         disk'.done \union disk'.drifted \subseteq paid',
         disk'.saved \subseteq DOMAIN reviews, disk'.error <= Len(reviews),
         disk'.pending \in {0, disk.pending}, disk'.phase \in {disk.phase, "blocked"},
         disk'.checkpoint \in Advanced => disk.checkpoint \in Advanced \/ pc \in After,
         PlaceInv', Orderly /\ Ordered => LineInv'
  PROVE  IInv'
<1>1. CopyInv'
  BY DEF CopyInv
<1> QED
  BY <1>1, KeepStep

LEMMA SaveStep ==
  ASSUME IInv, UNCHANGED <<paid, records>>, retries' \subseteq ReviewId,
         run' \in Run, ended' \in How,
         Orderly' => Orderly /\ pc # "begin" /\ pc' # "begin",
         Quiet(disk'), mem' = disk',
         PlaceInv', Orderly /\ Ordered => LineInv'
  PROVE  IInv'
<1>1. /\ paid \union repairs \subseteq disk.tasks /\ repaid \subseteq repairs
      /\ disk.done \union disk.drifted \subseteq paid
      /\ answers \subseteq Answer /\ \A x \in answers : x.request \in DOMAIN requests
  BY DEF IInv, TypeInv, Always, Data, WorkInv, RangeInv
<1> QED
  BY <1>1, WorkStep DEF records, revision, Quiet, Works

LEMMA OrderKept ==
  ASSUME UNCHANGED <<requests, lost>>
  PROVE  Orderly' <=> Orderly
BY DEF Orderly, External

LEMMA StillQuiet ==
  ASSUME IInv, NEW s, Still(s, disk), s.pending \in {0, disk.pending},
         s.checkpoint \in Advanced => disk.checkpoint \in Advanced \/ pc \in After
  PROVE  Quiet(s)
BY DEF IInv, Always, Data, RangeInv, Still, Filed, Quiet

LEMMA SelfQuiet == ASSUME IInv PROVE Quiet(disk)
BY StillSelf, StillQuiet DEF IInv, TypeInv

LEMMA MemIs == IInv /\ pc # "build" => mem = disk
BY DEF IInv, Always, CopyInv

\* A command that saves this and ends.
LEMMA EndStep ==
  ASSUME IInv, UNCHANGED <<paid, retries, records>>, NEW s, Quiet(s),
         Orderly' => Orderly /\ pc # "begin",
         NEW how \in How, SaveAndEnd(s, how)
  PROVE  IInv'
<1>1. disk' = s /\ mem' = s /\ pc' = "idle" /\ run' = NoRun /\ ended' \in How
  BY DEF SaveAndEnd, Save, End
<1>2. run' \in Run /\ PlaceInv' /\ LineInv'
  BY <1>1, IdleKnows DEF IInv
<1>3. retries' \subseteq ReviewId
  BY DEF IInv, TypeInv
<1> QED
  BY <1>1, <1>2, <1>3, SaveStep

LEMMA RefuseStep ==
  ASSUME IInv, UNCHANGED <<paid, retries, records>>, Orderly' => Orderly /\ pc # "begin",
         NEW how \in How, Refuse(how)
  PROVE  IInv'
<1>1. SaveAndEnd(disk, how)
  BY DEF Refuse, SaveAndEnd, Save
<1> QED
  BY <1>1, EndStep, SelfQuiet

-----------------------------------------------------------------------------
(* Steps that save no more than where they are.                            *)

LEMMA NothingOwed ==
  ASSUME TypeInv, Always, Orderly, Ordered, disk.report = 0
  PROVE  Owed = {}
<1>1. disk.phase = "executing" => disk.active \in DOMAIN requests
  BY DEF Ordered, Order, ExecutingInv, TypeInv
<1>2. \A r \in DOMAIN requests : requests[r].base.report \in 1 .. 0
  BY DEF Always, Data, AboutInv
<1>3. 1 .. 0 = {}
  OBVIOUS
<1> QED
  BY <1>1, <1>2, <1>3 DEF Owed

LEMMA CollectedStep == IInv /\ Collected /\ UNCHANGED lost => IInv'
<1> SUFFICES ASSUME IInv, Collected, UNCHANGED lost PROVE IInv'
  OBVIOUS
<1> DEFINE x == IF run.failures = 0 THEN "RUNNING" ELSE "PARTIALLY_COMPLETED"
           s == [mem EXCEPT !.status = x]
<1>1. mem = disk /\ disk \in State /\ pc = "record" /\ run \in Run /\ retries \subseteq ReviewId
  BY MemIs DEF Collected, IInv, TypeInv
<1>2. x \in Status
  BY DEF Status
<1>3. /\ run.got = {}
      /\ \/ run.then = "task" /\ SaveAndEnd(s, "returned")
         \/ /\ run.then # "task" /\ Enough(run.then)
            /\ Save(IF run.then = "external"
                    THEN [s EXCEPT !.checkpoint = "RESULTS_COLLECTED"] ELSE s)
            /\ Goto("integrate") /\ UNCHANGED run
         \/ SaveAndEnd(Failed(IF run.then = "external"
                              THEN [s EXCEPT !.record = "failed"] ELSE s), "failed")
      /\ UNCHANGED <<paid, retries, records>>
  BY DEF Collected, store, revision, records
<1> HIDE DEF x
<1>4. Still(s, disk) /\ s.checkpoint = disk.checkpoint /\ s.pending = disk.pending
  BY <1>1, <1>2, StatusIs
<1>5. s \in State
  BY <1>4 DEF Still
<1> HIDE DEF s
<1>6. "returned" \in How /\ "failed" \in How
  BY DEF How
<1>7. Orderly' => Orderly
  BY <1>3, OrderKept DEF records, revision
<1>8. CASE SaveAndEnd(s, "returned")
  BY <1>1, <1>3, <1>4, <1>6, <1>7, <1>8, StillQuiet, EndStep
<1>9. CASE SaveAndEnd(Failed(IF run.then = "external"
                             THEN [s EXCEPT !.record = "failed"] ELSE s), "failed")
  <2> DEFINE r == IF run.then = "external" THEN [s EXCEPT !.record = "failed"] ELSE s
             t == Failed(r)
  <2>1. Still(r, s) /\ r.checkpoint = s.checkpoint /\ r.pending = s.pending
    BY <1>5, RecordIs, StillSelf DEF Note
  <2>2. Still(t, r) /\ t.checkpoint = r.checkpoint /\ t.pending = r.pending
    <3>1. r \in State
      BY <2>1 DEF Still
    <3> HIDE DEF r
    <3> QED
      BY <3>1, StatusIs DEF Failed, Status
  <2>3. SaveAndEnd(t, "failed")
    BY <1>9
  <2> HIDE DEF r, t
  <2>4. Still(t, disk)
    BY <1>4, <2>1, <2>2, StillAgain
  <2>5. Quiet(t)
    BY <1>4, <2>1, <2>2, <2>4, StillQuiet
  <2> QED
    BY <1>1, <1>3, <1>6, <1>7, <2>3, <2>5, EndStep
<1>10. CASE /\ run.then # "task" /\ Enough(run.then)
            /\ Save(IF run.then = "external"
                    THEN [s EXCEPT !.checkpoint = "RESULTS_COLLECTED"] ELSE s)
            /\ Goto("integrate") /\ UNCHANGED run
  <2> DEFINE t == IF run.then = "external"
                  THEN [s EXCEPT !.checkpoint = "RESULTS_COLLECTED"] ELSE s
  <2>1. Still(t, s) /\ t.checkpoint \in {s.checkpoint, "RESULTS_COLLECTED"}
        /\ t.pending = s.pending
    BY <1>5, CheckpointIs, StillSelf DEF Checkpoint
  <2>2. disk' = t /\ mem' = t /\ pc' = "integrate" /\ run' = run /\ ended' = ended
    BY <1>10 DEF Save, Goto
  <2> HIDE DEF t
  <2>3. Still(t, disk)
    BY <1>4, <2>1, StillAgain
  <2>4. Quiet(t)
    BY <1>4, <2>1, <2>3, StillQuiet DEF Advanced
  <2>5. PlaceInv'
    BY <1>3, <2>2, <2>3 DEF PlaceInv, IInv, Always, records, revision, After, Beginning, Still,
       Works,
       Alike
  <2>6. Orderly /\ Ordered => LineInv'
    <3> HAVE Orderly /\ Ordered
    <3>1. CollectInv /\ BeforeInv
      BY <1>1, <1>10 DEF Ordered, LineInv
    <3>2. Owed \subseteq disk.done
      <4>1. CASE run.then = "integrate"
        BY <3>1, <4>1, NothingOwed DEF CollectInv, IInv
      <4>2. CASE run.then # "integrate"
        BY <1>1, <1>3, <1>10, <3>1, <4>2 DEF CollectInv, Enough
      <4> QED
        BY <4>1, <4>2
    <3>3. BeforeInv' /\ Owed' \subseteq disk'.done
      BY <1>3, <2>2, <2>3, <3>1, <3>2 DEF BeforeInv, Unreviewed, Owed, RevisionTasks, Reserved,
         Still,
         Alike, Works, records, revision
    <3> QED
      BY <2>2, <3>3 DEF LineInv, Before, After, Beginning
  <2> QED
    BY <1>1, <1>3, <1>7, <2>2, <2>4, <2>5, <2>6, SaveStep DEF IInv, TypeInv
<1> QED
  BY <1>3, <1>8, <1>9, <1>10

LEMMA ReuseStep == IInv /\ Reuse /\ UNCHANGED lost => IInv'
<1> SUFFICES ASSUME IInv, Reuse, UNCHANGED lost PROVE IInv'
  OBVIOUS
<1> DEFINE k == IF run.ext THEN "QUALITY_REVIEWING" ELSE mem.checkpoint
           s == [mem EXCEPT !.checkpoint = k]
<1>1. mem = disk /\ disk \in State /\ pc = "reviewing" /\ run \in Run /\ retries \subseteq ReviewId
  BY MemIs DEF Reuse, IInv, TypeInv
<1>2. k \in Checkpoint
  BY <1>1 DEF Checkpoint, State
<1>3. PICK c \in SavedReview(mem) : run' = [run EXCEPT !.call = c]
  BY DEF Reuse
<1>4. /\ disk' = s /\ mem' = s /\ pc' = "assess" /\ ended' = ended
      /\ UNCHANGED <<paid, retries, records>>
  BY DEF Reuse, Save, Goto, store, revision, records
<1> HIDE DEF k
<1>5. Still(s, disk) /\ s.pending = disk.pending
  BY <1>1, <1>2, CheckpointIs
<1> HIDE DEF s
<1>6. c \in disk.saved /\ \E id \in ReviewIds(disk) : reviews[c].id = id
  BY <1>1 DEF SavedReview, SavedAnswer
<1>7. c \in DOMAIN reviews
  BY <1>6 DEF IInv, Always, Data, RangeInv
<1>8. c \in Nat /\ c # 0 /\ c <= Len(reviews)
  BY <1>7 DEF IInv, TypeInv
<1>9. Quiet(s)
  BY <1>1, <1>5, StillQuiet DEF After
<1>10. run' \in Run /\ run'.todo = run.todo /\ run'.got = run.got /\ run'.call = c
  BY <1>1, <1>3, <1>8 DEF Run
<1>11. PlaceInv'
  BY <1>1, <1>4, <1>5, <1>8, <1>10 DEF PlaceInv, IInv, Always, records, revision, After, Beginning,
     Still, Works, Alike
<1>12. ~(Orderly /\ Ordered)
  <2> SUFFICES ASSUME Orderly, Ordered PROVE FALSE
    OBVIOUS
  <2>1. Unreviewed /\ AfterInv
    BY <1>1 DEF Ordered, LineInv, After
  <2>2. \A id \in ReviewIds(disk) : id.count = disk.count /\ id.ext = (IF run.ext THEN disk.externals ELSE 0)
    BY DEF ReviewIds, NormalTask, ReviewTask
  <2>3. reviews[c].id.count = disk.count /\ reviews[c].id.ext = disk.externals
    BY <1>6, <2>1, <2>2 DEF AfterInv
  <2> QED
    BY <1>7, <2>1, <2>3 DEF Unreviewed
<1> QED
  BY <1>1, <1>4, <1>9, <1>10, <1>11, <1>12, OrderKept, SaveStep DEF IInv, TypeInv, records, revision

LEMMA AskReviewStep == IInv /\ AskReview /\ UNCHANGED lost => IInv'
<1> SUFFICES ASSUME IInv, AskReview, UNCHANGED lost PROVE IInv'
  OBVIOUS
<1> DEFINE k == IF run.ext THEN "QUALITY_REVIEWING" ELSE mem.checkpoint
           s == [mem EXCEPT !.status = "REVIEWING", !.checkpoint = k]
<1>1. mem = disk /\ disk \in State /\ pc = "reviewing" /\ run \in Run /\ retries \subseteq ReviewId
  BY MemIs DEF AskReview, IInv, TypeInv
<1>2. k \in Checkpoint /\ "REVIEWING" \in Status
  BY <1>1 DEF Checkpoint, State, Status
<1>3. /\ disk' = s /\ mem' = s /\ pc' = "ask" /\ ended' = ended /\ run' = run
      /\ UNCHANGED <<paid, retries, records>>
  BY DEF AskReview, Save, Goto, store, revision, records
<1> HIDE DEF k
<1>8. s = [disk EXCEPT !.status = "REVIEWING", !.checkpoint = k]
  BY <1>1
<1> HIDE DEF s
<1>4. Still(s, disk) /\ s.pending = disk.pending
  BY <1>1, <1>2, <1>8 DEF State, Still, Alike, Works, Filed
<1> HIDE DEF s
<1>5. Quiet(s)
  BY <1>1, <1>4, StillQuiet DEF After
<1>6. PlaceInv'
  BY <1>1, <1>3, <1>4 DEF PlaceInv, IInv, Always, records, revision, After, Beginning,
     Still, Works, Alike
<1>7. Orderly /\ Ordered => LineInv'
  <2> HAVE Orderly /\ Ordered
  <2>1. Unreviewed /\ AfterInv
    BY <1>1 DEF Ordered, LineInv, After
  <2>2. Unreviewed' /\ AfterInv'
    BY <1>3, <1>4, <2>1 DEF Unreviewed, AfterInv, Owed, RevisionTasks, Reserved, Built, Still,
       Alike, records, revision
  <2> QED
    BY <1>3, <2>2 DEF LineInv, Before, After, Beginning
<1> QED
  BY <1>1, <1>3, <1>5, <1>6, <1>7, OrderKept, SaveStep DEF IInv, TypeInv, records, revision

LEMMA HearStep == IInv /\ Hear /\ UNCHANGED lost => IInv'
<1> SUFFICES ASSUME IInv, Hear, UNCHANGED lost PROVE IInv'
  OBVIOUS
<1> DEFINE c == run.call
           cs == mem.saved \union {c}
           s == [mem EXCEPT !.saved = cs]
<1>1. mem = disk /\ disk \in State /\ pc = "hear" /\ run \in Run /\ retries \subseteq ReviewId
  BY MemIs DEF Hear, IInv, TypeInv
<1>2. c \in DOMAIN reviews /\ c \in Nat
  BY <1>1 DEF IInv, Always, PlaceInv, TypeInv, Run
<1>3. /\ \/ /\ reviews[c].answer \in Verdict
            /\ Save(s) /\ Goto("assess") /\ UNCHANGED run
         \/ SaveAndEnd(Failed([s EXCEPT !.error = c]), "failed")
      /\ UNCHANGED <<paid, retries, records>>
  BY DEF Hear, store, revision, records
<1>4. s = [disk EXCEPT !.saved = cs] /\ cs \in SUBSET Nat /\ cs \subseteq DOMAIN reviews
  BY <1>1, <1>2 DEF State, IInv, Always, Data, RangeInv
<1>5. c <= Len(reviews)
  BY <1>2 DEF IInv, TypeInv
<1> HIDE DEF c, cs, s
<1>6. /\ s \in State /\ Alike(s, disk) /\ Works(s, disk) /\ s.saved = cs
      /\ s.error = disk.error /\ s.phase = disk.phase /\ s.checkpoint = disk.checkpoint
      /\ s.pending = disk.pending
  BY <1>1, <1>4, SavedIs
<1>7. CASE /\ reviews[c].answer \in Verdict
           /\ Save(s) /\ Goto("assess") /\ UNCHANGED run
  <2>1. disk' = s /\ mem' = s /\ pc' = "assess" /\ ended' = ended /\ run' = run
    BY <1>7 DEF Save, Goto
  <2>2. Quiet(s)
    BY <1>4, <1>6 DEF Quiet, IInv, Always, Data, RangeInv
  <2>3. PlaceInv'
    BY <1>1, <1>3, <1>6, <2>1 DEF PlaceInv, IInv, Always, records, revision, After, Beginning,
       Works, Alike
  <2>4. Orderly /\ Ordered => LineInv'
    <3> HAVE Orderly /\ Ordered
    <3>1. AfterInv /\ reviews[c].about = disk.report
      BY <1>1 DEF Ordered, LineInv, After, c
    <3>2. AfterInv'
      BY <1>3, <1>6, <2>1, <3>1 DEF AfterInv, Owed, RevisionTasks, Reserved, Built, Alike, records,
         revision
    <3> QED
      BY <1>3, <1>6, <1>7, <2>1, <3>1, <3>2 DEF LineInv, Before, After, Beginning, Alike, c, records
  <2> QED
    BY <1>1, <1>3, <2>1, <2>2, <2>3, <2>4, OrderKept, SaveStep DEF IInv, TypeInv, records, revision
<1>8. CASE SaveAndEnd(Failed([s EXCEPT !.error = c]), "failed")
  <2> DEFINE e == [s EXCEPT !.error = c]
             t == Failed(e)
  <2>1. /\ e \in State /\ Alike(e, s) /\ Works(e, s) /\ e.saved = s.saved
        /\ e.error = c /\ e.phase = s.phase /\ e.checkpoint = s.checkpoint
        /\ e.pending = s.pending
    BY <1>2, <1>6, ErrorIs
  <2>2. SaveAndEnd(t, "failed")
    BY <1>8
  <2> HIDE DEF e
  <2>3. Still(t, e) /\ t.checkpoint = e.checkpoint /\ t.pending = e.pending
    BY <2>1, StatusIs DEF Failed, Status
  <2> HIDE DEF t
  <2>4. Quiet(t)
    BY <1>4, <1>5, <1>6, <2>1, <2>3 DEF Quiet, Still, Alike, Works, Filed
  <2> QED
    BY <1>1, <1>3, <2>2, <2>4, OrderKept, EndStep DEF How, records, revision
<1> QED
  BY <1>3, <1>7, <1>8

\* Steps that only refuse.
LEMMA RefusedStep ==
  IInv /\ (RouteRefused \/ ResumeRefused \/ ResumeStale) /\ UNCHANGED lost => IInv'
<1> SUFFICES ASSUME IInv, RouteRefused \/ ResumeRefused \/ ResumeStale, UNCHANGED lost
             PROVE  IInv'
  OBVIOUS
<1>1. /\ \E how \in How : Refuse(how)
      /\ UNCHANGED <<paid, retries, records>>
      /\ pc # "begin"
  BY DEF RouteRefused, ResumeRefused, ResumeStale, HasRequest, How, store, revision, records
<1> QED
  BY <1>1, OrderKept, RefuseStep DEF records, revision

LEMMA CrashStep == IInv /\ Crash => IInv'
<1> SUFFICES ASSUME IInv, Crash PROVE IInv'
  OBVIOUS
<1>1. /\ Refuse("crashed") /\ "crashed" \in How
      /\ UNCHANGED <<paid, retries, records>>
      /\ lost' = (lost \/ pc = "begin")
  BY DEF Crash, How, store, revision, records
<1>2. Orderly' => Orderly /\ pc # "begin"
  BY <1>1 DEF Orderly, External, records, revision
<1> QED
  BY <1>1, <1>2, RefuseStep

LEMMA PrepareGateStep == IInv /\ PrepareGate /\ UNCHANGED lost => IInv'
<1> SUFFICES ASSUME IInv, PrepareGate, UNCHANGED lost PROVE IInv'
  OBVIOUS
<1> DEFINE s == Prepared(mem)
<1>1. mem = disk /\ disk \in State /\ pc = "gate"
  BY MemIs DEF PrepareGate, IInv, TypeInv
<1>6. PICK x \in Status : s = [disk EXCEPT !.status = x]
  BY <1>1 DEF Prepared, Status
<1> HIDE DEF s
<1>2. Still(s, disk) /\ s.checkpoint = disk.checkpoint /\ s.pending = disk.pending
  BY <1>1, <1>6, StatusIs
<1> USE DEF s
<1> DEFINE t == IF run.ext THEN [s EXCEPT !.record = "blocked"] ELSE s
<1>3. SaveAndEnd(t, "returned") /\ UNCHANGED <<paid, retries, records>>
  BY DEF PrepareGate, store, revision, records
<1> HIDE DEF s
<1>4. Still(t, s) /\ t.checkpoint = s.checkpoint /\ t.pending = s.pending
  BY <1>2, RecordIs, StillSelf DEF Note, Still
<1> HIDE DEF t
<1>5. Quiet(t)
  BY <1>2, <1>4, StillAgain, StillQuiet
<1> QED
  BY <1>1, <1>3, <1>5, OrderKept, EndStep DEF How, records, revision

LEMMA ResultUnusableStep == IInv /\ ResultUnusable /\ UNCHANGED lost => IInv'
<1> SUFFICES ASSUME IInv, ResultUnusable, UNCHANGED lost PROVE IInv'
  OBVIOUS
<1> DEFINE s == [mem EXCEPT !.phase = "blocked", !.status = "BLOCKED"]
<1>1. mem = disk /\ disk \in State /\ pc = "resume"
  BY MemIs DEF ResultUnusable, IInv, TypeInv
<1>5. s = [disk EXCEPT !.phase = "blocked", !.status = "BLOCKED"]
  BY <1>1
<1>6. "blocked" \in Phase /\ "BLOCKED" \in Status
  BY DEF Phase, Status
<1> HIDE DEF s
<1>2. /\ s \in State /\ Alike(s, disk) /\ Works(s, disk) /\ Filed(s, disk)
      /\ s.phase = "blocked" /\ s.checkpoint = disk.checkpoint /\ s.pending = disk.pending
  BY <1>1, <1>5, <1>6 DEF State, Alike, Works, Filed
<1> USE DEF s
<1>3. SaveAndEnd(s, "returned") /\ UNCHANGED <<paid, retries, records>>
  BY DEF ResultUnusable, store, revision, records
<1> HIDE DEF s
<1>4. Quiet(s)
  BY <1>2 DEF Quiet, Filed, IInv, Always, Data, RangeInv
<1> QED
  BY <1>1, <1>3, <1>4, OrderKept, EndStep DEF How, records, revision

LEMMA ResumeAnsweredStep == IInv /\ ResumeAnswered /\ UNCHANGED lost => IInv'
<1> SUFFICES ASSUME IInv, ResumeAnswered, UNCHANGED lost PROVE IInv'
  OBVIOUS
<1> DEFINE n == IF Matches(mem) THEN "reply_sent" ELSE mem.record
           s == [mem EXCEPT !.status = "COMPLETED_REVISION", !.pending = 0, !.record = n,
                            !.checkpoint = "COMPLETED_REVISION"]
<1>1. mem = disk /\ disk \in State /\ pc = "resume"
  BY MemIs DEF ResumeAnswered, HasRequest, IInv, TypeInv
<1>2. n \in Note
  BY <1>1 DEF Note, State
<1>3. SaveAndEnd(s, "returned") /\ UNCHANGED <<paid, retries, records>>
  BY DEF ResumeAnswered, store, revision, records
<1> HIDE DEF n
<1>6. s = [disk EXCEPT !.status = "COMPLETED_REVISION", !.pending = 0, !.record = n,
                       !.checkpoint = "COMPLETED_REVISION"]
  BY <1>1
<1> HIDE DEF s
<1>7. "COMPLETED_REVISION" \in Status /\ "COMPLETED_REVISION" \in Checkpoint
  BY DEF Status, Checkpoint
<1>4. Still(s, disk) /\ s.checkpoint = "COMPLETED_REVISION" /\ s.pending = 0
  BY <1>1, <1>2, <1>6, <1>7 DEF State, Still, Alike, Works, Filed
<1>5. Quiet(s)
  BY <1>4, StillQuiet DEF Advanced
<1> QED
  BY <1>1, <1>3, <1>5, OrderKept, EndStep DEF How, records, revision

LEMMA ExecuteRefusedStep == IInv /\ ExecuteRefused /\ UNCHANGED lost => IInv'
<1> SUFFICES ASSUME IInv, ExecuteRefused, UNCHANGED lost PROVE IInv'
  OBVIOUS
<1> DEFINE s == [disk EXCEPT !.phase = "blocked"]
<1>1. /\ SaveAndEnd(s, "exhausted") \/ Refuse("not_resumable")
      /\ UNCHANGED <<paid, retries, records>> /\ pc = "idle" /\ disk \in State
  BY DEF ExecuteRefused, Command, store, revision, records, IInv, TypeInv
<1>2. /\ s \in State /\ Alike(s, disk) /\ Works(s, disk) /\ Filed(s, disk)
      /\ s.phase = "blocked" /\ s.checkpoint = disk.checkpoint /\ s.pending = disk.pending
  BY <1>1, PhaseIs DEF Phase
<1> HIDE DEF s
<1>3. Quiet(s)
  BY <1>2 DEF Quiet, Filed, IInv, Always, Data, RangeInv
<1> QED
  BY <1>1, <1>3, OrderKept, EndStep, RefuseStep DEF How, records, revision

\* A command that begins, or goes on, without a save.
LEMMA GoStep ==
  ASSUME IInv, UNCHANGED <<paid, records, lost, disk, ended>>, retries' \subseteq ReviewId,
         run' \in Run, mem' = disk, pc # "begin", pc' # "begin",
         PlaceInv', Orderly /\ Ordered => LineInv'
  PROVE  IInv'
BY SelfQuiet, OrderKept, SaveStep DEF IInv, TypeInv, records, revision

LEMMA ResumeStep == IInv /\ Resume /\ UNCHANGED lost => IInv'
<1> SUFFICES ASSUME IInv, Resume, UNCHANGED lost PROVE IInv'
  OBVIOUS
<1>1. /\ UNCHANGED <<paid, retries, records, disk, run, ended>> /\ mem' = disk
      /\ pc = "idle" /\ pc' = "resume"
  BY DEF Resume, Command, Goto, store, revision, records
<1>2. PlaceInv'
  BY <1>1 DEF PlaceInv, IInv, Always, records, revision, After, Beginning
<1>3. LineInv'
  BY <1>1 DEF LineInv, After, Before, Beginning
<1> QED
  BY <1>1, <1>2, <1>3, GoStep DEF IInv, TypeInv

LEMMA ProviderRetryStep == IInv /\ ProviderRetry /\ UNCHANGED lost => IInv'
<1> SUFFICES ASSUME IInv, ProviderRetry, UNCHANGED lost PROVE IInv'
  OBVIOUS
<1> DEFINE c == disk.error
           again == [reviews[c].id EXCEPT !.retry = TRUE]
<1>1. /\ UNCHANGED <<paid, records, disk, run, ended>> /\ mem' = disk
      /\ pc = "idle" /\ pc' = "resume" /\ c # 0
      /\ retries' = retries \union {again}
  BY DEF ProviderRetry, Command, Goto, revision, records
<1>2. c \in DOMAIN reviews /\ reviews \in Seq(Review)
  <2>1. disk.error \in Nat /\ reviews \in Seq(Review) /\ disk.error <= Len(reviews)
    BY DEF IInv, TypeInv, Always, Data, RangeInv, State
  <2> QED
    BY <1>1, <2>1
<1>3. reviews[c].id \in ReviewId
  <2> HIDE DEF c
  <2>1. reviews[c] \in Review
    BY <1>2
  <2> QED
    BY <2>1 DEF Review
<1>4. again \in ReviewId
  BY <1>3 DEF ReviewId
<1> HIDE DEF again
<1>5. retries' \subseteq ReviewId
  BY <1>1, <1>4 DEF IInv, TypeInv
<1>6. PlaceInv'
  BY <1>1 DEF PlaceInv, IInv, Always, records, revision, After, Beginning
<1>7. LineInv'
  BY <1>1 DEF LineInv, After, Before, Beginning
<1> QED
  BY <1>1, <1>5, <1>6, <1>7, GoStep DEF IInv, TypeInv

LEMMA RuntimeRepairStep == IInv /\ RuntimeRepair /\ UNCHANGED lost => IInv'
<1> SUFFICES ASSUME IInv, RuntimeRepair, UNCHANGED lost PROVE IInv'
  OBVIOUS
<1>1. /\ UNCHANGED <<paid, retries, records, disk, ended>> /\ mem' = disk
      /\ pc = "idle" /\ pc' = "repair" /\ disk.report = 0
      /\ run' = [NoRun EXCEPT !.then = "repair"]
  BY DEF RuntimeRepair, MayRepair, Command, Goto, store, revision, records
<1>2. run' \in Run /\ run'.todo = {} /\ run'.got = {} /\ run'.call = 0 /\ ~run'.reuse
  BY <1>1 DEF NoRun, Run, Then
<1>3. PlaceInv'
  BY <1>1, <1>2 DEF PlaceInv, IInv, Always, TypeInv, records, revision, After, Beginning
<1>4. LineInv'
  BY <1>1, <1>2 DEF LineInv, After, Before, Beginning
<1> QED
  BY <1>1, <1>2, <1>3, <1>4, GoStep DEF IInv, TypeInv

LEMMA RunTaskStep == IInv /\ RunTask /\ UNCHANGED lost => IInv'
<1> SUFFICES ASSUME IInv, RunTask, UNCHANGED lost PROVE IInv'
  OBVIOUS
<1> DEFINE s == Dispatched(disk)
<1>1. PICK t \in disk.tasks : run' = [NoRun EXCEPT !.todo = {t}, !.then = "task"]
  BY DEF RunTask
<1>2. /\ UNCHANGED <<paid, retries, records, ended>> /\ disk' = s /\ mem' = s
      /\ pc = "idle" /\ pc' = "gather" /\ disk \in State
  BY DEF RunTask, Command, Save, Goto, store, revision, records, IInv, TypeInv
<1>3. Still(s, disk) /\ s.checkpoint = disk.checkpoint /\ s.pending = disk.pending
  BY <1>2, StatusIs DEF Dispatched, Status
<1> HIDE DEF s
<1>4. t \in Task
  BY <1>2 DEF State
<1>5. /\ run' \in Run /\ run'.todo = {t} /\ run'.got = {} /\ run'.call = 0 /\ run'.then = "task"
      /\ ~run'.reuse
  BY <1>1, <1>4 DEF NoRun, Run, Then
<1>6. PlaceInv'
  BY <1>2, <1>3, <1>5 DEF PlaceInv, IInv, Always, TypeInv, records, revision, After, Beginning,
     Still, Works, Alike
<1>7. LineInv'
  BY <1>2, <1>5 DEF LineInv, After, Before, Beginning
<1> QED
  BY <1>2, <1>3, <1>5, <1>6, <1>7, StillQuiet, OrderKept, SaveStep DEF IInv, TypeInv, records,
     revision

-----------------------------------------------------------------------------
(* Requests of Deliberation.                                               *)

LEMMA SlotIs ==
  ASSUME IInv, External # {}
  PROVE  Slot \in External /\ \A x \in External : x <= Slot
BY DEF Slot, IInv, Always, Data, ExternalInv

\* What the slot holds is about the report, if it is current.
LEMMA CurrentIs ==
  ASSUME IInv, Orderly, External # {}, Current(Slot, disk)
  PROVE  ~Built(Slot)
<1>1. Slot \in External /\ Slot \in DOMAIN requests
  BY SlotIs DEF External
<1>2. requests[Slot].base.report = disk.report
  BY <1>1 DEF Current, Orderly
<1>3. disk.report \in Nat
  BY DEF IInv, TypeInv, State
<1> QED
  BY <1>2, <1>3 DEF Built

\* A line for Deliberation owes no revision anything, and its number is new.
LEMMA OutsideOwes ==
  ASSUME IInv, Orderly, pc = "external"
  PROVE  Owed \subseteq disk.done /\ Unreviewed /\ disk.checkpoint \notin Advanced
<1>1. Ordered /\ External # {} /\ disk.request = Slot /\ ~Built(Slot)
  BY DEF IInv, Ordered, LineInv, Always, PlaceInv
<1>2. Slot \in External /\ Slot # 0
  <2>1. Slot \in External /\ Slot \in DOMAIN requests
    BY <1>1, SlotIs DEF External
  <2> QED
    BY <2>1 DEF IInv, TypeInv
<1>3. Unreviewed /\ disk.checkpoint \notin Advanced
  BY <1>1, <1>2 DEF Ordered, Order, NumbersInv, Unreviewed
<1>4. disk.decision = "accept"
  BY <1>1, <1>2 DEF Ordered, Order, DecisionInv
<1>5. ~Open
  BY <1>1, <1>4 DEF Ordered, Order, DecisionInv
<1>6. Owed \subseteq disk.done
  <2>1. CASE disk.phase = "executing"
    <3>1. disk.active \in slots /\ disk.active # 0
      BY <1>1, <2>1 DEF Ordered, Order, ExecutingInv, IInv, TypeInv
    <3> QED
      BY <1>1, <1>5, <2>1, <3>1 DEF Open, Ordered, Order, ExecutingInv, Owed
  <2>2. CASE disk.phase # "executing"
    BY <2>2 DEF Owed
  <2> QED
    BY <2>1, <2>2
<1> QED
  BY <1>3, <1>6

LEMMA ResumeOldStep == IInv /\ ResumeOld /\ UNCHANGED lost => IInv'
<1> SUFFICES ASSUME IInv, ResumeOld, UNCHANGED lost PROVE IInv'
  OBVIOUS
<1> DEFINE s == [mem EXCEPT !.record = "processing"]
<1>1. mem = disk /\ disk \in State /\ pc = "resume" /\ run \in Run /\ External # {}
  BY MemIs DEF ResumeOld, HasRequest, IInv, TypeInv
<1>2. /\ disk' = s /\ mem' = s /\ pc' = "external"
      /\ UNCHANGED <<paid, retries, records, run, ended>>
  BY DEF ResumeOld, Save, Goto, store, revision, records
<1>3. /\ Current(Slot, disk) /\ outbox.request # Slot /\ disk.request = Slot
      /\ TasksOf(Slot, Asked) \subseteq disk.tasks
  BY <1>1 DEF ResumeOld, Matches
<1>4. s = [disk EXCEPT !.record = "processing"] /\ "processing" \in Note
  BY <1>1 DEF Note
<1> HIDE DEF s
<1>5. Still(s, disk) /\ s.checkpoint = disk.checkpoint /\ s.pending = disk.pending
  BY <1>1, <1>4, RecordIs
<1>6. External' = External /\ Slot' = Slot
  BY <1>2 DEF External, Slot, records, revision
<1>7. PlaceInv'
  BY <1>1, <1>2, <1>3, <1>5, <1>6 DEF PlaceInv, IInv, Always, records, revision, After, Beginning,
     Still, Works, Alike
<1>8. Orderly /\ Ordered => LineInv'
  <2> HAVE Orderly /\ Ordered
  <2>1. ~Built(Slot)
    BY <1>1, <1>3, CurrentIs
  <2>2. ~Built(Slot)'
    BY <1>2, <1>5, <1>6, <2>1 DEF Built, Still, Alike, records, revision
  <2> QED
    BY <1>2, <1>3, <1>5, <1>6, <2>2 DEF LineInv, After, Before, Beginning, Still, Alike
<1> QED
  BY <1>1, <1>2, <1>5, <1>7, <1>8, StillQuiet, OrderKept, SaveStep DEF IInv, TypeInv, records,
     revision

LEMMA ExternalTasksStep == IInv /\ ExternalTasks /\ UNCHANGED lost => IInv'
<1> SUFFICES ASSUME IInv, ExternalTasks, UNCHANGED lost PROVE IInv'
  OBVIOUS
<1> DEFINE todo == TasksOf(Slot, Asked) \ mem.done
           next == [NoRun EXCEPT !.ext = TRUE, !.then = "external"]
<1>1. mem = disk /\ disk \in State /\ pc = "external"
  BY MemIs DEF ExternalTasks, IInv, TypeInv
<1>2. /\ UNCHANGED <<paid, retries, records>>
      /\ \/ Refuse("checkpoint_conflict")
         \/ /\ Save(Dispatched([mem EXCEPT !.checkpoint = "TASKS_DISPATCHED"]))
            /\ run' = [next EXCEPT !.todo = todo]
            /\ Goto("gather")
         \/ /\ Save([mem EXCEPT !.checkpoint = IF mem.checkpoint \in Advanced THEN mem.checkpoint
                                               ELSE "RESULTS_COLLECTED"])
            /\ run' = [next EXCEPT !.reuse = (mem.checkpoint \in Advanced)]
            /\ Goto("integrate")
  BY DEF ExternalTasks, store, revision, records
<1>3. /\ External # {} /\ outbox.request # Slot /\ Slot \in External
      /\ TasksOf(Slot, Asked) \subseteq disk.tasks
  BY <1>1, SlotIs DEF IInv, Always, PlaceInv
<1>10. disk.report # 0
  <2>1. Slot \in DOMAIN requests
    BY <1>3 DEF External
  <2>2. requests[Slot].base.report \in 1 .. disk.report
    BY <2>1 DEF IInv, Always, Data, AboutInv
  <2> QED
    BY <2>2
<1>4. next \in Run /\ next.ext /\ next.then = "external" /\ next.todo = {} /\ next.got = {}
      /\ next.call = 0 /\ ~next.reuse
  BY DEF NoRun, Run, Then
<1>5. todo \in SUBSET Task /\ todo \subseteq disk.tasks /\ \A t \in todo : Authorized(t)
  <2>1. todo \subseteq disk.tasks /\ disk.tasks \in SUBSET Task
    BY <1>1, <1>3 DEF State
  <2>2. \A t \in todo : t.cycle = Slot
    BY DEF TasksOf
  <2> QED
    BY <1>3, <2>1, <2>2 DEF Authorized, Reserved
<1> HIDE DEF todo, next
<1>6. External' = External /\ Slot' = Slot
  BY <1>2 DEF External, Slot, records, revision
<1>7. CASE Refuse("checkpoint_conflict")
  BY <1>1, <1>2, <1>7, OrderKept, RefuseStep DEF How, records, revision
<1>8. CASE /\ Save(Dispatched([mem EXCEPT !.checkpoint = "TASKS_DISPATCHED"]))
           /\ run' = [next EXCEPT !.todo = todo]
           /\ Goto("gather")
  <2> DEFINE r == [disk EXCEPT !.checkpoint = "TASKS_DISPATCHED"]
             s == Dispatched(r)
  <2>1. disk' = s /\ mem' = s /\ pc' = "gather" /\ ended' = ended
    BY <1>1, <1>8 DEF Save, Goto
  <2>2. "TASKS_DISPATCHED" \in Checkpoint \ Advanced /\ "COLLECTING" \in Status
    BY DEF Checkpoint, Advanced, Status
  <2>3. s = [r EXCEPT !.status = "COLLECTING"]
    BY DEF Dispatched
  <2> HIDE DEF s
  <2>4. Still(r, disk) /\ r.checkpoint = "TASKS_DISPATCHED" /\ r.pending = disk.pending
    BY <1>1, <2>2, CheckpointIs
  <2> HIDE DEF r
  <2>5. Still(s, r) /\ s.checkpoint = r.checkpoint /\ s.pending = r.pending
    BY <2>2, <2>3, <2>4, StatusIs DEF Still
  <2>6. Still(s, disk)
    BY <2>4, <2>5, StillAgain
  <2>7. Quiet(s)
    BY <2>2, <2>4, <2>5, <2>6, StillQuiet
  <2>8. run' \in Run /\ run'.todo = todo /\ run'.got = {} /\ run'.call = 0
        /\ run'.ext /\ ~run'.reuse /\ run'.then = "external"
    BY <1>4, <1>5, <1>8 DEF Run
  <2>9. PlaceInv'
    BY <1>2, <1>5, <2>1, <2>6, <2>8 DEF PlaceInv, IInv, Always, TypeInv, records, revision, After,
       Beginning, Still, Works, Authorized, Reserved, External
  <2>10. Orderly /\ Ordered => LineInv'
    <3> HAVE Orderly /\ Ordered
    <3>1. Owed \subseteq disk.done /\ Unreviewed
      BY <1>1, OutsideOwes
    <3>2. CollectInv' /\ BeforeInv'
      BY <1>2, <2>1, <2>6, <2>8, <3>1 DEF CollectInv, BeforeInv, Unreviewed, Owed, RevisionTasks,
         Reserved,
         Still, Works, Alike, records, revision
    <3> QED
      BY <2>1, <3>2 DEF LineInv, Before, After, Beginning
  <2> QED
    BY <1>1, <1>2, <2>1, <2>7, <2>8, <2>9, <2>10, OrderKept, SaveStep DEF IInv, TypeInv, records,
       revision
<1>9. CASE /\ Save([mem EXCEPT !.checkpoint = IF mem.checkpoint \in Advanced THEN mem.checkpoint
                                              ELSE "RESULTS_COLLECTED"])
           /\ run' = [next EXCEPT !.reuse = (mem.checkpoint \in Advanced)]
           /\ Goto("integrate")
  <2> DEFINE k == IF disk.checkpoint \in Advanced THEN disk.checkpoint ELSE "RESULTS_COLLECTED"
             s == [disk EXCEPT !.checkpoint = k]
             b == disk.checkpoint \in Advanced
  <2>1. disk' = s /\ mem' = s /\ pc' = "integrate" /\ ended' = ended
    BY <1>1, <1>9 DEF Save, Goto
  <2>2. k \in Checkpoint /\ (k \in Advanced => disk.checkpoint \in Advanced)
    BY <1>1 DEF Checkpoint, Advanced, State
  <2>3. run' = [next EXCEPT !.reuse = b] /\ b \in BOOLEAN
    BY <1>1, <1>9
  <2> HIDE DEF k
  <2>4. Still(s, disk) /\ s.checkpoint = k /\ s.pending = disk.pending
    BY <1>1, <2>2, CheckpointIs
  <2> HIDE DEF s, b
  <2>5. Quiet(s)
    BY <2>2, <2>4, StillQuiet
  <2>6. run' \in Run /\ run'.todo = {} /\ run'.got = {} /\ run'.call = 0 /\ run'.ext
        /\ run'.reuse = b
    BY <1>4, <2>3 DEF Run
  <2>7. PlaceInv'
    BY <1>2, <1>10, <2>1, <2>4, <2>6 DEF PlaceInv, IInv, Always, TypeInv, records, revision, After,
       Beginning, Still, Alike
  <2>8. Orderly /\ Ordered => LineInv'
    <3> HAVE Orderly /\ Ordered
    <3>1. Owed \subseteq disk.done /\ Unreviewed /\ ~b
      BY <1>1, OutsideOwes DEF b
    <3>2. BeforeInv' /\ Owed' \subseteq disk'.done
      BY <1>2, <2>1, <2>4, <2>6, <3>1 DEF BeforeInv, Unreviewed, Owed, RevisionTasks, Reserved,
         Still, Works, Alike, records, revision
    <3> QED
      BY <2>1, <3>2 DEF LineInv, Before, After, Beginning
  <2> QED
    BY <1>1, <1>2, <2>1, <2>5, <2>6, <2>7, <2>8, OrderKept, SaveStep DEF IInv, TypeInv, records,
       revision
<1> QED
  BY <1>2, <1>7, <1>8, <1>9

-----------------------------------------------------------------------------
(* The work of specialists.                                                *)

LEMMA KeptStores ==
  IInv => /\ paid \union repairs \subseteq disk.tasks /\ repaid \subseteq repairs
          /\ disk.done \union disk.drifted \subseteq paid
          /\ answers \subseteq Answer /\ \A x \in answers : x.request \in DOMAIN requests
          /\ retries \subseteq ReviewId
BY DEF IInv, TypeInv, Always, Data, WorkInv, RangeInv

LEMMA GatherStep == IInv /\ Gather /\ UNCHANGED lost => IInv'
<1> SUFFICES ASSUME IInv, Gather, UNCHANGED lost PROVE IInv'
  OBVIOUS
<1>1. /\ pc = "gather" /\ pc' = "record" /\ ended' = ended
      /\ UNCHANGED <<disk, mem, retries, records>>
  BY DEF Gather, Goto, revision, records
<1>2. PICK sent \in SUBSET (run.todo \ paid), f \in [run.todo -> Kind] :
        /\ \A t \in run.todo : t \notin sent => f[t] = "error"
        /\ paid' = paid \union sent
        /\ run' = [run EXCEPT !.got = {<<t, f[t]>> : t \in run.todo}, !.failures = 0]
  BY DEF Gather, Kind
<1>3. mem = disk /\ disk \in State /\ run \in Run
  BY <1>1, MemIs DEF IInv, TypeInv
<1> DEFINE got == {<<t, f[t]>> : t \in run.todo}
<1>4. got \in SUBSET (Task \X Kind) /\ run.todo \subseteq disk.tasks
  BY <1>3 DEF Run, IInv, Always, PlaceInv
<1>5. \A x \in got : x[1] \in run.todo /\ (x[2] # "error" => x[1] \in sent)
  BY <1>2
<1>6. run.todo \subseteq {x[1] : x \in got}
  <2> SUFFICES ASSUME NEW t \in run.todo PROVE \E x \in got : x[1] = t
    OBVIOUS
  <2> WITNESS <<t, f[t]>> \in got
  <2> QED
    OBVIOUS
<1>7. run' = [run EXCEPT !.got = got, !.failures = 0]
  BY <1>2
<1> HIDE DEF got
<1>8. /\ run' \in Run /\ run'.got = got /\ run'.failures = 0 /\ run'.todo = run.todo
      /\ run'.then = run.then /\ run'.call = run.call /\ run'.ext = run.ext
      /\ run'.reuse = run.reuse
  BY <1>3, <1>4, <1>7 DEF Run
<1>9. PlaceInv'
  BY <1>1, <1>2, <1>5, <1>8 DEF PlaceInv, IInv, Always, records, revision, After, Beginning
<1>10. Orderly /\ Ordered => LineInv'
  <2> HAVE Orderly /\ Ordered
  <2>1. CASE run.then = "task"
    BY <1>1, <1>8, <2>1 DEF LineInv, After, Before, Beginning
  <2>2. CASE run.then # "task"
    <3>1. CollectInv /\ BeforeInv
      BY <1>1, <2>2 DEF Ordered, LineInv
    <3>2. Owed' = Owed
      BY <1>1 DEF Owed, RevisionTasks, Reserved, records, revision
    <3>3. CollectInv' /\ BeforeInv'
      BY <1>1, <1>6, <1>8, <3>1, <3>2 DEF CollectInv, BeforeInv, Unreviewed, records
    <3> QED
      BY <1>1, <3>3 DEF LineInv, After, Before, Beginning
  <2> QED
    BY <2>1, <2>2
<1>11. Orderly' => Orderly
  BY <1>1, OrderKept DEF records, revision
<1>12. paid \subseteq paid' /\ paid' \subseteq disk.tasks
  BY <1>2, <1>4, KeptStores
<1>13. Alike(disk', disk) /\ disk'.saved \subseteq DOMAIN reviews /\ disk'.error <= Len(reviews)
  BY <1>1 DEF Alike, IInv, Always, Data, RangeInv
<1> QED
  BY <1>1, <1>3, <1>8, <1>9, <1>10, <1>11, <1>12, <1>13, KeptStores, WorkStep
     DEF IInv, TypeInv, records, revision

LEMMA RecordStep == IInv /\ Record /\ UNCHANGED lost => IInv'
<1> SUFFICES ASSUME IInv, Record, UNCHANGED lost PROVE IInv'
  OBVIOUS
<1>1. PICK x \in run.got :
        /\ Save(Recorded(mem, x[1], x[2]))
        /\ run' = [run EXCEPT !.got = @ \ {x},
                              !.failures = IF x[2] = "result" THEN @ ELSE @ + 1]
  BY DEF Record
<1>2. /\ pc = "record" /\ pc' = "record" /\ ended' = ended
      /\ UNCHANGED <<paid, retries, records>>
  BY DEF Record, store, revision, records
<1>3. mem = disk /\ disk \in State /\ run \in Run
  BY <1>2, MemIs DEF IInv, TypeInv
<1> DEFINE s == Recorded(disk, x[1], x[2])
           got == run.got \ {x}
           n == IF x[2] = "result" THEN run.failures ELSE run.failures + 1
<1>4. x[1] \in Task /\ x[2] \in Kind /\ got \in SUBSET (Task \X Kind) /\ n \in Nat
  BY <1>3 DEF Run
<1>5. disk' = s /\ mem' = s
  BY <1>1, <1>3 DEF Save
<1>6. run' = [run EXCEPT !.got = got, !.failures = n]
  BY <1>1, <1>3 DEF Run
<1>7. n = 0 => run.failures = 0 /\ x[2] = "result"
  BY <1>3 DEF Run
<1> HIDE DEF s, n
<1>8. /\ run' \in Run /\ run'.got = got /\ run'.failures = n /\ run'.todo = run.todo
      /\ run'.then = run.then /\ run'.call = run.call /\ run'.ext = run.ext
      /\ run'.reuse = run.reuse
  <2> HIDE DEF got
  <2> QED
    BY <1>3, <1>4, <1>6 DEF Run
<1>9. /\ s \in State /\ Alike(s, disk) /\ Filed(s, disk) /\ s.phase = disk.phase
      /\ s.checkpoint = disk.checkpoint /\ s.pending = disk.pending /\ s.tasks = disk.tasks
      /\ s.done = (IF x[2] = "result" THEN disk.done \union {x[1]} ELSE disk.done)
      /\ s.drifted = (IF x[2] = "drift" THEN disk.drifted \union {x[1]} ELSE disk.drifted)
  BY <1>3, <1>4, RecordedIs DEF s
<1>10. x[1] \in run.todo /\ (x[2] # "error" => x[1] \in paid)
  BY DEF IInv, Always, PlaceInv
<1>11. s.done \union s.drifted \subseteq paid /\ disk.done \subseteq s.done
  BY <1>9, <1>10, KeptStores
<1>12. PlaceInv'
  BY <1>2, <1>5, <1>8, <1>9 DEF PlaceInv, IInv, Always, Alike, records, revision, After, Beginning
<1>13. Orderly /\ Ordered => LineInv'
  <2> HAVE Orderly /\ Ordered
  <2>1. CASE run.then = "task"
    BY <1>2, <1>8, <2>1 DEF LineInv, After, Before, Beginning
  <2>2. CASE run.then # "task"
    <3>1. CollectInv /\ BeforeInv
      BY <1>2, <2>2 DEF Ordered, LineInv
    <3>2. Owed' = Owed
      BY <1>2, <1>5, <1>9 DEF Owed, RevisionTasks, Reserved, records, revision, Alike
    <3>3. BeforeInv'
      BY <1>2, <1>5, <1>8, <1>9, <3>1 DEF BeforeInv, Unreviewed, records, Alike
    <3>4. n = 0 => Owed \subseteq s.done \union {y[1] : y \in got}
      <4> SUFFICES ASSUME n = 0, NEW t \in Owed, t \notin s.done
                   PROVE  \E y \in got : y[1] = t
        OBVIOUS
      <4>1. PICK y \in run.got : y[1] = t
        BY <1>2, <1>7, <1>11, <3>1 DEF CollectInv
      <4>2. y # x
        BY <1>7, <1>9, <4>1
      <4> QED
        BY <4>1, <4>2
    <3>5. CollectInv'
      <4> HIDE DEF got
      <4> QED
        BY <1>2, <1>5, <1>8, <1>9, <3>1, <3>2, <3>4 DEF CollectInv, Alike
    <3> QED
      BY <1>2, <3>3, <3>5 DEF LineInv, After, Before, Beginning
  <2> QED
    BY <2>1, <2>2
<1>14. Orderly' => Orderly
  BY <1>2, OrderKept DEF records, revision
<1> QED
  BY <1>2, <1>3, <1>5, <1>8, <1>9, <1>11, <1>12, <1>13, <1>14, KeptStores, WorkStep
     DEF IInv, TypeInv, Always, Data, RangeInv, records, revision, Filed

LEMMA RepairTaskStep == IInv /\ RepairTask /\ UNCHANGED lost => IInv'
<1> SUFFICES ASSUME IInv, RepairTask, UNCHANGED lost PROVE IInv'
  OBVIOUS
<1> DEFINE s == Dispatched(disk)
<1>1. mem = disk /\ disk \in State /\ run \in Run /\ pc = "repair"
  BY MemIs DEF IInv, TypeInv, RepairTask
<1>2. PICK t \in Candidates(disk) :
        repairs' = repairs \union {t} /\ run' = [run EXCEPT !.todo = {t}]
  BY <1>1 DEF RepairTask
<1>3. /\ disk' = s /\ mem' = s /\ pc' = "repairing" /\ ended' = ended
      /\ UNCHANGED <<paid, repaid, reports, reviews, retries, revision, outbox>>
  BY <1>1 DEF RepairTask, Save, Goto
<1>4. Still(s, disk) /\ s.checkpoint = disk.checkpoint /\ s.pending = disk.pending
  BY <1>1, StatusIs DEF Dispatched, Status
<1> HIDE DEF s
<1>5. t \in disk.drifted \ disk.done /\ t \in Task /\ t \in disk.tasks
  BY <1>1, <1>2, KeptStores DEF Candidates, State
<1>6. /\ run' \in Run /\ run'.todo = {t} /\ run'.got = run.got /\ run'.call = run.call
      /\ run'.reuse = run.reuse /\ run'.ext = run.ext
  BY <1>1, <1>2, <1>5 DEF Run
<1>7. PlaceInv'
  BY <1>1, <1>2, <1>3, <1>4, <1>5, <1>6 DEF PlaceInv, IInv, Always, After, Beginning, Still, Works,
     Alike
<1>8. Orderly /\ Ordered => LineInv'
  BY <1>1, <1>3, <1>4, <1>6 DEF Ordered, LineInv, After, Before, Beginning, Still, Alike
<1>9. Orderly' => Orderly
  BY <1>3, OrderKept DEF revision
<1>10. paid \union repairs' \subseteq disk.tasks /\ repaid \subseteq repairs'
  BY <1>2, <1>5, KeptStores
<1> QED
  BY <1>1, <1>3, <1>4, <1>6, <1>7, <1>8, <1>9, <1>10, KeptStores, WorkStep
     DEF IInv, TypeInv, Always, Data, RangeInv, revision, Still, Works, Filed

-----------------------------------------------------------------------------
(* Requests and answers.                                                   *)

LEMMA ProducerAnswersStep == IInv /\ ProducerAnswers /\ UNCHANGED lost => IInv'
<1> SUFFICES ASSUME IInv, ProducerAnswers, UNCHANGED lost PROVE IInv'
  OBVIOUS
<1>1. PICK r \in Upstream, b \in BOOLEAN :
        answers' = answers \union {[request |-> r, completed |-> b]}
  BY DEF ProducerAnswers
<1>2. UNCHANGED <<disk, mem, pc, run, ended, store, requests, slots, claims, results, outbox, lost>>
  BY DEF ProducerAnswers
<1>3. r \in DOMAIN requests /\ r \in Nat
  BY DEF Upstream, IInv, TypeInv
<1>4. TypeInv'
  BY <1>1, <1>2, <1>3 DEF IInv, TypeInv, Answer, store
<1>5. Data'
  <2>1. RangeInv'
    BY <1>1, <1>2, <1>3 DEF IInv, Always, Data, RangeInv, store
  <2>2. AboutInv' /\ WorkInv' /\ ExternalInv' /\ ClaimsInv' /\ BudgetInv'
    BY <1>2 DEF IInv, Always, Data, AboutInv, WorkInv, ExternalInv, External, ClaimsInv, BudgetInv,
       store
  <2> QED
    BY <2>1, <2>2 DEF Data
<1>6. CopyInv' /\ PlaceInv'
  BY <1>2 DEF IInv, Always, CopyInv, PlaceInv, Authorized, Reserved, External, Slot, store
<1>7. Orderly /\ Ordered => Ordered'
  <2> HAVE Orderly /\ Ordered
  <2>1. ReviewsInv' /\ CountInv' /\ NumbersInv' /\ ExecutingInv' /\ DecisionInv'
    BY <1>2 DEF Ordered, Order, ReviewsInv, CountInv, NumbersInv, ExecutingInv, DecisionInv,
       RevisionTasks, Reserved, Built, Open, Waits, VerdictOf, External, store
  <2>2. ReviewedAsShown' /\ ResultsInv'
    BY <1>2 DEF Ordered, Order, ReviewedAsShown, OfItsReport, ResultsInv, ResultsAreTruthful,
       RevisionTasks, Reserved, Built, Orderly, External, store
  <2>3. LineInv'
    BY <1>2 DEF Ordered, LineInv, CollectInv, BeforeInv, AfterInv, Owed, Unreviewed, Built,
       RevisionTasks, Reserved, VerdictOf, Slot, External, store
  <2> QED
    BY <2>1, <2>2, <2>3 DEF Ordered, Order
<1> QED
  BY <1>2, <1>4, <1>5, <1>6, <1>7, OrderKept DEF IInv, Always

LEMMA NumbersAre ==
  IInv => /\ {disk.active, disk.request, disk.pending, outbox.request} \subseteq Nat
          /\ (disk.active # 0 => disk.active \in DOMAIN requests)
          /\ (disk.request # 0 => disk.request \in DOMAIN requests)
          /\ slots \subseteq DOMAIN requests
          /\ disk.report \in Nat
<1> SUFFICES ASSUME IInv
             PROVE  /\ {disk.active, disk.request, disk.pending, outbox.request} \subseteq Nat
                    /\ (disk.active # 0 => disk.active \in DOMAIN requests)
                    /\ (disk.request # 0 => disk.request \in DOMAIN requests)
                    /\ slots \subseteq DOMAIN requests
                    /\ disk.report \in Nat
  OBVIOUS
<1>1. requests \in Seq(Request) /\ slots \subseteq DOMAIN requests
  BY DEF IInv, TypeInv
<1>2. {disk.active, disk.request, disk.pending, disk.report} \subseteq Nat
  BY DEF IInv, TypeInv, State
<1>3. outbox.request \in Nat
  BY DEF IInv, TypeInv, Mail
<1>4. disk.active <= Len(requests) /\ disk.request <= Len(requests)
  BY DEF IInv, Always, Data, RangeInv
<1> QED
  BY <1>1, <1>2, <1>3, <1>4

\* The requests stay as they are behind a new one.
Asks(q) == requests' = Append(requests, q) /\ q \in Request

LEMMA AsksIs ==
  ASSUME TypeInv, NEW q, Asks(q)
  PROVE  /\ Len(requests') = Len(requests) + 1 /\ Len(requests) \in Nat
         /\ DOMAIN requests = 1 .. Len(requests)
         /\ DOMAIN requests' = DOMAIN requests \union {Len(requests')}
         /\ Len(requests') \notin DOMAIN requests /\ Len(requests') # 0 /\ 0 \notin DOMAIN requests
         /\ \A r \in DOMAIN requests : requests'[r] = requests[r]
         /\ requests'[Len(requests')] = q
         /\ requests' \in Seq(Request)
BY DEF TypeInv, Asks

LEMMA AsksOf ==
  ASSUME TypeInv, NEW q, Asks(q)
  PROVE  /\ q.route # "external" => External' = External
         /\ q.route = "external" => External' = External \union {Len(requests')}
         /\ UNCHANGED lost => (Orderly' => Orderly)
<1>1. /\ q.route # "external" => External' = External
      /\ q.route = "external" => External' = External \union {Len(requests')}
  BY AsksIs DEF External
<1>2. \A r \in External : r \in External' /\ requests'[r] = requests[r]
  BY <1>1, AsksIs DEF External
<1> QED
  BY <1>1, <1>2 DEF Orderly

LEMMA DeliberationAsksStep == IInv /\ DeliberationAsks /\ UNCHANGED lost => IInv'
<1> SUFFICES ASSUME IInv, DeliberationAsks, UNCHANGED lost PROVE IInv'
  OBVIOUS
<1>1. PICK b \in Legacy :
        requests' = Append(requests, [route |-> "external", base |-> outbox.base,
                                      targets |-> Asked, legacy |-> b])
  BY DEF DeliberationAsks
<1> DEFINE q == [route |-> "external", base |-> outbox.base, targets |-> Asked, legacy |-> b]
<1>11. PICK n : n = Len(requests')
  OBVIOUS
<1>2. /\ UNCHANGED <<disk, mem, pc, run, ended, paid, repairs, repaid, reports, reviews, retries,
                     slots, claims, results, answers, outbox, lost>>
      /\ outbox # NoMail /\ (External # {} => outbox.request = Slot)
  BY DEF DeliberationAsks, store
<1>3. TypeInv /\ disk.report \in Nat /\ Asks(q) /\ q.route = "external" /\ q.base = outbox.base
  BY <1>1, AgentAssumption DEF IInv, TypeInv, State, Asks, Request, Mail
<1> HIDE DEF q
<1>4. /\ n = Len(requests) + 1 /\ Len(requests) \in Nat
      /\ DOMAIN requests = 1 .. Len(requests) /\ DOMAIN requests' = DOMAIN requests \union {n}
      /\ n \notin DOMAIN requests /\ n # 0 /\ 0 \notin DOMAIN requests
      /\ \A r \in DOMAIN requests : requests'[r] = requests[r]
      /\ requests'[n] = q
      /\ requests' \in Seq(Request)
  BY <1>3, <1>11, AsksIs
<1>5. External' = External \union {n} /\ (Orderly' => Orderly)
  BY <1>2, <1>3, <1>11, AsksOf
<1>6. TypeInv'
  BY <1>2, <1>3, <1>4 DEF TypeInv
<1>7. Data'
  <2> USE DEF IInv, Always, Data
  <2>1. RangeInv'
    <3>1. \A t \in disk.tasks : t.cycle \in Nat
      BY <1>3 DEF TypeInv, State, Task
    <3>2. /\ disk.report = Len(reports)
          /\ disk.seen <= Len(reviews) /\ disk.review <= Len(reviews) /\ disk.error <= Len(reviews)
          /\ disk.saved \subseteq DOMAIN reviews
          /\ \A x \in answers : x.request \in DOMAIN requests'
      BY <1>4 DEF RangeInv
    <3>3. /\ disk.active <= n /\ disk.request <= n /\ disk.pending <= n /\ outbox.request <= n
          /\ \A t \in disk.tasks : t.cycle <= n
      BY <1>4, <3>1, NumbersAre DEF RangeInv
    <3> QED
      BY <1>2, <1>11, <3>2, <3>3 DEF RangeInv
  <2>2. AboutInv'
    BY <1>2, <1>3, <1>4 DEF AboutInv
  <2>3. WorkInv' /\ BudgetInv'
    BY <1>2 DEF WorkInv, BudgetInv
  <2>4. ExternalInv'
    <3>1. \A x \in External' : x <= n
      BY <1>4, <1>5 DEF External
    <3> QED
      BY <1>2, <1>5, <3>1 DEF ExternalInv
  <2>5. ClaimsInv'
    BY <1>2 DEF ClaimsInv
  <2> QED
    BY <2>1, <2>2, <2>3, <2>4, <2>5
<1>8. CopyInv'
  BY <1>2 DEF IInv, Always, CopyInv
<1>9. PlaceInv'
  <2>1. \A t \in Task : Authorized(t) => Authorized(t)'
    BY <1>2, <1>4, <1>5 DEF Authorized, Reserved, IInv, TypeInv
  <2>2. run.todo \subseteq Task
    BY DEF IInv, TypeInv, Run
  <2>3. pc \notin {"received", "external"}
    BY <1>2 DEF IInv, Always, PlaceInv
  <2> QED
    BY <1>2, <2>1, <2>2, <2>3 DEF IInv, Always, PlaceInv, Reserved
<1>10. Orderly /\ Ordered => Ordered'
  <2> HAVE Orderly /\ Ordered
  <2>1. /\ \A r \in DOMAIN requests : (Built(r)' <=> Built(r)) /\ RevisionTasks(r)' = RevisionTasks(r)
        /\ slots \subseteq DOMAIN requests /\ disk.active \in Nat
        /\ (disk.active # 0 => disk.active \in DOMAIN requests)
        /\ (disk.request # 0 => disk.request \in DOMAIN requests)
    BY <1>2, <1>4, NumbersAre DEF Built, RevisionTasks, Reserved
  <2>2. ReviewsInv' /\ CountInv' /\ NumbersInv' /\ ExecutingInv'
    BY <1>2, <2>1 DEF Ordered, Order, ReviewsInv, CountInv, NumbersInv, ExecutingInv
  <2>3. DecisionInv'
    <3>1. ~Built(n)' => disk.decision = "accept"
      <4>1. outbox.base.report \in 1 .. disk.report
        BY <1>2 DEF IInv, Always, Data, AboutInv
      <4>2. Built(n)' <=> outbox.base.report < disk.report
        BY <1>2, <1>3, <1>4 DEF Built
      <4> QED
        BY <1>2, <1>3, <4>1, <4>2 DEF Ordered, Order, DecisionInv
    <3>2. External \subseteq DOMAIN requests
      BY DEF External
    <3>3. \A r \in External' : ~Built(r)' => disk.decision = "accept"
      BY <1>5, <2>1, <3>1, <3>2 DEF Ordered, Order, DecisionInv
    <3> QED
      BY <1>2, <2>1, <3>3 DEF Ordered, Order, DecisionInv, Open, Waits, VerdictOf
  <2>4. ReviewedAsShown'
    BY <1>2 DEF Ordered, Order, ReviewedAsShown, OfItsReport
  <2>5. ResultsInv'
    BY <1>2, <1>4, <2>1 DEF Ordered, Order, ResultsInv, ResultsAreTruthful
  <2>6. Owed' = Owed
    BY <1>2, <2>1 DEF Owed, Ordered, Order, ExecutingInv
  <2>7. AfterInv => AfterInv'
    BY <1>2, <1>3, <1>4, <2>1, <2>6 DEF AfterInv, Built
  <2>8. CollectInv => CollectInv'
    BY <1>2, <2>6 DEF CollectInv
  <2>9. pc \notin {"received", "external"} /\ (pc \in Beginning => disk.active \in DOMAIN requests)
    BY <1>2, <2>1 DEF IInv, Always, PlaceInv
  <2>10. LineInv'
    BY <1>2, <2>1, <2>6, <2>7, <2>8, <2>9 DEF Ordered, LineInv, BeforeInv, Unreviewed, VerdictOf
  <2> QED
    BY <2>2, <2>3, <2>4, <2>5, <2>10 DEF Ordered, Order
<1> QED
  BY <1>5, <1>6, <1>7, <1>8, <1>9, <1>10 DEF IInv, Always
-----------------------------------------------------------------------------
(* Internal requests.                                                      *)

\* A command that demands a revision of the report, and ends.
LEMMA AskStep ==
  ASSUME IInv, NEW q, Asks(q), q.route # "external", q.base.report = disk.report,
         disk.report # 0, NEW s, SaveAndEnd(s, "returned"), s \in State,
         s.active = Len(requests'), s.phase # "executing",
         s.report = disk.report, s.seen = disk.seen, s.review = disk.review,
         s.count = disk.count, s.externals = disk.externals, s.request = disk.request,
         s.pending = disk.pending, s.checkpoint = disk.checkpoint, Filed(s, disk),
         s.done = disk.done, s.drifted = disk.drifted,
         disk.tasks \subseteq s.tasks, s.tasks \subseteq disk.tasks \union TasksOf(Len(requests'), q.targets),
         UNCHANGED <<store, slots, claims, results, answers, outbox, lost>>, pc # "begin",
         Orderly /\ Ordered =>
           /\ disk.decision = "none" /\ disk.review # 0
           /\ \/ /\ s.decision = "revise" /\ ~Waits(s)
                 /\ VerdictOf(disk) \in {"approved_gaps", "gaps"}
              \/ s.decision = "none" /\ VerdictOf(disk) = "plan"
  PROVE  IInv'
<1>1. PICK n : n = Len(requests')
  OBVIOUS
<1>2. /\ n = Len(requests) + 1 /\ Len(requests) \in Nat
      /\ DOMAIN requests = 1 .. Len(requests) /\ DOMAIN requests' = DOMAIN requests \union {n}
      /\ n \notin DOMAIN requests /\ n # 0 /\ 0 \notin DOMAIN requests
      /\ \A r \in DOMAIN requests : requests'[r] = requests[r]
      /\ requests'[n] = q
      /\ requests' \in Seq(Request)
  BY <1>1, AsksIs DEF IInv
<1>3. External' = External /\ (Orderly' => Orderly)
  BY AsksOf DEF IInv
<1>4. /\ disk' = s /\ mem' = s /\ pc' = "idle" /\ run' = NoRun /\ ended' = "returned"
      /\ UNCHANGED <<paid, repairs, repaid, reports, reviews, retries, slots, claims, results,
                     answers, outbox, lost>>
  BY DEF SaveAndEnd, Save, End, store
<1>5. run' \in Run /\ PlaceInv' /\ LineInv'
  BY <1>4, IdleKnows DEF IInv
<1>6. TypeInv'
  BY <1>2, <1>4, <1>5 DEF IInv, TypeInv, How
<1>7. disk.tasks \in SUBSET Task /\ \A t \in disk.tasks : t.cycle \in Nat
  BY DEF IInv, TypeInv, State, Task
<1>8. \A t \in s.tasks : t \in disk.tasks \/ (t.cycle = n /\ t.agent \in q.targets)
  BY <1>1 DEF TasksOf
<1>9. Data'
  <2> USE DEF IInv, Always, Data
  <2>1. RangeInv'
    <3>1. /\ s.report = Len(reports)
          /\ s.seen <= Len(reviews) /\ s.review <= Len(reviews) /\ s.error <= Len(reviews)
          /\ s.saved \subseteq DOMAIN reviews
          /\ \A x \in answers : x.request \in DOMAIN requests'
      BY <1>2 DEF RangeInv, Filed
    <3>2. s.active <= n /\ s.request <= n /\ s.pending <= n /\ outbox.request <= n
      BY <1>1, <1>2, NumbersAre DEF RangeInv
    <3>3. \A t \in s.tasks : t.cycle <= n
      BY <1>2, <1>7, <1>8 DEF RangeInv
    <3> QED
      BY <1>1, <1>4, <3>1, <3>2, <3>3 DEF RangeInv
  <2>2. AboutInv'
    BY <1>2, <1>4, NumbersAre DEF AboutInv
  <2>3. WorkInv' /\ BudgetInv'
    BY <1>4 DEF WorkInv, BudgetInv
  <2>4. ExternalInv'
    BY <1>3, <1>4 DEF ExternalInv
  <2>5. ClaimsInv'
    BY <1>4 DEF ClaimsInv
  <2> QED
    BY <2>1, <2>2, <2>3, <2>4, <2>5
<1>10. CopyInv'
  BY <1>4 DEF CopyInv
<1>11. Orderly /\ Ordered => Order'
  <2> HAVE Orderly /\ Ordered
  <2>1. /\ \A r \in DOMAIN requests : (Built(r)' <=> Built(r)) /\ RevisionTasks(r)' = RevisionTasks(r)
        /\ slots \subseteq DOMAIN requests /\ n \notin slots
        /\ (disk.request # 0 => disk.request \in DOMAIN requests)
    BY <1>2, <1>4, NumbersAre DEF Built, RevisionTasks, Reserved
  <2>2. ReviewsInv' /\ CountInv' /\ ExecutingInv' /\ s.active \notin slots
    BY <1>1, <1>4, <2>1 DEF Ordered, Order, ReviewsInv, CountInv, ExecutingInv
  <2>3. NumbersInv'
    BY <1>4, <2>1, <2>2 DEF Ordered, Order, NumbersInv
  <2>4. DecisionInv'
    <3>1. /\ ~(outbox # NoMail /\ outbox.base.report = disk.report)
          /\ \A r \in External : Built(r)'
      <4>1. External \subseteq DOMAIN requests
        BY DEF External
      <4> QED
        BY <2>1, <4>1 DEF Ordered, Order, DecisionInv
    <3>2. VerdictOf(disk)' = VerdictOf(disk) /\ Waits(disk)' = Waits(s)
      BY <1>4 DEF VerdictOf, Waits
    <3> QED
      BY <1>3, <1>4, <3>1, <3>2 DEF DecisionInv
  <2>5. ReviewedAsShown'
    BY <1>4 DEF Ordered, Order, ReviewedAsShown, OfItsReport
  <2>6. ResultsInv'
    BY <1>2, <1>4, <2>1 DEF Ordered, Order, ResultsInv, ResultsAreTruthful
  <2> QED
    BY <2>2, <2>3, <2>4, <2>5, <2>6 DEF Order
<1> QED
  BY <1>3, <1>5, <1>6, <1>9, <1>10, <1>11 DEF IInv, Always, Ordered

LEMMA RouteStep == IInv /\ Route /\ UNCHANGED lost => IInv'
<1> SUFFICES ASSUME IInv, Route, UNCHANGED lost PROVE IInv'
  OBVIOUS
<1> DEFINE r == Len(requests) + 1
           q == [route |-> "upstream", base |-> Base(mem), targets |-> {}]
           s == [mem EXCEPT !.phase = "waiting_upstream_result", !.active = r,
                            !.status = "WAITING_UPSTREAM_REVISION"]
<1>1. mem = disk /\ disk \in State /\ pc = "route" /\ disk.report # 0 /\ requests \in Seq(Request)
  BY MemIs DEF Route, IInv, TypeInv, Always, PlaceInv
<1>2. /\ requests' = Append(requests, q) /\ SaveAndEnd(s, "returned")
      /\ UNCHANGED <<store, slots, claims, results, answers, outbox>>
  BY DEF Route
<1>3. q \in Request /\ q.route # "external" /\ q.base.report = disk.report /\ q.targets = {}
  BY <1>1 DEF Request, Base, Bases, State
<1>4. r \in Nat /\ r = Len(requests')
  BY <1>1, <1>2, <1>3
<1>5. s = [disk EXCEPT !.phase = "waiting_upstream_result", !.active = r,
                       !.status = "WAITING_UPSTREAM_REVISION"]
  BY <1>1
<1> HIDE DEF q, r, s
<1>6. /\ s \in State /\ s.phase = "waiting_upstream_result" /\ s.active = r
      /\ s.report = disk.report /\ s.seen = disk.seen /\ s.review = disk.review
      /\ s.decision = disk.decision /\ s.count = disk.count /\ s.externals = disk.externals
      /\ s.request = disk.request /\ Works(s, disk) /\ Filed(s, disk)
      /\ s.checkpoint = disk.checkpoint /\ s.pending = disk.pending
  BY <1>1, <1>4, <1>5 DEF State, Works, Filed, Phase, Status
<1>7. Orderly /\ Ordered =>
        disk.decision = "none" /\ disk.review # 0 /\ VerdictOf(disk) = "plan"
  BY <1>1 DEF Ordered, Order, LineInv, DecisionInv
<1>8. Asks(q)
  BY <1>2, <1>3 DEF Asks
<1> QED
  BY <1>1, <1>2, <1>3, <1>4, <1>6, <1>7, <1>8, AskStep DEF Works

LEMMA ConsumeResultStep == IInv /\ ConsumeResult /\ UNCHANGED lost => IInv'
<1> SUFFICES ASSUME IInv, ConsumeResult, UNCHANGED lost PROVE IInv'
  OBVIOUS
<1>1. mem = disk /\ disk \in State /\ pc = "resume" /\ requests \in Seq(Request)
  BY MemIs DEF ConsumeResult, IInv, TypeInv
<1> DEFINE r == Len(requests) + 1
           p == [disk EXCEPT !.plan = disk.plan + 1]
<1>2. PICK x \in answers, ags \in SUBSET Agent :
        /\ x.request = disk.active
        /\ requests' = Append(requests, [route |-> "refresh", base |-> Base(p), targets |-> ags])
        /\ SaveAndEnd([p EXCEPT !.tasks = @ \union TasksOf(r, ags),
                                !.decision = "none", !.active = r,
                                !.phase = "authorization_required",
                                !.status = "BLOCKED",
                                !.consumed = @ \union {x.request}], "returned")
  BY <1>1 DEF ConsumeResult
<1>3. /\ Waits(disk) /\ requests[disk.active].base = Base(disk)
      /\ UNCHANGED <<store, slots, claims, results, answers, outbox>>
  BY <1>1 DEF ConsumeResult
<1>4. p \in State /\ Still(p, disk) /\ p.checkpoint = disk.checkpoint /\ p.pending = disk.pending
      /\ p.consumed = disk.consumed /\ p.plan \in Nat /\ p.seen \in Nat /\ p.report \in Nat
  <2>1. disk.plan + 1 \in Nat
    BY <1>1 DEF State
  <2>2. Still(p, disk) /\ p.checkpoint = disk.checkpoint /\ p.pending = disk.pending
        /\ p.consumed = disk.consumed
    BY <1>1, <2>1 DEF State, Still, Alike, Works, Filed
  <2> QED
    BY <2>2 DEF Still, State
<1> HIDE DEF p
<1> DEFINE q == [route |-> "refresh", base |-> Base(p), targets |-> ags]
           ts == p.tasks \union TasksOf(r, ags)
           cs == p.consumed \union {x.request}
           s == [p EXCEPT !.tasks = ts, !.decision = "none", !.active = r,
                          !.phase = "authorization_required", !.status = "BLOCKED",
                          !.consumed = cs]
<1>5. disk.active \in DOMAIN requests /\ disk.report # 0 /\ requests[disk.active].base.report = disk.report
  <2>1. disk.active \in DOMAIN requests
    BY <1>2 DEF IInv, Always, Data, RangeInv
  <2>2. requests[disk.active].base.report = disk.report
    BY <1>3 DEF Base
  <2> QED
    BY <2>1, <2>2 DEF IInv, Always, Data, AboutInv
<1>6. q \in Request /\ q.route # "external" /\ q.base.report = disk.report /\ q.targets = ags
  BY <1>4 DEF Request, Base, Bases, Still, Alike
<1>7. r \in Nat /\ r = Len(requests') /\ Asks(q)
  BY <1>1, <1>2, <1>6 DEF Asks
<1>8. SaveAndEnd(s, "returned")
  BY <1>2
<1>9. ts \in SUBSET Task /\ cs \in SUBSET Nat /\ ts = disk.tasks \union TasksOf(Len(requests'), q.targets)
  <2>1. TasksOf(r, ags) \subseteq Task
    BY <1>7 DEF TasksOf, Task
  <2>2. x.request \in Nat /\ p.consumed \subseteq Nat /\ p.tasks \subseteq Task /\ p.tasks = disk.tasks
    BY <1>4 DEF IInv, TypeInv, Answer, State, Still, Works
  <2> QED
    BY <1>6, <1>7, <2>1, <2>2
<1> HIDE DEF q, r, ts, cs
<1>10. /\ s \in State /\ s.phase = "authorization_required" /\ s.active = r /\ s.decision = "none"
       /\ s.report = p.report /\ s.seen = p.seen /\ s.review = p.review
       /\ s.count = p.count /\ s.externals = p.externals
       /\ s.request = p.request /\ s.done = p.done /\ s.drifted = p.drifted /\ s.tasks = ts
       /\ Filed(s, p) /\ s.checkpoint = p.checkpoint /\ s.pending = p.pending
  BY <1>4, <1>7, <1>9 DEF State, Filed, Phase, Status, Decision
<1> HIDE DEF s
<1>11. Orderly /\ Ordered =>
         disk.decision = "none" /\ disk.review # 0 /\ VerdictOf(disk) = "plan"
  <2> HAVE Orderly /\ Ordered
  <2>1. Open
    BY <1>5, NumbersAre DEF Open, Built, IInv, TypeInv
  <2>2. VerdictOf(disk) = "plan" /\ disk.review # 0
    BY <1>3, <2>1 DEF Ordered, Order, DecisionInv
  <2> QED
    BY <2>2 DEF Ordered, Order, DecisionInv
<1>12. /\ s.report = disk.report /\ s.seen = disk.seen /\ s.review = disk.review
       /\ s.count = disk.count /\ s.externals = disk.externals /\ s.request = disk.request
       /\ s.pending = disk.pending /\ s.checkpoint = disk.checkpoint /\ Filed(s, disk)
       /\ s.done = disk.done /\ s.drifted = disk.drifted
  BY <1>4, <1>10 DEF Still, Alike, Works, Filed
<1> QED
  BY <1>1, <1>3, <1>5, <1>6, <1>7, <1>8, <1>9, <1>10, <1>11, <1>12, AskStep
-----------------------------------------------------------------------------
(* The human decision.                                                     *)

\* A review is of a report.
LEMMA ReviewedIs ==
  IInv /\ disk.review # 0 => disk.report # 0 /\ disk.review \in DOMAIN reviews
<1> SUFFICES ASSUME IInv, disk.review # 0
             PROVE  disk.report # 0 /\ disk.review \in DOMAIN reviews
  OBVIOUS
<1>1. disk.review \in DOMAIN reviews
  <2>1. disk.review \in Nat
    BY DEF IInv, TypeInv, State
  <2>2. disk.review <= Len(reviews) /\ reviews \in Seq(Review)
    BY DEF IInv, TypeInv, Always, Data, RangeInv
  <2> QED
    BY <2>1, <2>2
<1>2. reviews[disk.review].about \in 1 .. disk.report
  BY <1>1 DEF IInv, Always, Data, AboutInv
<1> QED
  BY <1>1, <1>2

\* A report that is accepted is handed over and replaces no message.
LEMMA HandOffStep ==
  ASSUME IInv, NEW s \in State, HandOff(s), disk.review # 0,
         s.decision = "accept",
         s.report = disk.report, s.seen = disk.seen, s.review = disk.review,
         s.active = disk.active, s.count = disk.count, s.externals = disk.externals,
         s.request = disk.request, Works(s, disk), Filed(s, disk), s.phase = disk.phase,
         s.checkpoint = disk.checkpoint, s.pending = disk.pending,
         UNCHANGED <<store, revision, lost>>, pc # "begin",
         Orderly /\ Ordered =>
           ~Open /\ VerdictOf(disk) \in {"approved", "approved_gaps", "gaps"}
  PROVE  IInv'
<1> DEFINE t == HandedOff(s)
<1>1. /\ disk' = t /\ mem' = t /\ pc' = "idle" /\ run' = NoRun /\ ended' = "returned"
      /\ UNCHANGED <<paid, repairs, repaid, reports, reviews, retries, requests, slots, claims,
                     results, answers, lost>>
      /\ \/ outbox' = outbox
         \/ outbox' = [request |-> s.pending, base |-> Base(s)]
  BY DEF HandOff, SaveAndEnd, Save, End, store, revision
<1>2. /\ Still(t, s) /\ t.pending = 0 /\ (t.checkpoint \in Advanced => s.checkpoint \in Advanced)
  <2>1. CASE s.pending = 0
    <3> DEFINE x == IF outbox \in {NoMail, [request |-> 0, base |-> s.basis]}
                    THEN "COMPLETED" ELSE "FAILED"
    <3>1. x \in Status /\ t = [s EXCEPT !.status = x]
      BY <2>1 DEF HandedOff, Status
    <3> HIDE DEF x, t
    <3> QED
      BY <2>1, <3>1, StatusIs
  <2>2. CASE s.pending # 0
    <3>1. t = [s EXCEPT !.status = "COMPLETED_REVISION", !.record = "reply_sent",
                        !.checkpoint = "COMPLETED_REVISION", !.pending = 0]
      BY <2>2 DEF HandedOff
    <3> HIDE DEF t
    <3> QED
      BY <3>1 DEF State, Still, Alike, Works, Filed, Status, Note, Checkpoint, Advanced
  <2> QED
    BY <2>1, <2>2
<1> HIDE DEF t
<1>3. /\ t \in State /\ t.decision = "accept" /\ t.report = disk.report /\ t.seen = disk.seen
      /\ t.review = disk.review /\ t.active = disk.active /\ t.count = disk.count
      /\ t.externals = disk.externals /\ t.request = disk.request /\ Works(t, disk)
      /\ Filed(t, disk) /\ t.phase = disk.phase
  BY <1>2 DEF Still, Alike, Works, Filed
<1>4. run' \in Run /\ PlaceInv' /\ LineInv'
  BY <1>1, IdleKnows DEF IInv
<1>5. outbox' \in Mail
  <2>1. s.pending \in Nat /\ Base(s) \in Bases
    BY DEF State, Base, Bases
  <2> QED
    BY <1>1, <2>1 DEF Mail, IInv, TypeInv
<1>6. TypeInv'
  BY <1>1, <1>3, <1>4, <1>5 DEF IInv, TypeInv, How
<1>7. disk.report \in Nat \ {0}
  BY ReviewedIs, NumbersAre
<1>8. External' = External
  BY <1>1 DEF External
<1>9. Data'
  <2> USE DEF IInv, Always, Data
  <2>1. RangeInv'
    <3>1. outbox'.request <= Len(requests)
      BY <1>1 DEF RangeInv
    <3>2. t.pending <= Len(requests)
      BY <1>2 DEF TypeInv
    <3> QED
      BY <1>1, <1>3, <3>1, <3>2 DEF RangeInv, Works, Filed
  <2>2. AboutInv'
    <3>1. /\ outbox' = NoMail \/ outbox'.base.report \in 1 .. disk.report
          /\ outbox'.base.seen <= Len(reviews)
      BY <1>1, <1>7 DEF AboutInv, RangeInv, Base
    <3> QED
      BY <1>1, <1>3, <3>1 DEF AboutInv
  <2>3. WorkInv' /\ BudgetInv'
    BY <1>1, <1>3 DEF WorkInv, BudgetInv, Works
  <2>4. ExternalInv'
    BY <1>1, <1>2, <1>3, <1>8 DEF ExternalInv
  <2>5. ClaimsInv'
    BY <1>1, <1>3, <1>8 DEF ClaimsInv, Works
  <2> QED
    BY <2>1, <2>2, <2>3, <2>4, <2>5
<1>10. CopyInv'
  BY <1>1 DEF CopyInv
<1>11. Orderly /\ Ordered => Order'
  <2> HAVE Orderly /\ Ordered
  <2>1. ReviewsInv' /\ CountInv' /\ NumbersInv' /\ ExecutingInv'
    BY <1>1, <1>2, <1>3 DEF Ordered, Order, ReviewsInv, CountInv, NumbersInv, ExecutingInv, Built,
       RevisionTasks, Reserved, Works
  <2>2. DecisionInv'
    BY <1>1, <1>3 DEF DecisionInv, Open, Built, VerdictOf
  <2>3. ReviewedAsShown'
    <3>1. OfItsReport(outbox'.base)
      BY <1>1 DEF Ordered, Order, ReviewedAsShown, OfItsReport, Base
    <3> QED
      BY <1>1, <1>3, <3>1 DEF Ordered, Order, ReviewedAsShown, OfItsReport
  <2>4. ResultsInv'
    BY <1>1, <1>3 DEF Ordered, Order, ResultsInv, ResultsAreTruthful, Built, RevisionTasks,
       Reserved, Orderly,
       External
  <2> QED
    BY <2>1, <2>2, <2>3, <2>4 DEF Order
<1>12. Orderly' => Orderly
  BY <1>1, OrderKept
<1> QED
  BY <1>4, <1>6, <1>9, <1>10, <1>11, <1>12 DEF IInv, Always, Ordered

LEMMA PreparedIs ==
  ASSUME NEW s \in State
  PROVE  /\ Still(Prepared(s), s) /\ Prepared(s).checkpoint = s.checkpoint
         /\ Prepared(s).pending = s.pending /\ Prepared(s).basis = s.basis
<1> DEFINE x == IF VerdictOf(s) = "hard" THEN "BLOCKED" ELSE "WAITING_HUMAN_EVIDENCE_REVIEW"
           t == [s EXCEPT !.status = x]
<1>1. x \in Status /\ Prepared(s) = t
  BY DEF Status, Prepared
<1> HIDE DEF x, t
<1> QED
  BY <1>1, StatusIs DEF t

LEMMA RecoverGateStep == IInv /\ RecoverGate /\ UNCHANGED lost => IInv'
<1> SUFFICES ASSUME IInv, RecoverGate, UNCHANGED lost PROVE IInv'
  OBVIOUS
<1>1. pc = "idle" /\ disk \in State /\ disk.review # 0 /\ UNCHANGED <<store, revision>>
  BY DEF RecoverGate, Command, IInv, TypeInv
<1>2. "returned" \in How /\ (Orderly' => Orderly)
  BY <1>1, OrderKept DEF How, revision
<1>3. CASE SaveAndEnd(Prepared(disk), "returned") /\ UNCHANGED outbox
  <2>1. Quiet(Prepared(disk))
    BY <1>1, PreparedIs, StillQuiet
  <2> QED
    BY <1>1, <1>2, <1>3, <2>1, EndStep DEF store, revision, records
<1>4. CASE SaveAndEnd([disk EXCEPT !.status = "BLOCKED"], "returned") /\ UNCHANGED outbox
  <2> DEFINE s == [disk EXCEPT !.status = "BLOCKED"]
  <2>1. SaveAndEnd(s, "returned") /\ "BLOCKED" \in Status
    BY <1>4 DEF Status
  <2>2. Still(s, disk) /\ s.checkpoint = disk.checkpoint /\ s.pending = disk.pending
    BY <1>1, <2>1, StatusIs
  <2> HIDE DEF s
  <2>3. Quiet(s)
    BY <2>2, StillQuiet
  <2> QED
    BY <1>1, <1>2, <1>4, <2>1, <2>3, EndStep DEF store, revision, records
<1>5. CASE disk.decision = "accept" /\ HandOff(disk)
  <2>1. Orderly /\ Ordered =>
          ~Open /\ VerdictOf(disk) \in {"approved", "approved_gaps", "gaps"}
    BY <1>5 DEF Ordered, Order, DecisionInv
  <2> QED
    BY <1>1, <1>5, <2>1, HandOffStep DEF Works, Filed
<1> QED
  BY <1>3, <1>4, <1>5 DEF RecoverGate

LEMMA DecideStep == IInv /\ Decide /\ UNCHANGED lost => IInv'
<1> SUFFICES ASSUME IInv, Decide, UNCHANGED lost PROVE IInv'
  OBVIOUS
<1> DEFINE r == Len(requests) + 1
           p == Prepared(disk)
           s == [p EXCEPT !.basis = Base(disk)]
           q == [route |-> "internal", base |-> Base(s), targets |-> Weak]
           v == [s EXCEPT !.decision = "revise", !.status = "BLOCKED",
                          !.phase = "authorization_required", !.active = r]
           a == [s EXCEPT !.decision = "accept"]
<1>1. /\ pc = "idle" /\ disk \in State /\ requests \in Seq(Request)
      /\ disk.review # 0 /\ disk.decision = "none"
      /\ VerdictOf(disk) \in {"approved", "approved_gaps", "gaps"}
      /\ UNCHANGED <<store, slots, claims, results, answers>>
  BY DEF Decide, Eligible, Command, IInv, TypeInv
<1>2. \/ /\ VerdictOf(disk) # "approved" /\ requests' = Append(requests, q)
         /\ SaveAndEnd(v, "returned") /\ UNCHANGED outbox
      \/ HandOff(a) /\ UNCHANGED requests
  BY DEF Decide
<1>3. Base(disk) \in Bases
  BY <1>1 DEF Base, Bases, State
<1>4. p \in State /\ Still(p, disk) /\ p.checkpoint = disk.checkpoint /\ p.pending = disk.pending
  BY <1>1, PreparedIs DEF Still
<1> HIDE DEF p
<1>5. s \in State /\ Still(s, p) /\ s.checkpoint = p.checkpoint /\ s.pending = p.pending
  BY <1>3, <1>4 DEF State, Still, Alike, Works, Filed
<1> HIDE DEF s
<1>6. /\ s.report = disk.report /\ s.seen = disk.seen /\ s.review = disk.review
      /\ s.decision = disk.decision /\ s.active = disk.active /\ s.count = disk.count
      /\ s.externals = disk.externals /\ s.request = disk.request /\ s.phase = disk.phase
      /\ s.checkpoint = disk.checkpoint /\ s.pending = disk.pending
      /\ Works(s, disk) /\ Filed(s, disk)
  BY <1>4, <1>5 DEF Still, Alike, Works, Filed
<1>7. CASE /\ VerdictOf(disk) # "approved" /\ requests' = Append(requests, q)
           /\ SaveAndEnd(v, "returned") /\ UNCHANGED outbox
  <2>1. q \in Request /\ q.route # "external" /\ q.base.report = disk.report
    BY <1>5, <1>6, AgentAssumption DEF Request, Base, Bases, State
  <2>2. r \in Nat /\ r = Len(requests') /\ Asks(q)
    BY <1>1, <1>7, <2>1 DEF Asks
  <2> HIDE DEF q, r
  <2>3. /\ v \in State /\ v.phase = "authorization_required" /\ v.active = r
        /\ v.decision = "revise"
        /\ v.report = s.report /\ v.seen = s.seen /\ v.review = s.review
        /\ v.count = s.count /\ v.externals = s.externals /\ v.request = s.request
        /\ Works(v, s) /\ Filed(v, s) /\ v.checkpoint = s.checkpoint /\ v.pending = s.pending
    BY <1>5, <2>2 DEF State, Works, Filed, Decision, Phase, Status
  <2> HIDE DEF v
  <2>4. /\ v.report = disk.report /\ v.seen = disk.seen /\ v.review = disk.review
        /\ v.count = disk.count /\ v.externals = disk.externals /\ v.request = disk.request
        /\ v.pending = disk.pending /\ v.checkpoint = disk.checkpoint /\ Filed(v, disk)
        /\ v.done = disk.done /\ v.drifted = disk.drifted /\ v.tasks = disk.tasks
    BY <1>6, <2>3 DEF Works, Filed
  <2>5. disk.report # 0 /\ ~Waits(v)
    BY <1>1, <2>3, ReviewedIs DEF Waits
  <2> QED
    BY <1>1, <1>7, <2>1, <2>2, <2>3, <2>4, <2>5, AskStep
<1>8. CASE HandOff(a) /\ UNCHANGED requests
  <2>1. /\ a \in State /\ a.decision = "accept"
        /\ a.report = s.report /\ a.seen = s.seen /\ a.review = s.review
        /\ a.active = s.active /\ a.count = s.count /\ a.externals = s.externals
        /\ a.request = s.request /\ Works(a, s) /\ Filed(a, s) /\ a.phase = s.phase
        /\ a.checkpoint = s.checkpoint /\ a.pending = s.pending
    BY <1>5 DEF State, Works, Filed, Decision
  <2> HIDE DEF a
  <2>2. /\ a.report = disk.report /\ a.seen = disk.seen /\ a.review = disk.review
        /\ a.active = disk.active /\ a.count = disk.count /\ a.externals = disk.externals
        /\ a.request = disk.request /\ Works(a, disk) /\ Filed(a, disk)
        /\ a.phase = disk.phase /\ a.checkpoint = disk.checkpoint /\ a.pending = disk.pending
    BY <1>6, <2>1 DEF Works, Filed
  <2>3. Orderly /\ Ordered => ~Open
    BY <1>1 DEF Ordered, Order, DecisionInv
  <2> QED
    BY <1>1, <1>8, <2>1, <2>2, <2>3, HandOffStep DEF revision
<1> QED
  BY <1>2, <1>7, <1>8
-----------------------------------------------------------------------------
(* The review of a report.                                                 *)

\* The id of a review counts the revisions.
LEMMA NextIdIs ==
  ASSUME NEW s \in State, run \in Run
  PROVE  /\ NextId(s) \in ReviewId /\ NextId(s).count = s.count
         /\ NextId(s).ext = (IF run.ext THEN s.externals ELSE 0)
<1> DEFINE e == IF run.ext THEN s.externals ELSE 0
           b == Repairs(s)
           m == [ext |-> e, count |-> s.count, contract |-> b, retry |-> FALSE]
<1>1. e \in Nat /\ s.count \in Nat
  BY DEF State
<1>2. b \in BOOLEAN
  BY DEF Repairs
<1>3. NormalTask(s) = m
  BY DEF NormalTask, ReviewTask
<1>4. NextId(s) \in {m, [m EXCEPT !.retry = TRUE]}
  BY <1>3 DEF NextId
<1> HIDE DEF e, b
<1>5. /\ m \in ReviewId /\ m.count = s.count /\ m.ext = e
      /\ [m EXCEPT !.retry = TRUE] \in ReviewId
      /\ [m EXCEPT !.retry = TRUE].count = s.count /\ [m EXCEPT !.retry = TRUE].ext = e
  BY <1>1, <1>2 DEF ReviewId
<1> HIDE DEF m
<1> QED
  BY <1>4, <1>5 DEF e

\* Once a report is built no request is about it.
LEMMA AfterIs ==
  ASSUME IInv, Orderly, pc \in After
  PROVE  /\ AfterInv /\ ~Open /\ (disk.request # 0 => Built(disk.request))
         /\ Order /\ \A r \in External : Built(r)
<1>1. AfterInv /\ Order
  BY DEF IInv, Ordered, LineInv
<1>2. External \subseteq DOMAIN requests
  BY DEF External
<1> QED
  BY <1>1, <1>2, NumbersAre DEF AfterInv, Open

LEMMA AnswerReviewStep == IInv /\ AnswerReview /\ UNCHANGED lost => IInv'
<1> SUFFICES ASSUME IInv, AnswerReview, UNCHANGED lost PROVE IInv'
  OBVIOUS
<1>1. /\ pc = "ask" /\ mem = disk /\ disk \in State /\ run \in Run /\ pc \in After
      /\ reviews \in Seq(Review)
      /\ UNCHANGED <<paid, repairs, repaid, reports, retries, requests, slots, claims, results,
                     answers, outbox>>
  BY MemIs DEF AnswerReview, IInv, TypeInv, After, revision
<1>2. Orderly' => Orderly
  BY <1>1, OrderKept
<1> DEFINE id == NextId(disk)
<1>3. CASE /\ \A c \in DOMAIN reviews : reviews[c].id # id
           /\ \E k \in Verdict \union Fault, valid \in BOOLEAN :
                reviews' = Append(reviews, [id |-> id, about |-> disk.report,
                                            answer |-> k, valid |-> valid])
           /\ run' = [run EXCEPT !.call = Len(reviews')]
           /\ pc' = "hear" /\ UNCHANGED <<disk, mem, ended>>
  <2>1. PICK k \in Verdict \union Fault, valid \in BOOLEAN :
          reviews' = Append(reviews, [id |-> id, about |-> disk.report,
                                      answer |-> k, valid |-> valid])
    BY <1>3
  <2>2. PICK n : n = Len(reviews')
    OBVIOUS
  <2> DEFINE v == [id |-> id, about |-> disk.report, answer |-> k, valid |-> valid]
  <2>3. /\ id \in ReviewId /\ id.count = disk.count
        /\ id.ext = (IF run.ext THEN disk.externals ELSE 0)
    BY <1>1, NextIdIs
  <2> HIDE DEF id
  <2>4. v \in Review /\ v.id = id /\ v.about = disk.report
    BY <1>1, <2>3, NumbersAre DEF Review
  <2> HIDE DEF v
  <2>5. /\ n = Len(reviews) + 1 /\ Len(reviews) \in Nat /\ n \in Nat /\ n # 0
        /\ DOMAIN reviews = 1 .. Len(reviews) /\ DOMAIN reviews' = DOMAIN reviews \union {n}
        /\ n \notin DOMAIN reviews
        /\ \A c \in DOMAIN reviews : reviews'[c] = reviews[c]
        /\ reviews'[n] = v /\ reviews' \in Seq(Review)
    <3>1. reviews' = Append(reviews, v)
      BY <2>1 DEF v
    <3> QED
      BY <1>1, <2>2, <2>4, <3>1
  <2>6. /\ run' \in Run /\ run'.call = n /\ run'.todo = run.todo /\ run'.got = run.got
        /\ run'.ext = run.ext /\ run'.reuse = run.reuse /\ run'.then = run.then
    BY <1>1, <1>3, <2>2, <2>5 DEF Run
  <2>7. TypeInv'
    BY <1>1, <1>3, <2>5, <2>6 DEF IInv, TypeInv
  <2>8. disk.report \in Nat \ {0}
    BY <1>1, NumbersAre DEF IInv, Always, PlaceInv
  <2>9. Data'
    <3> USE DEF IInv, Always, Data
    <3>1. RangeInv'
      <4>1. {disk.seen, disk.review, disk.error} \subseteq Nat
        BY <1>1 DEF State
      <4>2. disk.seen <= n /\ disk.review <= n /\ disk.error <= n /\ disk.saved \subseteq DOMAIN reviews'
        BY <2>5, <4>1 DEF RangeInv
      <4> QED
        BY <1>1, <1>3, <2>2, <4>2 DEF RangeInv
    <3>2. AboutInv'
      <4>1. outbox.base.seen \in Nat
        BY DEF TypeInv, Mail, Bases
      <4>2. outbox.base.seen <= n
        BY <2>5, <4>1 DEF AboutInv
      <4>3. \A c \in DOMAIN reviews' : reviews'[c].about \in 1 .. disk.report
        BY <2>4, <2>5, <2>8 DEF AboutInv
      <4> QED
        BY <1>1, <1>3, <2>2, <4>2, <4>3 DEF AboutInv
    <3>3. WorkInv' /\ BudgetInv' /\ ExternalInv' /\ ClaimsInv'
      BY <1>1, <1>3 DEF WorkInv, BudgetInv, ExternalInv, ClaimsInv, External
    <3> QED
      BY <3>1, <3>2, <3>3
  <2>10. CopyInv'
    BY <1>1, <1>3 DEF CopyInv
  <2>11. PlaceInv'
    BY <1>1, <1>3, <2>2, <2>5, <2>6 DEF IInv, Always, PlaceInv, After, Beginning
  <2>12. Orderly => Order'
    <3> HAVE Orderly
    <3>1. /\ AfterInv /\ ~Open /\ (disk.request # 0 => Built(disk.request)) /\ Order
          /\ \A r \in External : Built(r)
      BY <1>1, AfterIs
    <3>2. ReviewsInv'
      <4>1. \A c, e \in DOMAIN reviews' : reviews'[c].id = reviews'[e].id => c = e
        BY <1>3, <2>4, <2>5, <3>1 DEF Order, ReviewsInv
      <4>2. id.ext <= disk.externals /\ id.count <= disk.count
        BY <1>1, <2>3 DEF State
      <4>3. \A c \in DOMAIN reviews' :
              reviews'[c].id.ext <= disk.externals /\ reviews'[c].id.count <= disk.count
        BY <2>4, <2>5, <3>1, <4>2 DEF Order, ReviewsInv
      <4> QED
        BY <1>3, <4>1, <4>3 DEF ReviewsInv
    <3>3. CountInv' /\ ExecutingInv'
      BY <1>1, <1>3, <3>1 DEF Order, CountInv, ExecutingInv, RevisionTasks, Reserved, Built
    <3>4. NumbersInv'
      <4>1. disk.active \in slots => Built(disk.active)
        BY <3>1, NumbersAre DEF AfterInv
      <4> QED
        BY <1>1, <1>3, <3>1, <4>1 DEF NumbersInv, Built
    <3>5. DecisionInv'
      <4>1. disk.review # 0 => VerdictOf(disk)' = VerdictOf(disk)
        BY <1>3, <2>5, ReviewedIs DEF VerdictOf
      <4> QED
        BY <1>1, <1>3, <3>1, <4>1 DEF Order, DecisionInv, Open, Built, External
    <3>6. ReviewedAsShown'
      <4>1. outbox.base.seen # 0 => outbox.base.seen \in DOMAIN reviews
        <5>1. outbox.base.seen \in Nat
          BY DEF IInv, TypeInv, Mail, Bases
        <5> QED
          BY <2>5, <5>1 DEF IInv, Always, Data, AboutInv
      <4> QED
        BY <1>1, <1>3, <2>5, <3>1, <4>1 DEF Order, ReviewedAsShown, OfItsReport, AfterInv
    <3>7. ResultsInv'
      BY <1>1, <1>3, <2>5, <3>1 DEF Order, ResultsInv, ResultsAreTruthful, RevisionTasks, Reserved,
         Built
    <3> QED
      BY <3>2, <3>3, <3>4, <3>5, <3>6, <3>7 DEF Order
  <2>13. Orderly => LineInv'
    <3> HAVE Orderly
    <3>1. AfterInv'
      BY <1>1, <1>3, <2>6, AfterIs DEF AfterInv, Owed, RevisionTasks, Reserved, Built
    <3> QED
      BY <1>1, <1>3, <2>4, <2>5, <2>6, <3>1 DEF LineInv, Before, After, Beginning
  <2> QED
    BY <1>2, <2>7, <2>9, <2>10, <2>11, <2>12, <2>13 DEF IInv, Always, Ordered
<1>4. CASE SaveAndEnd(Failed([disk EXCEPT !.error = 0]), "failed") /\ UNCHANGED reviews
  <2> DEFINE e == [disk EXCEPT !.error = 0]
             t == Failed(e)
  <2>1. /\ e \in State /\ Alike(e, disk) /\ Works(e, disk) /\ e.saved = disk.saved
        /\ e.error = 0 /\ e.phase = disk.phase /\ e.checkpoint = disk.checkpoint
        /\ e.pending = disk.pending
    BY <1>1 DEF State, Alike, Works
  <2>2. SaveAndEnd(t, "failed")
    BY <1>4
  <2> HIDE DEF e
  <2>3. Still(t, e) /\ t.checkpoint = e.checkpoint /\ t.pending = e.pending
    BY <2>1, StatusIs DEF Failed, Status
  <2> HIDE DEF t
  <2>4. 0 <= Len(reviews) /\ disk.saved \subseteq DOMAIN reviews
    BY <1>1 DEF IInv, Always, Data, RangeInv
  <2>5. Quiet(t)
    BY <2>1, <2>3, <2>4 DEF Quiet, Still, Alike, Works, Filed
  <2> QED
    BY <1>1, <1>2, <1>4, <2>2, <2>5, EndStep DEF How, records, revision
<1> QED
  BY <1>1, <1>3, <1>4 DEF AnswerReview, Goto

LEMMA AssessStep == IInv /\ Assess /\ UNCHANGED lost => IInv'
<1> SUFFICES ASSUME IInv, Assess, UNCHANGED lost PROVE IInv'
  OBVIOUS
<1> DEFINE c == run.call
           d == IF disk.review = c THEN disk.decision ELSE "none"
           k == IF run.ext THEN "QUALITY_REVIEWED" ELSE disk.checkpoint
           s == [disk EXCEPT !.review = c, !.decision = d, !.checkpoint = k]
<1>1. mem = disk /\ disk \in State /\ run \in Run /\ pc = "assess" /\ pc \in After
  BY MemIs DEF Assess, IInv, TypeInv, After
<1>2. /\ disk' = s /\ mem' = s /\ pc' = "embed" /\ run' = run /\ ended' = ended
      /\ UNCHANGED <<paid, repairs, repaid, reports, reviews, retries, requests, slots, claims,
                     results, answers, outbox>>
  BY <1>1 DEF Assess, Save, Goto, store, revision
<1>3. c \in Nat /\ c # 0 /\ c \in DOMAIN reviews /\ c <= Len(reviews)
  <2>1. c \in Nat /\ c # 0 /\ c <= Len(reviews)
    BY <1>1 DEF IInv, Always, PlaceInv, Run
  <2> QED
    BY <2>1 DEF IInv, TypeInv
<1>4. d \in Decision /\ k \in Checkpoint
  BY <1>1 DEF State, Decision, Checkpoint
<1> HIDE DEF c, d, k
<1>5. /\ s \in State /\ s.review = c /\ s.decision = d /\ s.checkpoint = k
      /\ s.report = disk.report /\ s.seen = disk.seen /\ s.active = disk.active
      /\ s.count = disk.count /\ s.externals = disk.externals /\ s.request = disk.request
      /\ Works(s, disk) /\ Filed(s, disk) /\ s.phase = disk.phase /\ s.pending = disk.pending
  BY <1>1, <1>3, <1>4 DEF State, Works, Filed
<1> HIDE DEF s
<1>6. TypeInv'
  BY <1>2, <1>5 DEF IInv, TypeInv
<1>7. Data'
  BY <1>2, <1>3, <1>5, KeptStores, DataBy DEF IInv, Always, Data, RangeInv, Works, Filed
<1>8. CopyInv'
  BY <1>2 DEF CopyInv
<1>9. PlaceInv'
  BY <1>1, <1>2, <1>5 DEF IInv, Always, PlaceInv, After, Beginning, Works
<1>10. Orderly => Ordered'
  <2> HAVE Orderly
  <2>1. /\ AfterInv /\ ~Open /\ (disk.request # 0 => Built(disk.request)) /\ Order
        /\ \A r \in External : Built(r)
    BY <1>1, AfterIs
  <2>2. reviews[c].about = disk.report /\ reviews[c].answer \in Verdict
    BY <1>1 DEF IInv, Ordered, LineInv, c
  <2>3. ReviewsInv' /\ CountInv' /\ ExecutingInv'
    BY <1>1, <1>2, <1>5, <2>1 DEF Order, ReviewsInv, CountInv, ExecutingInv, RevisionTasks,
       Reserved, Built,
       Works
  <2>4. NumbersInv'
    <3>1. disk.active \in slots => Built(disk.active)
      BY <2>1, NumbersAre DEF AfterInv
    <3> QED
      BY <1>2, <1>5, <2>1, <3>1 DEF NumbersInv, Built
  <2>5. DecisionInv'
    <3>1. d # "none" => d = disk.decision /\ c = disk.review
      BY DEF d
    <3> QED
      BY <1>2, <1>3, <1>5, <2>1, <3>1, NumbersAre
         DEF Order, DecisionInv, AfterInv, Open, Built, VerdictOf, External
  <2>6. ReviewedAsShown'
    BY <1>2, <1>5, <2>1 DEF Order, ReviewedAsShown, OfItsReport, AfterInv
  <2>7. ResultsInv'
    BY <1>2, <1>5, <2>1, OrderKept DEF Order, ResultsInv, ResultsAreTruthful, RevisionTasks,
       Reserved, Built
  <2>8. AfterInv'
    BY <1>2, <1>5, <2>1 DEF AfterInv, Owed, RevisionTasks, Reserved, Built
  <2>9. LineInv'
    BY <1>2, <1>5, <2>2, <2>8 DEF LineInv, Before, After, Beginning, c
  <2> QED
    BY <2>3, <2>4, <2>5, <2>6, <2>7, <2>9 DEF Order, Ordered
<1> QED
  BY <1>2, <1>6, <1>7, <1>8, <1>9, <1>10, OrderKept DEF IInv, Always

LEMMA EmbedStep == IInv /\ Embed /\ UNCHANGED lost => IInv'
<1> SUFFICES ASSUME IInv, Embed, UNCHANGED lost PROVE IInv'
  OBVIOUS
<1> DEFINE e == [disk EXCEPT !.seen = disk.review]
           ends == disk.phase = "executing"
           p == IF ends THEN "completed" ELSE disk.phase
           s == [e EXCEPT !.phase = p]
           x == [request |-> disk.active, status |-> Outcome(disk), report |-> disk.report,
                 review |-> disk.review]
           l == IF VerdictOf(disk) = "plan" THEN "route" ELSE "gate"
<1>1. mem = disk /\ disk \in State /\ run \in Run /\ pc = "embed" /\ pc \in After
  BY MemIs DEF Embed, IInv, TypeInv, After
<1>2. e \in State /\ e.seen = disk.review
      /\ e.report = disk.report /\ e.review = disk.review /\ e.decision = disk.decision
      /\ e.active = disk.active /\ e.count = disk.count /\ e.externals = disk.externals
      /\ e.request = disk.request /\ Works(e, disk) /\ Filed(e, disk) /\ e.phase = disk.phase
      /\ e.checkpoint = disk.checkpoint /\ e.pending = disk.pending
  <2>1. disk.review \in Nat
    BY <1>1 DEF State
  <2> QED
    BY <1>1, <2>1, SeenIs
<1>3. Outcome(e) = Outcome(disk) /\ VerdictOf(e) = VerdictOf(disk)
      /\ Outcome(disk) \in {"completed", "partial"}
  BY <1>2 DEF Outcome, VerdictOf
<1>4. p \in Phase
  BY <1>1 DEF State, Phase
<1>5. /\ disk' = s /\ mem' = s /\ pc' = l /\ run' = run /\ ended' = ended
      /\ results' = IF ends THEN results \union {x} ELSE results
      /\ UNCHANGED <<paid, repairs, repaid, reports, reviews, retries, requests, slots, claims,
                     answers, outbox>>
  <2>1. s = [e EXCEPT !.phase = IF ends THEN "completed" ELSE @]
    BY <1>2
  <2> HIDE DEF s
  <2> QED
    BY <1>1, <1>2, <1>3, <2>1 DEF Embed, Save, Goto, store
<1>6. /\ s \in State /\ Alike(s, e) /\ Works(s, e) /\ Filed(s, e) /\ s.phase = p
      /\ s.checkpoint = e.checkpoint /\ s.pending = e.pending
  <2> HIDE DEF e, p
  <2> QED
    BY <1>2, <1>4, PhaseIs
<1> HIDE DEF e, s
<1>7. /\ s.seen = disk.review
      /\ s.report = disk.report /\ s.review = disk.review /\ s.decision = disk.decision
      /\ s.active = disk.active /\ s.count = disk.count /\ s.externals = disk.externals
      /\ s.request = disk.request /\ Works(s, disk) /\ Filed(s, disk) /\ s.phase # "executing"
      /\ s.checkpoint = disk.checkpoint /\ s.pending = disk.pending
  BY <1>2, <1>6 DEF Alike, Works, Filed
<1>8. x \in Result /\ x.request = disk.active /\ x.status = Outcome(disk)
      /\ x.report = disk.report /\ x.review = disk.review
  BY <1>1, <1>3 DEF Result, State
<1> HIDE DEF x, p
<1>9. TypeInv'
  BY <1>5, <1>6, <1>8 DEF IInv, TypeInv
<1>10. Data'
  BY <1>5, <1>6, <1>7, KeptStores, DataBy DEF IInv, Always, Data, RangeInv, Works, Filed
<1>11. CopyInv'
  BY <1>5 DEF CopyInv
<1>12. PlaceInv'
  BY <1>1, <1>5, <1>7 DEF IInv, Always, PlaceInv, After, Beginning, Works
<1>13. Orderly => Ordered'
  <2> HAVE Orderly
  <2>1. /\ AfterInv /\ ~Open /\ (disk.request # 0 => Built(disk.request)) /\ Order
        /\ \A r \in External : Built(r)
    BY <1>1, AfterIs
  <2>2. disk.review # 0 /\ disk.review \in DOMAIN reviews
        /\ reviews[disk.review].about = disk.report /\ reviews[disk.review].answer \in Verdict
    <3>1. disk.review = run.call /\ run.call # 0
      BY <1>1 DEF IInv, Ordered, LineInv, Always, PlaceInv
    <3> QED
      BY <1>1, <3>1, ReviewedIs DEF IInv, Ordered, LineInv
  <2>3. ReviewsInv' /\ CountInv' /\ ExecutingInv'
    BY <1>1, <1>5, <1>7, <2>1 DEF Order, ReviewsInv, CountInv, ExecutingInv, RevisionTasks,
       Reserved, Built,
       Works
  <2>4. NumbersInv'
    <3>1. disk.active \in slots => Built(disk.active)
      BY <2>1, NumbersAre DEF AfterInv
    <3> QED
      BY <1>5, <1>7, <2>1, <3>1 DEF NumbersInv, Built
  <2>5. DecisionInv'
    BY <1>5, <1>7, <2>1 DEF Order, DecisionInv, AfterInv, Open, Built, VerdictOf, External
  <2>6. ReviewedAsShown'
    BY <1>5, <1>7, <2>1, <2>2 DEF Order, ReviewedAsShown, OfItsReport
  <2>7. ResultsInv'
    <3>1. CASE ~ends
      BY <1>5, <1>7, <2>1, <3>1, OrderKept
         DEF Order, ResultsInv, ResultsAreTruthful, RevisionTasks, Reserved, Built
    <3>2. CASE ends
      <4>1. /\ disk.active \in slots /\ disk.active \in DOMAIN requests /\ Built(disk.active)
            /\ \A y \in results : y.request # disk.active
        BY <2>1, <3>2, NumbersAre DEF Order, ExecutingInv, AfterInv
      <4>2. RevisionTasks(disk.active) \subseteq reports[disk.report].rests
        BY <2>1, <3>2 DEF AfterInv, Owed
      <4>3. disk.report \in 1 .. disk.report
        BY <1>1, NumbersAre DEF IInv, Always, PlaceInv
      <4>4. x.status = "completed" <=> reviews[x.review].answer \in {"approved", "approved_gaps"}
        BY <1>8 DEF Outcome, VerdictOf
      <4>5. results' = results \union {x}
        BY <1>5, <3>2
      <4>6. \A y \in results' :
              /\ y.request \in DOMAIN requests /\ Built(y.request)
              /\ y.report \in 1 .. disk.report /\ y.review \in DOMAIN reviews
              /\ RevisionTasks(y.request) \subseteq reports[y.report].rests
              /\ reviews[y.review].about = y.report
              /\ y.status = "completed" <=> reviews[y.review].answer \in {"approved", "approved_gaps"}
        BY <1>8, <2>1, <2>2, <4>1, <4>2, <4>3, <4>4, <4>5
           DEF Order, ResultsInv, ResultsAreTruthful
      <4>7. \A y, z \in results' : z.request = y.request => z = y
        BY <1>8, <2>1, <4>1, <4>5 DEF Order, ResultsInv, ResultsAreTruthful
      <4> QED
        BY <1>5, <1>7, <4>6, <4>7 DEF ResultsInv, ResultsAreTruthful, RevisionTasks, Reserved, Built
    <3> QED
      BY <3>1, <3>2
  <2>8. LineInv'
    BY <1>5, <1>7, <2>2 DEF LineInv, Before, After, Beginning, VerdictOf
  <2> QED
    BY <2>3, <2>4, <2>5, <2>6, <2>7, <2>8 DEF Order, Ordered
<1> QED
  BY <1>5, <1>9, <1>10, <1>11, <1>12, <1>13, OrderKept DEF IInv, Always
-----------------------------------------------------------------------------
(* The report.                                                             *)

\* The copy of a command is the saved state, but for its status.
LEMMA CopyIs ==
  IInv => /\ mem \in State /\ Still(mem, disk)
          /\ mem.checkpoint = disk.checkpoint /\ mem.pending = disk.pending
<1> SUFFICES ASSUME IInv
             PROVE  /\ mem \in State /\ Still(mem, disk)
                    /\ mem.checkpoint = disk.checkpoint /\ mem.pending = disk.pending
  OBVIOUS
<1>1. disk \in State /\ mem \in State
  BY DEF IInv, TypeInv
<1>2. CASE mem = disk
  BY <1>1, <1>2, StillSelf
<1>3. CASE mem = [disk EXCEPT !.status = "INTEGRATING"]
  <2>1. "INTEGRATING" \in Status
    BY DEF Status
  <2> QED
    BY <1>1, <1>3, <2>1, StatusIs
<1> QED
  BY <1>2, <1>3 DEF IInv, Always, CopyInv

LEMMA IntegrateStep == IInv /\ Integrate /\ UNCHANGED lost => IInv'
<1> SUFFICES ASSUME IInv, Integrate, UNCHANGED lost PROVE IInv'
  OBVIOUS
<1> DEFINE s == [disk EXCEPT !.status = "INTEGRATING"]
           t == [s EXCEPT !.checkpoint = "REPORT_INTEGRATING"]
<1>1. mem = disk /\ disk \in State /\ run \in Run /\ pc = "integrate"
  BY MemIs DEF Integrate, IInv, TypeInv
<1>2. /\ pc' = "build" /\ UNCHANGED <<run, ended, paid, retries, records>>
      /\ \/ disk' = t /\ mem' = t
         \/ disk' = disk /\ mem' = s
  BY <1>1 DEF Integrate, Save, Goto, store, revision, records
<1>3. Still(s, disk) /\ s.checkpoint = disk.checkpoint /\ s.pending = disk.pending
  <2>1. "INTEGRATING" \in Status
    BY DEF Status
  <2> QED
    BY <1>1, <2>1, StatusIs
<1>4. Still(t, s) /\ t.checkpoint = "REPORT_INTEGRATING" /\ t.pending = s.pending
  <2>1. "REPORT_INTEGRATING" \in Checkpoint /\ s \in State
    BY <1>3 DEF Checkpoint, Still
  <2> HIDE DEF s
  <2> QED
    BY <2>1, CheckpointIs
<1>5. CopyInv'
  BY <1>1, <1>2 DEF CopyInv
<1> HIDE DEF s, t
<1>6. Still(disk', disk) /\ disk' \in State /\ mem' \in State
      /\ disk'.pending = disk.pending
      /\ (disk'.checkpoint \in Advanced => disk.checkpoint \in Advanced)
  <2>1. CASE disk' = t /\ mem' = t
    BY <1>3, <1>4, <2>1, StillAgain DEF Advanced, Still
  <2>2. CASE disk' = disk /\ mem' = s
    BY <1>1, <1>3, <2>2, StillSelf DEF Still
  <2> QED
    BY <1>2, <2>1, <2>2
<1>7. PlaceInv'
  BY <1>1, <1>2, <1>6 DEF PlaceInv, IInv, Always, After, Beginning, Still, Works, Alike,
     records, revision
<1>8. Orderly /\ Ordered => LineInv'
  <2> HAVE Orderly /\ Ordered
  <2>1. BeforeInv /\ Owed \subseteq disk.done
    BY <1>1 DEF Ordered, LineInv, Before
  <2>2. BeforeInv' /\ Owed' \subseteq disk'.done
    BY <1>2, <1>6, <2>1 DEF BeforeInv, Unreviewed, Owed, RevisionTasks, Reserved, Still, Alike,
       Works,
       records, revision
  <2> QED
    BY <1>2, <2>2 DEF LineInv, Before, After, Beginning
<1> QED
  BY <1>1, <1>2, <1>5, <1>6, <1>7, <1>8, OrderKept, KeptStores, KeepStep
     DEF Still, Works, Filed, IInv, TypeInv, Always, Data, RangeInv, records, revision

LEMMA BuildStep == IInv /\ Build /\ UNCHANGED lost => IInv'
<1> SUFFICES ASSUME IInv, Build, UNCHANGED lost PROVE IInv'
  OBVIOUS
<1> DEFINE k == IF run.ext THEN "REPORT_INTEGRATED" ELSE mem.checkpoint
           s == IF run.ext THEN [mem EXCEPT !.checkpoint = "REPORT_INTEGRATED"] ELSE mem
<1>1. disk \in State /\ run \in Run /\ pc = "build" /\ reports \in Seq(Report)
  BY DEF Build, IInv, TypeInv
<1>2. mem \in State /\ Still(mem, disk) /\ mem.checkpoint = disk.checkpoint
      /\ mem.pending = disk.pending
  BY CopyIs
<1>3. /\ pc' = "reviewing" /\ ended' = ended /\ run' = [run EXCEPT !.reuse = FALSE]
      /\ UNCHANGED <<paid, repairs, repaid, reviews, retries, requests, slots, claims, results,
                     answers, outbox>>
      /\ \/ run.ext /\ run.reuse /\ Save(s) /\ UNCHANGED reports
         \/ /\ reports' = Append(reports, [plan |-> mem.plan, rests |-> mem.done])
            /\ Save([s EXCEPT !.report = Len(reports'), !.seen = 0])
  BY DEF Build, Goto, revision
<1>4. s \in State /\ Still(s, mem) /\ s.pending = mem.pending
  <2>1. CASE run.ext
    <3>1. "REPORT_INTEGRATED" \in Checkpoint
      BY DEF Checkpoint
    <3> QED
      BY <1>2, <2>1, <3>1, CheckpointIs DEF Still
  <2>2. CASE ~run.ext
    BY <1>2, <2>2, StillSelf
  <2> QED
    BY <2>1, <2>2
<1> HIDE DEF s
<1>5. Still(s, disk) /\ s.pending = disk.pending
  BY <1>2, <1>4, StillAgain
<1>6. /\ run' \in Run /\ run'.call = run.call /\ run'.todo = run.todo /\ run'.got = run.got
      /\ run'.ext = run.ext
  BY <1>1, <1>3 DEF Run
<1>7. Orderly' => Orderly
  BY <1>3, OrderKept
<1>8. CASE run.ext /\ run.reuse /\ Save(s) /\ UNCHANGED reports
  <2>1. disk' = s /\ mem' = s
    BY <1>8 DEF Save
  <2>2. CopyInv'
    BY <2>1 DEF CopyInv
  <2>3. ~(Orderly /\ Ordered)
    BY <1>1, <1>8 DEF Ordered, LineInv, Before, BeforeInv
  <2>4. disk.report # 0
    BY <1>8 DEF IInv, Always, PlaceInv
  <2>5. PlaceInv'
    BY <1>1, <1>3, <1>5, <1>6, <2>1, <2>4 DEF PlaceInv, IInv, Always, After, Beginning, Still,
       Works, Alike
  <2> QED
    BY <1>1, <1>3, <1>5, <1>6, <1>7, <1>8, <2>1, <2>2, <2>3, <2>5, KeptStores, KeepStep
       DEF Still, Works, Filed, IInv, TypeInv, Always, Data, RangeInv
<1>9. CASE /\ reports' = Append(reports, [plan |-> mem.plan, rests |-> mem.done])
           /\ Save([s EXCEPT !.report = Len(reports'), !.seen = 0])
  <2>1. PICK n : n = Len(reports')
    OBVIOUS
  <2> DEFINE v == [plan |-> mem.plan, rests |-> mem.done]
             t == [s EXCEPT !.report = n, !.seen = 0]
  <2>2. disk' = t /\ mem' = t /\ reports' = Append(reports, v)
    BY <1>9, <2>1 DEF Save
  <2>3. v \in Report /\ v.rests = disk.done
    BY <1>2 DEF Report, State, Still, Works
  <2> HIDE DEF v
  <2>4. /\ n = Len(reports) + 1 /\ Len(reports) \in Nat /\ n \in Nat /\ n # 0
        /\ DOMAIN reports = 1 .. Len(reports)
        /\ \A r \in DOMAIN reports : reports'[r] = reports[r]
        /\ reports'[n] = v /\ reports' \in Seq(Report)
    BY <1>1, <2>1, <2>2, <2>3
  <2>5. disk.report = Len(reports)
    BY DEF IInv, Always, Data, RangeInv
  <2>6. /\ t \in State /\ t.report = n /\ t.seen = 0 /\ t.review = s.review
        /\ t.decision = s.decision /\ t.active = s.active /\ t.count = s.count
        /\ t.externals = s.externals /\ t.request = s.request
        /\ Works(t, s) /\ Filed(t, s) /\ t.phase = s.phase /\ t.pending = s.pending
    BY <1>4, <2>4 DEF State, Works, Filed
  <2> HIDE DEF t
  <2>7. /\ t.review = disk.review
        /\ t.decision = disk.decision /\ t.active = disk.active /\ t.count = disk.count
        /\ t.externals = disk.externals /\ t.request = disk.request
        /\ Works(t, disk) /\ Filed(t, disk) /\ t.phase = disk.phase
        /\ t.pending = disk.pending
    BY <1>5, <2>6 DEF Still, Alike, Works, Filed
  <2>8. TypeInv'
    BY <1>3, <1>6, <2>2, <2>4, <2>6 DEF IInv, TypeInv
  <2>9. Data'
    <3> USE DEF IInv, Always, Data
    <3>1. RangeInv'
      <4>1. 0 <= Len(reviews)
        BY DEF TypeInv
      <4> QED
        BY <1>3, <2>1, <2>2, <2>6, <2>7, <4>1 DEF RangeInv, Works, Filed
    <3>2. AboutInv'
      <4>1. \A m \in 1 .. disk.report : m \in 1 .. n
        BY <2>4, <2>5
      <4> QED
        BY <1>3, <2>2, <2>6, <4>1 DEF AboutInv
    <3>3. WorkInv' /\ BudgetInv'
      BY <1>3, <2>2, <2>7 DEF WorkInv, BudgetInv, Works
    <3>4. ExternalInv' /\ ClaimsInv'
      BY <1>3, <2>2, <2>7 DEF ExternalInv, ClaimsInv, External, Works
    <3> QED
      BY <3>1, <3>2, <3>3, <3>4
  <2>10. CopyInv'
    BY <2>2 DEF CopyInv
  <2>11. PlaceInv'
    BY <1>1, <1>3, <1>6, <2>2, <2>4, <2>6, <2>7 DEF PlaceInv, IInv, Always, After, Beginning, Works
  <2>12. Orderly /\ Ordered => Ordered'
    <3> HAVE Orderly /\ Ordered
    <3>1. \A r \in DOMAIN requests : Built(r)'
      <4> SUFFICES ASSUME NEW r \in DOMAIN requests PROVE Built(r)'
        OBVIOUS
      <4>1. requests[r].base.report \in 1 .. disk.report
        BY DEF IInv, Always, Data, AboutInv
      <4>2. requests[r].base.report < n
        BY <2>4, <2>5, <4>1
      <4> QED
        BY <1>3, <2>2, <2>6, <4>2 DEF Built
    <3>2. outbox.base.report < n
      BY <2>4, <2>5 DEF IInv, Always, Data, AboutInv, NoMail, NoBase
    <3>3. Unreviewed /\ Owed \subseteq disk.done /\ (run.ext \/ disk.externals = 0)
      BY <1>1 DEF Ordered, LineInv, Before, BeforeInv
    <3>4. ReviewsInv' /\ CountInv'
      BY <1>1, <1>3, <2>2, <2>7 DEF Ordered, Order, ReviewsInv, CountInv, RevisionTasks, Reserved,
         Works
    <3>5. NumbersInv'
      BY <1>3, <2>2, <2>7, <3>1, NumbersAre DEF NumbersInv
    <3>6. ExecutingInv'
      BY <1>3, <2>2, <2>7, <3>3 DEF Ordered, Order, ExecutingInv, Owed, RevisionTasks, Reserved,
         Works
    <3>7. DecisionInv'
      <4>1. External \subseteq DOMAIN requests
        BY DEF External
      <4>2. ~Open'
        BY <1>3, <2>2, <2>7, <3>1, NumbersAre DEF Open
      <4>3. External' = External /\ outbox' = outbox /\ disk'.report # outbox.base.report
        <5>1. outbox.base.report \in Nat
          BY DEF IInv, TypeInv, Mail, Bases
        <5>2. outbox.base.report # n
          BY <2>4, <3>2, <5>1
        <5> QED
          BY <1>3, <2>2, <2>6, <5>2 DEF External
      <4> QED
        BY <1>3, <2>2, <2>7, <3>1, <4>1, <4>2, <4>3 DEF Ordered, Order, DecisionInv, VerdictOf
    <3>8. ReviewedAsShown'
      BY <1>3, <2>2, <2>6 DEF Ordered, Order, ReviewedAsShown, OfItsReport
    <3>9. ResultsInv'
      <4>1. \A x \in results : x.report \in DOMAIN reports /\ x.report \in 1 .. n
        BY <2>4, <2>5 DEF Ordered, Order, ResultsInv
      <4> QED
        BY <1>3, <2>2, <2>4, <2>6, <3>1, <4>1 DEF Ordered, Order, ResultsInv, ResultsAreTruthful,
           RevisionTasks, Reserved
    <3>10. AfterInv'
      <4>1. RevisionTasks(disk.active)' = RevisionTasks(disk.active)
        BY <1>3, <2>2, <2>7 DEF RevisionTasks, Reserved
      <4>2. Owed' = Owed
        BY <2>2, <2>7, <4>1 DEF Owed
      <4> QED
        BY <1>3, <1>6, <2>2, <2>3, <2>4, <2>6, <2>7, <3>1, <3>2, <3>3, <4>2 DEF AfterInv
    <3>11. LineInv'
      BY <1>3, <2>2, <2>7, <3>3, <3>10 DEF LineInv, Before, After, Beginning, Unreviewed
    <3> QED
      BY <3>4, <3>5, <3>6, <3>7, <3>8, <3>9, <3>11 DEF Order, Ordered
  <2> QED
    BY <1>7, <2>8, <2>9, <2>10, <2>11, <2>12 DEF IInv, Always
<1> QED
  BY <1>3, <1>8, <1>9
-----------------------------------------------------------------------------
(* A revision begins.                                                      *)

LEMMA NumbersOf ==
  ASSUME IInv, NEW c \in DOMAIN reviews
  PROVE  reviews[c].id.ext \in Nat /\ reviews[c].id.count \in Nat
<1>1. reviews[c] \in Review
  <2>1. reviews \in Seq(Review)
    BY DEF IInv, TypeInv
  <2> QED
    BY <2>1
<1>2. reviews[c].id \in ReviewId
  BY <1>1 DEF Review
<1> QED
  BY <1>2 DEF ReviewId

LEMMA ResumeNewStep == IInv /\ ResumeNew /\ UNCHANGED lost => IInv'
<1> SUFFICES ASSUME IInv, ResumeNew, UNCHANGED lost PROVE IInv'
  OBVIOUS
<1> DEFINE n == disk.externals + 1
           s == [disk EXCEPT !.externals = n, !.request = Slot, !.pending = Slot,
                             !.record = "processing", !.checkpoint = "REQUEST_RECEIVED"]
<1>1. mem = disk /\ disk \in State /\ pc = "resume" /\ External # {}
  BY MemIs DEF ResumeNew, HasRequest, IInv, TypeInv
<1>2. /\ pc' = "received" /\ disk' = s /\ mem' = s
      /\ UNCHANGED <<run, ended, paid, repairs, repaid, reports, reviews, retries, requests, slots,
                     claims, results, answers, outbox>>
  BY <1>1 DEF ResumeNew, Save, Goto, store, revision
<1>3. Current(Slot, disk) /\ outbox.request # Slot /\ disk.request # Slot
  BY <1>1 DEF ResumeNew, Matches
<1>4. /\ Slot \in External /\ Slot \in DOMAIN requests /\ Slot \in Nat /\ Slot # 0
      /\ Slot <= Len(requests)
  <2>1. Slot \in External /\ Slot \in DOMAIN requests
    BY <1>1, SlotIs DEF External
  <2> QED
    BY <2>1 DEF IInv, TypeInv
<1>5. n \in Nat /\ n > disk.externals /\ n # 0 /\ disk.externals \in Nat
  BY <1>1 DEF State
<1> HIDE DEF n
<1>6. /\ s \in State /\ s.externals = n /\ s.request = Slot /\ s.pending = Slot
      /\ s.checkpoint = "REQUEST_RECEIVED"
      /\ s.report = disk.report /\ s.seen = disk.seen /\ s.review = disk.review
      /\ s.decision = disk.decision /\ s.active = disk.active /\ s.count = disk.count
      /\ Works(s, disk) /\ Filed(s, disk) /\ s.phase = disk.phase
  BY <1>1, <1>4, <1>5 DEF State, Works, Filed, Note, Checkpoint
<1> HIDE DEF s
<1>7. TypeInv'
  BY <1>2, <1>6 DEF IInv, TypeInv
<1>8. External' = External /\ Slot' = Slot
  BY <1>2 DEF External, Slot
<1>9. Data'
  <2> USE DEF IInv, Always, Data
  <2>1. RangeInv'
    BY <1>2, <1>4, <1>6 DEF RangeInv, Works, Filed
  <2>2. AboutInv' /\ WorkInv' /\ BudgetInv' /\ ClaimsInv'
    BY <1>2, <1>6, <1>8 DEF AboutInv, WorkInv, BudgetInv, ClaimsInv, Works
  <2>3. ExternalInv'
    BY <1>2, <1>4, <1>5, <1>6, <1>8 DEF ExternalInv
  <2> QED
    BY <2>1, <2>2, <2>3
<1>10. CopyInv'
  BY <1>2 DEF CopyInv
<1>11. PlaceInv'
  BY <1>1, <1>2, <1>3, <1>6, <1>8 DEF IInv, Always, PlaceInv, After, Beginning, Works
<1>12. Orderly /\ Ordered => Ordered'
  <2> HAVE Orderly /\ Ordered
  <2>6. ReviewsInv'
    <3>1. \A c \in DOMAIN reviews : reviews[c].id.ext <= n
      <4> SUFFICES ASSUME NEW c \in DOMAIN reviews PROVE reviews[c].id.ext <= n
        OBVIOUS
      <4>1. reviews[c].id.ext <= disk.externals
        BY DEF Ordered, Order, ReviewsInv
      <4> QED
        BY <1>5, <4>1, NumbersOf
    <3> QED
      BY <1>2, <1>6, <3>1 DEF Ordered, Order, ReviewsInv
  <2>1. CountInv' /\ ExecutingInv' /\ DecisionInv'
    BY <1>1, <1>2, <1>6, <1>8 DEF Ordered, Order, CountInv, ExecutingInv, DecisionInv,
       Open, Built, Waits, VerdictOf, RevisionTasks, Reserved, Works
  <2>2. NumbersInv'
    <3>1. \A c \in DOMAIN reviews : reviews[c].id.ext # n
      <4> SUFFICES ASSUME NEW c \in DOMAIN reviews PROVE reviews[c].id.ext # n
        OBVIOUS
      <4>1. reviews[c].id.ext \in Nat
        BY NumbersOf
      <4>2. reviews[c].id.ext <= disk.externals
        BY DEF Ordered, Order, ReviewsInv
      <4> QED
        BY <1>5, <4>1, <4>2
    <3> QED
      BY <1>1, <1>2, <1>6, <3>1 DEF Ordered, Order, NumbersInv, Built, Advanced
  <2>3. ReviewedAsShown' /\ ResultsInv'
    BY <1>2, <1>6, OrderKept DEF Ordered, Order, ReviewedAsShown, OfItsReport, ResultsInv,
       ResultsAreTruthful, Built, RevisionTasks, Reserved
  <2>4. ~Built(Slot)
    BY <1>1, <1>3, CurrentIs
  <2>5. LineInv'
    BY <1>2, <1>6, <1>8, <2>4 DEF LineInv, Before, After, Beginning, Built
  <2> QED
    BY <2>1, <2>2, <2>3, <2>5, <2>6 DEF Ordered, Order
<1> QED
  BY <1>2, <1>7, <1>9, <1>10, <1>11, <1>12, OrderKept DEF IInv, Always

LEMMA PlanTasksStep == IInv /\ PlanTasks /\ UNCHANGED lost => IInv'
<1> SUFFICES ASSUME IInv, PlanTasks, UNCHANGED lost PROVE IInv'
  OBVIOUS
<1> DEFINE ts == disk.tasks \union TasksOf(Slot, Asked)
           s == [disk EXCEPT !.tasks = ts, !.checkpoint = "TASKS_PLANNED"]
<1>1. mem = disk /\ disk \in State /\ pc = "received" /\ External # {} /\ outbox.request # Slot
  BY MemIs DEF PlanTasks, IInv, TypeInv, Always, PlaceInv
<1>2. /\ pc' = "external" /\ disk' = s /\ mem' = s
      /\ UNCHANGED <<run, ended, paid, repairs, repaid, reports, reviews, retries, requests, slots,
                     claims, results, answers, outbox>>
  BY <1>1 DEF PlanTasks, Save, Goto, store, revision
<1>3. /\ Slot \in External /\ Slot \in DOMAIN requests /\ Slot \in Nat /\ Slot <= Len(requests)
  <2>1. Slot \in External /\ Slot \in DOMAIN requests
    BY <1>1, SlotIs DEF External
  <2> QED
    BY <2>1 DEF IInv, TypeInv
<1>4. ts \in SUBSET Task /\ \A t \in ts : t \in disk.tasks \/ t.cycle = Slot
  <2>1. TasksOf(Slot, Asked) \subseteq Task /\ \A t \in TasksOf(Slot, Asked) : t.cycle = Slot
    BY <1>3, AgentAssumption DEF TasksOf, Task
  <2> QED
    BY <1>1, <2>1 DEF State
<1>5. disk.tasks \subseteq ts /\ TasksOf(Slot, Asked) \subseteq ts /\ "TASKS_PLANNED" \in Checkpoint
  BY DEF Checkpoint
<1> HIDE DEF ts
<1>6. /\ s \in State /\ Alike(s, disk) /\ Filed(s, disk) /\ s.phase = disk.phase
      /\ s.tasks = ts /\ s.done = disk.done /\ s.drifted = disk.drifted
      /\ s.checkpoint = "TASKS_PLANNED" /\ s.pending = disk.pending
  BY <1>1, <1>4, <1>5 DEF State, Alike, Filed
<1> HIDE DEF s
<1>7. TypeInv'
  BY <1>2, <1>6 DEF IInv, TypeInv
<1>8. External' = External /\ Slot' = Slot
  BY <1>2 DEF External, Slot
<1>9. Data'
  <2> USE DEF IInv, Always, Data
  <2>1. RangeInv'
    BY <1>2, <1>3, <1>4, <1>6 DEF RangeInv, Alike, Filed
  <2>2. AboutInv' /\ BudgetInv'
    BY <1>2, <1>6 DEF AboutInv, BudgetInv, Alike
  <2>3. WorkInv'
    BY <1>2, <1>5, <1>6 DEF WorkInv
  <2>4. ExternalInv'
    BY <1>2, <1>6, <1>8 DEF ExternalInv, Alike
  <2>5. ClaimsInv'
    BY <1>2, <1>5, <1>6 DEF ClaimsInv
  <2> QED
    BY <2>1, <2>2, <2>3, <2>4, <2>5
<1>10. CopyInv'
  BY <1>2 DEF CopyInv
<1>11. PlaceInv'
  BY <1>1, <1>2, <1>5, <1>6, <1>8 DEF IInv, Always, PlaceInv, After, Beginning, Alike
<1>12. Orderly /\ Ordered => Ordered'
  <2> HAVE Orderly /\ Ordered
  <2>1. Calm
    BY <1>1, <1>2, <1>5, <1>6 DEF Calm, Advanced
  <2>2. Order'
    BY <2>1, CalmOrder DEF IInv
  <2>3. LineInv'
    BY <1>1, <1>2, <1>6, <1>8 DEF Ordered, LineInv, Before, After, Beginning, Built, Alike
  <2> QED
    BY <2>2, <2>3 DEF Ordered
<1> QED
  BY <1>2, <1>7, <1>9, <1>10, <1>11, <1>12, OrderKept DEF IInv, Always

LEMMA ExecuteStep == IInv /\ Execute /\ UNCHANGED lost => IInv'
<1> SUFFICES ASSUME IInv, Execute, UNCHANGED lost PROVE IInv'
  OBVIOUS
<1> DEFINE r == disk.active
           b == External # {}
           x == [NoRun EXCEPT !.ext = b, !.then = "internal"]
<1>1. /\ disk \in State /\ pc = "idle" /\ MayExecute(disk) /\ disk' = disk /\ mem' = disk
      /\ run' = x /\ ended' = ended
      /\ UNCHANGED <<paid, repairs, repaid, reports, reviews, retries, requests, claims, results,
                     answers, outbox>>
  BY DEF Execute, Command, IInv, TypeInv, Goto, store
<1>2. \/ /\ r \notin slots /\ Cardinality(slots) < MaxRevisions
         /\ slots' = slots \union {r} /\ pc' = "begin"
      \/ r \in slots /\ pc' = "consume" /\ UNCHANGED slots
  BY DEF Execute, Goto
<1>3. /\ x \in Run /\ x.todo = {} /\ x.got = {} /\ x.call = 0 /\ x.ext = b /\ ~x.reuse
      /\ x.then = "internal"
  <2> HIDE DEF b
  <2>1. b \in BOOLEAN
    BY DEF b
  <2> QED
    BY <2>1 DEF NoRun, Run, Then
<1> HIDE DEF x
<1>4. r \in DOMAIN requests /\ ~Built(r)
  <2>1. r # 0 /\ requests[r].base = Base(disk)
    BY <1>1 DEF MayExecute, UpToDate
  <2>2. requests[r].base.report = disk.report /\ disk.report \in Nat
    BY <2>1, NumbersAre DEF Base
  <2> QED
    BY <2>1, <2>2, NumbersAre DEF Built
<1>5. slots' \subseteq DOMAIN requests /\ IsFiniteSet(slots') /\ r \in slots'
      /\ Cardinality(slots') <= MaxRevisions
      /\ (r \notin slots => Cardinality(slots') = Cardinality(slots) + 1)
  <2>1. /\ slots \subseteq DOMAIN requests /\ IsFiniteSet(slots)
        /\ Cardinality(slots) <= MaxRevisions /\ Cardinality(slots) \in Nat
    BY FS_CardinalityType DEF IInv, TypeInv, Always, Data, BudgetInv
  <2>2. CASE r \notin slots
    <3>1. IsFiniteSet(slots') /\ Cardinality(slots') = Cardinality(slots) + 1
      BY <1>2, <2>1, <2>2, FS_AddElement
    <3> QED
      BY <1>2, <1>4, <2>1, <2>2, <3>1, LimitAssumption
  <2>3. CASE r \in slots
    BY <1>2, <1>4, <2>1, <2>3
  <2> QED
    BY <2>2, <2>3
<1>6. TypeInv'
  BY <1>1, <1>3, <1>5 DEF IInv, TypeInv
<1>7. Data'
  <2>1. RangeInv' /\ AboutInv' /\ WorkInv' /\ ExternalInv' /\ ClaimsInv'
    BY <1>1 DEF IInv, Always, Data, RangeInv, AboutInv, WorkInv, ExternalInv, External, ClaimsInv
  <2>2. BudgetInv'
    BY <1>5 DEF BudgetInv
  <2> QED
    BY <2>1, <2>2 DEF Data
<1>8. CopyInv'
  BY <1>1 DEF CopyInv
<1>9. PlaceInv'
  BY <1>1, <1>2, <1>3, <1>5 DEF IInv, TypeInv, PlaceInv, After, Beginning
<1>10. Orderly /\ Ordered => Ordered'
  <2> HAVE Orderly /\ Ordered
  <2>1. ReviewsInv' /\ DecisionInv' /\ ReviewedAsShown' /\ ResultsInv'
    BY <1>1, OrderKept DEF Ordered, Order, ReviewsInv, DecisionInv, Open, Built, Waits, VerdictOf,
       External, ReviewedAsShown, OfItsReport, ResultsInv, ResultsAreTruthful, RevisionTasks,
       Reserved
  <2>2. disk.count = Cardinality(slots) /\ Cardinality(slots) \in Nat
    BY <1>1, FS_CardinalityType DEF Ordered, Order, CountInv, IInv, TypeInv
  <2>3. CountInv'
    BY <1>1, <1>2, <1>5, <2>2 DEF Ordered, Order, CountInv, RevisionTasks, Reserved
  <2>4. NumbersInv'
    BY <1>1, <1>2, <1>5 DEF Ordered, Order, NumbersInv, Built
  <2>5. ExecutingInv'
    BY <1>1, <1>2, <1>5 DEF Ordered, Order, ExecutingInv, Built, RevisionTasks, Reserved
  <2>6. LineInv'
    <3>1. x.ext \/ disk.externals = 0
      BY <1>3 DEF IInv, Always, Data, ExternalInv
    <3> QED
      BY <1>1, <1>2, <1>3, <1>4, <3>1 DEF LineInv, Before, After, Beginning, Built
  <2> QED
    BY <2>1, <2>3, <2>4, <2>5, <2>6 DEF Ordered, Order
<1> QED
  BY <1>1, <1>6, <1>7, <1>8, <1>9, <1>10, OrderKept DEF IInv, Always

\* What a revision has reserved is saved, and its own.
LEMMA ReservedAre ==
  ASSUME IInv, NEW r
  PROVE  Reserved(r) \subseteq disk.tasks /\ \A t \in Reserved(r) : t.cycle = r
BY DEF IInv, Always, Data, ClaimsInv, Reserved

LEMMA BeginRevisionStep == IInv /\ BeginRevision /\ UNCHANGED lost => IInv'
<1> SUFFICES ASSUME IInv, BeginRevision, UNCHANGED lost PROVE IInv'
  OBVIOUS
<1>0. PICK ags \in Called(mem.active) :
        Save([mem EXCEPT !.count = Cardinality(slots),
                         !.tasks = @ \union TasksOf(mem.active, ags),
                         !.record = IF mem.externals = 0 THEN @ ELSE "processing",
                         !.status = "REVISING"])
  BY DEF BeginRevision
<1> DEFINE r == disk.active
           n == Cardinality(slots)
           ts == disk.tasks \union TasksOf(r, ags)
           k == IF disk.externals = 0 THEN disk.record ELSE "processing"
           s == [disk EXCEPT !.count = n, !.tasks = ts, !.record = k, !.status = "REVISING"]
<1>1. mem = disk /\ disk \in State /\ pc = "begin" /\ r \in slots
  BY MemIs DEF BeginRevision, IInv, TypeInv, Always, PlaceInv, Beginning
<1>2. /\ pc' = "consume" /\ disk' = s /\ mem' = s
      /\ UNCHANGED <<run, ended, paid, repairs, repaid, reports, reviews, retries, requests, slots,
                     claims, results, answers, outbox>>
  <2>1. s = [mem EXCEPT !.count = Cardinality(slots),
                        !.tasks = @ \union TasksOf(mem.active, ags),
                        !.record = IF mem.externals = 0 THEN @ ELSE "processing",
                        !.status = "REVISING"]
    BY <1>1
  <2> HIDE DEF s
  <2> QED
    BY <1>0, <1>1, <2>1 DEF BeginRevision, Save, Goto, store, revision
<1>3. /\ r \in DOMAIN requests /\ r \in Nat /\ r <= Len(requests)
      /\ ags \subseteq Agent /\ requests[r].targets \subseteq ags
  <2>1. r \in DOMAIN requests /\ requests \in Seq(Request)
    BY <1>1 DEF IInv, TypeInv
  <2>2. requests[r] \in Request
    BY <2>1
  <2>3. requests[r].targets \subseteq Agent
    BY <2>2 DEF Request
  <2> QED
    BY <1>0, <1>1, <2>1, <2>3 DEF Called
<1>4. n \in Nat
  BY FS_CardinalityType DEF IInv, TypeInv
<1>5. /\ ts \in SUBSET Task /\ disk.tasks \subseteq ts /\ RevisionTasks(r) \subseteq ts
      /\ \A t \in ts : t \in disk.tasks \/ t.cycle = r
  <2>1. TasksOf(r, ags) \subseteq Task /\ \A t \in TasksOf(r, ags) : t.cycle = r
    BY <1>3 DEF TasksOf, Task
  <2>2. TasksOf(r, requests[r].targets) \subseteq TasksOf(r, ags)
    BY <1>3 DEF TasksOf
  <2>3. Reserved(r) \subseteq disk.tasks
    BY ReservedAre
  <2> QED
    BY <1>1, <2>1, <2>2, <2>3 DEF State, RevisionTasks
<1>6. k \in Note
  BY <1>1 DEF State, Note
<1> HIDE DEF n, ts, k
<1>7. /\ s \in State /\ s.count = n /\ s.tasks = ts
      /\ s.report = disk.report /\ s.seen = disk.seen /\ s.review = disk.review
      /\ s.decision = disk.decision /\ s.active = disk.active /\ s.externals = disk.externals
      /\ s.request = disk.request /\ s.done = disk.done /\ s.drifted = disk.drifted
      /\ Filed(s, disk) /\ s.phase = disk.phase
      /\ s.checkpoint = disk.checkpoint /\ s.pending = disk.pending
  BY <1>1, <1>4, <1>5, <1>6 DEF State, Filed, Status
<1> HIDE DEF s
<1>8. TypeInv'
  BY <1>2, <1>7 DEF IInv, TypeInv
<1>9. External' = External
  BY <1>2 DEF External
<1>10. Data'
  <2> USE DEF IInv, Always, Data
  <2>1. RangeInv'
    BY <1>2, <1>3, <1>5, <1>7 DEF RangeInv, Filed
  <2>2. AboutInv' /\ BudgetInv' /\ ExternalInv'
    BY <1>2, <1>7, <1>9 DEF AboutInv, BudgetInv, ExternalInv
  <2>3. WorkInv'
    BY <1>2, <1>5, <1>7 DEF WorkInv
  <2>4. ClaimsInv'
    BY <1>2, <1>5, <1>7 DEF ClaimsInv
  <2> QED
    BY <2>1, <2>2, <2>3, <2>4
<1>11. CopyInv'
  BY <1>2 DEF CopyInv
<1>12. PlaceInv'
  BY <1>1, <1>2, <1>5, <1>7 DEF IInv, Always, PlaceInv, After, Beginning
<1>13. Orderly /\ Ordered => Ordered'
  <2> HAVE Orderly /\ Ordered
  <2>1. disk.count < n /\ disk.count \in Nat
    BY <1>1 DEF Ordered, Order, CountInv, State, n
  <2>2. \A c \in DOMAIN reviews : reviews[c].id.count < n
    <3> SUFFICES ASSUME NEW c \in DOMAIN reviews PROVE reviews[c].id.count < n
      OBVIOUS
    <3>1. reviews[c].id.count \in Nat
      BY NumbersOf
    <3>2. reviews[c].id.count <= disk.count
      BY DEF Ordered, Order, ReviewsInv
    <3> QED
      BY <1>4, <2>1, <3>1, <3>2
  <2>3. ReviewsInv'
    <3>1. \A c \in DOMAIN reviews : reviews[c].id.count <= n
      BY <1>4, <2>2, NumbersOf
    <3> QED
      BY <1>2, <1>7, <3>1 DEF Ordered, Order, ReviewsInv
  <2>4. CountInv'
    BY <1>2, <1>5, <1>7 DEF CountInv, RevisionTasks, Reserved, n
  <2>5. NumbersInv'
    <3>1. \A c \in DOMAIN reviews : reviews[c].id.count # n
      BY <1>4, <2>2, NumbersOf
    <3> QED
      BY <1>2, <1>7, <3>1 DEF Ordered, Order, NumbersInv, Built
  <2>6. ExecutingInv' /\ DecisionInv' /\ ReviewedAsShown' /\ ResultsInv'
    BY <1>2, <1>7, <1>9, OrderKept DEF Ordered, Order, ExecutingInv, DecisionInv, Open, Built,
       Waits,
       VerdictOf, ReviewedAsShown, OfItsReport, ResultsInv, ResultsAreTruthful, RevisionTasks,
       Reserved
  <2>7. LineInv'
    BY <1>1, <1>2, <1>7 DEF Ordered, LineInv, Before, After, Beginning, Built
  <2> QED
    BY <2>3, <2>4, <2>5, <2>6, <2>7 DEF Ordered, Order
<1> QED
  BY <1>2, <1>8, <1>10, <1>11, <1>12, <1>13, OrderKept DEF IInv, Always

LEMMA ConsumeStep == IInv /\ Consume /\ UNCHANGED lost => IInv'
<1> SUFFICES ASSUME IInv, Consume, UNCHANGED lost PROVE IInv'
  OBVIOUS
<1> DEFINE x == Reservations(disk)
<1>1. mem = disk /\ disk \in State /\ run \in Run /\ pc = "consume" /\ disk.active \in slots
  BY MemIs DEF Consume, IInv, TypeInv, Always, PlaceInv, Beginning
<1>2. /\ pc' = "execute" /\ ended' = ended /\ claims' = claims \union {x}
      /\ UNCHANGED <<disk, mem, run, paid, repairs, repaid, reports, reviews, retries, requests,
                     slots, results, answers, outbox>>
  BY <1>1 DEF Consume, Goto, store
<1>3. x \in Claim /\ x.request = disk.active /\ x.request \in DOMAIN requests
  <2>1. disk.active \in Nat /\ {t \in disk.tasks : t.cycle = disk.active} \subseteq Task
    BY <1>1 DEF State
  <2>2. ReviewTask(disk, FALSE, FALSE) \in ReviewId
    BY <1>1 DEF ReviewTask, ReviewId, State, Run
  <2> QED
    BY <1>1, <2>1, <2>2, NumbersAre DEF Reservations, SavedRevisionTasks, Claim
<1>4. x.tasks = {t \in disk.tasks : t.cycle = disk.active}
  BY DEF Reservations, SavedRevisionTasks
<1>5. \A t \in disk.tasks : t.cycle = disk.active => t \in Reserved(t.cycle)'
  BY <1>2, <1>3, <1>4 DEF Reserved
<1> HIDE DEF x
<1>6. TypeInv'
  BY <1>2, <1>3 DEF IInv, TypeInv
<1>7. Data'
  <2>1. ClaimsInv'
    BY <1>2, <1>3, <1>4 DEF IInv, Always, Data, ClaimsInv
  <2> QED
    BY <1>2, <2>1 DEF IInv, Always, Data, RangeInv, AboutInv, WorkInv, ExternalInv, External,
       BudgetInv
<1>8. CopyInv'
  BY <1>1, <1>2 DEF CopyInv
<1>9. PlaceInv'
  <2>1. \A t \in disk'.tasks : t.cycle = disk'.active => t \in Reserved(t.cycle)'
    BY <1>2, <1>5
  <2> QED
    BY <1>1, <1>2, <2>1 DEF PlaceInv, IInv, Always, After, Beginning
<1>10. Orderly /\ Ordered => Ordered'
  <2> HAVE Orderly /\ Ordered
  <2>1. ~Built(disk.active) /\ ~run.reuse /\ (run.ext \/ disk.externals = 0)
        /\ run.then = "internal"
    BY <1>1 DEF Ordered, LineInv, Beginning
  <2>2. \A r : r # disk.active => RevisionTasks(r)' = RevisionTasks(r)
    <3>1. \A r : r # disk.active => {c \in claims' : c.request = r} = {c \in claims : c.request = r}
      BY <1>2, <1>3
    <3> QED
      BY <1>2, <3>1 DEF RevisionTasks, Reserved
  <2>3. RevisionTasks(disk.active)' = RevisionTasks(disk.active) \union x.tasks
    <3>1. {c \in claims' : c.request = disk.active} = {c \in claims : c.request = disk.active} \union {x}
      BY <1>2, <1>3
    <3>2. Reserved(disk.active)' = Reserved(disk.active) \union x.tasks
      BY <1>2, <3>1 DEF Reserved
    <3> QED
      BY <1>2, <3>2 DEF RevisionTasks
  <2>4. CountInv'
    BY <1>1, <1>2, <1>4, <2>3 DEF Ordered, Order, CountInv
  <2>5. ReviewsInv' /\ NumbersInv' /\ DecisionInv' /\ ReviewedAsShown'
    BY <1>1, <1>2, OrderKept DEF Ordered, Order, ReviewsInv, NumbersInv, DecisionInv, Open, Built,
       Waits, VerdictOf, External, ReviewedAsShown, OfItsReport
  <2>6. ExecutingInv'
    BY <1>2, <2>1 DEF Ordered, Order, ExecutingInv, Built
  <2>7. ResultsInv'
    <3>1. \A y \in results : y.request # disk.active
      BY <2>1 DEF Ordered, Order, ResultsInv
    <3> QED
      BY <1>2, <2>2, <3>1 DEF Ordered, Order, ResultsInv, ResultsAreTruthful, Built, Orderly,
         External
  <2>8. LineInv'
    BY <1>1, <1>2, <2>1 DEF LineInv, After, Before, Beginning, Built
  <2> QED
    BY <2>4, <2>5, <2>6, <2>7, <2>8 DEF Ordered, Order
<1> QED
  BY <1>2, <1>6, <1>7, <1>8, <1>9, <1>10, OrderKept DEF IInv, Always

LEMMA ExecutingStep == IInv /\ Executing /\ UNCHANGED lost => IInv'
<1> SUFFICES ASSUME IInv, Executing, UNCHANGED lost PROVE IInv'
  OBVIOUS
<1> DEFINE r == disk.active
           s == [disk EXCEPT !.phase = "executing"]
           todo == SavedRevisionTasks(disk) \ disk.done
           x == IF todo = {} THEN s ELSE Dispatched(s)
<1>1. mem = disk /\ disk \in State /\ run \in Run /\ pc = "execute" /\ r \in slots
      /\ \A t \in disk.tasks : t.cycle = r => t \in Reserved(r)
  BY MemIs DEF Executing, IInv, TypeInv, Always, PlaceInv, Beginning
<1>2. /\ disk' = x /\ mem' = x /\ run' = [run EXCEPT !.todo = todo] /\ ended' = ended
      /\ pc' = (IF todo = {} THEN "integrate" ELSE "gather")
      /\ UNCHANGED <<paid, repairs, repaid, reports, reviews, retries, requests, slots, claims,
                     results, answers, outbox>>
  BY <1>1 DEF Executing, Save, Goto, store, revision
<1>3. /\ s \in State /\ Alike(s, disk) /\ Works(s, disk) /\ Filed(s, disk) /\ s.phase = "executing"
      /\ s.checkpoint = disk.checkpoint /\ s.pending = disk.pending
  BY <1>1 DEF State, Alike, Works, Filed, Phase
<1> HIDE DEF s
<1>4. Still(x, s) /\ x.checkpoint = s.checkpoint /\ x.pending = s.pending
  <2>1. "COLLECTING" \in Status
    BY DEF Status
  <2>2. Still(Dispatched(s), s) /\ Dispatched(s).checkpoint = s.checkpoint
        /\ Dispatched(s).pending = s.pending
    BY <1>3, <2>1, StatusIs DEF Dispatched
  <2> QED
    BY <1>3, <2>2, StillSelf
<1> HIDE DEF x
<1>5. /\ x \in State /\ Alike(x, disk) /\ Works(x, disk) /\ Filed(x, disk) /\ x.phase = "executing"
      /\ x.checkpoint = disk.checkpoint /\ x.pending = disk.pending
  BY <1>3, <1>4 DEF Still, Alike, Works, Filed
<1>6. r \in DOMAIN requests /\ todo \subseteq disk.tasks /\ todo \subseteq Task
  BY <1>1, NumbersAre DEF SavedRevisionTasks, State
<1>7. \A t \in todo : Authorized(t)
  <2> SUFFICES ASSUME NEW t \in todo PROVE Authorized(t)
    OBVIOUS
  <2>1. t \in disk.tasks /\ t.cycle = r
    BY DEF SavedRevisionTasks
  <2>2. t \in Reserved(r)
    BY <1>1, <2>1
  <2> QED
    BY <1>1, <2>1, <2>2 DEF Authorized
<1> HIDE DEF todo
<1>8. /\ run' \in Run /\ run'.todo = todo /\ run'.got = run.got /\ run'.call = run.call
      /\ run'.ext = run.ext /\ run'.reuse = run.reuse /\ run'.then = run.then
  BY <1>1, <1>2, <1>6 DEF Run
<1>9. TypeInv'
  BY <1>2, <1>5, <1>8 DEF IInv, TypeInv
<1>10. Data'
  BY <1>2, <1>5, KeptStores, DataBy DEF IInv, Always, Data, RangeInv, Alike, Works, Filed
<1>11. CopyInv'
  BY <1>2 DEF CopyInv
<1>12. PlaceInv'
  <2>1. \A t \in todo : Authorized(t)'
    BY <1>2, <1>7 DEF Authorized, Reserved, External
  <2> QED
    BY <1>1, <1>2, <1>5, <1>6, <1>8, <2>1 DEF IInv, Always, PlaceInv, After, Beginning, Alike, Works
<1>13. Orderly /\ Ordered => Ordered'
  <2> HAVE Orderly /\ Ordered
  <2>1. /\ ~Built(r) /\ ~run.reuse /\ (run.ext \/ disk.externals = 0) /\ run.then = "internal"
    BY <1>1 DEF Ordered, LineInv, Beginning
  <2>2. ReviewsInv' /\ CountInv' /\ NumbersInv' /\ DecisionInv' /\ ReviewedAsShown' /\ ResultsInv'
    <3>1. ReviewsInv' /\ CountInv' /\ NumbersInv'
      BY <1>1, <1>2, <1>5 DEF Ordered, Order, ReviewsInv, CountInv, NumbersInv, RevisionTasks,
         Reserved, Built,
         Alike, Works
    <3>2. DecisionInv'
      BY <1>2, <1>5 DEF Ordered, Order, DecisionInv, Open, Built, Waits, VerdictOf, External, Alike
    <3>3. ReviewedAsShown' /\ ResultsInv'
      BY <1>2, <1>5, OrderKept DEF Ordered, Order, ReviewedAsShown, OfItsReport, ResultsInv,
         ResultsAreTruthful, RevisionTasks, Reserved, Built, Alike
    <3> QED
      BY <3>1, <3>2, <3>3
  <2>3. ExecutingInv'
    <3>1. \A y \in results : y.request # r
      BY <2>1 DEF Ordered, Order, ResultsInv
    <3> QED
      BY <1>1, <1>2, <1>5, <2>1, <3>1 DEF ExecutingInv, Built, Alike
  <2>4. RevisionTasks(r) \subseteq disk.done \union todo
    <3>1. RevisionTasks(r) \subseteq disk.tasks
      BY <1>1 DEF Ordered, Order, CountInv
    <3>2. \A t \in RevisionTasks(r) : t.cycle = r
      BY ReservedAre DEF RevisionTasks, TasksOf
    <3> QED
      BY <3>1, <3>2 DEF todo, SavedRevisionTasks
  <2>5. Owed' = RevisionTasks(r)
    BY <1>2, <1>5 DEF Owed, RevisionTasks, Reserved, Alike
  <2>6. BeforeInv'
    <3>1. Unreviewed
      BY <1>1, <2>1 DEF Ordered, Order, NumbersInv, Unreviewed
    <3> QED
      BY <1>2, <1>5, <1>8, <2>1, <3>1 DEF BeforeInv, Unreviewed, Alike
  <2>7. LineInv'
    <3>1. CASE todo = {}
      BY <1>2, <1>5, <2>4, <2>5, <2>6, <3>1 DEF LineInv, Before, After, Beginning, Works
    <3>2. CASE todo # {}
      <4>1. CollectInv'
        BY <1>2, <1>5, <1>8, <2>1, <2>4, <2>5, <3>2 DEF CollectInv, Works
      <4> QED
        BY <1>2, <2>6, <3>2, <4>1 DEF LineInv, Before, After, Beginning
    <3> QED
      BY <3>1, <3>2
  <2> QED
    BY <2>2, <2>3, <2>7 DEF Ordered, Order
<1> QED
  BY <1>2, <1>9, <1>10, <1>11, <1>12, <1>13, OrderKept DEF IInv, Always

-----------------------------------------------------------------------------
(* Repairs.                                                                *)

LEMMA RepairedStep == IInv /\ Repaired /\ UNCHANGED lost => IInv'
<1> SUFFICES ASSUME IInv, Repaired, UNCHANGED lost PROVE IInv'
  OBVIOUS
<1>1. mem = disk /\ disk \in State /\ run \in Run /\ pc = "repairing"
  BY MemIs DEF Repaired, IInv, TypeInv
<1>2. /\ repaid' = repaid \union run.todo
      /\ UNCHANGED <<paid, repairs, reports, reviews, retries, requests, slots, claims, results,
                     answers, outbox>>
  BY DEF Repaired, revision
<1>3. PICK t \in run.todo :
        \/ /\ Save([Recorded(disk, t, "result") EXCEPT !.status = "RUNNING"])
           /\ Goto("repair") /\ UNCHANGED run
        \/ SaveAndEnd(Failed([Recorded(disk, t, "error") EXCEPT !.drifted = @ \ {t}]), "failed")
  BY <1>1 DEF Repaired
<1>4. /\ run.todo \subseteq repairs /\ run.todo \subseteq disk.drifted /\ t \in Task
      /\ t \in paid /\ run.todo \subseteq disk.tasks
  BY <1>1, KeptStores DEF IInv, Always, PlaceInv, State
<1>5. repaid' \subseteq repairs' /\ (Orderly' => Orderly)
  BY <1>2, <1>4, KeptStores, OrderKept
<1>6. CASE /\ Save([Recorded(disk, t, "result") EXCEPT !.status = "RUNNING"])
           /\ Goto("repair") /\ UNCHANGED run
  <2> DEFINE u == Recorded(disk, t, "result")
             s == [u EXCEPT !.status = "RUNNING"]
  <2>1. disk' = s /\ mem' = s /\ pc' = "repair" /\ ended' = ended /\ run' = run
    BY <1>6 DEF Save, Goto
  <2>2. /\ u \in State /\ Alike(u, disk) /\ Filed(u, disk) /\ u.phase = disk.phase
        /\ u.checkpoint = disk.checkpoint /\ u.pending = disk.pending /\ u.tasks = disk.tasks
        /\ u.done = disk.done \union {t} /\ u.drifted = disk.drifted
    <3>1. "result" \in Kind
      BY DEF Kind
    <3> QED
      BY <1>1, <1>4, <3>1, RecordedIs
  <2> HIDE DEF u
  <2>3. Still(s, u) /\ s.checkpoint = u.checkpoint /\ s.pending = u.pending
    <3>1. "RUNNING" \in Status
      BY DEF Status
    <3> QED
      BY <2>2, <3>1, StatusIs
  <2> HIDE DEF s
  <2>4. /\ s \in State /\ Alike(s, disk) /\ Filed(s, disk) /\ s.phase = disk.phase
        /\ s.checkpoint = disk.checkpoint /\ s.pending = disk.pending /\ s.tasks = disk.tasks
        /\ s.done = disk.done \union {t} /\ s.drifted = disk.drifted
    BY <2>2, <2>3 DEF Still, Alike, Works, Filed
  <2>5. PlaceInv'
    BY <1>1, <1>2, <2>1, <2>4 DEF IInv, Always, PlaceInv, After, Beginning, Alike
  <2>6. Orderly /\ Ordered => LineInv'
    BY <1>1, <1>2, <2>1, <2>4 DEF Ordered, LineInv, Before, After, Beginning, Alike
  <2> QED
    BY <1>1, <1>2, <1>4, <1>5, <2>1, <2>4, <2>5, <2>6, KeptStores, WorkStep
       DEF IInv, TypeInv, Always, Data, RangeInv, Filed
<1>7. CASE SaveAndEnd(Failed([Recorded(disk, t, "error") EXCEPT !.drifted = @ \ {t}]), "failed")
  <2> DEFINE u == Recorded(disk, t, "error")
             g == [u EXCEPT !.drifted = @ \ {t}]
             s == Failed(g)
  <2>1. disk' = s /\ mem' = s /\ pc' = "idle" /\ ended' = "failed" /\ run' = NoRun
    BY <1>7 DEF SaveAndEnd, Save, End
  <2>2. /\ u \in State /\ Alike(u, disk) /\ Filed(u, disk) /\ u.phase = disk.phase
        /\ u.checkpoint = disk.checkpoint /\ u.pending = disk.pending /\ u.tasks = disk.tasks
        /\ u.done = disk.done /\ u.drifted = disk.drifted
    <3>1. "error" \in Kind /\ "error" # "result" /\ "error" # "drift"
      BY DEF Kind
    <3> QED
      BY <1>1, <1>4, <3>1, RecordedIs
  <2> HIDE DEF u
  <2>3. /\ g \in State /\ Alike(g, u) /\ Filed(g, u) /\ g.phase = u.phase
        /\ g.checkpoint = u.checkpoint /\ g.pending = u.pending /\ g.tasks = u.tasks
        /\ g.done = u.done /\ g.drifted = u.drifted \ {t}
    BY <2>2, GivenUpIs
  <2> HIDE DEF g
  <2>4. Still(s, g) /\ s.checkpoint = g.checkpoint /\ s.pending = g.pending
    BY <2>3, StatusIs DEF Failed, Status
  <2> HIDE DEF s
  <2>5. /\ s \in State /\ Alike(s, disk) /\ Filed(s, disk) /\ s.phase = disk.phase
        /\ s.checkpoint = disk.checkpoint /\ s.pending = disk.pending /\ s.tasks = disk.tasks
        /\ s.done = disk.done /\ s.drifted \subseteq disk.drifted
    BY <2>2, <2>3, <2>4 DEF Still, Alike, Works, Filed
  <2>6. run' \in Run /\ PlaceInv' /\ LineInv'
    BY <2>1, IdleKnows DEF IInv
  <2> QED
    BY <1>1, <1>2, <1>4, <1>5, <2>1, <2>5, <2>6, KeptStores, WorkStep
       DEF IInv, TypeInv, Always, Data, RangeInv, Filed, How
<1> QED
  BY <1>3, <1>6, <1>7

LEMMA RepairsDoneStep == IInv /\ RepairsDone /\ UNCHANGED lost => IInv'
<1> SUFFICES ASSUME IInv, RepairsDone, UNCHANGED lost PROVE IInv'
  OBVIOUS
<1>1. mem = disk /\ disk \in State /\ run \in Run /\ pc = "repair"
      /\ UNCHANGED <<paid, retries, records>>
  BY MemIs DEF RepairsDone, IInv, TypeInv, store, revision, records
<1>2. Orderly' => Orderly
  BY <1>1, OrderKept DEF records, revision
<1>3. CASE Save(disk) /\ Goto("integrate") /\ UNCHANGED run
  <2>1. disk' = disk /\ mem' = disk /\ pc' = "integrate" /\ ended' = ended /\ run' = run
    BY <1>3 DEF Save, Goto
  <2>2. PlaceInv'
    BY <1>1, <2>1 DEF IInv, Always, PlaceInv, After, Beginning, records, revision
  <2>3. Orderly /\ Ordered => LineInv'
    <3> HAVE Orderly /\ Ordered
    <3>1. disk.report = 0 /\ ~run.reuse
      BY <1>1 DEF Ordered, LineInv
    <3>2. 1 .. 0 = {}
      OBVIOUS
    <3>3. DOMAIN reviews = {} /\ DOMAIN requests = {}
      BY <3>1, <3>2 DEF IInv, Always, Data, AboutInv
    <3>4. disk.externals = 0
      BY <3>3 DEF IInv, Always, Data, ExternalInv, External
    <3>5. Owed = {}
      BY <3>1, NothingOwed DEF IInv
    <3>6. BeforeInv' /\ Owed' \subseteq disk'.done
      <4>1. Owed' = Owed
        BY <1>1, <2>1 DEF Owed, RevisionTasks, Reserved, records, revision
      <4> QED
        BY <1>1, <2>1, <3>1, <3>3, <3>4, <3>5, <4>1 DEF BeforeInv, Unreviewed, records
    <3> QED
      BY <2>1, <3>6 DEF LineInv, Before, After, Beginning
  <2> QED
    BY <1>1, <1>2, <2>1, <2>2, <2>3, SelfQuiet, SaveStep DEF IInv, TypeInv
<1>4. CASE Refuse("incomplete")
  BY <1>1, <1>2, <1>4, RefuseStep DEF How
<1> QED
  BY <1>1, <1>3, <1>4 DEF RepairsDone
-----------------------------------------------------------------------------
(* The invariant.                                                          *)

LEMMA InitInv == Init => IInv
<1> SUFFICES ASSUME Init PROVE IInv
  OBVIOUS
<1> DEFINE ts == TasksOf(0, Agent)
<1>1. /\ disk = NewState /\ mem = disk /\ pc = "gather"
      /\ run = [NoRun EXCEPT !.todo = ts] /\ ended = "none"
      /\ paid = {} /\ repairs = {} /\ repaid = {} /\ reports = <<>> /\ reviews = <<>>
      /\ retries = {} /\ requests = <<>> /\ slots = {} /\ claims = {} /\ results = {}
      /\ answers = {} /\ outbox = NoMail
  <2>1. NewState.tasks = TasksOf(0, Agent)
    BY DEF NewState
  <2> QED
    BY <2>1 DEF Init
<1>2. /\ disk \in State /\ disk.tasks = ts /\ disk.done = {} /\ disk.drifted = {} /\ disk.report = 0
      /\ disk.seen = 0 /\ disk.review = 0 /\ disk.error = 0 /\ disk.saved = {}
      /\ disk.active = 0 /\ disk.request = 0 /\ disk.pending = 0 /\ disk.externals = 0
      /\ disk.count = 0 /\ disk.phase = "idle" /\ disk.decision = "none"
  BY <1>1, NothingRuns DEF NewState
<1>3. ts \subseteq Task /\ \A t \in ts : t.cycle = 0
  BY DEF TasksOf, Task
<1> HIDE DEF ts
<1>4. /\ run \in Run /\ run.todo = ts /\ run.got = {} /\ run.failures = 0 /\ run.then = "integrate"
      /\ ~run.ext /\ ~run.reuse /\ run.call = 0
  BY <1>1, <1>3 DEF NoRun, Run, Then
<1>5. /\ DOMAIN reports = {} /\ DOMAIN reviews = {} /\ DOMAIN requests = {}
      /\ Len(reports) = 0 /\ Len(reviews) = 0 /\ Len(requests) = 0
      /\ reports \in Seq(Report) /\ reviews \in Seq(Review) /\ requests \in Seq(Request)
  BY <1>1
<1>6. IsFiniteSet(slots) /\ Cardinality(slots) = 0
  BY <1>1, FS_EmptySet
<1>7. External = {}
  BY <1>5 DEF External
<1>8. outbox \in Mail /\ outbox.request = 0 /\ outbox.base.seen = 0
  BY <1>1 DEF NoMail, NoBase, Mail, Bases
<1>9. TypeInv
  BY <1>1, <1>2, <1>4, <1>5, <1>6, <1>8 DEF TypeInv, How
<1>10. Data
  <2>1. RangeInv
    BY <1>1, <1>2, <1>3, <1>5, <1>8 DEF RangeInv
  <2>2. AboutInv
    BY <1>1, <1>5, <1>8 DEF AboutInv
  <2>3. WorkInv /\ ExternalInv /\ ClaimsInv
    BY <1>1, <1>2, <1>3, <1>7, <1>8 DEF WorkInv, ExternalInv, ClaimsInv
  <2>4. BudgetInv
    BY <1>6, LimitAssumption DEF BudgetInv
  <2> QED
    BY <2>1, <2>2, <2>3, <2>4 DEF Data
<1>11. CopyInv
  BY <1>1 DEF CopyInv
<1>12. PlaceInv
  BY <1>1, <1>2, <1>3, <1>4, <1>5 DEF PlaceInv, After, Beginning, Authorized, Reserved
<1>13. Order
  <2>1. ReviewsInv /\ CountInv /\ NumbersInv /\ ExecutingInv
    BY <1>1, <1>2, <1>5, <1>6 DEF ReviewsInv, CountInv, NumbersInv, ExecutingInv
  <2>2. DecisionInv
    BY <1>1, <1>2, <1>7 DEF DecisionInv, Open
  <2>3. ReviewedAsShown /\ ResultsInv
    BY <1>1, <1>2, <1>8 DEF ReviewedAsShown, OfItsReport, ResultsInv, ResultsAreTruthful
  <2> QED
    BY <2>1, <2>2, <2>3 DEF Order
<1>14. LineInv
  <2>1. Owed = {}
    BY <1>2 DEF Owed
  <2>2. CollectInv /\ BeforeInv
    BY <1>1, <1>2, <1>4, <1>5, <2>1 DEF CollectInv, BeforeInv, Unreviewed
  <2> QED
    BY <1>1, <2>2 DEF LineInv, Before, After, Beginning
<1> QED
  BY <1>9, <1>10, <1>11, <1>12, <1>13, <1>14 DEF IInv, Always, Ordered

LEMMA StutterInv == IInv /\ UNCHANGED vars => IInv'
<1> SUFFICES ASSUME IInv, UNCHANGED vars PROVE IInv'
  OBVIOUS
<1>1. UNCHANGED <<disk, mem, pc, run, ended, paid, repairs, repaid, reports, reviews, retries,
                  requests, slots, claims, results, answers, outbox, lost>>
  BY DEF vars, store, revision
<1>2. TypeInv'
  BY <1>1 DEF IInv, TypeInv
<1>3. Data'
  BY <1>1 DEF IInv, Always, Data, RangeInv, AboutInv, WorkInv, ExternalInv, External, ClaimsInv,
     BudgetInv
<1>4. CopyInv' /\ PlaceInv'
  BY <1>1 DEF IInv, Always, CopyInv, PlaceInv, Authorized, Reserved, External, Slot
<1>5. Orderly /\ Ordered => Ordered'
  <2> HAVE Orderly /\ Ordered
  <2>1. ReviewsInv' /\ CountInv' /\ NumbersInv' /\ ExecutingInv' /\ DecisionInv'
    BY <1>1 DEF Ordered, Order, ReviewsInv, CountInv, NumbersInv, ExecutingInv, DecisionInv,
       RevisionTasks, Reserved, Built, Open, Waits, VerdictOf, External
  <2>2. ReviewedAsShown' /\ ResultsInv'
    BY <1>1 DEF Ordered, Order, ReviewedAsShown, OfItsReport, ResultsInv, ResultsAreTruthful,
       RevisionTasks, Reserved, Built, Orderly, External
  <2>3. LineInv'
    BY <1>1 DEF Ordered, LineInv, CollectInv, BeforeInv, AfterInv, Owed, Unreviewed, Built,
       RevisionTasks, Reserved, VerdictOf, Slot, External
  <2> QED
    BY <2>1, <2>2, <2>3 DEF Ordered, Order
<1> QED
  BY <1>1, <1>2, <1>3, <1>4, <1>5, OrderKept DEF IInv, Always

LEMMA StepInv == IInv /\ Step /\ UNCHANGED lost => IInv'
BY GatherStep, RecordStep, CollectedStep, IntegrateStep, BuildStep, ReuseStep, AskReviewStep,
   AnswerReviewStep, HearStep, AssessStep, EmbedStep, RouteStep, RefusedStep, PrepareGateStep,
   ConsumeResultStep, ResultUnusableStep, ResumeAnsweredStep, ResumeNewStep, PlanTasksStep,
   ResumeOldStep, ExternalTasksStep, BeginRevisionStep, ConsumeStep, ExecutingStep,
   RepairTaskStep, RepairedStep, RepairsDoneStep
   DEF Step

\* Every step of the Manager, of the Producer and of Deliberation, and a crash
\* anywhere, keeps the invariant.
THEOREM StepKeepsInv == IInv /\ [Next]_vars => IInv'
<1> SUFFICES ASSUME IInv, [Next]_vars PROVE IInv'
  OBVIOUS
<1>1. CASE Step /\ UNCHANGED lost
  BY <1>1, StepInv
<1>2. CASE /\ \/ Decide \/ RecoverGate \/ Resume \/ ProviderRetry
              \/ Execute \/ ExecuteRefused \/ RuntimeRepair \/ RunTask
              \/ ProducerAnswers \/ DeliberationAsks
           /\ UNCHANGED lost
  BY <1>2, DecideStep, RecoverGateStep, ResumeStep, ProviderRetryStep, ExecuteStep,
     ExecuteRefusedStep, RuntimeRepairStep, RunTaskStep, ProducerAnswersStep,
     DeliberationAsksStep
<1>3. CASE Crash
  BY <1>3, CrashStep
<1>4. CASE UNCHANGED vars
  BY <1>4, StutterInv
<1> QED
  BY <1>1, <1>2, <1>3, <1>4 DEF Next

\* What every state of the Researcher keeps: types and the place of the command
\* always, and in an orderly workflow that the numbers of a review are those of one
\* report (_quality_review_task_id, _saved_quality_review_exchange).
THEOREM ResearcherInvariant == Spec => []IInv
<1>1. Init => IInv
  BY InitInv
<1>2. IInv /\ [Next]_vars => IInv'
  BY StepKeepsInv
<1> QED
  BY <1>1, <1>2, PTL DEF Spec

-----------------------------------------------------------------------------
(* Theorems.                                                               *)

\* The saved state and the copy of the running command are well formed, what is
\* done was planned, no call is repaired without an authorization, and the
\* budget of revisions is kept.
THEOREM TypeCorrect == Spec => []TypeOK
<1>1. IInv => TypeOK
  <2> SUFFICES ASSUME IInv PROVE TypeOK
    OBVIOUS
  <2>1. disk \in State /\ mem \in State /\ Still(mem, disk) /\ mem.pending = disk.pending
    BY CopyIs DEF IInv, TypeInv
  <2>2. \A t \in disk.tasks : IsTask(t)
    <3> SUFFICES ASSUME NEW t \in disk.tasks PROVE IsTask(t)
      OBVIOUS
    <3>1. t.cycle \in Nat /\ t.agent \in Agent
      BY <2>1 DEF State, Task
    <3>2. t.cycle <= Len(requests) /\ Len(requests) \in Nat
      BY DEF IInv, TypeInv, Always, Data, RangeInv
    <3> QED
      BY <3>1, <3>2 DEF IsTask
  <2>3. disk.done \subseteq disk.tasks /\ paid \union repairs \subseteq disk.tasks
        /\ repaid \subseteq repairs
    BY KeptStores
  <2>4. /\ disk.report \in 0 .. Len(reports)
        /\ {disk.seen, disk.review, disk.error} \subseteq 0 .. Len(reviews)
        /\ disk.saved \subseteq DOMAIN reviews
    <3>1. {disk.report, disk.seen, disk.review, disk.error} \subseteq Nat
      BY <2>1 DEF State
    <3>2. /\ disk.report = Len(reports) /\ disk.saved \subseteq DOMAIN reviews
          /\ disk.seen <= Len(reviews) /\ disk.review <= Len(reviews)
          /\ disk.error <= Len(reviews) /\ Len(reviews) \in Nat
      BY DEF IInv, TypeInv, Always, Data, RangeInv
    <3> QED
      BY <3>1, <3>2
  <2>5. {disk.active, disk.request, disk.pending, outbox.request} \subseteq 0 .. Len(requests)
    <3>1. /\ disk.active <= Len(requests) /\ disk.request <= Len(requests)
          /\ disk.pending <= Len(requests) /\ outbox.request <= Len(requests)
          /\ Len(requests) \in Nat
      BY DEF IInv, TypeInv, Always, Data, RangeInv
    <3> QED
      BY <3>1, NumbersAre
  <2>6. \A s \in {disk, mem} :
          /\ s.status \in Status /\ s.phase \in Phase /\ s.checkpoint \in Checkpoint
          /\ \A t \in s.tasks : IsTask(t)
          /\ s.done \subseteq s.tasks /\ s.failed \subseteq Agent
          /\ s.report \in 0 .. Len(reports)
          /\ {s.seen, s.review, s.error} \subseteq 0 .. Len(reviews)
          /\ s.saved \subseteq DOMAIN reviews
          /\ {s.active, s.request, s.pending} \subseteq 0 .. Len(requests)
    <3>1. \A s \in {disk, mem} :
            /\ s.status \in Status /\ s.phase \in Phase /\ s.checkpoint \in Checkpoint
            /\ s.failed \subseteq Agent
      BY <2>1 DEF State
    <3> QED
      BY <2>1, <2>2, <2>3, <2>4, <2>5, <3>1 DEF Still, Alike, Works, Filed
  <2>7. slots \union {c.request : c \in claims} \subseteq DOMAIN requests /\ Cardinality(slots) <= MaxRevisions
        /\ ended \in How
    BY DEF IInv, TypeInv, Always, Data, BudgetInv
  <2> QED
    BY <2>2, <2>3, <2>5, <2>6, <2>7 DEF TypeOK, How
<1> QED
  BY <1>1, ResearcherInvariant, PTL

\* In an orderly workflow a human is shown a review of the very report in the
\* state, and Deliberation gets with a report the review of that report.
THEOREM ReviewsAreOfTheirReport == Spec => []ReviewedAsShown
<1>1. IInv => ReviewedAsShown
  BY DEF IInv, Ordered, Order, ReviewedAsShown
<1> QED
  BY <1>1, ResearcherInvariant, PTL

\* In an orderly workflow a result of a revision is about a report that rests on
\* all its tasks, says what the review of that report said, and is the only one.
THEOREM ResultsHold == Spec => []ResultsAreTruthful
<1>1. IInv => ResultsAreTruthful
  BY DEF IInv, Ordered, Order, ResultsInv, ResultsAreTruthful
<1> QED
  BY <1>1, ResearcherInvariant, PTL

\* Tasks are paid for, and repairs, in one step each.
LEMMA PaidBy ==
  [Next]_vars => (Gather \/ UNCHANGED paid) /\ (Repaired \/ UNCHANGED repaid)
<1> SUFFICES ASSUME [Next]_vars
             PROVE  (Gather \/ UNCHANGED paid) /\ (Repaired \/ UNCHANGED repaid)
  OBVIOUS
<1>1. CASE Step
  BY <1>1 DEF Step, store, Gather, Record, Collected, Integrate, Build, Reuse, AskReview,
     AnswerReview,
     Hear, Assess, Embed, Route, RouteRefused, PrepareGate, ConsumeResult, ResultUnusable,
     ResumeRefused, ResumeStale, ResumeAnswered, ResumeNew, PlanTasks, ResumeOld, ExternalTasks,
     BeginRevision, Consume, Executing, RepairTask, Repaired, RepairsDone
<1>2. CASE \/ Decide \/ RecoverGate \/ Resume \/ ProviderRetry
           \/ Execute \/ ExecuteRefused \/ RuntimeRepair \/ RunTask
           \/ ProducerAnswers \/ DeliberationAsks \/ Crash
  BY <1>2 DEF store, Decide, RecoverGate, Resume, ProviderRetry, Execute, ExecuteRefused,
     RuntimeRepair, RunTask, ProducerAnswers, DeliberationAsks, Crash
<1>3. CASE UNCHANGED vars
  BY <1>3 DEF vars, store
<1> QED
  BY <1>1, <1>2, <1>3 DEF Next

\* A task of a revision is paid for by the commands that dispatch tasks only once its
\* budget slot is taken and an authorization that reserves this very call is consumed.
THEOREM CallsAreAuthorized == Spec => RevisionCallsAreAuthorized
<1> DEFINE A == run.then # "task" => \A t \in paid' \ paid : Authorized(t)
<1>1. IInv /\ [Next]_vars => [A]_vars
  <2> SUFFICES ASSUME IInv, [Next]_vars PROVE A
    OBVIOUS
  <2>1. CASE Gather
    <3>1. paid' \ paid \subseteq run.todo /\ pc = "gather"
      BY <2>1 DEF Gather
    <3> QED
      BY <3>1 DEF IInv, Always, PlaceInv
  <2>2. CASE UNCHANGED paid
    BY <2>2
  <2> QED
    BY <2>1, <2>2, PaidBy
<1> QED
  BY <1>1, ResearcherInvariant, PTL DEF Spec, RevisionCallsAreAuthorized

\* A task with a result is never paid for again, neither as a task nor as a repair,
\* whatever failed, stopped or was asked for again.
THEOREM WorkIsReused == Spec => CompletedWorkIsReused
<1> DEFINE A == /\ (paid' \ paid) \intersect disk.done = {}
                /\ (repaid' \ repaid) \intersect disk.done = {}
<1>1. IInv /\ [Next]_vars => [A]_vars
  <2> SUFFICES ASSUME IInv, [Next]_vars PROVE A
    OBVIOUS
  <2>1. disk.done \subseteq paid
    BY KeptStores
  <2>2. CASE Repaired
    <3>1. repaid' \ repaid \subseteq run.todo /\ pc = "repairing"
      BY <2>2 DEF Repaired
    <3>2. run.todo \intersect disk.done = {}
      BY <3>1 DEF IInv, Always, PlaceInv
    <3> QED
      BY <2>1, <3>1, <3>2
  <2>3. CASE UNCHANGED repaid
    BY <2>1, <2>3
  <2> QED
    BY <2>2, <2>3, PaidBy
<1> QED
  BY <1>1, ResearcherInvariant, PTL DEF Spec, CompletedWorkIsReused
=============================================================================
