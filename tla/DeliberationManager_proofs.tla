------------------- MODULE DeliberationManager_proofs -------------------
(***************************************************************************)
(* What every state of DeliberationManager keeps, for any analysts, any    *)
(* limit and any number of requests, commands and failures.                *)
(*                                                                         *)
(* Two invariants, one on the other.  The first holds in every state: a    *)
(* review is about the artifacts beside it unless it refuses them or a     *)
(* revision has given it up.  The second holds as long as each revision    *)
(* has a number of its own: each integration was made from what lies       *)
(* beside it unless a revision has given it up.                            *)
(***************************************************************************)
EXTENDS DeliberationManager, TLAPS, WellFoundedInduction, FiniteSetTheorems

-----------------------------------------------------------------------------
(* Types.                                                                    *)

Legal == Primary \union {Manager, Counter}

\* The id of an artifact.
Plain == [agent : Primary \union Stage \union {"none"}, rev : Nat, mark : Nat,
          retry : BOOLEAN, of : {<<>>}]

Revised == [iteration : Nat, targets : SUBSET Legal]

Contents == [Primary -> Plain] \X Plain \X Plain \X Plain

About == Contents \X SUBSET Revised

\* Any id: a review's may carry what it is about.
TaskId == [agent : Primary \union Stage \union {"none"}, rev : Nat, mark : Nat,
         retry : BOOLEAN, of : {<<>>} \union About]

Pair == Plain \X TaskId

Request == [route : {"none", "internal", "upstream", "conclusion"}, epoch : Nat,
            review : TaskId, targets : SUBSET Legal, final : Plain, report : Nat,
            result : Pair]

State == [status : Status, report : Nat, analyses : [Primary -> Plain],
          failed : SUBSET Primary, initial : Plain, counter : Plain, final : Plain,
          review : TaskId, result : Pair, at : [Primary \union Stage -> Nat],
          asked : SUBSET Plain, shown : SUBSET [id : TaskId, about : About],
          heard : SUBSET TaskId, faults : Seq(Plain), primaryError : Plain,
          reviewError : TaskId, count : Nat, history : SUBSET Revised, phase : Phase,
          epoch : Nat, active : Request, consumed : SUBSET Request, plan : TaskId,
          planned : SUBSET Legal, awaiting : BOOLEAN, handoff : Nat]

Kind == {"result", "retryable", "error"}

Run == [todo : SUBSET Plain, got : SUBSET (Plain \X Kind), failures : Int,
        then : {"start", "revise", "recover", "decide"}, first : 1 .. 5,
        recovery : {0, 1}, reuse : BOOLEAN, again : BOOLEAN, id : TaskId]

Integration == [id : Plain, on : SUBSET Plain, report : Nat]

Judgement == [id : TaskId, about : About, report : Nat, verdict : Verdict,
              targets : SUBSET Legal]

Answered == [request : Request, status : {"completed", "partial"}, result : Pair]

TypeInv ==
  /\ disk \in State
  /\ mem \in State
  /\ run \in Run
  /\ paid \subseteq TaskId
  /\ retries \subseteq TaskId
  /\ made \subseteq Integration
  /\ reviews \subseteq Judgement
  /\ requests \subseteq Request /\ IsFiniteSet(requests)
  /\ slots \in Seq(Request)
  /\ spent \subseteq Request
  /\ adopted \subseteq Request
  /\ results \subseteq Answered
  /\ reused \in BOOLEAN
  /\ inbox \in [number : Nat, request : Request, kind : {"completed", "limited", "incomplete"}]
  /\ outbox \in [result : Pair, about : {<<>>} \union Contents, report : Nat]

-----------------------------------------------------------------------------
(* A state of the workflow, beside the ids ps that are paid, the verdicts vs *)
(* and the results rs.                                                       *)

Refused(id, vs) == \E v \in vs : v.id = id /\ v.verdict # "approved"

Approves(id, vs) == \E v \in vs : v.id = id /\ v.verdict = "approved"

\* A revision has given the checkpoint up.
GivenUp(s, stage) ==
  \E h \in s.history : stage \in StagesOf(h.targets) /\ s.at[stage] < h.iteration

\* No later task is asked of the analyst.
Latest(s, id) == \A a \in s.asked : a.agent = id.agent /\ a # id => Later(id, a)

\* The analysis is replaced by one that is asked for.
Open(s, p) ==
  /\ s.analyses[p] # NoId
  /\ \E a \in s.asked : a.agent = p /\ a # s.analyses[p] /\ Later(a, s.analyses[p])

AllClosed(s) == \A p \in Primary : ~Open(s, p)

\* A task that may be asked: of an analyst, of a revision that has begun, fresh tasks
\* only before the first, and a retry only of one that is paid.
Askable(s, a, ps) ==
  /\ a.agent \in Primary
  /\ a.rev <= s.count
  /\ a.rev > 0 => a.mark = 0
  /\ a.retry => Original(a) \in ps

AskedOK(s, ps) ==
  /\ \A p \in Primary : s.analyses[p] # NoId =>
       s.analyses[p] \in s.asked /\ s.analyses[p].agent = p
  /\ \A a \in s.asked : Askable(s, a, ps)
  /\ \A p \in Primary :
       (\E a \in s.asked : a.agent = p) =>
          \E a \in s.asked : a.agent = p /\ Latest(s, a)

CountOK(s) ==
  /\ \A x \in Primary \union Stage : s.at[x] <= s.count
  /\ \A h \in s.history : h.iteration <= s.count

ErrorsOK(s, ps) ==
  /\ \A i \in DOMAIN s.faults : s.faults[i] \in ps
  /\ s.primaryError \in ps \union {NoId}
  /\ s.reviewError \in ps \union {NoId}

\* The review says nothing in favour of what lies beside it.
Rework(s, vs) ==
  s.review = NoId \/ Refused(s.review, vs) \/ GivenUp(s, "review")

\* The review is about what lies beside it, if it approves.
Fair(s, vs) ==
  \E v \in vs : v.id = s.review /\ (v.verdict = "approved" => v.about[1] = Artifacts(s))

Synced(s, vs) == s.review = NoId \/ GivenUp(s, "review") \/ Fair(s, vs)

\* The revision is executing and nothing is approved or filed for it.
Busy(s, rs) ==
  /\ s.phase = "executing"
  /\ \/ s.active.route = "internal" /\ s.result[2] = NoId
     \/ s.active.route = "conclusion" /\ \A x \in rs : x.request # s.active

Reworked(s, vs, rs) ==
  /\ Busy(s, rs)
  /\ Rework(s, vs)
  /\ s.active.route = "conclusion" => GivenUp(s, "review")

\* Only a revision that names the analyst replaces an analysis.
OpenOK(s, vs, rs) ==
  \A p \in Primary : Open(s, p) => p \in s.active.targets /\ Reworked(s, vs, rs)

\* An approved result is that of the review, until the artifacts are cleared.
ResultOK(s, vs) ==
  s.result[2] # NoId =>
    Approves(s.result[2], vs) /\ (s.review = s.result[2] \/ s.final = NoId)

\* The evidence is asked for by a review.
WaitingOK(s, vs) ==
  s.status = "WAITING_UPSTREAM_REVISION" =>
    /\ s.phase = "waiting_upstream_result" /\ s.active.route = "upstream"
    /\ s.final # NoId /\ Refused(s.review, vs)

Good(s, ps, vs, rs) ==
  /\ AskedOK(s, ps)
  /\ CountOK(s)
  /\ ErrorsOK(s, ps)
  /\ Synced(s, vs)
  /\ OpenOK(s, vs, rs)
  /\ ResultOK(s, vs)
  /\ WaitingOK(s, vs)

PlanOf(s) == s.phase = "authorization_required"

\* What a revision is about: a review that refused, or what Conclusion asked for and
\* nothing was filed for.
PlanOK(s, vs, ads, rs) ==
  /\ s.phase \in {"authorization_required", "executing"} =>
       s.active.route \in {"internal", "conclusion"} /\ s.active.targets # {}
  /\ PlanOf(s) /\ s.active.route = "internal" =>
       Refused(s.plan, vs) /\ Refused(s.active.review, vs) /\ s.active.final # NoId
  /\ s.phase \in {"authorization_required", "executing"} /\ s.active.route = "conclusion" =>
       s.active \in ads
  /\ PlanOf(s) /\ s.active.route = "conclusion" => \A x \in rs : x.request # s.active

-----------------------------------------------------------------------------
(* What there is beside the state.                                           *)

StatesInv ==
  /\ Good(disk, paid, reviews, results)
  /\ Good(mem, paid, reviews, results)
  /\ PlanOK(disk, reviews, adopted, results)
  /\ pc # "waiting" => PlanOK(mem, reviews, adopted, results)

\* A logical task is paid for once: its id names one verdict.
PaidInv ==
  /\ \A id \in paid : id.agent # "none"
  /\ retries \subseteq paid
  /\ \A v \in reviews : v.id \in paid /\ \A w \in reviews : w.id = v.id => w = v
  /\ \A v \in reviews : v.verdict = "internal" => v.targets # {}

Unanswered == {r \in Asked : \A x \in results : x.request # r}

\* An internal request has a review behind it, one of Conclusion a result; Conclusion
\* asks again when it was answered, and only what was adopted is.
FilesInv ==
  /\ \A r \in requests : r.route \in {"internal", "conclusion"} => r.targets # {}
  /\ \A r \in requests : r.route = "internal" => Refused(r.review, reviews) /\ r.final # NoId
  /\ \A r \in Asked : r.result[2] # NoId
  /\ adopted \subseteq requests
  /\ \A r \in adopted : r.route = "conclusion"
  /\ \A x \in results : x.request.route = "conclusion" => x.request \in adopted
  /\ \A q, r \in Unanswered : q = r
  /\ ResultsAreTruthful
  /\ HandoffWasApproved

-----------------------------------------------------------------------------
(* What a command knows where it is.                                         *)

Asking == {"dispatch", "gather", "record"}

Making == {"initial", "initial_made", "counter", "counter_made", "final", "final_made"}

Judging == {"review", "ask", "reviewed"}

\* The tasks that are asked: one of each analyst, the latest or one that is paid; an
\* analysis they replace is replaced in a revision.
AskingOK ==
  /\ \A a \in run.todo : Askable(mem, a, paid) /\ (a \in paid \/ Latest(mem, a) \/ pc = "record")
  /\ \A a, b \in run.todo : a.agent = b.agent => a = b
  /\ run.then \in {"start", "revise", "recover"}
  /\ run.then # "recover" => run.first <= 2
  /\ run.then = "revise" =>
       /\ Reworked(mem, reviews, results)
       /\ \A a \in run.todo : a.agent \in mem.active.targets
       /\ \A p \in Primary : Open(mem, p) => \E a \in run.todo : a.agent = p
  /\ run.then # "revise" =>
       /\ AllClosed(mem)
       /\ mem.review = NoId
       /\ pc # "record" => \A a \in run.todo : mem.analyses[a.agent] = NoId
  /\ pc = "gather" => run.todo \subseteq mem.asked

\* The answers: of the latest tasks, and once all are recorded without a failure
\* nothing is left to be replaced.
RecordOK ==
  /\ \A x \in run.got : x[1] \in run.todo /\ x[1] \in paid /\ x[1] \in mem.asked
  /\ \A x \in run.got : x[2] = "result" => Latest(mem, x[1])
  /\ \A x, y \in run.got : x[1] = y[1] => x = y
  /\ run.failures \in Nat
  /\ run.then # "revise" => \A x \in run.got : mem.analyses[x[1].agent] = NoId
  /\ run.failures = 0 =>
       \A a \in run.todo : ~Open(mem, a.agent) \/ \E x \in run.got : x[1] = a

\* What is planned is authorized as it was saved.
AuthorizedOK ==
  /\ mem.phase = "executing" /\ mem.count > 0
  /\ AllClosed(mem)
  /\ mem.active.route = "internal" =>
       /\ Refused(mem.plan, reviews) /\ Refused(mem.active.review, reviews)
       /\ mem.final = mem.active.final /\ mem.final # NoId
  /\ mem.active.route = "conclusion" =>
       /\ \A x \in results : x.request # mem.active
       /\ \A x \in Primary \union Stage : mem.at[x] < mem.count
       /\ \A h \in mem.history : h.iteration < mem.count

\* The verdict that was brought is about the artifacts.
Brought == \E v \in reviews : v.id = run.id /\ v.about = Identity(mem)

CommandInv ==
  /\ pc \notin {"idle", "recover", "adopt"} => mem.status # "WAITING_UPSTREAM_REVISION"
  /\ pc \in {"idle", "authorize", "adopt", "recover", "primaries"} => mem = disk
  /\ \A p \in Primary : disk.analyses[p] \notin {NoId, mem.analyses[p]} =>
       disk.phase = "executing" /\ p \in disk.active.targets
  /\ mem.phase = "executing" /\ pc # "executing" =>
       disk.phase = "executing" /\ disk.active = mem.active
  /\ pc \in Asking => AskingOK
  /\ pc = "record" => RecordOK
  /\ pc = "primaries" => run.then = "recover"
  /\ pc = "checkpoints" => mem.at = disk.at /\ mem.history = disk.history
  /\ pc \in Making \union Judging \union {"decide", "checkpoints"} => AllClosed(mem)
  /\ pc \in Making /\ run.first <= 3 => Rework(mem, reviews)
  /\ pc \in Making /\ run.first > 3 => mem.final # NoId /\ mem.result[2] = NoId
  /\ pc \in {"initial_made", "counter_made"} => run.first <= 2
  /\ pc = "final_made" => run.first <= 3
  /\ pc \in {"initial_made", "counter_made", "final_made"} =>
       run.id \in Plain /\ run.id # NoId
  /\ pc \in Judging => mem.final # NoId /\ mem.result[2] = NoId
  /\ pc = "ask" => run.id.agent # "none"
  /\ pc = "reviewed" => Brought
  /\ pc = "decide" => mem.final # NoId /\ mem.review # NoId /\ Fair(mem, reviews)
  /\ pc = "decide" /\ mem.phase = "executing" /\ mem.active.route = "conclusion" =>
       AllClosed(disk)
  /\ pc = "send" => Artifacts(mem)[4] = mem.result[1] /\
       \E v \in reviews : /\ v.id = mem.result[2] /\ v.verdict = "approved"
                          /\ v.about[1] = Artifacts(mem)
  /\ pc = "waiting" =>
       /\ mem.final # NoId /\ Refused(mem.review, reviews) /\ AllClosed(mem)
       /\ mem.active.route = "upstream"
  /\ pc \in {"adopted", "authorize"} => PlanOf(mem)
  /\ pc \in {"executing", "begin"} => AuthorizedOK

\* The first inductive invariant.
IInv == TypeInv /\ StatesInv /\ PaidInv /\ FilesInv /\ CommandInv

-----------------------------------------------------------------------------
(* What was made from what, as long as each revision has a number of its own. *)

\* What stands for an artifact was made from these.
MadeOn(id, on, ms) == \A m \in ms : m.id = id => m.on = on

Named(s) == {s.initial, s.counter, s.final}

NamedOK(s, ps) == Named(s) \subseteq ps \union {NoId} /\ s.heard \subseteq ps

\* An artifact is made once, by a call that is paid, and so is all that is named.
MadeInv ==
  /\ \A m \in made : m.id \in paid
  /\ \A m, n \in made : m.id = n.id => m = n
  /\ NamedOK(disk, paid)
  /\ NamedOK(mem, paid)
  /\ pc \in {"initial_made", "counter_made", "final_made"} => run.id \in paid
  /\ Handed => {outbox.about[2], outbox.about[4]} \subseteq paid \union {NoId}

InitialFits(s, ms) == MadeOn(s.initial, Analysed(s), ms)

FinalFits(s, ms) == MadeOn(s.final, {s.initial, s.counter}, ms)

Whole(s, ms) == InitialFits(s, ms) /\ FinalFits(s, ms)

\* The checkpoint counts for nothing.
Void(s, stage) == s[stage] = NoId \/ GivenUp(s, stage)

\* What does not fit is given up, and a revision is busy with it.
Fitting(s, ms, rs) ==
  /\ Void(s, "initial") \/ InitialFits(s, ms)
  /\ Void(s, "final") \/ FinalFits(s, ms)
  /\ ~AllClosed(s) => Void(s, "initial")
  /\ Busy(s, rs) \/ Whole(s, ms)

\* A revision that has begun has given up what it makes again, each stage that is
\* made fits, and recovery keeps the stages before the first it makes again.
WayOK ==
  /\ pc \in Asking /\ run.then = "revise" =>
       GivenUp(mem, "initial") /\ GivenUp(mem, "final") /\ run.first = 1
  /\ pc \in Asking /\ run.then # "revise" => mem.initial = NoId /\ mem.final = NoId
  /\ pc = "checkpoints" =>
       /\ mem.initial = disk.initial /\ mem.counter = disk.counter /\ mem.final = disk.final
       /\ AllClosed(disk) => mem.analyses = disk.analyses
  /\ pc \in Making /\ run.first <= 3 =>
       mem.final = NoId \/ (GivenUp(mem, "final") /\ Busy(mem, results))
  /\ pc \in {"initial", "initial_made"} /\ run.first <= 1 => Void(mem, "initial")
  /\ pc \in Making \ {"initial", "initial_made"} => InitialFits(mem, made)
  /\ pc = "initial" /\ run.first > 1 => InitialFits(mem, made)
  /\ pc = "initial_made" => MadeOn(run.id, Analysed(mem), made)
  /\ pc = "final_made" => MadeOn(run.id, {mem.initial, mem.counter}, made)
  /\ pc \in Making /\ run.first > 3 => Whole(mem, made)
  /\ pc \in Judging \union {"decide", "send", "waiting"} => Whole(mem, made)
  /\ pc = "decide" /\ mem.phase = "executing" => Artifacts(disk) = Artifacts(mem)
  /\ pc \in {"executing", "begin"} =>
       /\ Whole(mem, made)
       /\ \A x \in Primary \union Stage : mem.at[x] < mem.count
       /\ \A h \in mem.history : h.iteration < mem.count

FitInv ==
  /\ Fitting(disk, made, results)
  /\ Fitting(mem, made, results)
  /\ WayOK
  /\ Handed => Fits

\* The second inductive invariant, on the first.
NumberedInv == MadeInv /\ (~reused => FitInv)

-----------------------------------------------------------------------------
(* Ids, tasks and what stands for nothing.                                   *)

\* The analysts, the stages and the name of nobody are different names.
LEMMA NamesDiffer ==
  /\ Primary \intersect Stage = {}
  /\ "none" \notin Primary \union Stage
  /\ Manager \notin Primary /\ Counter \notin Primary /\ Manager # Counter
BY NamesAssumption DEF Stage, Manager, Counter

\* The id of an artifact is an id.
LEMMA PlainIsTask == Plain \subseteq TaskId
BY DEF Plain, TaskId

\* Ids that agree in agent, revision, mark and retry are one.
LEMMA PlainsAgree ==
  ASSUME NEW a \in Plain, NEW b \in Plain,
         a.agent = b.agent, a.rev = b.rev, a.mark = b.mark, a.retry = b.retry
  PROVE  a = b
BY DEF Plain

\* An id of this agent and revision.
LEMMA IdTyped ==
  ASSUME NEW agent \in Primary \union Stage \union {"none"}, NEW rev \in Nat, NEW mark \in Nat
  PROVE  /\ Id(agent, rev, mark) \in Plain
         /\ Id(agent, rev, mark).agent = agent /\ Id(agent, rev, mark).rev = rev
         /\ Id(agent, rev, mark).mark = mark /\ Id(agent, rev, mark).retry = FALSE
BY DEF Id, Plain

\* An id of a primary's first work.
LEMMA IdOfPrimary ==
  ASSUME NEW p \in Primary, NEW mark \in Nat
  PROVE  Id(p, 0, mark) \in Plain /\ Id(p, 0, mark).agent = p
BY DEF Id, Plain

\* What stands for nothing has the type of what it stands for.
LEMMA NothingTyped ==
  /\ NoId \in Plain /\ NoId \in TaskId /\ NoId.agent = "none"
  /\ <<NoId, NoId>> \in Pair
  /\ NoRequest \in Request
  /\ NoRun \in Run
<1>1. NoId \in Plain /\ NoId.agent = "none"
  BY DEF NoId, Id, Plain
<1>2. NoId \in TaskId
  BY <1>1, PlainIsTask
<1>3. <<NoId, NoId>> \in Pair
  BY <1>1, <1>2 DEF Pair
<1>4. NoRequest \in Request
  BY <1>1, <1>2, <1>3 DEF NoRequest, Request
<1>5. NoRun \in Run
  BY <1>2 DEF NoRun, Run
<1> QED
  BY <1>1, <1>2, <1>3, <1>4, <1>5

\* A retry is the same task, and its original is the task.
LEMMA RetryIs ==
  ASSUME NEW id \in TaskId
  PROVE  /\ RetryOf(id) \in TaskId /\ Original(id) \in TaskId
         /\ RetryOf(id).agent = id.agent /\ Original(id).agent = id.agent
         /\ RetryOf(id).rev = id.rev /\ RetryOf(id).mark = id.mark /\ RetryOf(id).retry
         /\ id \in Plain => RetryOf(id) \in Plain /\ Original(id) \in Plain
         /\ id \in Plain => Original(RetryOf(id)) = Original(id)
<1>1. RetryOf(id) \in TaskId /\ Original(id) \in TaskId
  BY Zenon DEF RetryOf, Original, TaskId
<1>2. /\ RetryOf(id).agent = id.agent /\ Original(id).agent = id.agent
      /\ RetryOf(id).rev = id.rev /\ RetryOf(id).mark = id.mark /\ RetryOf(id).retry
  BY DEF RetryOf, Original, TaskId
<1>3. id \in Plain => RetryOf(id) \in Plain /\ Original(id) \in Plain
  BY Zenon DEF RetryOf, Original, Plain
<1>4. ASSUME id \in Plain
      PROVE  Original(RetryOf(id)) = Original(id)
  <2>1. Original(RetryOf(id)) \in Plain
    BY <1>3, <1>4, Zenon DEF Original, Plain
  <2>2. /\ Original(RetryOf(id)).agent = Original(id).agent
        /\ Original(RetryOf(id)).rev = Original(id).rev
        /\ Original(RetryOf(id)).mark = Original(id).mark
        /\ Original(RetryOf(id)).retry = Original(id).retry
    BY <1>4 DEF RetryOf, Original, Plain
  <2> QED
    BY <1>3, <1>4, <2>1, <2>2, PlainsAgree
<1> QED
  BY <1>1, <1>2, <1>3, <1>4

\* Of two tasks of one analyst one is the later.
LEMMA LaterIs ==
  ASSUME NEW a \in Plain, NEW b \in Plain, a.agent = b.agent, a # b
  PROVE  /\ Later(a, b) \/ Later(b, a)
         /\ ~(Later(a, b) /\ Later(b, a))
<1>1. ~(a.rev = b.rev /\ a.mark = b.mark /\ a.retry = b.retry)
  BY PlainsAgree
<1>2. /\ a.rev \in Nat /\ b.rev \in Nat /\ a.mark \in Nat /\ b.mark \in Nat
      /\ a.retry \in BOOLEAN /\ b.retry \in BOOLEAN
  BY DEF Plain
<1> QED
  BY <1>1, <1>2 DEF Later

\* What is later than a later task is later.
LEMMA LaterAdds ==
  ASSUME NEW a \in Plain, NEW b \in Plain, NEW c \in Plain,
         Later(a, b), Later(b, c)
  PROVE  Later(a, c)
BY DEF Later, Plain
\* A set of numbers with a bound has a largest one.
LEMMA LargestIs ==
  ASSUME NEW n \in Nat, NEW S, S \subseteq 0 .. n, S # {}
  PROVE  \E i \in S : \A j \in S : j <= i
<1> DEFINE T == {n - i : i \in S}
<1>1. T \subseteq Nat /\ T # {}
  <2>1. \A i \in S : i \in 0 .. n /\ n - i \in Nat
    OBVIOUS
  <2>2. PICK i \in S : TRUE
    OBVIOUS
  <2>3. n - i \in T
    OBVIOUS
  <2> QED
    BY <2>1, <2>3
<1>2. PICK x \in T : \A y \in T : ~ (<<y, x>> \in OpToRel(<, Nat))
  <2> HIDE DEF T
  <2> QED
    BY <1>1, NatLessThanWellFounded, WFMin
<1>3. \A y \in T : ~ (y < x)
  BY <1>1, <1>2 DEF OpToRel
<1>4. PICK i \in S : x = n - i
  BY <1>2
<1>5. \A j \in S : j <= i
  BY <1>3, <1>4
<1> QED
  BY <1>5

\* The failure recover() goes by is one that was paid for, or there is none.
LEMMA FaultIs ==
  ASSUME NEW s \in State, NEW ps, ErrorsOK(s, ps)
  PROVE  CurrentFault(s) \in Plain /\ CurrentFault(s) \in ps \union {NoId}
<1> DEFINE open == {i \in DOMAIN s.faults : Faulty(s, s.faults[i].agent)}
<1>1. s.faults \in Seq(Plain)
  BY DEF State
<1>2. CASE open = {}
  BY <1>2, NothingTyped DEF CurrentFault
<1>3. CASE open # {}
  <2>1. open \subseteq 0 .. Len(s.faults)
    BY <1>1
  <2>2. \E i \in open : \A j \in open : j <= i
    <3>1. Len(s.faults) \in Nat
      BY <1>1
    <3> HIDE DEF open
    <3> QED
      BY <1>3, <2>1, <3>1, LargestIs
  <2>3. PICK i \in open : CurrentFault(s) = s.faults[i]
    BY <1>3, <2>2 DEF CurrentFault
  <2> QED
    BY <1>1, <2>3 DEF ErrorsOK
<1> QED
  BY <1>2, <1>3

\* The reviewer's failure, if it has one.
LEMMA ReviewErrorIs ==
  ASSUME NEW s \in State, NEW ps, ErrorsOK(s, ps)
  PROVE  ReviewError(s) \in TaskId /\ ReviewError(s) \in ps \union {NoId}
BY NothingTyped DEF ReviewError, ErrorsOK, State

\* What a review is about.
LEMMA IdentityTyped ==
  ASSUME NEW s \in State
  PROVE  /\ Artifacts(s) \in Contents
         /\ Identity(s) \in About
         /\ Identity(s)[1] = Artifacts(s)
         /\ Artifacts(s)[4] = s.final
<1>1. Artifacts(s) \in Contents
  BY DEF Artifacts, Contents, State
<1>2. LastRevision(s) \in SUBSET Revised
  BY DEF LastRevision, State
<1> QED
  BY <1>1, <1>2 DEF Identity, About, Artifacts

\* The id a review is asked under: of somebody.
LEMMA ReviewIdIs ==
  ASSUME NEW s \in State, run \in Run, retries \subseteq TaskId,
         \A id \in retries : id.agent # "none", ErrorsOK(s, paid)
  PROVE  ReviewId(s) \in TaskId /\ ReviewId(s).agent # "none"
<1>1. s.count \in Nat /\ run.recovery \in Nat /\ 0 \in Nat
  BY DEF State, Run
<1> DEFINE fresh(m) == Id("review", s.count, m)
<1>2. \A m \in Nat : fresh(m) \in TaskId /\ fresh(m).agent = "review"
  BY <1>1, PlainIsTask DEF Id, Plain, Stage
<1> DEFINE ids == ReviewIds(s)
           granted == {i \in 1 .. 3 : ids[i] \in retries}
<1>3. /\ ids[1] = ReviewError(s) /\ ids[2] = fresh(run.recovery) /\ ids[3] = fresh(0)
  BY DEF ReviewIds
<1>4. CASE granted # {}
  <2>1. \E i \in granted : \A j \in granted : i <= j
    <3>1. 1 \in granted \/ 2 \in granted \/ 3 \in granted
      BY <1>4
    <3>2. \A j \in granted : j \in {1, 2, 3}
      OBVIOUS
    <3> HIDE DEF granted
    <3> QED
      BY <3>1, <3>2
  <2>2. PICK i \in granted : ReviewId(s) = RetryOf(ids[i])
    BY <1>4, <2>1 DEF ReviewId
  <2>3. ids[i] \in TaskId /\ ids[i].agent # "none"
    BY <2>2
  <2> QED
    BY <2>2, <2>3, RetryIs
<1>5. CASE granted = {}
  <2>1. ids[2] \in TaskId /\ ids[2].agent = "review"
    BY <1>1, <1>2, <1>3
  <2>2. ReviewId(s) = [ids[2] EXCEPT !.of = Identity(s)] \/ ReviewId(s) = ids[2]
    BY <1>5 DEF ReviewId
  <2> HIDE DEF ids
  <2>3. [ids[2] EXCEPT !.of = Identity(s)] \in TaskId
    BY <2>1, IdentityTyped, Zenon DEF TaskId
  <2>4. [ids[2] EXCEPT !.of = Identity(s)].agent = "review"
    BY <2>1 DEF TaskId
  <2> QED
    BY <2>1, <2>2, <2>3, <2>4
<1> QED
  BY <1>4, <1>5

-----------------------------------------------------------------------------
(* What is on record only grows.                                             *)

Grown ==
  /\ paid \subseteq paid' /\ reviews \subseteq reviews' /\ made \subseteq made'
  /\ requests \subseteq requests' /\ results \subseteq results'
  /\ adopted \subseteq adopted' /\ (reused => reused')

\* No step takes back an id that was paid for, an artifact, a verdict, a request or a
\* result.
LEMMA RecordsGrow == TypeInv /\ [Next]_vars => Grown
<1> SUFFICES ASSUME TypeInv, [Next]_vars PROVE Grown
  OBVIOUS
<1> USE DEF Next, vars, calls, exchange, Line, Decide, Revision, Recovery, Around,
     Dispatch, Gather, Record, Collected, Integrate, Initial, InitialMade, CounterArgument,
     CounterMade, Final, FinalMade, ReuseReview, AskReview, AnswerReview, Reviewed, Finalize,
     Approve, Send, SendFails, Sent, BlockedByReview, AskResearcher, AskedAlready, Waiting,
     Plan, PlanInternal, SavePlan, Stop, Resume, Revise, Adopt, Adopted, Authorize, Stale,
     Exhausted, Execute, Begin, ProviderRetry, Recover, NotRecoverable, NeedsRetry,
     RecoverBegins, RecoverPrimaries, TooFew, RecoverCheckpoints, Crash, ResearcherReplies,
     ResearcherFiles, ConclusionAsks
<1>1. paid \subseteq paid' /\ made \subseteq made'
  OBVIOUS
<1>2. reviews \subseteq reviews'
  OBVIOUS
<1>3. requests \subseteq requests' /\ adopted \subseteq adopted'
  OBVIOUS
<1>4. results \subseteq results'
  OBVIOUS
<1>5. reused => reused'
  OBVIOUS
<1> QED
  BY <1>1, <1>2, <1>3, <1>4, <1>5 DEF Grown

\* A verdict stays.
LEMMA VerdictsStay ==
  ASSUME NEW vs, NEW vs2, vs \subseteq vs2
  PROVE  /\ \A id : Refused(id, vs) => Refused(id, vs2)
         /\ \A id : Approves(id, vs) => Approves(id, vs2)
         /\ \A s : Fair(s, vs) => Fair(s, vs2)
         /\ \A s : Rework(s, vs) => Rework(s, vs2)
<1>1. \A id : Refused(id, vs) => Refused(id, vs2)
  BY DEF Refused
<1>2. \A id : Approves(id, vs) => Approves(id, vs2)
  BY DEF Approves
<1>3. \A s : Fair(s, vs) => Fair(s, vs2)
  BY DEF Fair
<1>4. \A s : Rework(s, vs) => Rework(s, vs2)
  BY <1>1 DEF Rework
<1> QED
  BY <1>1, <1>2, <1>3, <1>4

\* The new results are not about the revision of the state, unless nothing of it is open.
Spared(s, rs, rs2) ==
  \A x \in rs2 : x \in rs \/ x.request # s.active \/ s.active.route # "conclusion"
                   \/ (AllClosed(s) /\ ~PlanOf(s))

\* A Good state stays Good.
LEMMA GoodStays ==
  ASSUME NEW s, NEW ps, NEW ps2, ps \subseteq ps2, NEW vs, NEW vs2, vs \subseteq vs2,
         NEW rs, NEW rs2, Spared(s, rs, rs2), Good(s, ps, vs, rs)
  PROVE  Good(s, ps2, vs2, rs2)
<1>1. AskedOK(s, ps2)
  BY DEF Good, AskedOK, Askable
<1>2. CountOK(s)
  BY DEF Good
<1>3. ErrorsOK(s, ps2)
  BY DEF Good, ErrorsOK
<1>4. Synced(s, vs2)
  BY VerdictsStay DEF Good, Synced
<1>5. OpenOK(s, vs2, rs2)
  <2> SUFFICES ASSUME NEW p \in Primary, Open(s, p)
               PROVE  p \in s.active.targets /\ Reworked(s, vs2, rs2)
    BY DEF OpenOK
  <2>1. p \in s.active.targets /\ Reworked(s, vs, rs)
    BY DEF Good, OpenOK
  <2>2. Busy(s, rs2)
    BY <2>1 DEF Reworked, Busy, Spared, AllClosed
  <2>3. Rework(s, vs2)
    BY <2>1, VerdictsStay DEF Reworked
  <2> QED
    BY <2>1, <2>2, <2>3 DEF Reworked
<1>6. ResultOK(s, vs2)
  BY VerdictsStay DEF Good, ResultOK
<1>7. WaitingOK(s, vs2)
  BY VerdictsStay DEF Good, WaitingOK
<1> QED
  BY <1>1, <1>2, <1>3, <1>4, <1>5, <1>6, <1>7 DEF Good

\* What is planned stays so.
LEMMA PlanStays ==
  ASSUME NEW s, NEW vs, NEW vs2, vs \subseteq vs2, NEW ads, NEW ads2, ads \subseteq ads2,
         NEW rs, NEW rs2, Spared(s, rs, rs2), PlanOK(s, vs, ads, rs)
  PROVE  PlanOK(s, vs2, ads2, rs2)
<1>1. PlanOf(s) /\ s.active.route = "internal" =>
        Refused(s.plan, vs2) /\ Refused(s.active.review, vs2) /\ s.active.final # NoId
  BY VerdictsStay DEF PlanOK
<1>2. PlanOf(s) /\ s.active.route = "conclusion" => \A x \in rs2 : x.request # s.active
  BY DEF PlanOK, Spared
<1> QED
  BY <1>1, <1>2 DEF PlanOK

-----------------------------------------------------------------------------
(* States that agree.                                                        *)

LEMMA AskedAlike ==
  ASSUME NEW s, NEW t, NEW ps, AskedOK(s, ps),
         t.analyses = s.analyses, t.asked = s.asked, t.count = s.count
  PROVE  AskedOK(t, ps)
BY DEF AskedOK, Askable, Latest

LEMMA OpenAlike ==
  ASSUME NEW s, NEW t, t.analyses = s.analyses, t.asked = s.asked
  PROVE  /\ \A p : Open(t, p) <=> Open(s, p)
         /\ AllClosed(t) <=> AllClosed(s)
BY DEF Open, AllClosed

LEMMA GivenUpAlike ==
  ASSUME NEW s, NEW t, t.at = s.at, t.history = s.history
  PROVE  \A stage : GivenUp(t, stage) <=> GivenUp(s, stage)
BY DEF GivenUp

LEMMA ReworkAlike ==
  ASSUME NEW s, NEW t, NEW vs, Rework(s, vs),
         t.review = s.review, t.at = s.at, t.history = s.history
  PROVE  Rework(t, vs)
BY GivenUpAlike DEF Rework

LEMMA FairAlike ==
  ASSUME NEW s, NEW t, NEW vs, Fair(s, vs), t.review = s.review, Artifacts(t) = Artifacts(s)
  PROVE  Fair(t, vs)
BY DEF Fair

LEMMA ReworkedAlike ==
  ASSUME NEW s, NEW t, NEW vs, NEW rs, Reworked(s, vs, rs),
         t.review = s.review, t.at = s.at, t.history = s.history,
         t.phase = s.phase, t.active = s.active, t.result[2] = s.result[2]
  PROVE  Reworked(t, vs, rs)
BY GivenUpAlike, ReworkAlike DEF Reworked, Busy

LEMMA OpenOKAlike ==
  ASSUME NEW s, NEW t, NEW vs, NEW rs, OpenOK(s, vs, rs),
         t.analyses = s.analyses, t.asked = s.asked,
         t.review = s.review, t.at = s.at, t.history = s.history,
         t.phase = s.phase, t.active = s.active, t.result[2] = s.result[2]
  PROVE  OpenOK(t, vs, rs)
BY OpenAlike, ReworkedAlike DEF OpenOK

\* What Good is about.
Kept == {"analyses", "initial", "counter", "final", "review", "result", "at", "asked",
         "count", "history", "phase", "active"}

\* A state that differs from a Good one in nothing of it is Good.
LEMMA GoodAlike ==
  ASSUME NEW s, NEW t, NEW ps, NEW vs, NEW rs, Good(s, ps, vs, rs),
         \A f \in Kept : t[f] = s[f], ErrorsOK(t, ps),
         t.status = s.status \/ t.status # "WAITING_UPSTREAM_REVISION"
  PROVE  Good(t, ps, vs, rs)
<1>1. /\ t.analyses = s.analyses /\ t.initial = s.initial /\ t.counter = s.counter
      /\ t.final = s.final /\ t.review = s.review /\ t.result = s.result
      /\ t.at = s.at /\ t.asked = s.asked /\ t.count = s.count /\ t.history = s.history
      /\ t.phase = s.phase /\ t.active = s.active
  BY DEF Kept
<1>2. Artifacts(t) = Artifacts(s)
  BY <1>1 DEF Artifacts
<1>3. AskedOK(t, ps)
  BY <1>1, AskedAlike DEF Good
<1>4. CountOK(t)
  BY <1>1 DEF Good, CountOK
<1>5. Synced(t, vs)
  BY <1>1, <1>2, GivenUpAlike, FairAlike DEF Good, Synced
<1>6. OpenOK(t, vs, rs)
  BY <1>1, OpenOKAlike DEF Good
<1>7. ResultOK(t, vs) /\ WaitingOK(t, vs)
  BY <1>1 DEF Good, ResultOK, WaitingOK
<1> QED
  BY <1>3, <1>4, <1>5, <1>6, <1>7 DEF Good

LEMMA PlanAlike ==
  ASSUME NEW s, NEW t, NEW vs, NEW ads, NEW rs, PlanOK(s, vs, ads, rs),
         t.phase = s.phase, t.active = s.active, t.plan = s.plan
  PROVE  PlanOK(t, vs, ads, rs)
BY DEF PlanOK, PlanOf

LEMMA ErrorsAlike ==
  ASSUME NEW s, NEW t, NEW ps, ErrorsOK(s, ps), t.faults = s.faults,
         t.primaryError = s.primaryError, t.reviewError = s.reviewError
  PROVE  ErrorsOK(t, ps)
BY DEF ErrorsOK

-----------------------------------------------------------------------------
(* The stages of a revision, and the operators on states.                    *)

\* A revision of anything makes the final integration and the review again, one of an
\* analyst or the Manager everything; of more targets, more.
LEMMA StagesAre ==
  ASSUME NEW ts \in SUBSET Legal
  PROVE  /\ ts # {} => {"counter", "final", "review"} \subseteq StagesOf(ts)
         /\ ts \intersect Primary # {} => "initial" \in StagesOf(ts)
         /\ \A more \in SUBSET Primary : StagesOf(ts) \subseteq StagesOf(ts \union more)
         /\ FirstStage(ts) \in 1 .. 2
         /\ FirstStage(ts) = 1 => "initial" \in StagesOf(ts)
BY DEF StagesOf, Stage, Legal, FirstStage

\* A checkpoint is current unless a revision has given it up.
LEMMA CurrentIs ==
  ASSUME NEW s \in State, NEW stage \in Stage
  PROVE  CheckpointIsCurrent(s, stage) <=> ~GivenUp(s, stage)
<1>1. \A h \in s.history : h.iteration \in Nat
  BY DEF State, Revised
<1>2. s.at[stage] \in Nat
  BY DEF State
<1> QED
  BY <1>1, <1>2 DEF CheckpointIsCurrent, GivenUp

\* What is left when the checkpoints from the n-th stage on are cleared.
LEMMA ClearedIs ==
  ASSUME NEW s \in State, NEW n \in 1 .. 4
  PROVE  LET t == Cleared(s, n)
         IN /\ t \in State
            /\ t.initial = IF n <= 1 THEN NoId ELSE s.initial
            /\ t.counter = IF n <= 2 THEN NoId ELSE s.counter
            /\ t.final = IF n <= 3 THEN NoId ELSE s.final
            /\ t.review = NoId
            /\ t.result = IF n = 4 THEN <<s.result[1], NoId>> ELSE s.result
            /\ \A f \in {"analyses", "at", "asked", "count", "history", "phase", "active",
                         "faults", "primaryError", "reviewError", "status", "plan",
                         "failed", "report"} :
                 t[f] = s[f]
<1> DEFINE a == IF n <= 1 THEN NoId ELSE s.initial
           b == IF n <= 2 THEN NoId ELSE s.counter
           c == IF n <= 3 THEN NoId ELSE s.final
           d == IF n = 4 THEN <<s.result[1], NoId>> ELSE s.result
           t == [s EXCEPT !.initial = a, !.counter = b, !.final = c, !.review = NoId,
                          !.result = d]
<1>1. Cleared(s, n) = t
  BY DEF Cleared, State
<1>2. a \in Plain /\ b \in Plain /\ c \in Plain /\ d \in Pair /\ NoId \in TaskId
  BY NothingTyped DEF State, Pair
<1>3. /\ a = IF n <= 1 THEN NoId ELSE s.initial
      /\ b = IF n <= 2 THEN NoId ELSE s.counter
      /\ c = IF n <= 3 THEN NoId ELSE s.final
      /\ d = IF n = 4 THEN <<s.result[1], NoId>> ELSE s.result
  OBVIOUS
<1> HIDE DEF a, b, c, d
<1>4. t \in State
  BY <1>2, ZenonT(30) DEF State
<1>5. t.initial = a /\ t.counter = b /\ t.final = c /\ t.review = NoId /\ t.result = d
  BY DEF State
<1>6. \A f \in {"analyses", "at", "asked", "count", "history", "phase", "active",
                "faults", "primaryError", "reviewError", "status", "plan", "failed",
                "report"} :
        t[f] = s[f]
  BY DEF State
<1> HIDE DEF t
<1> QED
  BY <1>1, <1>3, <1>4, <1>5, <1>6

\* What a revision adds to the history: its number and its targets, if the number is new.
LEMMA HistoryIs ==
  ASSUME NEW s \in State, NEW ts \in SUBSET Legal
  PROVE  LET t == History(s, ts)
             h == [iteration |-> s.count, targets |-> ts]
         IN /\ t \in State
            /\ h \in Revised
            /\ s.history \subseteq t.history
            /\ t.history \subseteq s.history \union {h}
            /\ (\A g \in s.history : g.iteration # s.count) => h \in t.history
            /\ \A f \in Kept \ {"history"} : t[f] = s[f]
            /\ \A f \in {"faults", "primaryError", "reviewError", "status", "plan"} : t[f] = s[f]
<1> DEFINE h == [iteration |-> s.count, targets |-> ts]
           hs == s.history \union {h}
<1>1. h \in Revised
  BY DEF Revised, State
<1>2. hs \in SUBSET Revised
  BY <1>1 DEF State
<1>3. CASE \E g \in s.history : g.iteration = s.count
  BY <1>1, <1>3 DEF History
<1>4. CASE ~ \E g \in s.history : g.iteration = s.count
  <2>1. History(s, ts) = [s EXCEPT !.history = hs]
    BY <1>4 DEF History, State
  <2> HIDE DEF h
  <2>2. hs = s.history \union {h}
    OBVIOUS
  <2> HIDE DEF hs
  <2>3. [s EXCEPT !.history = hs] \in State
    BY <1>2, ZenonT(30) DEF State
  <2>4. [s EXCEPT !.history = hs].history = hs
    BY DEF State
  <2>5. /\ \A f \in Kept \ {"history"} : [s EXCEPT !.history = hs][f] = s[f]
        /\ \A f \in {"faults", "primaryError", "reviewError", "status", "plan"} :
             [s EXCEPT !.history = hs][f] = s[f]
    BY DEF State, Kept
  <2>6. /\ s.history \subseteq hs /\ hs \subseteq s.history \union {h} /\ h \in hs
    BY <2>2
  <2> USE DEF h
  <2> QED
    BY <1>1, <2>1, <2>3, <2>4, <2>5, <2>6
<1> QED
  BY <1>3, <1>4

\* The revision under way has the missing analysts as targets.
LEMMA ClosedIs ==
  ASSUME NEW s \in State
  PROVE  LET t == Closed(s)
         IN /\ t \in State
            /\ \A h \in t.history : \E g \in s.history :
                 /\ h.iteration = g.iteration
                 /\ h.targets = g.targets \/ h.targets = g.targets \union Missing(s)
            /\ \A g \in s.history : \E h \in t.history :
                 /\ h.iteration = g.iteration
                 /\ h.targets = g.targets \/ h.targets = g.targets \union Missing(s)
            /\ \A f \in Kept \ {"history"} : t[f] = s[f]
            /\ \A f \in {"faults", "primaryError", "reviewError", "status", "plan"} : t[f] = s[f]
<1> DEFINE map(h) == IF h.iteration = s.count /\ s.count > 0
                     THEN [h EXCEPT !.targets = @ \union Missing(s)] ELSE h
           hs == {map(h) : h \in s.history}
<1>1. \A h \in s.history : h \in Revised
  BY DEF State
<1>2. Missing(s) \subseteq Legal
  BY DEF Missing, Legal
<1>3. ASSUME NEW h \in s.history
      PROVE  /\ map(h) \in Revised /\ map(h).iteration = h.iteration
             /\ map(h).targets = h.targets \/ map(h).targets = h.targets \union Missing(s)
  BY <1>1, <1>2 DEF Revised
<1>4. Closed(s) = [s EXCEPT !.history = hs]
  BY DEF Closed, State
<1>5. hs \in SUBSET Revised
  BY <1>3
<1>6. /\ \A h \in hs : \E g \in s.history :
           /\ h.iteration = g.iteration
           /\ h.targets = g.targets \/ h.targets = g.targets \union Missing(s)
      /\ \A g \in s.history : \E h \in hs :
           /\ h.iteration = g.iteration
           /\ h.targets = g.targets \/ h.targets = g.targets \union Missing(s)
  BY <1>3
<1> HIDE DEF hs
<1>7. [s EXCEPT !.history = hs] \in State
  BY <1>5, ZenonT(30) DEF State
<1>8. [s EXCEPT !.history = hs].history = hs
  BY DEF State
<1>9. /\ \A f \in Kept \ {"history"} : [s EXCEPT !.history = hs][f] = s[f]
      /\ \A f \in {"faults", "primaryError", "reviewError", "status", "plan"} :
           [s EXCEPT !.history = hs][f] = s[f]
  BY DEF State, Kept
<1> QED
  BY <1>4, <1>6, <1>7, <1>8, <1>9

\* What recording an answer changes.
LEMMA RecordedIs ==
  ASSUME NEW s \in State, NEW id \in Plain, id.agent \in Primary, NEW kind \in Kind
  PROVE  LET t == Recorded(s, id, kind)
         IN /\ t \in State
            /\ kind = "result" =>
                 /\ t.analyses = [s.analyses EXCEPT ![id.agent] = id]
                 /\ t.at = [s.at EXCEPT ![id.agent] = s.count]
            /\ kind # "result" => t.analyses = s.analyses /\ t.at = s.at
            /\ t.primaryError \in {s.primaryError, id}
            /\ \A f \in Kept \ {"analyses", "at"} : t[f] = s[f]
            /\ \A f \in {"faults", "reviewError", "status", "plan"} : t[f] = s[f]
<1> DEFINE t == Recorded(s, id, kind)
<1>1. CASE kind = "result"
  <2> DEFINE as == [s.analyses EXCEPT ![id.agent] = id]
             at == [s.at EXCEPT ![id.agent] = s.count]
             fs == s.failed \ {id.agent}
  <2>1. t = [s EXCEPT !.analyses = as, !.failed = fs, !.at = at]
    BY <1>1 DEF Recorded, State
  <2>2. as \in [Primary -> Plain] /\ at \in [Primary \union Stage -> Nat] /\ fs \in SUBSET Primary
    BY DEF State
  <2>3. as = [s.analyses EXCEPT ![id.agent] = id] /\ at = [s.at EXCEPT ![id.agent] = s.count]
    OBVIOUS
  <2> HIDE DEF as, at, fs, t
  <2>4. t \in State
    BY <2>1, <2>2, ZenonT(30) DEF State
  <2>5. t.analyses = as /\ t.at = at
    BY <2>1 DEF State
  <2>6. t.primaryError = s.primaryError /\ \A f \in Kept \ {"analyses", "at"} : t[f] = s[f]
    BY <2>1 DEF State, Kept
  <2>7. \A f \in {"faults", "reviewError", "status", "plan"} : t[f] = s[f]
    BY <2>1 DEF State
  <2> USE DEF t
  <2> QED
    BY <1>1, <2>3, <2>4, <2>5, <2>6, <2>7
<1>2. CASE kind # "result"
  <2> DEFINE fs == s.failed \union {id.agent}
             e == IF kind = "retryable" THEN id ELSE s.primaryError
  <2>1. t = [s EXCEPT !.failed = fs, !.primaryError = e]
    BY <1>2 DEF Recorded, State
  <2>2. e \in Plain /\ fs \in SUBSET Primary /\ e \in {s.primaryError, id}
    BY DEF State
  <2> HIDE DEF e, fs, t
  <2>3. t \in State
    BY <2>1, <2>2, ZenonT(30) DEF State
  <2>4. t.primaryError = e /\ \A f \in Kept : t[f] = s[f]
    BY <2>1 DEF State, Kept
  <2>5. \A f \in {"faults", "reviewError", "status", "plan"} : t[f] = s[f]
    BY <2>1 DEF State
  <2>6. t.analyses = s.analyses /\ t.at = s.at
    BY <2>4 DEF Kept
  <2> USE DEF t
  <2> QED
    BY <1>2, <2>2, <2>3, <2>4, <2>5, <2>6
<1> QED
  BY <1>1, <1>2

\* A review that was made has one verdict.
LEMMA ReviewIs ==
  ASSUME NEW s, reviews \subseteq Judgement,
         \A v, w \in reviews : w.id = v.id => w = v, \E v \in reviews : v.id = s.review
  PROVE  /\ Review(s) \in reviews /\ Review(s).id = s.review
         /\ Review(s).targets \in SUBSET Legal
         /\ Review(s).verdict \in Verdict
         /\ Review(s).verdict = "approved" <=> Approves(s.review, reviews)
         /\ Review(s).verdict # "approved" <=> Refused(s.review, reviews)
         /\ Fair(s, reviews) =>
              (Review(s).verdict = "approved" => Review(s).about[1] = Artifacts(s))
<1>1. Review(s) \in reviews /\ Review(s).id = s.review
  BY DEF Review
<1>2. \A v \in reviews : v.id = s.review => v = Review(s)
  BY <1>1
<1>3. Review(s).targets \in SUBSET Legal /\ Review(s).verdict \in Verdict
  BY <1>1 DEF Judgement
<1> HIDE DEF Review
<1> QED
  BY <1>1, <1>2, <1>3 DEF Approves, Refused, Fair

\* A plan that waits, with the review it is made for.
LEMMA PendingIs ==
  ASSUME NEW s \in State, NEW aw \in BOOLEAN, Review(s).targets \in SUBSET Legal
  PROVE  LET t == Pending(s, aw)
         IN /\ t \in State /\ t.plan = s.review
            /\ \A f \in Kept : t[f] = s[f]
            /\ \A f \in {"faults", "primaryError", "reviewError", "status", "report",
                         "epoch"} : t[f] = s[f]
<1> DEFINE ts == Review(s).targets
           t == [s EXCEPT !.plan = s.review, !.planned = ts, !.awaiting = aw]
<1>1. Pending(s, aw) = t
  BY DEF Pending
<1>2. s.review \in TaskId
  BY DEF State
<1> HIDE DEF ts
<1>3. ts \in SUBSET Legal
  BY DEF ts
<1>4. t \in State
  BY <1>2, <1>3, ZenonT(30) DEF State
<1>5. t.plan = s.review /\ \A f \in Kept : t[f] = s[f]
  BY DEF State, Kept
<1>6. \A f \in {"faults", "primaryError", "reviewError", "status", "report", "epoch"} :
        t[f] = s[f]
  BY DEF State
<1> HIDE DEF t
<1> QED
  BY <1>1, <1>4, <1>5, <1>6

\* A state with a plan for the request.
LEMMA PlannedIs ==
  ASSUME NEW s \in State, NEW r \in Request
  PROVE  LET t == Planned(s, r)
         IN /\ t \in State /\ t.phase = "authorization_required" /\ t.active = r
            /\ \A f \in Kept \ {"phase", "active"} : t[f] = s[f]
            /\ \A f \in {"faults", "primaryError", "reviewError", "status", "plan"} : t[f] = s[f]
<1> DEFINE e == r.epoch
           t == [s EXCEPT !.phase = "authorization_required", !.epoch = e, !.active = r]
<1>1. Planned(s, r) = t
  BY DEF Planned
<1>2. e \in Nat /\ "authorization_required" \in Phase
  BY DEF Request, Phase
<1> HIDE DEF e
<1>3. t \in State
  BY <1>2, ZenonT(30) DEF State
<1>4. /\ t.phase = "authorization_required" /\ t.active = r
      /\ \A f \in Kept \ {"phase", "active"} : t[f] = s[f]
  BY DEF State, Kept
<1>5. \A f \in {"faults", "primaryError", "reviewError", "status", "plan"} : t[f] = s[f]
  BY DEF State
<1> HIDE DEF t
<1> QED
  BY <1>1, <1>3, <1>4, <1>5

\* The request of a plan, and the request for evidence.
LEMMA RequestsAre ==
  ASSUME NEW s \in State, NEW ts \in SUBSET Legal
  PROVE  /\ InternalRequest(s, ts) \in Request
         /\ InternalRequest(s, ts).route = "internal"
         /\ InternalRequest(s, ts).review = s.review
         /\ InternalRequest(s, ts).final = s.final
         /\ InternalRequest(s, ts).targets = ts
         /\ EvidenceRequest(s) \in Request
         /\ EvidenceRequest(s).route = "upstream"
<1> DEFINE e == NextEpoch(s)
           rv == s.review
           fi == s.final
           re == s.report
<1>1. e \in Nat /\ rv \in TaskId /\ fi \in Plain /\ re \in Nat
  BY DEF NextEpoch, State
<1>2. InternalRequest(s, ts) = [NoRequest EXCEPT !.route = "internal", !.epoch = e,
          !.review = rv, !.targets = ts, !.final = fi, !.report = re]
  BY DEF InternalRequest
<1>3. EvidenceRequest(s) = [NoRequest EXCEPT !.route = "upstream", !.epoch = e,
          !.review = rv, !.final = fi, !.report = re]
  BY DEF EvidenceRequest
<1>4. NoRequest \in Request
  BY NothingTyped
<1>5. rv = s.review /\ fi = s.final
  OBVIOUS
<1> HIDE DEF e, rv, fi, re
<1>6. InternalRequest(s, ts) \in Request /\ EvidenceRequest(s) \in Request
  BY <1>1, <1>2, <1>3, <1>4, ZenonT(30) DEF Request
<1>7. /\ InternalRequest(s, ts).route = "internal" /\ InternalRequest(s, ts).review = rv
      /\ InternalRequest(s, ts).final = fi /\ InternalRequest(s, ts).targets = ts
      /\ EvidenceRequest(s).route = "upstream"
  BY <1>2, <1>3, <1>4 DEF Request
<1> QED
  BY <1>5, <1>6, <1>7

\* The last task of an analyst: there is one if any was asked.
LEMMA TaskIs ==
  ASSUME NEW s \in State, NEW ps, AskedOK(s, ps), NEW p \in Primary
  PROVE  /\ Task(s, p) \in Plain /\ Task(s, p).agent = p
         /\ \/ Task(s, p) = Id(p, 0, 0) /\ \A a \in s.asked : a.agent # p
            \/ Task(s, p) \in s.asked /\ Latest(s, Task(s, p))
         /\ \A id \in s.asked : id.agent = p /\ Latest(s, id) => Task(s, p) = id
<1> DEFINE mine == {a \in s.asked : a.agent = p}
<1>1. mine \subseteq Plain
  BY DEF State
<1>2. ASSUME NEW a \in mine
      PROVE  Latest(s, a) <=> \A b \in mine \ {a} : Later(a, b)
  BY DEF Latest
<1>3. CASE mine = {}
  <2>1. Task(s, p) = Id(p, 0, 0)
    BY <1>3 DEF Task
  <2>2. Id(p, 0, 0) \in Plain /\ Id(p, 0, 0).agent = p
    BY DEF Id, Plain
  <2>3. \A a \in s.asked : a.agent # p
    BY <1>3
  <2> QED
    BY <2>1, <2>2, <2>3
<1>4. CASE mine # {}
  <2>1. \E a \in mine : \A b \in mine \ {a} : Later(a, b)
    <3>1. \E a \in s.asked : a.agent = p /\ Latest(s, a)
      BY <1>4 DEF AskedOK
    <3> QED
      BY <1>2, <3>1
  <2>2. Task(s, p) \in mine /\ \A b \in mine \ {Task(s, p)} : Later(Task(s, p), b)
    BY <1>4, <2>1 DEF Task
  <2>3. ASSUME NEW id \in s.asked, id.agent = p, Latest(s, id)
        PROVE  Task(s, p) = id
    <3>1. id \in mine /\ \A b \in mine \ {id} : Later(id, b)
      BY <2>3, <1>2
    <3> QED
      BY <1>1, <2>2, <3>1, LaterIs
  <2>4. Latest(s, Task(s, p))
    BY <1>2, <2>2
  <2> QED
    BY <1>1, <2>2, <2>3, <2>4
<1> QED
  BY <1>3, <1>4

\* The id of a call of the Manager is its stage's.
LEMMA ManagerIdIs ==
  ASSUME NEW s \in State, ErrorsOK(s, paid), run \in Run, NEW stage \in {"initial", "final"}
  PROVE  ManagerId(s, stage) \in Plain /\ ManagerId(s, stage).agent = stage
<1>1. CurrentFault(s) \in Plain
  BY FaultIs
<1> DEFINE base == Id(stage, s.count, run.recovery)
<1>2. base \in Plain /\ base.agent = stage
  <2>1. s.count \in Nat /\ run.recovery \in Nat /\ stage \in Stage
    BY DEF State, Run, Stage
  <2>2. stage \in Primary \union Stage \union {"none"}
    BY <2>1
  <2> QED
    BY <2>1, <2>2 DEF Id, Plain
<1>3. ManagerId(s, stage) \in {RetryOf(CurrentFault(s)), RetryOf(base), base}
      /\ (ManagerId(s, stage) = RetryOf(CurrentFault(s)) => CurrentFault(s).agent = stage
            \/ ManagerId(s, stage) \in {RetryOf(base), base})
  BY DEF ManagerId
<1> HIDE DEF base
<1> QED
  BY <1>1, <1>2, <1>3, RetryIs, PlainIsTask

-----------------------------------------------------------------------------
(* Each step keeps the types.                                                *)

\* What is neither of Kept nor an error, a status or a plan is nothing to Good.
Beside == {"faults", "primaryError", "reviewError", "plan"}

\* A status alone.
LEMMA StatusIs ==
  ASSUME NEW s \in State, NEW x \in Status
  PROVE  LET t == [s EXCEPT !.status = x]
         IN /\ t \in State /\ t.status = x
            /\ \A f \in Kept : t[f] = s[f]
            /\ \A f \in Beside : t[f] = s[f]
<1> DEFINE t == [s EXCEPT !.status = x]
<1>1. t \in State
  BY ZenonT(30) DEF State
<1>2. t.status = x /\ \A f \in Kept : t[f] = s[f]
  BY DEF State, Kept
<1>3. \A f \in Beside : t[f] = s[f]
  BY DEF State, Beside
<1> QED
  BY <1>1, <1>2, <1>3

\* The tasks are saved as asked.
LEMMA DispatchIs ==
  ASSUME mem \in State, run \in Run, Dispatch
  PROVE  /\ mem' \in State /\ disk' = mem' /\ mem'.status = "COLLECTING"
         /\ mem'.asked = mem.asked \union run.todo
         /\ \A f \in Kept \ {"asked"} : mem'[f] = mem[f]
         /\ \A f \in Beside : mem'[f] = mem[f]
<1> DEFINE as == mem.asked \union run.todo
<1>1. mem' = [mem EXCEPT !.status = "COLLECTING", !.asked = as] /\ disk' = mem'
  BY DEF Dispatch, Save
<1>2. as \in SUBSET Plain /\ "COLLECTING" \in Status
  BY DEF State, Run, Status
<1>3. as = mem.asked \union run.todo
  OBVIOUS
<1> HIDE DEF as
<1>4. mem' \in State
  BY <1>1, <1>2, ZenonT(30) DEF State
<1>5. mem'.status = "COLLECTING" /\ mem'.asked = as
      /\ \A f \in Kept \ {"asked"} : mem'[f] = mem[f]
  BY <1>1 DEF State, Kept
<1>6. \A f \in Beside : mem'[f] = mem[f]
  BY <1>1 DEF State, Beside
<1> QED
  BY <1>1, <1>3, <1>4, <1>5, <1>6

\* The answer that is recorded next.
LEMMA RecordIs ==
  ASSUME mem \in State, run \in Run, CommandInv, Record
  PROVE  \E x \in run.got :
           /\ x[1] \in Plain /\ x[1].agent \in Primary /\ x[2] \in Kind
           /\ mem' = Recorded(mem, x[1], x[2]) /\ disk' = mem'
           /\ run' = [run EXCEPT !.got = @ \ {x},
                                 !.failures = IF x[2] = "result" THEN @ ELSE @ + 1]
<1> DEFINE x == CHOOSE x \in run.got : TRUE
<1>1. x \in run.got
  BY DEF Record
<1>2. x \in Plain \X Kind
  BY <1>1 DEF Run
<1>3. x[1].agent \in Primary
  BY <1>1 DEF Record, CommandInv, AskingOK, RecordOK, Asking, Askable
<1>4. /\ mem' = Recorded(mem, x[1], x[2]) /\ disk' = mem'
      /\ run' = [run EXCEPT !.got = @ \ {x},
                            !.failures = IF x[2] = "result" THEN @ ELSE @ + 1]
  BY DEF Record, Save
<1> HIDE DEF x
<1> QED
  BY <1>1, <1>2, <1>3, <1>4

\* A call of the Manager brings an integration, or the workflow fails with its id.
LEMMA IntegrateIs ==
  ASSUME mem \in State, disk \in State, run \in Run, ErrorsOK(mem, paid),
         NEW stage \in {"initial", "final"}, NEW on, NEW next, Integrate(stage, on, next)
  PROVE  /\ mem' \in State
         /\ \E id \in Plain :
              /\ id.agent = stage /\ id \in paid'
              /\ \/ /\ id \notin paid
                    /\ made' = made \union {[id |-> id, on |-> on, report |-> mem.report]}
                    /\ run' = [run EXCEPT !.id = id] /\ pc' = next
                    /\ UNCHANGED <<disk, mem>>
                 \/ /\ disk' = mem' /\ pc' = "idle" /\ run' = NoRun /\ UNCHANGED made
                    /\ mem'.status = "FAILED"
                    /\ ErrorsOK(mem', paid')
                    /\ \A f \in Kept : mem'[f] = mem[f]
                    /\ mem'.plan = mem.plan
<1> DEFINE id == ManagerId(mem, stage)
<1>1. id \in Plain /\ id.agent = stage
  BY ManagerIdIs
<1>2. paid' = paid \union {id}
  BY DEF Integrate
<1>3. PICK k \in Outcomes(id) :
        \/ /\ k = "result"
           /\ made' = made \union {[id |-> id, on |-> on, report |-> mem.report]}
           /\ run' = [run EXCEPT !.id = id] /\ pc' = next
           /\ UNCHANGED <<disk, mem>>
        \/ /\ k # "result"
           /\ Fail([mem EXCEPT !.faults = IF k = "retryable" THEN Append(@, id) ELSE @])
           /\ UNCHANGED made
  BY DEF Integrate, Goto
<1> HIDE DEF id
<1>4. CASE k = "result"
  <2>1. id \notin paid
    BY <1>3, <1>4 DEF Outcomes
  <2> QED
    BY <1>1, <1>2, <1>3, <1>4, <2>1
<1>5. CASE k # "result"
  <2> DEFINE fs == IF k = "retryable" THEN Append(mem.faults, id) ELSE mem.faults
             t == [mem EXCEPT !.faults = fs]
  <2>1. t = [mem EXCEPT !.faults = IF k = "retryable" THEN Append(@, id) ELSE @]
    BY DEF State
  <2>2. fs \in Seq(Plain)
    BY <1>1 DEF State
  <2>3. \A i \in DOMAIN fs : fs[i] \in paid'
    <3>1. mem.faults \in Seq(Plain) /\ \A i \in DOMAIN mem.faults : mem.faults[i] \in paid
      BY DEF State, ErrorsOK
    <3> QED
      BY <1>2, <3>1
  <2> HIDE DEF fs
  <2>4. t \in State
    BY <2>2, ZenonT(30) DEF State
  <2>5. t.faults = fs /\ (\A f \in Kept : t[f] = mem[f])
        /\ t.plan = mem.plan /\ t.primaryError = mem.primaryError
        /\ t.reviewError = mem.reviewError
    BY DEF State, Kept
  <2> HIDE DEF t
  <2>0. Fail(t) /\ UNCHANGED made
    BY <1>3, <1>5, <2>1
  <2>6. mem' = [t EXCEPT !.status = "FAILED"] /\ disk' = mem' /\ pc' = "idle"
        /\ run' = NoRun /\ UNCHANGED made
    BY <2>0 DEF Fail, SaveAndEnd, Save, End
  <2>7. "FAILED" \in Status
    BY DEF Status
  <2>8. /\ mem' \in State /\ mem'.status = "FAILED"
        /\ \A f \in Kept : mem'[f] = t[f]
        /\ \A f \in Beside : mem'[f] = t[f]
    BY <2>4, <2>6, <2>7, StatusIs
  <2>9. /\ mem'.faults = fs /\ mem'.primaryError = mem.primaryError
        /\ mem'.reviewError = mem.reviewError /\ mem'.plan = mem.plan
        /\ \A f \in Kept : mem'[f] = mem[f]
    BY <2>5, <2>8 DEF Beside
  <2>10. ErrorsOK(mem', paid')
    BY <1>2, <2>3, <2>9 DEF ErrorsOK
  <2> QED
    BY <1>1, <1>2, <2>6, <2>8, <2>9, <2>10
<1> QED
  BY <1>4, <1>5

\* t differs from s in nothing that counts.
Same(t, s) ==
  /\ t \in State
  /\ \A f \in Kept : t[f] = s[f]
  /\ \A f \in Beside : t[f] = s[f]

\* A command has ended with the state s, but for its status.
Ended(s) ==
  /\ disk' = mem' /\ pc' = "idle" /\ run' = NoRun
  /\ Same(mem', s) /\ mem'.status # "WAITING_UPSTREAM_REVISION"

\* A command has ended without a save.
Left == disk' = disk /\ mem' = disk /\ pc' = "idle" /\ run' = NoRun

LEMMA SameIs ==
  ASSUME NEW s, NEW t, Same(t, s)
  PROVE  /\ t.analyses = s.analyses /\ t.initial = s.initial /\ t.counter = s.counter
         /\ t.final = s.final /\ t.review = s.review /\ t.result = s.result
         /\ t.at = s.at /\ t.asked = s.asked /\ t.count = s.count /\ t.history = s.history
         /\ t.phase = s.phase /\ t.active = s.active /\ t.plan = s.plan
         /\ t.faults = s.faults /\ t.primaryError = s.primaryError
         /\ t.reviewError = s.reviewError
         /\ Artifacts(t) = Artifacts(s)
<1>1. /\ t.analyses = s.analyses /\ t.initial = s.initial /\ t.counter = s.counter
      /\ t.final = s.final /\ t.review = s.review /\ t.result = s.result
      /\ t.at = s.at /\ t.asked = s.asked /\ t.count = s.count /\ t.history = s.history
      /\ t.phase = s.phase /\ t.active = s.active
  BY DEF Same, Kept
<1>2. /\ t.plan = s.plan /\ t.faults = s.faults /\ t.primaryError = s.primaryError
      /\ t.reviewError = s.reviewError
  BY DEF Same, Beside
<1> QED
  BY <1>1, <1>2 DEF Artifacts

LEMMA SameSame ==
  ASSUME NEW s, NEW t, NEW u, Same(t, s), Same(u, t)
  PROVE  Same(u, s)
BY DEF Same

\* A failure, a block, and an exception that recover() catches.
LEMMA EndsIs ==
  ASSUME NEW s \in State
  PROVE  /\ Fail(s) => Ended(s) /\ mem'.status = "FAILED"
         /\ Block(s) => Ended(s)
         /\ \A how : Leave(how) => Left
         /\ Uncaught(s) => Ended(s) \/ Left
<1>1. "FAILED" \in Status /\ "BLOCKED" \in Status
  BY DEF Status
<1>2. ASSUME NEW x \in {"FAILED", "BLOCKED"}, NEW how,
             SaveAndEnd([s EXCEPT !.status = x], how)
      PROVE  Ended(s) /\ mem'.status = x
  <2>1. mem' = [s EXCEPT !.status = x] /\ disk' = mem' /\ pc' = "idle" /\ run' = NoRun
    BY <1>2 DEF SaveAndEnd, Save, End
  <2>2. Same(mem', s) /\ mem'.status = x
    BY <1>1, <2>1, StatusIs DEF Same
  <2> QED
    BY <2>1, <2>2 DEF Ended
<1>3. \A how : Leave(how) => Left
  BY DEF Leave, End, Left
<1> QED
  BY <1>2, <1>3 DEF Fail, Block, Uncaught

LEMMA CollectedIs ==
  ASSUME mem \in State, Collected
  PROVE  \/ Ended(mem)
         \/ /\ Same(mem', mem) /\ mem'.status # "WAITING_UPSTREAM_REVISION" /\ disk' = mem'
            /\ run' = run
            /\ pc' = IF run.then = "recover" THEN "checkpoints" ELSE "initial"
            /\ run.then = "revise" => run.failures = 0
<1> DEFINE x == IF run.failures = 0 THEN "RUNNING" ELSE "PARTIALLY_COMPLETED"
           s == [mem EXCEPT !.status = x]
<1>1. x \in Status /\ x # "WAITING_UPSTREAM_REVISION"
  BY DEF Status
<1>2. s = [mem EXCEPT !.status = IF run.failures = 0 THEN "RUNNING" ELSE "PARTIALLY_COMPLETED"]
  OBVIOUS
<1> HIDE DEF x
<1>3. Same(s, mem) /\ s.status = x
  BY <1>1, StatusIs DEF Same
<1> HIDE DEF s
<1>4. \/ Fail(s)
      \/ Block(s)
      \/ /\ run.then = "revise" => run.failures = 0
         /\ Save(s) /\ UNCHANGED run
         /\ Goto(IF run.then = "recover" THEN "checkpoints" ELSE "initial")
  BY <1>2 DEF Collected
<1>5. s \in State
  BY <1>3 DEF Same
<1>6. CASE Fail(s) \/ Block(s)
  <2>1. Ended(s)
    BY <1>5, <1>6, EndsIs
  <2> QED
    BY <1>3, <2>1, SameSame DEF Ended
<1>7. CASE /\ run.then = "revise" => run.failures = 0
           /\ Save(s) /\ UNCHANGED run
           /\ Goto(IF run.then = "recover" THEN "checkpoints" ELSE "initial")
  BY <1>1, <1>3, <1>7 DEF Save, Goto
<1> QED
  BY <1>4, <1>6, <1>7

\* An artifact is saved, with the revision it belongs to.
LEMMA MadeIs ==
  ASSUME NEW s \in State, NEW id \in Plain, NEW p \in Pair,
         NEW x \in Status, NEW stage \in {"initial", "counter", "final"}
  PROVE  LET at == [s.at EXCEPT ![stage] = s.count]
             t == CASE stage = "initial" -> [s EXCEPT !.initial = id, !.at = at, !.status = x]
                    [] stage = "counter" -> [s EXCEPT !.counter = id, !.at = at]
                    [] stage = "final" -> [s EXCEPT !.final = id, !.at = at, !.result = p]
         IN /\ t \in State
            /\ t.at = at
            /\ t[stage] = id
            /\ t.status \in {s.status, x}
            /\ t.result = IF stage = "final" THEN p ELSE s.result
            /\ \A f \in Kept \ {stage, "at", "result"} : t[f] = s[f]
            /\ \A f \in Beside : t[f] = s[f]
<1> DEFINE at == [s.at EXCEPT ![stage] = s.count]
<1>1. at \in [Primary \union Stage -> Nat]
  BY DEF State
<1> HIDE DEF at
<1>2. CASE stage = "initial"
  <2> DEFINE t == [s EXCEPT !.initial = id, !.at = at, !.status = x]
  <2>1. t \in State
    BY <1>1, ZenonT(30) DEF State
  <2>2. t.at = at /\ t.initial = id /\ t.status = x /\ t.result = s.result
        /\ \A f \in Kept \ {"initial", "at"} : t[f] = s[f]
    BY DEF State, Kept
  <2>3. \A f \in Beside : t[f] = s[f]
    BY DEF State, Beside
  <2> HIDE DEF t
  <2> QED
    BY <1>2, <2>1, <2>2, <2>3 DEF t, at
<1>3. CASE stage = "counter"
  <2> DEFINE t == [s EXCEPT !.counter = id, !.at = at]
  <2>1. t \in State
    BY <1>1, ZenonT(30) DEF State
  <2>2. t.at = at /\ t.counter = id /\ t.status = s.status /\ t.result = s.result
        /\ \A f \in Kept \ {"counter", "at"} : t[f] = s[f]
    BY DEF State, Kept
  <2>3. \A f \in Beside : t[f] = s[f]
    BY DEF State, Beside
  <2> HIDE DEF t
  <2> QED
    BY <1>3, <2>1, <2>2, <2>3 DEF t, at
<1>4. CASE stage = "final"
  <2> DEFINE t == [s EXCEPT !.final = id, !.at = at, !.result = p]
  <2>1. t \in State
    BY <1>1, ZenonT(30) DEF State
  <2>2. t.at = at /\ t.final = id /\ t.status = s.status /\ t.result = p
        /\ \A f \in Kept \ {"final", "at", "result"} : t[f] = s[f]
    BY DEF State, Kept
  <2>3. \A f \in Beside : t[f] = s[f]
    BY DEF State, Beside
  <2> HIDE DEF t
  <2> QED
    BY <1>4, <2>1, <2>2, <2>3 DEF t, at
<1> QED
  BY <1>2, <1>3, <1>4

\* An answer that is heard.
LEMMA HeardIs ==
  ASSUME NEW s \in State, NEW id \in TaskId
  PROVE  LET t == [s EXCEPT !.heard = @ \union {id}]
         IN Same(t, s) /\ t.status = s.status /\ t.heard = s.heard \union {id}
<1> DEFINE hs == s.heard \union {id}
           t == [s EXCEPT !.heard = hs]
<1>1. hs \in SUBSET TaskId
  BY DEF State
<1>2. hs = s.heard \union {id} /\ t = [s EXCEPT !.heard = @ \union {id}]
  BY DEF State
<1> HIDE DEF hs
<1>3. t \in State
  BY <1>1, ZenonT(30) DEF State
<1>4. t.heard = hs /\ t.status = s.status /\ \A f \in Kept : t[f] = s[f]
  BY DEF State, Kept
<1>5. \A f \in Beside : t[f] = s[f]
  BY DEF State, Beside
<1> HIDE DEF t
<1> QED
  BY <1>2, <1>3, <1>4, <1>5 DEF Same

\* A state is the same as itself.
LEMMA SameSelf == ASSUME NEW s \in State PROVE Same(s, s)
BY DEF Same

LEMMA CounterArgumentIs ==
  ASSUME mem \in State, disk \in State, run \in Run, CounterArgument
  PROVE  LET id == CounterId(mem)
         IN /\ id \in Plain /\ id.agent = "counter"
            /\ \/ /\ run.first > 2 /\ pc' = "final"
                  /\ UNCHANGED <<disk, mem, run, paid, made>>
               \/ /\ run.first <= 2 /\ pc' = "counter_made" /\ run' = [run EXCEPT !.id = id]
                  /\ Same(mem', mem) /\ mem'.status = mem.status
                  /\ \/ /\ id \in mem.heard /\ mem' = mem /\ disk' = disk
                        /\ UNCHANGED <<paid, made>>
                     \/ /\ id \notin paid /\ disk' = mem' /\ paid' = paid \union {id}
                        /\ mem'.heard = mem.heard \union {id}
                        /\ made' = made \union {[id |-> id, on |-> {mem.initial},
                                                 report |-> mem.report]}
               \/ /\ Ended(mem) /\ paid' = paid \union {id} /\ UNCHANGED made
<1> DEFINE id == CounterId(mem)
<1>1. mem.count \in Nat /\ run.first \in 1 .. 5
  BY DEF State, Run
<1>2. id \in Plain /\ id.agent = "counter"
  BY <1>1 DEF CounterId, Id, Plain, Stage
<1>3. \/ /\ run.first > 2 /\ pc' = "final"
         /\ UNCHANGED <<disk, mem, run, paid, made>>
      \/ /\ ~ run.first > 2 /\ pc' = "counter_made" /\ run' = [run EXCEPT !.id = id]
         /\ id \in mem.heard /\ UNCHANGED <<disk, mem, paid, made>>
      \/ /\ ~ run.first > 2 /\ paid' = paid \union {id}
         /\ \E k \in Outcomes(id) \ {"retryable"} :
              \/ /\ k = "result"
                 /\ made' = made \union {[id |-> id, on |-> {mem.initial},
                                          report |-> mem.report]}
                 /\ Save([mem EXCEPT !.heard = @ \union {id}])
                 /\ run' = [run EXCEPT !.id = id]
                 /\ pc' = "counter_made"
              \/ k = "error" /\ Fail(mem) /\ UNCHANGED made
  BY DEF CounterArgument, Goto
<1> HIDE DEF id
<1>4. id \in TaskId
  BY <1>2, PlainIsTask
<1>5. ASSUME "result" \in Outcomes(id) PROVE id \notin paid
  BY <1>5 DEF Outcomes
<1>6. Same(mem, mem)
  BY SameSelf
<1>7. ASSUME Save([mem EXCEPT !.heard = @ \union {id}])
      PROVE  /\ Same(mem', mem) /\ mem'.status = mem.status /\ disk' = mem'
             /\ mem'.heard = mem.heard \union {id}
  BY <1>4, <1>7, HeardIs DEF Save
<1>8. Fail(mem) => Ended(mem)
  BY EndsIs
<1>9. ~ run.first > 2 => run.first <= 2
  BY <1>1
<1>10. CASE /\ ~ run.first > 2 /\ paid' = paid \union {id}
            /\ \E k \in Outcomes(id) \ {"retryable"} :
                 \/ /\ k = "result"
                    /\ made' = made \union {[id |-> id, on |-> {mem.initial},
                                             report |-> mem.report]}
                    /\ Save([mem EXCEPT !.heard = @ \union {id}])
                    /\ run' = [run EXCEPT !.id = id]
                    /\ pc' = "counter_made"
                 \/ k = "error" /\ Fail(mem) /\ UNCHANGED made
  <2>1. PICK k \in Outcomes(id) :
          \/ /\ k = "result"
             /\ made' = made \union {[id |-> id, on |-> {mem.initial},
                                      report |-> mem.report]}
             /\ Save([mem EXCEPT !.heard = @ \union {id}])
             /\ run' = [run EXCEPT !.id = id]
             /\ pc' = "counter_made"
          \/ k = "error" /\ Fail(mem) /\ UNCHANGED made
    BY <1>10
  <2>2. CASE k = "error" /\ Fail(mem) /\ UNCHANGED made
    BY <1>2, <1>8, <1>10, <2>2 DEF id
  <2>3. CASE /\ k = "result"
             /\ made' = made \union {[id |-> id, on |-> {mem.initial},
                                      report |-> mem.report]}
             /\ Save([mem EXCEPT !.heard = @ \union {id}])
             /\ run' = [run EXCEPT !.id = id]
             /\ pc' = "counter_made"
    <3>1. id \notin paid
      BY <1>5, <2>3
    <3> QED
      BY <1>2, <1>7, <1>9, <1>10, <2>3, <3>1 DEF id
  <2> QED
    BY <2>1, <2>2, <2>3
<1>11. CASE /\ run.first > 2 /\ pc' = "final"
            /\ UNCHANGED <<disk, mem, run, paid, made>>
  BY <1>2, <1>11 DEF id
<1>12. CASE /\ ~ run.first > 2 /\ pc' = "counter_made" /\ run' = [run EXCEPT !.id = id]
            /\ id \in mem.heard /\ UNCHANGED <<disk, mem, paid, made>>
  <2>1. mem' = mem /\ disk' = disk /\ Same(mem', mem) /\ mem'.status = mem.status
    BY <1>6, <1>12
  <2> QED
    BY <1>2, <1>9, <1>12, <2>1 DEF id
<1> QED
  BY <1>3, <1>10, <1>11, <1>12

LEMMA FinalIs ==
  ASSUME mem \in State, run \in Run, Final, run.first > 3
  PROVE  /\ mem' \in State /\ disk' = mem' /\ run' = run /\ pc' = "review"
         /\ mem'.status = mem.status
         /\ mem'.result[2] \in {mem.result[2], NoId}
         /\ \A f \in Kept \ {"result"} : mem'[f] = mem[f]
         /\ \A f \in Beside : mem'[f] = mem[f]
<1> DEFINE p == IF mem.result[1] = NoId THEN <<mem.final, NoId>> ELSE mem.result
<1>1. ~ run.first <= 3
  BY DEF Run
<1>2. /\ Save([mem EXCEPT !.result = IF @[1] = NoId THEN <<mem.final, NoId>> ELSE @])
      /\ Goto("review") /\ run' = run
  BY <1>1 DEF Final
<1>3. mem' = [mem EXCEPT !.result = p] /\ disk' = mem' /\ run' = run /\ pc' = "review"
  BY <1>2 DEF Save, Goto, State
<1>4. p \in Pair /\ p[2] \in {mem.result[2], NoId}
  BY NothingTyped DEF State, Pair
<1> HIDE DEF p
<1>5. mem' \in State
  BY <1>3, <1>4, ZenonT(30) DEF State
<1>6. mem'.status = mem.status /\ mem'.result = p
      /\ \A f \in Kept \ {"result"} : mem'[f] = mem[f]
  BY <1>3 DEF State, Kept
<1>7. \A f \in Beside : mem'[f] = mem[f]
  BY <1>3 DEF State, Beside
<1> QED
  BY <1>3, <1>4, <1>5, <1>6, <1>7

LEMMA AskReviewIs ==
  ASSUME mem \in State, run \in Run, retries \subseteq TaskId,
         \A id \in retries : id.agent # "none", ErrorsOK(mem, paid), AskReview
  PROVE  LET id == ReviewId(mem)
         IN /\ id \in TaskId /\ id.agent # "none"
            /\ Same(mem', mem) /\ mem'.status = "REVIEWING" /\ disk' = mem'
            /\ run' = [run EXCEPT !.id = id] /\ pc' = "ask"
<1> DEFINE id == ReviewId(mem)
           sh == mem.shown \union {[id |-> id, about |-> Identity(mem)]}
<1>1. id \in TaskId /\ id.agent # "none"
  BY ReviewIdIs
<1>2. /\ mem' = [mem EXCEPT !.status = "REVIEWING", !.shown = sh] /\ disk' = mem'
      /\ run' = [run EXCEPT !.id = id] /\ pc' = "ask"
  BY DEF AskReview, Save, Goto, State
<1> HIDE DEF id
<1>3. sh \in SUBSET [id : TaskId, about : About] /\ "REVIEWING" \in Status
  <2>1. Identity(mem) \in About
    BY IdentityTyped
  <2>2. mem.shown \in SUBSET [id : TaskId, about : About] /\ "REVIEWING" \in Status
    BY DEF State, Status
  <2> QED
    BY <1>1, <2>1, <2>2
<1> HIDE DEF sh
<1>4. mem' \in State
  BY <1>2, <1>3, ZenonT(30) DEF State
<1>5. mem'.status = "REVIEWING" /\ \A f \in Kept : mem'[f] = mem[f]
  BY <1>2 DEF State, Kept
<1>6. \A f \in Beside : mem'[f] = mem[f]
  BY <1>2 DEF State, Beside
<1> QED
  BY <1>1, <1>2, <1>4, <1>5, <1>6 DEF Same, id

LEMMA AnswerReviewIs ==
  ASSUME mem \in State, run \in Run, AnswerReview, ErrorsOK(mem, paid)
  PROVE  /\ paid' = paid \union {run.id}
         /\ disk' = mem'
         /\ \/ /\ run.id \notin paid
               /\ \E verdict \in Verdict, ts \in Targets \union {{}} :
                    /\ reviews' = reviews \union
                          {[id |-> run.id, about |-> Identity(mem), report |-> mem.report,
                            verdict |-> verdict, targets |-> ts]}
                    /\ verdict = "internal" => ts # {}
               /\ Same(mem', mem) /\ mem'.status = mem.status
               /\ run' = run /\ pc' = "reviewed"
            \/ /\ UNCHANGED reviews /\ pc' = "idle" /\ run' = NoRun
               /\ mem' \in State /\ mem'.status = "FAILED"
               /\ ErrorsOK(mem', paid') /\ mem'.plan = mem.plan
               /\ \A f \in Kept : mem'[f] = mem[f]
<1>1. run.id \in TaskId
  BY DEF Run
<1>2. paid' = paid \union {run.id}
  BY DEF AnswerReview
<1>3. PICK k \in Outcomes(run.id) :
        \/ /\ k = "result"
           /\ \E verdict \in Verdict, ts \in Targets \union {{}} :
                /\ verdict = "internal" => ts # {}
                /\ reviews' = reviews \union
                     {[id |-> run.id, about |-> Identity(mem), report |-> mem.report,
                       verdict |-> verdict, targets |-> ts]}
           /\ Save([mem EXCEPT !.heard = @ \union {run.id}])
           /\ pc' = "reviewed" /\ UNCHANGED run
        \/ /\ k # "result"
           /\ Fail([mem EXCEPT !.reviewError = IF k = "retryable" THEN run.id ELSE @])
           /\ UNCHANGED reviews
  BY DEF AnswerReview, Goto
<1>4. CASE k = "result"
  <2>1. run.id \notin paid
    BY <1>3, <1>4 DEF Outcomes
  <2>2. Same(mem', mem) /\ mem'.status = mem.status /\ disk' = mem'
    <3>1. Save([mem EXCEPT !.heard = @ \union {run.id}])
      BY <1>3, <1>4
    <3> QED
      BY <1>1, <3>1, HeardIs DEF Save
  <2>3. PICK verdict \in Verdict, ts \in Targets \union {{}} :
          /\ verdict = "internal" => ts # {}
          /\ reviews' = reviews \union
               {[id |-> run.id, about |-> Identity(mem), report |-> mem.report,
                 verdict |-> verdict, targets |-> ts]}
    BY <1>3, <1>4
  <2>4. run' = run /\ pc' = "reviewed"
    BY <1>3, <1>4
  <2>5. \E verdict2 \in Verdict, ts2 \in Targets \union {{}} :
          /\ reviews' = reviews \union
                {[id |-> run.id, about |-> Identity(mem), report |-> mem.report,
                  verdict |-> verdict2, targets |-> ts2]}
          /\ verdict2 = "internal" => ts2 # {}
    BY <2>3, Zenon
  <2> QED
    BY <1>2, <2>1, <2>2, <2>4, <2>5, Zenon
<1>5. CASE k # "result"
  <2> DEFINE e == IF k = "retryable" THEN run.id ELSE mem.reviewError
             t == [mem EXCEPT !.reviewError = e]
  <2>1. t = [mem EXCEPT !.reviewError = IF k = "retryable" THEN run.id ELSE @]
    BY DEF State
  <2>2. e \in TaskId /\ e \in paid' \union {NoId}
    BY <1>1, <1>2 DEF State, ErrorsOK
  <2> HIDE DEF e
  <2>3. t \in State
    BY <2>2, ZenonT(30) DEF State
  <2>4. /\ t.reviewError = e /\ t.plan = mem.plan /\ t.faults = mem.faults
        /\ t.primaryError = mem.primaryError
        /\ \A f \in Kept : t[f] = mem[f]
    BY DEF State, Kept
  <2> HIDE DEF t
  <2>5. Fail(t) /\ UNCHANGED reviews
    BY <1>3, <1>5, <2>1
  <2>6. Ended(t) /\ mem'.status = "FAILED"
    BY <2>3, <2>5, EndsIs
  <2>7. ErrorsOK(mem', paid')
    BY <1>2, <2>2, <2>4, <2>6, SameIs DEF Ended, ErrorsOK
  <2>8. \A f \in Kept : mem'[f] = mem[f]
    BY <2>4, <2>6 DEF Ended, Same
  <2>9. mem'.plan = mem.plan
    BY <2>4, <2>6, SameIs DEF Ended
  <2> QED
    BY <1>2, <2>5, <2>6, <2>7, <2>8, <2>9 DEF Ended, Same
<1> QED
  BY <1>4, <1>5

LEMMA ReviewedIs ==
  ASSUME mem \in State, run \in Run, Reviewed
  PROVE  /\ mem' \in State /\ disk' = mem' /\ run' = run /\ pc' = "decide"
         /\ mem'.review = run.id /\ mem'.at = [mem.at EXCEPT !["review"] = mem.count]
         /\ mem'.status = mem.status
         /\ \A f \in Kept \ {"review", "at"} : mem'[f] = mem[f]
         /\ \A f \in Beside : mem'[f] = mem[f]
<1> DEFINE at == [mem.at EXCEPT !["review"] = mem.count]
           id == run.id
<1>1. mem' = [mem EXCEPT !.review = id, !.at = at] /\ disk' = mem' /\ run' = run /\ pc' = "decide"
  BY DEF Reviewed, Save, Goto, State
<1>2. at \in [Primary \union Stage -> Nat] /\ id \in TaskId
  BY DEF State, Run
<1> HIDE DEF at, id
<1>3. mem' \in State
  BY <1>1, <1>2, ZenonT(30) DEF State
<1>4. mem'.review = id /\ mem'.at = at /\ mem'.status = mem.status
      /\ \A f \in Kept \ {"review", "at"} : mem'[f] = mem[f]
  BY <1>1 DEF State, Kept
<1>5. \A f \in Beside : mem'[f] = mem[f]
  BY <1>1 DEF State, Beside
<1> QED
  BY <1>1, <1>3, <1>4, <1>5 DEF at, id

\* The revision under way is settled, or its result disagrees with one that was filed.
LEMMA FinalizeIs ==
  ASSUME mem \in State, Finalize
  PROVE  LET p == IF Review(mem).verdict = "approved" THEN <<mem.final, mem.review>>
                  ELSE mem.result
         IN /\ mem.phase = "executing" /\ Review(mem).verdict # "forbidden"
            /\ results' = results \union
                 IF \E x \in results : x.request = mem.active THEN {}
                 ELSE {[request |-> mem.active, status |-> Outcome(mem), result |-> p]}
            /\ \/ Ended(mem) \/ Left
               \/ /\ mem' \in State /\ UNCHANGED <<disk, pc, run>>
                  /\ mem'.phase = "completed" /\ mem'.result = p
                  /\ mem'.status = mem.status
                  /\ \A f \in Kept \ {"phase", "result"} : mem'[f] = mem[f]
                  /\ \A f \in Beside \ {"plan"} : mem'[f] = mem[f]
<1> DEFINE p == IF Review(mem).verdict = "approved" THEN <<mem.final, mem.review>>
                ELSE mem.result
           s == [mem EXCEPT !.result = p]
           cs == mem.consumed \union {mem.active}
           t == [mem EXCEPT !.result = p, !.phase = "completed", !.consumed = cs, !.plan = NoId,
                            !.planned = {}, !.awaiting = FALSE]
<1>1. s = [mem EXCEPT !.result = IF Review(mem).verdict = "approved"
                                 THEN <<mem.final, mem.review>> ELSE @]
  BY DEF State
<1>2. s.result = p
  BY DEF State
<1>3. [s EXCEPT !.phase = "completed", !.consumed = @ \union {mem.active},
                !.plan = NoId, !.planned = {}, !.awaiting = FALSE] = t
  BY DEF State
<1>4. p \in Pair
  BY DEF State, Pair
<1>5. cs \in SUBSET Request /\ {} \in SUBSET Legal /\ FALSE \in BOOLEAN /\ "completed" \in Phase
  BY DEF State, Phase
<1>6. /\ mem.phase = "executing" /\ Review(mem).verdict # "forbidden"
      /\ results' = results \union
           IF \E x \in results : x.request = mem.active THEN {}
           ELSE {[request |-> mem.active, status |-> Outcome(mem), result |-> s.result]}
  BY <1>1 DEF Finalize
<1>7. \/ Uncaught(mem)
      \/ mem' = t /\ UNCHANGED <<disk, pc, run>>
  BY <1>1, <1>3 DEF Finalize
<1> HIDE DEF cs, s
<1>8. t \in State
  <2> HIDE DEF p
  <2> QED
    BY <1>4, <1>5, NothingTyped, ZenonT(30) DEF State
<1>9. /\ t.phase = "completed" /\ t.result = p /\ t.status = mem.status
      /\ \A f \in Kept \ {"phase", "result"} : t[f] = mem[f]
  <2> HIDE DEF p
  <2> QED
    BY DEF State, Kept
<1>10. \A f \in Beside \ {"plan"} : t[f] = mem[f]
  <2> HIDE DEF p
  <2> QED
    BY DEF State, Beside
<1> HIDE DEF t
<1>11. Uncaught(mem) => Ended(mem) \/ Left
  BY EndsIs
<1> QED
  BY <1>2, <1>6, <1>7, <1>8, <1>9, <1>10, <1>11

\* A plan and its file, or a file that is there already and differs.
LEMMA PlanIs ==
  ASSUME NEW s \in State, NEW ts \in SUBSET Legal, NEW next, Plan(s, ts, next)
  PROVE  LET r == InternalRequest(s, ts)
         IN \/ (Ended(s) \/ Left) /\ UNCHANGED requests
            \/ /\ requests' = requests \union {r}
               /\ mem' = Planned(s, r) /\ pc' = next
               /\ UNCHANGED <<disk, run>>
<1>1. Uncaught(s) => Ended(s) \/ Left
  BY EndsIs
<1> QED
  BY <1>1 DEF Plan, Goto

\* The state a new report is planned on.
ResumedAs(s, h, r) ==
  [s EXCEPT !.report = @ + 1, !.handoff = h, !.result = <<NoId, NoId>>,
            !.failed = {}, !.status = "RUNNING", !.consumed = @ \union {r}]

LEMMA ResumedIs ==
  ASSUME NEW s \in State, NEW h \in Nat, NEW r \in Request
  PROVE  LET t == ResumedAs(s, h, r)
         IN /\ t \in State /\ t.status = "RUNNING" /\ t.result = <<NoId, NoId>>
            /\ \A f \in Kept \ {"result"} : t[f] = s[f]
            /\ \A f \in Beside : t[f] = s[f]
<1> DEFINE n == s.report + 1
           cs == s.consumed \union {r}
           p == <<NoId, NoId>>
           t == [s EXCEPT !.report = n, !.handoff = h, !.result = p,
                          !.failed = {}, !.status = "RUNNING", !.consumed = cs]
<1>1. t = ResumedAs(s, h, r)
  BY DEF State, ResumedAs
<1>2. /\ n \in Nat /\ cs \in SUBSET Request /\ p \in Pair /\ {} \in SUBSET Primary
      /\ "RUNNING" \in Status
  BY NothingTyped DEF State, Status
<1>3. p = <<NoId, NoId>>
  OBVIOUS
<1> HIDE DEF n, cs, p
<1>4. t \in State
  BY <1>2, ZenonT(30) DEF State
<1>5. t.status = "RUNNING" /\ t.result = p /\ \A f \in Kept \ {"result"} : t[f] = s[f]
  BY DEF State, Kept
<1>6. \A f \in Beside : t[f] = s[f]
  BY DEF State, Beside
<1> HIDE DEF t
<1> QED
  BY <1>1, <1>3, <1>4, <1>5, <1>6

\* The targets of what is planned on it.
LEMMA AskedAgain ==
  ASSUME mem \in State
  PROVE  LET ts == (IF mem.planned = {} THEN {Manager} ELSE mem.planned) \union Missing(mem)
         IN ts \in SUBSET Legal /\ ts # {}
<1> DEFINE as == IF mem.planned = {} THEN {Manager} ELSE mem.planned
<1>1. mem.planned \in SUBSET Legal
  BY DEF State
<1>2. as \in SUBSET Legal /\ as # {}
  BY <1>1 DEF Legal
<1>3. Missing(mem) \in SUBSET Legal
  BY DEF Legal, Missing
<1> HIDE DEF as
<1>4. as \union Missing(mem) \in SUBSET Legal /\ as \union Missing(mem) # {}
  BY <1>2, <1>3
<1> QED
  BY <1>4 DEF as

\* A state in which the request is taken up.
ActiveAs(s, r, x, ph, e) ==
  [s EXCEPT !.phase = ph, !.epoch = e, !.active = r, !.status = x]

LEMMA ActiveIs ==
  ASSUME NEW s \in State, NEW r \in Request, NEW x \in Status, NEW ph \in Phase,
         NEW e \in Nat
  PROVE  LET t == ActiveAs(s, r, x, ph, e)
         IN /\ t \in State /\ t.phase = ph /\ t.active = r /\ t.status = x
            /\ \A f \in Kept \ {"phase", "active"} : t[f] = s[f]
            /\ \A f \in Beside : t[f] = s[f]
<1> DEFINE t == ActiveAs(s, r, x, ph, e)
<1> USE DEF ActiveAs
<1>1. t \in State
  BY ZenonT(30) DEF State
<1>2. t.phase = ph /\ t.active = r /\ t.status = x
      /\ \A f \in Kept \ {"phase", "active"} : t[f] = s[f]
  BY DEF State, Kept
<1>3. \A f \in Beside : t[f] = s[f]
  BY DEF State, Beside
<1> QED
  BY <1>1, <1>2, <1>3

\* A revision is authorized under a number: of its own, unless reused says otherwise.
LEMMA AuthorizeIs ==
  ASSUME mem \in State, slots \in Seq(Request), reused \in BOOLEAN, Authorize
  PROVE  /\ \E c \in Nat :
              /\ c >= mem.count /\ c > 0
              /\ mem.active.route # "internal" => c > mem.count
              /\ ~reused' => c > mem.count
              /\ mem'.count = c
         /\ mem' \in State /\ mem'.phase = "executing" /\ mem'.status = "REVISING"
         /\ \A f \in Kept \ {"phase", "count"} : mem'[f] = mem[f]
         /\ \A f \in Beside : mem'[f] = mem[f]
         /\ disk' = disk /\ run' = run /\ pc' = "executing"
         /\ slots' \in Seq(Request) /\ reused' \in BOOLEAN
         /\ spent' = spent \union {mem.active}
<1> DEFINE r == mem.active
           number == IF SlotOf(r) # {} THEN CHOOSE i \in SlotOf(r) : TRUE ELSE Len(slots) + 1
           c == IF r.route = "internal" THEN Greater(mem.count, number) ELSE mem.count + 1
<1>1. mem.count \in Nat /\ r \in Request
  BY DEF State
<1>2. number \in Nat /\ number > 0
  BY DEF SlotOf
<1>3. reused' = (reused \/ (r.route = "internal" /\ number <= mem.count))
  BY DEF Authorize
<1>4. mem' = [mem EXCEPT !.count = c, !.phase = "executing", !.status = "REVISING"]
  BY DEF Authorize, State
<1>5. disk' = disk /\ run' = run /\ pc' = "executing" /\ spent' = spent \union {mem.active}
  BY DEF Authorize, Goto
<1>6. slots' = slots \/ slots' = Append(slots, r)
  BY DEF Authorize
<1> HIDE DEF number
<1>7. /\ c \in Nat /\ c >= mem.count /\ c > 0
      /\ r.route # "internal" => c > mem.count
      /\ ~reused' => c > mem.count
  <2>1. ~reused' => ~(r.route = "internal" /\ number <= mem.count)
    BY <1>3
  <2>2. CASE r.route = "internal"
    <3>1. c = IF mem.count > number THEN mem.count ELSE number
      BY <2>2 DEF Greater
    <3>2. ~reused' => number > mem.count
      BY <1>1, <1>2, <2>1, <2>2
    <3> HIDE DEF c
    <3> QED
      BY <1>1, <1>2, <2>2, <3>1, <3>2
  <2>3. CASE r.route # "internal"
    BY <1>1, <2>3
  <2> QED
    BY <2>2, <2>3
<1> HIDE DEF c
<1>8. "executing" \in Phase /\ "REVISING" \in Status
  BY DEF Phase, Status
<1>9. /\ mem' \in State /\ mem'.phase = "executing" /\ mem'.count = c
      /\ mem'.status = "REVISING"
      /\ \A f \in Kept \ {"phase", "count"} : mem'[f] = mem[f]
      /\ \A f \in Beside : mem'[f] = mem[f]
  <2>1. mem' \in State
    BY <1>4, <1>7, <1>8, ZenonT(30) DEF State
  <2>2. /\ mem'.phase = "executing" /\ mem'.count = c /\ mem'.status = "REVISING"
        /\ \A f \in Kept \ {"phase", "count"} : mem'[f] = mem[f]
    BY <1>4 DEF State, Kept
  <2>3. \A f \in Beside : mem'[f] = mem[f]
    BY <1>4 DEF State, Beside
  <2> QED
    BY <2>1, <2>2, <2>3
<1>10. slots' \in Seq(Request)
  BY <1>1, <1>6
<1> QED
  BY <1>3, <1>4, <1>5, <1>7, <1>9, <1>10

\* The limit is reached: the request is noted under the number past it.
LEMMA ExhaustedIs ==
  ASSUME mem \in State, Exhausted
  PROVE  \/ Left
         \/ /\ mem' \in State /\ disk' = mem' /\ pc' = "idle" /\ run' = NoRun
            /\ mem'.status = "BLOCKED" /\ mem'.phase = "blocked"
            /\ mem'.count \in Nat /\ mem'.count >= mem.count
            /\ mem.history \subseteq mem'.history
            /\ \A h \in mem'.history : h \in mem.history \/ h.iteration = mem'.count
            /\ \A f \in Kept \ {"phase", "count", "history"} : mem'[f] = mem[f]
            /\ \A f \in Beside : mem'[f] = mem[f]
<1> DEFINE c == Greater(mem.count, MaxRevisions)
           s == [mem EXCEPT !.count = c]
           h == History(s, mem.active.targets)
           ts == mem.active.targets
<1>1. /\ mem.count \in Nat /\ MaxRevisions \in Nat /\ ts \in SUBSET Legal
      /\ mem.status \in Status /\ mem.phase \in Phase
  BY LimitAssumption DEF State, Request
<1>2. c \in Nat /\ c >= mem.count
  BY <1>1 DEF Greater
<1>3. s = [mem EXCEPT !.count = Greater(@, MaxRevisions)]
  BY DEF State
<1>4. Left \/ Block([h EXCEPT !.phase = "blocked"])
  BY <1>3, EndsIs DEF Exhausted
<1> HIDE DEF c
<1>5. s \in State
  BY <1>2, ZenonT(30) DEF State
<1>6. /\ s.count = c /\ (\A f \in Kept \ {"count"} : s[f] = mem[f])
      /\ \A f \in Beside : s[f] = mem[f]
  <2>1. s.count = c /\ \A f \in Kept \ {"count"} : s[f] = mem[f]
    BY DEF State, Kept
  <2>2. \A f \in Beside : s[f] = mem[f]
    BY DEF State, Beside
  <2> QED
    BY <2>1, <2>2
<1> HIDE DEF s, ts
<1>7. /\ h \in State
      /\ s.history \subseteq h.history
      /\ h.history \subseteq s.history \union {[iteration |-> s.count, targets |-> ts]}
      /\ \A f \in Kept \ {"history"} : h[f] = s[f]
      /\ \A f \in {"faults", "primaryError", "reviewError", "status", "plan"} : h[f] = s[f]
  BY <1>1, <1>5, HistoryIs DEF ts
<1>8. s.history = mem.history
  BY <1>6 DEF Kept
<1>9. /\ mem.history \subseteq h.history /\ h.count = c
      /\ \A g \in h.history : g \in mem.history \/ g.iteration = c
      /\ \A f \in Kept \ {"count", "history"} : h[f] = mem[f]
      /\ \A f \in Beside : h[f] = mem[f]
  BY <1>6, <1>7, <1>8 DEF Kept, Beside
<1>10. h \in State
  BY <1>7
<1> HIDE DEF h
<1> DEFINE u == [h EXCEPT !.phase = "blocked"]
<1>11. u \in State
  BY <1>10, ZenonT(30) DEF State, Phase
<1>12. /\ u.phase = "blocked" /\ (\A f \in Kept \ {"phase"} : u[f] = h[f])
       /\ \A f \in Beside : u[f] = h[f]
  <2>1. u.phase = "blocked" /\ \A f \in Kept \ {"phase"} : u[f] = h[f]
    BY <1>10 DEF State, Kept
  <2>2. \A f \in Beside : u[f] = h[f]
    BY <1>10 DEF State, Beside
  <2> QED
    BY <2>1, <2>2
<1> HIDE DEF u
<1>13. ASSUME Block(u)
       PROVE  /\ mem' \in State /\ disk' = mem' /\ pc' = "idle" /\ run' = NoRun
              /\ mem'.status = "BLOCKED"
              /\ \A f \in Kept : mem'[f] = u[f]
              /\ \A f \in Beside : mem'[f] = u[f]
  <2>1. mem' = [u EXCEPT !.status = "BLOCKED"] /\ disk' = mem' /\ pc' = "idle" /\ run' = NoRun
    BY <1>13 DEF Block, SaveAndEnd, Save, End
  <2>2. "BLOCKED" \in Status
    BY DEF Status
  <2> QED
    BY <1>11, <2>1, <2>2, StatusIs
<1>14. ASSUME Block(u)
       PROVE  /\ mem'.phase = "blocked" /\ mem'.count = c /\ mem'.history = h.history
              /\ \A f \in Kept \ {"phase", "count", "history"} : mem'[f] = mem[f]
              /\ \A f \in Beside : mem'[f] = mem[f]
  <2>1. \A f \in Kept : mem'[f] = u[f]
    BY <1>13, <1>14
  <2>2. mem'.phase = u.phase /\ mem'.count = u.count /\ mem'.history = u.history
    BY <2>1 DEF Kept
  <2>3. u.count = h.count /\ u.history = h.history
    BY <1>12 DEF Kept
  <2>4. \A f \in Kept \ {"phase", "count", "history"} : mem'[f] = mem[f]
    BY <1>9, <1>12, <2>1
  <2>5. \A f \in Beside : mem'[f] = mem[f]
    BY <1>9, <1>12, <1>13, <1>14
  <2> QED
    BY <1>9, <1>12, <2>2, <2>3, <2>4, <2>5
<1> QED
  BY <1>2, <1>4, <1>9, <1>13, <1>14 DEF u

\* The revision begins on its review, read from the request if the state has none.
LEMMA BeginIs ==
  ASSUME mem \in State, reviews \subseteq Judgement, Begin,
         mem.active.route = "internal" => \E v \in reviews : v.id = mem.active.review
  PROVE  LET r == mem.active
             ps == r.targets \intersect Primary
             lost == r.route = "internal" /\ mem.review = NoId
         IN \/ Left
            \/ \E s \in State :
                 /\ s.review = IF lost THEN r.review ELSE mem.review
                 /\ s.review # NoId
                 /\ r.route = "internal" /\ ~lost =>
                      mem.plan \in {NoId, mem.review}
                 /\ s.status = mem.status
                 /\ ~lost => s.plan = mem.plan
                 /\ lost => s.plan = r.review
                 /\ \A f \in Kept \ {"review"} : s[f] = mem[f]
                 /\ \A f \in Beside \ {"plan"} : s[f] = mem[f]
                 /\ mem' = History(s, r.targets) /\ disk' = mem'
                 /\ run' = [run EXCEPT !.then = "revise", !.recovery = 1,
                                       !.first = FirstStage(r.targets),
                                       !.todo = {Id(p, mem.count, 0) : p \in ps}]
                 /\ pc' = IF ps # {} THEN "dispatch" ELSE "initial"
<1> DEFINE r == mem.active
           ps == r.targets \intersect Primary
           lost == r.route = "internal" /\ mem.review = NoId
           ts == (CHOOSE v \in reviews : v.id = r.review).targets
           u == [mem EXCEPT !.review = r.review, !.plan = r.review, !.awaiting = FALSE,
                            !.planned = ts]
           s == IF ~lost THEN mem ELSE u
<1>1. \/ Left
      \/ /\ ~ (IF r.route = "internal" THEN ~PlanIsReviewed(s) ELSE mem.review = NoId)
         /\ mem' = History(s, r.targets) /\ disk' = mem'
         /\ run' = [run EXCEPT !.then = "revise", !.recovery = 1,
                               !.first = FirstStage(r.targets),
                               !.todo = {Id(p, mem.count, 0) : p \in ps}]
         /\ pc' = IF ps # {} THEN "dispatch" ELSE "initial"
  BY EndsIs DEF Begin, Save, Goto
<1>2. r \in Request /\ r.review \in TaskId
  BY DEF State, Request
<1>3. CASE ~lost
  <2>1. s = mem
    BY <1>3
  <2>2. ASSUME ~ (IF r.route = "internal" THEN ~PlanIsReviewed(s) ELSE mem.review = NoId)
        PROVE  mem.review # NoId /\ (r.route = "internal" => mem.plan \in {NoId, mem.review})
    BY <2>1, <2>2 DEF PlanIsReviewed
  <2> HIDE DEF s, u, r
  <2> QED
    BY <1>1, <1>3, <2>1, <2>2 DEF r
<1>4. CASE lost
  <2>1. s = u
    BY <1>4
  <2>2. ts \in SUBSET Legal
    BY <1>4 DEF Judgement
  <2>3. u \in State
    <3> HIDE DEF ts, r
    <3> QED
      BY <1>2, <2>2, ZenonT(30) DEF State
  <2>4. /\ u.review = r.review /\ u.plan = r.review /\ u.status = mem.status
        /\ \A f \in Kept \ {"review"} : u[f] = mem[f]
    <3> HIDE DEF ts, r
    <3> QED
      BY DEF State, Kept
  <2>5. \A f \in Beside \ {"plan"} : u[f] = mem[f]
    <3> HIDE DEF ts, r
    <3> QED
      BY DEF State, Beside
  <2> HIDE DEF u
  <2>6. ASSUME ~ (IF r.route = "internal" THEN ~PlanIsReviewed(s) ELSE mem.review = NoId)
        PROVE  u.review # NoId
    BY <1>4, <2>1, <2>6 DEF PlanIsReviewed
  <2> HIDE DEF s
  <2> QED
    BY <1>1, <1>4, <2>1, <2>3, <2>4, <2>5, <2>6
<1> QED
  BY <1>3, <1>4

\* The state recover() goes on with.
LEMMA RecoverBeginsIs ==
  ASSUME mem \in State, RecoverBegins
  PROVE  LET t == Closed(mem)
         IN /\ Same(mem', t) /\ mem'.status = "RUNNING" /\ disk' = mem'
            /\ run' = [run EXCEPT !.then = "recover", !.recovery = 1, !.again = Again(mem)]
            /\ pc' = "primaries"
<1>1. mem' = [Closed(mem) EXCEPT !.status = "RUNNING"] /\ disk' = mem'
  BY DEF RecoverBegins, Save
<1>2. run' = [run EXCEPT !.then = "recover", !.recovery = 1, !.again = Again(mem)]
      /\ pc' = "primaries"
  BY DEF RecoverBegins, Goto
<1>3. Closed(mem) \in State /\ "RUNNING" \in Status
  BY ClosedIs DEF Status
<1>4. Same(mem', Closed(mem)) /\ mem'.status = "RUNNING"
  BY <1>1, <1>3, StatusIs DEF Same
<1> QED
  BY <1>1, <1>2, <1>4

\* The analyses that are not of the last task asked are left out.
Closing(s) ==
  [s EXCEPT !.analyses = [p \in Primary |-> IF p \in Valid(s) THEN @[p] ELSE NoId]]

LEMMA ClosingIs ==
  ASSUME NEW s \in State
  PROVE  LET t == Closing(s)
         IN /\ t \in State
            /\ \A p \in Primary : t.analyses[p] = IF p \in Valid(s) THEN s.analyses[p] ELSE NoId
            /\ t.status = s.status
            /\ \A f \in Kept \ {"analyses"} : t[f] = s[f]
            /\ \A f \in Beside : t[f] = s[f]
<1> DEFINE as == [p \in Primary |-> IF p \in Valid(s) THEN s.analyses[p] ELSE NoId]
           t == [s EXCEPT !.analyses = as]
<1>1. Closing(s) = t
  BY DEF Closing, State
<1>2. as \in [Primary -> Plain]
  BY NothingTyped DEF State
<1>3. \A p \in Primary : as[p] = IF p \in Valid(s) THEN s.analyses[p] ELSE NoId
  OBVIOUS
<1> HIDE DEF as
<1>4. t \in State
  BY <1>2, ZenonT(30) DEF State
<1>5. t.analyses = as /\ t.status = s.status /\ \A f \in Kept \ {"analyses"} : t[f] = s[f]
  BY DEF State, Kept
<1>6. \A f \in Beside : t[f] = s[f]
  BY DEF State, Beside
<1> HIDE DEF t
<1> QED
  BY <1>1, <1>3, <1>4, <1>5, <1>6

\* It fails, asks the analysts that are missing with nothing integrated, or goes on with
\* what is there.
LEMMA RecoverPrimariesIs ==
  ASSUME mem \in State, RecoverPrimaries
  PROVE  /\ \/ Ended(Closing(mem))
            \/ /\ Ambiguous(mem) = {}
               /\ mem' = Cleared(Closing(mem), 1) /\ disk' = mem'
               /\ run' = [run EXCEPT !.todo = {TaskAgain(mem, p) : p \in Incomplete(mem)}]
               /\ pc' = "dispatch"
            \/ /\ mem' = Closing(mem) /\ disk' = disk /\ run' = run /\ pc' = "checkpoints"
<1>1. Closing(mem) \in State
  BY ClosingIs
<1>2. \/ Fail(Closing(mem))
      \/ /\ Ambiguous(mem) = {}
         /\ mem' = Cleared(Closing(mem), 1) /\ disk' = mem'
         /\ run' = [run EXCEPT !.todo = {TaskAgain(mem, p) : p \in Incomplete(mem)}]
         /\ pc' = "dispatch"
      \/ /\ mem' = Closing(mem) /\ disk' = disk /\ run' = run /\ pc' = "checkpoints"
  BY DEF RecoverPrimaries, Save, Goto, Closing
<1> QED
  BY <1>1, <1>2, EndsIs

\* The first stage that is made again, if one is.
LEMMA FirstMissingIs ==
  ASSUME NEW s \in State, run \in Run
  PROVE  LET n == FirstMissing(s)
         IN /\ n \in 1 .. 5
            /\ n > 1 => s.initial # NoId /\ ~GivenUp(s, "initial")
            /\ n > 2 => s.counter # NoId /\ ~GivenUp(s, "counter")
            /\ n > 3 => /\ s.final # NoId /\ ~GivenUp(s, "final")
                        /\ \E m \in made : m.id = s.final /\ s.initial \in m.on
            /\ n > 4 => s.review # NoId /\ ~GivenUp(s, "review")
<1>1. \A stage \in {"initial", "counter", "final", "review"} :
        CheckpointIsCurrent(s, stage) <=> ~GivenUp(s, stage)
  BY CurrentIs DEF Stage
<1> DEFINE A == s.initial = NoId \/ ~CheckpointIsCurrent(s, "initial")
           B == s.counter = NoId \/ ~CheckpointIsCurrent(s, "counter")
           C == \/ s.final = NoId \/ ~CheckpointIsCurrent(s, "final")
                \/ \A m \in made : m.id = s.final => s.initial \notin m.on
           D == run.again \/ s.review = NoId \/ ~CheckpointIsCurrent(s, "review")
           n == FirstMissing(s)
<1>2. n = IF A THEN 1 ELSE IF B THEN 2 ELSE IF C THEN 3 ELSE IF D THEN 4 ELSE 5
  BY DEF FirstMissing
<1>3. /\ ~A => s.initial # NoId /\ ~GivenUp(s, "initial")
      /\ ~B => s.counter # NoId /\ ~GivenUp(s, "counter")
      /\ ~C => /\ s.final # NoId /\ ~GivenUp(s, "final")
               /\ \E m \in made : m.id = s.final /\ s.initial \in m.on
      /\ ~D => s.review # NoId /\ ~GivenUp(s, "review")
  BY <1>1
<1> HIDE DEF A, B, C, D, n
<1>4. \/ n = 1
      \/ n = 2 /\ ~A
      \/ n = 3 /\ ~A /\ ~B
      \/ n = 4 /\ ~A /\ ~B /\ ~C
      \/ n = 5 /\ ~A /\ ~B /\ ~C /\ ~D
  BY <1>2
<1> QED
  BY <1>3, <1>4 DEF n

LEMMA RecoverCheckpointsIs ==
  ASSUME mem \in State, disk \in State, run \in Run, RecoverCheckpoints
  PROVE  LET n == FirstMissing(mem)
         IN \/ /\ n \in 1 .. 4 /\ mem' = Cleared(mem, n) /\ disk' = mem' /\ pc' = "initial"
               /\ run' = [run EXCEPT !.first = n, !.reuse = n < 4 \/ ~run.again]
            \/ /\ n = 5 /\ run' = [run EXCEPT !.then = "decide"] /\ pc' = "decide"
               /\ UNCHANGED <<disk, mem>>
<1> DEFINE n == CHOOSE n \in 1 .. 5 : n = FirstMissing(mem)
<1>1. FirstMissing(mem) \in 1 .. 5
  BY FirstMissingIs
<1>2. n = FirstMissing(mem)
  BY <1>1
<1>3. \/ /\ n < 5 /\ mem' = Cleared(mem, n) /\ disk' = mem' /\ pc' = "initial"
         /\ run' = [run EXCEPT !.first = n, !.reuse = n < 4 \/ ~run.again]
      \/ /\ n = 5 /\ run' = [run EXCEPT !.then = "decide"] /\ pc' = "decide"
         /\ UNCHANGED <<disk, mem>>
  BY DEF RecoverCheckpoints, Save, Goto
<1> HIDE DEF n
<1>4. n < 5 => n \in 1 .. 4
  BY <1>1, <1>2
<1> QED
  BY <1>2, <1>3, <1>4

\* What the steps need of the invariant.
LEMMA KnownIs ==
  ASSUME IInv
  PROVE  /\ mem \in State /\ disk \in State /\ run \in Run
         /\ paid \subseteq TaskId /\ retries \subseteq TaskId /\ reviews \subseteq Judgement
         /\ requests \subseteq Request /\ results \subseteq Answered /\ slots \in Seq(Request)
         /\ reused \in BOOLEAN
         /\ \A id \in retries : id.agent # "none"
         /\ \A v, w \in reviews : w.id = v.id => w = v
         /\ ErrorsOK(mem, paid) /\ ErrorsOK(disk, paid)
BY DEF IInv, TypeInv, PaidInv, StatesInv, Good

\* A command that ends leaves a state.
LEMMA EndedTyped ==
  ASSUME disk \in State, NEW s
  PROVE  Ended(s) \/ Left => mem' \in State
BY DEF Ended, Left, Same

LEMMA LineTyped == IInv /\ Line => mem' \in State
<1> SUFFICES ASSUME IInv, Line PROVE mem' \in State
  OBVIOUS
<1>0. /\ mem \in State /\ disk \in State /\ run \in Run /\ CommandInv
      /\ ErrorsOK(mem, paid) /\ retries \subseteq TaskId
      /\ \A id \in retries : id.agent # "none"
  BY KnownIs DEF IInv
<1>1. CASE Dispatch
  BY <1>0, <1>1, DispatchIs
<1>2. CASE Gather \/ ReuseReview
  BY <1>0, <1>2 DEF Gather, ReuseReview
<1>3. CASE Record
  <2>1. PICK x \in run.got :
           /\ x[1] \in Plain /\ x[1].agent \in Primary /\ x[2] \in Kind
           /\ mem' = Recorded(mem, x[1], x[2])
    BY <1>0, <1>3, RecordIs
  <2> QED
    BY <1>0, <2>1, RecordedIs
<1>4. CASE Collected
  BY <1>0, <1>4, CollectedIs DEF Ended, Same
<1>5. CASE Initial
  <2>1. UNCHANGED mem \/ \E on, next : Integrate("initial", on, next)
    BY <1>5 DEF Initial
  <2> QED
    BY <1>0, <2>1, IntegrateIs
<1>6. CASE InitialMade
  <2>4. Save([mem EXCEPT !.initial = run.id, !.at.initial = mem.count,
                         !.status = "INTEGRATING"])
    BY <1>6 DEF InitialMade
  <2>1. mem' = [mem EXCEPT !.initial = run.id, !.at = [mem.at EXCEPT !["initial"] = mem.count],
                           !.status = "INTEGRATING"]
    BY <2>4 DEF Save
  <2>3. run.id \in Plain
    BY <1>0, <1>6 DEF InitialMade, CommandInv
  <2>2. "INTEGRATING" \in Status /\ mem.result \in Pair
    BY <1>0 DEF Status, State
  <2> DEFINE at == [mem.at EXCEPT !["initial"] = mem.count]
  <2>5. at \in [Primary \union Stage -> Nat]
    BY <1>0 DEF State, Stage
  <2>6. mem' = [mem EXCEPT !.initial = run.id, !.at = at, !.status = "INTEGRATING"]
    BY <2>1
  <2> HIDE DEF at
  <2> QED
    BY <1>0, <2>2, <2>3, <2>5, <2>6, ZenonT(30) DEF State
<1>7. CASE CounterArgument
  BY <1>0, <1>7, CounterArgumentIs DEF Ended, Same
<1>8. CASE CounterMade
  <2>1. /\ mem' = [mem EXCEPT !.counter = run.id, !.at = [mem.at EXCEPT !["counter"] = mem.count]]
        /\ run.id \in Plain
    BY <1>0, <1>8 DEF CounterMade, Save, CommandInv, State
  <2>2. mem.status \in Status /\ mem.result \in Pair
    BY <1>0 DEF State
  <2> QED
    BY <1>0, <2>1, <2>2, MadeIs
<1>9. CASE Final
  <2>1. CASE run.first > 3
    BY <1>0, <1>9, <2>1, FinalIs
  <2>2. CASE ~ run.first > 3
    <3>1. \E on, next : Integrate("final", on, next)
      BY <1>9, <2>2 DEF Final
    <3> QED
      BY <1>0, <3>1, IntegrateIs
  <2> QED
    BY <2>1, <2>2
<1>10. CASE FinalMade
  <2>4. Save([mem EXCEPT !.final = run.id, !.at.final = mem.count,
                          !.result = <<run.id, NoId>>])
    BY <1>10 DEF FinalMade
  <2>1. mem' = [mem EXCEPT !.final = run.id, !.at = [mem.at EXCEPT !["final"] = mem.count],
                           !.result = <<run.id, NoId>>]
    BY <2>4 DEF Save
  <2>3. run.id \in Plain
    BY <1>0, <1>10 DEF FinalMade, CommandInv
  <2>2. mem.status \in Status /\ <<run.id, NoId>> \in Pair
    BY <1>0, <2>3, NothingTyped DEF State, Pair
  <2> QED
    BY <1>0, <2>1, <2>2, <2>3, MadeIs
<1>11. CASE AskReview
  BY <1>0, <1>11, AskReviewIs DEF Same
<1>12. CASE AnswerReview
  BY <1>0, <1>12, AnswerReviewIs DEF Same
<1>13. CASE Reviewed
  BY <1>0, <1>13, ReviewedIs
<1> QED
  BY <1>1, <1>2, <1>3, <1>4, <1>5, <1>6, <1>7, <1>8, <1>9, <1>10, <1>11, <1>12, <1>13
     DEF Line

\* The verdict a decision follows.
LEMMA DecidingIs ==
  ASSUME IInv, pc = "decide"
  PROVE  /\ Review(mem) \in reviews /\ Review(mem).id = mem.review
         /\ Review(mem).targets \in SUBSET Legal
         /\ Review(mem).verdict = "approved" <=> Approves(mem.review, reviews)
         /\ Review(mem).verdict # "approved" <=> Refused(mem.review, reviews)
         /\ Review(mem).verdict = "approved" => Review(mem).about[1] = Artifacts(mem)
         /\ mem.final # NoId /\ mem.review # NoId /\ AllClosed(mem) /\ Fair(mem, reviews)
<1>1. /\ mem.final # NoId /\ mem.review # NoId /\ AllClosed(mem) /\ Fair(mem, reviews)
  BY DEF IInv, CommandInv
<1>2. \E v \in reviews : v.id = mem.review
  BY <1>1 DEF Fair
<1> QED
  BY <1>1, <1>2, KnownIs, ReviewIs

\* The state that waits for the Researcher.
LEMMA WaitingIs ==
  ASSUME mem \in State, Waiting
  PROVE  /\ mem' \in State /\ disk' = mem' /\ pc' = "idle" /\ run' = NoRun
         /\ mem'.phase = "waiting_upstream_result"
         /\ \A f \in Kept \ {"phase"} : mem'[f] = mem[f]
         /\ \A f \in Beside : mem'[f] = mem[f]
<1> DEFINE e == mem.active.epoch
           t == [mem EXCEPT !.status = "WAITING_UPSTREAM_REVISION",
                            !.phase = "waiting_upstream_result", !.epoch = e]
<1>1. disk' = t /\ mem' = t /\ pc' = "idle" /\ run' = NoRun
  BY DEF Waiting, SaveAndEnd, Save, End
<1>2. e \in Nat /\ "WAITING_UPSTREAM_REVISION" \in Status /\ "waiting_upstream_result" \in Phase
  BY DEF State, Request, Status, Phase
<1> HIDE DEF e
<1>3. t \in State
  BY <1>2, ZenonT(30) DEF State
<1>4. t.phase = "waiting_upstream_result" /\ \A f \in Kept \ {"phase"} : t[f] = mem[f]
  BY DEF State, Kept
<1>5. \A f \in Beside : t[f] = mem[f]
  BY DEF State, Beside
<1> HIDE DEF t
<1> QED
  BY <1>1, <1>3, <1>4, <1>5

\* A state with another request in execution.
LEMMA ActingIs ==
  ASSUME NEW s \in State, NEW r \in Request
  PROVE  LET t == [s EXCEPT !.active = r]
         IN /\ t \in State /\ t.active = r /\ t.status = s.status
            /\ \A f \in Kept \ {"active"} : t[f] = s[f]
            /\ \A f \in Beside : t[f] = s[f]
<1> DEFINE t == [s EXCEPT !.active = r]
<1>1. t \in State
  BY ZenonT(30) DEF State
<1>2. t.active = r /\ t.status = s.status /\ \A f \in Kept \ {"active"} : t[f] = s[f]
  BY DEF State, Kept
<1>3. \A f \in Beside : t[f] = s[f]
  BY DEF State, Beside
<1> HIDE DEF t
<1> QED
  BY <1>1, <1>2, <1>3 DEF t

\* The evidence is asked for, once.
LEMMA AskResearcherIs ==
  ASSUME mem \in State, Review(mem).targets \in SUBSET Legal, AskResearcher
  PROVE  LET r == EvidenceRequest(mem)
             s == Pending(mem, TRUE)
         IN /\ Review(mem).verdict = "upstream"
            /\ \/ (Ended(s) \/ Left) /\ UNCHANGED requests
               \/ /\ requests' = requests \union {r}
                  /\ mem' = [s EXCEPT !.active = r] /\ pc' = "waiting"
                  /\ UNCHANGED <<disk, run>>
<1>1. Pending(mem, TRUE) \in State
  BY PendingIs
<1>2. Uncaught(Pending(mem, TRUE)) => Ended(Pending(mem, TRUE)) \/ Left
  BY <1>1, EndsIs
<1> QED
  BY <1>2 DEF AskResearcher, Deciding, Goto

\* A revision is planned unless one waits for the operator.
LEMMA PlanInternalIs ==
  ASSUME mem \in State, Review(mem).targets \in SUBSET Legal, PlanInternal
  PROVE  LET s == Pending(mem, FALSE)
             r == InternalRequest(s, Review(mem).targets)
         IN /\ Review(mem).verdict = "internal"
            /\ \/ (Ended(mem) \/ Ended(s) \/ Left) /\ UNCHANGED requests
               \/ /\ requests' = requests \union {r}
                  /\ mem' = Planned(s, r) /\ pc' = "planned"
                  /\ UNCHANGED <<disk, run>>
<1>1. Pending(mem, FALSE) \in State
  BY PendingIs
<1>2. Plan(Pending(mem, FALSE), Review(mem).targets, "planned") =>
        LET s == Pending(mem, FALSE)
            r == InternalRequest(s, Review(mem).targets)
        IN \/ (Ended(s) \/ Left) /\ UNCHANGED requests
           \/ /\ requests' = requests \union {r}
              /\ mem' = Planned(s, r) /\ pc' = "planned"
              /\ UNCHANGED <<disk, run>>
  BY <1>1, PlanIs
<1>3. Block(mem) => Ended(mem)
  BY EndsIs
<1> QED
  BY <1>2, <1>3 DEF PlanInternal, Deciding

\* Safe Mode stops.
LEMMA StopIs ==
  ASSUME mem \in State, Stop
  PROVE  \/ /\ Same(mem', mem) /\ mem'.status = mem.status /\ disk' = mem'
            /\ pc' = pc /\ run' = run
         \/ Ended(mem)
<1> DEFINE t == [mem EXCEPT !.awaiting = FALSE]
<1>1. \/ disk' = t /\ mem' = t /\ pc' = pc /\ run' = run
      \/ Block(mem)
  BY DEF Stop, Save
<1>2. t \in State
  BY ZenonT(30) DEF State
<1>3. t.status = mem.status /\ \A f \in Kept : t[f] = mem[f]
  BY DEF State, Kept
<1>4. \A f \in Beside : t[f] = mem[f]
  BY DEF State, Beside
<1>5. Same(t, mem)
  <2> HIDE DEF t
  <2> QED
    BY <1>2, <1>3, <1>4 DEF Same
<1> HIDE DEF t
<1> QED
  BY <1>1, <1>3, <1>5, EndsIs

\* The approval, before it is sent and after.
LEMMA ApproveIs ==
  ASSUME mem \in State, Approve
  PROVE  /\ Review(mem).verdict = "approved" /\ mem.phase # "executing"
         /\ mem' \in State /\ disk' = mem' /\ pc' = "send" /\ run' = run
         /\ mem'.status = "APPROVED" /\ mem'.result = <<mem.final, mem.review>>
         /\ \A f \in Kept \ {"result"} : mem'[f] = mem[f]
         /\ \A f \in Beside : mem'[f] = mem[f]
<1> DEFINE p == <<mem.final, mem.review>>
           x == "APPROVED"
           t == [mem EXCEPT !.status = x, !.result = p]
<1>1. Save(t) /\ pc' = "send" /\ run' = run
  BY DEF Approve, Goto
<1>2. Review(mem).verdict = "approved" /\ mem.phase # "executing"
  BY DEF Approve, Deciding
<1>3. p \in Pair /\ x \in Status
  BY DEF State, Pair, Status
<1>4. /\ t \in State /\ t.status = x /\ t.result = p
      /\ \A f \in Kept \ {"result"} : t[f] = mem[f]
      /\ \A f \in Beside : t[f] = mem[f]
  <2> HIDE DEF p, x
  <2>1. t \in State
    BY <1>3, ZenonT(30) DEF State
  <2>2. t.status = x /\ t.result = p /\ \A f \in Kept \ {"result"} : t[f] = mem[f]
    BY DEF State, Kept
  <2>3. \A f \in Beside : t[f] = mem[f]
    BY DEF State, Beside
  <2> HIDE DEF t
  <2> QED
    BY <2>1, <2>2, <2>3
<1>5. disk' = t /\ mem' = t
  BY <1>1 DEF Save
<1>6. p = <<mem.final, mem.review>> /\ x = "APPROVED"
  OBVIOUS
<1> HIDE DEF t, p, x
<1> QED
  BY <1>1, <1>2, <1>4, <1>5, <1>6

LEMMA SentIs ==
  ASSUME mem \in State, Sent
  PROVE  Ended(mem)
<1>1. SaveAndEnd([mem EXCEPT !.status = "COMPLETED"], "returned")
  BY DEF Sent
<1>2. "COMPLETED" \in Status
  BY DEF Status
<1> DEFINE t == [mem EXCEPT !.status = "COMPLETED"]
<1>3. Same(t, mem) /\ t.status = "COMPLETED"
  BY <1>2, StatusIs DEF Same
<1>4. disk' = t /\ mem' = t /\ pc' = "idle" /\ run' = NoRun
  BY <1>1 DEF SaveAndEnd, Save, End
<1> HIDE DEF t
<1> QED
  BY <1>3, <1>4 DEF Ended

\* What resume does: the answer of the old form is filed, and the revision planned that
\* brings the new report in.
LEMMA ResumeIs ==
  ASSUME mem \in State, inbox.number \in Nat, Resume
  PROVE  \/ Left /\ UNCHANGED <<requests, results>>
         \/ \E s \in State, ts \in SUBSET Legal :
              /\ mem.status = "WAITING_UPSTREAM_REVISION"
              /\ mem.plan = mem.review
              /\ ts # {}
              /\ s.status = "RUNNING" /\ s.result = <<NoId, NoId>>
              /\ \A f \in Kept \ {"result"} : s[f] = mem[f]
              /\ \A f \in Beside : s[f] = mem[f]
              /\ \/ UNCHANGED results
                 \/ results' = results \union
                      {[request |-> mem.active, status |-> "completed",
                        result |-> <<NoId, NoId>>]}
              /\ \/ (Ended(s) \/ Left) /\ UNCHANGED requests
                 \/ /\ requests' = requests \union {InternalRequest(s, ts)}
                    /\ mem' = Planned(s, InternalRequest(s, ts)) /\ pc' = "planned"
                    /\ UNCHANGED <<disk, run>>
<1>0. PICK h \in Nat : h = inbox.number
  OBVIOUS
<1> DEFINE r == mem.active
           s == ResumedAs(mem, h, r)
           asked == IF mem.planned = {} THEN {Manager} ELSE mem.planned
           ts == asked \union Missing(mem)
<1>1. r \in Request
  BY DEF State
<1>2. /\ s \in State /\ s.status = "RUNNING" /\ s.result = <<NoId, NoId>>
      /\ \A f \in Kept \ {"result"} : s[f] = mem[f]
      /\ \A f \in Beside : s[f] = mem[f]
  <2> HIDE DEF r
  <2> QED
    BY <1>0, <1>1, ResumedIs
<1>3. ts \in SUBSET Legal /\ ts # {}
  BY AskedAgain
<1>4. s.analyses = mem.analyses
  BY <1>2 DEF Kept
<1>5. Missing(s) = Missing(mem)
  BY <1>4 DEF Missing
<1> DEFINE ready == /\ mem.status = "WAITING_UPSTREAM_REVISION"
                    /\ Current(r)
                    /\ inbox.number # mem.handoff
                    /\ Acceptable(r)
                    /\ mem.plan = mem.review
           more == results \union {[request |-> r, status |-> "completed",
                                    result |-> <<NoId, NoId>>]}
<1>9. \/ ready /\ Plan(s, asked \union Missing(s), "planned")
      \/ ~ready /\ Leave("refused") /\ UNCHANGED requests
  BY <1>0, Zenon DEF Resume, ResumedAs
<1>10. results' = IF ready /\ ResultsOf(r) = {} THEN more ELSE results
  BY Zenon DEF Resume
<1>11. ready => mem.status = "WAITING_UPSTREAM_REVISION" /\ mem.plan = mem.review
  OBVIOUS
<1> HIDE DEF s, asked, ready
<1>6. \/ Leave("refused") /\ UNCHANGED <<requests, results>>
      \/ /\ mem.status = "WAITING_UPSTREAM_REVISION" /\ mem.plan = mem.review
         /\ Plan(s, asked \union Missing(s), "planned")
         /\ \/ UNCHANGED results
            \/ results' = results \union {[request |-> r, status |-> "completed",
                                           result |-> <<NoId, NoId>>]}
  BY <1>9, <1>10, <1>11
<1>7. CASE Leave("refused") /\ UNCHANGED <<requests, results>>
  BY <1>7, EndsIs
<1>8. CASE /\ mem.status = "WAITING_UPSTREAM_REVISION" /\ mem.plan = mem.review
           /\ Plan(s, asked \union Missing(s), "planned")
           /\ \/ UNCHANGED results
              \/ results' = results \union {[request |-> r, status |-> "completed",
                                             result |-> <<NoId, NoId>>]}
  <2>1. Plan(s, ts, "planned")
    BY <1>5, <1>8
  <2> HIDE DEF ts
  <2>2. \/ (Ended(s) \/ Left) /\ UNCHANGED requests
        \/ /\ requests' = requests \union {InternalRequest(s, ts)}
           /\ mem' = Planned(s, InternalRequest(s, ts)) /\ pc' = "planned"
           /\ UNCHANGED <<disk, run>>
    BY <1>2, <1>3, <2>1, PlanIs
  <2> QED
    BY <1>2, <1>3, <1>8, <2>2
<1> QED
  BY <1>6, <1>7, <1>8

\* What Conclusion asks for is adopted once, with its audit event.
LEMMA AdoptIs ==
  ASSUME mem \in State, requests \subseteq Request, Adopt
  PROVE  \/ Left /\ UNCHANGED adopted
         \/ \E r \in Asked :
              /\ r.result = mem.result /\ r \notin adopted
              /\ adopted' = adopted \union {r}
              /\ mem' \in State /\ mem'.phase = "authorization_required"
              /\ mem'.active = r /\ mem'.status = "BLOCKED"
              /\ \A f \in Kept \ {"phase", "active"} : mem'[f] = mem[f]
              /\ \A f \in Beside : mem'[f] = mem[f]
              /\ disk' = disk /\ run' = run /\ pc' = "adopted"
<1>1. CASE \E r \in Adoptable :
             /\ Current(r) /\ r \notin adopted /\ adopted' = adopted \union {r}
             /\ mem' = ActiveAs(mem, r, "BLOCKED", "authorization_required", r.epoch)
             /\ disk' = disk /\ run' = run /\ pc' = "adopted"
  <2>1. PICK r \in Adoptable :
             /\ Current(r) /\ r \notin adopted /\ adopted' = adopted \union {r}
             /\ mem' = ActiveAs(mem, r, "BLOCKED", "authorization_required", r.epoch)
             /\ disk' = disk /\ run' = run /\ pc' = "adopted"
    BY <1>1
  <2>2. r \in Asked /\ r \in Request /\ r.epoch \in Nat /\ r.result = mem.result
    BY <2>1 DEF Adoptable, Asked, Current, Request
  <2>3. "authorization_required" \in Phase /\ "BLOCKED" \in Status
    BY DEF Phase, Status
  <2>4. /\ mem' \in State /\ mem'.phase = "authorization_required"
        /\ mem'.active = r /\ mem'.status = "BLOCKED"
        /\ \A f \in Kept \ {"phase", "active"} : mem'[f] = mem[f]
        /\ \A f \in Beside : mem'[f] = mem[f]
    <3> DEFINE t == ActiveAs(mem, r, "BLOCKED", "authorization_required", r.epoch)
    <3>1. /\ t \in State /\ t.phase = "authorization_required"
          /\ t.active = r /\ t.status = "BLOCKED"
          /\ \A f \in Kept \ {"phase", "active"} : t[f] = mem[f]
          /\ \A f \in Beside : t[f] = mem[f]
      BY <2>2, <2>3, ActiveIs
    <3>2. mem' = t
      BY <2>1
    <3> HIDE DEF t
    <3> QED
      BY <3>1, <3>2
  <2>5. /\ r \notin adopted /\ adopted' = adopted \union {r}
        /\ disk' = disk /\ run' = run /\ pc' = "adopted"
    BY <2>1
  <2> QED
    BY <2>2, <2>4, <2>5, Zenon
<1>2. CASE Leave("refused") /\ UNCHANGED adopted
  BY <1>2, EndsIs
<1> DEFINE Taken(r) == /\ Current(r) /\ mem.result # <<NoId, NoId>> /\ r \notin adopted
                      /\ adopted' = adopted \union {r}
                      /\ mem' = ActiveAs(mem, r, "BLOCKED", "authorization_required", r.epoch)
           Then == Goto("adopted") /\ UNCHANGED <<disk, run>>
<1>3. \/ (\E r \in Adoptable : Taken(r)) /\ Then
      \/ Leave("refused") /\ UNCHANGED adopted
  <2> DEFINE Tries(r) == /\ Current(r) /\ mem.result # <<NoId, NoId>> /\ r \notin adopted
                         /\ adopted' = adopted \union {r}
                         /\ mem' = [mem EXCEPT !.phase = "authorization_required",
                                               !.epoch = r.epoch, !.active = r,
                                               !.status = "BLOCKED"]
  <2>1. \/ (\E r \in Adoptable : Tries(r)) /\ Then
        \/ Leave("refused") /\ UNCHANGED adopted
    BY ZenonT(40) DEF Adopt
  <2>2. \A r \in Adoptable : Tries(r) => Taken(r)
    BY Zenon DEF ActiveAs
  <2> HIDE DEF Tries, Taken, Then
  <2> QED
    BY <2>1, <2>2
<1>4. Then => pc' = "adopted" /\ disk' = disk /\ run' = run
  BY DEF Goto
<1>5. ASSUME NEW r \in Adoptable, Taken(r), Then
      PROVE  \E q \in Adoptable :
             /\ Current(q) /\ q \notin adopted /\ adopted' = adopted \union {q}
             /\ mem' = ActiveAs(mem, q, "BLOCKED", "authorization_required", q.epoch)
             /\ disk' = disk /\ run' = run /\ pc' = "adopted"
  <2>1. /\ Current(r) /\ r \notin adopted /\ adopted' = adopted \union {r}
        /\ mem' = ActiveAs(mem, r, "BLOCKED", "authorization_required", r.epoch)
    BY <1>5
  <2> QED
    BY <1>4, <1>5, <2>1
<1> HIDE DEF Taken, Then
<1> QED
  BY <1>1, <1>2, <1>3, <1>5

LEMMA TooFewIs ==
  ASSUME mem \in State, TooFew
  PROVE  Ended(mem)
BY EndsIs DEF TooFew

LEMMA DecideTyped == IInv /\ Decide => mem' \in State
<1> SUFFICES ASSUME IInv, Decide PROVE mem' \in State
  OBVIOUS
<1>0. mem \in State /\ disk \in State /\ run \in Run
  BY KnownIs
<1>0a. pc = "decide" => Review(mem).targets \in SUBSET Legal
  BY DecidingIs
<1>1. CASE Finalize
  BY <1>0, <1>1, FinalizeIs, EndedTyped
<1>2. CASE Approve
  BY <1>0, <1>2, ApproveIs
<1>3. CASE Send \/ SavePlan
  BY <1>0, <1>3 DEF Send, SavePlan, Save
<1>4. CASE SendFails \/ BlockedByReview
  BY <1>0, <1>4, EndsIs, EndedTyped DEF SendFails, BlockedByReview
<1>5. CASE Sent
  BY <1>0, <1>5, SentIs, EndedTyped
<1>6. CASE AskResearcher
  <2>1. Review(mem).targets \in SUBSET Legal
    BY <1>0a, <1>6 DEF AskResearcher, Deciding
  <2>2. Pending(mem, TRUE) \in State /\ EvidenceRequest(mem) \in Request
    <3>1. {} \in SUBSET Legal
      OBVIOUS
    <3> QED
      BY <1>0, <2>1, <3>1, PendingIs, RequestsAre
  <2>3. [Pending(mem, TRUE) EXCEPT !.active = EvidenceRequest(mem)] \in State
    BY <2>2, ActingIs
  <2> QED
    BY <1>0, <1>6, <2>1, <2>3, AskResearcherIs, EndedTyped
<1>7. CASE AskedAlready
  BY <1>0, <1>7, EndsIs, EndedTyped DEF AskedAlready
<1>8. CASE Waiting
  BY <1>0, <1>8, WaitingIs
<1>9. CASE PlanInternal
  <2>1. Review(mem).targets \in SUBSET Legal
    BY <1>0a, <1>9 DEF PlanInternal, Deciding
  <2> DEFINE s == Pending(mem, FALSE)
             r == InternalRequest(s, Review(mem).targets)
  <2>2. s \in State
    BY <1>0, <2>1, PendingIs
  <2>3. r \in Request
    BY <2>1, <2>2, RequestsAre
  <2>4. Planned(s, r) \in State
    <3> HIDE DEF s, r
    <3> QED
      BY <2>2, <2>3, PlannedIs
  <2>5. \/ Ended(mem) \/ Ended(s) \/ Left
        \/ mem' = Planned(s, r)
    BY <1>0, <1>9, <2>1, PlanInternalIs
  <2> QED
    BY <1>0, <2>4, <2>5, EndedTyped
<1>10. CASE Stop
  BY <1>0, <1>10, StopIs, EndedTyped DEF Same
<1> QED
  BY <1>1, <1>2, <1>3, <1>4, <1>5, <1>6, <1>7, <1>8, <1>9, <1>10 DEF Decide

LEMMA ResumeTyped == IInv /\ Resume => mem' \in State
<1> SUFFICES ASSUME IInv, Resume PROVE mem' \in State
  OBVIOUS
<1>0. mem \in State /\ disk \in State /\ inbox.number \in Nat
  BY KnownIs DEF IInv, TypeInv
<1>1. CASE Left
  BY <1>0, <1>1, EndedTyped
<1>2. CASE \E s \in State, ts \in SUBSET Legal :
             Ended(s) \/ Left \/ mem' = Planned(s, InternalRequest(s, ts))
  <2>1. PICK s \in State, ts \in SUBSET Legal :
             Ended(s) \/ Left \/ mem' = Planned(s, InternalRequest(s, ts))
    BY <1>2
  <2>2. Planned(s, InternalRequest(s, ts)) \in State
    BY RequestsAre, PlannedIs
  <2> QED
    BY <1>0, <2>1, <2>2, EndedTyped
<1> QED
  BY <1>0, <1>1, <1>2, ResumeIs

\* The review behind an internal request of the plan.
LEMMA BehindIs ==
  ASSUME IInv, pc \in {"executing", "begin"}, mem.active.route = "internal"
  PROVE  \E v \in reviews : v.id = mem.active.review
BY DEF IInv, CommandInv, AuthorizedOK, Refused

LEMMA RevisionTyped == IInv /\ Revision => mem' \in State
<1> SUFFICES ASSUME IInv, Revision PROVE mem' \in State
  OBVIOUS
<1>0. /\ mem \in State /\ disk \in State /\ run \in Run /\ requests \subseteq Request
      /\ slots \in Seq(Request) /\ reused \in BOOLEAN /\ reviews \subseteq Judgement
  BY KnownIs
<1>1. CASE Revise
  BY <1>0, <1>1 DEF Revise
<1>2. CASE Adopt
  BY <1>0, <1>2, AdoptIs, EndedTyped
<1>3. CASE Adopted \/ Execute
  BY <1>0, <1>3 DEF Adopted, Execute, Save
<1>4. CASE Authorize
  BY <1>0, <1>4, AuthorizeIs
<1>5. CASE Stale
  BY <1>0, <1>5, EndsIs, EndedTyped DEF Stale
<1>6. CASE Exhausted
  BY <1>0, <1>6, ExhaustedIs, EndedTyped
<1>7. CASE Begin
  <2>1. mem.active.route = "internal" => \E v \in reviews : v.id = mem.active.review
    BY <1>7, BehindIs DEF Begin
  <2>2. mem.active.targets \in SUBSET Legal
    BY <1>0 DEF State, Request
  <2>3. Left \/ \E s \in State : mem' = History(s, mem.active.targets)
    BY <1>0, <1>7, <2>1, BeginIs
  <2>4. \A s \in State : History(s, mem.active.targets) \in State
    BY <2>2, HistoryIs
  <2> QED
    BY <1>0, <2>3, <2>4, EndedTyped
<1> QED
  BY <1>1, <1>2, <1>3, <1>4, <1>5, <1>6, <1>7 DEF Revision

LEMMA RecoveryTyped == IInv /\ Recovery => mem' \in State
<1> SUFFICES ASSUME IInv, Recovery PROVE mem' \in State
  OBVIOUS
<1>0. mem \in State /\ disk \in State /\ run \in Run
  BY KnownIs
<1>1. CASE ProviderRetry \/ Recover
  <2>1. mem' = mem \/ Left
    <3>1. \A how : Leave(how) => Left
      BY <1>0, EndsIs
    <3> QED
      BY <1>1, <3>1 DEF ProviderRetry, Recover, Grant
  <2> QED
    BY <1>0, <2>1, EndedTyped
<1>2. CASE NotRecoverable \/ NeedsRetry
  <2>1. Left \/ Ended(mem)
    BY <1>0, <1>2, EndsIs DEF NotRecoverable, NeedsRetry
  <2> QED
    BY <1>0, <2>1, EndedTyped
<1>3. CASE RecoverBegins
  BY <1>0, <1>3, RecoverBeginsIs DEF Same
<1>4. CASE RecoverPrimaries
  <2>1. Closing(mem) \in State
    BY <1>0, ClosingIs
  <2>2. Cleared(Closing(mem), 1) \in State
    BY <2>1, ClearedIs
  <2> QED
    BY <1>0, <1>4, <2>1, <2>2, RecoverPrimariesIs, EndedTyped
<1>5. CASE TooFew
  BY <1>0, <1>5, TooFewIs, EndedTyped
<1>6. CASE RecoverCheckpoints
  <2>1. \A n \in 1 .. 4 : Cleared(mem, n) \in State
    BY <1>0, ClearedIs
  <2> QED
    BY <1>0, <1>6, <2>1, RecoverCheckpointsIs
<1> QED
  BY <1>1, <1>2, <1>3, <1>4, <1>5, <1>6 DEF Recovery

\* The copy the command works on is a state.
LEMMA MemTyped == IInv /\ [Next]_vars => mem' \in State
<1>1. IInv /\ Around => mem' \in State
  BY KnownIs, EndsIs, EndedTyped
     DEF Around, Crash, ResearcherReplies, ResearcherFiles, ConclusionAsks
<1>2. IInv /\ UNCHANGED vars => mem' \in State
  BY KnownIs DEF vars
<1> QED
  BY <1>1, <1>2, LineTyped, DecideTyped, ResumeTyped, RevisionTyped, RecoveryTyped DEF Next

\* What is saved is the copy the command works on.
LEMMA DiskIs == [Next]_vars => disk' = disk \/ disk' = mem'
<1>1. /\ \A s : Save(s) => disk' = mem'
      /\ \A s, how : SaveAndEnd(s, how) => disk' = mem'
      /\ \A s : Fail(s) => disk' = mem'
      /\ \A s : Block(s) => disk' = mem'
      /\ \A how : Leave(how) => disk' = disk
  BY DEF Save, SaveAndEnd, Fail, Block, Leave
<1>2. \A s : Uncaught(s) => disk' = disk \/ disk' = mem'
  BY <1>1 DEF Uncaught
<1>3. Line => disk' = disk \/ disk' = mem'
  <2>1. \A st, on, next : Integrate(st, on, next) => disk' = disk \/ disk' = mem'
    BY <1>1, Zenon DEF Integrate
  <2> QED
    BY <1>1, <2>1 DEF Line, Dispatch, Gather, Record, Collected, Initial, InitialMade,
         CounterArgument, CounterMade, Final, FinalMade, ReuseReview, AskReview,
         AnswerReview, Reviewed
<1>4. Decide => disk' = disk \/ disk' = mem'
  BY <1>1, <1>2 DEF Decide, Finalize, Approve, Send, SendFails, Sent, BlockedByReview,
       AskResearcher, AskedAlready, Waiting, Plan, PlanInternal, SavePlan, Stop
<1>5. Resume \/ Revision => disk' = disk \/ disk' = mem'
  BY <1>1, <1>2 DEF Resume, Plan, Revision, Revise, Adopt, Adopted, Authorize, Stale,
       Exhausted, Execute, Begin
<1>6. Recovery => disk' = disk \/ disk' = mem'
  BY <1>1 DEF Recovery, ProviderRetry, Grant, Recover, NotRecoverable, NeedsRetry,
       RecoverBegins, RecoverPrimaries, TooFew, RecoverCheckpoints
<1>7. Around \/ UNCHANGED vars => disk' = disk \/ disk' = mem'
  BY <1>1 DEF Around, Crash, ResearcherReplies, ResearcherFiles, ConclusionAsks, vars
<1> QED
  BY <1>3, <1>4, <1>5, <1>6, <1>7 DEF Next

\* The task an analyst is asked again with is one of its own.
LEMMA AgainIs ==
  ASSUME NEW s \in State, NEW ps, AskedOK(s, ps), NEW p \in Primary
  PROVE  /\ TaskAgain(s, p) \in Plain /\ TaskAgain(s, p).agent = p
         /\ \/ TaskAgain(s, p) = RetryOf(Task(s, p)) /\ PendingRetry(Original(Task(s, p)))
            \/ TaskAgain(s, p) = Task(s, p) /\ s.count > 0
               /\ ~PendingRetry(Original(Task(s, p)))
            \/ TaskAgain(s, p) = Id(p, 0, 1 + Task(s, p).mark) /\ s.count <= 0
<1> DEFINE t == Task(s, p)
<1>1. t \in Plain /\ t.agent = p
  BY TaskIs
<1>2. s.count \in Nat /\ 1 + t.mark \in Nat
  <2> HIDE DEF t
  <2>1. t.mark \in Nat
    BY <1>1 DEF Plain
  <2> QED
    BY <2>1 DEF State
<1>3. /\ PendingRetry(Original(t)) => TaskAgain(s, p) = RetryOf(t)
      /\ ~PendingRetry(Original(t)) /\ s.count > 0 => TaskAgain(s, p) = t
      /\ ~PendingRetry(Original(t)) /\ ~(s.count > 0) => TaskAgain(s, p) = Id(p, 0, 1 + t.mark)
  BY DEF TaskAgain
<1>4. RetryOf(t) \in Plain /\ RetryOf(t).agent = p
  BY <1>1, PlainIsTask, RetryIs
<1>5. Id(p, 0, 1 + t.mark) \in Plain /\ Id(p, 0, 1 + t.mark).agent = p
  <2> DEFINE n == 1 + t.mark
  <2>1. n \in Nat
    BY <1>2
  <2>2. Id(p, 0, n) \in Plain /\ Id(p, 0, n).agent = p
    <3> HIDE DEF t, n
    <3> QED
      BY <2>1, IdOfPrimary, SMTT(30)
  <2> QED
    BY <2>2
<1> HIDE DEF t
<1> QED
  BY <1>1, <1>2, <1>3, <1>4, <1>5 DEF t

LEMMA RunLine == IInv /\ Line => run' \in Run
<1> SUFFICES ASSUME IInv, Line PROVE run' \in Run
  OBVIOUS
<1>0. /\ mem \in State /\ disk \in State /\ run \in Run /\ CommandInv
      /\ ErrorsOK(mem, paid) /\ retries \subseteq TaskId
      /\ (\A id \in retries : id.agent # "none") /\ NoRun \in Run /\ reviews \subseteq Judgement
  BY KnownIs, NothingTyped DEF IInv
<1>1. \A id \in TaskId : [run EXCEPT !.id = id] \in Run
  BY <1>0 DEF Run
<1>2. \A id \in Plain : [run EXCEPT !.id = id] \in Run
  BY <1>1, PlainIsTask
<1>3. CASE Gather
  <2>1. PICK f \in [run.todo -> {"result", "retryable", "error"}] :
          run' = [run EXCEPT !.got = {<<id, f[id]>> : id \in run.todo}, !.failures = 0]
    BY <1>3 DEF Gather
  <2> DEFINE got == {<<id, f[id]>> : id \in run.todo}
  <2>2. got \in SUBSET (Plain \X Kind)
    BY <1>0 DEF Run, Kind
  <2>3. run' = [run EXCEPT !.got = got, !.failures = 0]
    BY <2>1
  <2>4. 0 \in Int
    OBVIOUS
  <2> HIDE DEF got
  <2> QED
    BY <1>0, <2>2, <2>3, <2>4, ZenonT(30) DEF Run
<1>4. CASE Record
  <2>1. PICK x \in run.got :
          run' = [run EXCEPT !.got = @ \ {x},
                             !.failures = IF x[2] = "result" THEN @ ELSE @ + 1]
    BY <1>0, <1>4, RecordIs
  <2> DEFINE got == run.got \ {x}
             n == IF x[2] = "result" THEN run.failures ELSE run.failures + 1
  <2>2. got \in SUBSET (Plain \X Kind) /\ n \in Int
    BY <1>0 DEF Run
  <2>3. run' = [run EXCEPT !.got = got, !.failures = n]
    BY <1>0, <2>1 DEF Run
  <2> HIDE DEF got, n
  <2> QED
    BY <1>0, <2>2, <2>3 DEF Run
<1>5. CASE Dispatch \/ InitialMade \/ CounterMade \/ FinalMade \/ Reviewed
  BY <1>0, <1>5 DEF Dispatch, InitialMade, CounterMade, FinalMade, Reviewed
<1>6. CASE Collected
  BY <1>0, <1>6, CollectedIs DEF Ended
<1>7. CASE Initial
  <2>1. run' = run \/ \E on, next : Integrate("initial", on, next)
    BY <1>7 DEF Initial
  <2> QED
    BY <1>0, <1>2, <2>1, IntegrateIs
<1>8. CASE CounterArgument
  BY <1>0, <1>2, <1>8, CounterArgumentIs DEF Ended
<1>9. CASE Final
  <2>1. run' = run \/ \E on, next : Integrate("final", on, next)
    BY <1>9 DEF Final
  <2> QED
    BY <1>0, <1>2, <2>1, IntegrateIs
<1>10. CASE ReuseReview
  <2>1. PICK v \in reviews : run' = [run EXCEPT !.id = v.id]
    BY <1>10 DEF ReuseReview, Answers
  <2>2. v.id \in TaskId
    BY <1>0 DEF Judgement
  <2> QED
    BY <1>1, <2>1, <2>2
<1>11. CASE AskReview
  BY <1>0, <1>1, <1>11, AskReviewIs
<1>12. CASE AnswerReview
  BY <1>0, <1>12, AnswerReviewIs
<1> QED
  BY <1>3, <1>4, <1>5, <1>6, <1>7, <1>8, <1>9, <1>10, <1>11, <1>12 DEF Line

\* What the command knows is typed.
LEMMA RunTyped == IInv /\ [Next]_vars => run' \in Run
<1> SUFFICES ASSUME IInv, [Next]_vars PROVE run' \in Run
  OBVIOUS
<1>0. /\ mem \in State /\ disk \in State /\ run \in Run /\ NoRun \in Run
      /\ AskedOK(mem, paid)
  BY KnownIs, NothingTyped DEF IInv, StatesInv, Good
<1>1. /\ \A s, how : SaveAndEnd(s, how) => run' \in Run
      /\ \A s : Fail(s) => run' \in Run
      /\ \A s : Block(s) => run' \in Run
      /\ \A how : Leave(how) => run' \in Run
  BY <1>0 DEF SaveAndEnd, Fail, Block, Leave, End
<1>2. \A s : Uncaught(s) => run' \in Run
  BY <1>1 DEF Uncaught
<1>3. CASE Decide
  BY <1>0, <1>1, <1>2, <1>3 DEF Decide, Finalize, Approve, Send, SendFails, Sent,
       BlockedByReview, AskResearcher, AskedAlready, Waiting, Plan, PlanInternal, SavePlan, Stop
<1>4. CASE Resume
  BY <1>0, <1>1, <1>2, <1>4 DEF Resume, Plan
<1>5. CASE Begin
  <2> DEFINE ps == mem.active.targets \intersect Primary
             todo == {Id(p, mem.count, 0) : p \in ps}
             first == FirstStage(mem.active.targets)
  <2>1. Left \/ run' = [run EXCEPT !.then = "revise", !.recovery = 1, !.first = first,
                                    !.todo = todo]
    <3>1. (\A how : Leave(how) => Left)
      BY <1>0, EndsIs
    <3> QED
      BY <1>5, <3>1 DEF Begin
  <2>2. todo \in SUBSET Plain
    <3>1. mem.count \in Nat
      BY <1>0 DEF State
    <3>2. \A p \in ps : Id(p, mem.count, 0) \in Plain
      BY <3>1, IdTyped
    <3> QED
      BY <3>2
  <2>3. first \in 1 .. 5
    BY <1>0, StagesAre DEF State, Request
  <2> HIDE DEF todo, first
  <2> QED
    BY <1>0, <2>1, <2>2, <2>3 DEF Run, Left
<1>6. CASE Revision /\ ~Begin
  BY <1>0, <1>1, <1>6 DEF Revision, Revise, Adopt, Adopted, Authorize, Stale, Exhausted, Execute
<1>7. CASE ProviderRetry \/ Recover \/ NotRecoverable \/ NeedsRetry \/ TooFew
  BY <1>0, <1>1, <1>7 DEF ProviderRetry, Grant, Recover, NotRecoverable, NeedsRetry, TooFew
<1>8. CASE RecoverBegins
  <2>1. Again(mem) \in BOOLEAN
    BY DEF Again
  <2>2. run' = [run EXCEPT !.then = "recover", !.recovery = 1, !.again = Again(mem)]
    BY <1>8 DEF RecoverBegins
  <2> QED
    BY <1>0, <2>1, <2>2 DEF Run
<1>9. CASE RecoverPrimaries
  <2> DEFINE todo == {TaskAgain(mem, p) : p \in Incomplete(mem)}
  <2>1. Ended(Closing(mem)) \/ run' = [run EXCEPT !.todo = todo] \/ run' = run
    BY <1>0, <1>9, RecoverPrimariesIs
  <2>2. Incomplete(mem) \subseteq Primary
    BY DEF Incomplete
  <2>3. todo \in SUBSET Plain
    BY <1>0, <2>2, AgainIs
  <2> HIDE DEF todo
  <2> QED
    BY <1>0, <2>1, <2>3 DEF Run, Ended
<1>10. CASE RecoverCheckpoints
  <2>1. ASSUME NEW n \in 1 .. 4
        PROVE  [run EXCEPT !.first = n, !.reuse = n < 4 \/ ~run.again] \in Run
    <3>1. n \in 1 .. 5
      OBVIOUS
    <3>2. (n < 4 \/ ~run.again) \in BOOLEAN
      OBVIOUS
    <3> QED
      BY <1>0, <3>1, <3>2, ZenonT(30) DEF Run
  <2>2. [run EXCEPT !.then = "decide"] \in Run
    BY <1>0 DEF Run
  <2> QED
    BY <1>0, <1>10, <2>1, <2>2, RecoverCheckpointsIs
<1>11. CASE Around \/ UNCHANGED vars
  BY <1>0, <1>1, <1>11 DEF Around, Crash, ResearcherReplies, ResearcherFiles, ConclusionAsks, vars
<1> QED
  BY <1>3, <1>4, <1>5, <1>6, <1>7, <1>8, <1>9, <1>10, <1>11, RunLine DEF Next, Recovery, Revision

\* What the calls leave is typed.
LEMMA CallsTyped ==
  IInv /\ [Next]_vars => /\ paid' \subseteq TaskId /\ retries' \subseteq TaskId
                         /\ made' \subseteq Integration /\ reviews' \subseteq Judgement
<1> SUFFICES ASSUME IInv, [Next]_vars
             PROVE  /\ paid' \subseteq TaskId /\ retries' \subseteq TaskId
                    /\ made' \subseteq Integration /\ reviews' \subseteq Judgement
  OBVIOUS
<1>0. /\ mem \in State /\ disk \in State /\ run \in Run /\ ErrorsOK(mem, paid)
      /\ paid \subseteq TaskId /\ retries \subseteq TaskId
      /\ made \subseteq Integration /\ reviews \subseteq Judgement
  BY KnownIs DEF IInv, TypeInv
<1>1. CASE Gather
  BY <1>0, <1>1, PlainIsTask DEF Gather, Run
<1>2. ASSUME NEW stage \in {"initial", "final"}, NEW on, on \subseteq Plain, NEW next,
             Integrate(stage, on, next)
      PROVE  paid' \subseteq TaskId /\ made' \subseteq Integration /\ UNCHANGED <<retries, reviews>>
  <2>1. ManagerId(mem, stage) \in Plain
    BY <1>0, ManagerIdIs
  <2>2. [id |-> ManagerId(mem, stage), on |-> on, report |-> mem.report] \in Integration
    BY <1>0, <1>2, <2>1 DEF Integration, State
  <2>3. paid' = paid \union {ManagerId(mem, stage)} /\ UNCHANGED <<retries, reviews>>
    BY <1>2 DEF Integrate
  <2>4. made' = made \/ made' = made \union
          {[id |-> ManagerId(mem, stage), on |-> on, report |-> mem.report]}
    BY <1>2 DEF Integrate
  <2> QED
    BY <1>0, <2>1, <2>2, <2>3, <2>4, PlainIsTask
<1>3. CASE Initial
  <2>1. Analysed(mem) \subseteq Plain
    BY <1>0 DEF Analysed, State
  <2> QED
    BY <1>0, <1>2, <1>3, <2>1 DEF Initial, calls
<1>4. CASE CounterArgument
  <2>1. CounterId(mem) \in Plain
    BY <1>0, <1>4, CounterArgumentIs
  <2>2. [id |-> CounterId(mem), on |-> {mem.initial}, report |-> mem.report] \in Integration
    BY <1>0, <2>1 DEF Integration, State
  <2>3. made' = made \/ made' = made \union
          {[id |-> CounterId(mem), on |-> {mem.initial}, report |-> mem.report]}
    BY <1>4 DEF CounterArgument
  <2>4. /\ paid' = paid \/ paid' = paid \union {CounterId(mem)}
        /\ UNCHANGED <<retries, reviews>>
    BY <1>4 DEF CounterArgument
  <2> QED
    BY <1>0, <2>1, <2>2, <2>3, <2>4, PlainIsTask
<1>5. CASE Final
  <2>1. {mem.initial, mem.counter} \subseteq Plain
    BY <1>0 DEF State
  <2> QED
    BY <1>0, <1>2, <1>5, <2>1 DEF Final, calls
<1>6. CASE AnswerReview
  <2>1. run.id \in TaskId
    BY <1>0 DEF Run
  <2>2. \A verdict \in Verdict, ts \in Targets \union {{}} :
          [id |-> run.id, about |-> Identity(mem), report |-> mem.report,
           verdict |-> verdict, targets |-> ts] \in Judgement
    <3>1. \A ts \in Targets \union {{}} : ts \in SUBSET Legal
      BY TargetsAssumption DEF Legal
    <3> QED
      BY <1>0, <2>1, <3>1, IdentityTyped DEF Judgement, State
  <2>3. paid' = paid \union {run.id} /\ UNCHANGED <<retries, made>>
    BY <1>6 DEF AnswerReview
  <2>4. reviews' = reviews \/ \E verdict \in Verdict, ts \in Targets \union {{}} :
          reviews' = reviews \union
            {[id |-> run.id, about |-> Identity(mem), report |-> mem.report,
              verdict |-> verdict, targets |-> ts]}
    BY <1>0, <1>6, AnswerReviewIs
  <2> QED
    BY <1>0, <2>1, <2>2, <2>3, <2>4
<1>7. CASE ProviderRetry
  <2>1. Retryable(mem) \in TaskId
    BY <1>0, FaultIs, ReviewErrorIs, PlainIsTask DEF Retryable, State
  <2>2. retries' = retries \/ retries' = retries \union {Retryable(mem)}
    BY <1>7 DEF ProviderRetry, Grant
  <2> QED
    BY <1>0, <1>7, <2>1, <2>2 DEF ProviderRetry
<1>8. CASE Line /\ ~(Gather \/ Initial \/ CounterArgument \/ Final \/ AnswerReview)
  BY <1>0, <1>8 DEF Line, Dispatch, Record, Collected, InitialMade, CounterMade, FinalMade,
       ReuseReview, AskReview, Reviewed, calls
<1>9. CASE Decide \/ Resume \/ Revision
  BY <1>0, <1>9 DEF Decide, Finalize, Approve, Send, SendFails, Sent,
       BlockedByReview, AskResearcher, AskedAlready, Waiting, PlanInternal, SavePlan, Stop,
       Resume, Revision, Revise, Adopt, Adopted, Authorize, Stale, Exhausted, Execute, Begin,
       calls
<1>10. CASE Recovery /\ ~ProviderRetry
  BY <1>0, <1>10 DEF Recovery, Recover, NotRecoverable, NeedsRetry, RecoverBegins,
       RecoverPrimaries, TooFew, RecoverCheckpoints, calls
<1>11. CASE Around \/ UNCHANGED vars
  BY <1>0, <1>11 DEF Around, Crash, ResearcherReplies, ResearcherFiles, ConclusionAsks, calls, vars
<1> QED
  BY <1>1, <1>3, <1>4, <1>5, <1>6, <1>7, <1>8, <1>9, <1>10, <1>11 DEF Next, Line, Recovery

\* What the requests of one file are: typed.
LEMMA RequestsTyped ==
  IInv /\ [Next]_vars => /\ requests' \subseteq Request /\ IsFiniteSet(requests')
                         /\ adopted' \subseteq Request
                         /\ spent' \subseteq Request /\ slots' \in Seq(Request)
                         /\ reused' \in BOOLEAN
<1> SUFFICES ASSUME IInv, [Next]_vars
             PROVE  /\ requests' \subseteq Request /\ IsFiniteSet(requests')
                    /\ adopted' \subseteq Request
                    /\ spent' \subseteq Request /\ slots' \in Seq(Request)
                    /\ reused' \in BOOLEAN
  OBVIOUS
<1>0. /\ mem \in State /\ disk \in State /\ run \in Run
      /\ requests \subseteq Request /\ IsFiniteSet(requests)
      /\ adopted \subseteq Request
      /\ spent \subseteq Request /\ slots \in Seq(Request) /\ reused \in BOOLEAN
      /\ outbox.result \in Pair /\ inbox.number \in Nat
  BY KnownIs DEF IInv, TypeInv
<1>0a. \A r : IsFiniteSet(requests \union {r})
  BY <1>0, FS_AddElement
<1>1. CASE AskResearcher
  <2>1. Review(mem).targets \in SUBSET Legal
    BY <1>1, DecidingIs DEF AskResearcher, Deciding
  <2>2. EvidenceRequest(mem) \in Request
    <3>1. {} \in SUBSET Legal
      OBVIOUS
    <3> QED
      BY <1>0, <3>1, RequestsAre
  <2>3. requests' = requests \/ requests' = requests \union {EvidenceRequest(mem)}
    BY <1>0, <1>1, <2>1, AskResearcherIs
  <2> QED
    BY <1>0, <1>0a, <1>1, <2>2, <2>3 DEF AskResearcher
<1>2. CASE PlanInternal
  <2>1. Review(mem).targets \in SUBSET Legal
    BY <1>2, DecidingIs DEF PlanInternal, Deciding
  <2>2. InternalRequest(Pending(mem, FALSE), Review(mem).targets) \in Request
    BY <1>0, <2>1, PendingIs, RequestsAre
  <2>3. \/ requests' = requests
        \/ requests' = requests \union
             {InternalRequest(Pending(mem, FALSE), Review(mem).targets)}
    BY <1>0, <1>2, <2>1, PlanInternalIs
  <2> QED
    BY <1>0, <1>0a, <1>2, <2>2, <2>3 DEF PlanInternal
<1>3. CASE Resume
  <2>1. requests' = requests \/ \E s \in State, ts \in SUBSET Legal :
          requests' = requests \union {InternalRequest(s, ts)}
    BY <1>0, <1>3, ResumeIs
  <2>2. \A s \in State, ts \in SUBSET Legal : InternalRequest(s, ts) \in Request
    BY RequestsAre
  <2> QED
    BY <1>0, <1>0a, <1>3, <2>1, <2>2 DEF Resume
<1>4. CASE Adopt
  <2>1. adopted' = adopted \/ \E r \in Asked : adopted' = adopted \union {r}
    BY <1>0, <1>4, AdoptIs
  <2> QED
    BY <1>0, <1>4, <2>1 DEF Adopt, Asked
<1>5. CASE Authorize
  <2>1. mem.active \in Request
    BY <1>0 DEF State
  <2> QED
    BY <1>0, <1>5, <2>1, AuthorizeIs DEF Authorize
<1>6. CASE ConclusionAsks
  <2>1. PICK ts \in Targets :
          requests' = requests \union
            {[NoRequest EXCEPT !.route = "conclusion", !.epoch = 1 + Cardinality(Asked),
                               !.targets = ts, !.result = outbox.result]}
    BY <1>6 DEF ConclusionAsks
  <2>2. 1 + Cardinality(Asked) \in Nat
    <3>1. IsFiniteSet(Asked)
      BY <1>0, FS_Subset DEF Asked
    <3>2. Cardinality(Asked) \in Nat
      BY <3>1, FS_CardinalityType
    <3> QED
      BY <3>2
  <2> DEFINE e == 1 + Cardinality(Asked)
             r == [NoRequest EXCEPT !.route = "conclusion", !.epoch = e,
                                    !.targets = ts, !.result = outbox.result]
  <2>3. ts \in SUBSET Legal
    BY TargetsAssumption DEF Legal
  <2>4. r \in Request
    <3> HIDE DEF e
    <3> QED
      BY <1>0, <2>2, <2>3, NothingTyped, ZenonT(30) DEF Request, e
  <2> QED
    BY <1>0, <1>0a, <1>6, <2>1, <2>4 DEF ConclusionAsks
<1>7. CASE Line
  BY <1>0, <1>7 DEF Line, Dispatch, Gather, Record, Collected, Integrate, Initial, InitialMade,
         CounterArgument, CounterMade, Final, FinalMade, ReuseReview, AskReview,
         AnswerReview, Reviewed, exchange
<1>8. CASE Decide /\ ~AskResearcher /\ ~PlanInternal
  BY <1>0, <1>8 DEF Decide, Finalize, Approve, Send, SendFails, Sent,
       BlockedByReview, AskedAlready, Waiting, SavePlan, Stop, exchange
<1>9. CASE Revision /\ ~Adopt /\ ~Authorize
  BY <1>0, <1>9 DEF Revision, Revise, Adopted, Stale, Exhausted, Execute, Begin, exchange
<1>10. CASE Recovery
  BY <1>0, <1>10 DEF Recovery, ProviderRetry, Recover, NotRecoverable, NeedsRetry, RecoverBegins,
       RecoverPrimaries, TooFew, RecoverCheckpoints, exchange
<1>11. CASE (Around /\ ~ConclusionAsks) \/ UNCHANGED vars
  BY <1>0, <1>11 DEF Around, Crash, ResearcherReplies, ResearcherFiles, exchange, vars
<1> QED
  BY <1>1, <1>2, <1>3, <1>4, <1>5, <1>6, <1>7, <1>8, <1>9, <1>10, <1>11
     DEF Next, Decide, Revision, Around

\* What the other layers see is typed.
LEMMA OutsideTyped ==
  IInv /\ [Next]_vars =>
    /\ results' \subseteq Answered
    /\ inbox' \in [number : Nat, request : Request, kind : {"completed", "limited", "incomplete"}]
    /\ outbox' \in [result : Pair, about : {<<>>} \union Contents, report : Nat]
<1> DEFINE In == [number : Nat, request : Request, kind : {"completed", "limited", "incomplete"}]
           Out == [result : Pair, about : {<<>>} \union Contents, report : Nat]
<1> SUFFICES ASSUME IInv, [Next]_vars
             PROVE  results' \subseteq Answered /\ inbox' \in In /\ outbox' \in Out
  OBVIOUS
<1>0. /\ mem \in State /\ run \in Run /\ requests \subseteq Request
      /\ results \subseteq Answered /\ inbox \in In /\ outbox \in Out
      /\ reviews \subseteq Judgement
  BY KnownIs DEF IInv, TypeInv
<1>0a. mem.active \in Request /\ <<NoId, NoId>> \in Pair
  BY <1>0, NothingTyped DEF State
<1>1. CASE Finalize
  <2> DEFINE p == IF Review(mem).verdict = "approved" THEN <<mem.final, mem.review>>
                  ELSE mem.result
  <2>1. p \in Pair
    BY <1>0 DEF State, Pair
  <2>2. Outcome(mem) \in {"completed", "partial"}
    BY DEF Outcome
  <2>3. results' = results \union
          IF \E x \in results : x.request = mem.active THEN {}
          ELSE {[request |-> mem.active, status |-> Outcome(mem), result |-> p]}
    BY <1>0, <1>1, FinalizeIs
  <2> HIDE DEF p
  <2>4. [request |-> mem.active, status |-> Outcome(mem), result |-> p] \in Answered
    BY <1>0a, <2>1, <2>2 DEF Answered
  <2> QED
    BY <1>0, <1>1, <2>3, <2>4 DEF Finalize
<1>2. CASE Send
  <2>1. Artifacts(mem) \in Contents /\ mem.result \in Pair /\ mem.report \in Nat
    BY <1>0, IdentityTyped DEF State
  <2> QED
    BY <1>0, <1>2, <2>1 DEF Send, exchange
<1>3. CASE Resume
  <2>1. [request |-> mem.active, status |-> "completed", result |-> <<NoId, NoId>>] \in Answered
    BY <1>0a DEF Answered
  <2>2. \/ results' = results
        \/ results' = results \union {[request |-> mem.active, status |-> "completed",
                                       result |-> <<NoId, NoId>>]}
    BY <1>3 DEF Resume
  <2> QED
    BY <1>0, <1>3, <2>1, <2>2 DEF Resume
<1>4. CASE ResearcherReplies
  <2>1. PICK r \in Upstream, k \in {"completed", "limited", "incomplete"} :
          inbox' = [number |-> inbox.number + 1, request |-> r, kind |-> k]
    BY <1>4 DEF ResearcherReplies
  <2> QED
    BY <1>0, <1>4, <2>1 DEF ResearcherReplies, Upstream, exchange
<1>5. CASE ResearcherFiles
  <2> DEFINE k == IF inbox.kind = "completed" THEN "completed" ELSE "partial"
  <2>1. k \in {"completed", "partial"} /\ inbox.request \in Request
    BY <1>0
  <2>2. results' = results \union
          {[request |-> inbox.request, result |-> <<NoId, NoId>>, status |-> k]}
    BY <1>5 DEF ResearcherFiles
  <2> HIDE DEF k
  <2>3. [request |-> inbox.request, result |-> <<NoId, NoId>>, status |-> k] \in Answered
    BY <1>0a, <2>1 DEF Answered
  <2> QED
    BY <1>0, <1>5, <2>2, <2>3 DEF ResearcherFiles
<1>6. CASE Line
  BY <1>0, <1>6 DEF Line, Dispatch, Gather, Record, Collected, Integrate, Initial, InitialMade,
         CounterArgument, CounterMade, Final, FinalMade, ReuseReview, AskReview,
         AnswerReview, Reviewed, exchange
<1>7. CASE Decide /\ ~Finalize /\ ~Send
  BY <1>0, <1>7 DEF Decide, Approve, SendFails, Sent, BlockedByReview, AskResearcher,
       AskedAlready, Waiting, PlanInternal, SavePlan, Stop, exchange
<1>8. CASE Revision
  BY <1>0, <1>8 DEF Revision, Revise, Adopt, Adopted, Authorize, Stale, Exhausted, Execute,
       Begin, exchange
<1>9. CASE Recovery
  BY <1>0, <1>9 DEF Recovery, ProviderRetry, Recover, NotRecoverable, NeedsRetry, RecoverBegins,
       RecoverPrimaries, TooFew, RecoverCheckpoints, exchange
<1>10. CASE Crash \/ ConclusionAsks \/ UNCHANGED vars
  BY <1>0, <1>10 DEF Crash, ConclusionAsks, exchange, vars
<1> QED
  BY <1>1, <1>2, <1>3, <1>4, <1>5, <1>6, <1>7, <1>8, <1>9, <1>10 DEF Next, Decide, Around

LEMMA TypeStep == IInv /\ [Next]_vars => TypeInv'
<1> SUFFICES ASSUME IInv, [Next]_vars PROVE TypeInv'
  OBVIOUS
<1>1. mem' \in State
  BY MemTyped
<1>2. disk' \in State
  BY <1>1, DiskIs, KnownIs
<1> QED
  BY <1>1, <1>2, RunTyped, CallsTyped, RequestsTyped, OutsideTyped DEF TypeInv

-----------------------------------------------------------------------------
(* What is paid for and what lies in the files.                               *)

LEMMA CallersAre ==
  [Next]_vars => \/ Gather \/ Initial \/ CounterArgument \/ Final \/ AnswerReview \/ ProviderRetry
                 \/ UNCHANGED <<paid, retries, made, reviews>>
<1>1. Line /\ ~(Gather \/ Initial \/ CounterArgument \/ Final \/ AnswerReview) =>
        UNCHANGED <<paid, retries, made, reviews>>
  BY DEF Line, Dispatch, Record, Collected, InitialMade, CounterMade, FinalMade,
       ReuseReview, AskReview, Reviewed, calls
<1>2. Decide \/ Resume \/ Revision => UNCHANGED <<paid, retries, made, reviews>>
  BY DEF Decide, Finalize, Approve, Send, SendFails, Sent,
       BlockedByReview, AskResearcher, AskedAlready, Waiting, PlanInternal, SavePlan, Stop,
       Resume, Revision, Revise, Adopt, Adopted, Authorize, Stale, Exhausted, Execute, Begin,
       calls
<1>3. Recovery /\ ~ProviderRetry => UNCHANGED <<paid, retries, made, reviews>>
  BY DEF Recovery, Recover, NotRecoverable, NeedsRetry, RecoverBegins,
       RecoverPrimaries, TooFew, RecoverCheckpoints, calls
<1>4. Around \/ UNCHANGED vars => UNCHANGED <<paid, retries, made, reviews>>
  BY DEF Around, Crash, ResearcherReplies, ResearcherFiles, ConclusionAsks, calls, vars
<1> QED
  BY <1>1, <1>2, <1>3, <1>4 DEF Next

\* A retry is authorized of what was paid for.
LEMMA RetryablePaid ==
  ASSUME NEW s \in State, NEW ps, ErrorsOK(s, ps)
  PROVE  Retryable(s) \in ps \union {NoId}
BY FaultIs, ReviewErrorIs DEF Retryable, ErrorsOK

LEMMA PaidStep == IInv /\ [Next]_vars => PaidInv'
<1> SUFFICES ASSUME IInv, [Next]_vars PROVE PaidInv'
  OBVIOUS
<1>0. /\ mem \in State /\ disk \in State /\ run \in Run /\ ErrorsOK(mem, paid)
      /\ PaidInv /\ CommandInv
  BY KnownIs DEF IInv
<1>1. ASSUME NEW id, id.agent # "none", paid' = paid \union {id}, UNCHANGED <<retries, reviews>>
      PROVE  PaidInv'
  BY <1>0, <1>1 DEF PaidInv
<1>2. CASE Gather
  <2>1. \A id \in run.todo : id.agent # "none"
    <3>1. \A id \in run.todo : id.agent \in Primary
      BY <1>0, <1>2 DEF CommandInv, Gather, Asking, AskingOK, Askable
    <3> QED
      BY <3>1, NamesDiffer
  <2>2. paid' = paid \union run.todo /\ UNCHANGED <<retries, reviews>>
    BY <1>2 DEF Gather
  <2> QED
    BY <1>0, <2>1, <2>2 DEF PaidInv
<1>3. ASSUME NEW stage \in {"initial", "final"}, NEW on, NEW next, Integrate(stage, on, next)
      PROVE  PaidInv'
  <2>1. ManagerId(mem, stage).agent # "none"
    BY <1>0, ManagerIdIs
  <2>2. paid' = paid \union {ManagerId(mem, stage)} /\ UNCHANGED <<retries, reviews>>
    BY <1>3 DEF Integrate
  <2> QED
    BY <1>1, <2>1, <2>2
<1>4. UNCHANGED <<paid, retries, made, reviews>> => PaidInv'
  BY <1>0 DEF PaidInv
<1>5. CASE Initial
  BY <1>3, <1>4, <1>5 DEF Initial, calls
<1>6. CASE CounterArgument
  <2>1. CounterId(mem).agent # "none"
    BY <1>0, <1>6, CounterArgumentIs
  <2>2. /\ paid' = paid \/ paid' = paid \union {CounterId(mem)}
        /\ UNCHANGED <<retries, reviews>>
    BY <1>6 DEF CounterArgument
  <2>3. paid' = paid => PaidInv'
    BY <1>0, <2>2 DEF PaidInv
  <2> QED
    BY <1>1, <2>1, <2>2, <2>3
<1>7. CASE Final
  BY <1>3, <1>4, <1>7 DEF Final, calls
<1>8. CASE AnswerReview
  <2>1. run.id.agent # "none"
    BY <1>0, <1>8 DEF CommandInv, AnswerReview
  <2>2. paid' = paid \union {run.id} /\ UNCHANGED retries
    BY <1>8 DEF AnswerReview
  <2>3. CASE reviews' = reviews
    BY <1>1, <2>1, <2>2, <2>3
  <2>4. ASSUME NEW v, v.id = run.id, v.verdict = "internal" => v.targets # {},
               run.id \notin paid, reviews' = reviews \union {v}
        PROVE  PaidInv'
    BY <1>0, <2>1, <2>2, <2>4 DEF PaidInv
  <2>5. \/ reviews' = reviews
        \/ /\ run.id \notin paid
           /\ \E verdict \in Verdict, ts \in Targets \union {{}} :
                /\ reviews' = reviews \union
                      {[id |-> run.id, about |-> Identity(mem), report |-> mem.report,
                        verdict |-> verdict, targets |-> ts]}
                /\ verdict = "internal" => ts # {}
    BY <1>0, <1>8, AnswerReviewIs
  <2> QED
    BY <2>3, <2>4, <2>5
<1>9. CASE ProviderRetry
  <2>1. Retryable(mem) \in paid \union {NoId}
    BY <1>0, RetryablePaid
  <2>2. \/ retries' = retries
        \/ Retryable(mem) # NoId /\ retries' = retries \union {Retryable(mem)}
    BY <1>9 DEF ProviderRetry, Grant
  <2>3. UNCHANGED <<paid, reviews>>
    BY <1>9 DEF ProviderRetry
  <2> QED
    BY <1>0, <2>1, <2>2, <2>3 DEF PaidInv
<1> QED
  BY <1>2, <1>4, <1>5, <1>6, <1>7, <1>8, <1>9, CallersAre

\* What new requests, adoptions and results have to be.
LEMMA FilesBy ==
  ASSUME FilesInv, reviews \subseteq reviews', requests \subseteq requests',
         \A r \in requests' \ requests :
           /\ r.route \in {"internal", "conclusion"} => r.targets # {}
           /\ r.route = "internal" => Refused(r.review, reviews) /\ r.final # NoId
           /\ r.route = "conclusion" => r.result[2] # NoId,
         adopted \subseteq adopted', \A r \in adopted' : r \in adopted \/ r \in Asked,
         results \subseteq results',
         \A x \in results' \ results :
           /\ x.request.route = "conclusion" => x.request \in adopted
           /\ x.request.route = "internal" /\ x.status = "completed" =>
                \E v \in reviews : /\ v.id = x.result[2] /\ v.verdict = "approved"
                                   /\ v.about[1][4] = x.result[1],
         \/ \A r \in requests' \ requests : r.route # "conclusion"
         \/ Unanswered = {} /\ \E q : requests' \subseteq requests \union {q},
         outbox' = outbox \/ \E v \in reviews : /\ v.id = outbox'.result[2]
                                                /\ v.verdict = "approved"
                                                /\ v.about[1] = outbox'.about
  PROVE  FilesInv'
<1>1. \A r \in requests' : r.route \in {"internal", "conclusion"} => r.targets # {}
  BY DEF FilesInv
<1>2. \A r \in requests' : r.route = "internal" => Refused(r.review, reviews') /\ r.final # NoId
  BY VerdictsStay DEF FilesInv
<1>3. \A r \in Asked' : r.result[2] # NoId
  BY DEF FilesInv, Asked
<1>4. adopted' \subseteq requests' /\ \A r \in adopted' : r.route = "conclusion"
  BY DEF FilesInv, Asked
<1>5. \A x \in results' : x.request.route = "conclusion" => x.request \in adopted'
  BY DEF FilesInv
<1>6. \A q, r \in Unanswered' : q = r
  <2>1. CASE \A r \in requests' \ requests : r.route # "conclusion"
    <3>1. Unanswered' \subseteq Unanswered
      BY <2>1 DEF Unanswered, Asked
    <3> QED
      BY <3>1 DEF FilesInv
  <2>2. CASE Unanswered = {} /\ \E q : requests' \subseteq requests \union {q}
    <3>1. PICK q : requests' \subseteq requests \union {q}
      BY <2>2
    <3>2. Unanswered' \subseteq {q}
      BY <2>2, <3>1 DEF Unanswered, Asked
    <3> QED
      BY <3>2
  <2> QED
    BY <2>1, <2>2
<1>7. ResultsAreTruthful'
  BY DEF FilesInv, ResultsAreTruthful
<1>8. HandoffWasApproved'
  BY DEF FilesInv, HandoffWasApproved, Handed
<1> QED
  BY <1>1, <1>2, <1>3, <1>4, <1>5, <1>6, <1>7, <1>8 DEF FilesInv

LEMMA FilersAre ==
  [Next]_vars => \/ AskResearcher \/ PlanInternal \/ Finalize \/ Send \/ Resume \/ Adopt
                 \/ ResearcherFiles \/ ConclusionAsks
                 \/ /\ requests' = requests /\ adopted' = adopted
                    /\ results' = results /\ outbox' = outbox
<1> DEFINE U == /\ requests' = requests /\ adopted' = adopted
                /\ results' = results /\ outbox' = outbox
<1>1. Line => U
  BY DEF Line, Dispatch, Gather, Record, Collected, Integrate, Initial, InitialMade,
       CounterArgument, CounterMade, Final, FinalMade, ReuseReview, AskReview, AnswerReview,
       Reviewed, exchange
<1>2. Decide => AskResearcher \/ PlanInternal \/ Finalize \/ Send \/ U
  BY DEF Decide, Approve, SendFails, Sent, BlockedByReview, AskedAlready, Waiting, SavePlan,
       Stop, exchange
<1>3. Revision => Adopt \/ U
  BY DEF Revision, Revise, Adopted, Authorize, Stale, Exhausted, Execute, Begin, exchange
<1>4. Recovery => U
  BY DEF Recovery, ProviderRetry, Recover, NotRecoverable, NeedsRetry, RecoverBegins,
       RecoverPrimaries, TooFew, RecoverCheckpoints, exchange
<1>5. Around => ResearcherFiles \/ ConclusionAsks \/ U
  BY DEF Around, Crash, ResearcherReplies, exchange
<1>6. UNCHANGED vars => U
  BY DEF vars, exchange
<1> QED
  BY <1>1, <1>2, <1>3, <1>4, <1>5, <1>6 DEF Next

LEMMA FilesStep == IInv /\ [Next]_vars => FilesInv'
<1> SUFFICES ASSUME IInv, [Next]_vars PROVE FilesInv'
  OBVIOUS
<1>0. FilesInv /\ PaidInv /\ CommandInv /\ mem \in State /\ requests \subseteq Request
  BY DEF IInv, TypeInv
<1>1. /\ reviews \subseteq reviews' /\ requests \subseteq requests'
      /\ adopted \subseteq adopted' /\ results \subseteq results'
  BY RecordsGrow DEF IInv, Grown
<1>2. CASE /\ requests' = requests /\ adopted' = adopted
           /\ results' = results /\ outbox' = outbox
  BY <1>0, <1>1, <1>2, FilesBy
<1>3. CASE AskResearcher
  <2>1. pc = "decide"
    BY <1>3 DEF AskResearcher, Deciding
  <2>2. /\ requests' = requests \/ requests' = requests \union {EvidenceRequest(mem)}
        /\ EvidenceRequest(mem).route = "upstream"
    BY <1>0, <1>3, <2>1, DecidingIs, AskResearcherIs, RequestsAre
  <2>3. \A r \in requests' \ requests : r.route = "upstream"
    BY <2>2
  <2>4. adopted' = adopted /\ results' = results /\ outbox' = outbox
    BY <1>3 DEF AskResearcher
  <2> QED
    BY <1>0, <1>1, <2>3, <2>4, FilesBy
<1>4. ASSUME NEW r, requests' = requests \/ requests' = requests \union {r},
             r.route = "internal", r.targets # {}, r.final # NoId,
             Refused(r.review, reviews), adopted' = adopted, outbox' = outbox,
             \A x \in results' \ results : x.request.route = "upstream"
      PROVE  FilesInv'
  BY <1>0, <1>1, <1>4, FilesBy
<1>5. CASE PlanInternal
  <2> DEFINE s == Pending(mem, FALSE)
             r == InternalRequest(s, Review(mem).targets)
  <2>1. pc = "decide"
    BY <1>5 DEF PlanInternal, Deciding
  <2>2. Review(mem) \in reviews /\ Review(mem).targets \in SUBSET Legal /\ mem.final # NoId
        /\ (Review(mem).verdict # "approved" => Refused(mem.review, reviews))
    BY <2>1, DecidingIs
  <2>3. s \in State /\ s.review = mem.review /\ s.final = mem.final
    BY <1>0, <2>2, PendingIs DEF Kept
  <2>4. Review(mem).verdict = "internal" /\ (requests' = requests \/ requests' = requests \union {r})
    BY <1>0, <1>5, <2>2, PlanInternalIs
  <2>5. Review(mem).targets # {}
    BY <1>0, <2>2, <2>4 DEF PaidInv
  <2>6. r.route = "internal" /\ r.targets # {} /\ r.final # NoId /\ Refused(r.review, reviews)
    BY <2>2, <2>3, <2>4, <2>5, RequestsAre
  <2>7. adopted' = adopted /\ results' = results /\ outbox' = outbox
    BY <1>5 DEF PlanInternal
  <2> HIDE DEF r
  <2> QED
    BY <1>4, <2>4, <2>6, <2>7
<1>6. CASE Finalize
  <2>1. pc = "decide" /\ requests' = requests /\ adopted' = adopted /\ outbox' = outbox
    BY <1>6 DEF Finalize
  <2>2. /\ Review(mem) \in reviews /\ Review(mem).id = mem.review
        /\ (Review(mem).verdict = "approved" => Review(mem).about[1] = Artifacts(mem))
    BY <2>1, DecidingIs
  <2> DEFINE p == IF Review(mem).verdict = "approved" THEN <<mem.final, mem.review>>
                  ELSE mem.result
             x == [request |-> mem.active, status |-> Outcome(mem), result |-> p]
  <2>3. mem.phase = "executing" /\ results' \subseteq results \union {x}
    BY <1>0, <1>6, FinalizeIs
  <2>4. mem.active.route = "conclusion" => mem.active \in adopted
    BY <2>1, <2>3 DEF IInv, StatesInv, PlanOK
  <2>5. x.status = "completed" => Review(mem).verdict = "approved"
    BY DEF Outcome
  <2>6. x.status = "completed" =>
          \E v \in reviews : /\ v.id = x.result[2] /\ v.verdict = "approved"
                             /\ v.about[1][4] = x.result[1]
    BY <1>0, <2>2, <2>5, IdentityTyped
  <2>7. x.request = mem.active
    OBVIOUS
  <2> HIDE DEF x
  <2> QED
    BY <1>0, <1>1, <2>1, <2>3, <2>4, <2>6, <2>7, FilesBy
<1>7. CASE Send
  <2>1. pc = "send" /\ outbox' = [result |-> mem.result, about |-> Artifacts(mem),
                                  report |-> mem.report]
    BY <1>7 DEF Send
  <2>2. \E v \in reviews : /\ v.id = outbox'.result[2] /\ v.verdict = "approved"
                           /\ v.about[1] = outbox'.about
    BY <1>0, <2>1 DEF CommandInv
  <2>3. requests' = requests /\ adopted' = adopted /\ results' = results
    BY <1>7 DEF Send, exchange
  <2> QED
    BY <1>0, <1>1, <2>2, <2>3, FilesBy
<1>8. CASE Resume
  <2>1. inbox.number \in Nat
    BY DEF IInv, TypeInv
  <2>2. adopted' = adopted /\ outbox' = outbox
    BY <1>8 DEF Resume
  <2>3. CASE UNCHANGED <<requests, results>>
    BY <1>2, <2>2, <2>3
  <2>4. ASSUME NEW s \in State, NEW ts \in SUBSET Legal,
               mem.status = "WAITING_UPSTREAM_REVISION", ts # {},
               \A f \in Kept \ {"result"} : s[f] = mem[f],
               \/ UNCHANGED results
               \/ results' = results \union
                    {[request |-> mem.active, status |-> "completed",
                      result |-> <<NoId, NoId>>]},
               \/ UNCHANGED requests
               \/ requests' = requests \union {InternalRequest(s, ts)}
        PROVE  FilesInv'
    <3> DEFINE r == InternalRequest(s, ts)
    <3>1. WaitingOK(mem, reviews)
      BY DEF IInv, StatesInv, Good
    <3>2. mem.active.route = "upstream" /\ mem.final # NoId /\ Refused(mem.review, reviews)
      BY <2>4, <3>1 DEF WaitingOK
    <3>3. s.review = mem.review /\ s.final = mem.final
      BY <2>4 DEF Kept
    <3>4. r.route = "internal" /\ r.targets # {} /\ r.final # NoId /\ Refused(r.review, reviews)
      BY <2>4, <3>2, <3>3, RequestsAre
    <3>5. \A x \in results' \ results : x.request.route = "upstream"
      BY <2>4, <3>2
    <3>6. requests' = requests \/ requests' = requests \union {r}
      BY <2>4
    <3> HIDE DEF r
    <3> QED
      BY <1>4, <2>2, <3>4, <3>5, <3>6
  <2>5. \/ UNCHANGED <<requests, results>>
        \/ \E s \in State, ts \in SUBSET Legal :
              /\ mem.status = "WAITING_UPSTREAM_REVISION" /\ ts # {}
              /\ \A f \in Kept \ {"result"} : s[f] = mem[f]
              /\ \/ UNCHANGED results
                 \/ results' = results \union
                      {[request |-> mem.active, status |-> "completed",
                        result |-> <<NoId, NoId>>]}
              /\ \/ UNCHANGED requests
                 \/ requests' = requests \union {InternalRequest(s, ts)}
    BY <1>0, <1>8, <2>1, ResumeIs
  <2> QED
    BY <2>3, <2>4, <2>5
<1>9. CASE Adopt
  <2>1. requests' = requests /\ results' = results /\ outbox' = outbox
    BY <1>9 DEF Adopt
  <2>2. adopted' = adopted \/ \E r \in Asked : adopted' = adopted \union {r}
    BY <1>0, <1>9, AdoptIs
  <2> QED
    BY <1>0, <1>1, <2>1, <2>2, FilesBy
<1>10. CASE ResearcherFiles
  <2>1. requests' = requests /\ adopted' = adopted /\ outbox' = outbox
    BY <1>10 DEF ResearcherFiles
  <2>2. \A x \in results' \ results : x.request.route = "upstream"
    BY <1>10 DEF ResearcherFiles, Upstream
  <2> QED
    BY <1>0, <1>1, <2>1, <2>2, FilesBy
<1>11. CASE ConclusionAsks
  <2>1. adopted' = adopted /\ outbox' = outbox /\ results' = results
    BY <1>11 DEF ConclusionAsks
  <2>2. PICK ts \in Targets :
          requests' = requests \union
            {[NoRequest EXCEPT !.route = "conclusion", !.epoch = 1 + Cardinality(Asked),
                               !.targets = ts, !.result = outbox.result]}
    BY <1>11 DEF ConclusionAsks
  <2> DEFINE r == [NoRequest EXCEPT !.route = "conclusion", !.epoch = 1 + Cardinality(Asked),
                               !.targets = ts, !.result = outbox.result]
  <2>3. r.route = "conclusion" /\ r.targets = ts /\ r.result = outbox.result
    BY DEF NoRequest
  <2>4. ts # {}
    BY TargetsAssumption
  <2>5. outbox.result[2] # NoId
    BY <1>0, <1>11, NothingTyped DEF ConclusionAsks, FilesInv, HandoffWasApproved, Handed, PaidInv
  <2>6. Unanswered = {}
    BY <1>11 DEF ConclusionAsks, Unanswered, ResultsOf
  <2>7. requests' = requests \union {r}
    BY <2>2
  <2> HIDE DEF r
  <2> QED
    BY <1>0, <1>1, <2>1, <2>3, <2>4, <2>5, <2>6, <2>7, FilesBy
<1> QED
  BY <1>2, <1>3, <1>5, <1>6, <1>7, <1>8, <1>9, <1>10, <1>11, FilersAre

-----------------------------------------------------------------------------
(* The first state.                                                          *)

LEMMA InvInit == Init => IInv
<1> SUFFICES ASSUME Init PROVE IInv
  OBVIOUS
<1> DEFINE s == NewState
<1>1. /\ disk = s /\ mem = s /\ pc = "dispatch"
      /\ run = [NoRun EXCEPT !.todo = {Id(p, 0, 0) : p \in Primary}]
      /\ paid = {} /\ retries = {} /\ made = {} /\ reviews = {} /\ requests = {}
      /\ slots = <<>> /\ spent = {} /\ adopted = {} /\ results = {} /\ reused = FALSE
      /\ inbox = [number |-> 1, request |-> NoRequest, kind |-> "completed"]
      /\ outbox = [result |-> <<NoId, NoId>>, about |-> <<>>, report |-> 0]
  BY DEF Init
<1>2. s \in State
  BY NothingTyped DEF NewState, State, Status, Phase
<1>3. /\ s.status = "RUNNING" /\ s.analyses = [p \in Primary |-> NoId]
      /\ s.review = NoId /\ s.result = <<NoId, NoId>>
      /\ s.at = [x \in Primary \union Stage |-> 0] /\ s.asked = {} /\ s.faults = <<>>
      /\ s.primaryError = NoId /\ s.reviewError = NoId /\ s.count = 0 /\ s.history = {}
      /\ s.phase = "idle"
  BY DEF NewState
<1> HIDE DEF s
<1>4. run \in Run
  <2> DEFINE todo == {Id(p, 0, 0) : p \in Primary}
  <2>1. todo \subseteq Plain
    <3>1. \A p \in Primary : Id(p, 0, 0) \in Plain
      BY IdTyped
    <3> QED
      BY <3>1
  <2>2. run = [NoRun EXCEPT !.todo = todo]
    BY <1>1
  <2> HIDE DEF todo
  <2> QED
    BY <2>1, <2>2, NothingTyped DEF Run
<1>5. TypeInv
  <2>1. disk \in State /\ mem \in State
    BY <1>1, <1>2
  <2>2. /\ paid \subseteq TaskId /\ retries \subseteq TaskId /\ made \subseteq Integration
        /\ reviews \subseteq Judgement
        /\ requests \subseteq Request /\ IsFiniteSet(requests)
        /\ spent \subseteq Request /\ adopted \subseteq Request /\ results \subseteq Answered
    BY <1>1, FS_EmptySet
  <2>3. slots \in Seq(Request) /\ reused \in BOOLEAN
    <3>1. slots = <<>> /\ reused = FALSE
      BY <1>1, Zenon
    <3>2. \A S : <<>> \in Seq(S)
      OBVIOUS
    <3> QED
      BY <3>1, <3>2
  <2>4. inbox \in [number : Nat, request : Request,
                    kind : {"completed", "limited", "incomplete"}]
    BY <1>1, NothingTyped
  <2>5. outbox \in [result : Pair, about : {<<>>} \union Contents, report : Nat]
    BY <1>1, NothingTyped
  <2> QED
    BY <1>4, <2>1, <2>2, <2>3, <2>4, <2>5 DEF TypeInv
<1>6. AllClosed(s)
  BY <1>3 DEF AllClosed, Open
<1>7. Good(s, {}, {}, {})
  <2>1. AskedOK(s, {})
    BY <1>3 DEF AskedOK
  <2>2. CountOK(s)
    BY <1>3 DEF CountOK
  <2>3. ErrorsOK(s, {})
    BY <1>3 DEF ErrorsOK
  <2>4. Synced(s, {}) /\ ResultOK(s, {}) /\ WaitingOK(s, {})
    BY <1>3 DEF Synced, ResultOK, WaitingOK
  <2>5. OpenOK(s, {}, {})
    BY <1>6 DEF OpenOK, AllClosed
  <2> QED
    BY <2>1, <2>2, <2>3, <2>4, <2>5 DEF Good
<1>8. PlanOK(s, {}, {}, {})
  BY <1>3 DEF PlanOK, PlanOf
<1>9. StatesInv
  BY <1>1, <1>7, <1>8 DEF StatesInv
<1>10. PaidInv
  BY <1>1 DEF PaidInv
<1>11. FilesInv
  BY <1>1 DEF FilesInv, Unanswered, Asked, ResultsAreTruthful, HandoffWasApproved, Handed
<1>12. AskingOK
  <2>1. /\ run.todo = {Id(p, 0, 0) : p \in Primary} /\ run.then = "start" /\ run.first = 1
    BY <1>1 DEF NoRun
  <2>2. \A p \in Primary : /\ Id(p, 0, 0).agent = p /\ Id(p, 0, 0).rev = 0
                           /\ Id(p, 0, 0).retry = FALSE
    BY DEF Id
  <2>3. \A a \in run.todo : Askable(mem, a, paid) /\ Latest(mem, a)
    BY <1>1, <1>3, <2>1, <2>2 DEF Askable, Latest
  <2>4. \A a, b \in run.todo : a.agent = b.agent => a = b
    BY <2>1, <2>2
  <2>5. \A a \in run.todo : mem.analyses[a.agent] = NoId
    BY <1>1, <1>3, <2>1, <2>2
  <2> QED
    BY <1>1, <1>3, <1>6, <2>1, <2>3, <2>4, <2>5 DEF AskingOK
<1>13. CommandInv
  <2>1. s.status # "WAITING_UPSTREAM_REVISION" /\ s.phase # "executing"
    BY <1>3
  <2>2. mem = disk /\ mem = s /\ pc = "dispatch"
    BY <1>1
  <2> QED
    BY <1>12, <2>1, <2>2 DEF CommandInv, Making, Judging
<1> QED
  BY <1>5, <1>9, <1>10, <1>11, <1>13 DEF IInv

-----------------------------------------------------------------------------
(* What both copies keep when something is added to the records.             *)

\* A result is filed for the revision of a state only when nothing of it is open.
LEMMA ResultsSpare ==
  IInv /\ [Next]_vars => /\ Spared(disk, results, results')
                         /\ Spared(mem, results, results')
<1> SUFFICES ASSUME IInv, [Next]_vars
             PROVE  Spared(disk, results, results') /\ Spared(mem, results, results')
  OBVIOUS
<1>0. mem \in State /\ inbox.number \in Nat /\ CommandInv
  BY DEF IInv, TypeInv
<1>1. CASE results' = results
  BY <1>1 DEF Spared
<1>2. ASSUME \A x \in results' \ results : x.request.route = "upstream"
      PROVE  Spared(disk, results, results') /\ Spared(mem, results, results')
  BY <1>2 DEF Spared
<1>3. CASE Finalize
  <2>1. pc = "decide" /\ mem.phase = "executing"
    BY <1>3 DEF Finalize
  <2>2. \A x \in results' : x \in results \/ x.request = mem.active
    BY <1>0, <1>3, FinalizeIs
  <2>3. AllClosed(mem)
    BY <2>1, DecidingIs
  <2>4. disk.phase = "executing" /\ disk.active = mem.active
    BY <1>0, <2>1 DEF CommandInv
  <2>5. mem.active.route = "conclusion" => AllClosed(disk)
    BY <1>0, <2>1 DEF CommandInv
  <2> QED
    BY <2>1, <2>2, <2>3, <2>4, <2>5 DEF Spared, PlanOf
<1>4. CASE Resume
  <2>1. WaitingOK(mem, reviews)
    BY DEF IInv, StatesInv, Good
  <2>2. \/ results' = results
        \/ /\ mem.status = "WAITING_UPSTREAM_REVISION"
           /\ results' \subseteq results \union
                {[request |-> mem.active, status |-> "completed", result |-> <<NoId, NoId>>]}
    BY <1>0, <1>4, ResumeIs
  <2>3. results' # results => \A x \in results' \ results : x.request.route = "upstream"
    BY <2>1, <2>2 DEF WaitingOK
  <2> QED
    BY <1>1, <1>2, <2>3
<1>5. CASE ResearcherFiles
  <2>1. \A x \in results' \ results : x.request.route = "upstream"
    BY <1>5 DEF ResearcherFiles, Upstream
  <2> QED
    BY <1>2, <2>1
<1>6. AskResearcher \/ PlanInternal \/ Send \/ Adopt \/ ConclusionAsks => results' = results
  BY DEF AskResearcher, PlanInternal, Send, Adopt, ConclusionAsks, exchange
<1> QED
  BY <1>1, <1>3, <1>4, <1>5, <1>6, FilersAre

LEMMA BothStay ==
  IInv /\ [Next]_vars =>
    /\ Good(disk, paid', reviews', results') /\ Good(mem, paid', reviews', results')
    /\ PlanOK(disk, reviews', adopted', results')
    /\ pc # "waiting" => PlanOK(mem, reviews', adopted', results')
<1> SUFFICES ASSUME IInv, [Next]_vars
             PROVE  /\ Good(disk, paid', reviews', results')
                    /\ Good(mem, paid', reviews', results')
                    /\ PlanOK(disk, reviews', adopted', results')
                    /\ pc # "waiting" => PlanOK(mem, reviews', adopted', results')
  OBVIOUS
<1>1. StatesInv
  BY DEF IInv
<1>2. paid \subseteq paid' /\ reviews \subseteq reviews' /\ adopted \subseteq adopted'
  BY RecordsGrow DEF IInv, Grown
<1> QED
  BY <1>1, <1>2, ResultsSpare, GoodStays, PlanStays DEF StatesInv

-----------------------------------------------------------------------------
(* The steps of a command.                                                   *)

\* What a step has to leave, beside what is saved.
Onward ==
  /\ Good(mem', paid', reviews', results')
  /\ pc' # "waiting" => PlanOK(mem', reviews', adopted', results')
  /\ CommandInv'

LEMMA SameGood ==
  ASSUME NEW s, NEW t, NEW ps, NEW vs, NEW ads, NEW rs, Good(s, ps, vs, rs), Same(t, s),
         t.status = s.status \/ t.status # "WAITING_UPSTREAM_REVISION"
  PROVE  Good(t, ps, vs, rs) /\ (PlanOK(s, vs, ads, rs) => PlanOK(t, vs, ads, rs))
<1>1. ErrorsOK(t, ps)
  BY SameIs, ErrorsAlike DEF Good
<1>2. Good(t, ps, vs, rs)
  BY <1>1, GoodAlike DEF Same
<1>3. PlanOK(s, vs, ads, rs) => PlanOK(t, vs, ads, rs)
  BY SameIs, PlanAlike
<1> QED
  BY <1>2, <1>3

\* With every analysis settled, nothing is to be said of what is open.
LEMMA GoodBy ==
  ASSUME NEW s, NEW ps, NEW vs, NEW rs, AllClosed(s), AskedOK(s, ps), CountOK(s),
         ErrorsOK(s, ps), Synced(s, vs), ResultOK(s, vs),
         s.status # "WAITING_UPSTREAM_REVISION"
  PROVE  Good(s, ps, vs, rs)
BY DEF Good, OpenOK, AllClosed, WaitingOK

\* A review that has nothing in favour of what lies beside it needs no more.
LEMMA ReworkSynced ==
  ASSUME NEW s, NEW vs, Rework(s, vs)
  PROVE  Synced(s, vs)
BY DEF Rework, Synced, Refused, Fair

\* A command that is over.
LEMMA IdleInv ==
  ASSUME pc' = "idle", mem' = disk'
  PROVE  CommandInv'
BY DEF CommandInv, Asking, Making, Judging

LEMMA EndStep ==
  ASSUME IInv, [Next]_vars, NEW s, Good(s, paid', reviews', results'),
         PlanOK(s, reviews', adopted', results'), Ended(s) \/ Left
  PROVE  Onward
<1>1. CommandInv'
  <2>1. pc' = "idle" /\ mem' = disk'
    BY DEF Ended, Left
  <2> QED
    BY <2>1, IdleInv
<1>2. Good(mem', paid', reviews', results') /\ PlanOK(mem', reviews', adopted', results')
  <2>1. CASE Ended(s)
    BY <2>1, SameGood DEF Ended
  <2>2. CASE Left
    <3>1. mem' = disk
      BY <2>2 DEF Left
    <3> QED
      BY <3>1, BothStay
  <2> QED
    BY <2>1, <2>2
<1> QED
  BY <1>1, <1>2 DEF Onward

\* A call that fails.
LEMMA FailedStep ==
  ASSUME IInv, [Next]_vars, pc # "waiting", disk' = mem', pc' = "idle",
         mem'.status = "FAILED", ErrorsOK(mem', paid'), mem'.plan = mem.plan,
         \A f \in Kept : mem'[f] = mem[f]
  PROVE  Onward
<1>1. CommandInv'
  BY IdleInv
<1>2. Good(mem', paid', reviews', results')
  BY BothStay, GoodAlike
<1>3. mem'.phase = mem.phase /\ mem'.active = mem.active
  BY DEF Kept
<1>4. PlanOK(mem', reviews', adopted', results')
  BY <1>3, BothStay, PlanAlike
<1> QED
  BY <1>1, <1>2, <1>4 DEF Onward

\* Nothing of the copy changes.
LEMMA StayStep ==
  ASSUME IInv, [Next]_vars, pc # "waiting", mem' = mem, CommandInv'
  PROVE  Onward
BY BothStay DEF Onward

\* Tasks are asked of the analysts, one of each.
LEMMA AskedMore ==
  ASSUME NEW s \in State, NEW t, NEW ps, NEW ts \in SUBSET Plain, AskedOK(s, ps),
         \A a \in ts : Askable(s, a, ps),
         \A a, b \in ts : a.agent = b.agent => a = b,
         t.analyses = s.analyses, t.count = s.count, t.asked = s.asked \union ts
  PROVE  AskedOK(t, ps)
<1>1. s.asked \subseteq Plain
  BY DEF State
<1>2. \A p \in Primary : t.analyses[p] # NoId =>
        t.analyses[p] \in t.asked /\ t.analyses[p].agent = p
  BY DEF AskedOK
<1>3. \A a \in t.asked : Askable(t, a, ps)
  BY DEF AskedOK, Askable
<1>4. ASSUME NEW p \in Primary, \E a \in t.asked : a.agent = p
      PROVE  \E a \in t.asked : a.agent = p /\ Latest(t, a)
  <2>1. CASE \A a \in ts : a.agent # p
    <3>1. PICK a \in s.asked : a.agent = p /\ Latest(s, a)
      BY <1>4, <2>1 DEF AskedOK
    <3>2. Latest(t, a)
      BY <2>1, <3>1 DEF Latest
    <3> QED
      BY <3>1, <3>2
  <2>2. CASE \E a \in ts : a.agent = p
    <3>1. PICK a \in ts : a.agent = p
      BY <2>2
    <3>2. CASE \A b \in s.asked : b.agent = p /\ b # a => Later(a, b)
      <4>1. Latest(t, a)
        BY <3>1, <3>2 DEF Latest
      <4> QED
        BY <3>1, <4>1
    <3>3. CASE \E b \in s.asked : b.agent = p /\ b # a /\ ~Later(a, b)
      <4>1. PICK c \in s.asked : c.agent = p /\ c # a /\ ~Later(a, c)
        BY <3>3
      <4>2. PICK b \in s.asked : b.agent = p /\ Latest(s, b)
        BY <4>1 DEF AskedOK
      <4>3. Later(c, a)
        BY <1>1, <3>1, <4>1, LaterIs
      <4>4. b # a => Later(b, a)
        <5>1. b = c \/ Later(b, c)
          BY <4>1, <4>2 DEF Latest
        <5> QED
          BY <1>1, <4>3, <5>1, LaterAdds
      <4>5. Latest(t, b)
        BY <3>1, <4>2, <4>4 DEF Latest
      <4> QED
        BY <4>2, <4>5
    <3> QED
      BY <3>2, <3>3
  <2> QED
    BY <2>1, <2>2
<1> QED
  BY <1>2, <1>3, <1>4 DEF AskedOK

\* What is known at a step.
LEMMA Here ==
  ASSUME IInv, [Next]_vars
  PROVE  /\ mem \in State /\ disk \in State /\ run \in Run /\ mem' \in State
         /\ paid \subseteq TaskId /\ reviews \subseteq Judgement
         /\ CommandInv /\ FilesInv /\ PaidInv
         /\ AskedOK(mem, paid') /\ CountOK(mem) /\ ErrorsOK(mem, paid')
         /\ Synced(mem, reviews') /\ OpenOK(mem, reviews', results')
         /\ ResultOK(mem, reviews') /\ WaitingOK(mem, reviews')
BY KnownIs, BothStay, MemTyped DEF IInv, Good

LEMMA DispatchStep ==
  ASSUME IInv, [Next]_vars, Dispatch
  PROVE  Onward
<1>0. mem \in State /\ run \in Run /\ CommandInv /\ pc = "dispatch"
  BY Here DEF Dispatch
<1>1. /\ mem' \in State /\ disk' = mem' /\ mem'.status = "COLLECTING"
      /\ mem'.asked = mem.asked \union run.todo
      /\ \A f \in Kept \ {"asked"} : mem'[f] = mem[f]
      /\ \A f \in Beside : mem'[f] = mem[f]
  BY <1>0, DispatchIs
<1>2. /\ mem'.analyses = mem.analyses /\ mem'.count = mem.count /\ mem'.review = mem.review
      /\ mem'.at = mem.at /\ mem'.history = mem.history /\ mem'.phase = mem.phase
      /\ mem'.active = mem.active /\ mem'.result = mem.result /\ mem'.final = mem.final
      /\ mem'.initial = mem.initial /\ mem'.counter = mem.counter
      /\ mem'.faults = mem.faults /\ mem'.primaryError = mem.primaryError
      /\ mem'.reviewError = mem.reviewError /\ mem'.plan = mem.plan
  BY <1>1 DEF Kept, Beside
<1>3. /\ pc' = "gather" /\ run' = run /\ paid' = paid /\ reviews' = reviews
      /\ results' = results /\ adopted' = adopted
  BY DEF Dispatch, Goto, calls, exchange
<1>4. AskingOK
  BY <1>0 DEF CommandInv, Asking
<1>5. run.todo \subseteq Plain
  BY <1>0 DEF Run
<1>6. AskedOK(mem', paid)
  BY <1>0, <1>2, <1>1, <1>3, <1>4, <1>5, AskedMore, Here DEF AskingOK
<1>7. ASSUME NEW p \in Primary, Open(mem', p)
      PROVE  Open(mem, p) \/ \E a \in run.todo : a.agent = p
  BY <1>1, <1>2, <1>7 DEF Open
<1>8. \A p : Open(mem, p) => Open(mem', p)
  BY <1>1, <1>2 DEF Open
<1>9. run.then = "revise" => Reworked(mem', reviews, results)
  BY <1>2, <1>4, ReworkedAlike DEF AskingOK
<1>10. run.then # "revise" => AllClosed(mem')
  <2> SUFFICES ASSUME run.then # "revise", NEW p \in Primary, Open(mem', p) PROVE FALSE
    BY DEF AllClosed
  <2>1. ~Open(mem, p)
    BY <1>4 DEF AskingOK, AllClosed
  <2>2. PICK a \in run.todo : a.agent = p
    BY <1>7, <2>1
  <2>3. mem.analyses[p] = NoId
    BY <1>0, <1>4, <2>2 DEF AskingOK
  <2> QED
    BY <1>2, <2>3 DEF Open
<1>11. OpenOK(mem', reviews, results)
  <2>1. CASE run.then = "revise"
    <3>1. OpenOK(mem, reviews, results)
      BY DEF IInv, StatesInv, Good
    <3>2. \A p \in Primary : Open(mem', p) => p \in mem.active.targets
      BY <1>4, <1>7, <2>1, <3>1 DEF AskingOK, OpenOK
    <3> QED
      BY <1>2, <1>9, <2>1, <3>2 DEF OpenOK
  <2>2. CASE run.then # "revise"
    BY <1>10, <2>2 DEF OpenOK, AllClosed
  <2> QED
    BY <2>1, <2>2
<1>12. Good(mem', paid', reviews', results')
  <2>1. CountOK(mem)/\ ErrorsOK(mem, paid) /\ Synced(mem, reviews) /\ ResultOK(mem, reviews)
    BY DEF IInv, StatesInv, Good
  <2>2. CountOK(mem') /\ ErrorsOK(mem', paid)
    BY <1>2, <2>1, ErrorsAlike DEF CountOK
  <2>3. Artifacts(mem') = Artifacts(mem)
    BY <1>2 DEF Artifacts
  <2>4. Synced(mem', reviews)
    BY <1>2, <2>1, <2>3, GivenUpAlike, FairAlike DEF Synced
  <2>5. ResultOK(mem', reviews) /\ WaitingOK(mem', reviews)
    BY <1>1, <1>2, <2>1 DEF ResultOK, WaitingOK
  <2> QED
    BY <1>3, <1>6, <1>11, <2>2, <2>4, <2>5 DEF Good
<1>13. PlanOK(mem', reviews', adopted', results')
  BY <1>0, <1>2, BothStay, PlanAlike
<1>14. AskingOK'
  <2>1. \A a \in run.todo : Askable(mem', a, paid)
    BY <1>2, <1>4 DEF AskingOK, Askable
  <2>2. \A a \in run.todo : a \in paid \/ Latest(mem', a)
    <3> SUFFICES ASSUME NEW a \in run.todo, a \notin paid PROVE Latest(mem', a)
      OBVIOUS
    <3>1. Latest(mem, a)
      BY <1>0, <1>4 DEF AskingOK
    <3> QED
      BY <1>1, <1>4, <3>1 DEF Latest, AskingOK
  <2>3. run.then = "revise" =>
          /\ \A a \in run.todo : a.agent \in mem'.active.targets
          /\ \A p \in Primary : Open(mem', p) => \E a \in run.todo : a.agent = p
    BY <1>2, <1>4, <1>7 DEF AskingOK
  <2>4. run.then # "revise" =>
          mem'.review = NoId /\ \A a \in run.todo : mem'.analyses[a.agent] = NoId
    BY <1>0, <1>2, <1>4 DEF AskingOK
  <2>5. run.todo \subseteq mem'.asked
    BY <1>1
  <2>6. /\ \A a, b \in run.todo : a.agent = b.agent => a = b
        /\ run.then \in {"start", "revise", "recover"}
        /\ run.then # "recover" => run.first <= 2
    BY <1>4 DEF AskingOK
  <2> QED
    BY <1>3, <1>9, <1>10, <2>1, <2>2, <2>3, <2>4, <2>5, <2>6 DEF AskingOK
<1>15. CommandInv'
  BY <1>1, <1>3, <1>14 DEF CommandInv, Asking, Making, Judging
<1> QED
  BY <1>12, <1>13, <1>15 DEF Onward

LEMMA GatherStep ==
  ASSUME IInv, [Next]_vars, Gather
  PROVE  Onward
<1>0. mem \in State /\ run \in Run /\ CommandInv /\ pc = "gather"
  BY Here DEF Gather
<1>1. PICK f \in [run.todo -> {"result", "retryable", "error"}] :
        /\ \A id \in run.todo : f[id] \in Outcomes(id)
        /\ run' = [run EXCEPT !.got = {<<id, f[id]>> : id \in run.todo}, !.failures = 0]
  BY DEF Gather
<1>2. /\ paid' = paid \union run.todo /\ pc' = "record" /\ disk' = disk /\ mem' = mem
      /\ reviews' = reviews /\ results' = results
  BY DEF Gather, Goto, exchange
<1>3. /\ run'.got = {<<id, f[id]>> : id \in run.todo} /\ run'.failures = 0
      /\ run'.todo = run.todo /\ run'.then = run.then /\ run'.first = run.first
  BY <1>0, <1>1 DEF Run
<1>4. AskingOK
  BY <1>0 DEF CommandInv, Asking
<1>5. AskingOK'
  <2>1. \A a \in run.todo : Askable(mem, a, paid')
    BY <1>2, <1>4 DEF AskingOK, Askable
  <2> QED
    BY <1>2, <1>3, <1>4, <2>1 DEF AskingOK
<1>6. RecordOK'
  <2>1. run.todo \subseteq mem.asked
    BY <1>0, <1>4 DEF AskingOK
  <2>2. \A x \in run'.got : x[1] \in run.todo /\ x[2] = f[x[1]] /\ x = <<x[1], f[x[1]]>>
    BY <1>3
  <2>3. ASSUME NEW x \in run'.got, x[2] = "result"
        PROVE  Latest(mem, x[1])
    <3>1. x[1] \notin paid
      BY <1>1, <2>2, <2>3 DEF Outcomes
    <3> QED
      BY <1>0, <1>4, <2>2, <3>1 DEF AskingOK
  <2>4. \A x, y \in run'.got : x[1] = y[1] => x = y
    BY <2>2
  <2>5. run.then # "revise" => \A x \in run'.got : mem.analyses[x[1].agent] = NoId
    BY <1>0, <1>4, <2>2 DEF AskingOK
  <2>6. \A a \in run.todo : \E x \in run'.got : x[1] = a
    <3> SUFFICES ASSUME NEW a \in run.todo PROVE \E x \in run'.got : x[1] = a
      OBVIOUS
    <3>1. <<a, f[a]>> \in run'.got /\ <<a, f[a]>>[1] = a
      BY <1>3
    <3> QED
      BY <3>1
  <2> QED
    BY <1>2, <1>3, <2>1, <2>2, <2>3, <2>4, <2>5, <2>6 DEF RecordOK
<1>7. CommandInv'
  BY <1>0, <1>2, <1>5, <1>6 DEF CommandInv, Asking, Making, Judging
<1> QED
  BY <1>0, <1>2, <1>7, StayStep

LEMMA RecordStep ==
  ASSUME IInv, [Next]_vars, Record
  PROVE  Onward
<1>0. mem \in State /\ run \in Run /\ CommandInv /\ pc = "record" /\ mem.count \in Nat
  BY Here DEF Record, State
<1>1. PICK x \in run.got :
        /\ x[1] \in Plain /\ x[1].agent \in Primary /\ x[2] \in Kind
        /\ mem' = Recorded(mem, x[1], x[2]) /\ disk' = mem'
        /\ run' = [run EXCEPT !.got = @ \ {x},
                              !.failures = IF x[2] = "result" THEN @ ELSE @ + 1]
  BY <1>0, RecordIs
<1> DEFINE id == x[1]
           p == id.agent
           good == x[2] = "result"
<1>2. /\ mem' \in State
      /\ good => /\ mem'.analyses = [mem.analyses EXCEPT ![p] = id]
                 /\ mem'.at = [mem.at EXCEPT ![p] = mem.count]
      /\ ~good => mem'.analyses = mem.analyses /\ mem'.at = mem.at
      /\ mem'.primaryError \in {mem.primaryError, id}
      /\ \A f \in Kept \ {"analyses", "at"} : mem'[f] = mem[f]
      /\ \A f \in {"faults", "reviewError", "status", "plan"} : mem'[f] = mem[f]
  BY <1>0, <1>1, RecordedIs
<1>3. /\ mem'.count = mem.count /\ mem'.review = mem.review /\ mem'.asked = mem.asked
      /\ mem'.history = mem.history /\ mem'.phase = mem.phase
      /\ mem'.active = mem.active /\ mem'.result = mem.result /\ mem'.final = mem.final
      /\ mem'.initial = mem.initial /\ mem'.counter = mem.counter
      /\ mem'.faults = mem.faults /\ mem'.status = mem.status
      /\ mem'.reviewError = mem.reviewError /\ mem'.plan = mem.plan
  BY <1>2 DEF Kept
<1>4. /\ pc' = pc /\ paid' = paid /\ reviews' = reviews /\ results' = results
      /\ adopted' = adopted
  BY DEF Record, calls, exchange
<1>5. AskingOK /\ RecordOK
  BY <1>0 DEF CommandInv, Asking
<1>6. /\ run'.got = run.got \ {x} /\ run'.todo = run.todo /\ run'.then = run.then
      /\ run'.first = run.first
      /\ run'.failures = IF good THEN run.failures ELSE run.failures + 1
  BY <1>0, <1>1 DEF Run
<1>7. id \in run.todo /\ id \in paid /\ id \in mem.asked /\ (good => Latest(mem, id))
  BY <1>5 DEF RecordOK
<1>8. p \in Primary /\ p \notin Stage
  BY <1>1, NamesDiffer
<1>9. /\ \A q \in Primary : q # p => mem'.analyses[q] = mem.analyses[q]
      /\ good => mem'.analyses[p] = id
      /\ \A stage \in Stage : mem'.at[stage] = mem.at[stage]
      /\ \A y \in Primary \union Stage : mem'.at[y] \in {mem.at[y], mem.count}
  BY <1>0, <1>2, <1>8 DEF State
<1>10. ASSUME NEW q \in Primary, Open(mem', q)
       PROVE  Open(mem, q) /\ (good => q # p)
  <2>1. CASE good /\ q = p
    <3>1. PICK a \in mem.asked : a.agent = p /\ a # id /\ Later(a, id)
      BY <1>3, <1>9, <1>10, <2>1 DEF Open
    <3>2. Later(id, a)
      BY <1>7, <2>1, <3>1 DEF Latest
    <3>3. a \in Plain
      BY <1>0, <3>1 DEF State
    <3> QED
      BY <1>1, <3>1, <3>2, <3>3, LaterIs
  <2>2. CASE ~(good /\ q = p)
    <3>1. mem'.analyses[q] = mem.analyses[q]
      BY <1>2, <1>9, <2>2
    <3> QED
      BY <1>3, <1>10, <2>2, <3>1 DEF Open
  <2> QED
    BY <2>1, <2>2
<1>11. GivenUp(mem, "review") => GivenUp(mem', "review")
  BY <1>3, <1>9 DEF GivenUp, Stage
<1>12. /\ Rework(mem, reviews)
       /\ run.then = "revise" => Reworked(mem', reviews, results)
  BY <1>3, <1>5, <1>11 DEF AskingOK, Reworked, Busy, Rework
<1>13. Rework(mem', reviews)
  BY <1>3, <1>11, <1>12 DEF Rework
<1>14. Good(mem', paid', reviews', results')
  <2>1. AskedOK(mem', paid)
    <3>1. AskedOK(mem, paid)
      BY DEF IInv, StatesInv, Good
    <3>2. \A q \in Primary : mem'.analyses[q] # NoId =>
            mem'.analyses[q] \in mem'.asked /\ mem'.analyses[q].agent = q
      BY <1>2, <1>3, <1>7, <1>9, <3>1 DEF AskedOK
    <3>3. \A a : Latest(mem, a) => Latest(mem', a)
      BY <1>3 DEF Latest
    <3> QED
      BY <1>3, <3>1, <3>2, <3>3 DEF AskedOK, Askable
  <2>2. CountOK(mem') /\ ErrorsOK(mem', paid)
    <3>1. CountOK(mem) /\ ErrorsOK(mem, paid)
      BY DEF IInv, StatesInv, Good
    <3>2. CountOK(mem')
      BY <1>0, <1>3, <1>9, <3>1 DEF CountOK
    <3>3. ErrorsOK(mem', paid)
      BY <1>2, <1>3, <1>7, <3>1 DEF ErrorsOK
    <3> QED
      BY <3>2, <3>3
  <2>3. Synced(mem', reviews)
    BY <1>13, ReworkSynced
  <2>4. OpenOK(mem', reviews, results)
    <3> SUFFICES ASSUME NEW q \in Primary, Open(mem', q)
                 PROVE  q \in mem'.active.targets /\ Reworked(mem', reviews, results)
      BY DEF OpenOK
    <3>1. Open(mem, q)
      BY <1>10
    <3>2. OpenOK(mem, reviews, results)
      BY DEF IInv, StatesInv, Good
    <3>3. run.then = "revise"
      BY <1>5, <3>1 DEF AskingOK, AllClosed
    <3> QED
      BY <1>3, <1>12, <3>1, <3>2, <3>3 DEF OpenOK
  <2>5. ResultOK(mem', reviews)
    <3>1. ResultOK(mem, reviews)
      BY DEF IInv, StatesInv, Good
    <3> QED
      BY <1>3, <3>1 DEF ResultOK
  <2>6. WaitingOK(mem', reviews)
    BY <1>0, <1>3 DEF WaitingOK, CommandInv
  <2> QED
    BY <1>4, <2>1, <2>2, <2>3, <2>4, <2>5, <2>6 DEF Good
<1>15. PlanOK(mem', reviews', adopted', results')
  BY <1>0, <1>3, BothStay, PlanAlike
<1>16. AskingOK'
  <2>1. \A a \in run.todo : Askable(mem', a, paid)
    BY <1>3, <1>5 DEF AskingOK, Askable
  <2>2. run.then = "revise" =>
          /\ \A a \in run.todo : a.agent \in mem'.active.targets
          /\ \A q \in Primary : Open(mem', q) => \E a \in run.todo : a.agent = q
    BY <1>3, <1>5, <1>10 DEF AskingOK
  <2>3. run.then # "revise" => AllClosed(mem') /\ mem'.review = NoId
    BY <1>3, <1>5, <1>10 DEF AskingOK, AllClosed
  <2>4. /\ \A a, b \in run.todo : a.agent = b.agent => a = b
        /\ run.then \in {"start", "revise", "recover"}
        /\ run.then # "recover" => run.first <= 2
    BY <1>5 DEF AskingOK
  <2> QED
    BY <1>0, <1>4, <1>6, <1>12, <2>1, <2>2, <2>3, <2>4 DEF AskingOK
<1>17. RecordOK'
  <2>1. \A y \in run'.got : y[1] \in run.todo /\ y[1] \in paid /\ y[1] \in mem'.asked
    BY <1>3, <1>5, <1>6 DEF RecordOK
  <2>2. \A y \in run'.got : y[2] = "result" => Latest(mem', y[1])
    BY <1>3, <1>5, <1>6 DEF RecordOK, Latest
  <2>3. \A y, z \in run'.got : y[1] = z[1] => y = z
    BY <1>5, <1>6 DEF RecordOK
  <2>4. run'.failures \in Nat /\ (run'.failures = 0 => good /\ run.failures = 0)
    <3>1. run.failures \in Nat
      BY <1>5 DEF RecordOK
    <3> HIDE DEF good
    <3> QED
      BY <1>6, <3>1
  <2>5. ASSUME run.then # "revise", NEW y \in run'.got
        PROVE  mem'.analyses[y[1].agent] = NoId
    <3>1. y \in run.got /\ y # x /\ y[1] # id
      BY <1>5, <1>6 DEF RecordOK
    <3>2. y[1].agent # p
      BY <1>5, <1>7, <3>1 DEF AskingOK, RecordOK
    <3>3. mem.analyses[y[1].agent] = NoId
      BY <1>5, <2>5, <3>1 DEF RecordOK
    <3>4. y[1].agent \in Primary
      BY <1>5, <3>1 DEF AskingOK, RecordOK, Askable
    <3> QED
      BY <1>9, <3>2, <3>3, <3>4
  <2>6. ASSUME run'.failures = 0, NEW a \in run.todo
        PROVE  ~Open(mem', a.agent) \/ \E y \in run'.got : y[1] = a
    <3>1. good /\ (~Open(mem, a.agent) \/ \E y \in run.got : y[1] = a)
      BY <1>5, <2>4, <2>6 DEF RecordOK
    <3>2. a.agent \in Primary
      BY <1>5 DEF AskingOK, Askable
    <3>3. a = id => ~Open(mem', a.agent)
      BY <1>10, <3>1, <3>2
    <3>4. ~Open(mem, a.agent) => ~Open(mem', a.agent)
      BY <1>10, <3>2
    <3> QED
      BY <1>6, <3>1, <3>3, <3>4
  <2> QED
    BY <1>4, <1>6, <2>1, <2>2, <2>3, <2>4, <2>5, <2>6 DEF RecordOK
<1>18. CommandInv'
  <2>1. mem'.status # "WAITING_UPSTREAM_REVISION"
    BY <1>0, <1>3 DEF CommandInv
  <2>2. disk' = mem' /\ pc' = "record"
    BY <1>0, <1>1, <1>4
  <2> QED
    BY <1>16, <1>17, <2>1, <2>2 DEF CommandInv, Asking, Making, Judging
<1> QED
  BY <1>14, <1>15, <1>18 DEF Onward

LEMMA CollectedStep ==
  ASSUME IInv, [Next]_vars, Collected
  PROVE  Onward
<1>0. mem \in State /\ run \in Run /\ CommandInv /\ pc = "record" /\ run.got = {}
  BY Here DEF Collected
<1>1. CASE Ended(mem)
  BY <1>0, <1>1, BothStay, EndStep
<1>2. ASSUME Same(mem', mem), mem'.status # "WAITING_UPSTREAM_REVISION", disk' = mem',
             run' = run, pc' = IF run.then = "recover" THEN "checkpoints" ELSE "initial",
             run.then = "revise" => run.failures = 0
      PROVE  Onward
  <2>1. reviews' = reviews
    BY DEF Collected, calls
  <2>2. AskingOK /\ RecordOK
    BY <1>0 DEF CommandInv, Asking
  <2>3. AllClosed(mem)
    <3>1. CASE run.then # "revise"
      BY <2>2, <3>1 DEF AskingOK
    <3>2. CASE run.then = "revise"
      <4>1. \A a \in run.todo : ~Open(mem, a.agent)
        BY <1>0, <1>2, <2>2, <3>2 DEF RecordOK
      <4> QED
        BY <2>2, <3>2, <4>1 DEF AskingOK, AllClosed
    <3> QED
      BY <3>1, <3>2
  <2>4. Rework(mem, reviews)
    BY <2>2 DEF AskingOK, Reworked, Rework
  <2>5. AllClosed(mem') /\ Rework(mem', reviews)
    BY <1>2, <2>3, <2>4, SameIs, OpenAlike, ReworkAlike
  <2>6. run.then # "recover" => ~(run.first > 3)
    <3>1. run.first \in 1 .. 5
      BY <1>0 DEF Run
    <3> QED
      BY <2>2, <3>1 DEF AskingOK
  <2>7. CommandInv'
    BY <1>2, <2>1, <2>5, <2>6 DEF CommandInv, Asking, Making, Judging
  <2> QED
    BY <1>0, <1>2, <2>7, BothStay, SameGood DEF Onward
<1> QED
  BY <1>0, <1>1, <1>2, CollectedIs

\* What a stage has made is saved.
LEMMA MadeStep ==
  ASSUME IInv, [Next]_vars, pc # "waiting", NEW stage \in {"initial", "counter", "final"},
         mem' \in State, AllClosed(mem), Rework(mem, reviews'),
         mem'.at = [mem.at EXCEPT ![stage] = mem.count],
         \A f \in Kept \ {stage, "at", "result"} : mem'[f] = mem[f],
         \A f \in Beside : mem'[f] = mem[f],
         \/ stage # "final" /\ mem'.result = mem.result
         \/ mem'.result[2] = NoId,
         mem'.status # "WAITING_UPSTREAM_REVISION"
  PROVE  /\ Good(mem', paid', reviews', results')
         /\ PlanOK(mem', reviews', adopted', results')
         /\ AllClosed(mem') /\ Rework(mem', reviews')
<1>1. /\ mem'.analyses = mem.analyses /\ mem'.count = mem.count /\ mem'.review = mem.review
      /\ mem'.history = mem.history /\ mem'.phase = mem.phase
      /\ mem'.active = mem.active /\ mem'.asked = mem.asked
      /\ mem'.faults = mem.faults /\ mem'.primaryError = mem.primaryError
      /\ mem'.reviewError = mem.reviewError /\ mem'.plan = mem.plan
      /\ stage # "final" => mem'.final = mem.final
  BY DEF Kept, Beside
<1>2. /\ mem \in State /\ AskedOK(mem, paid') /\ CountOK(mem) /\ ErrorsOK(mem, paid')
      /\ ResultOK(mem, reviews')
  BY Here
<1>3. /\ stage \in Primary \union Stage /\ stage # "review" /\ mem.count \in Nat
      /\ mem.at \in [Primary \union Stage -> Nat]
  BY <1>2 DEF State, Stage
<1>4. /\ mem'.at["review"] = mem.at["review"]
      /\ \A x \in Primary \union Stage : mem'.at[x] \in {mem.at[x], mem.count}
  BY <1>3 DEF Stage
<1>5. AllClosed(mem')
  BY <1>1, OpenAlike
<1>6. Rework(mem', reviews')
  BY <1>1, <1>4 DEF Rework, GivenUp
<1>7. AskedOK(mem', paid')
  BY <1>1, <1>2, AskedAlike
<1>8. CountOK(mem') /\ ErrorsOK(mem', paid')
  BY <1>1, <1>2, <1>3, <1>4, ErrorsAlike DEF CountOK
<1>9. ResultOK(mem', reviews')
  BY <1>1, <1>2 DEF ResultOK
<1>10. Good(mem', paid', reviews', results')
  BY <1>5, <1>6, <1>7, <1>8, <1>9, ReworkSynced, GoodBy
<1>11. PlanOK(mem', reviews', adopted', results')
  BY <1>1, BothStay, PlanAlike
<1> QED
  BY <1>5, <1>6, <1>10, <1>11

LEMMA IntegrateStep ==
  ASSUME IInv, [Next]_vars, NEW stage \in {"initial", "final"}, NEW on, NEW next,
         Integrate(stage, on, next),
         \/ pc = "initial" /\ stage = "initial" /\ next = "initial_made" /\ run.first <= 1
         \/ pc = "final" /\ stage = "final" /\ next = "final_made" /\ run.first <= 3
  PROVE  Onward
<1>0. /\ mem \in State /\ disk \in State /\ run \in Run /\ CommandInv /\ ErrorsOK(mem, paid)
      /\ run.first \in 1 .. 5
  BY KnownIs DEF IInv, Run
<1>1. reviews' = reviews
  BY DEF Integrate
<1>2. CASE /\ disk' = mem' /\ pc' = "idle" /\ run' = NoRun /\ UNCHANGED made
           /\ mem'.status = "FAILED" /\ ErrorsOK(mem', paid')
           /\ \A f \in Kept : mem'[f] = mem[f]
           /\ mem'.plan = mem.plan
  BY <1>2, FailedStep
<1>3. ASSUME NEW id \in Plain, id.agent = stage,
             run' = [run EXCEPT !.id = id], pc' = next, UNCHANGED <<disk, mem>>
      PROVE  Onward
  <2>1. id # NoId
    BY <1>3, NothingTyped
  <2>2. run'.id = id /\ run'.first = run.first
    BY <1>0, <1>3 DEF Run
  <2>3. /\ AllClosed(mem) /\ Rework(mem, reviews)
        /\ mem.status # "WAITING_UPSTREAM_REVISION"
    BY <1>0 DEF CommandInv, Making
  <2>4. CommandInv'
    BY <1>0, <1>1, <1>3, <2>1, <2>2, <2>3 DEF CommandInv, Asking, Making, Judging
  <2> QED
    BY <1>3, <2>4, StayStep
<1> QED
  BY <1>0, <1>2, <1>3, IntegrateIs

LEMMA InitialStep ==
  ASSUME IInv, [Next]_vars, Initial
  PROVE  Onward
<1>0. CommandInv /\ pc = "initial" /\ run \in Run
  BY Here DEF Initial
<1>1. CASE run.first <= 1 /\ Integrate("initial", Analysed(mem), "initial_made")
  BY <1>0, <1>1, IntegrateStep
<1>2. CASE run.first > 1 /\ Goto("counter")
           /\ UNCHANGED <<disk, mem, run, commands, calls, exchange, inbox, outbox>>
  <2>1. pc' = "counter" /\ mem' = mem /\ disk' = disk /\ run' = run /\ reviews' = reviews
    BY <1>2 DEF Goto, calls
  <2>2. CommandInv'
    BY <1>0, <2>1 DEF CommandInv, Asking, Making, Judging
  <2> QED
    BY <1>0, <2>1, <2>2, StayStep
<1> QED
  BY <1>1, <1>2 DEF Initial

LEMMA InitialMadeStep ==
  ASSUME IInv, [Next]_vars, InitialMade
  PROVE  Onward
<1> DEFINE id == run.id
           at == [mem.at EXCEPT !.initial = mem.count]
<1>0. /\ mem \in State /\ run \in Run /\ CommandInv /\ pc = "initial_made"
      /\ run.first \in 1 .. 5
  BY Here DEF InitialMade, Run
<1>1. /\ AllClosed(mem) /\ Rework(mem, reviews) /\ run.first <= 2 /\ id \in Plain
      /\ mem.status # "WAITING_UPSTREAM_REVISION"
  BY <1>0 DEF CommandInv, Making
<1>2. /\ mem' = [mem EXCEPT !.initial = id, !.at = at, !.status = "INTEGRATING"]
      /\ disk' = mem' /\ pc' = "counter" /\ run' = run /\ reviews' = reviews
  BY <1>0 DEF InitialMade, Save, Goto, calls, State
<1>3. "INTEGRATING" \in Status
  BY DEF Status
<1> HIDE DEF at
<1>4. /\ mem'.at = at /\ mem'.status \in {mem.status, "INTEGRATING"}
      /\ mem'.result = mem.result
      /\ \A f \in Kept \ {"initial", "at", "result"} : mem'[f] = mem[f]
  BY <1>0, <1>2 DEF State, Kept
<1>7. mem' \in State /\ \A f \in Beside : mem'[f] = mem[f]
  BY <1>0, <1>2, Here DEF State, Beside
<1>5. /\ Good(mem', paid', reviews', results') /\ PlanOK(mem', reviews', adopted', results')
      /\ AllClosed(mem') /\ Rework(mem', reviews')
  BY <1>0, <1>1, <1>2, <1>4, <1>7, MadeStep DEF at
<1>6. CommandInv'
  BY <1>0, <1>1, <1>2, <1>4, <1>5 DEF CommandInv, Asking, Making, Judging
<1> QED
  BY <1>5, <1>6 DEF Onward

LEMMA CounterArgumentStep ==
  ASSUME IInv, [Next]_vars, CounterArgument
  PROVE  Onward
<1> DEFINE id == CounterId(mem)
<1>0. /\ mem \in State /\ disk \in State /\ run \in Run /\ CommandInv /\ pc = "counter"
      /\ run.first \in 1 .. 5
  BY Here DEF CounterArgument, Run
<1>1. /\ AllClosed(mem) /\ mem.status # "WAITING_UPSTREAM_REVISION"
      /\ (run.first <= 3 => Rework(mem, reviews))
  BY <1>0 DEF CommandInv, Making
<1>2. reviews' = reviews
  BY DEF CounterArgument
<1>3. CASE run.first > 2 /\ pc' = "final" /\ UNCHANGED <<disk, mem, run, paid, made>>
  <2>1. CommandInv'
    BY <1>0, <1>2, <1>3 DEF CommandInv, Asking, Making, Judging
  <2> QED
    BY <1>0, <1>3, <2>1, StayStep
<1>4. ASSUME run.first <= 2, pc' = "counter_made", run' = [run EXCEPT !.id = id],
             Same(mem', mem), mem'.status = mem.status,
             (mem' = mem /\ disk' = disk) \/ disk' = mem', id \in Plain, id.agent = "counter"
      PROVE  Onward
  <2>1. id # NoId
    BY <1>4, NothingTyped
  <2>2. run'.id = id /\ run'.first = run.first
    BY <1>0, <1>4 DEF Run
  <2>3. AllClosed(mem') /\ Rework(mem', reviews)
    BY <1>0, <1>1, <1>4, SameIs, OpenAlike, ReworkAlike
  <2>4. Good(mem', paid', reviews', results') /\ PlanOK(mem', reviews', adopted', results')
    BY <1>0, <1>4, BothStay, SameGood
  <2> HIDE DEF id
  <2>5. CASE mem' = mem /\ disk' = disk
    <3>1. CommandInv'
      BY <1>0, <1>1, <1>2, <1>4, <2>1, <2>2, <2>3, <2>5
         DEF CommandInv, Asking, Making, Judging
    <3> QED
      BY <2>4, <3>1 DEF Onward
  <2>6. CASE disk' = mem'
    <3>1. CommandInv'
      BY <1>0, <1>1, <1>2, <1>4, <2>1, <2>2, <2>3, <2>6
         DEF CommandInv, Asking, Making, Judging
    <3> QED
      BY <2>4, <3>1 DEF Onward
  <2> QED
    BY <1>4, <2>5, <2>6
<1>5. CASE Ended(mem)
  BY <1>0, <1>5, BothStay, EndStep
<1> QED
  BY <1>0, <1>3, <1>4, <1>5, CounterArgumentIs

LEMMA CounterMadeStep ==
  ASSUME IInv, [Next]_vars, CounterMade
  PROVE  Onward
<1> DEFINE id == run.id
           at == [mem.at EXCEPT !.counter = mem.count]
<1>0. /\ mem \in State /\ run \in Run /\ CommandInv /\ pc = "counter_made"
      /\ run.first \in 1 .. 5
  BY Here DEF CounterMade, Run
<1>1. /\ AllClosed(mem) /\ Rework(mem, reviews) /\ run.first <= 2 /\ id \in Plain
      /\ mem.status # "WAITING_UPSTREAM_REVISION"
  BY <1>0 DEF CommandInv, Making
<1>2. /\ mem' = [mem EXCEPT !.counter = id, !.at = at]
      /\ disk' = mem' /\ pc' = "final" /\ run' = run /\ reviews' = reviews
  BY <1>0 DEF CounterMade, Save, Goto, calls, State
<1> HIDE DEF at
<1>4. /\ mem'.at = at /\ mem'.status = mem.status
      /\ mem'.result = mem.result
      /\ \A f \in Kept \ {"counter", "at", "result"} : mem'[f] = mem[f]
  BY <1>0, <1>2 DEF State, Kept
<1>7. mem' \in State /\ \A f \in Beside : mem'[f] = mem[f]
  BY <1>0, <1>2, Here DEF State, Beside
<1>5. /\ Good(mem', paid', reviews', results') /\ PlanOK(mem', reviews', adopted', results')
      /\ AllClosed(mem') /\ Rework(mem', reviews')
  BY <1>0, <1>1, <1>2, <1>4, <1>7, MadeStep DEF at
<1>6. CommandInv'
  BY <1>0, <1>1, <1>2, <1>4, <1>5 DEF CommandInv, Asking, Making, Judging
<1> QED
  BY <1>5, <1>6 DEF Onward

LEMMA FinalMadeStep ==
  ASSUME IInv, [Next]_vars, FinalMade
  PROVE  Onward
<1> DEFINE id == run.id
           at == [mem.at EXCEPT !.final = mem.count]
           p == <<id, NoId>>
<1>0. /\ mem \in State /\ run \in Run /\ CommandInv /\ pc = "final_made"
      /\ run.first \in 1 .. 5
  BY Here DEF FinalMade, Run
<1>1. /\ AllClosed(mem) /\ Rework(mem, reviews) /\ id \in Plain /\ id # NoId
      /\ mem.status # "WAITING_UPSTREAM_REVISION"
  BY <1>0 DEF CommandInv, Making
<1>2. /\ mem' = [mem EXCEPT !.final = id, !.at = at, !.result = p]
      /\ disk' = mem' /\ pc' = "review" /\ run' = run /\ reviews' = reviews
  BY <1>0 DEF FinalMade, Save, Goto, calls, State
<1>3. p[2] = NoId
  OBVIOUS
<1> HIDE DEF at, p
<1>4. /\ mem'.at = at /\ mem'.status = mem.status
      /\ mem'.result = p /\ mem'.final = id
      /\ \A f \in Kept \ {"final", "at", "result"} : mem'[f] = mem[f]
  BY <1>0, <1>2 DEF State, Kept
<1>7. mem' \in State /\ \A f \in Beside : mem'[f] = mem[f]
  BY <1>0, <1>2, Here DEF State, Beside
<1>5. /\ Good(mem', paid', reviews', results') /\ PlanOK(mem', reviews', adopted', results')
      /\ AllClosed(mem')
  BY <1>0, <1>1, <1>2, <1>3, <1>4, <1>7, MadeStep DEF at
<1>6. CommandInv'
  BY <1>0, <1>1, <1>2, <1>3, <1>4, <1>5 DEF CommandInv, Asking, Making, Judging
<1> QED
  BY <1>5, <1>6 DEF Onward

LEMMA FinalStep ==
  ASSUME IInv, [Next]_vars, Final
  PROVE  Onward
<1>0. /\ mem \in State /\ run \in Run /\ CommandInv /\ pc = "final" /\ run.first \in 1 .. 5
  BY Here DEF Final, Run
<1>1. /\ AllClosed(mem) /\ mem.status # "WAITING_UPSTREAM_REVISION"
      /\ run.first > 3 => mem.final # NoId /\ mem.result[2] = NoId
  BY <1>0 DEF CommandInv, Making
<1>2. CASE run.first <= 3 /\ Integrate("final", {mem.initial, mem.counter}, "final_made")
  BY <1>0, <1>2, IntegrateStep
<1>3. CASE run.first > 3
  <2>1. /\ mem' \in State /\ disk' = mem' /\ run' = run /\ pc' = "review"
        /\ mem'.status = mem.status
        /\ mem'.result[2] \in {mem.result[2], NoId}
        /\ \A f \in Kept \ {"result"} : mem'[f] = mem[f]
        /\ \A f \in Beside : mem'[f] = mem[f]
    BY <1>0, <1>3, FinalIs
  <2>2. /\ mem'.analyses = mem.analyses /\ mem'.count = mem.count
        /\ mem'.review = mem.review /\ mem'.at = mem.at
        /\ mem'.history = mem.history /\ mem'.phase = mem.phase
        /\ mem'.active = mem.active /\ mem'.asked = mem.asked
        /\ mem'.initial = mem.initial /\ mem'.counter = mem.counter
        /\ mem'.final = mem.final
    BY <2>1 DEF Kept
  <2>3. /\ mem'.faults = mem.faults /\ mem'.primaryError = mem.primaryError
        /\ mem'.reviewError = mem.reviewError /\ mem'.plan = mem.plan
    BY <2>1 DEF Beside
  <2>4. AllClosed(mem') /\ mem'.result[2] = NoId
    BY <1>1, <1>3, <2>1, <2>2, OpenAlike
  <2>5. AskedOK(mem', paid') /\ CountOK(mem') /\ ErrorsOK(mem', paid')
    <3>1. AskedOK(mem, paid') /\ CountOK(mem) /\ ErrorsOK(mem, paid')
      BY Here
    <3> QED
      BY <2>2, <2>3, <3>1, AskedAlike, ErrorsAlike DEF CountOK
  <2>6. Synced(mem', reviews')
    <3>1. Synced(mem, reviews') /\ Artifacts(mem') = Artifacts(mem)
      BY <2>2, Here DEF Artifacts
    <3> QED
      BY <2>2, <3>1, GivenUpAlike, FairAlike DEF Synced
  <2>7. ResultOK(mem', reviews')
    BY <2>4 DEF ResultOK
  <2>8. Good(mem', paid', reviews', results')
    BY <1>1, <2>1, <2>4, <2>5, <2>6, <2>7, GoodBy
  <2>9. PlanOK(mem', reviews', adopted', results')
    BY <1>0, <2>2, <2>3, BothStay, PlanAlike
  <2>10. CommandInv'
    BY <1>1, <1>3, <2>1, <2>2, <2>4 DEF CommandInv, Asking, Making, Judging
  <2> QED
    BY <2>8, <2>9, <2>10 DEF Onward
<1> QED
  BY <1>0, <1>2, <1>3 DEF Final

LEMMA ReuseReviewStep ==
  ASSUME IInv, [Next]_vars, ReuseReview
  PROVE  Onward
<1>0. /\ run \in Run /\ CommandInv /\ pc = "review"
  BY Here DEF ReuseReview
<1>1. PICK v \in Answers(mem) : run' = [run EXCEPT !.id = v.id]
  BY DEF ReuseReview
<1>2. v \in reviews /\ v.about = Identity(mem)
  BY DEF Answers
<1>3. run'.id = v.id
  BY <1>0, <1>1 DEF Run
<1>4. pc' = "reviewed" /\ mem' = mem /\ disk' = disk /\ reviews' = reviews
  BY DEF ReuseReview, Goto, calls
<1>5. Brought'
  BY <1>2, <1>3, <1>4 DEF Brought
<1>6. CommandInv'
  BY <1>0, <1>4, <1>5 DEF CommandInv, Asking, Making, Judging
<1> QED
  BY <1>0, <1>4, <1>6, StayStep

LEMMA AskReviewStep ==
  ASSUME IInv, [Next]_vars, AskReview
  PROVE  Onward
<1> DEFINE id == ReviewId(mem)
<1>0. /\ mem \in State /\ run \in Run /\ CommandInv /\ pc = "review"
      /\ mem.final # NoId /\ mem.result[2] = NoId /\ AllClosed(mem)
  BY Here DEF AskReview, CommandInv, Judging
<1>1. /\ id \in TaskId /\ id.agent # "none"
      /\ Same(mem', mem) /\ mem'.status = "REVIEWING" /\ disk' = mem'
      /\ run' = [run EXCEPT !.id = id] /\ pc' = "ask"
  BY <1>0, AskReviewIs, KnownIs
<1>2. run'.id = id
  BY <1>0, <1>1 DEF Run
<1>3. /\ mem'.final # NoId /\ mem'.result[2] = NoId /\ AllClosed(mem')
  BY <1>0, <1>1, SameIs, OpenAlike
<1> HIDE DEF id
<1>4. CommandInv'
  BY <1>1, <1>2, <1>3 DEF CommandInv, Asking, Making, Judging
<1>5. Good(mem', paid', reviews', results') /\ PlanOK(mem', reviews', adopted', results')
  BY <1>0, <1>1, BothStay, SameGood
<1> QED
  BY <1>4, <1>5 DEF Onward

LEMMA AnswerReviewStep ==
  ASSUME IInv, [Next]_vars, AnswerReview
  PROVE  Onward
<1>0. /\ mem \in State /\ run \in Run /\ CommandInv /\ pc = "ask"
      /\ mem.final # NoId /\ mem.result[2] = NoId /\ AllClosed(mem)
      /\ mem.status # "WAITING_UPSTREAM_REVISION"
  BY Here DEF AnswerReview, CommandInv, Judging
<1>1. ErrorsOK(mem, paid)
  BY KnownIs
<1>2. CASE /\ UNCHANGED reviews /\ pc' = "idle" /\ run' = NoRun
           /\ mem' \in State /\ mem'.status = "FAILED"
           /\ ErrorsOK(mem', paid') /\ mem'.plan = mem.plan
           /\ \A f \in Kept : mem'[f] = mem[f]
  <2>1. disk' = mem'
    BY <1>0, <1>1, AnswerReviewIs
  <2> QED
    BY <1>0, <1>2, <2>1, FailedStep
<1>3. ASSUME NEW verdict, NEW ts,
             reviews' = reviews \union
               {[id |-> run.id, about |-> Identity(mem), report |-> mem.report,
                 verdict |-> verdict, targets |-> ts]},
             Same(mem', mem), mem'.status = mem.status, run' = run, pc' = "reviewed"
      PROVE  Onward
  <2>1. disk' = mem'
    BY <1>0, <1>1, AnswerReviewIs
  <2>2. Identity(mem') = Identity(mem)
    BY <1>3, SameIs DEF Identity, LastRevision
  <2>3. Brought'
    <3> DEFINE v == [id |-> run.id, about |-> Identity(mem), report |-> mem.report,
                     verdict |-> verdict, targets |-> ts]
    <3>1. v \in reviews'
      BY <1>3
    <3>2. v.id = run'.id /\ v.about = Identity(mem')
      BY <1>3, <2>2
    <3> HIDE DEF v
    <3> QED
      BY <3>1, <3>2 DEF Brought
  <2>4. /\ mem'.final # NoId /\ mem'.result[2] = NoId /\ AllClosed(mem')
    BY <1>0, <1>3, SameIs, OpenAlike
  <2>5. CommandInv'
    BY <1>0, <1>3, <2>1, <2>3, <2>4 DEF CommandInv, Asking, Making, Judging
  <2>6. Good(mem', paid', reviews', results') /\ PlanOK(mem', reviews', adopted', results')
    BY <1>0, <1>3, BothStay, SameGood
  <2> QED
    BY <2>5, <2>6 DEF Onward
<1> QED
  BY <1>0, <1>1, <1>2, <1>3, AnswerReviewIs

LEMMA ReviewedStep ==
  ASSUME IInv, [Next]_vars, Reviewed
  PROVE  Onward
<1>0. /\ mem \in State /\ run \in Run /\ CommandInv /\ pc = "reviewed"
      /\ mem.final # NoId /\ mem.result[2] = NoId /\ AllClosed(mem)
      /\ mem.status # "WAITING_UPSTREAM_REVISION"
  BY Here DEF Reviewed, CommandInv, Judging
<1>1. /\ mem' \in State /\ disk' = mem' /\ run' = run /\ pc' = "decide"
      /\ mem'.review = run.id /\ mem'.at = [mem.at EXCEPT !["review"] = mem.count]
      /\ mem'.status = mem.status
      /\ \A f \in Kept \ {"review", "at"} : mem'[f] = mem[f]
      /\ \A f \in Beside : mem'[f] = mem[f]
  BY <1>0, ReviewedIs
<1>2. PICK v \in reviews : v.id = run.id /\ v.about = Identity(mem)
  BY <1>0 DEF CommandInv, Brought
<1>3. /\ mem'.analyses = mem.analyses /\ mem'.count = mem.count
      /\ mem'.history = mem.history /\ mem'.phase = mem.phase
      /\ mem'.active = mem.active /\ mem'.asked = mem.asked
      /\ mem'.initial = mem.initial /\ mem'.counter = mem.counter
      /\ mem'.final = mem.final /\ mem'.result = mem.result
  BY <1>1 DEF Kept
<1>4. /\ mem'.faults = mem.faults /\ mem'.primaryError = mem.primaryError
      /\ mem'.reviewError = mem.reviewError /\ mem'.plan = mem.plan
  BY <1>1 DEF Beside
<1>5. reviews' = reviews
  BY DEF Reviewed, calls
<1>6. Fair(mem', reviews)
  <2>1. Identity(mem)[1] = Artifacts(mem) /\ Artifacts(mem') = Artifacts(mem)
    BY <1>0, <1>3, IdentityTyped DEF Artifacts
  <2> QED
    BY <1>1, <1>2, <2>1 DEF Fair
<1>7. mem'.review # NoId
  BY <1>1, <1>2, Here, NothingTyped DEF PaidInv
<1>8. AllClosed(mem')
  BY <1>0, <1>3, OpenAlike
<1>9. AskedOK(mem', paid') /\ CountOK(mem') /\ ErrorsOK(mem', paid')
  <2>1. AskedOK(mem, paid') /\ CountOK(mem) /\ ErrorsOK(mem, paid')
    BY Here
  <2>2. mem.count \in Nat /\ mem.at \in [Primary \union Stage -> Nat]
    BY <1>0 DEF State
  <2>3. \A x \in Primary \union Stage : mem'.at[x] \in {mem.at[x], mem.count}
    BY <1>1, <2>2
  <2>4. CountOK(mem')
    BY <1>3, <2>1, <2>2, <2>3 DEF CountOK
  <2> QED
    BY <1>3, <1>4, <2>1, <2>4, AskedAlike, ErrorsAlike
<1>10. Synced(mem', reviews') /\ ResultOK(mem', reviews')
  BY <1>0, <1>3, <1>5, <1>6 DEF Synced, ResultOK
<1>11. Good(mem', paid', reviews', results')
  BY <1>0, <1>1, <1>8, <1>9, <1>10, GoodBy
<1>12. PlanOK(mem', reviews', adopted', results')
  BY <1>0, <1>3, <1>4, BothStay, PlanAlike
<1>13. CommandInv'
  BY <1>0, <1>1, <1>3, <1>5, <1>6, <1>7, <1>8 DEF CommandInv, Asking, Making, Judging
<1> QED
  BY <1>11, <1>12, <1>13 DEF Onward

LEMMA LineStep ==
  ASSUME IInv, [Next]_vars, Line
  PROVE  Onward
BY DispatchStep, GatherStep, RecordStep, CollectedStep, InitialStep, InitialMadeStep,
   CounterArgumentStep, CounterMadeStep, FinalStep, FinalMadeStep, ReuseReviewStep,
   AskReviewStep, AnswerReviewStep, ReviewedStep DEF Line

-----------------------------------------------------------------------------
(* The steps of a decision.                                                  *)

\* Nothing but the phase and the request under way changes, and what is planned is no
\* revision or one that is as it should be.
LEMMA ActsStep ==
  ASSUME IInv, [Next]_vars, AllClosed(mem), mem' \in State,
         \A f \in Kept \ {"phase", "active"} : mem'[f] = mem[f],
         mem'.faults = mem.faults, mem'.primaryError = mem.primaryError,
         mem'.reviewError = mem.reviewError,
         WaitingOK(mem', reviews')
  PROVE  Good(mem', paid', reviews', results') /\ AllClosed(mem')
<1>1. /\ mem'.analyses = mem.analyses /\ mem'.count = mem.count
      /\ mem'.review = mem.review /\ mem'.at = mem.at
      /\ mem'.history = mem.history /\ mem'.asked = mem.asked
      /\ mem'.initial = mem.initial /\ mem'.counter = mem.counter
      /\ mem'.final = mem.final /\ mem'.result = mem.result
  BY DEF Kept
<1>2. AllClosed(mem')
  BY <1>1, OpenAlike
<1>3. AskedOK(mem', paid') /\ CountOK(mem') /\ ErrorsOK(mem', paid')
  <2>1. AskedOK(mem, paid') /\ CountOK(mem) /\ ErrorsOK(mem, paid')
    BY Here
  <2> QED
    BY <1>1, <2>1, AskedAlike, ErrorsAlike DEF CountOK
<1>4. Synced(mem', reviews')
  <2>1. Synced(mem, reviews') /\ Artifacts(mem') = Artifacts(mem)
    BY <1>1, Here DEF Artifacts
  <2> QED
    BY <1>1, <2>1, GivenUpAlike, FairAlike DEF Synced
<1>5. ResultOK(mem', reviews')
  BY <1>1, Here DEF ResultOK
<1> QED
  BY <1>2, <1>3, <1>4, <1>5 DEF Good, OpenOK, AllClosed

LEMMA FinalizeStep ==
  ASSUME IInv, [Next]_vars, Finalize
  PROVE  Onward
<1>0. /\ mem \in State /\ CommandInv /\ pc = "decide" /\ pc' # "waiting"
      /\ mem.status # "WAITING_UPSTREAM_REVISION"
      /\ reviews' = reviews
  <2>1. pc' \in {"decide", "idle"}
    BY DEF Finalize, Uncaught, Fail, SaveAndEnd, Leave, End
  <2> QED
    BY <2>1, Here DEF Finalize, CommandInv, calls
<1>1. /\ mem.final # NoId /\ mem.review # NoId /\ AllClosed(mem) /\ Fair(mem, reviews)
      /\ (Review(mem).verdict = "approved" <=> Approves(mem.review, reviews))
  BY <1>0, DecidingIs
<1> DEFINE p == IF Review(mem).verdict = "approved" THEN <<mem.final, mem.review>>
                ELSE mem.result
<1>2. CASE Ended(mem) \/ Left
  BY <1>0, <1>2, BothStay, EndStep
<1>3. CASE /\ mem' \in State /\ UNCHANGED <<disk, pc, run>>
           /\ mem'.phase = "completed" /\ mem'.result = p
           /\ mem'.status = mem.status
           /\ \A f \in Kept \ {"phase", "result"} : mem'[f] = mem[f]
           /\ \A f \in Beside \ {"plan"} : mem'[f] = mem[f]
  <2>1. /\ mem'.analyses = mem.analyses /\ mem'.count = mem.count
        /\ mem'.review = mem.review /\ mem'.at = mem.at
        /\ mem'.history = mem.history /\ mem'.active = mem.active /\ mem'.asked = mem.asked
        /\ mem'.initial = mem.initial /\ mem'.counter = mem.counter
        /\ mem'.final = mem.final
    BY <1>3 DEF Kept
  <2>2. /\ mem'.faults = mem.faults /\ mem'.primaryError = mem.primaryError
        /\ mem'.reviewError = mem.reviewError
    BY <1>3 DEF Beside
  <2>3. AllClosed(mem') /\ Artifacts(mem') = Artifacts(mem)
    BY <1>1, <2>1, OpenAlike DEF Artifacts
  <2>4. Fair(mem', reviews)
    BY <1>1, <2>1, <2>3, FairAlike
  <2>5. ResultOK(mem', reviews)
    <3>1. ResultOK(mem, reviews)
      BY DEF IInv, StatesInv, Good
    <3> QED
      BY <1>1, <1>3, <2>1, <3>1 DEF ResultOK
  <2>6. AskedOK(mem', paid') /\ CountOK(mem') /\ ErrorsOK(mem', paid')
    <3>1. AskedOK(mem, paid') /\ CountOK(mem) /\ ErrorsOK(mem, paid')
      BY Here
    <3> QED
      BY <2>1, <2>2, <3>1, AskedAlike, ErrorsAlike DEF CountOK
  <2>7. Good(mem', paid', reviews', results')
    BY <1>0, <1>3, <2>3, <2>4, <2>5, <2>6, GoodBy DEF Synced
  <2>8. PlanOK(mem', reviews', adopted', results')
    BY <1>3 DEF PlanOK, PlanOf
  <2>9. CommandInv'
    BY <1>0, <1>1, <1>3, <2>1, <2>3, <2>4 DEF CommandInv, Asking, Making, Judging
  <2> QED
    BY <2>7, <2>8, <2>9 DEF Onward
<1> QED
  BY <1>0, <1>2, <1>3, FinalizeIs

LEMMA ApproveStep ==
  ASSUME IInv, [Next]_vars, Approve
  PROVE  Onward
<1>0. /\ mem \in State /\ CommandInv /\ pc = "decide" /\ reviews' = reviews
  BY Here DEF Approve, Deciding, calls
<1>1. /\ mem.final # NoId /\ mem.review # NoId /\ AllClosed(mem) /\ Fair(mem, reviews)
      /\ Review(mem) \in reviews /\ Review(mem).id = mem.review
      /\ (Review(mem).verdict = "approved" <=> Approves(mem.review, reviews))
      /\ (Review(mem).verdict = "approved" => Review(mem).about[1] = Artifacts(mem))
  BY <1>0, DecidingIs
<1>2. /\ Review(mem).verdict = "approved" /\ mem.phase # "executing"
      /\ mem' \in State /\ disk' = mem' /\ pc' = "send" /\ run' = run
      /\ mem'.status = "APPROVED" /\ mem'.result = <<mem.final, mem.review>>
      /\ \A f \in Kept \ {"result"} : mem'[f] = mem[f]
      /\ \A f \in Beside : mem'[f] = mem[f]
  BY <1>0, ApproveIs
<1>3. /\ mem'.analyses = mem.analyses /\ mem'.count = mem.count
      /\ mem'.review = mem.review /\ mem'.at = mem.at /\ mem'.phase = mem.phase
      /\ mem'.history = mem.history /\ mem'.active = mem.active /\ mem'.asked = mem.asked
      /\ mem'.initial = mem.initial /\ mem'.counter = mem.counter
      /\ mem'.final = mem.final
  BY <1>2 DEF Kept
<1>4. /\ mem'.faults = mem.faults /\ mem'.primaryError = mem.primaryError
      /\ mem'.reviewError = mem.reviewError /\ mem'.plan = mem.plan
  BY <1>2 DEF Beside
<1>5. AllClosed(mem') /\ Artifacts(mem') = Artifacts(mem)
  BY <1>1, <1>3, OpenAlike DEF Artifacts
<1>6. Fair(mem', reviews) /\ ResultOK(mem', reviews)
  BY <1>1, <1>2, <1>3, <1>5, FairAlike DEF ResultOK
<1>7. AskedOK(mem', paid') /\ CountOK(mem') /\ ErrorsOK(mem', paid')
  <2>1. AskedOK(mem, paid') /\ CountOK(mem) /\ ErrorsOK(mem, paid')
    BY Here
  <2> QED
    BY <1>3, <1>4, <2>1, AskedAlike, ErrorsAlike DEF CountOK
<1>8. Good(mem', paid', reviews', results')
  BY <1>0, <1>2, <1>5, <1>6, <1>7, GoodBy DEF Synced
<1>9. PlanOK(mem', reviews', adopted', results')
  BY <1>0, <1>3, <1>4, BothStay, PlanAlike
<1>10. Artifacts(mem')[4] = mem'.result[1] /\
        \E v \in reviews : /\ v.id = mem'.result[2] /\ v.verdict = "approved"
                           /\ v.about[1] = Artifacts(mem')
  <2>1. Artifacts(mem)[4] = mem.final
    BY <1>0, IdentityTyped
  <2> QED
    BY <1>1, <1>2, <1>5, <2>1
<1>11. CommandInv'
  BY <1>0, <1>2, <1>3, <1>10 DEF CommandInv, Asking, Making, Judging
<1> QED
  BY <1>8, <1>9, <1>11 DEF Onward

LEMMA SendStep ==
  ASSUME IInv, [Next]_vars, Send
  PROVE  Onward
<1>0. /\ CommandInv /\ pc = "send" /\ pc' = "sent" /\ mem' = mem /\ disk' = disk
  BY Here DEF Send, Goto
<1>1. CommandInv'
  BY <1>0 DEF CommandInv, Asking, Making, Judging
<1> QED
  BY <1>0, <1>1, StayStep

\* A decision that ends the command, with the state or without a save.
LEMMA OverStep ==
  ASSUME IInv, [Next]_vars, SendFails \/ Sent \/ BlockedByReview \/ AskedAlready
  PROVE  Onward
<1>0. mem \in State /\ pc # "waiting"
  BY Here DEF SendFails, Sent, BlockedByReview, AskedAlready, Deciding
<1>1. Ended(mem) \/ Left
  BY <1>0, EndsIs, SentIs DEF SendFails, BlockedByReview, AskedAlready
<1> QED
  BY <1>0, <1>1, BothStay, EndStep

LEMMA AskResearcherStep ==
  ASSUME IInv, [Next]_vars, AskResearcher
  PROVE  Onward
<1> DEFINE s == Pending(mem, TRUE)
           r == EvidenceRequest(mem)
<1>0. /\ mem \in State /\ disk \in State /\ CommandInv /\ pc = "decide"
      /\ mem.status # "WAITING_UPSTREAM_REVISION"
      /\ reviews' = reviews /\ paid' = paid /\ results' = results /\ adopted' = adopted
      /\ mem.phase # "executing"
  BY Here DEF AskResearcher, Deciding, CommandInv, calls
<1>1. /\ mem.final # NoId /\ AllClosed(mem) /\ Review(mem).targets \in SUBSET Legal
      /\ (Review(mem).verdict # "approved" <=> Refused(mem.review, reviews))
  BY <1>0, DecidingIs
<1>2. /\ s \in State /\ s.plan = mem.review /\ \A f \in Kept : s[f] = mem[f]
      /\ s.faults = mem.faults /\ s.primaryError = mem.primaryError
      /\ s.reviewError = mem.reviewError /\ s.status = mem.status
  BY <1>0, <1>1, PendingIs
<1>3. /\ Review(mem).verdict = "upstream"
      /\ \/ Ended(s) \/ Left
         \/ /\ mem' = [s EXCEPT !.active = r] /\ pc' = "waiting"
            /\ UNCHANGED <<disk, run>>
  BY <1>0, <1>1, AskResearcherIs
<1>4. Refused(mem.review, reviews)
  BY <1>1, <1>3
<1>5. Good(s, paid', reviews', results')
  <2>1. Good(mem, paid', reviews', results') /\ ErrorsOK(mem, paid')
    BY BothStay, Here
  <2>2. ErrorsOK(s, paid')
    BY <1>2, <2>1, ErrorsAlike
  <2> HIDE DEF s
  <2> QED
    BY <1>2, <2>1, <2>2, GoodAlike
<1>6. PlanOK(s, reviews', adopted', results')
  <2>1. PlanOK(mem, reviews', adopted', results')
    BY <1>0, BothStay
  <2>2. s.phase = mem.phase /\ s.active = mem.active
    BY <1>2 DEF Kept
  <2>3. Refused(s.plan, reviews')
    BY <1>0, <1>2, <1>4
  <2> HIDE DEF s
  <2> QED
    BY <2>1, <2>2, <2>3 DEF PlanOK, PlanOf
<1> HIDE DEF s
<1>7. CASE Ended(s) \/ Left
  BY <1>5, <1>6, <1>7, EndStep
<1>8. CASE /\ mem' = [s EXCEPT !.active = r] /\ pc' = "waiting"
           /\ UNCHANGED <<disk, run>>
  <2>1. r \in Request /\ r.route = "upstream"
    BY <1>0, RequestsAre
  <2>2. /\ mem' \in State /\ mem'.active = r /\ mem'.status = mem.status
        /\ \A f \in Kept \ {"active"} : mem'[f] = s[f]
        /\ \A f \in Beside : mem'[f] = s[f]
    <3> HIDE DEF r
    <3> QED
      BY <1>2, <1>8, <2>1, ActingIs
  <2>3. \A f \in Kept \ {"phase", "active"} : mem'[f] = mem[f]
    BY <1>2, <2>2
  <2>4. /\ mem'.faults = mem.faults /\ mem'.primaryError = mem.primaryError
        /\ mem'.reviewError = mem.reviewError
    BY <1>2, <2>2 DEF Beside
  <2>5. /\ mem'.analyses = mem.analyses /\ mem'.review = mem.review
        /\ mem'.final = mem.final /\ mem'.phase = mem.phase
    BY <1>2, <2>2 DEF Kept
  <2>6. WaitingOK(mem', reviews')
    BY <1>0, <2>2 DEF WaitingOK
  <2>7. Good(mem', paid', reviews', results') /\ AllClosed(mem')
    BY <1>1, <2>2, <2>3, <2>4, <2>6, ActsStep
  <2>8. CommandInv'
    BY <1>0, <1>1, <1>4, <1>8, <2>1, <2>2, <2>5, <2>7 DEF CommandInv, Asking, Making, Judging
  <2> QED
    BY <1>8, <2>7, <2>8 DEF Onward
<1> QED
  BY <1>3, <1>7, <1>8

LEMMA WaitingStep ==
  ASSUME IInv, [Next]_vars, Waiting
  PROVE  Onward
<1>0. /\ mem \in State /\ CommandInv /\ pc = "waiting" /\ reviews' = reviews
  BY Here DEF Waiting, calls
<1>1. /\ mem' \in State /\ disk' = mem' /\ pc' = "idle" /\ run' = NoRun
      /\ mem'.phase = "waiting_upstream_result"
      /\ \A f \in Kept \ {"phase"} : mem'[f] = mem[f]
      /\ \A f \in Beside : mem'[f] = mem[f]
  BY <1>0, WaitingIs
<1>2. /\ mem'.review = mem.review /\ mem'.final = mem.final /\ mem'.active = mem.active
  BY <1>1 DEF Kept
<1>3. /\ mem'.faults = mem.faults /\ mem'.primaryError = mem.primaryError
      /\ mem'.reviewError = mem.reviewError
  BY <1>1 DEF Beside
<1>4. /\ mem.final # NoId /\ Refused(mem.review, reviews) /\ AllClosed(mem)
      /\ mem.active.route = "upstream"
  BY <1>0 DEF CommandInv
<1>5. WaitingOK(mem', reviews')
  BY <1>0, <1>1, <1>2, <1>4 DEF WaitingOK
<1>6. Good(mem', paid', reviews', results')
  BY <1>1, <1>3, <1>4, <1>5, ActsStep
<1>7. PlanOK(mem', reviews', adopted', results')
  BY <1>1 DEF PlanOK, PlanOf
<1> QED
  BY <1>1, <1>6, <1>7, IdleInv DEF Onward

\* A plan of an internal request, with a review that refused behind it.
LEMMA PlannedStep ==
  ASSUME IInv, [Next]_vars, NEW s \in State, NEW r \in Request,
         mem' = Planned(s, r), pc' = "planned", UNCHANGED <<disk, run>>,
         Good(s, paid', reviews', results'), AllClosed(s),
         s.status # "WAITING_UPSTREAM_REVISION",
         s.analyses = mem.analyses,
         r.route = "internal", r.targets # {}, r.final # NoId,
         Refused(r.review, reviews'), Refused(s.plan, reviews')
  PROVE  Onward
<1>0. CommandInv
  BY Here
<1>1. /\ mem' \in State /\ mem'.phase = "authorization_required" /\ mem'.active = r
      /\ \A f \in Kept \ {"phase", "active"} : mem'[f] = s[f]
      /\ \A f \in {"faults", "primaryError", "reviewError", "status", "plan"} : mem'[f] = s[f]
  BY PlannedIs
<1>2. /\ mem'.analyses = s.analyses /\ mem'.count = s.count
      /\ mem'.review = s.review /\ mem'.at = s.at
      /\ mem'.history = s.history /\ mem'.asked = s.asked
      /\ mem'.initial = s.initial /\ mem'.counter = s.counter
      /\ mem'.final = s.final /\ mem'.result = s.result
  BY <1>1 DEF Kept
<1>3. /\ mem'.faults = s.faults /\ mem'.primaryError = s.primaryError
      /\ mem'.reviewError = s.reviewError /\ mem'.plan = s.plan /\ mem'.status = s.status
  BY <1>1
<1>4. AllClosed(mem') /\ Artifacts(mem') = Artifacts(s)
  BY <1>2, OpenAlike DEF Artifacts
<1>5. AskedOK(mem', paid') /\ CountOK(mem') /\ ErrorsOK(mem', paid')
  BY <1>2, <1>3, AskedAlike, ErrorsAlike DEF CountOK, Good
<1>6. Synced(mem', reviews') /\ ResultOK(mem', reviews')
  BY <1>2, <1>4, GivenUpAlike, FairAlike DEF Good, Synced, ResultOK
<1>7. Good(mem', paid', reviews', results')
  BY <1>3, <1>4, <1>5, <1>6, GoodBy
<1>8. PlanOK(mem', reviews', adopted', results')
  BY <1>1, <1>3 DEF PlanOK
<1>9. CommandInv'
  <2>1. \A p \in Primary : disk.analyses[p] \notin {NoId, mem.analyses[p]} =>
          disk.phase = "executing" /\ p \in disk.active.targets
    BY <1>0 DEF CommandInv
  <2> QED
    BY <1>1, <1>2, <1>3, <2>1 DEF CommandInv, Asking, Making, Judging
<1> QED
  BY <1>7, <1>8, <1>9 DEF Onward

LEMMA PlanInternalStep ==
  ASSUME IInv, [Next]_vars, PlanInternal
  PROVE  Onward
<1> DEFINE s == Pending(mem, FALSE)
           ts == Review(mem).targets
           r == InternalRequest(s, ts)
<1>0. /\ mem \in State /\ disk \in State /\ CommandInv /\ PaidInv /\ pc = "decide"
      /\ mem.status # "WAITING_UPSTREAM_REVISION"
      /\ reviews' = reviews /\ paid' = paid /\ results' = results /\ adopted' = adopted
  BY Here DEF PlanInternal, Deciding, CommandInv, calls
<1>1. /\ mem.final # NoId /\ AllClosed(mem) /\ Review(mem) \in reviews /\ ts \in SUBSET Legal
      /\ (Review(mem).verdict # "approved" <=> Refused(mem.review, reviews))
  BY <1>0, DecidingIs
<1>2. /\ s \in State /\ s.plan = mem.review /\ \A f \in Kept : s[f] = mem[f]
      /\ s.faults = mem.faults /\ s.primaryError = mem.primaryError
      /\ s.reviewError = mem.reviewError /\ s.status = mem.status
  BY <1>0, <1>1, PendingIs
<1>3. /\ Review(mem).verdict = "internal"
      /\ \/ Ended(mem) \/ Ended(s) \/ Left
         \/ /\ mem' = Planned(s, r) /\ pc' = "planned"
            /\ UNCHANGED <<disk, run>>
  BY <1>0, <1>1, PlanInternalIs
<1>4. Refused(mem.review, reviews)
  BY <1>1, <1>3
<1>5. Good(s, paid', reviews', results')
  <2>1. Good(mem, paid', reviews', results') /\ ErrorsOK(mem, paid')
    BY BothStay, Here
  <2>2. ErrorsOK(s, paid')
    BY <1>2, <2>1, ErrorsAlike
  <2> HIDE DEF s
  <2> QED
    BY <1>2, <2>1, <2>2, GoodAlike
<1>6. PlanOK(s, reviews', adopted', results')
  <2>1. PlanOK(mem, reviews', adopted', results')
    BY <1>0, BothStay
  <2>2. s.phase = mem.phase /\ s.active = mem.active
    BY <1>2 DEF Kept
  <2>3. Refused(s.plan, reviews')
    BY <1>0, <1>2, <1>4
  <2> HIDE DEF s
  <2> QED
    BY <2>1, <2>2, <2>3 DEF PlanOK, PlanOf
<1> HIDE DEF s
<1>7. CASE Ended(mem)
  BY <1>0, <1>7, BothStay, EndStep
<1>8. CASE Ended(s) \/ Left
  BY <1>5, <1>6, <1>8, EndStep
<1>9. CASE /\ mem' = Planned(s, r) /\ pc' = "planned"
           /\ UNCHANGED <<disk, run>>
  <2>1. /\ s.analyses = mem.analyses /\ s.asked = mem.asked /\ s.review = mem.review
        /\ s.final = mem.final
    BY <1>2 DEF Kept
  <2>2. ts # {}
    BY <1>0, <1>1, <1>3 DEF PaidInv
  <2>3. /\ r \in Request /\ r.route = "internal" /\ r.review = s.review
        /\ r.final = s.final /\ r.targets = ts
    BY <1>1, <1>2, RequestsAre
  <2>4. AllClosed(s)
    BY <1>1, <2>1, OpenAlike
  <2> HIDE DEF r, ts
  <2> QED
    BY <1>0, <1>1, <1>2, <1>4, <1>5, <1>9, <2>1, <2>2, <2>3, <2>4, PlannedStep
<1> QED
  BY <1>3, <1>7, <1>8, <1>9

LEMMA SavePlanStep ==
  ASSUME IInv, [Next]_vars, SavePlan
  PROVE  Onward
<1>0. /\ CommandInv /\ pc = "planned" /\ pc' = "stop" /\ mem' = mem /\ disk' = mem'
  BY Here DEF SavePlan, Save, Goto
<1>1. CommandInv'
  BY <1>0 DEF CommandInv, Asking, Making, Judging
<1> QED
  BY <1>0, <1>1, StayStep

LEMMA StopStep ==
  ASSUME IInv, [Next]_vars, Stop
  PROVE  Onward
<1>0. /\ CommandInv /\ pc = "stop" /\ mem \in State
      /\ mem.status # "WAITING_UPSTREAM_REVISION"
  BY Here DEF Stop, CommandInv
<1>1. CASE Ended(mem)
  BY <1>0, <1>1, BothStay, EndStep
<1>2. CASE Same(mem', mem) /\ mem'.status = mem.status /\ disk' = mem' /\ pc' = pc
  <2>1. CommandInv'
    BY <1>0, <1>2 DEF CommandInv, Asking, Making, Judging
  <2> QED
    BY <1>0, <1>2, <2>1, BothStay, SameGood DEF Onward
<1> QED
  BY <1>0, <1>1, <1>2, StopIs

LEMMA DecideStep ==
  ASSUME IInv, [Next]_vars, Decide
  PROVE  Onward
BY FinalizeStep, ApproveStep, SendStep, OverStep, AskResearcherStep, WaitingStep,
   PlanInternalStep, SavePlanStep, StopStep DEF Decide

-----------------------------------------------------------------------------
(* The steps of a revision.                                                  *)

\* With no revision under way every analysis is settled.
LEMMA IdleClosed ==
  ASSUME NEW s, NEW vs, NEW rs, OpenOK(s, vs, rs), s.phase # "executing"
  PROVE  AllClosed(s)
BY DEF OpenOK, Reworked, Busy, AllClosed

LEMMA ResumeStep ==
  ASSUME IInv, [Next]_vars, Resume
  PROVE  Onward
<1>0. /\ mem \in State /\ disk \in State /\ CommandInv /\ pc = "idle" /\ inbox.number \in Nat
      /\ reviews' = reviews /\ paid' = paid /\ adopted' = adopted
  BY Here DEF Resume, Command, calls, IInv, TypeInv
<1>1. CASE Left
  BY <1>0, <1>1, BothStay, EndStep
<1>2. ASSUME NEW s \in State, NEW ts \in SUBSET Legal,
             mem.status = "WAITING_UPSTREAM_REVISION", mem.plan = mem.review, ts # {},
             s.status = "RUNNING", s.result = <<NoId, NoId>>,
             \A f \in Kept \ {"result"} : s[f] = mem[f],
             \A f \in Beside : s[f] = mem[f],
             \/ Ended(s) \/ Left
             \/ /\ mem' = Planned(s, InternalRequest(s, ts)) /\ pc' = "planned"
                /\ UNCHANGED <<disk, run>>
      PROVE  Onward
  <2>1. /\ s.analyses = mem.analyses /\ s.count = mem.count
        /\ s.review = mem.review /\ s.at = mem.at /\ s.phase = mem.phase
        /\ s.history = mem.history /\ s.active = mem.active /\ s.asked = mem.asked
        /\ s.initial = mem.initial /\ s.counter = mem.counter /\ s.final = mem.final
    BY <1>2 DEF Kept
  <2>2. /\ s.faults = mem.faults /\ s.primaryError = mem.primaryError
        /\ s.reviewError = mem.reviewError /\ s.plan = mem.plan
    BY <1>2 DEF Beside
  <2>3. /\ mem.phase = "waiting_upstream_result" /\ mem.final # NoId
        /\ Refused(mem.review, reviews')
    BY <1>2, Here DEF WaitingOK
  <2>4. AllClosed(s) /\ Artifacts(s) = Artifacts(mem)
    <3>1. AllClosed(mem)
      BY <2>3, Here, IdleClosed
    <3> QED
      BY <2>1, <3>1, OpenAlike DEF Artifacts
  <2>5. AskedOK(s, paid') /\ CountOK(s) /\ ErrorsOK(s, paid')
    <3>1. AskedOK(mem, paid') /\ CountOK(mem) /\ ErrorsOK(mem, paid')
      BY Here
    <3> QED
      BY <2>1, <2>2, <3>1, AskedAlike, ErrorsAlike DEF CountOK
  <2>6. Synced(s, reviews') /\ ResultOK(s, reviews')
    <3>1. Synced(mem, reviews')
      BY Here
    <3> QED
      BY <1>2, <2>1, <2>4, <3>1, GivenUpAlike, FairAlike DEF Synced, ResultOK
  <2>7. Good(s, paid', reviews', results')
    BY <1>2, <2>4, <2>5, <2>6, GoodBy
  <2>8. PlanOK(s, reviews', adopted', results')
    BY <2>1, <2>3 DEF PlanOK, PlanOf
  <2>9. CASE Ended(s) \/ Left
    BY <2>7, <2>8, <2>9, EndStep
  <2>10. CASE /\ mem' = Planned(s, InternalRequest(s, ts)) /\ pc' = "planned"
              /\ UNCHANGED <<disk, run>>
    <3> DEFINE r == InternalRequest(s, ts)
    <3>1. /\ r \in Request /\ r.route = "internal" /\ r.review = s.review
          /\ r.final = s.final /\ r.targets = ts
      BY RequestsAre
    <3> HIDE DEF r
    <3>2. mem' = Planned(s, r)
      BY <2>10 DEF r
    <3> QED
      BY <1>0, <1>2, <2>1, <2>2, <2>3, <2>4, <2>7, <2>10, <3>1, <3>2, PlannedStep
  <2> QED
    BY <1>2, <2>9, <2>10
<1>3. \/ Left
      \/ \E s \in State, ts \in SUBSET Legal :
           /\ mem.status = "WAITING_UPSTREAM_REVISION"
           /\ mem.plan = mem.review
           /\ ts # {}
           /\ s.status = "RUNNING" /\ s.result = <<NoId, NoId>>
           /\ \A f \in Kept \ {"result"} : s[f] = mem[f]
           /\ \A f \in Beside : s[f] = mem[f]
           /\ \/ Ended(s) \/ Left
              \/ /\ mem' = Planned(s, InternalRequest(s, ts)) /\ pc' = "planned"
                 /\ UNCHANGED <<disk, run>>
  BY <1>0, ResumeIs
<1> QED
  BY <1>1, <1>2, <1>3

LEMMA ReviseStep ==
  ASSUME IInv, [Next]_vars, Revise
  PROVE  Onward
<1>0. /\ CommandInv /\ pc = "idle" /\ mem' = mem /\ disk' = disk /\ mem = disk
      /\ \/ mem.phase = "authorization_required" /\ pc' = "authorize"
         \/ pc' = "adopt"
  BY Here DEF Revise, Command, Goto, CommandInv
<1>1. mem.phase = "authorization_required" => mem.status # "WAITING_UPSTREAM_REVISION"
  BY Here DEF WaitingOK
<1>2. CommandInv'
  BY <1>0, <1>1 DEF CommandInv, Asking, Making, Judging, PlanOf
<1> QED
  BY <1>0, <1>2, StayStep

\* What Conclusion asks for is adopted when nothing is under way: a revision that is
\* busy has no result yet, or is about the one request that is not answered.
LEMMA AdoptIdle ==
  ASSUME IInv, pc = "adopt", NEW r \in Asked, r.result = mem.result, r \notin adopted
  PROVE  ~Busy(mem, results)
<1> SUFFICES ASSUME Busy(mem, results) PROVE FALSE
  OBVIOUS
<1>0. FilesInv /\ mem = disk
  BY DEF IInv, CommandInv
<1>1. /\ r.route = "conclusion" /\ r.result[2] # NoId /\ r \in requests
  BY <1>0 DEF FilesInv, Asked
<1>2. \A x \in results : x.request # r
  BY <1>0, <1>1 DEF FilesInv
<1>3. mem.phase = "executing" /\ mem.active.route = "conclusion"
      /\ \A x \in results : x.request # mem.active
  BY <1>1 DEF Busy
<1>4. mem.active \in adopted
  BY <1>0, <1>3 DEF IInv, StatesInv, PlanOK
<1>5. mem.active \in Unanswered
  BY <1>0, <1>3, <1>4 DEF FilesInv, Unanswered, Asked
<1>6. r \in Unanswered
  BY <1>2 DEF Unanswered
<1> QED
  BY <1>0, <1>4, <1>5, <1>6 DEF FilesInv

LEMMA AdoptStep ==
  ASSUME IInv, [Next]_vars, Adopt
  PROVE  Onward
<1>0. /\ mem \in State /\ CommandInv /\ FilesInv /\ pc = "adopt" /\ mem = disk
      /\ requests \subseteq Request /\ requests' = requests
      /\ reviews' = reviews /\ paid' = paid /\ results' = results
  BY Here, KnownIs DEF Adopt, calls, CommandInv
<1>1. CASE Left
  BY <1>0, <1>1, BothStay, EndStep
<1>2. ASSUME NEW r \in Asked,
             r.result = mem.result, r \notin adopted, adopted' = adopted \union {r},
             mem' \in State, mem'.phase = "authorization_required",
             mem'.active = r, mem'.status = "BLOCKED",
             \A f \in Kept \ {"phase", "active"} : mem'[f] = mem[f],
             \A f \in Beside : mem'[f] = mem[f],
             disk' = disk, run' = run, pc' = "adopted"
      PROVE  Onward
  <2>1. /\ r.route = "conclusion" /\ r.targets # {} /\ r.result[2] # NoId /\ r \in requests
    BY <1>0 DEF FilesInv, Asked
  <2>2. \A x \in results : x.request # r
    BY <1>0, <1>2, <2>1 DEF FilesInv
  <2>3. AllClosed(mem)
    <3>1. ~Busy(mem, results)
      BY <1>0, <1>2, AdoptIdle
    <3> QED
      BY <1>0, <3>1, Here DEF OpenOK, Reworked, AllClosed
  <2>4. /\ mem'.faults = mem.faults /\ mem'.primaryError = mem.primaryError
        /\ mem'.reviewError = mem.reviewError
    BY <1>2 DEF Beside
  <2>5. WaitingOK(mem', reviews')
    BY <1>2 DEF WaitingOK
  <2>6. Good(mem', paid', reviews', results')
    BY <1>2, <2>3, <2>4, <2>5, ActsStep
  <2>7. PlanOK(mem', reviews', adopted', results')
    BY <1>0, <1>2, <2>1, <2>2 DEF PlanOK
  <2>8. mem'.analyses = mem.analyses
    BY <1>2 DEF Kept
  <2>9. CommandInv'
    BY <1>0, <1>2, <2>8 DEF CommandInv, Asking, Making, Judging, PlanOf
  <2> QED
    BY <2>6, <2>7, <2>9 DEF Onward
<1> QED
  BY <1>0, <1>1, <1>2, AdoptIs

LEMMA AdoptedStep ==
  ASSUME IInv, [Next]_vars, Adopted
  PROVE  Onward
<1>0. /\ CommandInv /\ pc = "adopted" /\ pc' = "authorize" /\ mem' = mem /\ disk' = mem'
  BY Here DEF Adopted, Save, Goto
<1>1. CommandInv'
  BY <1>0 DEF CommandInv, Asking, Making, Judging, PlanOf
<1> QED
  BY <1>0, <1>1, StayStep

LEMMA AuthorizeStep ==
  ASSUME IInv, [Next]_vars, Authorize
  PROVE  Onward
<1>0. /\ mem \in State /\ CommandInv /\ pc = "authorize" /\ mem = disk /\ PlanOf(mem)
      /\ reviews' = reviews /\ paid' = paid /\ results' = results
      /\ adopted' = adopted /\ mem.count \in Nat /\ Current(mem.active)
      /\ mem.at \in [Primary \union Stage -> Nat]
      /\ \A h \in mem.history : h.iteration \in Nat
      /\ \A a \in mem.asked : a.rev \in Nat
  <2>1. /\ pc = "authorize" /\ Current(mem.active) /\ adopted' = adopted
        /\ reviews' = reviews /\ paid' = paid /\ results' = results
    BY Zenon DEF Authorize, calls
  <2>2. mem \in State /\ CommandInv
    BY Here
  <2>3. mem = disk /\ PlanOf(mem)
    BY <2>1, <2>2 DEF CommandInv
  <2> QED
    BY <2>1, <2>2, <2>3 DEF State, Revised, Plain
<1>1. PICK c \in Nat :
        /\ c >= mem.count /\ c > 0
        /\ mem.active.route # "internal" => c > mem.count
        /\ mem'.count = c
  BY <1>0, AuthorizeIs, KnownIs
<1>2. /\ mem' \in State /\ mem'.phase = "executing" /\ mem'.status = "REVISING"
      /\ \A f \in Kept \ {"phase", "count"} : mem'[f] = mem[f]
      /\ \A f \in Beside : mem'[f] = mem[f]
      /\ disk' = disk /\ run' = run /\ pc' = "executing"
  BY <1>0, AuthorizeIs, KnownIs
<1>3. /\ mem'.analyses = mem.analyses
      /\ mem'.review = mem.review /\ mem'.at = mem.at /\ mem'.active = mem.active
      /\ mem'.history = mem.history /\ mem'.asked = mem.asked
      /\ mem'.initial = mem.initial /\ mem'.counter = mem.counter
      /\ mem'.final = mem.final /\ mem'.result = mem.result
  BY <1>2 DEF Kept
<1>4. /\ mem'.faults = mem.faults /\ mem'.primaryError = mem.primaryError
      /\ mem'.reviewError = mem.reviewError /\ mem'.plan = mem.plan
  BY <1>2 DEF Beside
<1>5. AllClosed(mem)
  BY <1>0, Here, IdleClosed DEF PlanOf
<1>6. AllClosed(mem') /\ Artifacts(mem') = Artifacts(mem)
  BY <1>3, <1>5, OpenAlike DEF Artifacts
<1>7. AskedOK(mem', paid') /\ CountOK(mem') /\ ErrorsOK(mem', paid')
  <2>1. AskedOK(mem, paid') /\ CountOK(mem) /\ ErrorsOK(mem, paid')
    BY Here
  <2>2. \A a \in mem.asked : Askable(mem', a, paid')
    BY <1>0, <1>1, <2>1 DEF AskedOK, Askable
  <2>3. AskedOK(mem', paid')
    BY <1>3, <2>1, <2>2 DEF AskedOK, Latest
  <2>4. CountOK(mem')
    BY <1>0, <1>1, <1>3, <2>1 DEF CountOK
  <2> QED
    BY <1>4, <2>1, <2>3, <2>4, ErrorsAlike
<1>8. Synced(mem', reviews') /\ ResultOK(mem', reviews')
  <2>1. Synced(mem, reviews') /\ ResultOK(mem, reviews')
    BY Here
  <2> QED
    BY <1>3, <1>6, <2>1, GivenUpAlike, FairAlike DEF Synced, ResultOK
<1>9. Good(mem', paid', reviews', results')
  BY <1>2, <1>6, <1>7, <1>8, GoodBy
<1>10. PlanOK(mem, reviews, adopted, results)
  BY <1>0 DEF IInv, StatesInv
<1>11. PlanOK(mem', reviews', adopted', results')
  BY <1>0, <1>2, <1>3, <1>10 DEF PlanOK, PlanOf
<1>12. AuthorizedOK'
  <2>1. mem.active.route = "internal" =>
          /\ Refused(mem.plan, reviews) /\ Refused(mem.active.review, reviews)
          /\ mem.final = mem.active.final /\ mem.final # NoId
    BY <1>0, <1>10 DEF PlanOK, Current
  <2>2. mem.active.route = "conclusion" =>
          /\ \A x \in results : x.request # mem.active
          /\ \A x \in Primary \union Stage : mem.at[x] < mem'.count
          /\ \A h \in mem.history : h.iteration < mem'.count
    BY <1>0, <1>1, <1>10, Here DEF PlanOK, CountOK
  <2> QED
    BY <1>0, <1>1, <1>2, <1>3, <1>4, <1>6, <2>1, <2>2 DEF AuthorizedOK
<1>13. CommandInv'
  BY <1>0, <1>2, <1>3, <1>12 DEF CommandInv, Asking, Making, Judging
<1> QED
  BY <1>9, <1>11, <1>13 DEF Onward

LEMMA StaleStep ==
  ASSUME IInv, [Next]_vars, Stale
  PROVE  Onward
<1>0. /\ mem \in State /\ pc # "waiting" /\ Left
  BY Here, EndsIs DEF Stale
<1> QED
  BY <1>0, BothStay, EndStep

LEMMA ExhaustedStep ==
  ASSUME IInv, [Next]_vars, Exhausted
  PROVE  Onward
<1>0. /\ mem \in State /\ CommandInv /\ pc = "authorize" /\ PlanOf(mem)
  BY Here DEF Exhausted, CommandInv
<1>1. CASE Left
  BY <1>0, <1>1, BothStay, EndStep
<1>2. CASE /\ mem' \in State /\ disk' = mem' /\ pc' = "idle" /\ run' = NoRun
           /\ mem'.status = "BLOCKED" /\ mem'.phase = "blocked"
           /\ mem'.count \in Nat /\ mem'.count >= mem.count
           /\ mem.history \subseteq mem'.history
           /\ \A h \in mem'.history : h \in mem.history \/ h.iteration = mem'.count
           /\ \A f \in Kept \ {"phase", "count", "history"} : mem'[f] = mem[f]
           /\ \A f \in Beside : mem'[f] = mem[f]
  <2>1. /\ mem'.analyses = mem.analyses
        /\ mem'.review = mem.review /\ mem'.at = mem.at /\ mem'.active = mem.active
        /\ mem'.asked = mem.asked
        /\ mem'.initial = mem.initial /\ mem'.counter = mem.counter
        /\ mem'.final = mem.final /\ mem'.result = mem.result
    BY <1>2 DEF Kept
  <2>2. /\ mem'.faults = mem.faults /\ mem'.primaryError = mem.primaryError
        /\ mem'.reviewError = mem.reviewError
    BY <1>2 DEF Beside
  <2>3. /\ mem.count \in Nat /\ mem.at \in [Primary \union Stage -> Nat]
        /\ \A h \in mem.history : h.iteration \in Nat
        /\ \A a \in mem.asked : a.rev \in Nat
    BY <1>0 DEF State, Revised, Plain
  <2>4. AllClosed(mem)
    BY <1>0, Here, IdleClosed DEF PlanOf
  <2>5. AllClosed(mem') /\ Artifacts(mem') = Artifacts(mem)
    BY <2>1, <2>4, OpenAlike DEF Artifacts
  <2>6. AskedOK(mem', paid') /\ CountOK(mem') /\ ErrorsOK(mem', paid')
    <3>1. AskedOK(mem, paid') /\ CountOK(mem) /\ ErrorsOK(mem, paid')
      BY Here
    <3>2. \A a \in mem.asked : Askable(mem', a, paid')
      BY <1>2, <2>3, <3>1 DEF AskedOK, Askable
    <3>3. AskedOK(mem', paid')
      BY <2>1, <3>1, <3>2 DEF AskedOK, Latest
    <3>4. CountOK(mem')
      BY <1>2, <2>1, <2>3, <3>1 DEF CountOK
    <3> QED
      BY <2>2, <3>1, <3>3, <3>4, ErrorsAlike
  <2>7. Synced(mem', reviews') /\ ResultOK(mem', reviews')
    <3>1. Synced(mem, reviews') /\ ResultOK(mem, reviews')
      BY Here
    <3>2. GivenUp(mem, "review") => GivenUp(mem', "review")
      BY <1>2, <2>1 DEF GivenUp
    <3> QED
      BY <2>1, <2>5, <3>1, <3>2, FairAlike DEF Synced, ResultOK
  <2>8. Good(mem', paid', reviews', results')
    BY <1>2, <2>5, <2>6, <2>7, GoodBy
  <2>9. PlanOK(mem', reviews', adopted', results')
    BY <1>2 DEF PlanOK, PlanOf
  <2> QED
    BY <1>2, <2>8, <2>9, IdleInv DEF Onward
<1> QED
  BY <1>0, <1>1, <1>2, ExhaustedIs

LEMMA ExecuteStep ==
  ASSUME IInv, [Next]_vars, Execute
  PROVE  Onward
<1>0. /\ CommandInv /\ pc = "executing" /\ pc' = "begin" /\ mem' = mem /\ disk' = mem'
      /\ reviews' = reviews /\ results' = results
  BY Here DEF Execute, Save, Goto, calls, exchange
<1>1. AuthorizedOK'
  BY <1>0 DEF CommandInv, AuthorizedOK
<1>2. CommandInv'
  BY <1>0, <1>1 DEF CommandInv, Asking, Making, Judging
<1> QED
  BY <1>0, <1>2, StayStep

\* The task of a revision is the latest of the analyst's, or was paid for.
LEMMA TaskOfRevision ==
  ASSUME NEW s \in State, NEW ps, AskedOK(s, ps), s.count > 0, NEW p \in Primary,
         Id(p, s.count, 0) \notin ps
  PROVE  Latest(s, Id(p, s.count, 0))
<1> DEFINE a == Id(p, s.count, 0)
<1>1. /\ s.count \in Nat /\ a \in Plain /\ a.agent = p /\ a.rev = s.count /\ a.mark = 0
      /\ a.retry = FALSE
  <2>1. s.count \in Nat
    BY DEF State
  <2> QED
    BY <2>1 DEF Id, Plain
<1> HIDE DEF a
<1> SUFFICES ASSUME NEW b \in s.asked, b.agent = p, b # a PROVE Later(a, b)
  BY <1>1 DEF Latest, a
<1>2. b \in Plain /\ b.rev \in Nat /\ Askable(s, b, ps)
  BY DEF State, Plain, AskedOK
<1>3. CASE b.rev < s.count
  BY <1>1, <1>2, <1>3 DEF Later
<1>4. CASE b.rev = s.count
  <2>1. b.mark = 0
    BY <1>2, <1>4 DEF Askable
  <2>2. b.retry = TRUE
    <3>1. b.retry \in BOOLEAN
      BY <1>2 DEF Plain
    <3> QED
      BY <1>1, <1>2, <1>4, <2>1, <3>1, PlainsAgree
  <2>3. /\ Original(b) \in Plain /\ Original(b).agent = p /\ Original(b).rev = s.count
        /\ Original(b).mark = 0 /\ Original(b).retry = FALSE
    BY <1>2, <1>4, <2>1 DEF Original, Plain
  <2>4. Original(b) = a
    BY <1>1, <2>3, PlainsAgree
  <2> QED
    BY <1>2, <2>2, <2>4 DEF Askable, a
<1> QED
  BY <1>1, <1>2, <1>3, <1>4 DEF Askable

\* A revision of a review begins where nothing is approved.
LEMMA BeginUnapproved ==
  ASSUME IInv, [Next]_vars, AuthorizedOK, mem.active.route = "internal",
         mem.review # NoId => mem.plan \in {NoId, mem.review}
  PROVE  mem.result[2] = NoId
<1> SUFFICES ASSUME mem.result[2] # NoId PROVE FALSE
  OBVIOUS
<1>1. PaidInv /\ ResultOK(mem, reviews)
  BY DEF IInv, StatesInv, Good
<1>2. /\ Approves(mem.result[2], reviews) /\ mem.review = mem.result[2]
      /\ Refused(mem.plan, reviews)
  BY <1>1 DEF ResultOK, AuthorizedOK
<1>3. NoId \notin paid
  BY <1>1, NothingTyped DEF PaidInv
<1>4. mem.plan = mem.review
  BY <1>1, <1>2, <1>3 DEF Refused, PaidInv
<1> QED
  BY <1>1, <1>2, <1>4 DEF Refused, Approves, PaidInv

LEMMA BeginStep ==
  ASSUME IInv, [Next]_vars, Begin
  PROVE  Onward
<1> DEFINE r == mem.active
           ps == r.targets \intersect Primary
           lost == r.route = "internal" /\ mem.review = NoId
           c == mem.count
           todo == {Id(p, mem.count, 0) : p \in ps}
<1>0. /\ mem \in State /\ run \in Run /\ CommandInv /\ PaidInv /\ pc = "begin"
      /\ reviews \subseteq Judgement /\ r \in Request /\ r.targets \in SUBSET Legal
      /\ mem.status # "WAITING_UPSTREAM_REVISION" /\ AuthorizedOK /\ c \in Nat
  <2>1. mem \in State /\ run \in Run /\ CommandInv /\ PaidInv /\ pc = "begin"
        /\ reviews \subseteq Judgement
    BY Here DEF Begin
  <2> QED
    BY <2>1 DEF CommandInv, State, Request
<1>1. /\ reviews' = reviews /\ paid' = paid /\ results' = results /\ adopted' = adopted
  BY Zenon DEF Begin, calls, exchange
<1>2. r.route = "internal" => \E v \in reviews : v.id = r.review
  BY <1>0, BehindIs
<1>3. PlanOK(mem, reviews, adopted, results)
  BY <1>0 DEF IInv, StatesInv
<1>4. r.route \in {"internal", "conclusion"} /\ r.targets # {}
  BY <1>0, <1>3 DEF PlanOK, AuthorizedOK
<1>5. CASE Left
  BY <1>0, <1>5, BothStay, EndStep
<1>6. ASSUME NEW s \in State,
             s.review = IF lost THEN r.review ELSE mem.review,
             s.review # NoId,
             r.route = "internal" /\ ~lost => mem.plan \in {NoId, mem.review},
             s.status = mem.status,
             ~lost => s.plan = mem.plan,
             lost => s.plan = r.review,
             \A f \in Kept \ {"review"} : s[f] = mem[f],
             \A f \in Beside \ {"plan"} : s[f] = mem[f],
             mem' = History(s, r.targets), disk' = mem',
             run' = [run EXCEPT !.then = "revise", !.recovery = 1,
                                !.first = FirstStage(r.targets),
                                !.todo = todo],
             pc' = IF ps # {} THEN "dispatch" ELSE "initial"
      PROVE  Onward
  <2> DEFINE h == [iteration |-> s.count, targets |-> r.targets]
  <2>1. /\ s.analyses = mem.analyses /\ s.count = c
        /\ s.at = mem.at /\ s.phase = mem.phase
        /\ s.history = mem.history /\ s.active = r /\ s.asked = mem.asked
        /\ s.initial = mem.initial /\ s.counter = mem.counter /\ s.final = mem.final
        /\ s.result = mem.result
    BY <1>6 DEF Kept
  <2>2. /\ s.faults = mem.faults /\ s.primaryError = mem.primaryError
        /\ s.reviewError = mem.reviewError
    BY <1>6 DEF Beside
  <2>3. /\ mem' \in State
        /\ s.history \subseteq mem'.history
        /\ mem'.history \subseteq s.history \union {h}
        /\ (\A g \in s.history : g.iteration # s.count) => h \in mem'.history
        /\ \A f \in Kept \ {"history"} : mem'[f] = s[f]
        /\ \A f \in {"faults", "primaryError", "reviewError", "status", "plan"} : mem'[f] = s[f]
    BY <1>0, <1>6, HistoryIs
  <2>4. /\ mem'.analyses = mem.analyses /\ mem'.count = c /\ mem'.review = s.review
        /\ mem'.at = mem.at /\ mem'.phase = mem.phase
        /\ mem'.active = r /\ mem'.asked = mem.asked
        /\ mem'.initial = mem.initial /\ mem'.counter = mem.counter
        /\ mem'.final = mem.final /\ mem'.result = mem.result
    BY <2>1, <2>3 DEF Kept
  <2>5. /\ mem'.faults = mem.faults /\ mem'.primaryError = mem.primaryError
        /\ mem'.reviewError = mem.reviewError /\ mem'.status = mem.status
    BY <1>6, <2>2, <2>3
  <2>6. AllClosed(mem')
    BY <1>0, <2>4, OpenAlike DEF AuthorizedOK
  <2>7. r.route = "internal" => Refused(mem'.review, reviews)
    <3>1. CASE lost
      BY <1>0, <1>6, <2>4, <3>1 DEF AuthorizedOK
    <3>2. CASE ~lost
      <4>1. r.route = "internal" => mem.plan # NoId
        BY <1>0, NothingTyped DEF AuthorizedOK, Refused, PaidInv
      <4> QED
        BY <1>0, <1>6, <2>4, <3>2, <4>1 DEF AuthorizedOK
    <3> QED
      BY <3>1, <3>2
  <2>8. r.route = "conclusion" => GivenUp(mem', "review")
    <3>1. "review" \in StagesOf(r.targets)
      BY <1>0, <1>4, StagesAre
    <3>2. r.route = "conclusion" => h \in mem'.history /\ mem'.at["review"] < h.iteration
      <4>1. r.route = "conclusion" => \A g \in s.history : g.iteration # s.count
        <5>1. \A g \in mem.history : g.iteration \in Nat
          BY <1>0 DEF State, Revised
        <5> QED
          BY <1>0, <2>1, <5>1 DEF AuthorizedOK
      <4> QED
        BY <1>0, <2>1, <2>3, <2>4, <4>1 DEF AuthorizedOK, Stage
    <3> QED
      BY <3>1, <3>2 DEF GivenUp
  <2>9. Rework(mem', reviews)
    BY <1>4, <2>7, <2>8 DEF Rework
  <2>10. r.route = "internal" => mem.result[2] = NoId
    BY <1>0, <1>6, BeginUnapproved
  <2>11. Reworked(mem', reviews, results)
    <3>1. Busy(mem', results)
      BY <1>0, <1>4, <2>4, <2>10 DEF Busy, AuthorizedOK
    <3> QED
      BY <2>4, <2>8, <2>9, <3>1 DEF Reworked
  <2>12. ResultOK(mem', reviews')
    <3>1. ResultOK(mem, reviews')
      BY Here
    <3> QED
      BY <1>4, <1>6, <2>4, <2>10, <3>1 DEF ResultOK
  <2>13. AskedOK(mem', paid') /\ CountOK(mem') /\ ErrorsOK(mem', paid')
    <3>1. AskedOK(mem, paid') /\ CountOK(mem) /\ ErrorsOK(mem, paid')
      BY Here
    <3>2. AskedOK(mem', paid') /\ ErrorsOK(mem', paid')
      BY <2>4, <2>5, <3>1, AskedAlike, ErrorsAlike
    <3>3. CountOK(mem')
      <4>1. \A g \in mem'.history : g \in mem.history \/ g.iteration = c
        BY <2>1, <2>3
      <4> QED
        BY <1>0, <2>4, <3>1, <4>1 DEF CountOK
    <3> QED
      BY <3>2, <3>3
  <2>14. Good(mem', paid', reviews', results')
    BY <1>0, <1>1, <2>5, <2>6, <2>9, <2>12, <2>13, ReworkSynced, GoodBy
  <2>15. PlanOK(mem', reviews', adopted', results')
    BY <1>0, <1>1, <1>3, <2>4 DEF PlanOK, PlanOf, AuthorizedOK
  <2>16. /\ run'.then = "revise" /\ run'.first = FirstStage(r.targets) /\ run'.todo = todo
         /\ run'.first <= 2 /\ ~(run'.first > 3)
    <3>1. run'.then = "revise" /\ run'.first = FirstStage(r.targets) /\ run'.todo = todo
      BY <1>0, <1>6 DEF Run
    <3>2. FirstStage(r.targets) \in 1 .. 2
      BY <1>0, StagesAre
    <3> HIDE DEF todo
    <3> QED
      BY <3>1, <3>2
  <2>17. pc' = "dispatch" => AskingOK'
    <3>1. \A p \in ps : /\ Id(p, c, 0).agent = p /\ Id(p, c, 0).rev = c
                        /\ Id(p, c, 0).mark = 0 /\ Id(p, c, 0).retry = FALSE
      BY DEF Id
    <3>2. \A a \in todo : Askable(mem', a, paid')
      BY <1>0, <2>4, <3>1 DEF Askable
    <3>3. ASSUME NEW p \in ps PROVE Id(p, c, 0) \in paid' \/ Latest(mem', Id(p, c, 0))
      <4>1. Id(p, c, 0) \in paid' \/ Latest(mem, Id(p, c, 0))
        BY <1>0, Here, TaskOfRevision DEF AuthorizedOK
      <4> QED
        BY <2>4, <4>1 DEF Latest
    <3>4. \A a, b \in todo : a.agent = b.agent => a = b
      BY <3>1
    <3>5. \A a \in todo : a.agent \in r.targets
      BY <3>1
    <3>6. \A a \in todo : a \in paid' \/ Latest(mem', a)
      BY <3>3
    <3>7. \A p \in Primary : ~Open(mem', p)
      BY <2>6 DEF AllClosed
    <3> HIDE DEF todo
    <3> QED
      BY <1>1, <2>4, <2>11, <2>16, <3>2, <3>4, <3>5, <3>6, <3>7 DEF AskingOK
  <2>18. pc' \in {"dispatch", "initial"}
    BY <1>6
  <2>19. CommandInv'
    <3> HIDE DEF todo, ps, h, lost
    <3> QED
      BY <1>0, <1>1, <1>6, <2>5, <2>6, <2>9, <2>16, <2>17, <2>18
         DEF CommandInv, Asking, Making, Judging
  <2> QED
    BY <2>14, <2>15, <2>19 DEF Onward
<1> QED
  BY <1>0, <1>2, <1>5, <1>6, BeginIs

LEMMA RevisionStep ==
  ASSUME IInv, [Next]_vars, Revision
  PROVE  Onward
BY ReviseStep, AdoptStep, AdoptedStep, AuthorizeStep, StaleStep, ExhaustedStep, ExecuteStep,
   BeginStep DEF Revision

-----------------------------------------------------------------------------
(* The steps of a recovery.                                                  *)

LEMMA RecoverStep ==
  ASSUME IInv, [Next]_vars, ProviderRetry \/ Recover
  PROVE  Onward
<1>0. /\ mem \in State /\ CommandInv /\ pc = "idle" /\ mem = disk
  BY Here DEF ProviderRetry, Recover, Command, CommandInv
<1>1. Left \/ (pc' = "recover" /\ mem' = mem /\ disk' = disk)
  BY <1>0, EndsIs DEF ProviderRetry, Recover, Grant, Goto
<1>2. CASE Left
  BY <1>0, <1>2, BothStay, EndStep
<1>3. CASE pc' = "recover" /\ mem' = mem /\ disk' = disk
  <2>1. CommandInv'
    BY <1>0, <1>3 DEF CommandInv, Asking, Making, Judging
  <2> QED
    BY <1>0, <1>3, <2>1, StayStep
<1> QED
  BY <1>1, <1>2, <1>3

LEMMA NoRecoverStep ==
  ASSUME IInv, [Next]_vars, NotRecoverable \/ NeedsRetry \/ TooFew
  PROVE  Onward
<1>0. /\ mem \in State /\ pc # "waiting"
  BY Here DEF NotRecoverable, NeedsRetry, TooFew
<1>1. Ended(mem) \/ Left
  BY <1>0, EndsIs, TooFewIs DEF NotRecoverable, NeedsRetry
<1> QED
  BY <1>0, <1>1, BothStay, EndStep

\* A revision of more targets gives up more.
LEMMA ClosedGivenUp ==
  ASSUME NEW s \in State, NEW t, t.at = s.at,
         \A g \in s.history : \E h \in t.history :
           /\ h.iteration = g.iteration
           /\ h.targets = g.targets \/ h.targets = g.targets \union Missing(s)
  PROVE  \A stage : GivenUp(s, stage) => GivenUp(t, stage)
<1> SUFFICES ASSUME NEW stage, GivenUp(s, stage) PROVE GivenUp(t, stage)
  OBVIOUS
<1>1. PICK g \in s.history : stage \in StagesOf(g.targets) /\ s.at[stage] < g.iteration
  BY DEF GivenUp
<1>2. PICK h \in t.history :
        /\ h.iteration = g.iteration
        /\ h.targets = g.targets \/ h.targets = g.targets \union Missing(s)
  BY <1>1
<1>3. g.targets \in SUBSET Legal /\ Missing(s) \in SUBSET Primary
  BY <1>1 DEF State, Revised, Missing
<1>4. StagesOf(g.targets) \subseteq StagesOf(g.targets \union Missing(s))
  BY <1>3, StagesAre
<1>5. stage \in StagesOf(h.targets)
  BY <1>1, <1>2, <1>4
<1> QED
  BY <1>1, <1>2, <1>5 DEF GivenUp

LEMMA RecoverBeginsStep ==
  ASSUME IInv, [Next]_vars, RecoverBegins
  PROVE  Onward
<1> DEFINE t == Closed(mem)
<1>0. /\ mem \in State /\ run \in Run /\ CommandInv /\ pc = "recover"
      /\ reviews' = reviews /\ paid' = paid /\ results' = results /\ adopted' = adopted
  <2>1. pc = "recover" /\ reviews' = reviews /\ paid' = paid /\ results' = results
        /\ adopted' = adopted
    BY DEF RecoverBegins, calls, exchange
  <2> QED
    BY <2>1, Here
<1>1. /\ Same(mem', t) /\ mem'.status = "RUNNING" /\ disk' = mem'
      /\ run' = [run EXCEPT !.then = "recover", !.recovery = 1, !.again = Again(mem)]
      /\ pc' = "primaries"
  BY <1>0, RecoverBeginsIs
<1>2. /\ t \in State
      /\ \A h \in t.history : \E g \in mem.history :
           /\ h.iteration = g.iteration
           /\ h.targets = g.targets \/ h.targets = g.targets \union Missing(mem)
      /\ \A g \in mem.history : \E h \in t.history :
           /\ h.iteration = g.iteration
           /\ h.targets = g.targets \/ h.targets = g.targets \union Missing(mem)
      /\ \A f \in Kept \ {"history"} : t[f] = mem[f]
      /\ \A f \in {"faults", "primaryError", "reviewError", "status", "plan"} : t[f] = mem[f]
  BY <1>0, ClosedIs
<1>3. /\ mem'.analyses = mem.analyses /\ mem'.count = mem.count /\ mem'.review = mem.review
      /\ mem'.at = mem.at /\ mem'.phase = mem.phase /\ mem'.history = t.history
      /\ mem'.active = mem.active /\ mem'.asked = mem.asked
      /\ mem'.initial = mem.initial /\ mem'.counter = mem.counter
      /\ mem'.final = mem.final /\ mem'.result = mem.result
      /\ mem'.faults = mem.faults /\ mem'.primaryError = mem.primaryError
      /\ mem'.reviewError = mem.reviewError /\ mem'.plan = mem.plan
  BY <1>1, <1>2, SameIs DEF Kept
<1>4. \A stage : GivenUp(mem, stage) => GivenUp(mem', stage)
  BY <1>0, <1>2, <1>3, ClosedGivenUp
<1> HIDE DEF t
<1>5. AskedOK(mem', paid') /\ CountOK(mem') /\ ErrorsOK(mem', paid')
  <2>1. AskedOK(mem, paid') /\ CountOK(mem) /\ ErrorsOK(mem, paid')
    BY Here
  <2>2. AskedOK(mem', paid') /\ ErrorsOK(mem', paid')
    BY <1>3, <2>1, AskedAlike, ErrorsAlike
  <2>3. CountOK(mem')
    BY <1>2, <1>3, <2>1 DEF CountOK
  <2> QED
    BY <2>2, <2>3
<1>6. Synced(mem', reviews')
  <2>1. Artifacts(mem') = Artifacts(mem) /\ Synced(mem, reviews')
    BY <1>3, Here DEF Artifacts
  <2> QED
    BY <1>3, <1>4, <2>1, FairAlike DEF Synced
<1>7. OpenOK(mem', reviews', results')
  <2>1. \A p : Open(mem', p) => Open(mem, p)
    BY <1>3, OpenAlike
  <2>2. Reworked(mem, reviews', results') => Reworked(mem', reviews', results')
    BY <1>3, <1>4 DEF Reworked, Busy, Rework
  <2> QED
    BY <1>3, <2>1, <2>2, Here DEF OpenOK
<1>8. ResultOK(mem', reviews') /\ WaitingOK(mem', reviews')
  BY <1>1, <1>3, Here DEF ResultOK, WaitingOK
<1>9. Good(mem', paid', reviews', results')
  BY <1>5, <1>6, <1>7, <1>8 DEF Good
<1>10. PlanOK(mem', reviews', adopted', results')
  BY <1>0, <1>3, BothStay, PlanAlike
<1>11. run'.then = "recover"
  BY <1>0, <1>1 DEF Run
<1>12. CommandInv'
  BY <1>1, <1>11 DEF CommandInv, Asking, Making, Judging
<1> QED
  BY <1>9, <1>10, <1>12 DEF Onward

\* An analysis that is not of the latest task is open.
LEMMA InvalidOpen ==
  ASSUME NEW s \in State, NEW ps, AskedOK(s, ps), NEW p \in Primary, s.analyses[p] # NoId
  PROVE  p \in Valid(s) \/ Open(s, p)
<1>1. s.analyses[p] \in s.asked /\ s.analyses[p].agent = p
  BY DEF AskedOK
<1>2. /\ Task(s, p) \in Plain /\ Task(s, p).agent = p
      /\ Task(s, p) \in s.asked /\ Latest(s, Task(s, p))
  BY <1>1, TaskIs
<1> QED
  BY <1>1, <1>2 DEF Valid, Open, Latest

LEMMA ValidClosed ==
  ASSUME NEW s \in State, NEW ps, AskedOK(s, ps), NEW p \in Valid(s)
  PROVE  ~Open(s, p)
<1>1. p \in Primary /\ s.analyses[p] = Task(s, p)
  BY DEF Valid
<1> SUFFICES ASSUME Open(s, p) PROVE FALSE
  OBVIOUS
<1>2. PICK a \in s.asked : a.agent = p /\ a # s.analyses[p] /\ Later(a, s.analyses[p])
  BY DEF Open
<1>3. /\ Task(s, p) \in Plain /\ Task(s, p).agent = p /\ Latest(s, Task(s, p))
  BY <1>1, <1>2, TaskIs DEF Open, AskedOK
<1>4. a \in Plain /\ Later(Task(s, p), a)
  BY <1>1, <1>2, <1>3 DEF Latest, State
<1> QED
  BY <1>1, <1>2, <1>3, <1>4, LaterIs

\* What is not of the latest task is dropped: it was open, in a revision that has
\* nothing approved yet.
LEMMA ClosingStep ==
  ASSUME IInv, [Next]_vars, pc = "primaries"
  PROVE  LET t == Closing(mem)
         IN /\ t \in State /\ t.status = mem.status
            /\ Good(t, paid', reviews', results')
            /\ PlanOK(t, reviews', adopted', results')
            /\ AllClosed(t)
            /\ \A p \in Primary : mem.analyses[p] \notin {NoId, t.analyses[p]} => Open(mem, p)
<1> DEFINE t == Closing(mem)
<1>0. /\ mem \in State /\ CommandInv /\ mem.status # "WAITING_UPSTREAM_REVISION"
      /\ AskedOK(mem, paid') /\ CountOK(mem) /\ ErrorsOK(mem, paid')
      /\ Synced(mem, reviews') /\ OpenOK(mem, reviews', results')
      /\ ResultOK(mem, reviews')
  BY Here DEF CommandInv
<1>1. /\ t \in State
      /\ \A p \in Primary : t.analyses[p] = IF p \in Valid(mem) THEN mem.analyses[p] ELSE NoId
      /\ t.status = mem.status
      /\ \A f \in Kept \ {"analyses"} : t[f] = mem[f]
      /\ \A f \in Beside : t[f] = mem[f]
  BY <1>0, ClosingIs
<1> HIDE DEF t
<1>2. /\ t.count = mem.count /\ t.review = mem.review /\ t.history = mem.history
      /\ t.at = mem.at /\ t.phase = mem.phase
      /\ t.active = mem.active /\ t.asked = mem.asked
      /\ t.initial = mem.initial /\ t.counter = mem.counter
      /\ t.final = mem.final /\ t.result = mem.result
  BY <1>1 DEF Kept
<1>3. /\ t.faults = mem.faults /\ t.primaryError = mem.primaryError
      /\ t.reviewError = mem.reviewError /\ t.plan = mem.plan
  BY <1>1 DEF Beside
<1>4. AllClosed(t)
  <2> SUFFICES ASSUME NEW p \in Primary, Open(t, p) PROVE FALSE
    BY DEF AllClosed
  <2>1. p \in Valid(mem) /\ t.analyses[p] = mem.analyses[p]
    BY <1>1 DEF Open
  <2>2. Open(mem, p)
    BY <1>2, <2>1 DEF Open
  <2> QED
    BY <1>0, <2>1, <2>2, ValidClosed
<1>5. \A p \in Primary : mem.analyses[p] \notin {NoId, t.analyses[p]} => Open(mem, p)
  BY <1>0, <1>1, InvalidOpen
<1>6. Synced(t, reviews')
  <2>1. CASE \E p \in Primary : Open(mem, p)
    <3>1. Rework(mem, reviews')
      BY <1>0, <2>1 DEF OpenOK, Reworked
    <3> QED
      BY <1>2, <3>1, ReworkAlike, ReworkSynced
  <2>2. CASE \A p \in Primary : ~Open(mem, p)
    <3>1. \A p \in Primary : t.analyses[p] = mem.analyses[p]
      BY <1>0, <1>1, <2>2, InvalidOpen
    <3>2. t.analyses = mem.analyses
      BY <1>0, <1>1, <3>1 DEF State
    <3>3. Artifacts(t) = Artifacts(mem)
      BY <1>2, <3>2 DEF Artifacts
    <3> QED
      BY <1>0, <1>2, <3>3, GivenUpAlike, FairAlike DEF Synced
  <2> QED
    BY <2>1, <2>2
<1>7. AskedOK(t, paid')
  <2>1. \A p \in Primary : t.analyses[p] # NoId =>
          t.analyses[p] \in t.asked /\ t.analyses[p].agent = p
    BY <1>0, <1>1, <1>2 DEF AskedOK
  <2>2. /\ \A a : Latest(mem, a) => Latest(t, a)
        /\ \A a : Askable(mem, a, paid') => Askable(t, a, paid')
    BY <1>2 DEF Latest, Askable
  <2> QED
    BY <1>0, <1>2, <2>1, <2>2 DEF AskedOK
<1>8. CountOK(t) /\ ErrorsOK(t, paid') /\ ResultOK(t, reviews')
  BY <1>0, <1>2, <1>3, ErrorsAlike DEF CountOK, ResultOK
<1>9. Good(t, paid', reviews', results')
  BY <1>0, <1>1, <1>4, <1>6, <1>7, <1>8, GoodBy
<1>10. PlanOK(t, reviews', adopted', results')
  BY <1>2, <1>3, BothStay, PlanAlike
<1> QED
  BY <1>1, <1>4, <1>5, <1>9, <1>10 DEF t

\* The call an analyst is asked again with is a task of its own, the latest.
LEMMA AgainAsks ==
  ASSUME NEW s \in State, NEW ps, AskedOK(s, ps), NEW p \in Primary, retries \subseteq ps,
         TaskAgain(s, p) = Task(s, p) => Task(s, p) \notin s.asked
                                         \/ PendingRetry(Original(Task(s, p)))
  PROVE  Askable(s, TaskAgain(s, p), ps) /\ Latest(s, TaskAgain(s, p))
<1> DEFINE a == TaskAgain(s, p)
           k == Task(s, p)
<1>0. /\ k \in Plain /\ k.agent = p
      /\ \/ k = Id(p, 0, 0) /\ \A b \in s.asked : b.agent # p
         \/ k \in s.asked /\ Latest(s, k)
  BY TaskIs
<1>1. /\ a \in Plain /\ a.agent = p
      /\ \/ a = RetryOf(k) /\ PendingRetry(Original(k))
         \/ a = k /\ s.count > 0 /\ ~PendingRetry(Original(k))
         \/ a = Id(p, 0, 1 + k.mark) /\ s.count <= 0
  BY AgainIs
<1>2. a = k => k \notin s.asked \/ PendingRetry(Original(k))
  OBVIOUS
<1>3. /\ s.count \in Nat /\ k.rev \in Nat /\ k.mark \in Nat /\ k.retry \in BOOLEAN
      /\ s.asked \subseteq Plain
  BY <1>0 DEF State, Plain
<1>4. k.rev <= s.count /\ (k.rev > 0 => k.mark = 0)
  <2>1. k = Id(p, 0, 0) => k.rev = 0
    BY DEF Id
  <2>2. k \in s.asked => Askable(s, k, ps)
    BY DEF AskedOK
  <2> HIDE DEF k
  <2> QED
    BY <1>0, <1>3, <2>1, <2>2 DEF Askable
<1> HIDE DEF a, k
<1>5. CASE a = RetryOf(k) /\ PendingRetry(Original(k))
  <2>1. /\ a.rev = k.rev /\ a.mark = k.mark /\ a.retry /\ Original(a) = Original(k)
    BY <1>0, <1>5, RetryIs, PlainIsTask
  <2>2. Original(k) \in ps
    BY <1>5 DEF PendingRetry
  <2>3. Askable(s, a, ps)
    BY <1>1, <1>4, <2>1, <2>2 DEF Askable
  <2>4. ASSUME NEW b \in s.asked, b.agent = p, b # a PROVE Later(a, b)
    <3>1. b \in Plain /\ b.rev \in Nat /\ b.mark \in Nat
      BY <1>3, <2>4 DEF Plain
    <3>2. b = k \/ Later(k, b)
      BY <1>0, <2>4 DEF Latest
    <3> QED
      BY <1>3, <2>1, <3>1, <3>2 DEF Later
  <2> QED
    BY <1>1, <2>3, <2>4 DEF Latest, a
<1>6. CASE a = k /\ ~PendingRetry(Original(k))
  <2>1. k = Id(p, 0, 0) /\ \A b \in s.asked : b.agent # p
    BY <1>0, <1>2, <1>6
  <2>2. k.retry = FALSE
    BY <2>1 DEF Id
  <2> QED
    BY <1>0, <1>4, <1>6, <2>1, <2>2 DEF Askable, Latest, a
<1>7. CASE a = Id(p, 0, 1 + k.mark) /\ s.count <= 0
  <2>1. a.rev = 0 /\ a.mark = 1 + k.mark /\ a.retry = FALSE
    BY <1>7 DEF Id
  <2>2. Askable(s, a, ps)
    BY <1>1, <1>3, <2>1 DEF Askable
  <2>3. ASSUME NEW b \in s.asked, b.agent = p, b # a PROVE Later(a, b)
    <3>1. /\ b \in Plain /\ b.rev \in Nat /\ b.mark \in Nat /\ b.rev <= s.count
      BY <1>3, <2>3 DEF Plain, AskedOK, Askable
    <3>2. b = k \/ Later(k, b)
      BY <1>0, <2>3 DEF Latest
    <3>3. k.rev = 0 /\ b.rev = 0
      BY <1>3, <1>4, <1>7, <3>1
    <3>4. b.mark <= k.mark
      BY <1>3, <3>1, <3>2, <3>3 DEF Later
    <3> QED
      BY <1>3, <2>1, <3>1, <3>3, <3>4 DEF Later
  <2> QED
    BY <1>1, <2>2, <2>3 DEF Latest, a
<1> QED
  BY <1>1, <1>5, <1>6, <1>7 DEF a

LEMMA RecoverPrimariesStep ==
  ASSUME IInv, [Next]_vars, RecoverPrimaries
  PROVE  Onward
<1> DEFINE t == Closing(mem)
           todo == {TaskAgain(mem, p) : p \in Incomplete(mem)}
<1>0. /\ mem \in State /\ run \in Run /\ CommandInv /\ pc = "primaries" /\ mem = disk
      /\ run.then = "recover" /\ mem.status # "WAITING_UPSTREAM_REVISION"
      /\ AskedOK(mem, paid') /\ retries \subseteq paid
      /\ OpenOK(mem, reviews, results)
  <2>1. pc = "primaries"
    BY DEF RecoverPrimaries
  <2> QED
    BY <2>1, Here DEF CommandInv, PaidInv, IInv, StatesInv, Good
<1>1. reviews' = reviews /\ paid' = paid /\ results' = results /\ adopted' = adopted
  BY Zenon DEF RecoverPrimaries, calls, exchange
<1>2. /\ t \in State /\ t.status = mem.status
      /\ Good(t, paid', reviews', results')
      /\ PlanOK(t, reviews', adopted', results')
      /\ AllClosed(t)
      /\ \A p \in Primary : mem.analyses[p] \notin {NoId, t.analyses[p]} => Open(mem, p)
  BY <1>0, ClosingStep
<1>3. /\ \A p \in Primary : t.analyses[p] = IF p \in Valid(mem) THEN mem.analyses[p] ELSE NoId
      /\ \A f \in Kept \ {"analyses"} : t[f] = mem[f]
  BY <1>0, ClosingIs
<1>4. /\ t.count = mem.count /\ t.history = mem.history /\ t.at = mem.at
      /\ t.asked = mem.asked /\ t.phase = mem.phase /\ t.active = mem.active
  BY <1>3 DEF Kept
<1> HIDE DEF t
<1>5. CASE Ended(t)
  BY <1>2, <1>5, EndStep
<1>6. CASE mem' = t /\ disk' = disk /\ run' = run /\ pc' = "checkpoints"
  <2>1. \A p \in Primary : disk.analyses[p] \notin {NoId, mem'.analyses[p]} =>
          disk.phase = "executing" /\ p \in disk.active.targets
    BY <1>0, <1>2, <1>6 DEF OpenOK, Reworked, Busy
  <2>2. mem'.phase = "executing" => disk.phase = "executing" /\ disk.active = mem'.active
    BY <1>0, <1>4, <1>6
  <2>3. CommandInv'
    BY <1>0, <1>2, <1>4, <1>6, <2>1, <2>2 DEF CommandInv, Asking, Making, Judging
  <2> QED
    BY <1>2, <1>6, <2>3 DEF Onward
<1>7. CASE /\ Ambiguous(mem) = {}
           /\ mem' = Cleared(t, 1) /\ disk' = mem'
           /\ run' = [run EXCEPT !.todo = todo]
           /\ pc' = "dispatch"
  <2>1. /\ mem' \in State
        /\ mem'.review = NoId /\ mem'.result = t.result /\ mem'.final = NoId
        /\ \A f \in {"analyses", "at", "asked", "count", "history", "phase", "active",
                     "faults", "primaryError", "reviewError", "status", "plan",
                     "failed", "report"} :
             mem'[f] = t[f]
    BY <1>2, <1>7, ClearedIs
  <2>2. /\ mem'.analyses = t.analyses /\ mem'.count = t.count
        /\ mem'.at = t.at /\ mem'.phase = t.phase /\ mem'.history = t.history
        /\ mem'.active = t.active /\ mem'.asked = t.asked /\ mem'.status = t.status
        /\ mem'.faults = t.faults /\ mem'.primaryError = t.primaryError
        /\ mem'.reviewError = t.reviewError /\ mem'.plan = t.plan
    BY <2>1
  <2>3. AllClosed(mem')
    BY <1>2, <2>2, OpenAlike
  <2>4. AskedOK(mem', paid') /\ CountOK(mem') /\ ErrorsOK(mem', paid')
    BY <1>2, <2>2, AskedAlike, ErrorsAlike DEF Good, CountOK
  <2>5. Synced(mem', reviews') /\ ResultOK(mem', reviews')
    BY <1>2, <2>1 DEF Good, Synced, ResultOK
  <2>6. Good(mem', paid', reviews', results')
    BY <1>0, <1>2, <2>2, <2>3, <2>4, <2>5, GoodBy
  <2>7. PlanOK(mem', reviews', adopted', results')
    BY <1>2, <2>2, PlanAlike
  <2>8. run'.todo = todo /\ run'.then = "recover"
    BY <1>0, <1>7 DEF Run
  <2>9. Incomplete(mem) \subseteq Primary \ Valid(mem)
    BY DEF Incomplete
  <2>10. ASSUME NEW p \in Incomplete(mem)
         PROVE  /\ Askable(mem, TaskAgain(mem, p), paid)
                /\ Latest(mem, TaskAgain(mem, p))
                /\ TaskAgain(mem, p).agent = p /\ mem'.analyses[p] = NoId
    <3>1. p \in Primary /\ p \notin Valid(mem)
      BY <2>9
    <3>2. mem.count > 0 /\ Task(mem, p) \in mem.asked => PendingRetry(Original(Task(mem, p)))
      BY <1>7 DEF Ambiguous
    <3>3. /\ TaskAgain(mem, p).agent = p
          /\ \/ TaskAgain(mem, p) = RetryOf(Task(mem, p)) /\ PendingRetry(Original(Task(mem, p)))
             \/ TaskAgain(mem, p) = Task(mem, p) /\ mem.count > 0
                /\ ~PendingRetry(Original(Task(mem, p)))
             \/ TaskAgain(mem, p) = Id(p, 0, 1 + Task(mem, p).mark) /\ mem.count <= 0
      BY <1>0, <3>1, AgainIs
    <3>4. TaskAgain(mem, p) = Task(mem, p) => Task(mem, p) \notin mem.asked
                                              \/ PendingRetry(Original(Task(mem, p)))
      <4>1. Task(mem, p) # Id(p, 0, 1 + Task(mem, p).mark)
        <5>1. Task(mem, p).mark \in Nat
          BY <1>0, <3>1, TaskIs DEF Plain
        <5>2. Id(p, 0, 1 + Task(mem, p).mark).mark = 1 + Task(mem, p).mark
          BY DEF Id
        <5> QED
          BY <5>1, <5>2
      <4> QED
        BY <3>2, <3>3, <4>1
    <3>5. mem'.analyses[p] = NoId
      BY <1>3, <2>2, <3>1
    <3>6. Askable(mem, TaskAgain(mem, p), paid) /\ Latest(mem, TaskAgain(mem, p))
      BY <1>0, <1>1, <3>1, <3>4, AgainAsks
    <3> QED
      BY <3>3, <3>5, <3>6
  <2>11. AskingOK'
    <3>1. \A a \in todo : Askable(mem', a, paid') /\ Latest(mem', a)
      BY <1>1, <1>4, <2>2, <2>10 DEF Askable, Latest
    <3>2. \A a, b \in todo : a.agent = b.agent => a = b
      BY <2>10
    <3>3. \A a \in todo : mem'.analyses[a.agent] = NoId
      BY <2>10
    <3> HIDE DEF todo
    <3> QED
      BY <1>7, <2>1, <2>3, <2>8, <3>1, <3>2, <3>3 DEF AskingOK
  <2>12. CommandInv'
    BY <1>0, <1>2, <1>7, <2>2, <2>11 DEF CommandInv, Asking, Making, Judging
  <2> QED
    BY <2>6, <2>7, <2>12 DEF Onward
<1> QED
  BY <1>0, <1>5, <1>6, <1>7, RecoverPrimariesIs DEF t

LEMMA RecoverCheckpointsStep ==
  ASSUME IInv, [Next]_vars, RecoverCheckpoints
  PROVE  Onward
<1> DEFINE n == FirstMissing(mem)
<1>0. /\ mem \in State /\ disk \in State /\ run \in Run /\ CommandInv /\ pc = "checkpoints"
      /\ AllClosed(mem) /\ mem.status # "WAITING_UPSTREAM_REVISION"
      /\ reviews' = reviews
  BY Here DEF RecoverCheckpoints, CommandInv, calls
<1>1. /\ n \in 1 .. 5
      /\ n > 3 => mem.final # NoId
      /\ n > 4 => mem.review # NoId /\ ~GivenUp(mem, "review")
  BY <1>0, FirstMissingIs
<1>2. \/ /\ n \in 1 .. 4 /\ mem' = Cleared(mem, n) /\ disk' = mem' /\ pc' = "initial"
         /\ run' = [run EXCEPT !.first = n, !.reuse = n < 4 \/ ~run.again]
      \/ /\ n = 5 /\ run' = [run EXCEPT !.then = "decide"] /\ pc' = "decide"
         /\ UNCHANGED <<disk, mem>>
  BY <1>0, RecoverCheckpointsIs
<1> HIDE DEF n
<1>3. CASE /\ n \in 1 .. 4 /\ mem' = Cleared(mem, n) /\ disk' = mem' /\ pc' = "initial"
           /\ run' = [run EXCEPT !.first = n, !.reuse = n < 4 \/ ~run.again]
  <2>1. /\ mem' \in State
        /\ mem'.final = IF n <= 3 THEN NoId ELSE mem.final
        /\ mem'.review = NoId
        /\ mem'.result = IF n = 4 THEN <<mem.result[1], NoId>> ELSE mem.result
        /\ \A f \in {"analyses", "at", "asked", "count", "history", "phase", "active",
                     "faults", "primaryError", "reviewError", "status", "plan",
                     "failed", "report"} :
             mem'[f] = mem[f]
    BY <1>0, <1>3, ClearedIs
  <2>2. /\ mem'.analyses = mem.analyses /\ mem'.count = mem.count
        /\ mem'.at = mem.at /\ mem'.phase = mem.phase /\ mem'.history = mem.history
        /\ mem'.active = mem.active /\ mem'.asked = mem.asked /\ mem'.status = mem.status
        /\ mem'.faults = mem.faults /\ mem'.primaryError = mem.primaryError
        /\ mem'.reviewError = mem.reviewError /\ mem'.plan = mem.plan
    BY <2>1
  <2>3. AllClosed(mem')
    BY <1>0, <2>2, OpenAlike
  <2>4. AskedOK(mem', paid') /\ CountOK(mem') /\ ErrorsOK(mem', paid')
    <3>1. AskedOK(mem, paid') /\ CountOK(mem) /\ ErrorsOK(mem, paid')
      BY Here
    <3> QED
      BY <2>2, <3>1, AskedAlike, ErrorsAlike DEF CountOK
  <2>5. ResultOK(mem', reviews')
    <3>1. ResultOK(mem, reviews')
      BY Here
    <3>2. CASE n = 4
      BY <2>1, <3>2 DEF ResultOK
    <3>3. CASE n <= 3
      BY <1>3, <2>1, <3>1, <3>3 DEF ResultOK
    <3> QED
      BY <1>3, <3>2, <3>3
  <2>6. Good(mem', paid', reviews', results')
    BY <1>0, <2>1, <2>2, <2>3, <2>4, <2>5, GoodBy DEF Synced
  <2>7. PlanOK(mem', reviews', adopted', results')
    BY <1>0, <2>2, BothStay, PlanAlike
  <2>8. run'.first = n
    BY <1>0, <1>3 DEF Run
  <2>9. n > 3 => mem'.final # NoId /\ mem'.result[2] = NoId
    BY <1>1, <1>3, <2>1
  <2>10. CommandInv'
    BY <1>0, <1>3, <2>1, <2>2, <2>3, <2>8, <2>9 DEF CommandInv, Asking, Making, Judging, Rework
  <2> QED
    BY <2>6, <2>7, <2>10 DEF Onward
<1>4. CASE /\ n = 5 /\ run' = [run EXCEPT !.then = "decide"] /\ pc' = "decide"
           /\ UNCHANGED <<disk, mem>>
  <2>1. mem.final # NoId /\ mem.review # NoId /\ ~GivenUp(mem, "review")
    BY <1>1, <1>4
  <2>2. Fair(mem, reviews)
    BY <1>0, <2>1, Here DEF Synced
  <2>3. ASSUME mem.phase = "executing", mem.active.route = "conclusion"
        PROVE  AllClosed(disk)
    <3> SUFFICES ASSUME NEW p \in Primary, Open(disk, p) PROVE FALSE
      BY DEF AllClosed
    <3>1. /\ mem.at = disk.at /\ mem.history = disk.history /\ disk.active = mem.active
      BY <1>0, <2>3 DEF CommandInv
    <3>2. OpenOK(disk, reviews, results)
      BY DEF IInv, StatesInv, Good
    <3>3. GivenUp(disk, "review")
      BY <2>3, <3>1, <3>2 DEF OpenOK, Reworked
    <3> QED
      BY <2>1, <3>1, <3>3 DEF GivenUp
  <2>4. CommandInv'
    BY <1>0, <1>4, <2>1, <2>2, <2>3 DEF CommandInv, Asking, Making, Judging
  <2> QED
    BY <1>0, <1>4, <2>4, StayStep
<1> QED
  BY <1>2, <1>3, <1>4

LEMMA RecoveryStep ==
  ASSUME IInv, [Next]_vars, Recovery
  PROVE  Onward
BY RecoverStep, NoRecoverStep, RecoverBeginsStep, RecoverPrimariesStep,
   RecoverCheckpointsStep DEF Recovery

-----------------------------------------------------------------------------
(* The steps around a command, and every step.                               *)

\* The command and its state wait while a result of the Researcher is filed.
LEMMA QuietStep ==
  ASSUME IInv, [Next]_vars, UNCHANGED <<disk, mem, pc, run, paid, reviews>>,
         \A x \in results' \ results : x.request.route = "upstream"
  PROVE  Onward
<1>1. CommandInv
  BY DEF IInv
<1>2. ASSUME mem.active.route = "conclusion", \A x \in results : x.request # mem.active
      PROVE  \A x \in results' : x.request # mem.active
  BY <1>2
<1>3. Reworked(mem, reviews, results) => Reworked(mem, reviews, results')
  BY <1>2 DEF Reworked, Busy
<1>4. AskingOK => AskingOK'
  BY <1>3 DEF AskingOK
<1>5. RecordOK => RecordOK'
  BY DEF RecordOK
<1>6. AuthorizedOK => AuthorizedOK'
  BY <1>2 DEF AuthorizedOK
<1>7. Brought => Brought'
  BY DEF Brought
<1>8. CommandInv'
  BY <1>1, <1>4, <1>5, <1>6, <1>7 DEF CommandInv
<1> QED
  BY <1>8, BothStay DEF Onward

LEMMA AroundStep ==
  ASSUME IInv, [Next]_vars, Around \/ UNCHANGED vars
  PROVE  Onward
<1>1. CASE Crash
  <2>1. Left
    BY <1>1 DEF Crash, Leave, End, Left
  <2> QED
    BY <2>1, BothStay, EndStep
<1>2. CASE ResearcherReplies \/ ConclusionAsks \/ UNCHANGED vars
  <2>1. UNCHANGED <<disk, mem, pc, run, paid, reviews, results>>
    BY <1>2 DEF ResearcherReplies, ConclusionAsks, vars, calls, exchange
  <2> QED
    BY <2>1, QuietStep
<1>3. CASE ResearcherFiles
  <2>1. UNCHANGED <<disk, mem, pc, run, paid, reviews>>
    BY <1>3 DEF ResearcherFiles, calls
  <2>2. \A x \in results' \ results : x.request.route = "upstream"
    BY <1>3 DEF ResearcherFiles, Upstream
  <2> QED
    BY <2>1, <2>2, QuietStep
<1> QED
  BY <1>1, <1>2, <1>3 DEF Around

LEMMA EveryStep == IInv /\ [Next]_vars => Onward
BY LineStep, DecideStep, ResumeStep, RevisionStep, RecoveryStep, AroundStep DEF Next

\* Only a request for evidence leads to where it is saved, and nothing else is saved
\* on the way.
LEMMA WaitsUnsaved ==
  ASSUME [Next]_vars, pc' = "waiting"
  PROVE  disk' = disk
<1>1. CASE Line
  <2>1. \A on, stage, next : Integrate(stage, on, next) => pc' # "waiting" \/ next = "waiting"
    BY DEF Integrate, Goto, End, Fail, SaveAndEnd
  <2> QED
    BY <1>1, <2>1 DEF Line, Dispatch, Gather, Record, Collected, Initial, InitialMade,
         CounterArgument, CounterMade, Final, FinalMade, ReuseReview, AskReview, AnswerReview,
         Reviewed, Goto, End, Fail, Block, SaveAndEnd
<1>2. CASE Decide
  <2>1. \A s : Uncaught(s) => pc' = "idle"
    BY DEF Uncaught, Fail, SaveAndEnd, Leave, End
  <2>2. AskResearcher => disk' = disk
    BY <2>1 DEF AskResearcher
  <2>3. PlanInternal => pc' # "waiting"
    BY <2>1 DEF PlanInternal, Plan, Goto, End, Block, SaveAndEnd
  <2> QED
    BY <1>2, <2>1, <2>2, <2>3 DEF Decide, Deciding, Finalize, Approve, Send, SendFails, Sent,
         BlockedByReview, AskedAlready, Waiting, SavePlan, Stop, Goto, End, Fail, Block, Leave,
         SaveAndEnd
<1>3. CASE Resume
  <2>1. \A s : Uncaught(s) => pc' = "idle"
    BY DEF Uncaught, Fail, SaveAndEnd, Leave, End
  <2> QED
    BY <1>3, <2>1 DEF Resume, Plan, Goto, End, Leave
<1>4. CASE Revision
  <2>1. Adopt \/ Revise \/ Adopted \/ Stale \/ Execute => pc' # "waiting"
    BY DEF Adopt, Revise, Adopted, Stale, Execute, Goto, End, Leave
  <2>2. Authorize => pc' # "waiting"
    BY DEF Authorize, Goto
  <2>3. Exhausted => pc' # "waiting"
    BY DEF Exhausted, Block, SaveAndEnd, Leave, End
  <2>4. Begin => pc' # "waiting"
    BY DEF Begin, Goto, Leave, End
  <2> QED
    BY <1>4, <2>1, <2>2, <2>3, <2>4 DEF Revision
<1>5. CASE Recovery
  BY <1>5 DEF Recovery, ProviderRetry, Grant, Recover, NotRecoverable, NeedsRetry,
       RecoverBegins, RecoverPrimaries, TooFew, RecoverCheckpoints, Goto, End, Fail, Block,
       Leave, SaveAndEnd
<1>6. CASE Around \/ UNCHANGED vars
  BY <1>6 DEF Around, Crash, ResearcherReplies, ResearcherFiles, ConclusionAsks, vars, Leave
<1> QED
  BY <1>1, <1>2, <1>3, <1>4, <1>5, <1>6 DEF Next

LEMMA StatesStep == IInv /\ [Next]_vars => StatesInv'
<1> SUFFICES ASSUME IInv, [Next]_vars PROVE StatesInv'
  OBVIOUS
<1>1. /\ Good(mem', paid', reviews', results')
      /\ pc' # "waiting" => PlanOK(mem', reviews', adopted', results')
  BY EveryStep DEF Onward
<1>2. Good(disk, paid', reviews', results') /\ PlanOK(disk, reviews', adopted', results')
  BY BothStay
<1>3. CASE disk' = disk
  BY <1>1, <1>2, <1>3 DEF StatesInv
<1>4. CASE disk' = mem' /\ disk' # disk
  <2>1. pc' # "waiting"
    BY <1>4, WaitsUnsaved
  <2> QED
    BY <1>1, <1>4, <2>1 DEF StatesInv
<1> QED
  BY <1>3, <1>4, DiskIs

LEMMA InvStep == IInv /\ [Next]_vars => IInv'
<1> SUFFICES ASSUME IInv, [Next]_vars PROVE IInv'
  OBVIOUS
<1>1. CommandInv'
  BY EveryStep DEF Onward
<1> QED
  BY <1>1, TypeStep, StatesStep, PaidStep, FilesStep DEF IInv

-----------------------------------------------------------------------------
(* What holds of every behaviour.                                            *)

\* The inductive invariant.
THEOREM Invariant == Spec => []IInv
<1> QED
  BY InvInit, InvStep, PTL DEF Spec

\* Every record of the Manager is of its kind (manager.py, deliberation/models).
THEOREM TypeCorrect == Spec => []TypeInv
<1>1. IInv => TypeInv
  BY DEF IInv
<1> QED
  BY <1>1, Invariant, PTL

\* What Conclusion gets was approved as it is (_finalize_approved).
THEOREM HandoffApproved == Spec => []HandoffWasApproved
<1>1. IInv => HandoffWasApproved
  BY DEF IInv, FilesInv
<1> QED
  BY <1>1, Invariant, PTL

\* An internal request is answered as completed with what was approved.
THEOREM TruthfulResults == Spec => []ResultsAreTruthful
<1>1. IInv => ResultsAreTruthful
  BY DEF IInv, FilesInv
<1> QED
  BY <1>1, Invariant, PTL

-----------------------------------------------------------------------------
(* What a step does to the analyses that are saved.                          *)

\* Two steps change them: an answer is recorded, or recovery drops what is replaced.
LEMMA AnalysesStay ==
  ASSUME mem \in State, disk \in State, run \in Run, [Next]_vars, ~Record, ~RecoverPrimaries
  PROVE  mem' = disk \/ mem'.analyses = mem.analyses
<1> DEFINE Stays == mem' = disk \/ mem'.analyses = mem.analyses
<1>0. "analyses" \in DOMAIN mem
  BY DEF State
<1>1. /\ \A s : Save(s) => mem' = s
      /\ \A s, how : SaveAndEnd(s, how) => mem' = s
      /\ \A s : Fail(s) => mem' = [s EXCEPT !.status = "FAILED"]
      /\ \A s : Block(s) => mem' = [s EXCEPT !.status = "BLOCKED"]
      /\ \A how : Leave(how) => mem' = disk
  BY DEF Save, SaveAndEnd, Fail, Block, Leave
<1>2. \A s : Uncaught(s) => mem' = disk \/ mem' = [s EXCEPT !.status = "FAILED"]
  BY <1>1 DEF Uncaught
<1>3. CASE Line
  <2>1. \A on, stage, next : Integrate(stage, on, next) => Stays
    BY <1>0, <1>1 DEF Integrate
  <2>2. Dispatch \/ Gather => Stays
    BY <1>0, <1>1 DEF Dispatch, Gather
  <2>7. Collected => Stays
    <3> DEFINE s == [mem EXCEPT !.status = IF run.failures = 0 THEN "RUNNING"
                                           ELSE "PARTIALLY_COMPLETED"]
    <3>1. "analyses" \in DOMAIN s /\ s.analyses = mem.analyses
      BY <1>0
    <3>2. Collected => Fail(s) \/ Block(s) \/ Save(s)
      BY Zenon DEF Collected
    <3> HIDE DEF s
    <3> QED
      BY <1>1, <3>1, <3>2
  <2>3. Initial \/ InitialMade \/ Final \/ FinalMade => Stays
    BY <1>0, <1>1, <2>1 DEF Initial, InitialMade, Final, FinalMade
  <2>4. CounterArgument \/ CounterMade => Stays
    BY <1>0, <1>1 DEF CounterArgument, CounterMade
  <2>5. ReuseReview \/ AskReview \/ Reviewed => Stays
    BY <1>0, <1>1 DEF ReuseReview, AskReview, Reviewed
  <2>6. AnswerReview => Stays
    BY <1>0, <1>1 DEF AnswerReview
  <2> QED
    BY <1>3, <2>2, <2>3, <2>4, <2>5, <2>6, <2>7 DEF Line
<1>4. \A s, t, next : "analyses" \in DOMAIN s /\ s.analyses = mem.analyses /\ Plan(s, t, next) =>
        Stays
  BY <1>2 DEF Plan, Planned
<1>5. \A awaiting : /\ "analyses" \in DOMAIN Pending(mem, awaiting)
                    /\ Pending(mem, awaiting).analyses = mem.analyses
  BY <1>0 DEF Pending
<1>6. CASE Decide
  <2>1. Finalize => Stays
    BY <1>0, <1>2 DEF Finalize
  <2>2. Approve \/ Send \/ SendFails \/ Sent \/ BlockedByReview \/ AskedAlready => Stays
    BY <1>0, <1>1 DEF Approve, Send, SendFails, Sent, BlockedByReview, AskedAlready
  <2>3. AskResearcher => Stays
    BY <1>2, <1>5 DEF AskResearcher
  <2>4. Waiting \/ SavePlan \/ Stop => Stays
    BY <1>0, <1>1 DEF Waiting, SavePlan, Stop
  <2>5. PlanInternal => Stays
    <3>1. PlanInternal => \/ Block(mem)
                          \/ Plan(Pending(mem, FALSE), Review(mem).targets, "planned")
      BY Zenon DEF PlanInternal
    <3>2. Block(mem) => Stays
      BY <1>0, <1>1
    <3>3. ASSUME NEW s, s = Pending(mem, FALSE), Plan(s, Review(mem).targets, "planned")
          PROVE  Stays
      <4>1. "analyses" \in DOMAIN s /\ s.analyses = mem.analyses
        BY <1>5, <3>3
      <4> HIDE DEF Stays
      <4> QED
        BY <1>4, <3>3, <4>1
    <3> HIDE DEF Stays
    <3> QED
      BY <3>1, <3>2, <3>3
  <2> QED
    BY <1>6, <2>1, <2>2, <2>3, <2>4, <2>5 DEF Decide
<1>7. CASE Resume
  BY <1>0, <1>1, <1>4, <1>7 DEF Resume
<1>8. CASE Revision
  <2>1. Revise \/ Adopt \/ Adopted \/ Stale \/ Execute => Stays
    BY <1>0, <1>1 DEF Revise, Adopt, Adopted, Stale, Execute
  <2>2. Authorize => Stays
    BY <1>0 DEF Authorize
  <2>3. \A s, ts : "analyses" \in DOMAIN s =>
          /\ "analyses" \in DOMAIN History(s, ts)
          /\ History(s, ts).analyses = s.analyses
    BY DEF History
  <2>4. Exhausted => Stays
    BY <1>0, <1>1, <2>3 DEF Exhausted
  <2>5. Begin => Stays
    <3> DEFINE s == IF ~(mem.active.route = "internal" /\ mem.review = NoId) THEN mem
                    ELSE [mem EXCEPT !.review = mem.active.review,
                                     !.plan = mem.active.review, !.awaiting = FALSE,
                                     !.planned = (CHOOSE v \in reviews :
                                                    v.id = mem.active.review).targets]
    <3>1. "analyses" \in DOMAIN s /\ s.analyses = mem.analyses
      BY <1>0
    <3>2. Begin => Leave("raised") \/ Save(History(s, mem.active.targets))
      BY Zenon DEF Begin
    <3> HIDE DEF s
    <3> QED
      BY <1>1, <2>3, <3>1, <3>2
  <2> QED
    BY <1>8, <2>1, <2>2, <2>4, <2>5 DEF Revision
<1>9. CASE Recovery
  <2>1. ProviderRetry \/ Recover \/ NotRecoverable \/ NeedsRetry \/ TooFew => Stays
    BY <1>0, <1>1 DEF ProviderRetry, Grant, Recover, NotRecoverable, NeedsRetry, TooFew
  <2>2. RecoverBegins => Stays
    BY <1>0, <1>1 DEF RecoverBegins, Closed
  <2>3. RecoverCheckpoints => Stays
    <3>1. \A n \in 1 .. 4 : Cleared(mem, n).analyses = mem.analyses
      BY ClearedIs
    <3> QED
      BY <3>1, RecoverCheckpointsIs
  <2> QED
    BY <1>9, <2>1, <2>2, <2>3 DEF Recovery
<1>10. CASE Around \/ UNCHANGED vars
  BY <1>10 DEF Around, Crash, ResearcherReplies, ResearcherFiles, ConclusionAsks, vars, Leave
<1> QED
  BY <1>3, <1>6, <1>7, <1>8, <1>9, <1>10 DEF Next

\* What recording replaces is named by the revision.
LEMMA RecordReplaces ==
  ASSUME IInv, Record, NEW p \in Primary, mem.analyses[p] \notin {NoId, mem'.analyses[p]}
  PROVE  mem.phase = "executing" /\ p \in mem.active.targets
<1>0. mem \in State /\ run \in Run /\ CommandInv /\ pc = "record"
  BY KnownIs DEF IInv, Record
<1>1. AskingOK /\ RecordOK
  BY <1>0 DEF CommandInv, Asking
<1>2. PICK x \in run.got :
        /\ x[1] \in Plain /\ x[1].agent \in Primary /\ x[2] \in Kind
        /\ mem' = Recorded(mem, x[1], x[2])
  BY <1>0, RecordIs
<1> DEFINE id == x[1]
           q == id.agent
           good == x[2] = "result"
<1>3. /\ mem' \in State
      /\ good => /\ mem'.analyses = [mem.analyses EXCEPT ![q] = id]
                 /\ mem'.at = [mem.at EXCEPT ![q] = mem.count]
      /\ ~good => mem'.analyses = mem.analyses /\ mem'.at = mem.at
      /\ mem'.primaryError \in {mem.primaryError, id}
      /\ \A f \in Kept \ {"analyses", "at"} : mem'[f] = mem[f]
      /\ \A f \in {"faults", "reviewError", "status", "plan"} : mem'[f] = mem[f]
  BY <1>0, <1>2, RecordedIs
<1>4. p = x[1].agent
  <2>1. mem.analyses \in [Primary -> Plain]
    BY <1>0 DEF State
  <2> QED
    BY <1>2, <1>3, <2>1
<1>5. x[1] \in run.todo /\ run.then = "revise"
  BY <1>1, <1>2, <1>4 DEF RecordOK
<1> QED
  BY <1>1, <1>4, <1>5 DEF AskingOK, Reworked, Busy

\* So is what recovery drops.
LEMMA RecoveryReplaces ==
  ASSUME IInv, [Next]_vars, RecoverPrimaries, NEW p \in Primary,
         mem.analyses[p] \notin {NoId, mem'.analyses[p]}
  PROVE  mem.phase = "executing" /\ p \in mem.active.targets
<1>0. mem \in State /\ pc = "primaries" /\ OpenOK(mem, reviews, results)
  BY KnownIs DEF RecoverPrimaries, IInv, StatesInv, Good
<1>1. Closing(mem) \in State
  BY <1>0, ClosingIs
<1>2. mem'.analyses = Closing(mem).analyses
  <2>1. Cleared(Closing(mem), 1).analyses = Closing(mem).analyses
    BY <1>1, ClearedIs
  <2>2. Ended(Closing(mem)) => mem'.analyses = Closing(mem).analyses
    BY SameIs DEF Ended
  <2> QED
    BY <1>0, <2>1, <2>2, RecoverPrimariesIs
<1>3. Open(mem, p)
  BY <1>0, <1>2, ClosingStep
<1> QED
  BY <1>0, <1>3 DEF OpenOK, Reworked, Busy

\* A step that saves gives an analysis up only in a revision that names its analyst.
LEMMA KeptStep ==
  ASSUME IInv, [Next]_vars, NEW p \in Primary, disk.analyses[p] \notin {NoId, disk'.analyses[p]}
  PROVE  disk.phase = "executing" /\ p \in disk.active.targets
<1>0. mem \in State /\ disk \in State /\ run \in Run /\ CommandInv /\ disk' = mem' /\ mem' # disk
  BY KnownIs, DiskIs DEF IInv
<1>1. CASE disk.analyses[p] # mem.analyses[p]
  BY <1>0, <1>1 DEF CommandInv
<1>2. CASE disk.analyses[p] = mem.analyses[p]
  <2>1. mem.analyses[p] \notin {NoId, mem'.analyses[p]}
    BY <1>0, <1>2
  <2>2. mem.phase = "executing" /\ p \in mem.active.targets /\ pc # "executing"
    <3>1. Record \/ RecoverPrimaries
      BY <1>0, <2>1, AnalysesStay
    <3>2. pc # "executing"
      BY <3>1 DEF Record, RecoverPrimaries
    <3> QED
      BY <2>1, <3>1, <3>2, RecordReplaces, RecoveryReplaces
  <2> QED
    BY <1>0, <2>2 DEF CommandInv
<1> QED
  BY <1>1, <1>2

\* No recovery or retry pays for a saved analysis twice: one is given up only while a
\* revision is under way that names its analyst.
THEOREM KeptAnalyses == Spec => AnalysesAreKept
<1>1. IInv /\ [Next]_vars =>
        [ \A p \in Primary :
            disk.analyses[p] \notin {NoId, disk'.analyses[p]} =>
              disk.phase = "executing" /\ p \in disk.active.targets ]_vars
  BY KeptStep
<1> QED
  BY <1>1, Invariant, PTL DEF Spec, AnalysesAreKept

-----------------------------------------------------------------------------
(* The second invariant: what was made from what.                            *)

\* Nothing was made under the name of nobody.
LEMMA NobodyMade ==
  ASSUME IInv, MadeInv
  PROVE  NoId \notin paid /\ \A on : MadeOn(NoId, on, made)
BY DEF IInv, PaidInv, MadeInv, MadeOn, NoId, Id

\* One artifact is made at a time, by a call that was not paid before.
LEMMA MadeGrows ==
  ASSUME IInv, [Next]_vars
  PROVE  \/ made' = made
         \/ \E m : made' = made \union {m} /\ m.id \notin paid /\ m.id \in paid'
<1>1. CASE Initial \/ Final
  <2>1. PICK stage, on, next :
          stage \in {"initial", "final"} /\ (Integrate(stage, on, next) \/ made' = made)
    BY <1>1 DEF Initial, Final, calls
  <2>2. CASE Integrate(stage, on, next)
    <3>1. \E id \in Plain :
            /\ id.agent = stage /\ id \in paid'
            /\ \/ /\ id \notin paid
                  /\ made' = made \union {[id |-> id, on |-> on, report |-> mem.report]}
                  /\ run' = [run EXCEPT !.id = id] /\ pc' = next
                  /\ UNCHANGED <<disk, mem>>
               \/ /\ disk' = mem' /\ pc' = "idle" /\ run' = NoRun /\ UNCHANGED made
                  /\ mem'.status = "FAILED"
                  /\ ErrorsOK(mem', paid')
                  /\ \A f \in Kept : mem'[f] = mem[f]
                  /\ mem'.plan = mem.plan
      BY <2>1, <2>2, IntegrateIs, KnownIs
    <3> QED
      BY <3>1
  <2> QED
    BY <2>1, <2>2
<1>2. CASE CounterArgument
  <2> DEFINE m == [id |-> CounterId(mem), on |-> {mem.initial}, report |-> mem.report]
  <2>1. \/ UNCHANGED made
        \/ /\ CounterId(mem) \notin paid /\ paid' = paid \union {CounterId(mem)}
           /\ made' = made \union {m}
    BY <1>2, CounterArgumentIs, KnownIs
  <2>2. m.id = CounterId(mem)
    OBVIOUS
  <2> HIDE DEF m
  <2> QED
    BY <2>1, <2>2
<1> QED
  BY <1>1, <1>2, CallersAre DEF Gather, AnswerReview, ProviderRetry

\* What is written elsewhere in the state leaves the answers heard.
LEMMA HeardKept ==
  ASSUME NEW s \in State
  PROVE  /\ \A n : Cleared(s, n).heard = s.heard
         /\ \A ts : History(s, ts).heard = s.heard
         /\ Closed(s).heard = s.heard
         /\ Closing(s).heard = s.heard
         /\ \A id, k : Recorded(s, id, k).heard = s.heard
         /\ \A aw : Pending(s, aw).heard = s.heard
         /\ \A r : Planned(s, r).heard = s.heard
         /\ \A x : [s EXCEPT !.status = x].heard = s.heard
         /\ \A i, r : ResumedAs(s, i, r).heard = s.heard
<1>1. \A n : Cleared(s, n).heard = s.heard
  BY DEF Cleared, State
<1>2. \A ts : History(s, ts).heard = s.heard
  BY DEF History, State
<1>3. Closed(s).heard = s.heard
  BY DEF Closed, State
<1>4. Closing(s).heard = s.heard
  BY DEF Closing, State
<1>5. \A id, k : Recorded(s, id, k).heard = s.heard
  BY DEF Recorded, State
<1>6. \A aw : Pending(s, aw).heard = s.heard
  BY DEF Pending, State
<1>7. \A r : Planned(s, r).heard = s.heard
  BY DEF Planned, State
<1>8. \A x : [s EXCEPT !.status = x].heard = s.heard
  BY DEF State
<1>9. \A i, r : ResumedAs(s, i, r).heard = s.heard
  BY DEF ResumedAs, State
<1> QED
  BY <1>1, <1>2, <1>3, <1>4, <1>5, <1>6, <1>7, <1>8, <1>9

\* A way back or an end leaves them too.
LEMMA HeardEnds ==
  ASSUME NEW s \in State
  PROVE  /\ Fail(s) \/ Block(s) => mem'.heard = s.heard
         /\ \A how : Leave(how) => mem' = disk
         /\ Uncaught(s) => mem'.heard = s.heard \/ mem' = disk
<1>1. Fail(s) => mem' = [s EXCEPT !.status = "FAILED"]
  BY DEF Fail, SaveAndEnd, Save
<1>2. Block(s) => mem' = [s EXCEPT !.status = "BLOCKED"]
  BY DEF Block, SaveAndEnd, Save
<1>3. \A how : Leave(how) => mem' = disk
  BY DEF Leave
<1>4. Uncaught(s) => Fail(s) \/ Leave("raised")
  BY DEF Uncaught
<1>5. /\ [s EXCEPT !.status = "FAILED"].heard = s.heard
      /\ [s EXCEPT !.status = "BLOCKED"].heard = s.heard
  BY HeardKept
<1> QED
  BY <1>1, <1>2, <1>3, <1>4, <1>5

\* The answers that are heard were paid for.
LEMMA HeardStep ==
  ASSUME IInv, [Next]_vars
  PROVE  mem'.heard \subseteq mem.heard \union disk.heard \union paid'
<1> DEFINE H == mem'.heard \subseteq mem.heard \union disk.heard \union paid'
<1>0. mem \in State /\ disk \in State /\ run \in Run /\ CommandInv /\ paid \subseteq TaskId
  BY KnownIs DEF IInv
<1>e. \A s \in State : s.heard = mem.heard =>
        /\ Fail(s) \/ Block(s) \/ Uncaught(s) => H
        /\ mem' = s => H
  BY HeardEnds
<1>l. \A how : Leave(how) => H
  BY DEF Leave
<1>m. mem' = mem => H
  OBVIOUS
<1>g. [mem EXCEPT !.status = "PARTIALLY_COMPLETED"] \in State /\ [mem EXCEPT !.status = "RUNNING"] \in State
      /\ [mem EXCEPT !.status = "PARTIALLY_COMPLETED"].heard = mem.heard
      /\ [mem EXCEPT !.status = "RUNNING"].heard = mem.heard
  <2>1. "PARTIALLY_COMPLETED" \in Status /\ "RUNNING" \in Status
    BY DEF Status
  <2>2. \A x \in Status : [mem EXCEPT !.status = x] \in State
    BY <1>0, StatusIs
  <2> QED
    BY <1>0, <2>1, <2>2, HeardKept
<1>1. CASE Line
  <2>1. CASE Dispatch
    BY <2>1, <1>0 DEF Dispatch, Save, State
  <2>2. CASE Gather \/ ReuseReview
    BY <2>2 DEF Gather, ReuseReview
  <2>3. CASE Record
    <3>1. \E x : mem' = Recorded(mem, x[1], x[2])
      BY <2>3, <1>0, RecordIs
    <3> QED
      BY <3>1, <1>0, HeardKept
  <2>4. CASE Collected
    <3>1. PICK s \in {[mem EXCEPT !.status = "PARTIALLY_COMPLETED"], [mem EXCEPT !.status = "RUNNING"]} :
            Fail(s) \/ Block(s) \/ Save(s)
      BY <2>4 DEF Collected
    <3> QED
      BY <3>1, <1>e, <1>g DEF Save
  <2>5. CASE Initial \/ Final
    <3>1. \A stage, on, next : Integrate(stage, on, next) => H
      <4> SUFFICES ASSUME NEW stage, NEW on, NEW next, Integrate(stage, on, next) PROVE H
        OBVIOUS
      <4>1. PICK k : mem' = mem \/ Fail([mem EXCEPT !.faults = IF k = "retryable"
                                         THEN Append(@, ManagerId(mem, stage)) ELSE @])
        BY DEF Integrate
      <4>2. CASE mem' # mem
        BY <4>1, <4>2, <1>0 DEF Fail, SaveAndEnd, Save, State
      <4> QED
        BY <4>2
    <3>2. mem' = mem \/ mem' = [mem EXCEPT !.result = IF @[1] = NoId THEN <<mem.final, NoId>> ELSE @]
          \/ \E stage, on, next : Integrate(stage, on, next)
      BY <2>5 DEF Initial, Final, Save
    <3> QED
      BY <3>1, <3>2, <1>0 DEF State
  <2>6. CASE InitialMade \/ CounterMade \/ FinalMade \/ Reviewed
    BY <2>6, <1>0 DEF InitialMade, CounterMade, FinalMade, Reviewed, Save, State
  <2>7. CASE CounterArgument
    <3>1. \/ mem' = mem
          \/ /\ paid' = paid \union {CounterId(mem)}
             /\ mem' = [mem EXCEPT !.heard = @ \union {CounterId(mem)}] \/ Fail(mem)
      BY <2>7 DEF CounterArgument, Save
    <3>2. [mem EXCEPT !.heard = @ \union {CounterId(mem)}].heard = mem.heard \union {CounterId(mem)}
      BY <1>0 DEF State
    <3> QED
      BY <3>1, <3>2, <1>0, <1>e
  <2>8. CASE AskReview
    BY <2>8, <1>0 DEF AskReview, Save, State
  <2>9. CASE AnswerReview
    <3>1. /\ paid' = paid \union {run.id}
          /\ \E k : \/ mem' = [mem EXCEPT !.heard = @ \union {run.id}]
                    \/ mem' = [[mem EXCEPT !.reviewError = IF k = "retryable" THEN run.id ELSE @]
                                 EXCEPT !.status = "FAILED"]
      BY <2>9 DEF AnswerReview, Save, Fail, SaveAndEnd
    <3>2. [mem EXCEPT !.heard = @ \union {run.id}].heard = mem.heard \union {run.id}
      BY <1>0 DEF State
    <3>3. \A x : [[mem EXCEPT !.reviewError = x] EXCEPT !.status = "FAILED"].heard = mem.heard
      BY <1>0 DEF State
    <3>4. PICK k : \/ mem' = [mem EXCEPT !.heard = @ \union {run.id}]
                   \/ mem' = [[mem EXCEPT !.reviewError = IF k = "retryable" THEN run.id ELSE @]
                                EXCEPT !.status = "FAILED"]
      BY <3>1
    <3>5. \E x : [mem EXCEPT !.reviewError = IF k = "retryable" THEN run.id ELSE @]
                   = [mem EXCEPT !.reviewError = x]
      OBVIOUS
    <3> QED
      BY <3>1, <3>2, <3>3, <3>4, <3>5
  <2> QED
    BY <1>1, <2>1, <2>2, <2>3, <2>4, <2>5, <2>6, <2>7, <2>8, <2>9 DEF Line
<1>2. CASE Decide
  <2>p. \A aw \in BOOLEAN : Pending(mem, aw).heard = mem.heard
    BY <1>0, HeardKept
  <2>1. CASE Finalize
    <3> DEFINE s == [mem EXCEPT !.result = IF Review(mem).verdict = "approved"
                                           THEN <<mem.final, mem.review>> ELSE @]
    <3>1. \/ Uncaught(mem)
          \/ mem' = [s EXCEPT !.phase = "completed", !.consumed = @ \union {mem.active},
                              !.plan = NoId, !.planned = {}, !.awaiting = FALSE]
      BY <2>1 DEF Finalize
    <3>2. s.heard = mem.heard /\ DOMAIN s = DOMAIN mem
      BY <1>0 DEF State
    <3> HIDE DEF s
    <3>3. [s EXCEPT !.phase = "completed", !.consumed = @ \union {mem.active},
                    !.plan = NoId, !.planned = {}, !.awaiting = FALSE].heard = mem.heard
      BY <3>2, <1>0 DEF State
    <3> QED
      BY <3>1, <3>3, <1>0, <1>e
  <2>2. CASE Approve \/ Sent \/ Waiting \/ SavePlan \/ Stop \/ SendFails \/ BlockedByReview
    <3>1. CASE Approve \/ Waiting \/ SavePlan \/ Sent
      BY <3>1, <1>0 DEF Approve, Waiting, SavePlan, Sent, SaveAndEnd, Save, State
    <3>2. CASE Stop \/ SendFails \/ BlockedByReview
      <4>1. Fail(mem) \/ Block(mem) \/ mem' = [mem EXCEPT !.awaiting = FALSE]
        BY <3>2 DEF Stop, SendFails, BlockedByReview, Save
      <4> QED
        BY <4>1, <1>0, <1>e DEF State
    <3> QED
      BY <2>2, <3>1, <3>2
  <2>3. CASE Send \/ AskedAlready
    BY <2>3, <1>l DEF Send, AskedAlready
  <2>4. CASE AskResearcher
    <3>1. \/ mem' = [Pending(mem, TRUE) EXCEPT !.active = EvidenceRequest(mem)]
          \/ mem' = [Pending(mem, TRUE) EXCEPT !.status = "FAILED"]
          \/ Leave("raised")
      BY <2>4 DEF AskResearcher, Uncaught, Fail, SaveAndEnd, Save
    <3> QED
      BY <3>1, <2>p, <1>0, <1>l DEF Pending, State
  <2>5. CASE PlanInternal
    <3>1. \/ Block(mem) \/ Leave("raised")
          \/ \E r : mem' = Planned(Pending(mem, FALSE), r)
          \/ mem' = [Pending(mem, FALSE) EXCEPT !.status = "FAILED"]
      BY <2>5 DEF PlanInternal, Plan, Uncaught, Fail, SaveAndEnd, Save
    <3> QED
      BY <3>1, <2>p, <1>0, <1>l, <1>e DEF Pending, Planned, State
  <2> QED
    BY <1>2, <2>1, <2>2, <2>3, <2>4, <2>5 DEF Decide
<1>3. CASE Resume
  <2>1. \/ \E how : Leave(how)
        \/ \E r : mem' = Planned(ResumedAs(mem, inbox.number, mem.active), r)
        \/ mem' = [ResumedAs(mem, inbox.number, mem.active) EXCEPT !.status = "FAILED"]
    BY <1>3 DEF Resume, Plan, Uncaught, Fail, SaveAndEnd, Save, ResumedAs
  <2> QED
    BY <2>1, <1>0, <1>l DEF ResumedAs, Planned, State
<1>4. CASE Revision
  <2>1. CASE Revise \/ Adopted \/ Stale \/ Execute
    BY <2>1, <1>l DEF Revise, Adopted, Stale, Execute, Save
  <2>2. CASE Adopt \/ Authorize
    BY <2>2, <1>0, <1>l DEF Adopt, Authorize, State
  <2>3. CASE Exhausted
    <3>1. \/ Leave("raised")
          \/ \E n, ts : mem' = [[History([mem EXCEPT !.count = n], ts) EXCEPT !.phase = "blocked"]
                                   EXCEPT !.status = "BLOCKED"]
      BY <2>3 DEF Exhausted, Block, SaveAndEnd, Save
    <3> QED
      BY <3>1, <1>0, <1>l DEF History, State
  <2>4. CASE Begin
    <3> DEFINE u == [mem EXCEPT !.review = mem.active.review, !.plan = mem.active.review,
                                !.awaiting = FALSE,
                                !.planned = (CHOOSE v \in reviews : v.id = mem.active.review).targets]
    <3>1. \/ Leave("raised")
          \/ mem' = History(mem, mem.active.targets)
          \/ mem' = History(u, mem.active.targets)
      BY <2>4 DEF Begin, Save
    <3>2. u.heard = mem.heard /\ "history" \in DOMAIN u /\ DOMAIN u = DOMAIN mem
      BY <1>0 DEF State
    <3> HIDE DEF u
    <3>3. History(u, mem.active.targets).heard = mem.heard
      BY <3>2, <1>0 DEF History, State
    <3> QED
      BY <3>1, <3>3, <1>0, <1>l, HeardKept
  <2> QED
    BY <1>4, <2>1, <2>2, <2>3, <2>4 DEF Revision
<1>5. CASE Recovery
  <2>1. CASE ProviderRetry \/ Recover \/ NotRecoverable \/ NeedsRetry \/ TooFew
    BY <2>1, <1>0, <1>l, <1>e
    DEF ProviderRetry, Grant, Recover, NotRecoverable, NeedsRetry, TooFew
  <2>2. CASE RecoverBegins
    <3>1. mem' = [Closed(mem) EXCEPT !.status = "RUNNING"]
      BY <2>2 DEF RecoverBegins, Save
    <3> QED
      BY <3>1, <1>0 DEF Closed, State
  <2>3. CASE RecoverPrimaries
    <3>1. \/ mem' = [Closing(mem) EXCEPT !.status = "FAILED"]
          \/ mem' = Cleared(Closing(mem), 1)
          \/ mem' = Closing(mem)
      BY <2>3 DEF RecoverPrimaries, Fail, SaveAndEnd, Save, Closing
    <3> QED
      BY <3>1, <1>0 DEF Closing, Cleared, State
  <2>4. CASE RecoverCheckpoints
    <3>1. mem' = mem \/ \E n : mem' = Cleared(mem, n)
      BY <2>4 DEF RecoverCheckpoints, Save
    <3> QED
      BY <3>1, <1>0, HeardKept
  <2> QED
    BY <1>5, <2>1, <2>2, <2>3, <2>4 DEF Recovery
<1>6. CASE Around \/ UNCHANGED vars
  BY <1>6, <1>l DEF Around, Crash, ResearcherReplies, ResearcherFiles, ConclusionAsks, vars
<1> QED
  BY <1>1, <1>2, <1>3, <1>4, <1>5, <1>6 DEF Next

\* What is written elsewhere leaves the artifacts that are named, or clears them.
LEMMA NamedKept ==
  ASSUME NEW s \in State
  PROVE  /\ \A n : Named(Cleared(s, n)) \subseteq Named(s) \union {NoId}
         /\ \A ts : Named(History(s, ts)) = Named(s)
         /\ Named(Closed(s)) = Named(s)
         /\ Named(Closing(s)) = Named(s)
         /\ \A id, k : Named(Recorded(s, id, k)) = Named(s)
         /\ \A aw : Named(Pending(s, aw)) = Named(s)
         /\ \A r : Named(Planned(s, r)) = Named(s)
         /\ \A x : Named([s EXCEPT !.status = x]) = Named(s)
         /\ \A i, r : Named(ResumedAs(s, i, r)) = Named(s)
<1>1. \A n : Named(Cleared(s, n)) \subseteq Named(s) \union {NoId}
  BY DEF Named, Cleared, State
<1>2. \A ts : Named(History(s, ts)) = Named(s)
  BY DEF Named, History, State
<1>3. Named(Closed(s)) = Named(s)
  BY DEF Named, Closed, State
<1>4. Named(Closing(s)) = Named(s)
  BY DEF Named, Closing, State
<1>5. \A id, k : Named(Recorded(s, id, k)) = Named(s)
  BY DEF Named, Recorded, State
<1>6. \A aw : Named(Pending(s, aw)) = Named(s)
  BY DEF Named, Pending, State
<1>7. \A r : Named(Planned(s, r)) = Named(s)
  BY DEF Named, Planned, State
<1>8. \A x : Named([s EXCEPT !.status = x]) = Named(s)
  BY DEF Named, State
<1>9. \A i, r : Named(ResumedAs(s, i, r)) = Named(s)
  BY DEF Named, ResumedAs, State
<1> QED
  BY <1>1, <1>2, <1>3, <1>4, <1>5, <1>6, <1>7, <1>8, <1>9

\* A way back or an end leaves them too.
LEMMA NamedEnds ==
  ASSUME NEW s \in State
  PROVE  /\ Fail(s) \/ Block(s) => Named(mem') = Named(s)
         /\ \A how : Leave(how) => mem' = disk
         /\ Uncaught(s) => Named(mem') = Named(s) \/ mem' = disk
<1>1. Fail(s) => mem' = [s EXCEPT !.status = "FAILED"]
  BY DEF Fail, SaveAndEnd, Save
<1>2. Block(s) => mem' = [s EXCEPT !.status = "BLOCKED"]
  BY DEF Block, SaveAndEnd, Save
<1>3. \A how : Leave(how) => mem' = disk
  BY DEF Leave
<1>4. Uncaught(s) => Fail(s) \/ Leave("raised")
  BY DEF Uncaught
<1>5. /\ Named([s EXCEPT !.status = "FAILED"]) = Named(s)
      /\ Named([s EXCEPT !.status = "BLOCKED"]) = Named(s)
  BY NamedKept
<1> QED
  BY <1>1, <1>2, <1>3, <1>4, <1>5

\* An artifact that is named was paid for.
LEMMA NamedStep ==
  ASSUME IInv, MadeInv, [Next]_vars
  PROVE  Named(mem') \subseteq paid' \union {NoId}
<1> DEFINE H == Named(mem') \subseteq paid' \union {NoId}
<1>0. mem \in State /\ disk \in State /\ run \in Run /\ CommandInv /\ paid \subseteq TaskId
  BY KnownIs DEF IInv
<1>n. /\ Named(mem) \subseteq paid' \union {NoId} /\ Named(disk) \subseteq paid' \union {NoId}
      /\ pc \in {"initial_made", "counter_made", "final_made"} => run.id \in paid'
  BY RecordsGrow DEF IInv, MadeInv, NamedOK, Grown
<1>e. \A s \in State : Named(s) = Named(mem) =>
        /\ Fail(s) \/ Block(s) \/ Uncaught(s) => H
        /\ mem' = s => H
  BY <1>n, NamedEnds
<1>l. \A how : Leave(how) => H
  BY <1>n DEF Leave
<1>m. mem' = mem => H
  BY <1>n
<1>g. [mem EXCEPT !.status = "PARTIALLY_COMPLETED"] \in State /\ [mem EXCEPT !.status = "RUNNING"] \in State
      /\ Named([mem EXCEPT !.status = "PARTIALLY_COMPLETED"]) = Named(mem)
      /\ Named([mem EXCEPT !.status = "RUNNING"]) = Named(mem)
  <2>1. "PARTIALLY_COMPLETED" \in Status /\ "RUNNING" \in Status
    BY DEF Status
  <2>2. \A x \in Status : [mem EXCEPT !.status = x] \in State
    BY <1>0, StatusIs
  <2> QED
    BY <1>0, <2>1, <2>2, NamedKept
<1>1. CASE Line
  <2>1. CASE Dispatch
    BY <2>1, <1>0, <1>n DEF Named, Dispatch, Save, State
  <2>2. CASE Gather \/ ReuseReview
    BY <2>2, <1>m DEF Gather, ReuseReview
  <2>3. CASE Record
    <3>1. \E x : mem' = Recorded(mem, x[1], x[2])
      BY <2>3, <1>0, <1>n, RecordIs
    <3> QED
      BY <3>1, <1>0, <1>n, NamedKept
  <2>4. CASE Collected
    <3>1. PICK s \in {[mem EXCEPT !.status = "PARTIALLY_COMPLETED"], [mem EXCEPT !.status = "RUNNING"]} :
            Fail(s) \/ Block(s) \/ Save(s)
      BY <2>4 DEF Collected
    <3> QED
      BY <3>1, <1>e, <1>g DEF Save
  <2>5. CASE Initial \/ Final
    <3>1. \A stage, on, next : Integrate(stage, on, next) => H
      <4> SUFFICES ASSUME NEW stage, NEW on, NEW next, Integrate(stage, on, next) PROVE H
        OBVIOUS
      <4>1. PICK k : mem' = mem \/ Fail([mem EXCEPT !.faults = IF k = "retryable"
                                         THEN Append(@, ManagerId(mem, stage)) ELSE @])
        BY DEF Integrate
      <4>2. CASE mem' # mem
        <5>1. \A x : Named([[mem EXCEPT !.faults = x] EXCEPT !.status = "FAILED"]) = Named(mem)
          BY <1>0 DEF Named, State
        <5>2. \E x : [mem EXCEPT !.faults = IF k = "retryable" THEN Append(@, ManagerId(mem, stage))
                                           ELSE @] = [mem EXCEPT !.faults = x]
          OBVIOUS
        <5>3. \E x : mem' = [[mem EXCEPT !.faults = x] EXCEPT !.status = "FAILED"]
          BY <4>1, <4>2, <5>2 DEF Fail, SaveAndEnd, Save
        <5> QED
          BY <5>1, <5>3, <1>n
      <4> QED
        BY <4>2, <1>m
    <3>2. mem' = mem \/ mem' = [mem EXCEPT !.result = IF @[1] = NoId THEN <<mem.final, NoId>> ELSE @]
          \/ \E stage, on, next : Integrate(stage, on, next)
      BY <2>5 DEF Initial, Final, Save
    <3>3. \A x : Named([mem EXCEPT !.result = x]) = Named(mem)
      BY <1>0 DEF Named, State
    <3>4. \E x : [mem EXCEPT !.result = IF @[1] = NoId THEN <<mem.final, NoId>> ELSE @]
                 = [mem EXCEPT !.result = x]
      OBVIOUS
    <3> QED
      BY <3>1, <3>2, <3>3, <3>4, <1>n
  <2>6. CASE InitialMade \/ CounterMade \/ FinalMade \/ Reviewed
    <3>1. CASE InitialMade
      <4>1. mem' = [mem EXCEPT !.initial = run.id, !.at.initial = mem.count,
                               !.status = "INTEGRATING"]
            /\ run.id \in paid'
        BY <3>1, <1>n DEF InitialMade, Save
      <4>2. mem'.initial = run.id /\ mem'.counter = mem.counter /\ mem'.final = mem.final
        BY <4>1, <1>0 DEF State
      <4> QED
        BY <4>1, <4>2, <1>n DEF Named
    <3>2. CASE CounterMade
      <4>1. mem' = [mem EXCEPT !.counter = run.id, !.at.counter = mem.count] /\ run.id \in paid'
        BY <3>2, <1>n DEF CounterMade, Save
      <4>2. mem'.initial = mem.initial /\ mem'.counter = run.id /\ mem'.final = mem.final
        BY <4>1, <1>0 DEF State
      <4> QED
        BY <4>1, <4>2, <1>n DEF Named
    <3>3. CASE FinalMade
      <4>1. mem' = [mem EXCEPT !.final = run.id, !.at.final = mem.count,
                               !.result = <<run.id, NoId>>]
            /\ run.id \in paid'
        BY <3>3, <1>n DEF FinalMade, Save
      <4>2. mem'.initial = mem.initial /\ mem'.counter = mem.counter /\ mem'.final = run.id
        BY <4>1, <1>0 DEF State
      <4> QED
        BY <4>1, <4>2, <1>n DEF Named
    <3>4. CASE Reviewed
      <4>1. mem' = [mem EXCEPT !.review = run.id, !.at.review = mem.count]
        BY <3>4 DEF Reviewed, Save
      <4>2. Named(mem') = Named(mem)
        BY <4>1, <1>0 DEF Named, State
      <4> QED
        BY <4>2, <1>n
    <3> QED
      BY <2>6, <3>1, <3>2, <3>3, <3>4
  <2>7. CASE CounterArgument
    <3>1. \/ mem' = mem
          \/ /\ paid' = paid \union {CounterId(mem)}
             /\ mem' = [mem EXCEPT !.heard = @ \union {CounterId(mem)}] \/ Fail(mem)
      BY <2>7 DEF CounterArgument, Save
    <3>2. Named([mem EXCEPT !.heard = @ \union {CounterId(mem)}]) = Named(mem)
      BY <1>0, <1>n DEF Named, State
    <3> QED
      BY <3>1, <3>2, <1>0, <1>n, <1>e
  <2>8. CASE AskReview
    BY <2>8, <1>0, <1>n DEF Named, AskReview, Save, State
  <2>9. CASE AnswerReview
    <3>1. /\ paid' = paid \union {run.id}
          /\ \E k : \/ mem' = [mem EXCEPT !.heard = @ \union {run.id}]
                    \/ mem' = [[mem EXCEPT !.reviewError = IF k = "retryable" THEN run.id ELSE @]
                                 EXCEPT !.status = "FAILED"]
      BY <2>9 DEF AnswerReview, Save, Fail, SaveAndEnd
    <3>2. Named([mem EXCEPT !.heard = @ \union {run.id}]) = Named(mem)
      BY <1>0, <1>n DEF Named, State
    <3>3. \A x : Named([[mem EXCEPT !.reviewError = x] EXCEPT !.status = "FAILED"]) = Named(mem)
      BY <1>0, <1>n DEF Named, State
    <3>4. PICK k : \/ mem' = [mem EXCEPT !.heard = @ \union {run.id}]
                   \/ mem' = [[mem EXCEPT !.reviewError = IF k = "retryable" THEN run.id ELSE @]
                                EXCEPT !.status = "FAILED"]
      BY <3>1
    <3>5. \E x : [mem EXCEPT !.reviewError = IF k = "retryable" THEN run.id ELSE @]
                   = [mem EXCEPT !.reviewError = x]
      OBVIOUS
    <3>6. Named(mem') = Named(mem)
      BY <3>2, <3>3, <3>4, <3>5
    <3> QED
      BY <3>6, <1>n
  <2> QED
    BY <1>1, <2>1, <2>2, <2>3, <2>4, <2>5, <2>6, <2>7, <2>8, <2>9 DEF Line
<1>2. CASE Decide
  <2>p. \A aw \in BOOLEAN : Named(Pending(mem, aw)) = Named(mem)
    BY <1>0, <1>n, NamedKept
  <2>1. CASE Finalize
    <3> DEFINE s == [mem EXCEPT !.result = IF Review(mem).verdict = "approved"
                                           THEN <<mem.final, mem.review>> ELSE @]
    <3>1. \/ Uncaught(mem)
          \/ mem' = [s EXCEPT !.phase = "completed", !.consumed = @ \union {mem.active},
                              !.plan = NoId, !.planned = {}, !.awaiting = FALSE]
      BY <2>1 DEF Finalize
    <3>2. Named(s) = Named(mem) /\ DOMAIN s = DOMAIN mem
      BY <1>0, <1>n DEF Named, State
    <3> HIDE DEF s
    <3>3. Named([s EXCEPT !.phase = "completed", !.consumed = @ \union {mem.active},
                          !.plan = NoId, !.planned = {}, !.awaiting = FALSE]) = Named(mem)
      BY <3>2, <1>0, <1>n DEF Named, State
    <3> QED
      BY <3>1, <3>3, <1>0, <1>n, <1>e
  <2>2. CASE Approve \/ Sent \/ Waiting \/ SavePlan \/ Stop \/ SendFails \/ BlockedByReview
    <3>1. CASE Approve \/ Waiting \/ SavePlan \/ Sent
      <4>1. \/ mem' = [mem EXCEPT !.status = "APPROVED", !.result = <<mem.final, mem.review>>]
            \/ mem' = [mem EXCEPT !.status = "WAITING_UPSTREAM_REVISION",
                                   !.phase = "waiting_upstream_result",
                                   !.epoch = mem.active.epoch]
            \/ mem' = mem
            \/ mem' = [mem EXCEPT !.status = "COMPLETED"]
        BY <3>1 DEF Approve, Waiting, SavePlan, Sent, SaveAndEnd, Save
      <4>2. Named(mem') = Named(mem)
        BY <4>1, <1>0 DEF Named, State
      <4> QED
        BY <4>2, <1>n
    <3>2. CASE Stop \/ SendFails \/ BlockedByReview
      <4>1. Fail(mem) \/ Block(mem) \/ mem' = [mem EXCEPT !.awaiting = FALSE]
        BY <3>2 DEF Stop, SendFails, BlockedByReview, Save
      <4> QED
        BY <4>1, <1>0, <1>n, <1>e DEF Named, State
    <3> QED
      BY <2>2, <3>1, <3>2
  <2>3. CASE Send \/ AskedAlready
    BY <2>3, <1>l, <1>m DEF Send, AskedAlready
  <2>4. CASE AskResearcher
    <3>1. \/ mem' = [Pending(mem, TRUE) EXCEPT !.active = EvidenceRequest(mem)]
          \/ mem' = [Pending(mem, TRUE) EXCEPT !.status = "FAILED"]
          \/ Leave("raised")
      BY <2>4 DEF AskResearcher, Uncaught, Fail, SaveAndEnd, Save
    <3> QED
      <4>1. \A x : /\ Named([Pending(mem, TRUE) EXCEPT !.active = x]) = Named(mem)
                   /\ Named([Pending(mem, TRUE) EXCEPT !.status = x]) = Named(mem)
        BY <1>0 DEF Named, Pending, State
      <4> QED
        BY <3>1, <4>1, <1>n, <1>l
  <2>5. CASE PlanInternal
    <3>1. \/ Block(mem) \/ Leave("raised")
          \/ \E r : mem' = Planned(Pending(mem, FALSE), r)
          \/ mem' = [Pending(mem, FALSE) EXCEPT !.status = "FAILED"]
      BY <2>5 DEF PlanInternal, Plan, Uncaught, Fail, SaveAndEnd, Save
    <3> QED
      <4>1. \A x : Named(Planned(Pending(mem, FALSE), x)) = Named(mem)
        BY <1>0 DEF Named, Pending, Planned, State
      <4>2. \A x : Named([Pending(mem, FALSE) EXCEPT !.status = x]) = Named(mem)
        BY <1>0 DEF Named, Pending, State
      <4> QED
        BY <3>1, <4>1, <4>2, <1>0, <1>n, <1>l, <1>e
  <2> QED
    BY <1>2, <2>1, <2>2, <2>3, <2>4, <2>5 DEF Decide
<1>3. CASE Resume
  <2>1. \/ \E how : Leave(how)
        \/ \E r : mem' = Planned(ResumedAs(mem, inbox.number, mem.active), r)
        \/ mem' = [ResumedAs(mem, inbox.number, mem.active) EXCEPT !.status = "FAILED"]
    BY <1>3 DEF Resume, Plan, Uncaught, Fail, SaveAndEnd, Save, ResumedAs
  <2> QED
    <3> DEFINE t == ResumedAs(mem, inbox.number, mem.active)
    <3>1. \A x : Named(Planned(t, x)) = Named(mem)
      BY <1>0 DEF Named, ResumedAs, Planned, State
    <3>2. Named([t EXCEPT !.status = "FAILED"]) = Named(mem)
      BY <1>0 DEF Named, ResumedAs, State
    <3>3. \/ \E how : Leave(how)
          \/ \E x : mem' = Planned(t, x)
          \/ mem' = [t EXCEPT !.status = "FAILED"]
      BY <2>1
    <3> HIDE DEF t
    <3>4. Named(mem') = Named(mem) \/ H
      BY <3>1, <3>2, <3>3, <1>l
    <3> QED
      BY <3>4, <1>n
<1>4. CASE Revision
  <2>1. CASE Revise \/ Adopted \/ Stale \/ Execute
    BY <2>1, <1>l, <1>m DEF Revise, Adopted, Stale, Execute, Save
  <2>2. CASE Adopt \/ Authorize
    <3>1. CASE Adopt
      <4>1. \/ Leave("refused")
            \/ \E r : mem' = [mem EXCEPT !.phase = "authorization_required", !.epoch = r.epoch,
                                         !.active = r, !.status = "BLOCKED"]
        BY <3>1 DEF Adopt
      <4>2. \A r, e : Named([mem EXCEPT !.phase = "authorization_required", !.epoch = e,
                                        !.active = r, !.status = "BLOCKED"]) = Named(mem)
        BY <1>0 DEF Named, State
      <4> QED
        BY <4>1, <4>2, <1>n, <1>l
    <3>2. CASE Authorize
      <4>1. PICK c : mem' = [mem EXCEPT !.count = c, !.phase = "executing", !.status = "REVISING"]
        BY <3>2 DEF Authorize
      <4>2. Named(mem') = Named(mem)
        BY <4>1, <1>0 DEF Named, State
      <4> QED
        BY <4>2, <1>n
    <3> QED
      BY <2>2, <3>1, <3>2
  <2>3. CASE Exhausted
    <3>1. \/ Leave("raised")
          \/ \E n, ts : mem' = [[History([mem EXCEPT !.count = n], ts) EXCEPT !.phase = "blocked"]
                                   EXCEPT !.status = "BLOCKED"]
      BY <2>3 DEF Exhausted, Block, SaveAndEnd, Save
    <3> QED
      <4>1. \A n, ts : Named([[History([mem EXCEPT !.count = n], ts) EXCEPT !.phase = "blocked"]
                                EXCEPT !.status = "BLOCKED"]) = Named(mem)
        BY <1>0 DEF Named, History, State
      <4> QED
        BY <3>1, <4>1, <1>n, <1>l
  <2>4. CASE Begin
    <3> DEFINE u == [mem EXCEPT !.review = mem.active.review, !.plan = mem.active.review,
                                !.awaiting = FALSE,
                                !.planned = (CHOOSE v \in reviews : v.id = mem.active.review).targets]
    <3>1. \/ Leave("raised")
          \/ mem' = History(mem, mem.active.targets)
          \/ mem' = History(u, mem.active.targets)
      BY <2>4 DEF Begin, Save
    <3>2. Named(u) = Named(mem) /\ "history" \in DOMAIN u /\ DOMAIN u = DOMAIN mem
      BY <1>0, <1>n DEF Named, State
    <3> HIDE DEF u
    <3>3. Named(History(u, mem.active.targets)) = Named(mem)
      BY <3>2, <1>0, <1>n DEF Named, History, State
    <3> QED
      BY <3>1, <3>3, <1>0, <1>n, <1>l, NamedKept
  <2> QED
    BY <1>4, <2>1, <2>2, <2>3, <2>4 DEF Revision
<1>5. CASE Recovery
  <2>1. CASE ProviderRetry \/ Recover \/ NotRecoverable \/ NeedsRetry \/ TooFew
    BY <2>1, <1>0, <1>n, <1>l, <1>e
    DEF ProviderRetry, Grant, Recover, NotRecoverable, NeedsRetry, TooFew
  <2>2. CASE RecoverBegins
    <3>1. mem' = [Closed(mem) EXCEPT !.status = "RUNNING"]
      BY <2>2 DEF RecoverBegins, Save
    <3> QED
      BY <3>1, <1>0, <1>n DEF Named, Closed, State
  <2>3. CASE RecoverPrimaries
    <3>1. \/ mem' = [Closing(mem) EXCEPT !.status = "FAILED"]
          \/ mem' = Cleared(Closing(mem), 1)
          \/ mem' = Closing(mem)
      BY <2>3 DEF RecoverPrimaries, Fail, SaveAndEnd, Save, Closing
    <3> QED
      <4>1. Named([Closing(mem) EXCEPT !.status = "FAILED"]) = Named(mem)
        BY <1>0 DEF Named, Closing, State
      <4>2. Named(Cleared(Closing(mem), 1)) \subseteq Named(mem) \union {NoId}
        BY <1>0, ClosingIs, NamedKept
      <4> QED
        BY <3>1, <4>1, <4>2, <1>0, <1>n, NamedKept
  <2>4. CASE RecoverCheckpoints
    <3>1. mem' = mem \/ \E n : mem' = Cleared(mem, n)
      BY <2>4 DEF RecoverCheckpoints, Save
    <3> QED
      BY <3>1, <1>0, <1>n, NamedKept
  <2> QED
    BY <1>5, <2>1, <2>2, <2>3, <2>4 DEF Recovery
<1>6. CASE Around \/ UNCHANGED vars
  BY <1>6, <1>l, <1>m DEF Around, Crash, ResearcherReplies, ResearcherFiles, ConclusionAsks, vars
<1> QED
  BY <1>1, <1>2, <1>3, <1>4, <1>5, <1>6 DEF Next

\* What an id was made from is not said again: the ids that are made now are new.
LEMMA MadeStays ==
  ASSUME IInv, MadeInv, [Next]_vars
  PROVE  /\ \A id \in paid \union {NoId} : \A on : MadeOn(id, on, made) => MadeOn(id, on, made')
         /\ \A id, on : made' = made => (MadeOn(id, on, made) => MadeOn(id, on, made'))
         /\ \A s : Named(s) \subseteq paid \union {NoId} /\ Whole(s, made) => Whole(s, made')
<1>1. \A m \in made' : m \in made \/ (m.id \notin paid /\ m.id # NoId)
  <2>1. NoId \notin paid'
    BY PaidStep DEF PaidInv, NoId, Id
  <2> QED
    BY <2>1, MadeGrows
<1>2. \A id \in paid \union {NoId} : \A on : MadeOn(id, on, made) => MadeOn(id, on, made')
  BY <1>1 DEF MadeOn
<1>3. ASSUME NEW s, Named(s) \subseteq paid \union {NoId}, Whole(s, made)
      PROVE  Whole(s, made')
  BY <1>2, <1>3 DEF Whole, InitialFits, FinalFits, Named
<1> QED
  BY <1>2, <1>3

\* The id a step brings is paid.
LEMMA BroughtPaid ==
  ASSUME IInv, MadeInv, [Next]_vars
  PROVE  pc' \in {"initial_made", "counter_made", "final_made"} => run'.id \in paid'
<1> DEFINE P == {"initial_made", "counter_made", "final_made"}
<1>0. run \in Run /\ mem \in State /\ disk \in State /\ paid \subseteq paid' /\ ErrorsOK(mem, paid)
      /\ mem.heard \subseteq paid /\ (pc \in P => run.id \in paid)
  BY KnownIs, RecordsGrow DEF IInv, MadeInv, NamedOK, Grown
<1>e. \A s, how : Fail(s) \/ Block(s) \/ Leave(how) \/ Uncaught(s) \/ SaveAndEnd(s, how) =>
        pc' \notin P
  BY DEF Fail, Block, Leave, Uncaught, SaveAndEnd, End
<1>i. \A stage \in {"initial", "final"} : \A on, next :
        Integrate(stage, on, next) => pc' = "idle" \/ run'.id \in paid'
  <2> SUFFICES ASSUME NEW stage \in {"initial", "final"}, NEW on, NEW next,
                      Integrate(stage, on, next)
               PROVE  pc' = "idle" \/ run'.id \in paid'
    OBVIOUS
  <2>1. PICK id : paid' = paid \union {id} /\ (run' = [run EXCEPT !.id = id] \/ pc' = "idle")
    BY DEF Integrate, Fail, SaveAndEnd, End
  <2> QED
    BY <2>1, <1>0 DEF Run
<1>1. CASE Line
  <2>1. CASE Initial \/ Final
    BY <2>1, <1>i DEF Initial, Final, Goto
  <2>2. CASE CounterArgument
    <3>1. \/ pc' = "final" \/ pc' = "idle"
          \/ run' = [run EXCEPT !.id = CounterId(mem)] /\ CounterId(mem) \in paid'
      BY <2>2, <1>0 DEF CounterArgument, Goto, Fail, SaveAndEnd, End
    <3> QED
      BY <3>1, <1>0 DEF Run
  <2>3. CASE ~(Initial \/ Final \/ CounterArgument)
    BY <1>1, <2>3, <1>e
    DEF Line, Dispatch, Gather, Record, Collected, InitialMade, CounterMade, FinalMade,
        ReuseReview, AskReview, AnswerReview, Reviewed, Goto
  <2> QED
    BY <2>1, <2>2, <2>3
<1>2. CASE Decide
  BY <1>2, <1>e
  DEF Decide, Deciding, Finalize, Approve, Send, SendFails, Sent, BlockedByReview, AskResearcher,
      AskedAlready, Waiting, PlanInternal, Plan, SavePlan, Stop, Goto
<1>3. CASE Resume
  BY <1>3, <1>e DEF Resume, Plan, Goto
<1>4. CASE Revision
  BY <1>4, <1>e
  DEF Revision, Revise, Adopt, Adopted, Authorize, Stale, Exhausted, Execute, Begin, Goto
<1>5. CASE Recovery
  BY <1>5, <1>e
  DEF Recovery, ProviderRetry, Grant, Recover, NotRecoverable, NeedsRetry, RecoverBegins,
      RecoverPrimaries, TooFew, RecoverCheckpoints, Goto
<1>6. CASE Around \/ UNCHANGED vars
  BY <1>6, <1>e, <1>0
  DEF Around, Crash, ResearcherReplies, ResearcherFiles, ConclusionAsks, vars
<1> QED
  BY <1>1, <1>2, <1>3, <1>4, <1>5, <1>6 DEF Next

\* What was made, and the ids of all that is named, in every step.
LEMMA MadeInvStep ==
  ASSUME IInv, MadeInv, [Next]_vars
  PROVE  MadeInv'
<1>0. paid \subseteq paid' /\ disk \in State /\ mem \in State
  BY RecordsGrow, KnownIs DEF IInv, Grown
<1>1. (\A m \in made' : m.id \in paid') /\ (\A m, n \in made' : m.id = n.id => m = n)
  <2>1. (\A m \in made : m.id \in paid) /\ (\A m, n \in made : m.id = n.id => m = n)
    BY DEF MadeInv
  <2>2. CASE made' = made
    BY <2>1, <2>2, <1>0
  <2>3. CASE \E m : made' = made \union {m} /\ m.id \notin paid /\ m.id \in paid'
    BY <2>1, <2>3, <1>0
  <2> QED
    BY <2>2, <2>3, MadeGrows
<1>2. NamedOK(mem, paid') /\ NamedOK(disk, paid')
  BY <1>0 DEF MadeInv, NamedOK
<1>3. NamedOK(mem', paid')
  BY <1>2, HeardStep, NamedStep DEF NamedOK
<1>4. NamedOK(disk', paid')
  BY <1>2, <1>3, DiskIs
<1>5. Handed' => {outbox'.about[2], outbox'.about[4]} \subseteq paid' \union {NoId}
  <2>1. CASE Send
    <3>1. outbox'.about = Artifacts(mem)
      BY <2>1 DEF Send
    <3> QED
      BY <3>1, <1>2 DEF Artifacts, NamedOK, Named
  <2>2. CASE outbox' = outbox
    BY <2>2, <1>0 DEF MadeInv, Handed
  <2>3. outbox' = outbox \/ Send
    BY FilersAre DEF AskResearcher, PlanInternal, Finalize, Resume, Adopt, ResearcherFiles,
       ConclusionAsks
  <2> QED
    BY <2>1, <2>2, <2>3
<1> QED
  BY <1>1, <1>3, <1>4, <1>5, BroughtPaid DEF MadeInv

-----------------------------------------------------------------------------
(* When a state still fits.                                                  *)

\* Whatever is written beside the artifacts: what was given up stays given up.
LEMMA FitsAlike ==
  ASSUME NEW s, NEW t, NEW ms, NEW rs, NEW rs2, Fitting(s, ms, rs),
         Artifacts(t) = Artifacts(s), \A stage : GivenUp(s, stage) => GivenUp(t, stage),
         AllClosed(s) => AllClosed(t),
         Busy(s, rs) => Busy(t, rs2) \/ Whole(s, ms)
  PROVE  /\ Fitting(t, ms, rs2)
         /\ InitialFits(s, ms) <=> InitialFits(t, ms)
         /\ Whole(s, ms) <=> Whole(t, ms)
         /\ \A stage \in {"initial", "final"} : Void(s, stage) => Void(t, stage)
<1>1. t.analyses = s.analyses /\ t.initial = s.initial /\ t.counter = s.counter /\ t.final = s.final
  BY DEF Artifacts
<1>2. /\ InitialFits(s, ms) <=> InitialFits(t, ms)
      /\ FinalFits(s, ms) <=> FinalFits(t, ms)
  BY <1>1 DEF InitialFits, FinalFits, Analysed
<1>3. \A stage \in {"initial", "final"} : Void(s, stage) => Void(t, stage)
  BY <1>1 DEF Void
<1> QED
  BY <1>2, <1>3 DEF Fitting, Whole

\* All fits: it does not matter what the revision is at.
LEMMA FitsWhole ==
  ASSUME NEW s, NEW ms, NEW rs, Whole(s, ms), AllClosed(s)
  PROVE  Fitting(s, ms, rs)
BY DEF Fitting, Whole

\* Nothing counts, and the revision is busy.
LEMMA FitsVoid ==
  ASSUME NEW s, NEW ms, NEW rs, Void(s, "initial"), Void(s, "final"),
         Busy(s, rs) \/ Whole(s, ms)
  PROVE  Fitting(s, ms, rs)
BY DEF Fitting

\* Where there is no integration, all fits.
LEMMA NothingFits ==
  ASSUME NEW s, NEW ms, \A on : MadeOn(NoId, on, ms)
  PROVE  /\ s.initial = NoId => InitialFits(s, ms)
         /\ s.final = NoId => FinalFits(s, ms)
         /\ s.initial = NoId /\ s.final = NoId => Whole(s, ms)
BY DEF InitialFits, FinalFits, Whole

\* The same artifacts and the same revision.
LEMMA FitsSame ==
  ASSUME NEW s, NEW t, NEW ms, NEW rs, Fitting(s, ms, rs), \A f \in Kept : t[f] = s[f]
  PROVE  /\ Fitting(t, ms, rs)
         /\ InitialFits(s, ms) <=> InitialFits(t, ms)
         /\ Whole(s, ms) <=> Whole(t, ms)
         /\ Busy(s, rs) <=> Busy(t, rs)
         /\ \A stage : GivenUp(s, stage) <=> GivenUp(t, stage)
         /\ \A stage \in {"initial", "final"} : Void(s, stage) <=> Void(t, stage)
<1>1. /\ t.analyses = s.analyses /\ t.initial = s.initial /\ t.counter = s.counter
      /\ t.final = s.final /\ t.result = s.result /\ t.at = s.at /\ t.asked = s.asked
      /\ t.history = s.history /\ t.phase = s.phase /\ t.active = s.active
  BY DEF Kept
<1>2. Artifacts(t) = Artifacts(s)
  BY <1>1 DEF Artifacts
<1>3. \A stage : GivenUp(t, stage) <=> GivenUp(s, stage)
  BY <1>1, GivenUpAlike
<1>4. AllClosed(t) <=> AllClosed(s)
  BY <1>1, OpenAlike
<1>5. Busy(s, rs) <=> Busy(t, rs)
  BY <1>1 DEF Busy
<1>6. /\ Fitting(t, ms, rs)
      /\ InitialFits(s, ms) <=> InitialFits(t, ms)
      /\ Whole(s, ms) <=> Whole(t, ms)
  BY <1>2, <1>3, <1>4, <1>5, FitsAlike
<1> QED
  BY <1>1, <1>3, <1>5, <1>6 DEF Void

-----------------------------------------------------------------------------
(* What was filed and made since.                                            *)

\* Where the second invariant has something to say.
Numbered == IInv /\ MadeInv /\ FitInv /\ [Next]_vars /\ ~reused'

\* Results of Conclusion's requests are filed in a decision only, which the saved
\* state shares with the copy.
LEMMA FiledOnce ==
  ASSUME IInv, [Next]_vars, ~Finalize
  PROVE  \A x \in results' : x \in results \/ x.request.route # "conclusion"
<1>1. CASE Resume
  <2>1. mem.status = "WAITING_UPSTREAM_REVISION" => mem.active.route = "upstream"
    BY DEF IInv, StatesInv, Good, WaitingOK
  <2>2. mem \in State /\ inbox.number \in Nat
    BY DEF IInv, TypeInv
  <2>3. \/ UNCHANGED results
        \/ /\ mem.status = "WAITING_UPSTREAM_REVISION"
           /\ results' = results \union
                {[request |-> mem.active, status |-> "completed", result |-> <<NoId, NoId>>]}
    BY <1>1, <2>2, ResumeIs
  <2> QED
    BY <2>1, <2>3
<1>2. CASE ResearcherFiles
  <2>1. inbox.request.route = "upstream"
    BY <1>2 DEF ResearcherFiles, Upstream
  <2> QED
    BY <1>2, <2>1 DEF ResearcherFiles
<1>3. CASE results' = results
  BY <1>3
<1>4. AskResearcher \/ PlanInternal \/ Send \/ Adopt \/ ConclusionAsks => results' = results
  <2>1. AskResearcher => results' = results
    BY DEF AskResearcher
  <2>2. PlanInternal => results' = results
    BY DEF PlanInternal
  <2>3. Send \/ Adopt \/ ConclusionAsks => results' = results
    BY DEF Send, Adopt, ConclusionAsks, exchange
  <2> QED
    BY <2>1, <2>2, <2>3
<1> QED
  BY <1>1, <1>2, <1>3, <1>4, FilersAre

\* A revision that is busy stays so until the decision about it.
LEMMA BusyStays ==
  ASSUME IInv, [Next]_vars, ~Finalize, NEW s, Busy(s, results)
  PROVE  Busy(s, results')
BY FiledOnce DEF Busy

\* The states before the step fit what is made and filed in it.
LEMMA BothFit ==
  ASSUME Numbered
  PROVE  Fitting(disk, made', results') /\ Fitting(mem, made', results')
<1> USE DEF Numbered
<1>1. \A s \in {disk, mem} : Fitting(s, made, results) /\ Named(s) \subseteq paid \union {NoId}
  BY DEF FitInv, MadeInv, NamedOK
<1>2. \A s \in {disk, mem} : Busy(s, results) => Busy(s, results') \/ Whole(s, made)
  <2>1. CASE ~Finalize
    BY <2>1, BusyStays
  <2>2. CASE Finalize
    <3>1. pc = "decide" /\ mem.phase = "executing"
      BY <2>2 DEF Finalize
    <3>2. Whole(mem, made) /\ Artifacts(disk) = Artifacts(mem)
      BY <3>1 DEF FitInv, WayOK
    <3>3. Whole(disk, made)
      BY <3>2 DEF Artifacts, Whole, InitialFits, FinalFits, Analysed
    <3> QED
      BY <3>2, <3>3
  <2> QED
    BY <2>1, <2>2
<1>3. ASSUME NEW s \in {disk, mem} PROVE Fitting(s, made', results')
  <2>1. /\ InitialFits(s, made) => InitialFits(s, made')
        /\ FinalFits(s, made) => FinalFits(s, made')
    BY <1>1, MadeStays DEF InitialFits, FinalFits, Named
  <2> QED
    BY <1>1, <1>2, <2>1 DEF Fitting, Whole
<1> QED
  BY <1>3

-----------------------------------------------------------------------------
(* The line.                                                                 *)

\* What is left to show of a step.
FitOnward == Fitting(mem', made', results') /\ WayOK'

\* What the command knows before the step, said of what is made and filed in it.
LEMMA HereFits ==
  ASSUME Numbered
  PROVE  /\ mem \in State /\ disk \in State /\ run \in Run /\ mem' \in State
         /\ CommandInv /\ WayOK /\ IInv /\ [Next]_vars /\ ~reused'
         /\ Fitting(mem, made, results) /\ Fitting(disk, made, results)
         /\ Fitting(mem, made', results') /\ Fitting(disk, made', results')
         /\ \A on : MadeOn(NoId, on, made')
         /\ InitialFits(mem, made) => InitialFits(mem, made')
         /\ Whole(mem, made) => Whole(mem, made')
         /\ ~Finalize => (Busy(mem, results) => Busy(mem, results'))
<1> USE DEF Numbered
<1>1. mem \in State /\ disk \in State /\ run \in Run /\ mem' \in State /\ CommandInv
  BY KnownIs, MemTyped DEF IInv
<1>2. \A on : MadeOn(NoId, on, made')
  BY NobodyMade, MadeStays
<1>3. Named(mem) \subseteq paid \union {NoId}
  BY DEF MadeInv, NamedOK
<1>4. InitialFits(mem, made) => InitialFits(mem, made')
  BY <1>3, MadeStays DEF Named, InitialFits
<1>5. Whole(mem, made) => Whole(mem, made')
  BY <1>3, MadeStays
<1>6. ~Finalize => (Busy(mem, results) => Busy(mem, results'))
  BY BusyStays
<1> QED
  BY <1>1, <1>2, <1>4, <1>5, <1>6, BothFit DEF FitInv

\* Nothing to know where a command is at none of these.
LEMMA WayEnds ==
  ASSUME pc' \notin Asking \union Making \union Judging
                      \union {"checkpoints", "decide", "send", "waiting", "executing", "begin"}
  PROVE  WayOK'
<1>1. pc' \notin {"initial", "initial_made", "final_made", "checkpoints", "decide"}
  BY DEF Making
<1> QED
  BY <1>1 DEF WayOK

LEMMA FitEnds ==
  ASSUME Numbered, NEW s, Fitting(s, made', results'), Ended(s) \/ Left
  PROVE  FitOnward
<1>1. pc' = "idle"
  BY DEF Ended, Left
<1>2. WayOK'
  BY <1>1, WayEnds DEF Asking, Making, Judging
<1>3. CASE Left
  BY <1>2, <1>3, HereFits DEF FitOnward, Left
<1>4. CASE Ended(s)
  <2>1. \A f \in Kept : mem'[f] = s[f]
    BY <1>4 DEF Ended, Same
  <2>2. Fitting(mem', made', results')
    BY <2>1, FitsSame
  <2> QED
    BY <1>2, <2>2 DEF FitOnward
<1> QED
  BY <1>3, <1>4

\* While the analysts are asked nothing counts, and a revision is busy.
LEMMA AskingFits ==
  ASSUME Numbered, ~Finalize, pc \in Asking,
         mem'.initial = mem.initial, mem'.final = mem.final, mem'.history = mem.history,
         \A stage \in Stage : mem'.at[stage] = mem.at[stage],
         mem'.phase = mem.phase, mem'.active = mem.active, mem'.result = mem.result
  PROVE  /\ Fitting(mem', made', results')
         /\ run'.then = run.then /\ run'.first = run.first /\ pc' \in Asking => FitOnward
<1>1. \A stage \in {"initial", "final"} : GivenUp(mem, stage) => GivenUp(mem', stage)
  BY DEF GivenUp, Stage
<1>2. Void(mem', "initial") /\ Void(mem', "final")
  BY <1>1, HereFits DEF WayOK, Void
<1>3. Busy(mem', results') \/ (mem'.initial = NoId /\ mem'.final = NoId)
  <2>1. CASE run.then = "revise"
    <3>1. Busy(mem, results)
      BY <2>1, HereFits DEF CommandInv, AskingOK, Reworked
    <3>2. Busy(mem, results')
      BY <3>1, HereFits
    <3> QED
      BY <3>2 DEF Busy
  <2>2. CASE run.then # "revise"
    BY <2>2, HereFits DEF WayOK
  <2> QED
    BY <2>1, <2>2
<1>4. Busy(mem', results') \/ Whole(mem', made')
  BY <1>3, HereFits, NothingFits
<1>5. Fitting(mem', made', results')
  BY <1>2, <1>4, FitsVoid
<1>6. ASSUME run'.then = run.then, run'.first = run.first, pc' \in Asking
      PROVE  WayOK'
  BY <1>1, <1>6, HereFits DEF WayOK, Asking, Making, Judging
<1> QED
  BY <1>5, <1>6 DEF FitOnward

LEMMA DispatchFits ==
  ASSUME Numbered, Dispatch
  PROVE  FitOnward
<1>1. /\ mem'.initial = mem.initial /\ mem'.final = mem.final /\ mem'.history = mem.history
      /\ mem'.at = mem.at /\ mem'.phase = mem.phase /\ mem'.active = mem.active
      /\ mem'.result = mem.result
  BY HereFits, DispatchIs DEF Kept
<1>2. pc = "dispatch" /\ pc' = "gather" /\ run' = run /\ ~Finalize
  BY DEF Dispatch, Goto, Finalize
<1> QED
  BY <1>1, <1>2, AskingFits DEF Asking

LEMMA GatherFits ==
  ASSUME Numbered, Gather
  PROVE  FitOnward
<1>1. pc = "gather" /\ pc' = "record" /\ mem' = mem /\ ~Finalize
  BY DEF Gather, Goto, Finalize
<1>2. run'.then = run.then /\ run'.first = run.first
  BY HereFits DEF Gather, Run
<1> QED
  BY <1>1, <1>2, AskingFits DEF Asking

LEMMA RecordFits ==
  ASSUME Numbered, Record
  PROVE  FitOnward
<1>1. PICK x \in run.got :
        /\ x[1] \in Plain /\ x[1].agent \in Primary /\ x[2] \in Kind
        /\ mem' = Recorded(mem, x[1], x[2]) /\ disk' = mem'
        /\ run' = [run EXCEPT !.got = @ \ {x},
                              !.failures = IF x[2] = "result" THEN @ ELSE @ + 1]
  BY HereFits, RecordIs
<1>2. LET t == Recorded(mem, x[1], x[2])
      IN /\ t \in State
         /\ x[2] = "result" =>
              /\ t.analyses = [mem.analyses EXCEPT ![x[1].agent] = x[1]]
              /\ t.at = [mem.at EXCEPT ![x[1].agent] = mem.count]
         /\ x[2] # "result" => t.analyses = mem.analyses /\ t.at = mem.at
         /\ t.primaryError \in {mem.primaryError, x[1]}
         /\ \A f \in Kept \ {"analyses", "at"} : t[f] = mem[f]
         /\ \A f \in {"faults", "reviewError", "status", "plan"} : t[f] = mem[f]
  BY <1>1, HereFits, RecordedIs
<1>3. \A f \in Kept \ {"analyses", "at"} : mem'[f] = mem[f]
  BY <1>1, <1>2
<1>4. mem'.at = mem.at \/ mem'.at = [mem.at EXCEPT ![x[1].agent] = mem.count]
  BY <1>1, <1>2
<1>5. \A stage \in Stage : mem'.at[stage] = mem.at[stage]
  <2>1. mem.at \in [Primary \union Stage -> Nat]
    BY HereFits DEF State
  <2>2. x[1].agent \notin Stage
    BY <1>1, NamesDiffer
  <2> QED
    BY <1>4, <2>1, <2>2
<1>6. /\ mem'.initial = mem.initial /\ mem'.final = mem.final /\ mem'.history = mem.history
      /\ mem'.phase = mem.phase /\ mem'.active = mem.active /\ mem'.result = mem.result
  BY <1>3 DEF Kept
<1>7. pc = "record" /\ pc' = pc /\ ~Finalize
  BY DEF Record, Finalize
<1>8. run'.then = run.then /\ run'.first = run.first
  BY <1>1, HereFits DEF Run
<1> QED
  BY <1>5, <1>6, <1>7, <1>8, AskingFits DEF Asking

LEMMA CollectedFits ==
  ASSUME Numbered, Collected
  PROVE  FitOnward
<1>0. pc = "record" /\ ~Finalize
  BY DEF Collected, Finalize
<1>1. CASE Ended(mem)
  BY <1>1, FitEnds, HereFits
<1>2. CASE ~Ended(mem)
  <2>1. /\ Same(mem', mem) /\ disk' = mem' /\ run' = run
        /\ pc' = IF run.then = "recover" THEN "checkpoints" ELSE "initial"
    BY <1>2, HereFits, CollectedIs
  <2>2. /\ Fitting(mem', made', results')
        /\ \A stage : GivenUp(mem, stage) => GivenUp(mem', stage)
        /\ \A rs : Busy(mem, rs) <=> Busy(mem', rs)
    BY <2>1, HereFits, FitsSame DEF Same, Kept, Busy
  <2>3. CASE run.then = "recover"
    <3>1. WayOK'
      BY <2>1, <2>3 DEF WayOK, Asking, Making, Judging
    <3> QED
      BY <2>2, <3>1 DEF FitOnward
  <2>4. CASE run.then # "recover"
    <3>1. run.first <= 2
      BY <1>0, <2>4, HereFits DEF CommandInv, AskingOK, Asking
    <3>2. mem'.initial = mem.initial /\ mem'.final = mem.final
      BY <2>1, SameIs
    <3>3. CASE run.then = "revise"
      <4>1. /\ GivenUp(mem, "initial") /\ GivenUp(mem, "final") /\ run.first = 1
            /\ Busy(mem, results)
        BY <1>0, <3>3, HereFits DEF WayOK, CommandInv, AskingOK, Reworked, Asking
      <4>2. GivenUp(mem', "initial") /\ GivenUp(mem', "final") /\ Busy(mem', results')
        BY <1>0, <4>1, <2>2, HereFits
      <4>3. WayOK'
        BY <2>1, <2>4, <4>1, <4>2 DEF WayOK, Asking, Making, Judging, Void
      <4> QED
        BY <2>2, <4>3 DEF FitOnward
    <3>4. CASE run.then # "revise"
      <4>1. mem'.initial = NoId /\ mem'.final = NoId
        BY <1>0, <3>2, <3>4, HereFits DEF WayOK, Asking
      <4>2. InitialFits(mem', made')
        BY <4>1, HereFits, NothingFits
      <4>3. pc' = "initial" /\ run'.first <= 3 /\ ~(run'.first > 3)
        BY <2>1, <2>4, <3>1, HereFits DEF Run
      <4>4. WayOK'
        BY <4>1, <4>2, <4>3 DEF WayOK, Asking, Making, Judging, Void
      <4> QED
        BY <2>2, <4>4 DEF FitOnward
    <3> QED
      BY <3>3, <3>4
  <2> QED
    BY <2>3, <2>4
<1> QED
  BY <1>1, <1>2

\* Only the decision about a revision files a result of Conclusion's.
LEMMA NotDeciding ==
  ASSUME pc # "decide"
  PROVE  ~Finalize
BY DEF Finalize

\* While the integrations are made: what the step keeps of the way.
LEMMA MakingFits ==
  ASSUME Numbered, pc \in Making, run.first <= 3,
         AllClosed(mem'), mem'.final = mem.final, mem'.history = mem.history,
         mem'.at["final"] = mem.at["final"], mem'.phase = mem.phase,
         mem'.active = mem.active, mem'.result = mem.result
  PROVE  /\ mem'.final = NoId \/ (GivenUp(mem', "final") /\ Busy(mem', results'))
         /\ InitialFits(mem', made') => Fitting(mem', made', results')
<1>1. ~Finalize
  BY NotDeciding DEF Making
<1>2. mem.final = NoId \/ (GivenUp(mem, "final") /\ Busy(mem, results'))
  BY <1>1, HereFits DEF WayOK
<1>3. mem'.final = NoId \/ (GivenUp(mem', "final") /\ Busy(mem', results'))
  BY <1>2 DEF GivenUp, Busy
<1>4. mem'.final = NoId => FinalFits(mem', made')
  BY HereFits, NothingFits
<1>5. ASSUME InitialFits(mem', made') PROVE Fitting(mem', made', results')
  BY <1>3, <1>4, <1>5 DEF Fitting, Whole, Void
<1> QED
  BY <1>3, <1>5

\* What a call brings was made from what it was asked about.
LEMMA IntegrateFits ==
  ASSUME Numbered, pc \in Making, NEW stage \in {"initial", "final"}, NEW on, NEW next,
         Integrate(stage, on, next)
  PROVE  \/ FitOnward
         \/ /\ mem' = mem /\ pc' = next /\ run'.first = run.first
            /\ MadeOn(run'.id, on, made')
<1>1. \E id \in Plain :
        /\ id.agent = stage /\ id \in paid'
        /\ \/ /\ id \notin paid
              /\ made' = made \union {[id |-> id, on |-> on, report |-> mem.report]}
              /\ run' = [run EXCEPT !.id = id] /\ pc' = next
              /\ UNCHANGED <<disk, mem>>
           \/ /\ disk' = mem' /\ pc' = "idle" /\ run' = NoRun /\ UNCHANGED made
              /\ mem'.status = "FAILED"
              /\ ErrorsOK(mem', paid')
              /\ \A f \in Kept : mem'[f] = mem[f]
              /\ mem'.plan = mem.plan
  BY HereFits, KnownIs, IntegrateIs
<1>2. CASE pc' = "idle" /\ \A f \in Kept : mem'[f] = mem[f]
  <2>1. Fitting(mem', made', results')
    BY <1>2, HereFits, FitsSame
  <2>2. WayOK'
    BY <1>2, WayEnds DEF Asking, Making, Judging
  <2> QED
    BY <2>1, <2>2 DEF FitOnward
<1>3. ASSUME NEW id \in Plain, id \notin paid,
             made' = made \union {[id |-> id, on |-> on, report |-> mem.report]},
             run' = [run EXCEPT !.id = id], pc' = next, mem' = mem
      PROVE  mem' = mem /\ pc' = next /\ run'.first = run.first /\ MadeOn(run'.id, on, made')
  <2>1. run'.id = id /\ run'.first = run.first
    BY <1>3, HereFits DEF Run
  <2>2. \A m \in made : m.id # id
    BY <1>3 DEF Numbered, MadeInv
  <2>3. MadeOn(id, on, made')
    BY <1>3, <2>2 DEF MadeOn
  <2> QED
    BY <1>3, <2>1, <2>3
<1> QED
  BY <1>1, <1>2, <1>3

LEMMA InitialStepFits ==
  ASSUME Numbered, Initial
  PROVE  FitOnward
<1>1. /\ pc = "initial" /\ pc \in Making /\ ~Finalize /\ run.first \in 1 .. 5
      /\ AllClosed(mem)
  BY HereFits DEF Initial, Making, Finalize, Run, CommandInv
<1>2. CASE run.first <= 1 /\ Integrate("initial", Analysed(mem), "initial_made")
  <2>1. CASE FitOnward
    BY <2>1
  <2>2. CASE /\ mem' = mem /\ pc' = "initial_made" /\ run'.first = run.first
             /\ MadeOn(run'.id, Analysed(mem), made')
    <3>1. mem'.final = NoId \/ (GivenUp(mem', "final") /\ Busy(mem', results'))
      BY <1>1, <1>2, <2>2, MakingFits
    <3>2. Void(mem', "initial")
      BY <1>1, <1>2, <2>2, HereFits DEF WayOK
    <3>3. MadeOn(run'.id, Analysed(mem'), made')
      BY <2>2
    <3>4. WayOK'
      BY <1>1, <1>2, <2>2, <3>1, <3>2, <3>3 DEF WayOK, Asking, Making, Judging
    <3> QED
      BY <2>2, <3>4, HereFits DEF FitOnward
  <2> QED
    BY <1>1, <1>2, <2>1, <2>2, IntegrateFits
<1>3. CASE run.first > 1 /\ pc' = "counter" /\ mem' = mem /\ run' = run
  <2>1. run.first <= 3 =>
          mem'.final = NoId \/ (GivenUp(mem', "final") /\ Busy(mem', results'))
    BY <1>1, <1>3, MakingFits
  <2>2. InitialFits(mem', made')
    BY <1>1, <1>3, HereFits DEF WayOK
  <2>3. run.first > 3 => Whole(mem', made')
    BY <1>1, <1>3, HereFits DEF WayOK
  <2>4. WayOK'
    BY <1>3, <2>1, <2>2, <2>3 DEF WayOK, Asking, Making, Judging
  <2> QED
    BY <1>3, <2>4, HereFits DEF FitOnward
<1> QED
  BY <1>2, <1>3 DEF Initial, Goto

LEMMA InitialMadeFits ==
  ASSUME Numbered, InitialMade
  PROVE  FitOnward
<1> DEFINE id == run.id
           at == [mem.at EXCEPT !.initial = mem.count]
<1>1. /\ pc = "initial_made" /\ pc \in Making /\ run \in Run /\ mem \in State
      /\ run.first <= 2 /\ run.first \in 1 .. 5 /\ AllClosed(mem) /\ id \in Plain
  BY HereFits DEF InitialMade, Making, Run, CommandInv
<1>2. /\ mem' = [mem EXCEPT !.initial = id, !.at = at, !.status = "INTEGRATING"]
      /\ pc' = "counter" /\ run' = run /\ made' = made
  BY <1>1 DEF InitialMade, Save, Goto, calls, State
<1>3. at["final"] = mem.at["final"]
  BY <1>1 DEF State, Stage
<1>4. MadeOn(id, Analysed(mem), made')
  BY <1>1, <1>2, HereFits DEF WayOK
<1> HIDE DEF at, id
<1>5. /\ mem'.at = at /\ mem'.initial = id
      /\ \A f \in Kept \ {"initial", "at"} : mem'[f] = mem[f]
  BY <1>1, <1>2 DEF State, Kept
<1>6. /\ mem'.analyses = mem.analyses /\ mem'.asked = mem.asked /\ mem'.final = mem.final
      /\ mem'.history = mem.history /\ mem'.phase = mem.phase
      /\ mem'.active = mem.active /\ mem'.result = mem.result
  BY <1>5 DEF Kept
<1>7. AllClosed(mem') /\ InitialFits(mem', made')
  BY <1>1, <1>4, <1>5, <1>6, OpenAlike DEF InitialFits, Analysed
<1>8. /\ mem'.final = NoId \/ (GivenUp(mem', "final") /\ Busy(mem', results'))
      /\ Fitting(mem', made', results')
  BY <1>1, <1>3, <1>5, <1>6, <1>7, MakingFits
<1>9. WayOK'
  BY <1>1, <1>2, <1>7, <1>8 DEF WayOK, Asking, Making, Judging
<1> QED
  BY <1>8, <1>9 DEF FitOnward

LEMMA CounterArgumentFits ==
  ASSUME Numbered, CounterArgument
  PROVE  FitOnward
<1> DEFINE id == CounterId(mem)
<1>1. /\ pc = "counter" /\ pc \in Making /\ ~Finalize /\ run \in Run /\ run.first \in 1 .. 5
      /\ AllClosed(mem) /\ InitialFits(mem, made')
      /\ run.first > 3 => Whole(mem, made')
  BY HereFits DEF CounterArgument, Making, Finalize, Run, CommandInv, WayOK
<1>2. CASE run.first > 2 /\ pc' = "final" /\ mem' = mem /\ run' = run
  <2>1. run.first <= 3 =>
          mem'.final = NoId \/ (GivenUp(mem', "final") /\ Busy(mem', results'))
    BY <1>1, <1>2, MakingFits
  <2>2. WayOK'
    BY <1>1, <1>2, <2>1 DEF WayOK, Asking, Making, Judging
  <2> QED
    BY <1>2, <2>2, HereFits DEF FitOnward
<1>3. CASE run.first <= 2 /\ pc' = "counter_made" /\ run' = [run EXCEPT !.id = id]
           /\ Same(mem', mem)
  <2>1. run'.first = run.first
    BY <1>1, <1>3 DEF Run
  <2>2. /\ Artifacts(mem') = Artifacts(mem) /\ mem'.asked = mem.asked
        /\ mem'.analyses = mem.analyses /\ mem'.final = mem.final
        /\ mem'.initial = mem.initial
        /\ mem'.history = mem.history /\ mem'.at = mem.at /\ mem'.phase = mem.phase
        /\ mem'.active = mem.active /\ mem'.result = mem.result
    BY <1>3, SameIs
  <2>3. AllClosed(mem') /\ InitialFits(mem', made')
    BY <1>1, <2>2, OpenAlike DEF InitialFits, Analysed
  <2>4. /\ mem'.final = NoId \/ (GivenUp(mem', "final") /\ Busy(mem', results'))
        /\ Fitting(mem', made', results')
    BY <1>1, <1>3, <2>2, <2>3, MakingFits
  <2>5. WayOK'
    BY <1>1, <1>3, <2>1, <2>3, <2>4 DEF WayOK, Asking, Making, Judging
  <2> QED
    BY <2>4, <2>5 DEF FitOnward
<1>4. CASE Ended(mem)
  BY <1>4, FitEnds, HereFits
<1>5. LET i == CounterId(mem)
      IN /\ i \in Plain /\ i.agent = "counter"
         /\ \/ /\ run.first > 2 /\ pc' = "final"
               /\ UNCHANGED <<disk, mem, run, paid, made>>
            \/ /\ run.first <= 2 /\ pc' = "counter_made" /\ run' = [run EXCEPT !.id = i]
               /\ Same(mem', mem) /\ mem'.status = mem.status
               /\ \/ /\ i \in mem.heard /\ mem' = mem /\ disk' = disk
                     /\ UNCHANGED <<paid, made>>
                  \/ /\ i \notin paid /\ disk' = mem' /\ paid' = paid \union {i}
                     /\ mem'.heard = mem.heard \union {i}
                     /\ made' = made \union {[id |-> i, on |-> {mem.initial},
                                              report |-> mem.report]}
            \/ /\ Ended(mem) /\ paid' = paid \union {i} /\ UNCHANGED made
  BY HereFits, CounterArgumentIs
<1> HIDE DEF id
<1> QED
  BY <1>2, <1>3, <1>4, <1>5 DEF id

LEMMA CounterMadeFits ==
  ASSUME Numbered, CounterMade
  PROVE  FitOnward
<1> DEFINE id == run.id
           at == [mem.at EXCEPT !.counter = mem.count]
<1>1. /\ pc = "counter_made" /\ pc \in Making /\ run \in Run /\ mem \in State
      /\ run.first <= 2 /\ run.first \in 1 .. 5 /\ AllClosed(mem) /\ id \in Plain
      /\ InitialFits(mem, made')
  BY HereFits DEF CounterMade, Making, Run, CommandInv, WayOK
<1>2. /\ mem' = [mem EXCEPT !.counter = id, !.at = at]
      /\ pc' = "final" /\ run' = run /\ made' = made
  BY <1>1 DEF CounterMade, Save, Goto, calls, State
<1>3. at["final"] = mem.at["final"]
  BY <1>1 DEF State, Stage
<1> HIDE DEF at, id
<1>5. /\ mem'.at = at
      /\ \A f \in Kept \ {"counter", "at"} : mem'[f] = mem[f]
  BY <1>1, <1>2 DEF State, Kept
<1>6. /\ mem'.analyses = mem.analyses /\ mem'.asked = mem.asked /\ mem'.final = mem.final
      /\ mem'.initial = mem.initial
      /\ mem'.history = mem.history /\ mem'.phase = mem.phase
      /\ mem'.active = mem.active /\ mem'.result = mem.result
  BY <1>5 DEF Kept
<1>7. AllClosed(mem') /\ InitialFits(mem', made')
  BY <1>1, <1>6, OpenAlike DEF InitialFits, Analysed
<1>8. /\ mem'.final = NoId \/ (GivenUp(mem', "final") /\ Busy(mem', results'))
      /\ Fitting(mem', made', results')
  BY <1>1, <1>3, <1>5, <1>6, <1>7, MakingFits
<1>9. WayOK'
  BY <1>1, <1>2, <1>7, <1>8 DEF WayOK, Asking, Making, Judging
<1> QED
  BY <1>8, <1>9 DEF FitOnward

\* All fits, and nothing is replaced.
LEMMA WholeFits ==
  ASSUME Numbered, AllClosed(mem), Whole(mem, made'),
         mem'.analyses = mem.analyses, mem'.asked = mem.asked,
         mem'.initial = mem.initial, mem'.counter = mem.counter, mem'.final = mem.final
  PROVE  /\ Fitting(mem', made', results') /\ Whole(mem', made') /\ AllClosed(mem')
         /\ pc' \in Judging \union {"send", "waiting"} => FitOnward
<1>1. AllClosed(mem') /\ Whole(mem', made')
  BY OpenAlike DEF Whole, InitialFits, FinalFits, Analysed
<1>2. Fitting(mem', made', results')
  BY <1>1, FitsWhole
<1>3. pc' \in Judging \union {"send", "waiting"} => WayOK'
  BY <1>1 DEF WayOK, Asking, Making, Judging
<1> QED
  BY <1>1, <1>2, <1>3 DEF FitOnward

LEMMA FinalStepFits ==
  ASSUME Numbered, Final
  PROVE  FitOnward
<1>1. /\ pc = "final" /\ pc \in Making /\ ~Finalize /\ run \in Run /\ run.first \in 1 .. 5
      /\ AllClosed(mem) /\ InitialFits(mem, made')
      /\ run.first > 3 => Whole(mem, made')
  BY HereFits DEF Final, Making, Finalize, Run, CommandInv, WayOK
<1>2. CASE run.first <= 3 /\ Integrate("final", {mem.initial, mem.counter}, "final_made")
  <2>1. CASE FitOnward
    BY <2>1
  <2>2. CASE /\ mem' = mem /\ pc' = "final_made" /\ run'.first = run.first
             /\ MadeOn(run'.id, {mem.initial, mem.counter}, made')
    <3>1. mem'.final = NoId \/ (GivenUp(mem', "final") /\ Busy(mem', results'))
      BY <1>1, <1>2, <2>2, MakingFits
    <3>2. WayOK'
      BY <1>1, <1>2, <2>2, <3>1 DEF WayOK, Asking, Making, Judging
    <3> QED
      BY <2>2, <3>2, HereFits DEF FitOnward
  <2> QED
    BY <1>1, <1>2, <2>1, <2>2, IntegrateFits
<1>3. CASE run.first > 3
  <2>1. /\ pc' = "review" /\ \A f \in Kept \ {"result"} : mem'[f] = mem[f]
    BY <1>3, HereFits, FinalIs
  <2>2. /\ mem'.analyses = mem.analyses /\ mem'.asked = mem.asked
        /\ mem'.initial = mem.initial /\ mem'.counter = mem.counter /\ mem'.final = mem.final
    BY <2>1 DEF Kept
  <2> QED
    BY <1>1, <1>3, <2>1, <2>2, WholeFits DEF Judging
<1> QED
  BY <1>2, <1>3 DEF Final

LEMMA FinalMadeFits ==
  ASSUME Numbered, FinalMade
  PROVE  FitOnward
<1> DEFINE id == run.id
           at == [mem.at EXCEPT !.final = mem.count]
           p == <<id, NoId>>
<1>1. /\ pc = "final_made" /\ pc \in Making /\ run \in Run /\ mem \in State
      /\ AllClosed(mem) /\ id \in Plain /\ InitialFits(mem, made')
  BY HereFits DEF FinalMade, Making, Run, CommandInv, WayOK
<1>2. /\ mem' = [mem EXCEPT !.final = id, !.at = at, !.result = p]
      /\ pc' = "review" /\ run' = run /\ made' = made
  BY <1>1 DEF FinalMade, Save, Goto, calls, State
<1>3. MadeOn(id, {mem.initial, mem.counter}, made')
  BY <1>1, <1>2, HereFits DEF WayOK
<1> HIDE DEF at, id, p
<1>5. /\ mem'.final = id
      /\ \A f \in Kept \ {"final", "at", "result"} : mem'[f] = mem[f]
  BY <1>1, <1>2 DEF State, Kept
<1>6. /\ mem'.analyses = mem.analyses /\ mem'.asked = mem.asked
      /\ mem'.initial = mem.initial /\ mem'.counter = mem.counter
  BY <1>5 DEF Kept
<1>7. AllClosed(mem') /\ Whole(mem', made')
  BY <1>1, <1>3, <1>5, <1>6, OpenAlike DEF Whole, InitialFits, FinalFits, Analysed
<1>8. Fitting(mem', made', results')
  BY <1>7, FitsWhole
<1>9. WayOK'
  BY <1>2, <1>7 DEF WayOK, Asking, Making, Judging
<1> QED
  BY <1>8, <1>9 DEF FitOnward

-----------------------------------------------------------------------------
(* The review and what it leads to.                                          *)

LEMMA JudgingFits ==
  ASSUME Numbered, pc \in Judging \union {"decide", "send", "waiting"}
  PROVE  /\ Whole(mem, made')
         /\ pc \in Judging \union {"decide", "waiting"} => AllClosed(mem)
BY HereFits DEF CommandInv, WayOK

LEMMA AskedReviewFits ==
  ASSUME Numbered, ReuseReview \/ AskReview \/ AnswerReview
  PROVE  FitOnward
<1>1. CASE ReuseReview
  <2>1. pc = "review" /\ pc' = "reviewed" /\ mem' = mem
    BY <1>1 DEF ReuseReview, Goto
  <2> QED
    BY <2>1, JudgingFits, WholeFits DEF Judging
<1>2. CASE AskReview
  <2>1. LET id == ReviewId(mem)
        IN /\ id \in TaskId /\ id.agent # "none"
           /\ Same(mem', mem) /\ mem'.status = "REVIEWING" /\ disk' = mem'
           /\ run' = [run EXCEPT !.id = id] /\ pc' = "ask"
    BY <1>2, HereFits, KnownIs, AskReviewIs
  <2>2. /\ mem'.analyses = mem.analyses /\ mem'.asked = mem.asked
        /\ mem'.initial = mem.initial /\ mem'.counter = mem.counter /\ mem'.final = mem.final
    BY <2>1, SameIs
  <2>3. pc = "review"
    BY <1>2 DEF AskReview
  <2> QED
    BY <2>1, <2>2, <2>3, JudgingFits, WholeFits DEF Judging
<1>3. CASE AnswerReview
  <2>1. \/ Same(mem', mem) /\ pc' = "reviewed"
        \/ pc' = "idle" /\ \A f \in Kept : mem'[f] = mem[f]
    BY <1>3, HereFits, KnownIs, AnswerReviewIs
  <2>2. /\ mem'.analyses = mem.analyses /\ mem'.asked = mem.asked
        /\ mem'.initial = mem.initial /\ mem'.counter = mem.counter /\ mem'.final = mem.final
    BY <2>1, SameIs DEF Kept
  <2>3. pc = "ask"
    BY <1>3 DEF AnswerReview
  <2>4. Fitting(mem', made', results') /\ (pc' = "reviewed" => FitOnward)
    BY <2>2, <2>3, JudgingFits, WholeFits DEF Judging
  <2>5. pc' = "idle" => WayOK'
    BY WayEnds DEF Asking, Making, Judging
  <2> QED
    BY <2>1, <2>4, <2>5 DEF FitOnward
<1> QED
  BY <1>1, <1>2, <1>3

LEMMA ReviewedFits ==
  ASSUME Numbered, Reviewed
  PROVE  FitOnward
<1>1. /\ disk' = mem' /\ pc' = "decide"
      /\ \A f \in Kept \ {"review", "at"} : mem'[f] = mem[f]
  BY HereFits, ReviewedIs
<1>2. /\ mem'.analyses = mem.analyses /\ mem'.asked = mem.asked
      /\ mem'.initial = mem.initial /\ mem'.counter = mem.counter /\ mem'.final = mem.final
  BY <1>1 DEF Kept
<1>3. pc = "reviewed"
  BY DEF Reviewed
<1>4. Fitting(mem', made', results') /\ Whole(mem', made')
  BY <1>2, <1>3, JudgingFits, WholeFits DEF Judging
<1>5. WayOK'
  BY <1>1, <1>4 DEF WayOK, Asking, Making, Judging
<1> QED
  BY <1>4, <1>5 DEF FitOnward

LEMMA LineFits ==
  ASSUME Numbered, Line
  PROVE  FitOnward
BY DispatchFits, GatherFits, RecordFits, CollectedFits, InitialStepFits, InitialMadeFits,
   CounterArgumentFits, CounterMadeFits, FinalStepFits, FinalMadeFits, AskedReviewFits,
   ReviewedFits
   DEF Line

\* All fits and nothing is replaced, whatever else is written.
LEMMA SettledFits ==
  ASSUME NEW s, NEW t, NEW ms, NEW rs, AllClosed(s), Whole(s, ms),
         t.analyses = s.analyses, t.asked = s.asked,
         t.initial = s.initial, t.counter = s.counter, t.final = s.final
  PROVE  Fitting(t, ms, rs) /\ Whole(t, ms) /\ AllClosed(t)
<1>1. AllClosed(t) /\ Whole(t, ms)
  BY OpenAlike DEF Whole, InitialFits, FinalFits, Analysed
<1> QED
  BY <1>1, FitsWhole

\* The command goes on where nothing more is known.
LEMMA StillFits ==
  ASSUME Numbered, mem' = mem,
         pc' \notin Asking \union Making \union Judging
                      \union {"checkpoints", "decide", "send", "waiting", "executing", "begin"}
  PROVE  FitOnward
BY HereFits, WayEnds DEF FitOnward

LEMMA FinalizeFits ==
  ASSUME Numbered, Finalize
  PROVE  FitOnward
<1>0. pc = "decide" /\ mem \in State
  BY HereFits DEF Finalize
<1>1. Whole(mem, made') /\ AllClosed(mem)
  BY <1>0, JudgingFits
<1> DEFINE p == IF Review(mem).verdict = "approved" THEN <<mem.final, mem.review>>
                ELSE mem.result
<1>2. CASE Ended(mem) \/ Left
  BY <1>2, FitEnds, HereFits
<1>3. CASE /\ mem' \in State /\ UNCHANGED <<disk, pc, run>>
           /\ mem'.phase = "completed" /\ mem'.result = p
           /\ mem'.status = mem.status
           /\ \A f \in Kept \ {"phase", "result"} : mem'[f] = mem[f]
           /\ \A f \in Beside \ {"plan"} : mem'[f] = mem[f]
  <2>1. /\ mem'.analyses = mem.analyses /\ mem'.asked = mem.asked
        /\ mem'.initial = mem.initial /\ mem'.counter = mem.counter /\ mem'.final = mem.final
    BY <1>3 DEF Kept
  <2>2. Fitting(mem', made', results') /\ Whole(mem', made')
    BY <1>1, <2>1, SettledFits
  <2>3. pc' = "decide" /\ mem'.phase # "executing"
    BY <1>0, <1>3
  <2>4. WayOK'
    BY <2>2, <2>3 DEF WayOK, Asking, Making, Judging
  <2> QED
    BY <2>2, <2>4 DEF FitOnward
<1> QED
  BY <1>0, <1>2, <1>3, FinalizeIs

LEMMA ApprovalFits ==
  ASSUME Numbered, Approve \/ Send \/ Waiting
  PROVE  FitOnward
<1>1. CASE Approve
  <2>1. pc = "decide"
    BY <1>1 DEF Approve, Deciding
  <2>2. pc' = "send" /\ \A f \in Kept \ {"result"} : mem'[f] = mem[f]
    BY <1>1, HereFits, ApproveIs
  <2>3. /\ mem'.analyses = mem.analyses /\ mem'.asked = mem.asked
        /\ mem'.initial = mem.initial /\ mem'.counter = mem.counter /\ mem'.final = mem.final
    BY <2>2 DEF Kept
  <2> QED
    BY <2>1, <2>2, <2>3, JudgingFits, WholeFits
<1>2. CASE Send
  <2>1. mem' = mem /\ pc' = "sent"
    BY <1>2 DEF Send, Goto
  <2> QED
    BY <2>1, StillFits DEF Asking, Making, Judging
<1>3. CASE Waiting
  <2>1. pc = "waiting"
    BY <1>3 DEF Waiting
  <2>2. pc' = "idle" /\ \A f \in Kept \ {"phase"} : mem'[f] = mem[f]
    BY <1>3, HereFits, WaitingIs
  <2>3. /\ mem'.analyses = mem.analyses /\ mem'.asked = mem.asked
        /\ mem'.initial = mem.initial /\ mem'.counter = mem.counter /\ mem'.final = mem.final
    BY <2>2 DEF Kept
  <2>4. Fitting(mem', made', results')
    BY <2>1, <2>3, JudgingFits, WholeFits
  <2>5. WayOK'
    BY <2>2, WayEnds DEF Asking, Making, Judging
  <2> QED
    BY <2>4, <2>5 DEF FitOnward
<1> QED
  BY <1>1, <1>2, <1>3

LEMMA OverFits ==
  ASSUME Numbered, SendFails \/ Sent \/ BlockedByReview \/ AskedAlready
  PROVE  FitOnward
<1>1. Ended(mem) \/ Left
  BY HereFits, EndsIs, SentIs DEF SendFails, BlockedByReview, AskedAlready
<1> QED
  BY <1>1, FitEnds, HereFits

LEMMA AskResearcherFits ==
  ASSUME Numbered, AskResearcher
  PROVE  FitOnward
<1> DEFINE s == Pending(mem, TRUE)
           r == EvidenceRequest(mem)
<1>0. mem \in State /\ pc = "decide"
  BY HereFits DEF AskResearcher, Deciding
<1>1. Whole(mem, made') /\ AllClosed(mem) /\ Review(mem).targets \in SUBSET Legal
  BY <1>0, JudgingFits, HereFits, DecidingIs
<1>2. s \in State /\ \A f \in Kept : s[f] = mem[f]
  BY <1>0, <1>1, PendingIs
<1>3. \/ Ended(s) \/ Left
      \/ mem' = [s EXCEPT !.active = r] /\ pc' = "waiting"
  BY <1>0, <1>1, AskResearcherIs
<1>4. r \in Request
  BY <1>0, RequestsAre
<1> HIDE DEF s, r
<1>5. CASE Ended(s) \/ Left
  <2>1. Fitting(s, made', results')
    BY <1>2, HereFits, FitsSame
  <2> QED
    BY <1>5, <2>1, FitEnds
<1>6. CASE mem' = [s EXCEPT !.active = r] /\ pc' = "waiting"
  <2>1. \A f \in Kept \ {"active"} : mem'[f] = s[f]
    BY <1>2, <1>4, <1>6, ActingIs
  <2>2. /\ mem'.analyses = mem.analyses /\ mem'.asked = mem.asked
        /\ mem'.initial = mem.initial /\ mem'.counter = mem.counter /\ mem'.final = mem.final
    BY <1>2, <2>1 DEF Kept
  <2> QED
    BY <1>1, <1>6, <2>2, WholeFits
<1> QED
  BY <1>3, <1>5, <1>6

\* A plan of what fits.
LEMMA PlannedFits ==
  ASSUME Numbered, NEW s \in State, NEW r \in Request, mem' = Planned(s, r), pc' = "planned",
         Whole(s, made'), AllClosed(s)
  PROVE  FitOnward
<1>1. \A f \in Kept \ {"phase", "active"} : mem'[f] = s[f]
  BY PlannedIs
<1>2. /\ mem'.analyses = s.analyses /\ mem'.asked = s.asked
      /\ mem'.initial = s.initial /\ mem'.counter = s.counter /\ mem'.final = s.final
  BY <1>1 DEF Kept
<1>3. Fitting(mem', made', results')
  BY <1>2, SettledFits
<1>4. WayOK'
  BY WayEnds DEF Asking, Making, Judging
<1> QED
  BY <1>3, <1>4 DEF FitOnward

LEMMA PlanInternalFits ==
  ASSUME Numbered, PlanInternal
  PROVE  FitOnward
<1> DEFINE s == Pending(mem, FALSE)
           ts == Review(mem).targets
           r == InternalRequest(s, ts)
<1>0. mem \in State /\ pc = "decide"
  BY HereFits DEF PlanInternal, Deciding
<1>1. Whole(mem, made') /\ AllClosed(mem) /\ ts \in SUBSET Legal
  BY <1>0, JudgingFits, HereFits, DecidingIs
<1>2. s \in State /\ \A f \in Kept : s[f] = mem[f]
  BY <1>0, <1>1, PendingIs
<1>3. \/ Ended(mem) \/ Ended(s) \/ Left
      \/ mem' = Planned(s, r) /\ pc' = "planned"
  BY <1>0, <1>1, PlanInternalIs
<1>4. r \in Request
  BY <1>1, <1>2, RequestsAre
<1> HIDE DEF s, r, ts
<1>5. Fitting(s, made', results') /\ Whole(s, made') /\ AllClosed(s)
  <2>1. /\ s.analyses = mem.analyses /\ s.asked = mem.asked
        /\ s.initial = mem.initial /\ s.counter = mem.counter /\ s.final = mem.final
    BY <1>2 DEF Kept
  <2> QED
    BY <1>1, <2>1, SettledFits
<1>6. CASE Ended(mem)
  BY <1>6, HereFits, FitEnds
<1>7. CASE Ended(s) \/ Left
  BY <1>5, <1>7, FitEnds
<1>8. CASE mem' = Planned(s, r) /\ pc' = "planned"
  BY <1>2, <1>4, <1>5, <1>8, PlannedFits
<1> QED
  BY <1>3, <1>6, <1>7, <1>8

LEMMA StopFits ==
  ASSUME Numbered, SavePlan \/ Stop
  PROVE  FitOnward
<1>1. CASE SavePlan
  <2>1. mem' = mem /\ pc' = "stop"
    BY <1>1 DEF SavePlan, Save, Goto
  <2> QED
    BY <2>1, StillFits DEF Asking, Making, Judging
<1>2. CASE Stop
  <2>1. pc = "stop"
    BY <1>2 DEF Stop
  <2>2. CASE Ended(mem)
    BY <2>2, HereFits, FitEnds
  <2>3. CASE Same(mem', mem) /\ pc' = pc
    <3>1. \A f \in Kept : mem'[f] = mem[f]
      BY <2>3 DEF Same
    <3>2. Fitting(mem', made', results')
      BY <3>1, HereFits, FitsSame
    <3>3. WayOK'
      BY <2>1, <2>3, WayEnds DEF Asking, Making, Judging
    <3> QED
      BY <3>2, <3>3 DEF FitOnward
  <2> QED
    BY <1>2, <2>2, <2>3, HereFits, StopIs
<1> QED
  BY <1>1, <1>2

LEMMA DecideFits ==
  ASSUME Numbered, Decide
  PROVE  FitOnward
BY FinalizeFits, ApprovalFits, OverFits, AskResearcherFits, PlanInternalFits, StopFits
   DEF Decide

-----------------------------------------------------------------------------
(* A revision.                                                               *)

\* What no revision is busy with fits.
LEMMA IdleWhole ==
  ASSUME Numbered, ~Finalize, ~Busy(mem, results)
  PROVE  /\ Whole(mem, made)
         /\ Whole(mem, made')
         /\ AllClosed(mem)
<1>1. Whole(mem, made)
  BY HereFits DEF Fitting
<1>2. AllClosed(mem)
  BY HereFits, Here DEF IInv, StatesInv, Good, OpenOK, Reworked, AllClosed
<1> QED
  BY <1>1, <1>2, HereFits

LEMMA ResumeFits ==
  ASSUME Numbered, Resume
  PROVE  FitOnward
<1>0. /\ mem \in State /\ disk \in State /\ pc = "idle" /\ inbox.number \in Nat /\ ~Finalize
      /\ WaitingOK(mem, reviews')
  BY HereFits, Here DEF Resume, Command, Finalize, IInv, TypeInv
<1>1. CASE Left
  BY <1>1, HereFits, FitEnds
<1>2. ASSUME NEW s \in State, NEW ts \in SUBSET Legal,
             mem.status = "WAITING_UPSTREAM_REVISION",
             \A f \in Kept \ {"result"} : s[f] = mem[f],
             \/ Ended(s) \/ Left
             \/ mem' = Planned(s, InternalRequest(s, ts)) /\ pc' = "planned"
      PROVE  FitOnward
  <2>1. ~Busy(mem, results)
    BY <1>0, <1>2 DEF WaitingOK, Busy
  <2>2. Whole(mem, made') /\ AllClosed(mem)
    BY <1>0, <2>1, IdleWhole
  <2>3. /\ s.analyses = mem.analyses /\ s.asked = mem.asked
        /\ s.initial = mem.initial /\ s.counter = mem.counter /\ s.final = mem.final
    BY <1>2 DEF Kept
  <2>4. Fitting(s, made', results') /\ Whole(s, made') /\ AllClosed(s)
    BY <2>2, <2>3, SettledFits
  <2>5. InternalRequest(s, ts) \in Request
    BY RequestsAre
  <2> QED
    BY <1>2, <2>4, <2>5, FitEnds, PlannedFits
<1>3. \/ Left
      \/ \E s \in State, ts \in SUBSET Legal :
           /\ mem.status = "WAITING_UPSTREAM_REVISION"
           /\ \A f \in Kept \ {"result"} : s[f] = mem[f]
           /\ \/ Ended(s) \/ Left
              \/ mem' = Planned(s, InternalRequest(s, ts)) /\ pc' = "planned"
  BY <1>0, ResumeIs
<1> QED
  BY <1>1, <1>2, <1>3

LEMMA ReviseFits ==
  ASSUME Numbered, Revise \/ Adopted
  PROVE  FitOnward
<1>1. mem' = mem /\ pc' \in {"authorize", "adopt"}
  BY DEF Revise, Adopted, Save, Goto
<1> QED
  BY <1>1, StillFits DEF Asking, Making, Judging

LEMMA AdoptFits ==
  ASSUME Numbered, Adopt
  PROVE  FitOnward
<1>0. mem \in State /\ requests \subseteq Request /\ pc = "adopt" /\ ~Finalize
  BY HereFits, KnownIs DEF Adopt, Finalize
<1>1. CASE Left
  BY <1>1, HereFits, FitEnds
<1>2. ASSUME NEW r \in Asked, r.result = mem.result, r \notin adopted,
             \A f \in Kept \ {"phase", "active"} : mem'[f] = mem[f], pc' = "adopted"
      PROVE  FitOnward
  <2>1. Whole(mem, made') /\ AllClosed(mem)
    BY <1>0, <1>2, AdoptIdle, IdleWhole, HereFits
  <2>2. /\ mem'.analyses = mem.analyses /\ mem'.asked = mem.asked
        /\ mem'.initial = mem.initial /\ mem'.counter = mem.counter /\ mem'.final = mem.final
    BY <1>2 DEF Kept
  <2>3. Fitting(mem', made', results')
    BY <2>1, <2>2, SettledFits
  <2>4. WayOK'
    BY <1>2, WayEnds DEF Asking, Making, Judging
  <2> QED
    BY <2>3, <2>4 DEF FitOnward
<1> QED
  BY <1>0, <1>1, <1>2, AdoptIs

LEMMA AuthorizeFits ==
  ASSUME Numbered, Authorize
  PROVE  FitOnward
<1>0. /\ mem \in State /\ slots \in Seq(Request) /\ reused \in BOOLEAN /\ ~reused'
      /\ pc = "authorize" /\ PlanOf(mem) /\ CountOK(mem)
  <2>1. pc = "authorize"
    BY Zenon DEF Authorize
  <2> QED
    BY <2>1, HereFits, Here, KnownIs DEF CommandInv
<1>1. ~Finalize /\ ~Busy(mem, results)
  BY <1>0 DEF Finalize, PlanOf, Busy
<1>2. Whole(mem, made') /\ AllClosed(mem)
  BY <1>1, IdleWhole
<1>3. PICK c \in Nat : c > mem.count /\ mem'.count = c
  BY <1>0, AuthorizeIs
<1>4. pc' = "executing" /\ \A f \in Kept \ {"phase", "count"} : mem'[f] = mem[f]
  BY <1>0, AuthorizeIs
<1>5. /\ mem'.analyses = mem.analyses /\ mem'.asked = mem.asked
      /\ mem'.initial = mem.initial /\ mem'.counter = mem.counter /\ mem'.final = mem.final
      /\ mem'.at = mem.at /\ mem'.history = mem.history
  BY <1>4 DEF Kept
<1>6. Fitting(mem', made', results') /\ Whole(mem', made')
  BY <1>2, <1>5, SettledFits
<1>7. /\ mem.count \in Nat /\ mem.at \in [Primary \union Stage -> Nat]
      /\ \A h \in mem.history : h.iteration \in Nat
  BY <1>0 DEF State, Revised
<1>8. /\ \A x \in Primary \union Stage : mem'.at[x] < mem'.count
      /\ \A h \in mem'.history : h.iteration < mem'.count
  BY <1>0, <1>3, <1>5, <1>7 DEF CountOK
<1>9. WayOK'
  BY <1>4, <1>6, <1>8 DEF WayOK, Asking, Making, Judging
<1> QED
  BY <1>6, <1>9 DEF FitOnward

LEMMA ExhaustedFits ==
  ASSUME Numbered, Stale \/ Exhausted
  PROVE  FitOnward
<1>0. mem \in State /\ pc = "authorize" /\ PlanOf(mem)
  BY HereFits DEF Stale, Exhausted, CommandInv
<1>1. ~Finalize /\ ~Busy(mem, results)
  BY <1>0 DEF Finalize, PlanOf, Busy
<1>2. Whole(mem, made') /\ AllClosed(mem)
  BY <1>1, IdleWhole
<1>3. CASE Left
  BY <1>3, HereFits, FitEnds
<1>4. CASE pc' = "idle" /\ \A f \in Kept \ {"phase", "count", "history"} : mem'[f] = mem[f]
  <2>1. /\ mem'.analyses = mem.analyses /\ mem'.asked = mem.asked
        /\ mem'.initial = mem.initial /\ mem'.counter = mem.counter /\ mem'.final = mem.final
    BY <1>4 DEF Kept
  <2>2. Fitting(mem', made', results')
    BY <1>2, <2>1, SettledFits
  <2>3. WayOK'
    BY <1>4, WayEnds DEF Asking, Making, Judging
  <2> QED
    BY <2>2, <2>3 DEF FitOnward
<1>5. Stale => Left
  BY <1>0, EndsIs DEF Stale
<1> QED
  BY <1>0, <1>3, <1>4, <1>5, ExhaustedIs

LEMMA ExecuteFits ==
  ASSUME Numbered, Execute
  PROVE  FitOnward
<1>1. pc = "executing" /\ pc' = "begin" /\ mem' = mem
  BY DEF Execute, Save, Goto
<1>2. /\ Whole(mem', made')
      /\ \A x \in Primary \union Stage : mem'.at[x] < mem'.count
      /\ \A h \in mem'.history : h.iteration < mem'.count
  BY <1>1, HereFits DEF WayOK
<1>3. WayOK'
  BY <1>1, <1>2 DEF WayOK, Asking, Making, Judging
<1> QED
  BY <1>1, <1>3, HereFits DEF FitOnward

\* The revision that begins gives up what it makes again.
LEMMA BeginFits ==
  ASSUME Numbered, Begin
  PROVE  FitOnward
<1> DEFINE r == mem.active
           ps == r.targets \intersect Primary
           lost == r.route = "internal" /\ mem.review = NoId
           c == mem.count
           todo == {Id(p, mem.count, 0) : p \in ps}
<1>0. /\ mem \in State /\ run \in Run /\ CommandInv /\ pc = "begin" /\ IInv /\ [Next]_vars
      /\ reviews \subseteq Judgement /\ r \in Request /\ r.targets \in SUBSET Legal
      /\ AuthorizedOK /\ c \in Nat /\ results' = results
  <2>1. /\ mem \in State /\ run \in Run /\ CommandInv /\ pc = "begin" /\ IInv /\ [Next]_vars
        /\ reviews \subseteq Judgement
    BY HereFits, Here DEF Begin
  <2>2. results' = results
    BY Zenon DEF Begin, exchange
  <2> QED
    BY <2>1, <2>2 DEF CommandInv, State, Request
<1>1. /\ Whole(mem, made') /\ AllClosed(mem)
      /\ \A x \in Primary \union Stage : mem.at[x] < c
      /\ \A g \in mem.history : g.iteration < c
  BY <1>0, HereFits DEF WayOK, AuthorizedOK
<1>2. r.route = "internal" => \E v \in reviews : v.id = r.review
  BY <1>0, BehindIs
<1>3. r.route \in {"internal", "conclusion"} /\ r.targets # {}
  BY <1>0 DEF IInv, StatesInv, PlanOK, AuthorizedOK
<1>4. CASE Left
  BY <1>4, HereFits, FitEnds
<1>5. ASSUME NEW s \in State,
             r.route = "internal" /\ ~lost => mem.plan \in {NoId, mem.review},
             \A f \in Kept \ {"review"} : s[f] = mem[f],
             mem' = History(s, r.targets),
             run' = [run EXCEPT !.then = "revise", !.recovery = 1,
                                !.first = FirstStage(r.targets),
                                !.todo = todo],
             pc' = IF ps # {} THEN "dispatch" ELSE "initial"
      PROVE  FitOnward
  <2> DEFINE h == [iteration |-> s.count, targets |-> r.targets]
  <2>1. /\ s.analyses = mem.analyses /\ s.count = c
        /\ s.at = mem.at /\ s.phase = mem.phase
        /\ s.history = mem.history /\ s.active = r /\ s.asked = mem.asked
        /\ s.initial = mem.initial /\ s.counter = mem.counter /\ s.final = mem.final
        /\ s.result = mem.result
    BY <1>5 DEF Kept
  <2>2. /\ (\A g \in s.history : g.iteration # s.count) => h \in mem'.history
        /\ \A f \in Kept \ {"history"} : mem'[f] = s[f]
    BY <1>0, <1>5, HistoryIs
  <2>3. /\ mem'.analyses = mem.analyses /\ mem'.at = mem.at /\ mem'.phase = mem.phase
        /\ mem'.active = r /\ mem'.asked = mem.asked
        /\ mem'.initial = mem.initial /\ mem'.counter = mem.counter
        /\ mem'.final = mem.final /\ mem'.result = mem.result
    BY <2>1, <2>2 DEF Kept
  <2>4. h \in mem'.history
    <3>1. \A g \in mem.history : g.iteration \in Nat
      BY <1>0 DEF State, Revised
    <3> QED
      BY <1>0, <1>1, <2>1, <2>2, <3>1
  <2>5. \A stage \in Stage : stage \in StagesOf(r.targets) => GivenUp(mem', stage)
    BY <1>1, <2>1, <2>3, <2>4 DEF GivenUp
  <2>6. /\ GivenUp(mem', "final")
        /\ FirstStage(r.targets) \in 1 .. 2
        /\ FirstStage(r.targets) = 1 => GivenUp(mem', "initial")
        /\ ps # {} => FirstStage(r.targets) = 1
    <3>1. /\ r.targets # {} => {"counter", "final", "review"} \subseteq StagesOf(r.targets)
          /\ r.targets \intersect Primary # {} => "initial" \in StagesOf(r.targets)
          /\ FirstStage(r.targets) \in 1 .. 2
          /\ FirstStage(r.targets) = 1 => "initial" \in StagesOf(r.targets)
      BY <1>0, StagesAre
    <3>2. ps # {} => FirstStage(r.targets) = 1
      BY <3>1 DEF FirstStage
    <3> QED
      BY <1>3, <2>5, <3>1, <3>2 DEF Stage
  <2>7. Busy(mem', results')
    <3>1. r.route = "internal" => mem.result[2] = NoId
      BY <1>0, <1>5, BeginUnapproved
    <3> QED
      BY <1>0, <1>3, <2>3, <3>1 DEF Busy, AuthorizedOK
  <2>8. Fitting(mem', made', results') /\ Whole(mem', made')
    BY <1>1, <2>3, SettledFits
  <2>9. run'.then = "revise" /\ run'.first = FirstStage(r.targets)
    BY <1>0, <1>5 DEF Run
  <2> HIDE DEF todo, ps, h, lost, r
  <2>10. run'.first \in 1 .. 2 /\ (pc' = "dispatch" => run'.first = 1)
         /\ pc' \in {"dispatch", "initial"}
    BY <1>5, <2>6, <2>9
  <2>11. CASE pc' = "dispatch"
    <3>1. WayOK'
      BY <2>6, <2>9, <2>10, <2>11 DEF WayOK, Asking, Making, Judging
    <3> QED
      BY <2>8, <3>1 DEF FitOnward
  <2>12. CASE pc' = "initial"
    <3>1. InitialFits(mem', made') /\ (run'.first <= 1 => Void(mem', "initial"))
      BY <2>6, <2>8, <2>9, <2>10 DEF Whole, Void
    <3>2. WayOK'
      BY <2>6, <2>7, <2>10, <2>12, <3>1 DEF WayOK, Asking, Making, Judging
    <3> QED
      BY <2>8, <3>2 DEF FitOnward
  <2> QED
    BY <2>10, <2>11, <2>12
<1>6. \/ Left
      \/ \E s \in State :
           /\ r.route = "internal" /\ ~lost => mem.plan \in {NoId, mem.review}
           /\ \A f \in Kept \ {"review"} : s[f] = mem[f]
           /\ mem' = History(s, r.targets)
           /\ run' = [run EXCEPT !.then = "revise", !.recovery = 1,
                                 !.first = FirstStage(r.targets),
                                 !.todo = todo]
           /\ pc' = IF ps # {} THEN "dispatch" ELSE "initial"
  BY <1>0, <1>2, BeginIs
<1> HIDE DEF r, ps, lost, c, todo
<1> QED
  BY <1>4, <1>5, <1>6

LEMMA RevisionFits ==
  ASSUME Numbered, Revision
  PROVE  FitOnward
BY ReviseFits, AdoptFits, AuthorizeFits, ExhaustedFits, ExecuteFits, BeginFits DEF Revision

-----------------------------------------------------------------------------
(* Recovery, and what is around a command.                                   *)

LEMMA RecoverFits ==
  ASSUME Numbered, ProviderRetry \/ Recover \/ NotRecoverable \/ NeedsRetry \/ TooFew
  PROVE  FitOnward
<1>1. Ended(mem) \/ Left \/ (pc' = "recover" /\ mem' = mem)
  BY HereFits, EndsIs, TooFewIs DEF ProviderRetry, Recover, Grant, Goto, NotRecoverable, NeedsRetry
<1>2. CASE Ended(mem) \/ Left
  BY <1>2, HereFits, FitEnds
<1>3. CASE pc' = "recover" /\ mem' = mem
  BY <1>3, StillFits DEF Asking, Making, Judging
<1> QED
  BY <1>1, <1>2, <1>3

LEMMA RecoverBeginsFits ==
  ASSUME Numbered, RecoverBegins
  PROVE  FitOnward
<1> DEFINE t == Closed(mem)
<1>0. mem \in State /\ pc = "recover" /\ ~Finalize
  BY HereFits DEF RecoverBegins, Finalize
<1>1. Same(mem', t) /\ pc' = "primaries"
  BY <1>0, RecoverBeginsIs
<1>2. /\ \A g \in mem.history : \E h \in t.history :
           /\ h.iteration = g.iteration
           /\ h.targets = g.targets \/ h.targets = g.targets \union Missing(mem)
      /\ \A f \in Kept \ {"history"} : t[f] = mem[f]
  BY <1>0, ClosedIs
<1>3. /\ mem'.analyses = mem.analyses /\ mem'.at = mem.at /\ mem'.phase = mem.phase
      /\ mem'.history = t.history /\ mem'.active = mem.active /\ mem'.asked = mem.asked
      /\ mem'.initial = mem.initial /\ mem'.counter = mem.counter
      /\ mem'.final = mem.final /\ mem'.result = mem.result
  BY <1>1, <1>2, SameIs DEF Kept
<1>4. \A stage : GivenUp(mem, stage) => GivenUp(mem', stage)
  BY <1>0, <1>2, <1>3, ClosedGivenUp
<1> HIDE DEF t
<1>5. Artifacts(mem') = Artifacts(mem) /\ (AllClosed(mem) => AllClosed(mem'))
      /\ (Busy(mem, results') => Busy(mem', results'))
  BY <1>3, OpenAlike DEF Artifacts, Busy
<1>6. Fitting(mem', made', results')
  BY <1>4, <1>5, HereFits, FitsAlike
<1>7. WayOK'
  BY <1>1, WayEnds DEF Asking, Making, Judging
<1> QED
  BY <1>6, <1>7 DEF FitOnward

\* What is dropped had been given up.
LEMMA ClosingFits ==
  ASSUME Numbered, pc = "primaries"
  PROVE  LET t == Closing(mem)
         IN /\ t \in State /\ Fitting(t, made', results')
            /\ AllClosed(mem) => t.analyses = mem.analyses
            /\ t.initial = mem.initial /\ t.counter = mem.counter /\ t.final = mem.final
<1> DEFINE t == Closing(mem)
<1>0. /\ mem \in State /\ ~Finalize /\ IInv /\ [Next]_vars
      /\ AskedOK(mem, paid') /\ OpenOK(mem, reviews, results)
  BY HereFits, Here DEF Finalize, IInv, StatesInv, Good
<1>1. /\ t \in State /\ AllClosed(t)
      /\ \A p \in Primary : mem.analyses[p] \notin {NoId, t.analyses[p]} => Open(mem, p)
  BY <1>0, ClosingStep
<1>2. /\ \A p \in Primary : t.analyses[p] = IF p \in Valid(mem) THEN mem.analyses[p] ELSE NoId
      /\ \A f \in Kept \ {"analyses"} : t[f] = mem[f]
  BY <1>0, ClosingIs
<1> HIDE DEF t
<1>3. /\ t.history = mem.history /\ t.at = mem.at /\ t.asked = mem.asked
      /\ t.phase = mem.phase /\ t.active = mem.active /\ t.result = mem.result
      /\ t.initial = mem.initial /\ t.counter = mem.counter /\ t.final = mem.final
  BY <1>2 DEF Kept
<1>4. ASSUME AllClosed(mem) PROVE t.analyses = mem.analyses
  <2>1. \A p \in Primary : t.analyses[p] = mem.analyses[p]
    BY <1>1, <1>2, <1>4 DEF AllClosed
  <2> QED
    BY <1>0, <1>1, <2>1 DEF State
<1>5. Fitting(t, made', results')
  <2>1. CASE AllClosed(mem)
    <3>1. \A f \in Kept : t[f] = mem[f]
      BY <1>2, <1>4, <2>1
    <3> QED
      BY <3>1, HereFits, FitsSame
  <2>2. CASE ~AllClosed(mem)
    <3>1. Void(mem, "initial") /\ (Void(mem, "final") \/ FinalFits(mem, made'))
      BY <2>2, HereFits DEF Fitting
    <3>2. Void(t, "initial") /\ (Void(t, "final") \/ FinalFits(t, made'))
      BY <1>3, <3>1, GivenUpAlike DEF Void, FinalFits
    <3>3. Busy(mem, results)
      BY <1>0, <2>2 DEF AllClosed, OpenOK, Reworked
    <3>4. Busy(t, results')
      BY <1>0, <1>3, <3>3, HereFits DEF Busy
    <3> QED
      BY <1>1, <3>2, <3>4 DEF Fitting
  <2> QED
    BY <2>1, <2>2
<1> QED
  BY <1>1, <1>3, <1>4, <1>5 DEF t

LEMMA RecoverPrimariesFits ==
  ASSUME Numbered, RecoverPrimaries
  PROVE  FitOnward
<1> DEFINE t == Closing(mem)
           todo == {TaskAgain(mem, p) : p \in Incomplete(mem)}
<1>0. /\ mem \in State /\ run \in Run /\ pc = "primaries" /\ mem = disk
      /\ run.then = "recover"
  <2>1. pc = "primaries"
    BY DEF RecoverPrimaries
  <2> QED
    BY <2>1, HereFits DEF CommandInv
<1>1. /\ t \in State /\ Fitting(t, made', results')
      /\ AllClosed(mem) => t.analyses = mem.analyses
      /\ t.initial = mem.initial /\ t.counter = mem.counter /\ t.final = mem.final
  BY <1>0, ClosingFits
<1> HIDE DEF t
<1>2. CASE Ended(t)
  BY <1>1, <1>2, FitEnds
<1>3. CASE mem' = t /\ disk' = disk /\ pc' = "checkpoints"
  <2>1. WayOK'
    BY <1>0, <1>1, <1>3 DEF WayOK, Asking, Making, Judging
  <2> QED
    BY <1>1, <1>3, <2>1 DEF FitOnward
<1>4. CASE mem' = Cleared(t, 1) /\ pc' = "dispatch" /\ run' = [run EXCEPT !.todo = todo]
  <2>1. mem'.initial = NoId /\ mem'.final = NoId
    BY <1>1, <1>4, ClearedIs
  <2>2. Fitting(mem', made', results')
    <3>1. Whole(mem', made')
      BY <2>1, HereFits, NothingFits
    <3> QED
      BY <2>1, <3>1, FitsVoid DEF Void
  <2>3. run'.then = "recover"
    BY <1>0, <1>4 DEF Run
  <2>4. WayOK'
    BY <1>4, <2>1, <2>3 DEF WayOK, Asking, Making, Judging
  <2> QED
    BY <2>2, <2>4 DEF FitOnward
<1> QED
  BY <1>0, <1>2, <1>3, <1>4, RecoverPrimariesIs DEF t

\* The checkpoints before the first that is lost fit.
LEMMA RecoverCheckpointsFits ==
  ASSUME Numbered, RecoverCheckpoints
  PROVE  FitOnward
<1> DEFINE n == FirstMissing(mem)
<1>0. /\ mem \in State /\ disk \in State /\ run \in Run /\ pc = "checkpoints"
      /\ AllClosed(mem) /\ mem.at = disk.at /\ mem.history = disk.history
      /\ mem.initial = disk.initial /\ mem.counter = disk.counter /\ mem.final = disk.final
      /\ AllClosed(disk) => mem.analyses = disk.analyses
  <2>1. pc = "checkpoints"
    BY DEF RecoverCheckpoints
  <2> QED
    BY <2>1, HereFits DEF CommandInv, WayOK
<1>1. /\ n \in 1 .. 5
      /\ n > 1 => mem.initial # NoId /\ ~GivenUp(mem, "initial")
      /\ n > 3 => mem.final # NoId /\ ~GivenUp(mem, "final")
  BY <1>0, FirstMissingIs
<1>2. \/ /\ n \in 1 .. 4 /\ mem' = Cleared(mem, n) /\ pc' = "initial"
         /\ run' = [run EXCEPT !.first = n, !.reuse = n < 4 \/ ~run.again]
      \/ n = 5 /\ pc' = "decide" /\ mem' = mem /\ disk' = disk
  BY <1>0, RecoverCheckpointsIs
<1>3. /\ n > 1 => InitialFits(mem, made')
      /\ n > 3 => FinalFits(mem, made')
  BY <1>1, HereFits DEF Fitting, Void
<1> HIDE DEF n
<1>4. CASE /\ n \in 1 .. 4 /\ mem' = Cleared(mem, n) /\ pc' = "initial"
           /\ run' = [run EXCEPT !.first = n, !.reuse = n < 4 \/ ~run.again]
  <2>1. /\ mem'.initial = IF n <= 1 THEN NoId ELSE mem.initial
        /\ mem'.counter = IF n <= 2 THEN NoId ELSE mem.counter
        /\ mem'.final = IF n <= 3 THEN NoId ELSE mem.final
        /\ mem'.analyses = mem.analyses /\ mem'.asked = mem.asked
    BY <1>0, <1>4, ClearedIs
  <2>2. InitialFits(mem', made')
    <3>1. CASE n = 1
      BY <2>1, <3>1, HereFits, NothingFits
    <3>2. CASE n > 1
      BY <1>3, <1>4, <2>1, <3>2 DEF InitialFits, Analysed
    <3> QED
      BY <1>4, <3>1, <3>2
  <2>3. FinalFits(mem', made')
    <3>1. CASE n <= 3
      BY <2>1, <3>1, HereFits, NothingFits
    <3>2. CASE n > 3
      BY <1>3, <1>4, <2>1, <3>2 DEF FinalFits
    <3> QED
      BY <1>4, <3>1, <3>2
  <2>4. AllClosed(mem') /\ Whole(mem', made')
    BY <1>0, <2>1, <2>2, <2>3, OpenAlike DEF Whole
  <2>5. Fitting(mem', made', results')
    BY <2>4, FitsWhole
  <2>6. run'.first = n
    BY <1>0, <1>4 DEF Run
  <2>7. /\ run'.first <= 3 => mem'.final = NoId
        /\ run'.first <= 1 => Void(mem', "initial")
    BY <1>4, <2>1, <2>6 DEF Void
  <2>8. WayOK'
    BY <1>4, <2>2, <2>4, <2>7 DEF WayOK, Asking, Making, Judging
  <2> QED
    BY <2>5, <2>8 DEF FitOnward
<1>5. CASE n = 5 /\ pc' = "decide" /\ mem' = mem /\ disk' = disk
  <2>1. Whole(mem, made')
    BY <1>3, <1>5 DEF Whole
  <2>2. AllClosed(disk)
    <3>1. ~Void(disk, "initial")
      BY <1>0, <1>1, <1>5, GivenUpAlike DEF Void
    <3> QED
      BY <3>1, HereFits DEF Fitting
  <2>3. Artifacts(disk) = Artifacts(mem)
    BY <1>0, <2>2 DEF Artifacts
  <2>4. WayOK'
    BY <1>5, <2>1, <2>3 DEF WayOK, Asking, Making, Judging
  <2> QED
    BY <1>5, <2>4, HereFits DEF FitOnward
<1> QED
  BY <1>2, <1>4, <1>5

LEMMA RecoveryFits ==
  ASSUME Numbered, Recovery
  PROVE  FitOnward
BY RecoverFits, RecoverBeginsFits, RecoverPrimariesFits, RecoverCheckpointsFits DEF Recovery

LEMMA AroundFits ==
  ASSUME Numbered, Around \/ UNCHANGED vars
  PROVE  FitOnward
<1>1. CASE Crash
  <2>1. Left
    BY <1>1 DEF Crash, Leave, End, Left
  <2> QED
    BY <2>1, FitEnds, HereFits
<1>2. CASE ResearcherReplies \/ ResearcherFiles \/ ConclusionAsks \/ UNCHANGED vars
  <2>1. UNCHANGED <<disk, mem, pc, run, made>>
    BY <1>2 DEF ResearcherReplies, ResearcherFiles, ConclusionAsks, vars, calls, exchange
  <2>2. ~Finalize
    <3> SUFFICES ASSUME Finalize PROVE FALSE
      OBVIOUS
    <3>1. pc = "decide"
      BY DEF Finalize
    <3>2. mem.phase = "executing" /\ (Ended(mem) \/ Left \/ mem'.phase = "completed")
      BY HereFits, FinalizeIs
    <3> QED
      BY <2>1, <3>1, <3>2 DEF Ended, Left
  <2>3. Busy(mem, results) => Busy(mem, results')
    BY <2>2, HereFits
  <2>4. WayOK'
    BY <2>1, <2>3, HereFits DEF WayOK, Void
  <2> QED
    BY <2>1, <2>4, HereFits DEF FitOnward
<1> QED
  BY <1>1, <1>2 DEF Around

\* Only a decision sends.
LEMMA SendsOnly ==
  ASSUME [Next]_vars, ~Send
  PROVE  outbox' = outbox
<1>1. AskResearcher \/ PlanInternal \/ Finalize \/ Resume \/ Adopt => outbox' = outbox
  BY DEF AskResearcher, PlanInternal, Finalize, Resume, Adopt
<1>2. ResearcherFiles \/ ConclusionAsks => outbox' = outbox
  BY DEF ResearcherFiles, ConclusionAsks
<1> QED
  BY <1>1, <1>2, FilersAre

LEMMA StepFits ==
  ASSUME Numbered
  PROVE  FitOnward
BY HereFits, LineFits, DecideFits, ResumeFits, RevisionFits, RecoveryFits, AroundFits DEF Next

\* What lies in Conclusion's inbox fits.
LEMMA OutboxFits ==
  ASSUME Numbered
  PROVE  (Handed => Fits)'
<1>1. CASE Send
  <2>1. outbox' = [result |-> mem.result, about |-> Artifacts(mem), report |-> mem.report]
        /\ pc = "send"
    BY <1>1 DEF Send
  <2>2. Whole(mem, made')
    BY <2>1, JudgingFits
  <2>3. /\ outbox'.about[1] = mem.analyses /\ outbox'.about[2] = mem.initial
        /\ outbox'.about[3] = mem.counter /\ outbox'.about[4] = mem.final
    BY <2>1 DEF Artifacts
  <2> QED
    BY <2>2, <2>3 DEF Fits, MadeFrom, Whole, InitialFits, FinalFits, MadeOn, Analysed
<1>2. CASE ~Send
  <2>1. outbox' = outbox
    <3>1. IInv /\ [Next]_vars
      BY HereFits
    <3> QED
      BY <1>2, <3>1, SendsOnly
  <2>2. SUFFICES ASSUME Handed PROVE Fits'
    BY <2>1 DEF Handed
  <2>3. Fits /\ outbox.about[2] \in paid \union {NoId} /\ outbox.about[4] \in paid \union {NoId}
    BY <2>2 DEF Numbered, FitInv, MadeInv
  <2>4. \A id \in paid \union {NoId} : \A on : MadeOn(id, on, made) => MadeOn(id, on, made')
    BY MadeStays DEF Numbered
  <2> DEFINE o == outbox.about
             on == {o[1][p] : p \in Primary} \ {NoId}
  <2>5. MadeOn(o[2], on, made) /\ MadeOn(o[4], {o[2], o[3]}, made)
    BY <2>3 DEF Fits, MadeFrom, MadeOn
  <2>6. MadeOn(o[2], on, made') /\ MadeOn(o[4], {o[2], o[3]}, made')
    BY <2>3, <2>4, <2>5
  <2> QED
    BY <2>1, <2>6 DEF Fits, MadeFrom, MadeOn
<1> QED
  BY <1>1, <1>2

LEMMA FitInvStep ==
  ASSUME Numbered
  PROVE  FitInv'
<1>1. Fitting(mem', made', results') /\ WayOK'
  BY StepFits DEF FitOnward
<1>2. Fitting(disk', made', results')
  BY <1>1, HereFits, DiskIs
<1> QED
  BY <1>1, <1>2, OutboxFits DEF FitInv

-----------------------------------------------------------------------------
(* The second invariant.                                                     *)

LEMMA NumberedStep == IInv /\ NumberedInv /\ [Next]_vars => NumberedInv'
<1> SUFFICES ASSUME IInv, NumberedInv, [Next]_vars PROVE NumberedInv'
  OBVIOUS
<1>1. MadeInv'
  BY MadeInvStep DEF NumberedInv
<1>2. reused => reused'
  BY RecordsGrow DEF IInv, Grown
<1>3. ~reused' => FitInv'
  BY <1>2, FitInvStep DEF Numbered, NumberedInv
<1> QED
  BY <1>1, <1>3 DEF NumberedInv

LEMMA NumberedInit == Init => NumberedInv
<1> SUFFICES ASSUME Init PROVE NumberedInv
  OBVIOUS
<1>1. /\ disk = NewState /\ mem = NewState /\ pc = "dispatch" /\ made = {} /\ results = {}
      /\ outbox.result = <<NoId, NoId>> /\ paid = {}
      /\ run.then = "start"
  BY DEF Init, NoRun
<1>2. /\ NewState.initial = NoId /\ NewState.counter = NoId /\ NewState.final = NoId
      /\ NewState.heard = {}
  BY DEF NewState
<1>3. ~Handed
  BY <1>1 DEF Handed
<1>4. MadeInv
  BY <1>1, <1>2, <1>3 DEF MadeInv, NamedOK, Named
<1>5. Fitting(NewState, made, results)
  <2>1. Whole(NewState, made)
    BY <1>1 DEF Whole, InitialFits, FinalFits, MadeOn
  <2> QED
    BY <1>2, <2>1, FitsVoid DEF Void
<1>6. WayOK
  BY <1>1, <1>2 DEF WayOK, Asking, Making, Judging
<1> QED
  BY <1>1, <1>3, <1>4, <1>5, <1>6 DEF NumberedInv, FitInv

\* As long as each revision has a number of its own, whatever lies beside an
\* integration is what it was made from, or a revision has given it up
\* (_integrate_and_review, _checkpoint_is_current).
THEOREM NumberedInvariant == Spec => []NumberedInv
<1>1. IInv /\ NumberedInv /\ [Next]_vars => NumberedInv'
  BY NumberedStep
<1> QED
  BY <1>1, Invariant, NumberedInit, PTL DEF Spec

\* Conclusion gets an integration made from the analyses it gets, and a final one
\* made from that integration and that counterargument: no stop, retry or revision
\* leaves a checkpoint of earlier input in place (_clear_recovery_checkpoints).
THEOREM CheckpointsFit == Spec => []CheckpointsFitTogether
<1>1. NumberedInv => CheckpointsFitTogether
  BY DEF NumberedInv, FitInv, CheckpointsFitTogether
<1> QED
  BY <1>1, NumberedInvariant, PTL
================================================================================
