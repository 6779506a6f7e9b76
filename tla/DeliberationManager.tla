-------------------------- MODULE DeliberationManager --------------------------
(***************************************************************************)
(* The Deliberation Manager of one workflow in Demo Safe Mode              *)
(* (deliberation/manager.py): primary analyses of a Research Report, their *)
(* integration, the counterargument, the final integration with its        *)
(* validation, the Quality Review, and what a review or Conclusion leads   *)
(* to: a handoff, a plan that waits for the operator, or a request to the  *)
(* Researcher.                                                             *)
(*                                                                         *)
(* One command runs at a time, saves the state as it goes and may stop     *)
(* between two saves.  Safe Mode pays for each logical task id once, so an *)
(* artifact is named by the id of the call that made it.  The files of an  *)
(* exchange are RevisionExchange's, the Researcher's decisions             *)
(* EvidenceGate's, a call in flight ProviderLedger's: each is one step.    *)
(***************************************************************************)
EXTENDS Integers, Sequences, FiniteSets

CONSTANTS
  Primary,       \* the primary analysts
  Targets,       \* what a review or Conclusion may ask to be done again
  MaxRevisions,  \* revision limit: one slot less for internal requests
  MaxUpstream,   \* bound: requests to the Researcher
  MaxConclusion, \* bound: requests of Conclusion
  MaxCommands,   \* bound: commands after start
  MaxTrouble     \* bound: crashes and calls that fail

Manager == "manager"
Counter == "counter"

ASSUME TargetsAssumption ==
  /\ IsFiniteSet(Primary)
  /\ \A ts \in Targets : ts \subseteq Primary \union {Manager, Counter} /\ ts # {}

ASSUME NamesAssumption ==
  Primary \intersect {Manager, Counter, "initial", "final", "review", "none"} = {}

ASSUME LimitAssumption ==
  {MaxRevisions, MaxUpstream, MaxConclusion, MaxCommands, MaxTrouble}
    \subseteq Nat

VARIABLES
  disk,      \* the saved DeliberationWorkflowState
  mem,       \* the copy the running command works on
  pc,        \* where it is
  run,       \* what it has learnt, and what it does next
  ended,     \* how the last command ended
  commands,  \* how many have been given
  trouble,   \* how many crashes and failed calls there have been
  paid,      \* logical task ids that are reserved
  retries,   \* those with an operator retry authorization
  made,      \* integrations and counterarguments: what they were made from
  reviews,   \* verdicts of the Quality Reviewer, by id
  requests,  \* revision requests written
  slots,     \* internal requests that hold a budget slot, in order
  spent,     \* requests whose authorization is consumed
  adopted,   \* requests of Conclusion with an audit event
  results,   \* canonical results of requests
  inbox,     \* the Researcher's latest handoff
  outbox,    \* what lies in Conclusion's inbox
  reused     \* a revision was authorized under a number that was in use already

calls    == <<trouble, paid, retries, made, reviews>>
exchange == <<requests, slots, spent, adopted, results, reused>>
vars     == <<disk, mem, pc, run, ended, commands, calls, exchange, inbox, outbox>>

-----------------------------------------------------------------------------
(* The state.                                                              *)

\* A logical task: the agent, the revision in its name, the recovery or the
\* fresh task it is, whether it is an operator retry, and the artifacts whose
\* digest a review's id may carry.
Id(agent, rev, mark) ==
  [agent |-> agent, rev |-> rev, mark |-> mark, retry |-> FALSE, of |-> <<>>]

NoId == Id("none", 0, 0)

RetryOf(id) == [id EXCEPT !.retry = TRUE]

NoRequest == [route |-> "none", epoch |-> 0, review |-> NoId, targets |-> {},
              final |-> NoId, report |-> 0, result |-> <<NoId, NoId>>]

Stage == {"initial", "counter", "final", "review"}

Status == {"RUNNING", "COLLECTING", "PARTIALLY_COMPLETED", "INTEGRATING",
           "REVIEWING", "REVISING", "BLOCKED", "WAITING_UPSTREAM_REVISION",
           "APPROVED", "COMPLETED", "FAILED"}

Phase == {"idle", "authorization_required", "executing", "completed",
          "waiting_upstream_result", "blocked"}

\* at: the revision an artifact was recorded in (checkpoint_revisions); asked,
\* shown: the requests to the analysts and to the reviewer in the message history;
\* heard: the answers of the reviewer and of the counterargument in it;
\* primaryError, reviewError: the last errors of theirs that may be retried;
\* faults: those of the Manager's own calls
NewState == [status |-> "RUNNING", report |-> 1, analyses |-> [p \in Primary |-> NoId],
             failed |-> {}, initial |-> NoId, counter |-> NoId,
             final |-> NoId, review |-> NoId, result |-> <<NoId, NoId>>,
             at |-> [x \in Primary \union Stage |-> 0],
             asked |-> {}, shown |-> {}, heard |-> {}, faults |-> <<>>,
             primaryError |-> NoId, reviewError |-> NoId,
             count |-> 0, history |-> {}, phase |-> "idle", epoch |-> 0,
             active |-> NoRequest, consumed |-> {}, plan |-> NoId, planned |-> {},
             awaiting |-> FALSE, handoff |-> 1]

\* todo: primary tasks; got: answers not recorded yet; then: what follows; first:
\* the stage the line begins at; recovery: the mark of its ids; reuse: a saved
\* verdict will do; again: a blocked workflow is reviewed once more; id: the
\* artifact or the verdict a call has brought
NoRun == [todo |-> {}, got |-> {}, failures |-> 0, then |-> "start", first |-> 1,
          recovery |-> 0, reuse |-> TRUE, again |-> FALSE, id |-> NoId]

Init ==
  /\ disk = NewState /\ mem = NewState
  /\ pc = "dispatch"
  /\ run = [NoRun EXCEPT !.todo = {Id(p, 0, 0) : p \in Primary}]
  /\ ended = "none" /\ commands = 0 /\ trouble = 0
  /\ paid = {} /\ retries = {} /\ made = {} /\ reviews = {}
  /\ requests = {} /\ slots = <<>> /\ spent = {} /\ adopted = {} /\ results = {}
  /\ reused = FALSE
  /\ inbox = [number |-> 1, request |-> NoRequest, kind |-> "completed"]
  /\ outbox = [result |-> <<NoId, NoId>>, about |-> <<>>, report |-> 0]

Save(s) == disk' = s /\ mem' = s

Goto(l) == pc' = l /\ UNCHANGED ended

End(how) == pc' = "idle" /\ run' = NoRun /\ ended' = how

SaveAndEnd(s, how) == Save(s) /\ End(how)

\* A refusal, an exception nobody catches, a return without a save.
Leave(how) == End(how) /\ mem' = disk /\ UNCHANGED disk

Fail(s) == SaveAndEnd([s EXCEPT !.status = "FAILED"], "failed")

Block(s) == SaveAndEnd([s EXCEPT !.status = "BLOCKED"], "blocked")

Command ==
  /\ pc = "idle"
  /\ commands < MaxCommands
  /\ commands' = commands + 1

\* The stages a revision of these targets makes again, from the first one on.
\* (_revision_stages)
StagesOf(ts) ==
  IF ts \intersect (Primary \union {Manager}) # {} THEN Stage
  ELSE IF Counter \in ts THEN Stage \ {"initial"} ELSE {}

\* (Faulty: an analyst's new analysis is not integrated.)
FirstStage_Manager(ts) == IF Manager \in ts THEN 1 ELSE 2

FirstStage(ts) == IF "initial" \in StagesOf(ts) THEN 1 ELSE 2

\* (Faulty: any checkpoint is.)
CheckpointIsCurrent_Any(s, stage) == TRUE

\* A checkpoint is current when it is not older than the last revision that makes
\* it again.
CheckpointIsCurrent(s, stage) ==
  \A h \in s.history : stage \in StagesOf(h.targets) => s.at[stage] >= h.iteration

\* _clear_recovery_checkpoints, from the n-th stage on
Cleared(s, n) ==
  [s EXCEPT !.initial = IF n <= 1 THEN NoId ELSE @,
            !.counter = IF n <= 2 THEN NoId ELSE @,
            !.final = IF n <= 3 THEN NoId ELSE @,
            !.review = NoId,
            !.result = IF n = 4 THEN <<@[1], NoId>> ELSE @]

-----------------------------------------------------------------------------
(* Calls.                                                                  *)

\* An id is paid for once; the answer of a reserved one is an error.
Outcomes(id) ==
  IF id \in paid THEN {"error"}
  ELSE IF trouble < MaxTrouble THEN {"result", "retryable", "error"} ELSE {"result"}

Trouble(ids, failed) == trouble' = trouble + (IF failed /\ ids \ paid # {} THEN 1 ELSE 0)

\* _execute_primary_tasks: the requests are saved, then all are sent at once.
Dispatch ==
  /\ pc = "dispatch"
  /\ Save([mem EXCEPT !.status = "COLLECTING", !.asked = @ \union run.todo])
  /\ Goto("gather")
  /\ UNCHANGED <<run, commands, calls, exchange, inbox, outbox>>

Gather ==
  /\ pc = "gather"
  /\ \E f \in [run.todo -> {"result", "retryable", "error"}] :
       /\ \A id \in run.todo : f[id] \in Outcomes(id)
       /\ run' = [run EXCEPT !.got = {<<id, f[id]>> : id \in run.todo}, !.failures = 0]
       /\ Trouble({id \in run.todo : f[id] # "result"}, TRUE)
  /\ paid' = paid \union run.todo
  /\ Goto("record")
  /\ UNCHANGED <<disk, mem, commands, retries, made, reviews, exchange, inbox, outbox>>

Recorded(s, id, kind) ==
  IF kind = "result"
  THEN [s EXCEPT !.analyses[id.agent] = id, !.failed = @ \ {id.agent},
                 !.at[id.agent] = s.count]
  ELSE [s EXCEPT !.failed = @ \union {id.agent},
                 !.primaryError = IF kind = "retryable" THEN id ELSE @]

\* The answers are recorded in the order of the tasks and saved one by one: a stop
\* loses the others.
Record ==
  /\ pc = "record"
  /\ run.got # {}
  /\ LET x == CHOOSE x \in run.got : TRUE
     IN /\ Save(Recorded(mem, x[1], x[2]))
        /\ run' = [run EXCEPT !.got = @ \ {x},
                              !.failures = IF x[2] = "result" THEN @ ELSE @ + 1]
  /\ UNCHANGED <<pc, ended, commands, calls, exchange, inbox, outbox>>

\* start() goes on with two of three, a revision with all of its tasks.
Collected ==
  LET done == Cardinality(run.todo) - run.failures
      s == [mem EXCEPT !.status = IF run.failures = 0 THEN "RUNNING"
                                  ELSE "PARTIALLY_COMPLETED"]
  IN /\ pc = "record"
     /\ run.got = {}
     /\ \/ /\ run.then = "start" /\ done = 0 /\ Fail(s)
        \/ /\ run.then = "start" /\ done = 1 /\ Block(s)
        \/ /\ run.then = "revise" /\ run.failures > 0 /\ Fail(s)
        \/ /\ run.then = "start" => done >= 2
           /\ run.then = "revise" => run.failures = 0
           /\ Save(s)
           /\ Goto(IF run.then = "recover" THEN "checkpoints" ELSE "initial")
           /\ UNCHANGED run
     /\ UNCHANGED <<commands, calls, exchange, inbox, outbox>>

Analysed(s) == {s.analyses[p] : p \in Primary} \ {NoId}

Faulty(s, stage) ==
  \/ stage = "initial" /\ s.initial = NoId
  \/ stage = "final" /\ s.final = NoId

\* _current_manager_provider_failure: the last one whose artifact is missing.
CurrentFault(s) ==
  LET open == {i \in DOMAIN s.faults : Faulty(s, s.faults[i].agent)}
  IN IF open = {} THEN NoId
     ELSE s.faults[CHOOSE i \in open : \A j \in open : j <= i]

\* _manager_integration_task_id
ManagerId(s, stage) ==
  LET fault == CurrentFault(s)
      base == Id(stage, s.count, run.recovery)
  IN IF fault.agent = stage /\ fault \in retries THEN RetryOf(fault)
     ELSE IF base \in retries THEN RetryOf(base) ELSE base

\* _integrate_manager_stage: what a call for the stage brings, or its failure.
Integrate(stage, on, next) ==
  LET id == ManagerId(mem, stage)
  IN /\ paid' = paid \union {id}
     /\ \E k \in Outcomes(id) :
          /\ Trouble({id}, k # "result")
          /\ \/ /\ k = "result"
                /\ made' = made \union {[id |-> id, on |-> on, report |-> mem.report]}
                /\ run' = [run EXCEPT !.id = id]
                /\ Goto(next)
                /\ UNCHANGED <<disk, mem>>
             \/ /\ k # "result"
                /\ Fail([mem EXCEPT !.faults = IF k = "retryable" THEN Append(@, id) ELSE @])
                /\ UNCHANGED made
     /\ UNCHANGED <<commands, retries, reviews, exchange, inbox, outbox>>

-----------------------------------------------------------------------------
(* _integrate_and_review: from the first stage that is to be made again.   *)

Initial ==
  /\ pc = "initial"
  /\ \/ /\ run.first <= 1
        /\ Integrate("initial", Analysed(mem), "initial_made")
     \/ /\ run.first > 1
        /\ Goto("counter")
        /\ UNCHANGED <<disk, mem, run, commands, calls, exchange, inbox, outbox>>

InitialMade ==
  /\ pc = "initial_made"
  /\ Save([mem EXCEPT !.initial = run.id, !.at.initial = mem.count, !.status = "INTEGRATING"])
  /\ Goto("counter")
  /\ UNCHANGED <<run, commands, calls, exchange, inbox, outbox>>

\* _execute_counterargument: an answer that is saved is used again, whatever it
\* was asked about; its id has the revision only.
CounterId(s) == Id("counter", s.count, 0)

CounterArgument ==
  LET id == CounterId(mem)
  IN /\ pc = "counter"
     /\ IF run.first > 2
        THEN Goto("final") /\ UNCHANGED <<disk, mem, run, trouble, paid, made>>
        ELSE \/ /\ id \in mem.heard
                /\ run' = [run EXCEPT !.id = id]
                /\ Goto("counter_made")
                /\ UNCHANGED <<disk, mem, trouble, paid, made>>
             \/ /\ id \notin mem.heard
                /\ paid' = paid \union {id}
                /\ \E k \in Outcomes(id) \ {"retryable"} :
                     /\ Trouble({id}, k # "result")
                     /\ \/ /\ k = "result"
                           /\ made' = made \union {[id |-> id, on |-> {mem.initial},
                                                    report |-> mem.report]}
                           /\ Save([mem EXCEPT !.heard = @ \union {id}])
                           /\ run' = [run EXCEPT !.id = id]
                           /\ Goto("counter_made")
                        \/ k = "error" /\ Fail(mem) /\ UNCHANGED made
     /\ UNCHANGED <<commands, retries, reviews, exchange, inbox, outbox>>

CounterMade ==
  /\ pc = "counter_made"
  /\ Save([mem EXCEPT !.counter = run.id, !.at.counter = mem.count])
  /\ Goto("final")
  /\ UNCHANGED <<run, commands, calls, exchange, inbox, outbox>>

Final ==
  /\ pc = "final"
  /\ \/ /\ run.first <= 3
        /\ Integrate("final", {mem.initial, mem.counter}, "final_made")
     \/ /\ run.first > 3
        /\ Save([mem EXCEPT !.result = IF @[1] = NoId THEN <<mem.final, NoId>> ELSE @])
        /\ Goto("review")
        /\ UNCHANGED <<run, commands, calls, exchange, inbox, outbox>>

\* The integration is saved with its validation and a provisional result.
FinalMade ==
  /\ pc = "final_made"
  /\ Save([mem EXCEPT !.final = run.id, !.at.final = mem.count,
                      !.result = <<run.id, NoId>>])
  /\ Goto("review")
  /\ UNCHANGED <<run, commands, calls, exchange, inbox, outbox>>

\* What a review is about; the version of the report is not in it.
\* (_quality_review_artifact_identity)
Artifacts(s) == <<s.analyses, s.initial, s.counter, s.final>>

LastRevision(s) == {h \in s.history : \A g \in s.history : g.iteration <= h.iteration}

Identity(s) == <<Artifacts(s), LastRevision(s)>>

\* _latest_retryable_review_error
ReviewError(s) == IF s.final # NoId /\ s.review = NoId THEN s.reviewError ELSE NoId

ReviewIds(s) ==
  <<ReviewError(s), Id("review", s.count, run.recovery), Id("review", s.count, 0)>>

\* The retry of the first of them that has one; otherwise the normal id, with a
\* digest when it was used for other artifacts.
ReviewId(s) ==
  LET ids == ReviewIds(s)
      granted == {i \in 1 .. 3 : ids[i] \in retries}
      used == {a \in s.shown : a.id = ids[2] /\ a.about # Identity(s)}
  IN IF granted # {}
     THEN RetryOf(ids[CHOOSE i \in granted : \A j \in granted : i <= j])
     ELSE IF used # {} THEN [ids[2] EXCEPT !.of = Identity(s)] ELSE ids[2]

Answers(s) ==
  {v \in reviews : /\ v.id \in s.heard
                   /\ v.about = Identity(s)
                   /\ v.id \in {ReviewId(s)} \union {ReviewIds(s)[i] : i \in 1 .. 3}}

ReuseReview ==
  /\ pc = "review"
  /\ run.reuse
  /\ \E v \in Answers(mem) : run' = [run EXCEPT !.id = v.id]
  /\ Goto("reviewed")
  /\ UNCHANGED <<disk, mem, commands, calls, exchange, inbox, outbox>>

AskReview ==
  LET id == ReviewId(mem)
  IN /\ pc = "review"
     /\ run.reuse => Answers(mem) = {}
     /\ Save([mem EXCEPT !.status = "REVIEWING",
                         !.shown = @ \union {[id |-> id, about |-> Identity(mem)]}])
     /\ run' = [run EXCEPT !.id = id]
     /\ Goto("ask")
     /\ UNCHANGED <<commands, calls, exchange, inbox, outbox>>

\* approved, as the validation allows or forbids it; blocked; revision of the
\* Deliberation, or of the evidence (with targets of its own, or none)
Verdict == {"approved", "forbidden", "blocked", "internal", "upstream"}

Upstream == {r \in requests : r.route = "upstream"}

AnswerReview ==
  LET id == run.id
  IN /\ pc = "ask"
     /\ paid' = paid \union {id}
     /\ \E k \in Outcomes(id) :
          /\ Trouble({id}, k # "result")
          /\ \/ /\ k = "result"
                /\ \E verdict \in Verdict, ts \in Targets \union {{}} :
                     /\ verdict = "internal" => ts # {}
                     /\ verdict = "upstream" => Cardinality(Upstream) < MaxUpstream
                     /\ verdict \notin {"internal", "upstream"} => ts = {}
                     /\ reviews' = reviews \union
                          {[id |-> id, about |-> Identity(mem), report |-> mem.report,
                            verdict |-> verdict, targets |-> ts]}
                /\ Save([mem EXCEPT !.heard = @ \union {id}])
                /\ Goto("reviewed")
                /\ UNCHANGED run
             \/ /\ k # "result"
                /\ Fail([mem EXCEPT !.reviewError = IF k = "retryable" THEN id ELSE @])
                /\ UNCHANGED reviews
     /\ UNCHANGED <<commands, retries, made, exchange, inbox, outbox>>

Reviewed ==
  /\ pc = "reviewed"
  /\ Save([mem EXCEPT !.review = run.id, !.at.review = mem.count])
  /\ Goto("decide")
  /\ UNCHANGED <<run, commands, calls, exchange, inbox, outbox>>

Review(s) == CHOOSE v \in reviews : v.id = s.review

-----------------------------------------------------------------------------
(* _apply_review_decision                                                  *)

\* An exception in a decision that recover() takes again fails the workflow; any
\* other leaves it as it was saved.
Uncaught(s) == IF run.then = "decide" THEN Fail(s) ELSE Leave("raised")

\* _finalize_internal_revision: the request in execution gets its result, the
\* state follows with the next save.  (Faulty: whatever the review says.)
Outcome_Completed(s) == "completed"

Outcome(s) == IF Review(s).verdict = "approved" THEN "completed" ELSE "partial"

Finalize ==
  LET s == [mem EXCEPT !.result = IF Review(mem).verdict = "approved"
                                  THEN <<mem.final, mem.review>> ELSE @]
      r == mem.active
  IN /\ pc = "decide"
     /\ mem.phase = "executing"
     /\ Review(mem).verdict # "forbidden"
     /\ results' = results \union
          IF \E x \in results : x.request = r THEN {}
          ELSE {[request |-> r, status |-> Outcome(mem), result |-> s.result]}
     /\ IF \E x \in results : x.request = r /\ (x.status # Outcome(mem)
                                                 \/ x.result # s.result)
        THEN Uncaught(mem)
        ELSE /\ mem' = [s EXCEPT !.phase = "completed", !.consumed = @ \union {r},
                                 !.plan = NoId, !.planned = {}, !.awaiting = FALSE]
             /\ UNCHANGED <<disk, pc, run, ended>>
     /\ UNCHANGED <<commands, calls, requests, slots, spent, reused, adopted, inbox, outbox>>

Deciding(verdict) ==
  /\ pc = "decide"
  /\ Review(mem).verdict = verdict
  /\ mem.phase # "executing" \/ verdict = "forbidden"

Approve ==
  /\ Deciding("approved")
  /\ Save([mem EXCEPT !.status = "APPROVED", !.result = <<mem.final, mem.review>>])
  /\ Goto("send")
  /\ UNCHANGED <<run, commands, calls, exchange, inbox, outbox>>

Send ==
  /\ pc = "send"
  /\ outbox' = [result |-> mem.result, about |-> Artifacts(mem), report |-> mem.report]
  /\ Goto("sent")
  /\ UNCHANGED <<disk, mem, run, commands, calls, exchange, inbox>>

SendFails ==
  /\ pc = "send"
  /\ Fail(mem)
  /\ UNCHANGED <<commands, calls, exchange, inbox, outbox>>

Sent ==
  /\ pc = "sent"
  /\ SaveAndEnd([mem EXCEPT !.status = "COMPLETED"], "returned")
  /\ UNCHANGED <<commands, calls, exchange, inbox, outbox>>

BlockedByReview ==
  /\ Deciding("blocked") \/ Deciding("forbidden")
  /\ Block(mem)
  /\ UNCHANGED <<commands, calls, exchange, inbox, outbox>>

Pending(s, awaiting) ==
  [s EXCEPT !.plan = s.review, !.planned = Review(s).targets, !.awaiting = awaiting]

NextEpoch(s) == 1 + (IF s.count > s.epoch THEN s.count ELSE s.epoch)

\* deterministic_revision_request_id: of its epoch and its review
SameRequest(r, q) == r.route = q.route /\ r.epoch = q.epoch /\ r.review = q.review

\* _request_upstream_revision: a request carries the time it was made at, so the
\* same one cannot be written twice.
EvidenceRequest(s) ==
  [NoRequest EXCEPT !.route = "upstream", !.epoch = NextEpoch(s),
                    !.review = s.review, !.final = s.final, !.report = s.report]

AskResearcher ==
  LET r == EvidenceRequest(mem)
  IN /\ Deciding("upstream")
     /\ ~(mem.awaiting /\ mem.plan = mem.review)
     /\ IF (\E q \in requests : SameRequest(q, r)) \/ Cardinality(Upstream) >= MaxRevisions
        THEN Uncaught(Pending(mem, TRUE)) /\ UNCHANGED requests
        ELSE /\ requests' = requests \union {r}
             /\ mem' = [Pending(mem, TRUE) EXCEPT !.active = r]
             /\ Goto("waiting")
             /\ UNCHANGED <<disk, run>>
     /\ UNCHANGED <<commands, calls, slots, spent, reused, adopted, results, inbox, outbox>>

AskedAlready ==
  /\ Deciding("upstream")
  /\ mem.awaiting /\ mem.plan = mem.review
  /\ Leave("returned")
  /\ UNCHANGED <<commands, calls, exchange, inbox, outbox>>

Waiting ==
  /\ pc = "waiting"
  /\ SaveAndEnd([mem EXCEPT !.status = "WAITING_UPSTREAM_REVISION",
                            !.phase = "waiting_upstream_result",
                            !.epoch = mem.active.epoch], "returned")
  /\ UNCHANGED <<commands, calls, exchange, inbox, outbox>>

\* _plan_internal_revision
InternalRequest(s, ts) ==
  [NoRequest EXCEPT !.route = "internal", !.epoch = NextEpoch(s), !.review = s.review,
                    !.targets = ts, !.final = s.final, !.report = s.report]

Planned(s, r) ==
  [s EXCEPT !.phase = "authorization_required", !.epoch = r.epoch, !.active = r]

\* The plan and its file; one that exists must be the same.
Plan(s, ts, next) ==
  LET r == InternalRequest(s, ts)
  IN IF \E q \in requests : SameRequest(q, r) /\ q # r
     THEN Uncaught(s) /\ UNCHANGED requests
     ELSE /\ requests' = requests \union {r}
          /\ mem' = Planned(s, r)
          /\ Goto(next)
          /\ UNCHANGED <<disk, run>>

\* In Safe Mode a plan that waits for the operator is kept.
PlanInternal ==
  /\ Deciding("internal")
  /\ \/ /\ mem.phase = "authorization_required"
        /\ Block(mem)
        /\ UNCHANGED requests
     \/ /\ mem.phase # "authorization_required"
        /\ Plan(Pending(mem, FALSE), Review(mem).targets, "planned")
  /\ UNCHANGED <<commands, calls, slots, spent, reused, adopted, results, inbox, outbox>>

SavePlan ==
  /\ pc = "planned"
  /\ Save(mem)
  /\ Goto("stop")
  /\ UNCHANGED <<run, commands, calls, exchange, inbox, outbox>>

\* Safe Mode stops before an agent is called again.
Stop ==
  /\ pc = "stop"
  /\ \/ mem.awaiting /\ Save([mem EXCEPT !.awaiting = FALSE]) /\ UNCHANGED <<pc, run, ended>>
     \/ ~mem.awaiting /\ Block(mem)
  /\ UNCHANGED <<commands, calls, exchange, inbox, outbox>>

-----------------------------------------------------------------------------
(* resume(): the Researcher's new report.                                  *)

Current(r) ==
  IF r.route = "conclusion" THEN r.result = mem.result
  ELSE r.final = mem.final /\ r.report = mem.report

ResultsOf(r) == {x \in results : x.request = r}

\* Without a result there is an answer of the old form, which says completed; an
\* incomplete one needs the decision to accept its limitations.
Acceptable(r) ==
  \/ ResultsOf(r) = {}
  \/ inbox.kind = "limited"
  \/ \E x \in ResultsOf(r) : x.status = "completed"

Missing(s) == {p \in Primary : s.analyses[p] = NoId}

Resume ==
  LET r == mem.active
      s == [mem EXCEPT !.report = @ + 1, !.handoff = inbox.number, !.result = <<NoId, NoId>>,
                       !.failed = {}, !.status = "RUNNING", !.consumed = @ \union {r}]
      asked == IF mem.planned = {} THEN {Manager} ELSE mem.planned
      ready == /\ mem.status = "WAITING_UPSTREAM_REVISION"
               /\ Current(r)
               /\ inbox.number # mem.handoff
               /\ Acceptable(r)
               /\ mem.plan = mem.review
  IN /\ Command
     /\ \/ ready /\ Plan(s, asked \union Missing(s), "planned")
        \/ ~ready /\ Leave("refused") /\ UNCHANGED requests
     /\ results' = IF ready /\ ResultsOf(r) = {}
                   THEN results \union {[request |-> r, status |-> "completed",
                                         result |-> <<NoId, NoId>>]}
                   ELSE results
     /\ UNCHANGED <<calls, slots, spent, reused, adopted, inbox, outbox>>

-----------------------------------------------------------------------------
(* revise(): the operator authorizes the plan, or adopts what Conclusion   *)
(* asked for and authorizes that.                                          *)

Adoptable == {r \in requests : r.route = "conclusion" /\ r \notin mem.consumed}

Revise ==
  /\ Command
  /\ \/ mem.phase = "authorization_required" /\ Goto("authorize") /\ UNCHANGED <<disk, mem, run>>
     \/ mem.phase # "authorization_required" /\ Goto("adopt") /\ UNCHANGED <<disk, mem, run>>
  /\ UNCHANGED <<calls, exchange, inbox, outbox>>

\* The audit event of an adoption carries its time: it is not written twice.
Adopt ==
  /\ pc = "adopt"
  /\ \/ /\ Cardinality(Adoptable) = 1
        /\ \E r \in Adoptable :
             /\ Current(r) /\ mem.result # <<NoId, NoId>> /\ r \notin adopted
             /\ adopted' = adopted \union {r}
             /\ mem' = [mem EXCEPT !.phase = "authorization_required", !.epoch = r.epoch,
                                   !.active = r, !.status = "BLOCKED"]
        /\ Goto("adopted")
        /\ UNCHANGED <<disk, run>>
     \/ /\ ~ (/\ Cardinality(Adoptable) = 1
             /\ \A r \in Adoptable : /\ Current(r) /\ mem.result # <<NoId, NoId>>
                                      /\ r \notin adopted)
        /\ Leave("refused")
        /\ UNCHANGED adopted
  /\ UNCHANGED <<commands, calls, requests, slots, spent, reused, results, inbox, outbox>>

Adopted ==
  /\ pc = "adopted"
  /\ Save(mem)
  /\ Goto("authorize")
  /\ UNCHANGED <<run, commands, calls, exchange, inbox, outbox>>

Greater(a, b) == IF a > b THEN a ELSE b

SlotOf(r) == {i \in DOMAIN slots : slots[i] = r}

HasBudget(r) ==
  IF r.route = "internal" THEN SlotOf(r) # {} \/ Len(slots) < MaxRevisions - 1
  ELSE mem.count < MaxRevisions

\* _execute_authorized_internal_revision: base artifacts, budget, authorization
Authorize ==
  LET r == mem.active
      number == IF SlotOf(r) # {} THEN CHOOSE i \in SlotOf(r) : TRUE ELSE Len(slots) + 1
  IN /\ pc = "authorize"
     /\ Current(r) /\ HasBudget(r)
     /\ slots' = IF r.route = "internal" /\ SlotOf(r) = {} THEN Append(slots, r) ELSE slots
     /\ spent' = spent \union {r}
     /\ reused' = (reused \/ (r.route = "internal" /\ number <= mem.count))
     /\ mem' = [mem EXCEPT !.count = IF r.route = "internal" THEN Greater(@, number) ELSE @ + 1,
                           !.phase = "executing", !.status = "REVISING"]
     /\ Goto("executing")
     /\ UNCHANGED <<disk, run, commands, calls, requests, adopted, results, inbox, outbox>>

Stale ==
  /\ pc = "authorize"
  /\ ~Current(mem.active)
  /\ Leave("raised")
  /\ UNCHANGED <<commands, calls, exchange, inbox, outbox>>

History(s, ts) ==
  IF \E h \in s.history : h.iteration = s.count THEN s
  ELSE [s EXCEPT !.history = @ \union {[iteration |-> s.count, targets |-> ts]}]

\* _pending_revision_review
PlanIsReviewed(s) == s.review # NoId /\ s.plan \in {NoId, s.review}

Exhausted ==
  LET s == [mem EXCEPT !.count = Greater(@, MaxRevisions)]
  IN /\ pc = "authorize"
     /\ Current(mem.active) /\ ~HasBudget(mem.active)
     /\ \/ /\ History(s, {}) = s \/ PlanIsReviewed(s)
           /\ Block([History(s, mem.active.targets) EXCEPT !.phase = "blocked"])
        \/ /\ History(s, {}) # s /\ ~PlanIsReviewed(s)
           /\ Leave("raised")
     /\ UNCHANGED <<commands, calls, exchange, inbox, outbox>>

Execute ==
  /\ pc = "executing"
  /\ Save(mem)
  /\ Goto("begin")
  /\ UNCHANGED <<run, commands, calls, exchange, inbox, outbox>>

\* The review behind an internal request is read from its message when the state
\* has none.  (_execute_authorized_internal_revision, _start_internal_revision)
Begin ==
  LET r == mem.active
      lost == r.route = "internal" /\ mem.review = NoId
      s == IF ~lost THEN mem
           ELSE [mem EXCEPT !.review = r.review, !.plan = r.review, !.awaiting = FALSE,
                            !.planned = (CHOOSE v \in reviews : v.id = r.review).targets]
      raises == IF r.route = "internal" THEN ~PlanIsReviewed(s) ELSE mem.review = NoId
      ps == r.targets \intersect Primary
  IN /\ pc = "begin"
     /\ \/ raises /\ Leave("raised")
        \/ /\ ~raises
           /\ Save(History(s, r.targets))
           /\ run' = [run EXCEPT !.then = "revise", !.recovery = 1,
                                 !.first = FirstStage(r.targets),
                                 !.todo = {Id(p, mem.count, 0) : p \in ps}]
           /\ Goto(IF ps # {} THEN "dispatch" ELSE "initial")
     /\ UNCHANGED <<commands, calls, exchange, inbox, outbox>>

-----------------------------------------------------------------------------
(* recover() and retry_provider_call()                                     *)

\* authorize_once: a pending authorization is given again, a consumed one refused.
Grant(id) ==
  IF id = NoId \/ id.retry \/ (id \in retries /\ RetryOf(id) \in paid)
  THEN Leave("refused") /\ UNCHANGED retries
  ELSE /\ retries' = retries \union {id}
       /\ Goto("recover")
       /\ UNCHANGED <<disk, mem, run>>

\* The Manager's own failure, else the last of an analyst, else the reviewer's.
Retryable(s) ==
  CASE CurrentFault(s) # NoId -> CurrentFault(s)
    [] CurrentFault(s) = NoId /\ s.primaryError # NoId -> s.primaryError
    [] OTHER -> ReviewError(s)

ProviderRetry ==
  /\ Command
  /\ \/ mem.status = "FAILED" /\ Grant(Retryable(mem))
     \/ mem.status # "FAILED" /\ Leave("refused") /\ UNCHANGED retries
  /\ UNCHANGED <<trouble, paid, made, reviews, exchange, inbox, outbox>>

Recover ==
  /\ Command
  /\ Goto("recover")
  /\ UNCHANGED <<disk, mem, run, calls, exchange, inbox, outbox>>

\* A blocked workflow is reviewed once more.
Again(s) ==
  /\ s.status = "BLOCKED"
  /\ NoId \notin {s.review, s.initial, s.counter, s.final}

Recoverable(s) ==
  /\ s.status \notin {"COMPLETED", "WAITING_UPSTREAM_REVISION"}
  /\ s.status = "BLOCKED" => Again(s)

NotRecoverable ==
  /\ pc = "recover"
  /\ ~Recoverable(mem)
  /\ Leave(IF mem.status = "COMPLETED" THEN "returned" ELSE "refused")
  /\ UNCHANGED <<commands, calls, exchange, inbox, outbox>>

PendingRetry(id) == id \in retries /\ RetryOf(id) \notin paid

\* The failure recover() may not pass without an authorization that is pending.
Suspect(s) == IF CurrentFault(s) # NoId THEN CurrentFault(s) ELSE ReviewError(s)

NeedsRetry ==
  /\ pc = "recover"
  /\ Recoverable(mem)
  /\ Suspect(mem) # NoId /\ ~PendingRetry(Suspect(mem))
  /\ Fail(mem)
  /\ UNCHANGED <<commands, calls, exchange, inbox, outbox>>

\* A missing analysis becomes a target of the current revision.
\* (_prepare_revision_recovery_tasks)
Closed(s) ==
  [s EXCEPT !.history = {IF h.iteration = s.count /\ s.count > 0
                         THEN [h EXCEPT !.targets = @ \union Missing(s)] ELSE h : h \in @}]

RecoverBegins ==
  /\ pc = "recover"
  /\ Recoverable(mem)
  /\ Suspect(mem) # NoId => PendingRetry(Suspect(mem))
  /\ Save([Closed(mem) EXCEPT !.status = "RUNNING"])
  /\ run' = [run EXCEPT !.then = "recover", !.recovery = 1, !.again = Again(mem)]
  /\ Goto("primaries")
  /\ UNCHANGED <<commands, calls, exchange, inbox, outbox>>

\* (Faulty: a fresh task counts for less than an operator retry.)
Later_Retry(a, b) == (a.retry /\ ~b.retry) \/ (a.retry = b.retry /\ a.mark < b.mark)

Later(a, b) ==
  \/ a.rev > b.rev
  \/ a.rev = b.rev /\ a.mark > b.mark
  \/ a.rev = b.rev /\ a.mark = b.mark /\ a.retry

\* _recovery_primary_tasks: the last one asked
Task(s, p) ==
  LET mine == {a \in s.asked : a.agent = p}
  IN IF mine = {} THEN Id(p, 0, 0)
     ELSE CHOOSE a \in mine : \A b \in mine \ {a} : Later(a, b)

Valid(s) == {p \in Primary : s.analyses[p] = Task(s, p)}

Required(s) ==
  UNION {h.targets : h \in {g \in s.history : g.iteration = s.count}} \intersect Primary

Incomplete(s) ==
  LET tolerated == {p \in s.failed \ Required(s) : s.initial # NoId}
  IN (Primary \ Valid(s)) \ (IF Cardinality(Valid(s)) >= 2 THEN tolerated
                              ELSE tolerated \intersect Missing(s))

\* The call an analyst is asked again with: its operator retry, the task of the
\* revision, or a fresh task.
Original(id) == [id EXCEPT !.retry = FALSE]

TaskAgain(s, p) ==
  CASE PendingRetry(Original(Task(s, p))) -> RetryOf(Task(s, p))
    [] ~PendingRetry(Original(Task(s, p))) /\ s.count > 0 -> Task(s, p)
    [] OTHER -> Id(p, 0, 1 + Task(s, p).mark)

Ambiguous(s) ==
  {p \in Incomplete(s) : /\ s.count > 0 /\ Task(s, p) \in s.asked
                         /\ ~PendingRetry(Original(Task(s, p)))}

RecoverPrimaries ==
  LET lost == Incomplete(mem)
      s == [mem EXCEPT !.analyses = [p \in Primary |->
                                       IF p \in Valid(mem) THEN @[p] ELSE NoId]]
  IN /\ pc = "primaries"
     /\ \/ /\ Ambiguous(mem) # {}
           /\ Fail(s)
        \/ /\ Ambiguous(mem) = {} /\ lost # {}
           /\ Save(Cleared(s, 1))
           /\ run' = [run EXCEPT !.todo = {TaskAgain(mem, p) : p \in lost}]
           /\ Goto("dispatch")
        \/ /\ lost = {}
           /\ mem' = s
           /\ Goto("checkpoints")
           /\ UNCHANGED <<disk, run>>
     /\ UNCHANGED <<commands, calls, exchange, inbox, outbox>>

\* The first stage to be made again: 5 when none is.
FirstMissing(s) ==
  LET Lost(stage) == s[stage] = NoId \/ ~CheckpointIsCurrent(s, stage)
  IN IF Lost("initial") THEN 1
     ELSE IF Lost("counter") THEN 2
     ELSE IF Lost("final") \/ \A m \in made : m.id = s.final => s.initial \notin m.on THEN 3
     ELSE IF run.again \/ Lost("review") THEN 4 ELSE 5

TooFew ==
  LET missing == {p \in Required(mem) : mem.at[p] < mem.count}
  IN /\ pc = "checkpoints"
     /\ \/ missing # {} /\ Fail(mem)
        \/ missing = {} /\ Valid(mem) = {} /\ Fail(mem)
        \/ missing = {} /\ Cardinality(Valid(mem)) = 1 /\ Block(mem)
     /\ UNCHANGED <<commands, calls, exchange, inbox, outbox>>

RecoverCheckpoints ==
  LET n == CHOOSE n \in 1 .. 5 : n = FirstMissing(mem)
  IN /\ pc = "checkpoints"
     /\ \A p \in Required(mem) : mem.at[p] >= mem.count
     /\ Cardinality(Valid(mem)) >= 2
     /\ \/ /\ n < 5
           /\ Save(Cleared(mem, n))
           /\ run' = [run EXCEPT !.first = n, !.reuse = n < 4 \/ ~run.again]
           /\ Goto("initial")
        \/ /\ n = 5
           /\ run' = [run EXCEPT !.then = "decide"]
           /\ Goto("decide")
           /\ UNCHANGED <<disk, mem>>
     /\ UNCHANGED <<commands, calls, exchange, inbox, outbox>>

-----------------------------------------------------------------------------
(* Around it.                                                              *)

Crash ==
  /\ pc # "idle"
  /\ trouble < MaxTrouble
  /\ trouble' = trouble + 1
  /\ Leave("crashed")
  /\ UNCHANGED <<commands, paid, retries, made, reviews, exchange, inbox, outbox>>

\* A handoff for a request not answered yet: complete, or with a limitation
\* somebody accepted, or neither.
ResearcherReplies ==
  /\ \E r \in Upstream, k \in {"completed", "limited", "incomplete"} :
       /\ inbox.request # r /\ inbox.number <= MaxUpstream
       /\ inbox' = [number |-> inbox.number + 1, request |-> r, kind |-> k]
  /\ UNCHANGED <<disk, mem, pc, run, ended, commands, calls, exchange, outbox>>

ResearcherFiles ==
  LET r == inbox.request
  IN /\ r \in Upstream
     /\ ResultsOf(r) = {}
     /\ results' = results \union
          {[request |-> r, result |-> <<NoId, NoId>>,
            status |-> IF inbox.kind = "completed" THEN "completed" ELSE "partial"]}
     /\ UNCHANGED <<disk, mem, pc, run, ended, commands, calls, requests, slots, spent,
                    adopted, reused, inbox, outbox>>

Asked == {r \in requests : r.route = "conclusion"}

ConclusionAsks ==
  /\ outbox.result # <<NoId, NoId>>
  /\ Cardinality(Asked) < MaxConclusion
  /\ \A r \in Asked : ResultsOf(r) # {}
  /\ \E ts \in Targets :
       requests' = requests \union
         {[NoRequest EXCEPT !.route = "conclusion", !.epoch = 1 + Cardinality(Asked),
                            !.targets = ts, !.result = outbox.result]}
  /\ UNCHANGED <<disk, mem, pc, run, ended, commands, calls, slots, spent, adopted, results,
                 reused, inbox, outbox>>

Line ==
  \/ Dispatch \/ Gather \/ Record \/ Collected
  \/ Initial \/ InitialMade \/ CounterArgument \/ CounterMade \/ Final \/ FinalMade
  \/ ReuseReview \/ AskReview \/ AnswerReview \/ Reviewed

Decide ==
  \/ Finalize \/ Approve \/ Send \/ SendFails \/ Sent \/ BlockedByReview
  \/ AskResearcher \/ AskedAlready \/ Waiting \/ PlanInternal \/ SavePlan \/ Stop

Revision ==
  \/ Revise \/ Adopt \/ Adopted \/ Authorize \/ Stale \/ Exhausted \/ Execute \/ Begin

Recovery ==
  \/ ProviderRetry \/ Recover \/ NotRecoverable \/ NeedsRetry \/ RecoverBegins
  \/ RecoverPrimaries \/ TooFew \/ RecoverCheckpoints

Around == Crash \/ ResearcherReplies \/ ResearcherFiles \/ ConclusionAsks

Next == Line \/ Decide \/ Resume \/ Revision \/ Recovery \/ Around

Spec == Init /\ [][Next]_vars

-----------------------------------------------------------------------------
(* Properties.                                                             *)

Agents == Primary \union {Manager, Counter, "initial", "counter", "final", "review", "none"}

IsId(id) ==
  /\ DOMAIN id = {"agent", "rev", "mark", "retry", "of"}
  /\ id.agent \in Agents /\ id.rev \in 0 .. MaxRevisions /\ id.mark \in 0 .. MaxCommands + 1

\* The state, its counters within the budgets.
StateOK(s) ==
  /\ s.status \in Status /\ s.phase \in Phase
  /\ s.failed \subseteq Primary
  /\ \A p \in Primary : IsId(s.analyses[p]) /\ s.analyses[p].agent \in {p, "none"}
  /\ \A stage \in Stage : IsId(s[stage]) /\ s[stage].agent \in {stage, "none"}
  /\ s.count \in 0 .. MaxRevisions
  /\ \A x \in DOMAIN s.at : s.at[x] <= s.count
  /\ \A h \in s.history : h.iteration \in 1 .. s.count
  /\ \A g, h \in s.history : g.iteration = h.iteration => g = h

TypeOK ==
  /\ StateOK(disk) /\ StateOK(mem)
  /\ \A id \in paid \union retries : IsId(id)
  /\ Len(slots) <= MaxRevisions - 1
  /\ {slots[i] : i \in DOMAIN slots} \subseteq requests
  /\ spent \union adopted \subseteq requests
  /\ commands <= MaxCommands /\ trouble <= MaxTrouble

Handed == outbox.result # <<NoId, NoId>>

\* What Conclusion gets was approved as it is: the verdict is about these analyses,
\* this integration, counterargument and final integration, whatever was recovered,
\* retried or done again since.
HandoffWasApproved ==
  Handed => \E v \in reviews : /\ v.id = outbox.result[2]
                               /\ v.verdict = "approved"
                               /\ v.about[1] = outbox.about

MadeFrom(id, on) == \A m \in made : m.id = id => m.on = on

\* The integration handed over was made from the analyses handed over, the final one
\* from that integration and that counterargument: no stop, retry or revision leaves
\* a checkpoint of earlier input in place, as long as each revision has a number of
\* its own.
Fits ==
  LET analyses == outbox.about[1]
      initial == outbox.about[2]
      counter == outbox.about[3]
  IN /\ MadeFrom(initial, {analyses[p] : p \in Primary} \ {NoId})
     /\ MadeFrom(outbox.about[4], {initial, counter})

CheckpointsFitTogether == Handed /\ ~reused => Fits

\* An internal request is answered as completed only when the reviewer approved the
\* result that is filed with the answer.
ResultsAreTruthful ==
  \A x \in results :
    x.request.route = "internal" /\ x.status = "completed" =>
      \E v \in reviews : /\ v.id = x.result[2] /\ v.verdict = "approved"
                         /\ v.about[1][4] = x.result[1]

\* An analysis once saved is given up only while a revision is under way that names
\* its analyst: no recovery or retry pays for it twice.
AnalysesAreKept ==
  [][ \A p \in Primary :
        disk.analyses[p] \notin {NoId, disk'.analyses[p]} =>
          disk.phase = "executing" /\ p \in disk.active.targets ]_vars

\* The Manager calls nobody in the name of a revision the operator has not
\* authorized: "Revision上限到達時 ... はFail Closed" (README.md:84).
RevisionCallsAreAuthorized ==
  \A id \in paid : id.rev <= Cardinality(spent)

\* A revision under way has a number of its own, that no earlier one has used: its
\* calls are new tasks (README.md:84).
RevisionsAreNumbered ==
  mem.phase = "executing" => Cardinality(spent) <= mem.count

\* Recovery does over what does not belong to the analyses that are saved: it is to
\* compare "Primary分析、初回統合 ..." one by one (deliberation/README.md:53).
RecoveryComparesAll == Handed => Fits
================================================================================
