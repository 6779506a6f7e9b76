--------------------------- MODULE ResearcherManager ---------------------------
(***************************************************************************)
(* The Researcher Manager of one workflow in Demo Safe Mode                *)
(* (researcher/manager.py): tasks for the specialists, the report built    *)
(* from their results, the Quality Review of the report, and the revisions *)
(* that follow: of the evidence (a human asked for it), of the plan (the   *)
(* Producer did it), or on request of Deliberation.                        *)
(*                                                                         *)
(* One command runs at a time, saves the state as it goes and may stop     *)
(* between two saves.  Safe Mode pays for each logical task id once, so a  *)
(* call is named by its id.  The human decision with its files and its     *)
(* races is EvidenceGate's, the files of an exchange are RevisionExchange's *)
(* and a call in flight is ProviderLedger's: each is one step here.        *)
(***************************************************************************)
EXTENDS Integers, Sequences, FiniteSets

CONSTANTS
  Agent,        \* specialists with a task in the plan
  Weak,         \* those a review names when the evidence does not suffice
  Asked,        \* those a request of Deliberation names
  Legacy,       \* whether a request of Deliberation may lack a canonical one
  MaxRevisions, \* RevisionBudgetPolicy, of either route
  MaxExternal,  \* bound: requests of Deliberation
  MaxCommands   \* bound: commands after start

ASSUME AgentAssumption ==
  /\ IsFiniteSet(Agent)
  /\ Weak \subseteq Agent /\ Weak # {}
  /\ Asked \subseteq Agent /\ Asked # {}
  /\ Legacy \subseteq BOOLEAN /\ Legacy # {}

ASSUME LimitAssumption == {MaxRevisions, MaxExternal, MaxCommands} \subseteq Nat

VARIABLES
  disk,      \* the saved ResearcherWorkflowState
  mem,       \* the copy the running command works on
  pc,        \* where it is
  run,       \* what it has learnt, and what it does next
  ended,     \* how the last command ended
  commands,  \* how many have been given
  paid,      \* tasks of specialists that are reserved
  repairs,   \* tasks with a runtime-model repair authorization
  repaid,    \* those whose repair call is reserved
  reports,   \* the reports, as built: the results they rest on
  reviews,   \* the calls of the Quality Reviewer, in order
  retries,   \* reviewer tasks with an operator retry authorization
  requests,  \* revision requests by number, of all routes
  slots,     \* requests that hold an internal budget slot
  claims,    \* consumed authorizations, with the calls each reserved
  results,   \* canonical results of internal requests
  answers,   \* the Producer's results of upstream requests
  outbox,    \* what lies in Deliberation's inbox
  lost       \* a command has stopped between a budget slot and the save behind it

store    == <<paid, repairs, repaid, reports, reviews, retries>>
revision == <<requests, slots, claims, results, answers>>
vars     == <<disk, mem, pc, run, ended, commands, store, revision, outbox, lost>>

\* A specialist's task: of the plan (0) or of a request.
Task == [cycle : Nat, agent : Agent]

TasksOf(r, ags) == {[cycle |-> r, agent |-> a] : a \in ags}

Status == {"RUNNING", "COLLECTING", "PARTIALLY_COMPLETED", "INTEGRATING",
           "REVIEWING", "REVISING", "WAITING_HUMAN_EVIDENCE_REVIEW", "BLOCKED",
           "WAITING_UPSTREAM_REVISION", "COMPLETED", "COMPLETED_REVISION", "FAILED"}

Phase == {"idle", "authorization_required", "executing", "completed",
          "waiting_upstream_result", "blocked"}

\* ExternalRevisionCheckpoint, as far as a command looks at it
Checkpoint == {"NONE", "REQUEST_RECEIVED", "TASKS_PLANNED", "TASKS_DISPATCHED",
               "RESULTS_COLLECTED", "REPORT_INTEGRATING", "REPORT_INTEGRATED",
               "QUALITY_REVIEWING", "QUALITY_REVIEWED", "COMPLETED_REVISION"}

ResultsRequired == {"RESULTS_COLLECTED", "REPORT_INTEGRATING", "REPORT_INTEGRATED",
                    "QUALITY_REVIEWING", "QUALITY_REVIEWED", "COMPLETED_REVISION"}

Advanced == {"REPORT_INTEGRATED", "QUALITY_REVIEWING", "QUALITY_REVIEWED"}

\* Findings: none, evidence gaps (with an approval or without one), an integrity
\* failure, a defect of the plan.
Verdict == {"approved", "approved_gaps", "gaps", "hard", "plan"}

\* An error the operator may retry, one of the contract, any other.
Fault == {"retryable", "contract", "error"}

NoBase == [plan |-> 0, report |-> 0, seen |-> 0]

NoMail == [request |-> 0, base |-> NoBase]

\* saved: responses the message history has; seen: the review the report carries;
\* error: the last response of the reviewer that was an error; basis: what the
\* human decision is about
NewState == [status |-> "COLLECTING", tasks |-> TasksOf(0, Agent), done |-> {},
             drifted |-> {}, failed |-> {}, plan |-> 1, report |-> 0, seen |-> 0,
             review |-> 0, saved |-> {}, decision |-> "none", phase |-> "idle",
             active |-> 0, count |-> 0, externals |-> 0, record |-> "none",
             request |-> 0, pending |-> 0, checkpoint |-> "NONE",
             consumed |-> {}, error |-> 0, basis |-> NoBase]

\* todo: tasks in execution; got: their answers not recorded yet; then: what
\* follows; ext: the review is that of an external revision; reuse: of the
\* report as saved; call: the reviewer's answer
NoRun == [todo |-> {}, got |-> {}, failures |-> 0, then |-> "integrate",
          ext |-> FALSE, reuse |-> FALSE, call |-> 0]

\* start() has saved the tasks of the plan and dispatches them.
Init ==
  /\ disk = NewState /\ mem = NewState
  /\ pc = "gather"
  /\ run = [NoRun EXCEPT !.todo = NewState.tasks]
  /\ ended = "none" /\ commands = 0
  /\ paid = {} /\ repairs = {} /\ repaid = {}
  /\ reports = <<>> /\ reviews = <<>> /\ retries = {}
  /\ requests = <<>> /\ slots = {} /\ claims = {} /\ results = {} /\ answers = {}
  /\ outbox = NoMail
  /\ lost = FALSE

Save(s) == disk' = s /\ mem' = s

Goto(l) == pc' = l /\ UNCHANGED ended

End(how) == pc' = "idle" /\ run' = NoRun /\ ended' = how

SaveAndEnd(s, how) == Save(s) /\ End(how)

Refuse(how) == End(how) /\ mem' = disk /\ UNCHANGED disk

\* A command begins: with disk, within the bound.
Command ==
  /\ pc = "idle"
  /\ commands < MaxCommands
  /\ commands' = commands + 1

-----------------------------------------------------------------------------
(* _execute_tasks                                                          *)

Dispatched(s) == [s EXCEPT !.status = "COLLECTING"]

\* All tasks at once; a task whose id is reserved is not sent again, and one may
\* fail before it is.
Gather ==
  /\ pc = "gather"
  /\ \E sent \in SUBSET (run.todo \ paid) :
     \E f \in [run.todo -> {"result", "drift", "error"}] :
       /\ \A t \in run.todo : t \notin sent => f[t] = "error"
       /\ paid' = paid \union sent
       /\ run' = [run EXCEPT !.got = {<<t, f[t]>> : t \in run.todo}, !.failures = 0]
  /\ Goto("record")
  /\ UNCHANGED <<disk, mem, commands, repairs, repaid, reports, reviews, retries,
                 revision, outbox>>

\* A result clears its agent; a failure marks it.
Recorded(s, t, kind) ==
  IF kind = "result"
  THEN [s EXCEPT !.done = @ \union {t}, !.failed = @ \ {t.agent}]
  ELSE [s EXCEPT !.failed = @ \union {t.agent},
                 !.drifted = IF kind = "drift" THEN @ \union {t} ELSE @]

\* The answers are recorded and saved one by one: a stop loses the others.
Record ==
  /\ pc = "record"
  /\ \E x \in run.got :
       /\ Save(Recorded(mem, x[1], x[2]))
       /\ run' = [run EXCEPT !.got = @ \ {x},
                             !.failures = IF x[2] = "result" THEN @ ELSE @ + 1]
  /\ UNCHANGED <<pc, ended, commands, store, revision, outbox>>

\* _fail
Failed(s) == [s EXCEPT !.status = "FAILED"]

\* What a caller of _execute_tasks does with the number of completed tasks.
Enough(then) ==
  IF then = "integrate" THEN Cardinality(run.todo) > run.failures
  ELSE run.failures = 0

Collected ==
  LET s == [mem EXCEPT !.status = IF run.failures = 0 THEN "RUNNING"
                                  ELSE "PARTIALLY_COMPLETED"]
  IN /\ pc = "record"
     /\ run.got = {}
     /\ \/ /\ run.then = "task"
           /\ SaveAndEnd(s, "returned")
        \/ /\ run.then # "task" /\ Enough(run.then)
           /\ Save(IF run.then = "external"
                   THEN [s EXCEPT !.checkpoint = "RESULTS_COLLECTED"]
                   ELSE s)
           /\ Goto("integrate")
           /\ UNCHANGED run
        \/ /\ run.then # "task" /\ ~Enough(run.then)
           /\ SaveAndEnd(Failed(IF run.then = "external"
                                THEN [s EXCEPT !.record = "failed"] ELSE s),
                         "failed")
     /\ UNCHANGED <<commands, store, revision, outbox>>

-----------------------------------------------------------------------------
(* _integrate_and_review                                                   *)

Integrate ==
  LET s == [mem EXCEPT !.status = "INTEGRATING"]
  IN /\ pc = "integrate"
     /\ IF run.ext /\ ~run.reuse
        THEN Save([s EXCEPT !.checkpoint = "REPORT_INTEGRATING"])
        ELSE mem' = s /\ UNCHANGED disk
     /\ Goto("build")
     /\ UNCHANGED <<run, commands, store, revision, outbox>>

\* The report rests on the results saved so far.  A report that is reused is
\* saved again.
Build ==
  LET s == IF run.ext THEN [mem EXCEPT !.checkpoint = "REPORT_INTEGRATED"] ELSE mem
  IN /\ pc = "build"
     /\ \/ /\ run.ext /\ run.reuse
           /\ Save(s)
           /\ UNCHANGED reports
        \/ /\ ~(run.ext /\ run.reuse)
           /\ reports' = Append(reports, [plan |-> mem.plan, rests |-> mem.done])
           /\ Save([s EXCEPT !.report = Len(reports'), !.seen = 0])
     /\ run' = [run EXCEPT !.reuse = FALSE]
     /\ Goto("reviewing")
     /\ UNCHANGED <<commands, paid, repairs, repaid, reviews, retries, revision,
                    outbox>>

\* _quality_review_task_id: it counts external and internal revisions.
\* (Faulty: internal ones are not counted.)
ReviewTask_ExternalOnly(s, contract, retry) ==
  [ext |-> IF run.ext THEN s.externals ELSE 0, count |-> 0,
   contract |-> contract, retry |-> retry]

ReviewTask(s, contract, retry) ==
  [ext |-> IF run.ext THEN s.externals ELSE 0, count |-> s.count,
   contract |-> contract, retry |-> retry]

SavedAnswer(s, id, kinds) ==
  {c \in s.saved : reviews[c].id = id /\ reviews[c].answer \in kinds}

\* _requires_quality_review_contract_repair
Repairs(s) == SavedAnswer(s, ReviewTask(s, FALSE, FALSE), {"contract"}) # {}

NormalTask(s) == ReviewTask(s, Repairs(s), FALSE)

ReviewIds(s) ==
  {ReviewTask(s, TRUE, FALSE), ReviewTask(s, FALSE, FALSE)}
    \union ({[NormalTask(s) EXCEPT !.retry = TRUE]} \intersect retries)

\* _saved_quality_review_exchange: any answer with a verdict, also one whose
\* message was invalid.
SavedReview(s) == UNION {SavedAnswer(s, id, Verdict) : id \in ReviewIds(s)}

NextId(s) ==
  LET again == [NormalTask(s) EXCEPT !.retry = TRUE]
  IN IF again \in retries THEN again ELSE NormalTask(s)

\* A saved answer is used; otherwise the request is saved and sent, if its id is
\* not reserved.
Reuse ==
  /\ pc = "reviewing"
  /\ \E c \in SavedReview(mem) : run' = [run EXCEPT !.call = c]
  /\ Save([mem EXCEPT !.checkpoint = IF run.ext THEN "QUALITY_REVIEWING" ELSE @])
  /\ Goto("assess")
  /\ UNCHANGED <<commands, store, revision, outbox>>

AskReview ==
  LET s == [mem EXCEPT !.status = "REVIEWING",
                       !.checkpoint = IF run.ext THEN "QUALITY_REVIEWING" ELSE @]
  IN /\ pc = "reviewing"
     /\ SavedReview(mem) = {}
     /\ Save(s)
     /\ Goto("ask")
     /\ UNCHANGED <<run, commands, store, revision, outbox>>

AnswerReview ==
  LET id == NextId(mem)
  IN /\ pc = "ask"
     /\ \/ /\ \A c \in DOMAIN reviews : reviews[c].id # id
           /\ \E k \in Verdict \union Fault, valid \in BOOLEAN :
                reviews' = Append(reviews, [id |-> id, about |-> mem.report,
                                            answer |-> k, valid |-> valid])
           /\ run' = [run EXCEPT !.call = Len(reviews')]
           /\ Goto("hear")
           /\ UNCHANGED <<disk, mem>>
        \/ /\ \E c \in DOMAIN reviews : reviews[c].id = id
           /\ SaveAndEnd(Failed([mem EXCEPT !.error = 0]), "failed")
           /\ UNCHANGED reviews
     /\ UNCHANGED <<commands, paid, repairs, repaid, reports, retries, revision,
                    outbox>>

\* The response is saved.  An invalid one fails the workflow, and is read as a
\* verdict when it is met again.
Hear ==
  LET c == run.call
      s == [mem EXCEPT !.saved = @ \union {c}]
  IN /\ pc = "hear"
     /\ IF reviews[c].answer \in Verdict /\ reviews[c].valid
        THEN Save(s) /\ Goto("assess") /\ UNCHANGED run
        ELSE SaveAndEnd(Failed([s EXCEPT !.error = c]), "failed")
     /\ UNCHANGED <<commands, store, revision, outbox>>

\* A decision about another review is dropped.
Assess ==
  /\ pc = "assess"
  /\ Save([mem EXCEPT !.review = run.call,
                      !.decision = IF mem.review = run.call THEN @ ELSE "none",
                      !.checkpoint = IF run.ext THEN "QUALITY_REVIEWED" ELSE @])
  /\ Goto("embed")
  /\ UNCHANGED <<run, commands, store, revision, outbox>>

VerdictOf(s) == reviews[s.review].answer

\* What a request about the report of s holds on to: its hash changes with the
\* build and with the review it carries.
Base(s) == [plan |-> s.plan, report |-> s.report, seen |-> s.seen]

\* _finalize_common_internal_revision: the result of a revision in execution.
\* (Faulty: whatever the review says.)
Outcome_Completed(s) == "completed"

Outcome(s) == IF VerdictOf(s) = "approved" \/ VerdictOf(s) = "approved_gaps"
              THEN "completed" ELSE "partial"

Embed ==
  LET s == [mem EXCEPT !.seen = mem.review]
      ends == s.phase = "executing"
  IN /\ pc = "embed"
     /\ results' = IF ends
                   THEN results \union {[request |-> s.active, status |-> Outcome(s),
                                         report |-> s.report, review |-> s.review]}
                   ELSE results
     /\ Save([s EXCEPT !.phase = IF ends THEN "completed" ELSE @])
     /\ Goto(IF VerdictOf(s) = "plan" THEN "route" ELSE "gate")
     /\ UNCHANGED <<run, commands, store, requests, slots, claims, answers, outbox>>

Upstream == {r \in DOMAIN requests : requests[r].route = "upstream"}

\* _route_producer_revision, within its own budget.
Route ==
  LET r == Len(requests) + 1
  IN /\ pc = "route"
     /\ Cardinality(Upstream) < MaxRevisions
     /\ requests' = Append(requests, [route |-> "upstream", base |-> Base(mem),
                                      targets |-> {}])
     /\ SaveAndEnd([mem EXCEPT !.phase = "waiting_upstream_result", !.active = r,
                               !.status = "WAITING_UPSTREAM_REVISION"],
                   "returned")
     /\ UNCHANGED <<commands, store, slots, claims, results, answers, outbox>>

RouteRefused ==
  /\ pc = "route"
  /\ Cardinality(Upstream) >= MaxRevisions
  /\ Refuse("upstream_budget")
  /\ UNCHANGED <<commands, store, revision, outbox>>

\* _prepare_human_evidence_gate
Prepared(s) ==
  [s EXCEPT !.status = IF VerdictOf(s) = "hard" THEN "BLOCKED"
                       ELSE "WAITING_HUMAN_EVIDENCE_REVIEW"]

PrepareGate ==
  LET s == Prepared(mem)
  IN /\ pc = "gate"
     /\ SaveAndEnd(IF run.ext THEN [s EXCEPT !.record = "blocked"] ELSE s,
                   "returned")
     /\ UNCHANGED <<commands, store, revision, outbox>>

-----------------------------------------------------------------------------
(* The human decision and the handoff, see EvidenceGate.                   *)

\* A reply to a request of Deliberation, or the first handoff, which does not
\* replace a message.
HandedOff(s) ==
  IF s.pending = 0
  THEN [s EXCEPT !.status = IF outbox \in {NoMail, [request |-> 0, base |-> s.basis]}
                            THEN "COMPLETED" ELSE "FAILED"]
  ELSE [s EXCEPT !.status = "COMPLETED_REVISION", !.record = "reply_sent",
                 !.checkpoint = "COMPLETED_REVISION", !.pending = 0]

HandOff(s) ==
  /\ outbox' = IF s.pending = 0 /\ outbox # NoMail THEN outbox
               ELSE [request |-> s.pending, base |-> Base(s)]
  /\ SaveAndEnd(HandedOff(s), "returned")

\* The summary of the gate is eligible: neither an integrity failure nor a defect of
\* the plan.
\* (Faulty: only the integrity is looked at.)
Eligible_Plan(s) == VerdictOf(s) # "hard"

Eligible(s) == VerdictOf(s) \in {"approved", "approved_gaps", "gaps"}

Decide ==
  LET r == Len(requests) + 1
      s == [Prepared(disk) EXCEPT !.basis = Base(disk)]
  IN /\ Command
     /\ disk.review # 0 /\ disk.decision = "none" /\ disk.status # "FAILED"
     /\ Eligible(disk)
     /\ \/ /\ VerdictOf(disk) # "approved"
           /\ requests' = Append(requests, [route |-> "internal", base |-> Base(s),
                                            targets |-> Weak])
           /\ SaveAndEnd([s EXCEPT !.decision = "revise", !.status = "BLOCKED",
                                   !.phase = "authorization_required",
                                   !.active = r], "returned")
           /\ UNCHANGED outbox
        \/ /\ HandOff([s EXCEPT !.decision = "accept"])
           /\ UNCHANGED requests
     /\ UNCHANGED <<store, slots, claims, results, answers>>

\* recover_human_evidence_gate: an undecided review is prepared again, a
\* decision is followed again if it is about what the state shows.
RecoverGate ==
  /\ Command
  /\ disk.review # 0
  /\ \/ /\ disk.decision = "none" /\ disk.status # "FAILED"
        /\ SaveAndEnd(Prepared(disk), "returned")
        /\ UNCHANGED outbox
     \/ /\ disk.decision = "revise" /\ disk.basis = Base(disk)
        /\ SaveAndEnd([disk EXCEPT !.status = "BLOCKED"], "returned")
        /\ UNCHANGED outbox
     \/ /\ disk.decision = "accept" /\ disk.basis = Base(disk)
        /\ HandOff(disk)
  /\ UNCHANGED <<store, revision>>

-----------------------------------------------------------------------------
(* resume: what the Producer or Deliberation has sent.                     *)

Resume ==
  /\ Command
  /\ mem' = disk
  /\ Goto("resume")
  /\ UNCHANGED <<disk, run, store, revision, outbox>>

Waits(s) == s.phase = "waiting_upstream_result"

\* A completed result changes the plan, and a request of its own is written for
\* the tasks that affects.
Usable(x) == x.completed

ConsumeResult ==
  LET r == Len(requests) + 1
      s == [mem EXCEPT !.plan = @ + 1]
  IN /\ pc = "resume" /\ Waits(mem)
     /\ requests[mem.active].base = Base(mem)
     /\ \E x \in answers :
          /\ x.request = mem.active
          /\ Usable(x)
          /\ \E ags \in SUBSET Agent :
               /\ requests' = Append(requests, [route |-> "refresh", base |-> Base(s),
                                                targets |-> ags])
               /\ SaveAndEnd([s EXCEPT !.tasks = @ \union TasksOf(r, ags),
                                       !.decision = "none", !.active = r,
                                       !.phase = "authorization_required",
                                       !.status = "BLOCKED",
                                       !.consumed = @ \union {x.request}], "returned")
     /\ UNCHANGED <<commands, store, slots, claims, results, answers, outbox>>

ResultUnusable ==
  /\ pc = "resume" /\ Waits(mem)
  /\ \E x \in answers : x.request = mem.active /\ ~Usable(x)
  /\ SaveAndEnd([mem EXCEPT !.phase = "blocked", !.status = "BLOCKED"], "returned")
  /\ UNCHANGED <<commands, store, revision, outbox>>

External == {r \in DOMAIN requests : requests[r].route = "external"}

\* The single slot of researcher_revision holds the latest request.
Slot == CHOOSE r \in External : \A x \in External : x <= r

\* A canonical request holds on to the report it is about by its hash, one from
\* before the exchange only by its id, which never changes.
Current(r, s) ==
  \/ requests[r].legacy
  \/ /\ requests[r].base.report = s.report
     /\ requests[r].base.seen = s.seen

\* No report, no request or no result yet, or a request that is stale, answered
\* before, or whose tasks were not saved.
Matches(s) == s.request = Slot

ResumeRefused ==
  /\ pc = "resume"
  /\ IF Waits(mem) THEN \A x \in answers : x.request # mem.active
     ELSE mem.report = 0 \/ External = {}
  /\ Refuse("nothing")
  /\ UNCHANGED <<commands, store, revision, outbox>>

HasRequest == pc = "resume" /\ ~Waits(mem) /\ mem.report # 0 /\ External # {}

ResumeStale ==
  /\ HasRequest
  /\ \/ ~Current(Slot, mem) /\ Refuse("stale")
     \/ /\ Current(Slot, mem) /\ outbox.request # Slot /\ Matches(mem)
        /\ \/ mem.record = "reply_sent" /\ Refuse("processed")
           \/ /\ mem.record # "reply_sent"
              /\ TasksOf(Slot, Asked) \intersect mem.tasks = {}
              /\ Refuse("tasks_missing")
  /\ UNCHANGED <<commands, store, revision, outbox>>

\* _reconcile_written_external_reply
ResumeAnswered ==
  /\ HasRequest
  /\ Current(Slot, mem)
  /\ outbox.request = Slot
  /\ SaveAndEnd([mem EXCEPT !.status = "COMPLETED_REVISION", !.pending = 0,
                            !.record = IF Matches(mem) THEN "reply_sent" ELSE @,
                            !.checkpoint = "COMPLETED_REVISION"], "returned")
  /\ UNCHANGED <<commands, store, revision, outbox>>

\* A new request is noted and saved, its tasks only then.
ResumeNew ==
  /\ HasRequest
  /\ Current(Slot, mem) /\ outbox.request # Slot /\ ~Matches(mem)
  /\ Save([mem EXCEPT !.externals = @ + 1, !.request = Slot, !.pending = Slot,
                      !.record = "processing", !.checkpoint = "REQUEST_RECEIVED"])
  /\ Goto("received")
  /\ UNCHANGED <<run, commands, store, revision, outbox>>

PlanTasks ==
  /\ pc = "received"
  /\ Save([mem EXCEPT !.tasks = @ \union TasksOf(Slot, Asked),
                      !.checkpoint = "TASKS_PLANNED"])
  /\ Goto("external")
  /\ UNCHANGED <<run, commands, store, revision, outbox>>

ResumeOld ==
  /\ HasRequest
  /\ Current(Slot, mem) /\ outbox.request # Slot /\ Matches(mem)
  /\ mem.record # "reply_sent"
  /\ TasksOf(Slot, Asked) \subseteq mem.tasks
  /\ Save([mem EXCEPT !.record = "processing"])
  /\ Goto("external")
  /\ UNCHANGED <<run, commands, store, revision, outbox>>

\* _validate_external_checkpoint
Conflict(s) ==
  /\ s.checkpoint \in ResultsRequired
  /\ ~(TasksOf(Slot, Asked) \subseteq s.done) \/ s.failed \intersect Asked # {}

\* What is complete is not sent again; a report that is built is reused.
ExternalTasks ==
  LET todo == TasksOf(Slot, Asked) \ mem.done
      next == [NoRun EXCEPT !.ext = TRUE, !.then = "external"]
  IN /\ pc = "external"
     /\ \/ Conflict(mem) /\ Refuse("checkpoint_conflict")
        \/ /\ ~Conflict(mem) /\ todo # {}
           /\ Save(Dispatched([mem EXCEPT !.checkpoint = "TASKS_DISPATCHED"]))
           /\ run' = [next EXCEPT !.todo = todo]
           /\ Goto("gather")
        \/ /\ ~Conflict(mem) /\ todo = {}
           /\ Save([mem EXCEPT !.checkpoint = IF @ \in Advanced THEN @
                                              ELSE "RESULTS_COLLECTED"])
           /\ run' = [next EXCEPT !.reuse = mem.checkpoint \in Advanced]
           /\ Goto("integrate")
     /\ UNCHANGED <<commands, store, revision, outbox>>

\* authorize_provider_retry, and resume.
ProviderRetry ==
  LET c == disk.error
      again == [reviews[c].id EXCEPT !.retry = TRUE]
  IN /\ Command
     /\ disk.status \in {"FAILED", "INTEGRATING", "REVIEWING"}
     /\ disk.checkpoint = "QUALITY_REVIEWING"
     /\ c # 0
     /\ reviews[c].answer = "retryable" /\ ~reviews[c].id.retry
     /\ \A x \in DOMAIN reviews : reviews[x].id # again
     /\ retries' = retries \union {again}
     /\ mem' = disk
     /\ Goto("resume")
     /\ UNCHANGED <<disk, run, paid, repairs, repaid, reports, reviews, revision,
                    outbox>>

-----------------------------------------------------------------------------
(* execute_authorized_revision                                             *)

\* _build_revision_tasks: whom the findings and targets of the review and the gaps of
\* the report name, and not only those of the request; a new plan has its tasks.
Called(r) ==
  IF requests[r].route = "refresh" THEN {requests[r].targets}
  ELSE {ags \in SUBSET Agent : requests[r].targets \subseteq ags}

\* _saved_internal_revision_tasks: none, if the save behind the slot was lost.
\* (Faulty: only those that are still to be done.)
SavedRevisionTasks_Open(s) == {t \in s.tasks : t.cycle = s.active} \ s.done

SavedRevisionTasks(s) == {t \in s.tasks : t.cycle = s.active}

\* A decision to revise or a new plan, on the artifacts it was about, and a
\* review that demands it.
UpToDate(s) == requests[s.active].base = Base(s)

MayExecute(s) ==
  /\ s.active # 0
  /\ s.decision = "revise" \/ requests[s.active].route = "refresh"
  /\ s.report # 0 /\ UpToDate(s)
  /\ VerdictOf(s) \in {"gaps", "plan"}

Resumable == {"REVISING", "FAILED", "COLLECTING", "PARTIALLY_COMPLETED", "RUNNING"}

Execute ==
  LET r == disk.active
  IN /\ Command
     /\ MayExecute(disk)
     /\ mem' = disk
     /\ run' = [NoRun EXCEPT !.ext = External # {}, !.then = "internal"]
     /\ \/ /\ r \notin slots /\ disk.status = "BLOCKED"
           /\ Cardinality(slots) < MaxRevisions
           /\ slots' = slots \union {r}
           /\ Goto("begin")
        \/ r \in slots /\ disk.status \in Resumable /\ Goto("consume") /\ UNCHANGED slots
     /\ UNCHANGED <<disk, store, requests, claims, results, answers, outbox>>

ExecuteRefused ==
  LET r == disk.active
  IN /\ Command
     /\ MayExecute(disk)
     /\ \/ /\ r \notin slots /\ disk.status = "BLOCKED"
           /\ Cardinality(slots) >= MaxRevisions
           /\ SaveAndEnd([disk EXCEPT !.phase = "blocked"], "exhausted")
        \/ /\ r \in slots /\ disk.status \notin Resumable
           /\ Refuse("not_resumable")
     /\ UNCHANGED <<store, revision, outbox>>

\* The tasks are saved behind the budget slot, under a count of their own.
BeginRevision ==
  /\ pc = "begin"
  /\ \E ags \in Called(mem.active) :
       Save([mem EXCEPT !.count = Cardinality(slots),
                        !.tasks = @ \union TasksOf(mem.active, ags),
                        !.record = IF mem.externals = 0 THEN @ ELSE "processing",
                        !.status = "REVISING"])
  /\ Goto("consume")
  /\ UNCHANGED <<run, commands, store, revision, outbox>>

\* The calls to be paid for: the tasks and the review.
Reservations(s) ==
  [request |-> s.active, tasks |-> SavedRevisionTasks(s),
   review |-> ReviewTask(s, FALSE, FALSE)]

\* The authorization is created for as many calls and consumed with the list, which
\* is to be the same each time; then the state is saved.
\* (Faulty: it is only created.)
Consume_Not ==
  /\ pc = "consume"
  /\ Goto("execute")
  /\ UNCHANGED <<disk, mem, run, commands, store, revision, outbox>>

Consume ==
  /\ pc = "consume"
  /\ claims' = claims \union {Reservations(mem)}
  /\ Goto("execute")
  /\ UNCHANGED <<disk, mem, run, commands, store, requests, slots, results, answers,
                 outbox>>

Executing ==
  LET s == [mem EXCEPT !.phase = "executing"]
      todo == SavedRevisionTasks(mem) \ mem.done
  IN /\ pc = "execute"
     /\ Save(IF todo = {} THEN s ELSE Dispatched(s))
     /\ run' = [run EXCEPT !.todo = todo]
     /\ Goto(IF todo = {} THEN "integrate" ELSE "gather")
     /\ UNCHANGED <<commands, store, revision, outbox>>

-----------------------------------------------------------------------------
(* Repairs of single tasks before there is a report.                       *)

\* Tasks of the plan that failed for the drift and are not done.
\* (Faulty: all tasks of the plan.)
Candidates_All(s) == TasksOf(0, Agent)

Candidates(s) == (s.drifted \intersect TasksOf(0, Agent)) \ s.done

MayRepair(s) ==
  s.status \in {"FAILED", "PARTIALLY_COMPLETED", "RUNNING"} /\ s.report = 0

\* recover_runtime_model_drift
RuntimeRepair ==
  /\ Command
  /\ MayRepair(disk)
  /\ Candidates(disk) # {} \/ disk.tasks \subseteq disk.done
  /\ mem' = disk
  /\ run' = [NoRun EXCEPT !.then = "repair"]
  /\ Goto("repair")
  /\ UNCHANGED <<disk, store, revision, outbox>>

\* One task after the other is authorized and sent to the new model.
RepairTask ==
  /\ pc = "repair"
  /\ \E t \in Candidates(mem) :
       /\ repairs' = repairs \union {t}
       /\ run' = [run EXCEPT !.todo = {t}]
  /\ Save(Dispatched(mem))
  /\ Goto("repairing")
  /\ UNCHANGED <<commands, paid, repaid, reports, reviews, retries, revision, outbox>>

\* A repair is paid for once; one that fails is not repaired.
Repaired ==
  /\ pc = "repairing"
  /\ repaid' = repaid \union run.todo
  /\ \E t \in run.todo :
       \/ /\ t \notin repaid
          /\ LET s == Recorded(mem, t, "result")
             IN Save([s EXCEPT !.status = "RUNNING"])
          /\ Goto("repair")
          /\ UNCHANGED run
       \/ SaveAndEnd(Failed([Recorded(mem, t, "error") EXCEPT
                               !.drifted = @ \ {t}]), "failed")
  /\ UNCHANGED <<commands, paid, repairs, reports, reviews, retries, revision, outbox>>

RepairsDone ==
  /\ pc = "repair"
  /\ Candidates(mem) = {}
  /\ \/ /\ mem.tasks \subseteq mem.done
        /\ Save(mem)
        /\ Goto("integrate")
        /\ UNCHANGED run
     \/ ~(mem.tasks \subseteq mem.done) /\ Refuse("incomplete")
  /\ UNCHANGED <<commands, store, revision, outbox>>

\* run_task: any saved task, again.
RunTask ==
  /\ Command
  /\ \E t \in disk.tasks : run' = [NoRun EXCEPT !.todo = {t}, !.then = "task"]
  /\ Save(Dispatched(disk))
  /\ Goto("gather")
  /\ UNCHANGED <<store, revision, outbox>>

Crash ==
  /\ pc # "idle"
  /\ lost' = (lost \/ pc = "begin")
  /\ Refuse("crashed")
  /\ UNCHANGED <<commands, store, revision, outbox>>

-----------------------------------------------------------------------------
(* The Producer and Deliberation.                                          *)

ProducerAnswers ==
  /\ \E r \in Upstream, b \in BOOLEAN :
       /\ \A x \in answers : x.request # r
       /\ answers' = answers \union {[request |-> r, completed |-> b]}
  /\ UNCHANGED <<disk, mem, pc, run, ended, commands, store, requests, slots, claims,
                 results, outbox>>

DeliberationAsks ==
  /\ Cardinality(External) < MaxExternal
  /\ outbox # NoMail
  /\ External # {} => outbox.request = Slot
  /\ \E b \in Legacy :
       requests' = Append(requests, [route |-> "external", base |-> outbox.base,
                                     targets |-> Asked, legacy |-> b])
  /\ UNCHANGED <<disk, mem, pc, run, ended, commands, store, slots, claims, results,
                 answers, outbox>>

Step ==
  \/ Gather \/ Record \/ Collected
  \/ Integrate \/ Build \/ Reuse \/ AskReview \/ AnswerReview \/ Hear
  \/ Assess \/ Embed \/ Route \/ RouteRefused \/ PrepareGate
  \/ ConsumeResult \/ ResultUnusable \/ ResumeRefused \/ ResumeStale
  \/ ResumeAnswered \/ ResumeNew \/ PlanTasks \/ ResumeOld \/ ExternalTasks
  \/ BeginRevision \/ Consume \/ Executing
  \/ RepairTask \/ Repaired \/ RepairsDone

Next ==
  \/ /\ \/ Step
        \/ Decide \/ RecoverGate \/ Resume \/ ProviderRetry
        \/ Execute \/ ExecuteRefused \/ RuntimeRepair \/ RunTask
        \/ ProducerAnswers \/ DeliberationAsks
     /\ UNCHANGED lost
  \/ Crash

Spec == Init /\ [][Next]_vars

-----------------------------------------------------------------------------
(* Properties.                                                             *)

IsTask(t) == t.cycle \in 0 .. Len(requests) /\ t.agent \in Agent

TypeOK ==
  /\ \A s \in {disk, mem} :
       /\ s.status \in Status /\ s.phase \in Phase /\ s.checkpoint \in Checkpoint
       /\ \A t \in s.tasks : IsTask(t)
       /\ s.done \subseteq s.tasks /\ s.failed \subseteq Agent
       /\ s.report \in 0 .. Len(reports)
       /\ {s.seen, s.review, s.error} \subseteq 0 .. Len(reviews)
       /\ s.saved \subseteq DOMAIN reviews
       /\ {s.active, s.request, s.pending} \subseteq 0 .. Len(requests)
  /\ ended \in {"none", "returned", "failed", "crashed", "nothing", "stale",
                "processed", "tasks_missing", "checkpoint_conflict", "exhausted",
                "not_resumable", "incomplete", "upstream_budget"}
  /\ \A t \in paid \union repairs : IsTask(t)
  /\ repaid \subseteq repairs
  /\ slots \union {c.request : c \in claims} \subseteq DOMAIN requests
  /\ Cardinality(slots) <= MaxRevisions
  /\ outbox.request \in 0 .. Len(requests)

\* No save behind a slot is lost, and no request is from before the exchange: such a
\* one stays current, and resume builds the old report again for it while the
\* tasks of an internal revision are still to be done.
Orderly == ~lost /\ \A r \in External : ~requests[r].legacy

\* The review that goes with a report is of that report.
OfItsReport(base) == base.seen # 0 => reviews[base.seen].about = base.report

\* The review a human is shown is a review of the very report in the state, and
\* the one Deliberation gets with a report is of that report, whatever was
\* interrupted, repeated or answered before, in an orderly workflow.
\* (_integrate_and_review, _saved_quality_review_exchange)
ReviewedAsShown ==
  Orderly => /\ disk.seen # 0 => disk.seen = disk.review
             /\ OfItsReport(disk) /\ OfItsReport(outbox.base)

Reserved(r) == UNION {c.tasks : c \in {x \in claims : x.request = r}}

Authorized(t) ==
  \/ t.cycle \in {0} \union External
  \/ t.cycle \in slots /\ t \in Reserved(t.cycle)

\* Whatever command dispatches the task of a revision, other than the one for a
\* single task: its budget slot is taken and an authorization that reserves this
\* very call is consumed before it is paid for.
\* (execute_authorized_revision, resume)
RevisionCallsAreAuthorized ==
  [][run.then # "task" => \A t \in paid' \ paid : Authorized(t)]_vars

\* A revision that is executed again, after whatever failed, stopped or was done in
\* between, reserves the calls it reserved before: another list is refused, and a
\* slot and the saved tasks would be stuck behind it.
\* (execute_authorized_revision, consume_authorization)
ReservationsAreKept == \A c, x \in claims : c.request = x.request => c = x

\* A decision is on a report of the plan in the state, and what Deliberation gets
\* was built from the plan it is handed over with: a new plan does not come in below
\* what was reviewed and decided, in an orderly workflow.
\* (_consume_producer_revision_result, decide_human_evidence)
DecisionsAreOfThisPlan ==
  Orderly => /\ disk.decision # "none" => reports[disk.report].plan = disk.plan
             /\ outbox # NoMail => reports[outbox.base.report].plan = outbox.base.plan

\* The tasks of a revision: of the agents its request names, and all it has reserved.
RevisionTasks(r) == TasksOf(r, requests[r].targets) \union Reserved(r)

\* A result of a revision is about a report that rests on all its tasks, and
\* says of it what the review of that report said, and there is at most one, in
\* an orderly workflow.
\* (_finalize_common_internal_revision)
ResultsAreTruthful ==
  Orderly => \A x \in results :
    /\ RevisionTasks(x.request) \subseteq reports[x.report].rests
    /\ reviews[x.review].about = x.report
    /\ x.status = "completed" <=> reviews[x.review].answer \in {"approved", "approved_gaps"}
    /\ \A y \in results : x.request = y.request => x = y

\* A task with a result is never paid for again, also not by its repair.
CompletedWorkIsReused ==
  [][/\ (paid' \ paid) \intersect disk.done = {}
     /\ (repaid' \ repaid) \intersect disk.done = {}]_vars

-----------------------------------------------------------------------------
(* What the code says and does not keep.                                   *)

\* researcher/manager.py:4029-4033: a revision with incomplete specialist tasks
\* has failed.  (execute_authorized_revision)
RevisionsDoTheirTasks ==
  \A x \in results : RevisionTasks(x.request) \subseteq reports[x.report].rests

\* README.md:274: a revision a human has planned calls no more specialists than its
\* plan says, which counts the agents of the findings.
\* (_revision_plan, _build_revision_tasks)
RevisionsKeepToTheirPlan ==
  \A c \in claims :
    requests[c.request].route = "internal" =>
      Cardinality(c.tasks) <= Cardinality(requests[c.request].targets)

================================================================================
