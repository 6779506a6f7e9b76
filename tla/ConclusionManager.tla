--------------------------- MODULE ConclusionManager ---------------------------
(***************************************************************************)
(* The Conclusion Manager of one workflow in Demo Safe Mode                *)
(* (conclusion/manager.py): positions, their evaluation, the integration   *)
(* and its Quality Review make a package; a human selects from it and      *)
(* Playwright receives the Final Conclusion.  A review, a new result of    *)
(* Deliberation or a request of Playwright leads to a revision the         *)
(* operator authorizes.                                                    *)
(*                                                                         *)
(* One command runs at a time, saves the state as it goes and may stop     *)
(* between two saves.  The model keeps an artifact as the logical task id  *)
(* of the call that made it, which is paid for once.  The code does not:   *)
(* it compares the ids that stand in the answers, and those of candidates, *)
(* evaluations and integrations are free text of the provider.             *)
(* Deliberation and Playwright are the environment.                        *)
(***************************************************************************)
EXTENDS Integers, Sequences, FiniteSets

CONSTANTS
  Name(_),       \* the ids that stand in the answer of a call: those of the
                 \* candidates, the evaluation or the integration
  Impacts,       \* what Playwright asks for
  MaxRevisions,  \* limit of internal revisions, and of requests to Deliberation
  MaxReports,    \* bound: results of Deliberation
  MaxEpoch,      \* bound: epochs of Playwright's requests
  MaxCommands,   \* bound: commands after start
  MaxTrouble     \* bound: crashes, calls and handoffs that fail

ASSUME ImpactsAssumption == Impacts \subseteq {"unchanged", "reselection_required"}

ASSUME LimitAssumption ==
  {MaxRevisions, MaxReports, MaxEpoch, MaxCommands, MaxTrouble} \subseteq Nat

VARIABLES
  disk,     \* the saved ConclusionWorkflowState
  mem,      \* the copy the running command works on
  pc,       \* where it is
  run,      \* the stages it makes again, and their ids
  ended,    \* how the last command ended
  commands, \* how many have been given
  trouble,  \* how many crashes and failures there have been
  paid,     \* logical task ids that are reserved
  retries,  \* those with an operator retry authorization
  made,     \* what the calls have brought
  checks,   \* what the deterministic validator says of a package's contents
  requests, \* revision requests written
  slots,    \* internal requests that hold a budget slot, in order
  spent,    \* requests whose authorization is consumed
  adopted,  \* requests of Playwright with an audit event
  results,  \* canonical results of requests
  finals,   \* selections made so far, each with its Final Conclusion
  borrowed, \* history: artifacts recover restored for an executing revision
  inbox,    \* Deliberation's latest handoff
  outbox    \* what lies in Playwright's inbox

calls    == <<trouble, paid, retries, made, checks, borrowed>>
exchange == <<requests, slots, spent, adopted, results>>
ends     == <<finals, inbox, outbox>>
vars     == <<disk, mem, pc, run, ended, commands, calls, exchange, ends>>

-----------------------------------------------------------------------------
(* The state.                                                              *)

Stages == 1 .. 4   \* position generation, evaluation, integration, review

\* A logical task: the upstream and the revision number in its name, the
\* combination of candidates a human asked for, whether it is an operator retry.
Id(stage, up, rev, mark) ==
  [stage |-> stage, up |-> up, rev |-> rev, mark |-> mark, retry |-> FALSE]

NoId == Id(0, 0, 0, 0)

RetryOf(id) == [id EXCEPT !.retry = TRUE]

\* of: positions, evaluation, integration; review: the verdict it carries
NoPackage == [of |-> [n \in 1 .. 3 |-> NoId], report |-> 0, review |-> NoId]

NoRequest == [route |-> "none", epoch |-> 0, source |-> NoId, first |-> 0,
              impact |-> "none", report |-> 0, package |-> NoPackage, final |-> 0]

Status == {"CREATED", "GENERATING_POSITIONS", "EVALUATING_POSITIONS",
           "INTEGRATING_DECISION", "REVIEWING", "REVISING", "BLOCKED", "FAILED",
           "WAITING_UPSTREAM_REVISION", "WAITING_HUMAN_SELECTION", "COMPLETED"}

Phase == {"idle", "authorization_required", "executing", "completed",
          "waiting_upstream_result", "blocked"}

\* report: the Deliberation Result; art: the artifact of each stage; selection: the
\* human selection and its Final Conclusion, about: the contents it was made from;
\* heard: the answers in the message history; fault: the last error in it
NewState == [status |-> "CREATED", report |-> 1, art |-> [n \in Stages |-> NoId],
             package |-> NoPackage, valid |-> FALSE, selection |-> 0,
             about |-> NoPackage.of, heard |-> {}, fault |-> NoId, again |-> FALSE,
             count |-> 0, up |-> 0, phase |-> "idle", epoch |-> 0,
             active |-> NoRequest, consumed |-> {}]

\* at: the stage; ids: the ids the command gives its stages
NoRun == [at |-> 0, ids |-> [n \in Stages |-> NoId], mark |-> 0]

Init ==
  /\ disk = NewState /\ mem = NewState
  /\ pc = "ask" /\ run = [NoRun EXCEPT !.at = 1]
  /\ ended = "none" /\ commands = 0 /\ trouble = 0
  /\ paid = {} /\ retries = {} /\ made = {} /\ checks = {} /\ borrowed = {}
  /\ requests = {} /\ slots = <<>> /\ spent = {} /\ adopted = {} /\ results = {}
  /\ finals = 0 /\ inbox = 1
  /\ outbox = [final |-> 0, package |-> NoPackage]

Save(s) == disk' = s /\ mem' = s

Goto(l) == pc' = l /\ UNCHANGED ended

End(how) == pc' = "idle" /\ run' = NoRun /\ ended' = how

SaveAndEnd(s, how) == Save(s) /\ End(how)

\* A refusal, an exception nobody catches, a return without a save.
Leave(how) == End(how) /\ mem' = disk /\ UNCHANGED disk

Fail(s) == SaveAndEnd([s EXCEPT !.status = "FAILED"], "failed")

Block(s) == SaveAndEnd([s EXCEPT !.status = "BLOCKED"], "blocked")

Command ==
  /\ pc = "idle"
  /\ commands < MaxCommands
  /\ commands' = commands + 1

Maximum(a, b) == IF a > b THEN a ELSE b

\* (Faulty: the selection outlives what it was made from.)
Cleared_Selection(s, n) ==
  [s EXCEPT !.art = [k \in Stages |-> IF k < n THEN @[k] ELSE NoId],
            !.package = NoPackage, !.valid = FALSE]

\* _clear_from_failed_stage
Cleared(s, n) ==
  [s EXCEPT !.art = [k \in Stages |-> IF k < n THEN @[k] ELSE NoId],
            !.package = NoPackage, !.valid = FALSE,
            !.selection = 0, !.about = NoPackage.of]

\* What the artifact of the n-th stage is made from.
Before(art, n) == [k \in 1 .. n - 1 |-> art[k]]

Contents(s) == Before(s.art, 4)

-----------------------------------------------------------------------------
(* _run_generation_and_review: the stages from run.at on.                  *)

\* _logical_task_id
LogicalId(s, n, mark) == Id(n, s.up, s.count, mark)

StageId(n) == IF run.ids[n] # NoId THEN run.ids[n] ELSE LogicalId(mem, n, run.mark)

Working == <<"GENERATING_POSITIONS", "EVALUATING_POSITIONS", "INTEGRATING_DECISION",
             "REVIEWING">>

\* _execute_agent: the request is saved, then the agent is called.
Ask ==
  /\ pc = "ask"
  /\ Save([mem EXCEPT !.status = Working[run.at]])
  /\ Goto("answer")
  /\ UNCHANGED <<run, commands, calls, exchange, ends>>

\* What the reviewer may say: a package that passes, one that nobody can repair, the
\* first stage of an internal revision, or a return to Deliberation.
Verdicts == {<<"approved", 0>>, <<"blocked", 0>>, <<"return", 0>>}
              \union {<<"revise", n>> : n \in 1 .. 3}

Brought(id) ==
  {[id |-> id, on |-> Before(mem.art, id.stage), report |-> mem.report, verdict |-> v] :
     v \in IF id.stage = 4 THEN Verdicts ELSE {<<"none", 0>>}}

Outcomes(id) ==
  IF id \in paid THEN {"error"}
  ELSE IF trouble < MaxTrouble THEN {"result", "retryable", "error"} ELSE {"result"}

Answer ==
  LET id == StageId(run.at)
  IN /\ pc = "answer"
     /\ paid' = paid \union {id}
     /\ \E k \in Outcomes(id) :
          \/ /\ k = "result"
             /\ \E m \in Brought(id) : made' = made \union {m}
             /\ Save([mem EXCEPT !.heard = @ \union {id}])
             /\ run' = [run EXCEPT !.ids[run.at] = id]
             /\ Goto("keep")
             /\ UNCHANGED trouble
          \/ /\ k # "result"
             /\ trouble' = trouble + (IF id \in paid THEN 0 ELSE 1)
             /\ Fail([mem EXCEPT !.fault = id, !.again = k = "retryable"])
             /\ UNCHANGED made
     /\ UNCHANGED <<commands, retries, checks, borrowed, exchange, ends>>

\* The checkpoint of the stage is saved.
Keep ==
  /\ pc = "keep"
  /\ Save([mem EXCEPT !.art[run.at] = run.ids[run.at]])
  /\ run' = [run EXCEPT !.at = @ + 1]
  /\ Goto(<<"ask", "ask", "package", "judge">>[run.at])
  /\ UNCHANGED <<commands, calls, exchange, ends>>

\* (Faulty: a package may pass although a human has selected.)
Passes_Selected(s, v) == v

Passes(s, v) == v /\ s.selection = 0

\* The package is built again and validated; the review it carried is gone.
Package ==
  /\ pc = "package"
  /\ \E v \in BOOLEAN :
       /\ \A c \in checks : c.of = Contents(mem) => c.passed = v
       /\ checks' = checks \union {[of |-> Contents(mem), passed |-> v]}
       /\ Save([mem EXCEPT !.package = [of |-> Contents(mem), report |-> mem.report,
                                        review |-> NoId],
                           !.valid = Passes(mem, v)])
  /\ Goto("review")
  /\ UNCHANGED <<run, commands, trouble, paid, retries, made, borrowed, exchange, ends>>

\* m and s are about what bears the same id at the k-th stage.
Agree(m, s, k) == Name(m.on[k]) = Name(s.art[k])

\* _stage_result_matches_state: by the ids an answer refers to, which were those of
\* its input; two generations may share them.
Matches(s, m) ==
  CASE m.id.stage = 1 -> m.report = s.report
    [] m.id.stage = 2 -> m.report = s.report /\ Agree(m, s, 1)
    [] m.id.stage = 3 -> Agree(m, s, 2)
    [] OTHER -> \A k \in 1 .. 3 : Agree(m, s, k)

Fits(s, id) == id \in s.heard /\ \A m \in made : m.id = id => Matches(s, m)

\* A review of this id that is saved and about this package is used again.
Review ==
  /\ pc = "review"
  /\ run' = [run EXCEPT !.at = 4, !.ids[4] = StageId(4)]
  /\ mem' = [mem EXCEPT !.status = "REVIEWING"]
  /\ Goto(IF Fits(mem, StageId(4)) THEN "keep" ELSE "ask")
  /\ UNCHANGED <<disk, commands, calls, exchange, ends>>

-----------------------------------------------------------------------------
(* What the review leads to.                                               *)

Verdict(id) == (CHOOSE m \in made : m.id = id).verdict

OfReview(s) == Verdict(s.art[4])

Executing(s) == s.phase = "executing"

ForPlaywright(s) == Executing(s) /\ s.active.route = "playwright"

ResultsOf(r) == {x \in results : x.request = r}

\* _finalize_active_revision: the result is written once, then the state follows
\* with the next save.
Finalized(s, status) ==
  IF ~Executing(s) THEN s
  ELSE [s EXCEPT !.phase = IF status = "completed" THEN "completed" ELSE "blocked",
                 !.consumed = @ \union {s.active}]

\* (Faulty: whatever the review says.)
Result_Completed(s, status) ==
  [request |-> s.active, status |-> "completed", report |-> s.report,
   package |-> s.package, final |-> s.selection]

Result(s, status) ==
  [request |-> s.active, status |-> status, report |-> s.report,
   package |-> s.package, final |-> s.selection]

WriteResult(s, status) ==
  results' = IF Executing(s) THEN results \union {Result(s, status)} ELSE results

\* (Faulty: the reviewer's word is enough.)
Approved_Unchecked(s) == OfReview(s)[1] = "approved"

Approved(s) == OfReview(s)[1] = "approved" /\ s.valid

\* What Playwright asked for is complete when a human has selected again.
SettlesByReview(s) == Executing(s) /\ ~ForPlaywright(s)

Approve ==
  LET s == [mem EXCEPT !.package.review = mem.art[4]]
  IN /\ pc = "judge"
     /\ Approved(mem)
     /\ mem' = IF SettlesByReview(mem) THEN Finalized(s, "completed") ELSE s
     /\ IF SettlesByReview(mem) THEN WriteResult(s, "completed") ELSE UNCHANGED results
     /\ Goto("approved")
     /\ UNCHANGED <<disk, run, commands, calls, requests, slots, spent, adopted, ends>>

WaitForHuman ==
  /\ pc = "approved"
  /\ SaveAndEnd([mem EXCEPT !.status = "WAITING_HUMAN_SELECTION"], "waiting")
  /\ UNCHANGED <<commands, calls, exchange, ends>>

\* An approval the validator does not share: the revision stays as it is.
Overruled ==
  /\ pc = "judge"
  /\ OfReview(mem)[1] = "approved" /\ ~Approved(mem)
  /\ Block(mem)
  /\ UNCHANGED <<commands, calls, exchange, ends>>

\* Any other verdict ends a revision as partial.
Unsettled ==
  /\ pc = "judge"
  /\ OfReview(mem)[1] # "approved"
  /\ WriteResult(mem, "partial")
  /\ mem' = Finalized(mem, "partial")
  /\ Goto(CASE OfReview(mem)[1] = "blocked" -> "stop"
            [] OfReview(mem)[1] = "return" -> "upstream"
            [] OTHER -> IF Executing(mem) THEN "stop" ELSE "plan")
  /\ UNCHANGED <<disk, run, commands, calls, requests, slots, spent, adopted, ends>>

\* A blocked review; or Safe Mode does not plan a second revision by itself.
Stop ==
  /\ pc = "stop"
  /\ Block(mem)
  /\ UNCHANGED <<commands, calls, exchange, ends>>

Base(s, r) == [r EXCEPT !.report = s.report, !.package = s.package]

InternalRequest(s) ==
  Base(s, [NoRequest EXCEPT !.route = "internal", !.source = s.art[4],
                            !.epoch = Maximum(s.epoch, s.count) + 1,
                            !.first = OfReview(s)[2]])

Planned(s, r) ==
  [s EXCEPT !.phase = "authorization_required", !.epoch = r.epoch, !.active = r,
            !.status = "BLOCKED"]

SameId(q, r) == q.route = r.route /\ q.epoch = r.epoch /\ q.source = r.source

\* _plan_internal_revision: a request carries its time, so that it cannot be
\* written a second time.
Plan ==
  LET r == InternalRequest(mem)
  IN /\ pc = "plan"
     /\ \/ /\ \A q \in requests : ~SameId(q, r)
           /\ requests' = requests \union {r}
           /\ mem' = Planned(mem, r)
           /\ Goto("planned")
           /\ UNCHANGED <<disk, run>>
        \/ /\ \E q \in requests : SameId(q, r)
           /\ Leave("refused")
           /\ UNCHANGED requests
     /\ UNCHANGED <<commands, calls, slots, spent, adopted, results, ends>>

\* revise() goes on with it, a review does not.
SavePlan ==
  /\ pc \in {"planned", "activated"}
  /\ Save(mem)
  /\ CASE pc = "activated" -> Goto("authorize") /\ UNCHANGED run
       [] pc = "planned" /\ run.at = 0 -> Goto("execute") /\ UNCHANGED run
       [] OTHER -> End("blocked")
  /\ UNCHANGED <<commands, calls, exchange, ends>>

-----------------------------------------------------------------------------
(* Deliberation.                                                           *)

Upstream == {r \in requests : r.route = "upstream"}

MayAskUpstream == Cardinality(Upstream) < MaxRevisions

\* _request_upstream_revision
AskDeliberation ==
  LET r == Base(mem, [NoRequest EXCEPT !.route = "upstream", !.source = mem.art[4],
                                       !.epoch = Maximum(mem.epoch, mem.up) + 1])
  IN /\ pc = "upstream"
     /\ \/ /\ MayAskUpstream
           /\ requests' = requests \union {r}
           /\ mem' = [mem EXCEPT !.up = @ + 1, !.status = "WAITING_UPSTREAM_REVISION",
                                 !.phase = "waiting_upstream_result",
                                 !.epoch = r.epoch, !.active = r]
           /\ Goto("asked")
           /\ UNCHANGED <<disk, run>>
        \/ ~MayAskUpstream /\ Leave("refused") /\ UNCHANGED requests
     /\ UNCHANGED <<commands, calls, slots, spent, adopted, results, ends>>

Asked ==
  /\ pc = "asked"
  /\ SaveAndEnd(mem, "waiting")
  /\ UNCHANGED <<commands, calls, exchange, ends>>

Reply(r, status, report) ==
  [request |-> r, status |-> status, report |-> report, package |-> NoPackage, final |-> 0]

\* A handoff is taken when it is the one its result names.
Answers(x) == x.status = "completed" /\ x.report = inbox

\* resume(): an older Deliberation files no result; one is adapted from its handoff.
Resume ==
  LET r == mem.active
      ready == /\ mem.status = "WAITING_UPSTREAM_REVISION"
               /\ inbox # mem.report /\ mem.selection = 0
               /\ \A x \in ResultsOf(r) : Answers(x)
      child == [NoRequest EXCEPT !.route = "internal", !.epoch = r.epoch + 1,
                                 !.source = r.source, !.first = 1,
                                 !.report = inbox, !.package = mem.package]
  IN /\ Command
     /\ \/ /\ ready
           /\ results' = IF ResultsOf(r) # {} THEN results
                         ELSE results \union {Reply(r, "completed", inbox)}
           /\ requests' = requests \union {child}
           /\ mem' = [Planned(mem, child) EXCEPT !.report = inbox,
                                                 !.consumed = @ \union {r}]
           /\ Goto("resumed")
           /\ UNCHANGED <<disk, run>>
        \/ ~ready /\ Leave("refused") /\ UNCHANGED <<requests, results>>
     /\ UNCHANGED <<calls, slots, spent, adopted, ends>>

Resumed ==
  /\ pc = "resumed"
  /\ SaveAndEnd(mem, "blocked")
  /\ UNCHANGED <<commands, calls, exchange, ends>>

-----------------------------------------------------------------------------
(* revise(): the operator authorizes what is planned.                      *)

\* validate_current_base_artifacts of a request of Playwright
Current(s, r) == r.final = s.selection /\ r.package = s.package

Pending(s) ==
  IF s.phase \in {"authorization_required", "executing"} THEN {}
  ELSE {r \in requests : r.route = "playwright"} \ s.consumed

Revisable(s) ==
  /\ s.status = "BLOCKED"
  /\ s.phase = "authorization_required" \/ (s.art[4] # NoId /\ OfReview(s)[1] = "revise")

Revise ==
  /\ Command
  /\ CASE Pending(mem) # {} -> Goto("activate") /\ UNCHANGED <<disk, mem, run>>
       [] Pending(mem) = {} /\ Revisable(mem) ->
            /\ Goto(IF mem.phase = "authorization_required" THEN "authorize" ELSE "plan")
            /\ UNCHANGED <<disk, mem, run>>
       [] OTHER -> Leave("refused")
  /\ UNCHANGED <<calls, exchange, ends>>

\* _activate_pending_playwright_revision: the event carries its time, so that it
\* cannot be written a second time.
Activate ==
  /\ pc = "activate"
  /\ \E r \in Pending(mem) :
       \/ /\ Current(mem, r) /\ r \notin adopted
          /\ adopted' = adopted \union {r}
          /\ mem' = Planned(mem, r)
          /\ Goto("activated")
          /\ UNCHANGED <<disk, run>>
       \/ /\ ~Current(mem, r) \/ r \in adopted
          /\ Leave("refused")
          /\ UNCHANGED adopted
  /\ UNCHANGED <<commands, calls, requests, slots, spent, results, ends>>

Slot(r) == {i \in DOMAIN slots : slots[i] = r}

HasBudget(r) == r.route # "internal" \/ Slot(r) # {} \/ Len(slots) < MaxRevisions

\* No revision is left for what waits: a request of Playwright gets no answer either.
Limit ==
  /\ pc = "authorize"
  /\ mem.count >= MaxRevisions
  /\ Block(mem)
  /\ UNCHANGED <<commands, calls, exchange, ends>>

Exhausted ==
  LET epoch == mem.active.epoch
      reached == IF epoch < MaxRevisions THEN epoch ELSE MaxRevisions
  IN /\ pc = "execute" \/ (pc = "authorize" /\ mem.count < MaxRevisions)
     /\ ~HasBudget(mem.active)
     /\ Block([mem EXCEPT !.phase = "blocked", !.count = Maximum(@, reached)])
     /\ UNCHANGED <<commands, calls, exchange, ends>>

Authorize ==
  LET r == mem.active
  IN /\ pc = "execute" \/ (pc = "authorize" /\ mem.count < MaxRevisions)
     /\ HasBudget(r)
     /\ slots' = IF r.route # "internal" \/ Slot(r) # {} THEN slots ELSE Append(slots, r)
     /\ spent' = spent \union {r}
     /\ Goto(IF r.impact = "unchanged" THEN "resend" ELSE "begin")
     /\ UNCHANGED <<disk, mem, run, commands, calls, requests, adopted, results, ends>>

\* _revision_execution_identities: by the epoch of the request
OwnIds(s) ==
  [n \in Stages |-> IF n < s.active.first THEN NoId ELSE Id(n, s.up, s.active.epoch, 0)]

Begin ==
  LET taken == Slot(mem.active)
      s == [mem EXCEPT !.phase = "executing", !.status = "REVISING",
                       !.count = IF taken = {} THEN @
                                 ELSE Maximum(@, CHOOSE i \in taken : TRUE)]
  IN /\ pc = "begin"
     /\ Save(Cleared(s, mem.active.first))
     /\ run' = [NoRun EXCEPT !.at = mem.active.first, !.ids = OwnIds(mem)]
     /\ Goto("ask")
     /\ UNCHANGED <<commands, calls, exchange, ends>>

Handoff(s) == [final |-> s.selection, package |-> s.package]

\* A structural correction: the same Final Conclusion is sent again.
Resend ==
  /\ pc = "resend"
  /\ outbox' = Handoff(mem)
  /\ mem' = [mem EXCEPT !.phase = "executing"]
  /\ Goto("resent")
  /\ UNCHANGED <<disk, run, commands, calls, exchange, finals, inbox>>

\* A result carries the time of the handoff: it cannot be written a second time.
Settle(label) ==
  /\ pc = label
  /\ \/ /\ ResultsOf(mem.active) = {}
        /\ WriteResult(mem, "completed")
        /\ mem' = Finalized(mem, "completed")
        /\ Goto("settled")
        /\ UNCHANGED <<disk, run>>
     \/ /\ ResultsOf(mem.active) # {}
        /\ Leave("refused")
        /\ UNCHANGED results
  /\ UNCHANGED <<commands, calls, requests, slots, spent, adopted, ends>>

Resent == Settle("resent")

Settled ==
  /\ pc = "settled"
  /\ SaveAndEnd([mem EXCEPT !.status = "COMPLETED"], "completed")
  /\ UNCHANGED <<commands, calls, exchange, ends>>

-----------------------------------------------------------------------------
(* Recovery.                                                               *)

\* _recoverable_stage_task_ids, the operator retry first; in the first cycle the
\* retries of any other id of the stage count too.
Recoverable(s, n) ==
  LET base == LogicalId(s, n, 0)
      foreign == IF s.count > 0 \/ s.up > 0 THEN {}
                 ELSE {id \in s.heard : id.stage = n /\ id.retry}
  IN foreign \union {base} \union
       (IF base \in retries THEN {RetryOf(base)} ELSE {})

\* The answer a missing artifact is restored from.
Restorable(s, n) ==
  LET answered == {id \in Recoverable(s, n) : id \in s.heard}
      retried == {id \in answered : id.retry}
  IN IF answered = {} THEN NoId
     ELSE CHOOSE id \in (IF retried # {} THEN retried ELSE answered) : TRUE

\* One stage of the restoring of t.state, which goes on as long as it finds them.
RestoreStage(t, n) ==
  LET id == Restorable(t.state, n)
  IN IF t.state.art[n] # NoId THEN t
     ELSE IF t.goes /\ id # NoId /\ Fits(t.state, id)
     THEN [t EXCEPT !.state = [t.state EXCEPT !.art[n] = id]]
     ELSE [t EXCEPT !.goes = FALSE]

\* _restore_saved_stage_responses: from the first missing stage on, as far as there
\* is an answer that matches.
Restored(s) ==
  LET first == RestoreStage([state |-> s, goes |-> TRUE], 1)
  IN RestoreStage(RestoreStage(RestoreStage(first, 2), 3), 4).state

RestoredStages(s) == {n \in Stages : s.art[n] = NoId /\ Restored(s).art[n] # NoId}

\* The first stage to be made again: 5 when none is.
NextStage(s) ==
  IF \A n \in Stages : s.art[n] # NoId THEN 5
  ELSE CHOOSE n \in Stages : s.art[n] = NoId /\ \A k \in 1 .. n - 1 : s.art[k] # NoId

PendingRetry(id) == id \in retries /\ RetryOf(id) \notin paid

\* authorize_provider_retry: an answer to be retried, once.
ProviderRetry ==
  /\ pc = "idle" /\ disk.status = "FAILED"
  /\ disk.again /\ disk.fault \notin retries /\ ~disk.fault.retry
  /\ retries' = retries \union {disk.fault}
  /\ UNCHANGED <<disk, mem, pc, run, ended, commands, trouble, paid, made, checks, borrowed,
                 exchange, ends>>

\* Whether the last failure of a call stands in the way of a recovery that goes on
\* at the n-th stage.
Suspect(s, n) ==
  IF n = 5 \/ s.fault = NoId \/ s.fault.stage \in RestoredStages(s) \ {n} THEN NoId
  ELSE s.fault

CanGoOn(s, n) ==
  \/ Suspect(s, n) = NoId
  \/ Suspect(s, n).stage = n /\ PendingRetry(Suspect(s, n))

Recover ==
  LET s == Restored(mem)
      n == NextStage(s)
      suspect == Suspect(mem, n)
      ready == mem.status = "FAILED" /\ CanGoOn(mem, n)
      ids == [NoRun.ids EXCEPT ![4] = IF 4 \in RestoredStages(mem) THEN s.art[4] ELSE NoId]
  IN /\ Command
     /\ \/ ready /\ Save(IF suspect = NoId THEN s ELSE Cleared(s, n))
          /\ run' = [NoRun EXCEPT !.at = n,
                       !.ids = IF suspect = NoId THEN ids ELSE [@ EXCEPT ![n] = RetryOf(suspect)]]
          /\ borrowed' = borrowed \union
               {s.art[k] : k \in IF Executing(mem) THEN RestoredStages(mem) \ {4} ELSE {}}
          /\ Goto(IF n <= 3 THEN "ask" ELSE "package")
        \/ ~ready /\ Leave("refused") /\ UNCHANGED borrowed
     /\ UNCHANGED <<trouble, paid, retries, made, checks, exchange, ends>>

-----------------------------------------------------------------------------
(* The human.                                                              *)

\* integrate_candidates: the review is given up, and the candidates are integrated
\* under an id that names the combination.
Combine(mark) ==
  LET ready == mem.status = "WAITING_HUMAN_SELECTION"
  IN /\ Command
     /\ \/ ready /\ Save([mem EXCEPT !.art[4] = NoId])
          /\ run' = [NoRun EXCEPT !.at = 3, !.mark = mark]
          /\ Goto("ask")
        \/ ~ready /\ Leave("refused")
     /\ UNCHANGED <<calls, exchange, ends>>

Integrate == Combine(1)

Selectable(s) ==
  /\ s.status = "WAITING_HUMAN_SELECTION"
  /\ s.art[4] # NoId
  /\ OfReview(s)[1] = "approved"

\* select(): the Final Conclusion goes to Playwright before the state is saved.
Select ==
  /\ Command
  /\ \/ /\ Selectable(mem)
        /\ finals' = finals + 1
        /\ mem' = [mem EXCEPT !.selection = finals + 1, !.about = mem.package.of]
        /\ Goto("send")
        /\ UNCHANGED <<disk, run>>
     \/ ~Selectable(mem) /\ Leave("refused") /\ UNCHANGED finals
  /\ UNCHANGED <<calls, exchange, inbox, outbox>>

Send ==
  /\ pc = "send"
  /\ outbox' = Handoff(mem)
  /\ Goto(IF ForPlaywright(mem) THEN "sent_again" ELSE "sent")
  /\ UNCHANGED <<disk, mem, run, commands, calls, exchange, finals, inbox>>

SendFails ==
  /\ pc = "send"
  /\ trouble < MaxTrouble
  /\ trouble' = trouble + 1
  /\ Fail(mem)
  /\ UNCHANGED <<commands, paid, retries, made, checks, borrowed, exchange, ends>>

SentAgain == Settle("sent_again")

Sent ==
  /\ pc = "sent"
  /\ SaveAndEnd([mem EXCEPT !.status = "COMPLETED"], "completed")
  /\ UNCHANGED <<commands, calls, exchange, ends>>

-----------------------------------------------------------------------------
(* Around it.                                                              *)

Crash ==
  /\ pc # "idle"
  /\ trouble < MaxTrouble
  /\ trouble' = trouble + 1
  /\ Leave("crashed")
  /\ UNCHANGED <<commands, paid, retries, made, checks, borrowed, exchange, ends>>

\* Deliberation files a result of a request and hands over; an older one hands over
\* only.
DeliberationFiles ==
  /\ inbox < MaxReports
  /\ \E r \in Upstream, status \in {"completed", "partial"} :
       /\ ResultsOf(r) = {}
       /\ results' = results \union {Reply(r, status, inbox + 1)}
  /\ UNCHANGED <<disk, mem, pc, run, ended, commands, calls, requests, slots, spent,
                 adopted, ends>>

DeliberationHands ==
  /\ inbox < MaxReports
  /\ Upstream # {}
  /\ inbox' = inbox + 1
  /\ UNCHANGED <<disk, mem, pc, run, ended, commands, calls, exchange, finals, outbox>>

OfPlaywright == {r \in requests : r.route = "playwright"}

\* Playwright asks about what it has received, once at a time.
PlaywrightAsks ==
  /\ outbox.final > 0
  /\ \A r \in OfPlaywright : ResultsOf(r) # {}
  /\ \E e \in 1 .. MaxEpoch, impact \in Impacts :
       /\ \A r \in OfPlaywright : r.epoch < e
       /\ requests' = requests \union
            {[NoRequest EXCEPT !.route = "playwright", !.epoch = e, !.impact = impact,
                               !.first = IF impact = "unchanged" THEN 3 ELSE 1,
                               !.package = outbox.package, !.final = outbox.final]}
  /\ UNCHANGED <<disk, mem, pc, run, ended, commands, calls, slots, spent, adopted, results,
                 ends>>

Line == Ask \/ Answer \/ Keep \/ Package \/ Review

Judge ==
  \/ Approve \/ WaitForHuman \/ Overruled \/ Unsettled \/ Stop \/ Plan \/ SavePlan
  \/ AskDeliberation \/ Asked \/ Resume \/ Resumed

Revision ==
  \/ Revise \/ Activate \/ Limit \/ Exhausted \/ Authorize \/ Begin \/ Resend
  \/ Resent \/ Settled

Recovery == ProviderRetry \/ Recover

Human == Integrate \/ Select \/ Send \/ SendFails \/ SentAgain \/ Sent

Around == Crash \/ DeliberationFiles \/ DeliberationHands \/ PlaywrightAsks

Next == Line \/ Judge \/ Revision \/ Recovery \/ Human \/ Around

Spec == Init /\ [][Next]_vars

-----------------------------------------------------------------------------
(* Properties.                                                             *)

IsId(id) ==
  /\ DOMAIN id = {"stage", "up", "rev", "mark", "retry"}
  /\ id.stage \in 0 .. 4 /\ id.up \in 0 .. MaxRevisions /\ id.mark \in 0 .. 1
  /\ id.rev \in 0 .. Maximum(MaxEpoch, 0) + 2 * MaxRevisions + 1

StateOK(s) ==
  /\ s.status \in Status /\ s.phase \in Phase
  /\ \A n \in Stages : IsId(s.art[n]) /\ s.art[n].stage \in {0, n}
  /\ s.count \in 0 .. MaxRevisions /\ s.up \in 0 .. MaxRevisions
  /\ s.report <= MaxReports /\ s.selection <= finals
  /\ s.consumed \subseteq requests

TypeOK ==
  /\ StateOK(disk) /\ StateOK(mem)
  /\ \A id \in paid \union retries : IsId(id)
  /\ {slots[i] : i \in DOMAIN slots} \union spent \union adopted \subseteq requests
  /\ Len(slots) <= MaxRevisions /\ Cardinality(Upstream) <= MaxRevisions

Genuine(of) ==
  \A m \in made : \A n \in 1 .. 3 : m.id = of[n] => m.on = Before(of, n)

Borrows(p) == \E n \in 1 .. 3 : p.of[n] \in borrowed

\* No two evaluations and no two integrations bear the same id.
Unambiguous(ms) ==
  \A m, m2 \in ms :
    m.id.stage = m2.id.stage /\ m.id.stage \in {2, 3} /\ Name(m.id) = Name(m2.id)
      => m.id = m2.id

\* What Playwright gets has passed the validator and carries an approval of contents of
\* these ids.  While no provider repeats the id of an evaluation or an integration, the
\* approval is about this evaluation and this integration; and it is about these
\* positions, each part made from the ones before it, unless a revision has taken a
\* part from the answers there were before it began.
HandoffWasApproved ==
  outbox.final > 0 =>
    LET p == outbox.package
    IN /\ [of |-> p.of, passed |-> TRUE] \in checks
       /\ \E m \in made :
            /\ m.id = p.review /\ m.verdict[1] = "approved"
            /\ \A k \in 1 .. 3 : Name(m.on[k]) = Name(p.of[k])
            /\ Unambiguous(made) =>
                 /\ m.on[2] = p.of[2] /\ m.on[3] = p.of[3]
                 /\ Borrows(p) \/ (m.on = p.of /\ Genuine(p.of))

\* The approval Playwright gets was given for the evaluation and the integration it
\* gets: recovery matches saved results "by logical task and dependent artifacts"
\* (README.md:141).  The code does not keep this when the ids are repeated.
ApprovalIsOfThisPackage ==
  outbox.final > 0 =>
    \E m \in made : /\ m.id = outbox.package.review
                      /\ m.on[2] = outbox.package.of[2] /\ m.on[3] = outbox.package.of[3]

\* A saved human selection stands for the package it was made from: whatever fails,
\* is recovered or revised, no other contents are saved beside it.
SelectionIsOfThisPackage ==
  disk.selection > 0 => disk.package.of = disk.about /\ Contents(disk) = disk.about

\* While the workflow waits for the human, the package there is has passed the
\* validator and carries its approval, and no selection is left from before.
WaitsWithAnApproval ==
  disk.status = "WAITING_HUMAN_SELECTION" =>
    /\ disk.selection = 0
    /\ disk.valid
    /\ disk.art[4] # NoId => /\ OfReview(disk)[1] = "approved"
                             /\ disk.package.review = disk.art[4]

\* An internal revision is complete when its package was approved.  Playwright is
\* told that a structural correction is complete with the selection it asked about,
\* and that any other one is with a new selection.
CompletedIsTrue ==
  \A x \in results :
    x.status = "completed" =>
      /\ x.request.route = "internal" => /\ x.package.review # NoId
                                         /\ Verdict(x.package.review)[1] = "approved"
      /\ x.request.impact = "unchanged" => x.final = x.request.final
      /\ x.request.impact = "reselection_required" => x.final > x.request.final

\* A Deliberation Result is taken over only with a complete result that names it.
UpstreamWasAnswered ==
  disk.report > 1 =>
    \E x \in results : /\ x.request.route = "upstream" /\ x.status = "completed"
                       /\ x.report = disk.report

\* Results are true whichever way they go: what this workflow tells Playwright, and
\* what Deliberation told it when it took over a new report, although the result and
\* the handoff are two files.
ResultsAreTruthful == CompletedIsTrue /\ UpstreamWasAnswered

\* Playwright's human selection changes only by a revision it has asked for: "同じ
\* selectionはidempotent、異なる再選択は契約上許可されたRevision後だけ"
\* (scripts/build_developer_guide.py:542).
SelectionsChangeByRevision ==
  [][ outbox.final \notin {0, outbox'.final} =>
        \E r \in spent : r.impact = "reselection_required" /\ r.final = outbox.final ]_vars

\* No revision is made of what the cycle before it has saved: "must never satisfy a
\* later revision/upstream checkpoint merely because the Decision Context is
\* unchanged" (conclusion/manager.py:4074).
RevisionsAreMadeAnew == borrowed = {}
================================================================================
