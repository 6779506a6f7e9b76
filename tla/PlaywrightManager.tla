--------------------------- MODULE PlaywrightManager ---------------------------
(***************************************************************************)
(* The Playwright Manager of one workflow in Demo Safe Mode                *)
(* (playwright/manager.py): four agents turn Conclusion's handoff into a   *)
(* narrative, a script, its citations and its visuals; a deterministic     *)
(* gate decides whether they are delivered, repaired, revised or blocked.  *)
(* A handoff with a problem goes back to Conclusion first.                 *)
(*                                                                         *)
(* One command runs at a time, saves the state as it goes and may stop     *)
(* between two writes.  The model keeps an artifact as the logical task id *)
(* of the call that made it, which is paid for once.  The code does not:   *)
(* it compares the ids that stand in the answers, and those are free text  *)
(* of the provider.  Conclusion is the environment.                        *)
(***************************************************************************)
EXTENDS Integers, Sequences, FiniteSets

CONSTANTS
  Name(_),       \* the artifact id that stands in the answer of a call
  Refers(_),     \* the id it gives for what it was made from
  Targets,       \* the stages a finding of the gate may point at
  Problems,      \* what may be wrong with a handoff
  MaxRevisions,  \* limit of internal revisions, and of requests to Conclusion
  MaxHandoffs,   \* bound: handoffs of Conclusion
  MaxCommands,   \* bound: commands after start
  MaxTrouble     \* bound: crashes and calls that fail

ASSUME TargetsAssumption == Targets # {} /\ Targets \subseteq 1 .. 4

ASSUME ProblemsAssumption == Problems \subseteq {"structural", "content"}

ASSUME LimitAssumption ==
  {MaxRevisions, MaxHandoffs, MaxCommands, MaxTrouble} \subseteq Nat

VARIABLES
  disk,     \* the saved PlaywrightWorkflowState
  mem,      \* the copy the running command works on
  pc,       \* where it is
  run,      \* the stage it makes next, and the ids it was given
  ended,    \* how the last command ended
  commands, \* how many have been given
  trouble,  \* how many crashes and failures there have been
  paid,     \* logical task ids that are reserved
  retries,  \* those with an operator retry authorization
  made,     \* what the calls have brought
  checks,   \* what the deterministic validator says of contents
  requests, \* revision requests written
  slots,    \* internal requests that hold a budget slot, in order
  asked,    \* how many requests to Conclusion hold one
  noted,    \* requests with an audit event that carries its own time
  results,  \* results of requests
  packages, \* Final Script Packages built so far
  files,    \* the package file, and the files of the delivery
  inbox     \* Conclusion's latest handoff

calls    == <<trouble, paid, retries, made, checks>>
exchange == <<requests, slots, asked, noted, results>>
ends     == <<packages, files, inbox>>
vars     == <<disk, mem, pc, run, ended, commands, calls, exchange, ends>>

-----------------------------------------------------------------------------
(* The state.                                                              *)

Stages == 1 .. 4   \* narrative, script, citations, visuals

\* A logical task: the upstream and the revision number in its name, and whether it
\* is an operator retry.
Id(stage, up, rev) == [stage |-> stage, up |-> up, rev |-> rev, retry |-> FALSE]

NoId == Id(0, 0, 0)

RetryOf(id) == [id EXCEPT !.retry = TRUE]

NoArt == [n \in Stages |-> NoId]

\* form: how the citations came: edited, restored from the answer, or repaired;
\* handoff: the one the Production Context was built from
NoContents == [art |-> NoArt, form |-> "none", handoff |-> 0]

NoRequest == [route |-> "none", epoch |-> 0, serial |-> 0, first |-> 0,
              impact |-> "none", final |-> 0, base |-> NoContents]

NoPackage == [serial |-> 0, of |-> NoContents, final |-> 0]

Status == {"CREATED", "VALIDATING_HANDOFF", "DESIGNING_NARRATIVE", "WRITING_SCRIPT",
           "EDITING_CITATIONS", "DESIGNING_VISUALS", "VALIDATING_PACKAGE", "REVISING",
           "WAITING_UPSTREAM_REVISION", "COMPLETED", "BLOCKED", "FAILED"}

Phase == {"idle", "authorization_required", "executing", "completed",
          "waiting_upstream_result", "blocked"}

\* checked: the contents the saved validation is about; asked, heard: requests and
\* answers in the message history; fault: the last error in it
NewState == [status |-> "CREATED", handoff |-> 0, final |-> 0, problem |-> "none",
             art |-> NoArt, form |-> "none", checked |-> NoContents, package |-> NoPackage,
             asked |-> {}, heard |-> {}, fault |-> NoId, again |-> FALSE,
             count |-> 0, repairs |-> 0, up |-> 0,
             phase |-> "idle", epoch |-> 0, active |-> NoRequest]

\* at: the stage; ids: the task ids the command was given
NoRun == [at |-> 0, ids |-> NoArt]

Init ==
  /\ disk = NewState /\ mem = NewState
  /\ pc = "idle" /\ run = NoRun /\ ended = "none" /\ commands = 0 /\ trouble = 0
  /\ paid = {} /\ retries = {} /\ made = {} /\ checks = {}
  /\ requests = {} /\ slots = <<>> /\ asked = 0 /\ noted = {} /\ results = {}
  /\ packages = 0
  /\ files = [package |-> NoPackage, delivery |-> NoPackage, script |-> NoPackage]
  /\ \E p \in Problems \union {"none"} : inbox = [n |-> 1, final |-> 1, problem |-> p]

Save(s) == disk' = s /\ mem' = s

Goto(l) == pc' = l /\ UNCHANGED ended

End(how) == pc' = "idle" /\ run' = NoRun /\ ended' = how

SaveAndEnd(s, how) == Save(s) /\ End(how)

\* A refusal, an exception nobody catches, a return without a save.
Leave(how) == End(how) /\ mem' = disk /\ UNCHANGED disk

Fail(s) == SaveAndEnd([s EXCEPT !.status = "FAILED"], "failed")

Block(s) == SaveAndEnd([s EXCEPT !.status = "BLOCKED"], "blocked")

Command ==
  /\ pc = "idle"
  /\ disk.status # "CREATED"
  /\ commands < MaxCommands
  /\ commands' = commands + 1

Maximum(a, b) == IF a > b THEN a ELSE b

Contents(s) == [art |-> s.art, form |-> s.form, handoff |-> s.handoff]

\* (Faulty: what was made from the removed artifacts stays.)
Cleared_One(s, n) ==
  [s EXCEPT !.art = [k \in Stages |-> IF k # n THEN @[k] ELSE NoId],
            !.form = IF n = 3 THEN "none" ELSE @,
            !.checked = NoContents, !.package = NoPackage]

\* _clear_from
Cleared(s, n) ==
  [s EXCEPT !.art = [k \in Stages |-> IF k < n THEN @[k] ELSE NoId],
            !.form = IF n <= 3 THEN "none" ELSE @,
            !.checked = NoContents, !.package = NoPackage]

-----------------------------------------------------------------------------
(* _run: the stages from run.at on, and the gate.                          *)

\* _logical_task_id
LogicalId(s, n) == Id(n, s.up, s.count)

StageId(n) == IF run.ids[n] # NoId THEN run.ids[n] ELSE LogicalId(mem, n)

Working == <<"DESIGNING_NARRATIVE", "WRITING_SCRIPT", "EDITING_CITATIONS",
             "DESIGNING_VISUALS">>

\* _execute_agent: the request is saved, then the agent is called.
Ask ==
  /\ pc = "ask"
  /\ Save([mem EXCEPT !.status = Working[run.at], !.asked = @ \union {StageId(run.at)}])
  /\ Goto("answer")
  /\ UNCHANGED <<run, commands, calls, exchange, ends>>

\* The artifacts of the stages before n.
Before(art, n) == [k \in 1 .. n - 1 |-> art[k]]

\* What a call makes, and from what.
Made(id) == [id |-> id, on |-> Before(mem.art, id.stage), handoff |-> mem.handoff]

Outcomes(id) ==
  IF id \in paid THEN {"error"}
  ELSE IF trouble < MaxTrouble THEN {"result", "retryable", "error"} ELSE {"result"}

Answer ==
  LET id == StageId(run.at)
  IN /\ pc = "answer"
     /\ paid' = paid \union {id}
     /\ \E k \in Outcomes(id) :
          \/ /\ k = "result"
             /\ made' = made \union {Made(id)}
             /\ Save([mem EXCEPT !.heard = @ \union {id}])
             /\ run' = [run EXCEPT !.ids[run.at] = id]
             /\ Goto("keep")
             /\ UNCHANGED trouble
          \/ /\ k # "result"
             /\ trouble' = trouble + (IF id \in paid THEN 0 ELSE 1)
             /\ Fail([mem EXCEPT !.fault = id, !.again = k = "retryable"])
             /\ UNCHANGED made
     /\ UNCHANGED <<commands, retries, checks, exchange, ends>>

\* The checkpoint of the stage is saved.
Keep ==
  /\ pc = "keep"
  /\ Save([mem EXCEPT !.art[run.at] = run.ids[run.at],
                      !.form = IF run.at = 3 THEN "edited" ELSE @])
  /\ run' = [run EXCEPT !.at = @ + 1]
  /\ Goto(IF run.at < 4 THEN "ask" ELSE "validate")
  /\ UNCHANGED <<commands, calls, exchange, ends>>

\* The id an artifact should refer to: the Production Context of a handoff, or what
\* its provider has called the artifact before it.
SourceOf(s, n) == IF n = 1 THEN s.handoff ELSE Name(s.art[n - 1])

\* _stage_result_matches_state
Matches(s, m) == Refers(m) = SourceOf(s, m.id.stage)

\* _stage_is_valid: there are artifacts up to n, and each refers to the one before it.
Linked(s, n) ==
  \A k \in 1 .. n : s.art[k] # NoId /\ \A m \in made : m.id = s.art[k] => Matches(s, m)

\* _first_missing_stage: 5 when none is.
FirstMissing(s) ==
  IF Linked(s, 4) THEN 5 ELSE CHOOSE n \in Stages : Linked(s, n - 1) /\ ~Linked(s, n)

\* PlaywrightValidator.validate: no finding, errors that point at a stage, or errors
\* in the citations only that the deterministic repair knows.  An artifact that
\* refers to another one than it stands on is an error of its stage.
Verdicts ==
  {<<"approved", 0>>, <<"repairable", 3>>} \union {<<"revise", n>> : n \in Stages}

Possible(s) ==
  LET n == FirstMissing(s)
  IN IF n = 5 THEN {v \in Verdicts : v[1] = "revise" => v[2] \in Targets}
     ELSE {<<"revise", k>> : k \in {n} \union {j \in Targets : j < n}}

\* The same contents are judged in the same way.
Validate ==
  /\ pc = "validate"
  /\ \E v \in Possible(mem) :
       /\ \A c \in checks : c.of = Contents(mem) => c.verdict = v
       /\ checks' = checks \union {[of |-> Contents(mem), verdict |-> v]}
  /\ Save([mem EXCEPT !.status = "VALIDATING_PACKAGE", !.checked = Contents(mem)])
  /\ Goto("judge")
  /\ UNCHANGED <<run, commands, trouble, paid, retries, made, exchange, ends>>

Verdict(of) == (CHOOSE c \in checks : c.of = of).verdict

\* (Faulty: nobody looks again at what was repaired.)
Passed_Repaired(s) == Verdict(s.checked)[1] = "approved" \/ s.form = "repaired"

Passed(s) == Verdict(s.checked)[1] = "approved"

\* (Faulty: every finding is worth a revision.)
Gate_Endless(s) == IF Passed(s) THEN "approved" ELSE "revise"

\* _final_gate: the limit decides between a revision and a block.
Gate(s) ==
  IF Passed(s) THEN "approved"
  ELSE IF s.count >= MaxRevisions THEN "blocked" ELSE "revise"

Executing(s) == s.phase = "executing"

ResultsOf(r) == {x \in results : x.request = r}

\* (Faulty: whatever the gate says.)
Result_Completed(s, status) ==
  [request |-> s.active, status |-> "completed", of |-> s.checked, final |-> s.final]

Result(s, status) ==
  [request |-> s.active, status |-> status, of |-> s.checked, final |-> s.final]

\* _finalize_active_revision: a result carries its time, so that it cannot be
\* written a second time; the state follows with the next save.
Conflict(s) == Executing(s) /\ ResultsOf(s.active) # {}

WriteResult(s, status) ==
  results' = IF Executing(s) THEN results \union {Result(s, status)} ELSE results

Finalized(s, status) ==
  IF ~Executing(s) THEN s
  ELSE [s EXCEPT !.phase = IF status = "completed" THEN "completed" ELSE "blocked"]

NotFinalized ==
  /\ pc = "judge"
  /\ Conflict(mem)
  /\ Leave("refused")
  /\ UNCHANGED <<commands, calls, exchange, ends>>

\* _build_final_package
Built(s) == [serial |-> packages + 1, of |-> Contents(s), final |-> s.final]

Approve ==
  /\ pc = "judge"
  /\ Gate(mem) = "approved" /\ ~Conflict(mem)
  /\ packages' = packages + 1
  /\ WriteResult(mem, "completed")
  /\ mem' = Finalized([mem EXCEPT !.package = Built(mem)], "completed")
  /\ Goto("package")
  /\ UNCHANGED <<disk, run, commands, calls, requests, slots, asked, noted, files, inbox>>

\* Safe Mode does not plan a second revision by itself.
Unsettled ==
  /\ pc = "judge"
  /\ Gate(mem) # "approved" /\ ~Conflict(mem)
  /\ WriteResult(mem, "partial")
  /\ mem' = Finalized(mem, "partial")
  /\ Goto(IF Gate(mem) = "blocked" \/ Executing(mem) THEN "stop" ELSE "plan")
  /\ UNCHANGED <<disk, run, commands, calls, requests, slots, asked, noted, ends>>

Stop ==
  /\ pc = "stop"
  /\ Block(mem)
  /\ UNCHANGED <<commands, calls, exchange, ends>>

\* save_final_package, then save_deliveries: the package and the manifest, then the
\* texts for the reader.
PackageFile ==
  /\ pc = "package"
  /\ files' = [files EXCEPT !.package = mem.package]
  /\ Goto("deliver")
  /\ UNCHANGED <<disk, mem, run, commands, calls, exchange, packages, inbox>>

\* (Faulty: what has been delivered is not delivered again.)
Written_Once(old, new) == IF old.serial = 0 THEN new ELSE old

Written(old, new) == new

Deliver ==
  /\ pc = "deliver"
  /\ files' = [files EXCEPT !.delivery = Written(@, mem.package)]
  /\ Goto("texts")
  /\ UNCHANGED <<disk, mem, run, commands, calls, exchange, packages, inbox>>

DeliverTexts ==
  /\ pc = "texts"
  /\ files' = [files EXCEPT !.script = Written(@, mem.package)]
  /\ Goto("delivered")
  /\ UNCHANGED <<disk, mem, run, commands, calls, exchange, packages, inbox>>

Delivered ==
  /\ pc = "delivered"
  /\ SaveAndEnd([mem EXCEPT !.status = "COMPLETED"], "completed")
  /\ UNCHANGED <<commands, calls, exchange, ends>>

-----------------------------------------------------------------------------
(* An internal revision.                                                   *)

InternalRequest(s) ==
  [NoRequest EXCEPT !.route = "internal", !.epoch = Maximum(s.epoch, s.count) + 1,
                    !.first = Verdict(s.checked)[2], !.final = s.final,
                    !.base = s.checked]

\* _plan_internal_revision
Plan ==
  LET r == InternalRequest(mem)
  IN /\ pc = "plan"
     /\ requests' = requests \union {r}
     /\ mem' = [mem EXCEPT !.phase = "authorization_required", !.epoch = r.epoch,
                           !.active = r, !.status = "BLOCKED"]
     /\ Goto("planned")
     /\ UNCHANGED <<disk, run, commands, calls, slots, asked, noted, results, ends>>

\* revise() goes on with it, the gate does not.
SavePlan ==
  /\ pc = "planned"
  /\ Save(mem)
  /\ IF run.at = 0 THEN Goto("execute") /\ UNCHANGED run ELSE End("blocked")
  /\ UNCHANGED <<commands, calls, exchange, ends>>

Planned(s) == s.phase = "authorization_required"

Revisable(s) ==
  /\ s.status = "BLOCKED"
  /\ Planned(s) \/ (s.checked # NoContents /\ Gate(s) = "revise")

Revise ==
  /\ Command
  /\ \/ /\ Revisable(mem)
        /\ Goto(IF Planned(mem) THEN "execute" ELSE "plan")
        /\ UNCHANGED <<disk, mem, run>>
     \/ ~Revisable(mem) /\ Leave("refused")
  /\ UNCHANGED <<calls, exchange, ends>>

Slot(r) == {i \in DOMAIN slots : slots[i] = r}

HasBudget(r) == Slot(r) # {} \/ Len(slots) < MaxRevisions

\* The revision is of what there is now, and the limit is not reached.
Executable(s) ==
  s.count < MaxRevisions /\ s.active.base = s.checked /\ s.active.final = s.final

Exhausted ==
  LET r == mem.active
  IN /\ pc = "execute"
     /\ Executable(mem) /\ ~HasBudget(r)
     /\ \/ /\ r \notin noted
           /\ noted' = noted \union {r}
           /\ mem' = [mem EXCEPT !.phase = "blocked"]
           /\ Goto("stop")
           /\ UNCHANGED <<disk, run>>
        \/ r \in noted /\ Leave("refused") /\ UNCHANGED noted
     /\ UNCHANGED <<commands, calls, requests, slots, asked, results, ends>>

Authorize ==
  LET r == mem.active
  IN /\ pc = "execute"
     /\ Executable(mem) /\ HasBudget(r)
     /\ slots' = IF Slot(r) # {} THEN slots ELSE Append(slots, r)
     /\ Goto("begin")
     /\ UNCHANGED <<disk, mem, run, commands, calls, requests, asked, noted, results, ends>>

\* _revision_execution_identities: by the epoch of the request
OwnIds(s) ==
  [n \in Stages |-> IF n < s.active.first THEN NoId ELSE Id(n, s.up, s.active.epoch)]

Begin ==
  LET slot == CHOOSE i \in Slot(mem.active) : TRUE
      s == [mem EXCEPT !.phase = "executing", !.status = "REVISING",
                       !.count = Maximum(@, slot)]
  IN /\ pc = "begin"
     /\ Save(Cleared(s, mem.active.first))
     /\ run' = [at |-> mem.active.first, ids |-> OwnIds(mem)]
     /\ Goto("ask")
     /\ UNCHANGED <<commands, calls, exchange, ends>>

-----------------------------------------------------------------------------
(* The handoff, and what goes back to Conclusion.                          *)

\* The handoff replaces everything that was made from the one before.
Received(s) ==
  [Cleared(s, 1) EXCEPT !.handoff = inbox.n, !.final = inbox.final,
                        !.problem = inbox.problem]

\* start_from_message
Start ==
  /\ pc = "idle" /\ disk.status = "CREATED"
  /\ Save([Received(mem) EXCEPT !.status = "VALIDATING_HANDOFF"])
  /\ Goto("received")
  /\ UNCHANGED <<run, commands, calls, exchange, ends>>

\* _handoff_problems; without one, a Production Context is built.
Receive ==
  /\ pc = "received"
  /\ Save(mem)
  /\ IF mem.problem = "none" THEN Goto("ask") /\ run' = [NoRun EXCEPT !.at = 1]
     ELSE Goto("upstream") /\ UNCHANGED run
  /\ UNCHANGED <<commands, calls, exchange, ends>>

Upstream == {r \in requests : r.route = "upstream"}

\* _request_upstream_revision: every attempt is a request of its own.
AskConclusion ==
  LET r == [NoRequest EXCEPT !.route = "upstream", !.serial = asked + 1,
                             !.epoch = Maximum(mem.epoch, mem.up) + 1, !.final = mem.final,
                             !.impact = IF mem.problem = "structural" THEN "unchanged"
                                        ELSE "reselection_required"]
  IN /\ pc = "upstream"
     /\ \/ /\ asked < MaxRevisions
           /\ asked' = asked + 1
           /\ requests' = requests \union {r}
           /\ mem' = [mem EXCEPT !.up = @ + 1, !.status = "WAITING_UPSTREAM_REVISION",
                                 !.phase = "waiting_upstream_result", !.epoch = r.epoch,
                                 !.active = r]
           /\ Goto("asked")
           /\ UNCHANGED <<disk, run>>
        \/ asked >= MaxRevisions /\ Leave("refused") /\ UNCHANGED <<requests, asked>>
     /\ UNCHANGED <<commands, calls, slots, noted, results, ends>>

Asked ==
  /\ pc = "asked"
  /\ SaveAndEnd(mem, "waiting")
  /\ UNCHANGED <<commands, calls, exchange, ends>>

Reply(r, status) ==
  [request |-> r, status |-> status, of |-> NoContents, final |-> inbox.final]

\* An older Conclusion files no result: one is adapted from its handoff.
Answers(r) == IF ResultsOf(r) # {} THEN ResultsOf(r) ELSE {Reply(r, "completed")}

\* _consume_conclusion_revision_result: the result is about this handoff, and a
\* structural correction keeps the selection; its event carries its own time.
Consumable(s, x) ==
  /\ x.status = "completed" /\ x.final = inbox.final
  /\ x.request.impact = "unchanged" => inbox.final = s.final
  /\ x.request.impact = "reselection_required" => inbox.final # s.final
  /\ x.request \notin noted

Waiting(s) == s.phase = "waiting_upstream_result"

Resume ==
  LET r == mem.active
      ready == mem.status = "WAITING_UPSTREAM_REVISION" /\ inbox.n # mem.handoff
      fits == Waiting(mem) => \A x \in Answers(r) : Consumable(mem, x)
      heard == [Received(mem) EXCEPT !.phase = IF Waiting(mem) THEN "completed" ELSE @]
  IN /\ Command
     /\ results' = IF ready /\ Waiting(mem) THEN results \union Answers(r) ELSE results
     /\ \/ /\ ready /\ fits
           /\ noted' = IF Waiting(mem) THEN noted \union {r} ELSE noted
           /\ mem' = heard
           /\ Goto("received")
           /\ UNCHANGED <<disk, run>>
        \/ ~(ready /\ fits) /\ Leave("refused") /\ UNCHANGED noted
     /\ UNCHANGED <<calls, requests, slots, asked, ends>>

-----------------------------------------------------------------------------
(* Recovery.                                                               *)

\* _recoverable_stage_task_ids
Recoverable(s, n) ==
  LET base == LogicalId(s, n)
  IN {base} \union (IF base \in retries THEN {RetryOf(base)} ELSE {})

Restorable(s, n) ==
  LET answered == {id \in Recoverable(s, n) : id \in s.heard}
      retried == {id \in answered : id.retry}
  IN IF answered = {} THEN NoId
     ELSE CHOOSE id \in (IF retried # {} THEN retried ELSE answered) : TRUE

\* One stage of the restoring of t.state, which goes on as long as it finds them.
\* Citations are restored as the agent has sent them.
RestoreStage(t, n) ==
  LET s == t.state
      id == Restorable(s, n)
      found == id # NoId /\ \A m \in made : m.id = id => Matches(s, m)
  IN IF Linked(s, n) THEN t
     ELSE IF t.goes /\ found
     THEN [t EXCEPT !.state = [s EXCEPT !.art[n] = id,
                                        !.form = IF n = 3 THEN "restored" ELSE @]]
     ELSE [t EXCEPT !.goes = FALSE]

\* _restore_saved_stage_responses: from the first stage that is missing, or refers to
\* something else, as far as there is an answer that matches.
Restored(s) ==
  LET first == RestoreStage([state |-> s, goes |-> TRUE], 1)
  IN RestoreStage(RestoreStage(RestoreStage(first, 2), 3), 4).state

RestoredStages(s) == {n \in Stages : Restored(s).art[n] # s.art[n]}

\* authorize_provider_retry: an answer to be retried, once.
ProviderRetry ==
  /\ pc = "idle" /\ disk.status = "FAILED"
  /\ disk.again /\ disk.fault \notin retries /\ ~disk.fault.retry
  /\ retries' = retries \union {disk.fault}
  /\ UNCHANGED <<disk, mem, pc, run, ended, commands, trouble, paid, made, checks, exchange,
                 ends>>

\* The last error speaks about the stage that comes next, unless it was restored.
Suspect(s, n) ==
  IF n = 5 \/ s.fault = NoId \/ s.fault.stage \in RestoredStages(s) \ {n} THEN NoId
  ELSE s.fault

PendingRetry(s, id) ==
  id \in retries /\ s.again /\ RetryOf(id) \notin paid \union s.asked

CanGoOn(s, n) ==
  LET id == Suspect(s, n)
  IN IF id = NoId THEN n = 5 \/ Recoverable(s, n) \intersect s.asked = {}
     ELSE id.stage = n /\ PendingRetry(s, id)

RecoverFailed ==
  LET s == Restored(mem)
      n == FirstMissing(s)
      id == Suspect(mem, n)
  IN /\ mem.status = "FAILED" /\ CanGoOn(mem, n)
     /\ Save(IF n = 5 THEN s ELSE Cleared(s, n))
     /\ run' = [at |-> n, ids |-> IF id = NoId THEN NoArt ELSE [NoArt EXCEPT ![n] = RetryOf(id)]]
     /\ Goto(IF n = 5 THEN "validate" ELSE "ask")

\* The deterministic repair of the citations: once in a workflow.
Repairable(s) ==
  /\ s.status = "BLOCKED" /\ s.repairs = 0
  /\ s.checked # NoContents /\ Verdict(s.checked)[1] = "repairable"

\* _recover_deterministic_artifact
Repair ==
  /\ Repairable(mem)
  /\ Save([mem EXCEPT !.form = "repaired", !.repairs = 1, !.status = "VALIDATING_PACKAGE"])
  /\ run' = [NoRun EXCEPT !.at = 5]
  /\ Goto("validate")

\* A stop after the repair: the gate is asked again.
Revalidate ==
  /\ mem.status = "VALIDATING_PACKAGE" /\ mem.repairs > 0
  /\ run' = [NoRun EXCEPT !.at = 5]
  /\ Goto("validate")
  /\ UNCHANGED <<disk, mem>>

Recover ==
  /\ Command
  /\ \/ RecoverFailed
     \/ Repair
     \/ Revalidate
     \/ /\ ~(mem.status = "FAILED" /\ CanGoOn(mem, FirstMissing(Restored(mem))))
        /\ ~Repairable(mem)
        /\ ~(mem.status = "VALIDATING_PACKAGE" /\ mem.repairs > 0)
        /\ Leave("refused")
  /\ UNCHANGED <<calls, exchange, ends>>

-----------------------------------------------------------------------------
(* Around it.                                                              *)

Crash ==
  /\ pc # "idle"
  /\ trouble < MaxTrouble
  /\ trouble' = trouble + 1
  /\ Leave("crashed")
  /\ UNCHANGED <<commands, paid, retries, made, checks, exchange, ends>>

\* What Conclusion sends is read by a command that finds the workflow waiting: it
\* makes no difference whether it came before.
Listening == pc = "idle" /\ disk.status = "WAITING_UPSTREAM_REVISION"

\* Conclusion hands over again: the Final Conclusion there is, or another selection.
ConclusionHands ==
  /\ Listening
  /\ inbox.n < MaxHandoffs
  /\ \E f \in {inbox.final, inbox.final + 1}, p \in Problems \union {"none"} :
       inbox' = [n |-> inbox.n + 1, final |-> f, problem |-> p]
  /\ UNCHANGED <<disk, mem, pc, run, ended, commands, calls, exchange, packages, files>>

\* It files a result of a request, about what it has handed over.
ConclusionFiles ==
  /\ Listening
  /\ \E r \in Upstream, status \in {"completed", "partial"} :
       /\ ResultsOf(r) = {}
       /\ results' = results \union {Reply(r, status)}
  /\ UNCHANGED <<disk, mem, pc, run, ended, commands, calls, requests, slots, asked, noted,
                 ends>>

Line == Ask \/ Answer \/ Keep \/ Validate

Judge ==
  \/ NotFinalized \/ Approve \/ Unsettled \/ Stop
  \/ PackageFile \/ Deliver \/ DeliverTexts \/ Delivered

Revision ==
  \/ Plan \/ SavePlan \/ Revise \/ Exhausted \/ Authorize \/ Begin

Handoff == Start \/ Receive \/ AskConclusion \/ Asked \/ Resume

Recovery == ProviderRetry \/ Recover

Around == Crash \/ ConclusionHands \/ ConclusionFiles

Next == Line \/ Judge \/ Revision \/ Handoff \/ Recovery \/ Around

Spec == Init /\ [][Next]_vars

-----------------------------------------------------------------------------
(* Properties.                                                             *)

IsId(id) ==
  /\ DOMAIN id = {"stage", "up", "rev", "retry"}
  /\ id.stage \in 0 .. 4 /\ id.up \in 0 .. MaxRevisions /\ id.rev \in Nat

StateOK(s) ==
  /\ s.status \in Status /\ s.phase \in Phase
  /\ \A n \in Stages : IsId(s.art[n]) /\ s.art[n].stage \in {0, n}
  /\ s.form \in {"none", "edited", "restored", "repaired"}
  /\ s.count \in 0 .. MaxRevisions /\ s.up \in 0 .. MaxRevisions /\ s.repairs \in 0 .. 1
  /\ s.handoff \in 0 .. inbox.n /\ s.package.serial <= packages
  /\ s.heard \subseteq s.asked

TypeOK ==
  /\ StateOK(disk) /\ StateOK(mem)
  /\ \A id \in paid \union retries : IsId(id)
  /\ {slots[i] : i \in DOMAIN slots} \union noted \subseteq requests
  /\ Len(slots) <= MaxRevisions /\ asked <= MaxRevisions

\* What providers owe: no two artifacts of a kind have the same id, and an artifact
\* refers to what it was made from.  Nothing in the code sees to it.
Unambiguous(ms) ==
  /\ \A m, m2 \in ms :
       m.id.stage = m2.id.stage /\ Name(m.id) = Name(m2.id) => m.id = m2.id
  /\ \A m \in ms :
       Refers(m) = IF m.id.stage = 1 THEN m.handoff ELSE Name(m.on[m.id.stage - 1])

\* Every artifact there is was made from the ones before it, and all from the same
\* handoff.
FitsTogether(art, handoff) ==
  \A n \in Stages : art[n] # NoId =>
    \E m \in made : /\ m.id = art[n] /\ m.handoff = handoff
                    /\ m.on = Before(art, n)

\* Whatever is remade, restored or repaired, the saved artifacts fit together and
\* belong to the handoff the state is about, as long as the ids of the providers
\* tell artifacts apart.
CheckpointsFitTogether == Unambiguous(made) => FitsTogether(disk.art, disk.handoff)

\* The same whatever the providers call their artifacts: recover reuses only stages
\* that are in order.  The code does not keep this when ids are repeated.
ReusedStagesFit == FitsTogether(disk.art, disk.handoff)

\* Each of the artifacts refers to the one before it by its id.
ReferTogether(of) ==
  \A n \in Stages : \E m \in made : m.id = of.art[n] /\ Matches(of, m)

\* What lies in the delivery directory passed the deterministic gate as it is, with
\* the form its citations have.  Its artifacts refer to each other; if the ids of the
\* providers tell artifacts apart, they are also made from each other and from one
\* handoff.
DeliveryWasValidated ==
  \A p \in {files.package, files.delivery, files.script} :
    p.serial > 0 => /\ [of |-> p.of, verdict |-> <<"approved", 0>>] \in checks
                    /\ ReferTogether(p.of)
                    /\ Unambiguous(made) => FitsTogether(p.of.art, p.of.handoff)

\* A completed workflow has delivered the package its state names: no file of the
\* delivery is left from an attempt that was cut short.
CompletedIsDelivered ==
  disk.status = "COMPLETED" =>
    /\ files = [package |-> disk.package, delivery |-> disk.package,
                script |-> disk.package]
    /\ disk.package.of = Contents(disk) /\ disk.package.final = disk.final

\* A revision is reported as complete when its contents passed the gate, as partial
\* when they did not, and its result is about the Final Conclusion of its request.
ResultsAreTruthful ==
  \A x \in results :
    x.request.route = "internal" =>
      /\ (x.status = "completed") = (Verdict(x.of)[1] = "approved")
      /\ x.final = x.request.final /\ x.of.handoff = x.request.base.handoff

\* A plan that waits for the operator can be executed: the limit is not reached, and
\* the validation and the Final Conclusion it was made for are the saved ones, also
\* after a deterministic repair.
PlanIsExecutable ==
  disk.status = "BLOCKED" /\ Planned(disk) => Executable(disk)
================================================================================
