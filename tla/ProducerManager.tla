---------------------------- MODULE ProducerManager ----------------------------
(***************************************************************************)
(* The Producer Manager of one workflow (producer/manager.py): a line of   *)
(* agents whose results are checkpoints of one state file, the Quality     *)
(* Review at its end, revisions of the plan (by the review, or requested   *)
(* by the Researcher) and the handoff.                                     *)
(*                                                                         *)
(* One operator command runs at a time.  It works on a copy of the state,  *)
(* saves it as it goes, and may stop between any two of the files it       *)
(* writes; the next command starts from what was saved.                    *)
(*                                                                         *)
(* Provider calls are numbered in the order they are paid for, and an      *)
(* artifact is the number of the call that produced it.  How a call is     *)
(* reserved, sent and billed once is ProviderLedger's; the files of a      *)
(* revision are written in one step here, see RevisionExchange for that.   *)
(***************************************************************************)
EXTENDS Integers, Sequences, FiniteSets

CONSTANTS
  Last,          \* AGENT_ORDER is 1 .. Last, the Quality Reviewer is Last
  BatchAgent,    \* agents whose model id ends in ":batch"
  Analyst,       \* the agent whose request schema the Provider may reject
  Operator,      \* actors of revise: the CLI, Discord
  System,        \* the actor of an automatic revision
  MaxRevisions,  \* RevisionBudgetPolicy.internal_limit
  MaxUpstream,   \* bound: requests of the Researcher
  MaxCommands,   \* bound: operator commands after start
  MaxCalls       \* bound: calls of the Provider

ASSUME AgentAssumption ==
  /\ Last \in Nat
  /\ Last >= 2
  /\ BatchAgent \subseteq 1 .. Last
  /\ Analyst \in 1 .. Last - 1

ASSUME LimitAssumption ==
  /\ System \notin Operator
  /\ {MaxRevisions, MaxUpstream, MaxCommands, MaxCalls} \subseteq Nat

Agent      == 1 .. Last
Specialist == 1 .. Last - 1
Planner    == Last - 1

VARIABLES
  disk,      \* the saved ProducerWorkflowState
  mem,       \* the copy the running command works on
  pc,        \* where the running command is
  run,       \* its parameters and what it has learnt
  ended,     \* how the last command ended
  commands,  \* how many commands the operator has given
  calls,     \* the Provider's calls, in the order they were paid for
  known,     \* calls whose batch_id is in a sidecar
  retries,   \* tasks with an operator retry authorization
  requests,  \* revision requests, by number: internal and upstream files
  slots,     \* requests that hold an internal budget slot
  grants,    \* revision authorizations: request and actor
  spent,     \* requests whose authorization is claimed and consumed
  results,   \* revision results
  noted,     \* audit events that carry the time they were written
  outbox,    \* the plan in the Researcher's inbox, or 0
  handed     \* history: every plan that was there

store    == <<calls, known, retries>>
revision == <<requests, slots, grants, spent, results, noted>>
handoff  == <<outbox, handed>>
vars     == <<disk, mem, pc, run, ended, commands, store, revision, handoff>>

\* A logical task identity: agent, agent.revision.<epoch>.<request>, and
\* either with the suffix of the operator retry.
Task == [agent : Agent, cycle : Nat, retry : BOOLEAN]

NoTask == [agent |-> 0, cycle |-> 0, retry |-> FALSE]

TaskOf(a, r, again) == [agent |-> a, cycle |-> r, retry |-> again]

Status == {"CREATED", "RUNNING", "WAITING_AGENT", "REVIEWING", "REVISING",
           "APPROVED", "COMPLETED", "BLOCKED", "FAILED"}

Phase == {"idle", "planned", "authorization_required", "executing", "completed",
          "blocked"}

\* error: per agent the task of its last error, when that is one the operator
\* retry accepts as a correlated request-contract rejection
State == [status : Status, completed : SUBSET Agent, art : [Specialist -> Nat],
          phase : Phase, active : Nat, consumed : SUBSET Nat,
          error : [Agent -> Task \union {NoTask}]]

Verdict == {"approved", "revision_required", "blocked"}

Answer == Verdict \union {"open", "result", "rejected", "error"}

Pc == {"idle", "recover", "begin", "dispatch", "execute", "waiting", "respond",
       "review", "decided", "handoff", "sent", "planned", "stop",
       "adopt", "authorize", "budget", "exhausted", "consume", "invalidate"}

\* safe: demo_safe_mode of the command; at, cycle, retryAt, stop: the agent it
\* has reached, its revision, the agent with a retry identity, whether it stops
\* behind this agent; call and kind: the call in execution and its answer
NoRun == [safe |-> TRUE, actor |-> System, at |-> 1, cycle |-> 0, retryAt |-> 0,
          stop |-> FALSE, call |-> 0, kind |-> "open"]

Fresh == [status |-> "CREATED", completed |-> {},
          art |-> [a \in Specialist |-> 0], phase |-> "idle", active |-> 0,
          consumed |-> {}, error |-> [a \in Agent |-> NoTask]]

\* start() has saved the new workflow and goes on.
Init ==
  /\ disk = Fresh
  /\ mem = Fresh
  /\ pc = "begin"
  /\ run \in {[NoRun EXCEPT !.safe = b] : b \in BOOLEAN}
  /\ ended = "none"
  /\ commands = 0
  /\ calls = <<>>
  /\ known = {}
  /\ retries = {}
  /\ requests = <<>>
  /\ slots = {}
  /\ grants = {}
  /\ spent = {}
  /\ results = {}
  /\ noted = {}
  /\ outbox = 0
  /\ handed = {}

\* repository.save of a state the command goes on with.
Save(s) == disk' = s /\ mem' = s

\* The command is over; what it had in memory is gone.
End(how) ==
  /\ pc' = "idle"
  /\ ended' = how
  /\ run' = NoRun

\* It stops without another save: it returns or raises.
Refuse(how) ==
  /\ End(how)
  /\ mem' = disk
  /\ UNCHANGED disk

Goto(l) == pc' = l /\ UNCHANGED ended

-----------------------------------------------------------------------------
(* What the files say of a task.                                           *)

\* Whether execute() reserves: Safe Mode, batch models and explicit task ids.
Reserves(t) ==
  run.safe \/ t.agent \in BatchAgent \/ t.cycle # 0 \/ t.retry

CallsOf(t) == {c \in DOMAIN calls : calls[c].task = t}

Reserved(t) == \E c \in CallsOf(t) : calls[c].reserved

\* can_resume_invocation: the sidecar names the batch.
Resumable(t) == CallsOf(t) \cap known # {}

RetryPending(t) == t \in retries /\ ~Reserved(TaskOf(t.agent, t.cycle, TRUE))

\* What _build_payload gives an agent: the artifact before its own.
Input(s, a) == IF a = 1 THEN 0 ELSE s.art[a - 1]

\* The sidecar stores the hash of the request it submitted.  (Faulty: it is
\* not compared.)
SameInput_Any(c, a) == TRUE

SameInput(c, a) == calls[c].input = Input(mem, a)

-----------------------------------------------------------------------------
(* _run_from: the agents, one after the other.                             *)

\* The task of the agent the command has reached, after the overrides.
Current == TaskOf(run.at, run.cycle, run.at = run.retryAt)

Begin ==
  /\ pc = "begin"
  /\ Save([mem EXCEPT !.status = "RUNNING"])
  /\ Goto("dispatch")
  /\ UNCHANGED <<run, commands, store, revision, handoff>>

\* current_agent_id and the request message are saved before the call.
Dispatch ==
  /\ pc = "dispatch"
  /\ Save([mem EXCEPT !.status = IF run.at = Last THEN "REVIEWING"
                                 ELSE "WAITING_AGENT"])
  /\ Goto("execute")
  /\ UNCHANGED <<run, commands, store, revision, handoff>>

Replied(kind) ==
  /\ run' = [run EXCEPT !.kind = kind]
  /\ Goto("respond")

\* execute() raises in a local check, before it reserves anything.
LocalRefusal ==
  /\ pc = "execute"
  /\ Replied("error")
  /\ UNCHANGED <<disk, mem, commands, store, revision, handoff>>

\* A new call.  The submission of a batch may be lost before its batch_id is
\* saved.
Send ==
  LET t == Current
      c == Len(calls) + 1
  IN /\ pc = "execute"
     /\ Reserves(t) => ~Reserved(t)
     /\ Len(calls) < MaxCalls
     /\ calls' = Append(calls, [task |-> t, input |-> Input(mem, t.agent),
                                reserved |-> Reserves(t), answer |-> "open",
                                target |-> 0])
     /\ \/ /\ run' = [run EXCEPT !.call = c]
           /\ known' = IF t.agent \in BatchAgent THEN known \union {c} ELSE known
           /\ Goto("waiting")
        \/ /\ t.agent \in BatchAgent
           /\ Replied("error")
           /\ UNCHANGED known
     /\ UNCHANGED <<disk, mem, commands, retries, revision, handoff>>

\* The reservation exists and its batch is this very request: it is polled.
Poll ==
  /\ pc = "execute"
  /\ Reserves(Current)
  /\ \E c \in CallsOf(Current) \cap known :
       /\ SameInput(c, run.at)
       /\ run' = [run EXCEPT !.call = c]
  /\ Goto("waiting")
  /\ UNCHANGED <<disk, mem, commands, store, revision, handoff>>

\* The reservation exists, and nothing that can be polled for it.
ReservationBlocks ==
  /\ pc = "execute"
  /\ Reserves(Current) /\ Reserved(Current)
  /\ ~\E c \in CallsOf(Current) \cap known : SameInput(c, run.at)
  /\ Replied("error")
  /\ UNCHANGED <<disk, mem, commands, store, revision, handoff>>

\* What the Provider may answer the agent.
AnswersTo(a) ==
  {"error"} \union (IF a = Last THEN Verdict ELSE {"result"})
    \union (IF a \in BatchAgent \union {Analyst} THEN {"rejected"} ELSE {})

\* The answer arrives, or that of a batch is fetched again.
Answered ==
  LET c == run.call
  IN /\ pc = "waiting"
     /\ \/ /\ calls[c].answer = "open"
           /\ \E k \in AnswersTo(run.at) :
              \E g \in IF k = "revision_required" THEN Specialist ELSE {0} :
                /\ calls' = [calls EXCEPT ![c].answer = k, ![c].target = g]
                /\ Replied(k)
        \/ /\ calls[c].answer # "open"
           /\ Replied(calls[c].answer)
           /\ UNCHANGED calls
        \/ /\ run.at \in BatchAgent            \* still running at the deadline
           /\ Replied("error")
           /\ UNCHANGED calls
     /\ UNCHANGED <<disk, mem, commands, known, retries, revision, handoff>>

\* _fail
Failed(s) ==
  /\ disk' = [s EXCEPT !.status = "FAILED"]
  /\ mem' = disk'
  /\ End("failed")

\* An error response is saved and fails the workflow.
RespondError ==
  /\ pc = "respond"
  /\ run.kind \in {"error", "rejected"}
  /\ Failed([mem EXCEPT !.error[run.at] =
                          IF run.kind = "rejected" THEN Current ELSE NoTask])
  /\ UNCHANGED <<commands, store, revision, handoff>>

\* The result of a specialist is applied, marked complete and saved.
RespondResult ==
  LET s == [mem EXCEPT !.art[run.at] = run.call,
                       !.completed = @ \union {run.at},
                       !.status = "RUNNING"]
  IN /\ pc = "respond"
     /\ run.kind = "result"
     /\ \/ /\ ~run.stop
           /\ Save(s)
           /\ run' = [run EXCEPT !.at = @ + 1, !.call = 0, !.kind = "open"]
           /\ Goto("dispatch")
        \/ /\ run.stop
           /\ disk' = s
           /\ mem' = s
           /\ End("returned")
     /\ UNCHANGED <<commands, store, revision, handoff>>

RespondReview ==
  /\ pc = "respond"
  /\ run.kind \in Verdict
  /\ Goto("review")
  /\ UNCHANGED <<disk, mem, run, commands, store, revision, handoff>>

-----------------------------------------------------------------------------
(* _handle_review                                                          *)

ResultOf(r) == {x \in results : x.request = r}

\* (Faulty: whatever the verdict.)
Outcome_Completed(kind) == "completed"

Outcome(kind) == IF kind = "approved" THEN "completed" ELSE "partial"

\* A review of a revision in execution ends it: its result file is written,
\* the state only later.  A result carries the time of its review, so that the
\* same result cannot be written by another execution of the reviewer.
Finalize ==
  LET r == mem.active
  IN /\ pc = "review"
     /\ \/ /\ mem.phase # "executing"
           /\ Goto("decided")
           /\ UNCHANGED <<disk, mem, run, results>>
        \/ /\ mem.phase = "executing"
           /\ ResultOf(r) = {}
           /\ results' = results \union
                {[request |-> r, status |-> Outcome(run.kind),
                  plan |-> mem.art[Planner]]}
           /\ mem' = [mem EXCEPT !.phase = "completed",
                                 !.consumed = @ \union {r}]
           /\ Goto("decided")
           /\ UNCHANGED <<disk, run>>
        \/ /\ mem.phase = "executing"
           /\ ResultOf(r) # {}
           /\ Refuse("result_conflict")
           /\ UNCHANGED results
     /\ UNCHANGED <<commands, store, requests, slots, grants, spent, noted,
                    handoff>>

Approve ==
  /\ pc = "decided"
  /\ run.kind = "approved"
  /\ Save([mem EXCEPT !.completed = @ \union {Last}, !.status = "APPROVED"])
  /\ Goto("handoff")
  /\ UNCHANGED <<run, commands, store, revision, handoff>>

\* _send_to_researcher
HandOff ==
  /\ pc = "handoff"
  /\ outbox' = mem.art[Planner]
  /\ handed' = handed \union {outbox'}
  /\ Goto("sent")
  /\ UNCHANGED <<disk, mem, run, commands, store, revision>>

HandOffFails ==
  /\ pc = "handoff"
  /\ Failed(mem)
  /\ UNCHANGED <<commands, store, revision, handoff>>

Complete ==
  /\ pc = "sent"
  /\ disk' = [mem EXCEPT !.status = "COMPLETED"]
  /\ mem' = disk'
  /\ End("returned")
  /\ UNCHANGED <<commands, store, revision, handoff>>

ReviewBlocked ==
  /\ pc = "decided"
  /\ run.kind = "blocked"
  /\ Failed(mem)
  /\ UNCHANGED <<commands, store, revision, handoff>>

\* _plan_internal_revision: the request is named by its review, which is new.
Plan ==
  LET r == Len(requests) + 1
  IN /\ pc = "decided"
     /\ run.kind = "revision_required"
     /\ requests' = Append(requests, [route |-> "internal",
                                      target |-> calls[run.call].target,
                                      base |-> mem.art[Planner]])
     /\ mem' = [mem EXCEPT !.phase = "planned", !.active = r]
     /\ Goto("planned")
     /\ UNCHANGED <<disk, run, commands, store, slots, grants, spent, results,
                    noted, handoff>>

SavePlan ==
  /\ pc = "planned"
  /\ Save(mem)
  /\ Goto(IF run.safe THEN "stop" ELSE "authorize")
  /\ run' = [run EXCEPT !.actor = System]
  /\ UNCHANGED <<commands, store, revision, handoff>>

\* Safe Mode stops before anything is paid for.
StopForOperator ==
  /\ pc = "stop"
  /\ disk' = [mem EXCEPT !.phase = "authorization_required", !.status = "BLOCKED"]
  /\ mem' = disk'
  /\ End("blocked")
  /\ UNCHANGED <<commands, store, revision, handoff>>

-----------------------------------------------------------------------------
(* Revisions.                                                              *)

\* Upstream requests not consumed by this Producer.
Pending == {r \in DOMAIN requests : requests[r].route = "upstream"
                                      /\ r \notin disk.consumed}

\* The base artifact of a request is the plan of the state.
UpToDate(r, s) == s.art[Planner] # 0 /\ s.art[Planner] = requests[r].base

\* revise: a saved plan of the review is executed, otherwise the one pending
\* request of the Researcher is adopted.  Its audit event, which carries the
\* time, is written before the state.
Revise(b, o) ==
  /\ pc = "idle"
  /\ commands < MaxCommands
  /\ commands' = commands + 1
  /\ \/ /\ disk.phase = "authorization_required"
        /\ run' = [NoRun EXCEPT !.safe = b, !.actor = o]
        /\ Goto("authorize")
        /\ UNCHANGED <<disk, mem, noted>>
     \/ /\ disk.phase # "authorization_required"
        /\ \/ Pending = {} /\ Refuse("no_request") /\ UNCHANGED noted
           \/ Cardinality(Pending) > 1 /\ Refuse("ambiguous") /\ UNCHANGED noted
           \/ \E r \in Pending :
                /\ Pending = {r}
                /\ \/ ~UpToDate(r, disk) /\ Refuse("stale") /\ UNCHANGED noted
                   \/ /\ UpToDate(r, disk)
                      /\ <<r, "adopted">> \in noted
                      /\ Refuse("adoption_conflict")
                      /\ UNCHANGED noted
                   \/ /\ UpToDate(r, disk)
                      /\ <<r, "adopted">> \notin noted
                      /\ noted' = noted \union {<<r, "adopted">>}
                      /\ run' = [NoRun EXCEPT !.safe = b, !.actor = o]
                      /\ mem' = [disk EXCEPT !.phase = "authorization_required",
                                             !.status = "BLOCKED", !.active = r]
                      /\ Goto("adopt")
                      /\ UNCHANGED disk
  /\ UNCHANGED <<store, requests, slots, grants, spent, results, handoff>>

Adopt ==
  /\ pc = "adopt"
  /\ Save(mem)
  /\ Goto("authorize")
  /\ UNCHANGED <<run, commands, store, revision, handoff>>

\* _create_revision_authorization: one actor per request.
Authorize ==
  LET r == mem.active
  IN /\ pc = "authorize"
     /\ \/ /\ \A g \in grants : g.request = r => g.actor = run.actor
           /\ grants' = grants \union {[request |-> r, actor |-> run.actor]}
           /\ Save(mem)
           /\ Goto("budget")
           /\ UNCHANGED run
        \/ /\ \E g \in grants : g.request = r /\ g.actor # run.actor
           /\ Refuse("other_actor")
           /\ UNCHANGED grants
     /\ UNCHANGED <<commands, store, requests, slots, spent, results, noted,
                    handoff>>

\* A slot of the internal budget is left.  (Faulty: always.)
SlotLeft_Always == TRUE

SlotLeft == Cardinality(slots) < MaxRevisions

\* _execute_active_revision: the base of the request, then its budget.  The
\* Researcher has taken the slot of an upstream request before it wrote it.
Budget ==
  LET r == mem.active
      ours == requests[r].route = "internal"
  IN /\ pc = "budget"
     /\ \/ /\ ~UpToDate(r, mem)
           /\ Refuse("stale")
           /\ UNCHANGED <<slots, noted>>
        \/ /\ UpToDate(r, mem)
           /\ ours /\ r \notin slots => SlotLeft
           /\ slots' = IF ours THEN slots \union {r} ELSE slots
           /\ Goto("consume")
           /\ UNCHANGED <<disk, mem, run, noted>>
        \/ /\ UpToDate(r, mem)
           /\ ours /\ r \notin slots /\ ~SlotLeft
           /\ \/ /\ <<r, "blocked">> \notin noted
                 /\ noted' = noted \union {<<r, "blocked">>}
                 /\ Goto("exhausted")
                 /\ UNCHANGED <<disk, mem, run>>
              \/ /\ <<r, "blocked">> \in noted
                 /\ Refuse("blocking_conflict")
                 /\ UNCHANGED noted
           /\ UNCHANGED slots
     /\ UNCHANGED <<commands, store, requests, grants, spent, results, handoff>>

Exhausted ==
  /\ pc = "exhausted"
  /\ disk' = [mem EXCEPT !.phase = "blocked", !.status = "BLOCKED"]
  /\ mem' = disk'
  /\ End("blocked")
  /\ UNCHANGED <<commands, store, revision, handoff>>

\* consume_authorization, for the identities the revision is going to use.
Consume ==
  /\ pc = "consume"
  /\ spent' = spent \union {mem.active}
  /\ Goto("invalidate")
  /\ UNCHANGED <<disk, mem, run, commands, store, requests, slots, grants,
                 results, noted, handoff>>

\* _invalidate_from.  (Faulty: only the target.)
Kept_AllButTarget(target) == Agent \ {target}

Kept(target) == 1 .. target - 1

Invalidate ==
  LET r == mem.active
      g == requests[r].target
  IN /\ pc = "invalidate"
     /\ Save([mem EXCEPT !.phase = "executing", !.status = "REVISING",
                         !.completed = @ \cap Kept(g),
                         !.art = [a \in Specialist |->
                                    IF a \in Kept(g) THEN mem.art[a] ELSE 0]])
     /\ run' = [run EXCEPT !.at = g, !.cycle = r, !.retryAt = 0,
                           !.stop = FALSE, !.call = 0, !.kind = "open"]
     /\ Goto("begin")
     /\ UNCHANGED <<commands, store, revision, handoff>>

-----------------------------------------------------------------------------
(* recover and the operator retry.                                         *)

Recover(b) ==
  /\ pc = "idle"
  /\ commands < MaxCommands
  /\ commands' = commands + 1
  /\ run' = [NoRun EXCEPT !.safe = b]
  /\ Goto("recover")
  /\ UNCHANGED <<disk, mem, store, revision, handoff>>

\* _recovery_start_index.  (Faulty: the last complete agent once more.)
FirstIncomplete_Last(s) ==
  IF s.completed = {} THEN 1 ELSE Cardinality(s.completed)

FirstIncomplete(s) == Cardinality(s.completed) + 1

Contiguous(s) ==
  /\ s.completed = 1 .. Cardinality(s.completed)
  /\ \A a \in s.completed \cap Specialist : s.art[a] # 0

\* retry_provider_call: only a FAILED workflow, and only the task of the last
\* error of the incomplete agent, which has not been retried.
ProviderRetry ==
  LET a == FirstIncomplete(disk)
  IN /\ pc = "idle"
     /\ commands < MaxCommands
     /\ commands' = commands + 1
     /\ disk.status = "FAILED"
     /\ Contiguous(disk)
     /\ a \in Agent
     /\ LET t == disk.error[a]
        IN /\ t # NoTask
           /\ ~t.retry
           /\ Reserved(t)
           /\ ~Reserved(TaskOf(t.agent, t.cycle, TRUE))
           /\ retries' = retries \union {t}
     /\ run' = [NoRun EXCEPT !.stop = TRUE]
     /\ Goto("recover")
     /\ UNCHANGED <<disk, mem, calls, known, revision, handoff>>

\* _active_revision_task_overrides.  (Faulty: in any phase.)
ActiveCycle_AnyPhase(s) == s.active

ActiveCycle(s) == IF s.phase = "executing" THEN s.active ELSE 0

\* recover, once it has loaded the state.
Resume ==
  LET a == FirstIncomplete(disk)
      r == ActiveCycle(disk)
      t == TaskOf(a, r, FALSE)
      blocked == Reserved(t) /\ ~Resumable(t)
  IN /\ pc = "recover"
     /\ \/ disk.status = "COMPLETED" /\ Refuse("returned")
        \/ /\ disk.status # "COMPLETED"
           /\ ~Contiguous(disk) \/ a > Last
           /\ Refuse("nothing_left")
        \/ /\ disk.status # "COMPLETED" /\ Contiguous(disk) /\ a <= Last
           /\ \/ /\ blocked /\ ~RetryPending(t)
                 /\ Refuse("advised")
              \/ /\ RetryPending(t) \/ ~blocked
                 /\ Save(disk)
                 /\ run' = [run EXCEPT !.at = a, !.cycle = r,
                              !.retryAt = IF RetryPending(t) THEN a ELSE 0]
                 /\ Goto("begin")
     /\ UNCHANGED <<commands, store, revision, handoff>>

-----------------------------------------------------------------------------
(* The process ends, and the Researcher asks.                              *)

Crash ==
  /\ pc # "idle"
  /\ Refuse("crashed")
  /\ UNCHANGED <<commands, store, revision, handoff>>

\* The Researcher writes a request about a plan it was given.
UpstreamRequest ==
  /\ Cardinality({r \in DOMAIN requests : requests[r].route = "upstream"})
       < MaxUpstream
  /\ \E p \in handed :
       requests' = Append(requests, [route |-> "upstream", target |-> Planner,
                                     base |-> p])
  /\ UNCHANGED <<disk, mem, pc, run, ended, commands, store, slots, grants,
                 spent, results, noted, handoff>>

\* A step of the running command that does not have to be a failure.
Step ==
  \/ Begin \/ Dispatch \/ Send \/ Poll \/ ReservationBlocks \/ Answered
  \/ RespondError \/ RespondResult \/ RespondReview
  \/ Finalize \/ Approve \/ HandOff \/ HandOffFails \/ Complete
  \/ ReviewBlocked \/ Plan \/ SavePlan \/ StopForOperator
  \/ Adopt \/ Authorize \/ Budget \/ Exhausted \/ Consume \/ Invalidate
  \/ Resume

Next ==
  \/ Step
  \/ LocalRefusal
  \/ \E b \in BOOLEAN : Recover(b)
  \/ \E b \in BOOLEAN, o \in Operator : Revise(b, o)
  \/ ProviderRetry
  \/ Crash
  \/ UpstreamRequest

Spec == Init /\ [][Next]_vars

\* A command that has begun goes on, or its process ends.
FairSpec == Spec /\ WF_vars(Step)

-----------------------------------------------------------------------------
(* Properties.                                                             *)

IsCall(c) ==
  /\ DOMAIN c = {"task", "input", "reserved", "answer", "target"}
  /\ c.task \in Task /\ c.input \in Nat /\ c.reserved \in BOOLEAN
  /\ c.answer \in Answer /\ c.target \in {0} \union Specialist

\* Types, and the bound of the internal budget.
TypeOK ==
  /\ disk \in State
  /\ disk.active \in 0 .. Len(requests) /\ disk.consumed \subseteq DOMAIN requests
  /\ DOMAIN mem = DOMAIN disk
  /\ pc \in Pc
  /\ run.at \in Agent /\ run.cycle \in 0 .. Len(requests)
  /\ run.retryAt \in {0} \union Agent /\ run.call \in 0 .. Len(calls)
  /\ run.kind \in Answer
  /\ \A c \in DOMAIN calls : IsCall(calls[c])
  /\ known \subseteq DOMAIN calls
  /\ retries \subseteq Task
  /\ slots \subseteq DOMAIN requests /\ Cardinality(slots) <= MaxRevisions
  /\ spent \subseteq DOMAIN requests
  /\ outbox \in {0} \union handed /\ handed \subseteq DOMAIN calls

\* The saved checkpoints are the results of the first agents of the line, and
\* each was made from the one saved before it: no artifact survives a revision
\* of what it was made from.
\* (_invalidate_from, _recovery_start_index, the overrides of recover)
CheckpointsFitTogether ==
  /\ Contiguous(disk)
  /\ \A a \in Specialist :
       /\ disk.art[a] # 0 <=> a \in disk.completed
       /\ disk.art[a] # 0 => /\ calls[disk.art[a]].task.agent = a
                             /\ calls[disk.art[a]].answer = "result"
                             /\ calls[disk.art[a]].input = Input(disk, a)

\* What the Researcher finds in its inbox was approved by a review of exactly
\* this plan, whatever revisions, crashes and batches lie between.
\* (_handle_review, _send_to_researcher)
HandoffWasApproved ==
  \A p \in handed :
    \E c \in DOMAIN calls : /\ calls[c].task.agent = Last
                            /\ calls[c].input = p
                            /\ calls[c].answer = "approved"

\* A call of a revision is paid for only on its consumed authorization, within
\* the internal budget, and for its target or an agent behind it.
\* (_execute_active_revision, _revision_execution_identities)
RevisionCallsAreAuthorized ==
  \A c \in DOMAIN calls :
    LET r == calls[c].task.cycle
    IN r # 0 => /\ r \in spent
                /\ \E g \in grants : g.request = r
                /\ requests[r].route = "internal" => r \in slots
                /\ calls[c].task.agent >= requests[r].target

\* A result says of its own revision what the review of it said: the plan it
\* names was made by that revision, and it is completed if that was approved.
\* (_finalize_active_revision)
ResultsAreTruthful ==
  \A x \in results :
    /\ x.plan # 0
    /\ calls[x.plan].task.cycle = x.request
    /\ \E c \in DOMAIN calls : /\ calls[c].task.agent = Last
                               /\ calls[c].task.cycle = x.request
                               /\ calls[c].input = x.plan
                               /\ calls[c].answer \in Verdict
                               /\ x.status = "completed"
                                    <=> calls[c].answer = "approved"

Paying == Len(calls') > Len(calls)

NewTask == calls'[Len(calls')].task

\* Only the first incomplete agent is ever paid for, on what is saved: a
\* complete checkpoint is reused.  (README.md:257)
CompletedWorkIsReused ==
  [][Paying => /\ NewTask.agent \notin disk.completed
               /\ 1 .. NewTask.agent - 1 \subseteq disk.completed
               /\ calls'[Len(calls')].input = Input(disk, NewTask.agent)]_vars

\* Every command ends: an automatic revision is stopped by its budget.
\* (_handle_review, RevisionBudgetStore.consume)
CommandsEnd == (pc # "idle") ~> (pc = "idle")

-----------------------------------------------------------------------------
(* What the code and its documentation say and the code does not keep.     *)

\* README.md:88: recover restores the checkpoint after a failure.  It has nothing
\* to restore only when the plan has been handed over.
NothingLeftMeansHandedOver ==
  ended = "nothing_left" => disk.art[Planner] \in handed

================================================================================
