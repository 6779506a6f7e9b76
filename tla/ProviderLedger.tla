---------------------------- MODULE ProviderLedger ----------------------------
(***************************************************************************)
(* The ledger of paid Provider calls: common/agents/base.py together with  *)
(* the one-shot authorization stores of common/provider_*.py and the batch *)
(* transport of providers/openrouter_batch.py.                             *)
(*                                                                         *)
(* A logical call identity is a pair <<task, stage>>: the original task of *)
(* an agent, or one of the suffixed identities an operator may authorize   *)
(* after the original failed (task & "_operator_retry_1" and so on).  The  *)
(* ledger is a directory of create-once reservation files, one per         *)
(* identity, and of authorization files, one per repair identity.  Several *)
(* operating-system processes (the CLI, the Discord bot) work on the same  *)
(* directory and may stop at any step.                                     *)
(***************************************************************************)
EXTENDS Integers, FiniteSets

CONSTANTS
  Process,            \* processes that execute agents on one data directory
  Task,               \* original logical task ids of one workflow
  Stage,              \* the identities in play: a subset of AllStages
  Model,              \* model ids an agent may be configured with
  BatchModel,         \* the models whose id ends in ":batch"
  ExplicitTask,       \* tasks that carry an explicit provider_task_id
  SafeMode,           \* demo_safe_mode
  TechnicalRetryLimit,\* runtime_config.technical_retry_limit
  MaxPaid,            \* bound: no execution starts without a reservation after it
  NoModel

Repairs == {"operator_retry", "contract_repair", "output_repair",
            "capability_repair", "runtime_model", "runtime_output",
            "runtime_adapter", "runtime_identity", "runtime_provenance"}

AllStages == Repairs \union {"original"}

\* The identity whose spent authorization (or whose reservation, when it is
\* the original) a repair stage builds on.
Predecessor ==
  [s \in Repairs |->
     CASE s \in {"operator_retry", "capability_repair", "runtime_model"} -> "original"
       [] s \in {"contract_repair", "output_repair"} -> "operator_retry"
       [] s = "runtime_output"     -> "runtime_model"
       [] s = "runtime_adapter"    -> "runtime_output"
       [] s = "runtime_identity"   -> "runtime_adapter"
       [] s = "runtime_provenance" -> "runtime_identity"]

ASSUME StageAssumption ==
  /\ Stage \subseteq AllStages
  /\ "original" \in Stage
  /\ \A s \in Stage \ {"original"} : Predecessor[s] \in Stage

ASSUME ModelAssumption ==
  /\ BatchModel \subseteq Model
  /\ NoModel \notin Model

ASSUME ParameterAssumption ==
  /\ ExplicitTask \subseteq Task
  /\ SafeMode \in BOOLEAN
  /\ TechnicalRetryLimit \in Int
  /\ MaxPaid \in Nat

-----------------------------------------------------------------------------
Id == Task \X Stage

RepairId == {id \in Id : id[2] # "original"}

\* What run() raises, by the class a Manager reads back from the saved error.
\*   retryable    RetryableAgentError that allows the automatic retry
\*   interrupted  RetryableAgentError with automatic_retry_allowed = False
\*   refused      NonRetryableAgentError raised before any request was sent
\*   rejected     NonRetryableAgentError about what the Provider answered
\*   no_endpoint  ProviderCapabilityError, HTTP 404
Failure == {"retryable", "interrupted", "response_contract", "payload",
            "request_schema", "no_endpoint", "rejected", "refused"}

\* The answers of one call; a local refusal is not among them.
Answer == (Failure \ {"refused"}) \union {"answered"}

Min2(a, b) == IF a < b THEN a ELSE b
Max2(a, b) == IF a > b THEN a ELSE b

\* effective_retry_limit
RetryLimit == IF SafeMode THEN 0 ELSE Min2(Max2(TechnicalRetryLimit, 0), 1)

\* Whether execute() takes a reservation before it calls the Provider.
NeedsReservation(id, m) ==
  SafeMode \/ m \in BatchModel \/ id[2] # "original" \/ id[1] \in ExplicitTask

\* The identities that are reserved whatever the model is.
AlwaysReserved(id) == SafeMode \/ id[2] # "original" \/ id[1] \in ExplicitTask

VARIABLES
  reservation,    \* [Id -> Model or NoModel]: provider_call_reservations
  authorization,  \* [RepairId -> [status, model]]: provider_*_authorizations
  job,            \* [Id -> JobStatus]: the sidecar of openrouter_batch_jobs
  status,         \* [Task -> ...]: what the Manager saved about the task
  pc,             \* [Process -> ...]: where execute() is
  call,           \* [Process -> [id, model]]: the call in execution
  attempt,        \* [Process -> Nat]: the attempt index of run()
  outcome,        \* [Process -> ...]: what execute() returns
  orphan,         \* threads left behind by a timed-out batch submission
  paid            \* [Id -> Nat]: requests sent that the Provider may bill

stored == <<reservation, authorization, job, status>>
local  == <<pc, call, attempt, outcome, orphan>>
vars   == <<reservation, authorization, job, status,
            pc, call, attempt, outcome, orphan, paid>>

JobStatus == {"none", "prepared", "ambiguous", "running", "completed", "failed"}

\* has_resumable_state: the sidecar names a batch_id.
Resumable(id) == job[id] \in {"running", "completed", "failed"}

Pc == {"idle", "admitted", "reserved", "ready", "prepared", "submitting",
       "waiting", "done"}

NoAuthorization == [status |-> "absent", model |-> NoModel]

Call == [id : Id, model : Model]

NoCall == [id |-> <<>>, model |-> NoModel]

Init ==
  /\ reservation = [id \in Id |-> NoModel]
  /\ authorization = [id \in RepairId |-> NoAuthorization]
  /\ job = [id \in Id |-> "none"]
  /\ status = [t \in Task |-> "open"]
  /\ pc = [p \in Process |-> "idle"]
  /\ call = [p \in Process |-> NoCall]
  /\ attempt = [p \in Process |-> 0]
  /\ outcome = [p \in Process |-> "none"]
  /\ orphan = {}
  /\ paid = [id \in Id |-> 0]

-----------------------------------------------------------------------------
(* The operator authorizes a repair identity.                              *)

Spent(id) == authorization[id].status = "CONSUMED"

\* The failures after which each store grants its authorization.
Grounds(s) ==
  CASE s = "operator_retry"  -> {"retryable", "interrupted", "response_contract",
                                 "payload", "request_schema"}
    [] s = "contract_repair" -> {"response_contract", "request_schema", "rejected"}
    [] s \in {"capability_repair", "runtime_model"} -> {"no_endpoint"}
    [] OTHER -> {"rejected"}

\* A terminal failed batch is relabelled as a request-contract failure.
FailedBatch(t) == status[t] = "rejected" /\ job[<<t, "original">>] = "failed"

\* The predecessor of a repair that is itself a repair must be spent.
\* (Faulty: a granted one is enough.)
PredecessorSpent_Granted(t, s) ==
  Predecessor[s] # "original" =>
    authorization[<<t, Predecessor[s]>>].status # "absent"

PredecessorSpent(t, s) ==
  Predecessor[s] # "original" => Spent(<<t, Predecessor[s]>>)

\* An authorization file is written once.
Grantable(id) == authorization[id].status = "absent"

\* The model of the failed call, and of the repair s builds on.
FailedModel(t) == reservation[<<t, "original">>]

LastModel(t, s) == reservation[<<t, Predecessor[s]>>]

\* The model rule of each store.
ContractRepairModel(t, m) ==
  \/ m \notin {FailedModel(t), LastModel(t, "contract_repair")}
  \/ status[t] = "request_schema"

OutputRepairModel(t, m) == m = FailedModel(t) /\ m = LastModel(t, "output_repair")

EndpointRepairModel(t, m) == m # FailedModel(t)

RuntimeRepairModel(t, s, m) == m = LastModel(t, s)

ModelAllowed(t, s, m) ==
  CASE s = "operator_retry"  -> TRUE
    [] s = "contract_repair" -> ContractRepairModel(t, m)
    [] s = "output_repair"   -> OutputRepairModel(t, m)
    [] s \in {"capability_repair", "runtime_model"} -> EndpointRepairModel(t, m)
    [] OTHER -> RuntimeRepairModel(t, s, m)

\* authorize_once of the store of stage s, called by the Manager that found
\* the workflow FAILED.  An authorization that exists is returned or refused,
\* and nothing is written.
Authorize(t, s, m) ==
  /\ SafeMode
  /\ \/ status[t] \in Grounds(s)
     \/ s = "operator_retry" /\ FailedBatch(t)
  /\ reservation[<<t, "original">>] # NoModel
  /\ reservation[<<t, Predecessor[s]>>] # NoModel
  /\ PredecessorSpent(t, s)
  /\ ModelAllowed(t, s, m)
  /\ Grantable(<<t, s>>)
  /\ authorization' = [authorization EXCEPT
                         ![<<t, s>>] = [status |-> "PENDING", model |-> m]]
  /\ UNCHANGED <<reservation, job, status, local, paid>>

-----------------------------------------------------------------------------
(* A Manager executes an agent.                                            *)

\* (Faulty: the model of the grant is not compared.)
PendingFor_AnyModel(id, m) == authorization[id].status = "PENDING"

\* require_pending_retry, require_pending_repair
PendingFor(id, m) ==
  /\ authorization[id].status = "PENDING"
  /\ id[2] = "operator_retry" \/ authorization[id].model = m

Fail(p, f) ==
  /\ pc' = [pc EXCEPT ![p] = "done"]
  /\ outcome' = [outcome EXCEPT ![p] = f]

Goto(p, l) ==
  /\ pc' = [pc EXCEPT ![p] = l]
  /\ UNCHANGED outcome

\* The Manager saves WAITING_AGENT and calls execute(); the message may fail
\* its validation or the local request budget before anything is reserved.
Execute(p, id, m) ==
  /\ pc[p] = "idle"
  /\ status[id[1]] # "answered"
  /\ status' = [status EXCEPT ![id[1]] = "open"]
  /\ call' = [call EXCEPT ![p] = [id |-> id, model |-> m]]
  /\ attempt' = [attempt EXCEPT ![p] = 0]
  /\ \/ Fail(p, "refused")
     \/ /\ ~NeedsReservation(id, m)
        /\ paid[id] < MaxPaid
        /\ Goto(p, "ready")
     \/ /\ NeedsReservation(id, m)
        /\ id \in RepairId => PendingFor(id, m)
        /\ Goto(p, "admitted")
  /\ UNCHANGED <<reservation, authorization, job, orphan, paid>>

\* open("x") succeeds only for a new file.  (Faulty: the file is overwritten.)
Free_Overwrite(id) == TRUE

Free(id) == reservation[id] = NoModel

\* can_resume_invocation.  (Faulty: a grant that still reads PENDING resumes.)
MayResume_Pending(id, m) ==
  id \in RepairId => authorization[id].status = "PENDING"

MayResume(id, m) == m \in BatchModel /\ Resumable(id)

\* open("x") of the reservation file: the creator goes on (unless the write
\* fails after the file exists), anyone else may only resume a batch the
\* Provider already knows.
Reserve(p) ==
  LET id == call[p].id
      m  == call[p].model
  IN /\ pc[p] = "admitted"
     /\ \/ /\ Free(id)
           /\ reservation' = [reservation EXCEPT ![id] = m]
           /\ \/ Goto(p, IF id \in RepairId THEN "reserved" ELSE "ready")
              \/ Fail(p, "refused")
        \/ /\ ~Free(id) /\ MayResume(id, m)
           /\ Goto(p, "ready")
           /\ UNCHANGED reservation
        \/ /\ ~Free(id) /\ ~MayResume(id, m)
           /\ Fail(p, "refused")
           /\ UNCHANGED reservation
     /\ UNCHANGED <<authorization, job, status, call, attempt, orphan, paid>>

\* store.consume: rewrites the authorization read by require_pending as spent;
\* the atomic write may fail, which leaves it PENDING.
Consume(p) ==
  LET id == call[p].id
  IN /\ pc[p] = "reserved"
     /\ \/ /\ authorization' = [authorization EXCEPT ![id].status = "CONSUMED"]
           /\ Goto(p, "ready")
        \/ /\ Fail(p, "refused")
           /\ UNCHANGED authorization
     /\ UNCHANGED <<reservation, job, status, call, attempt, orphan, paid>>

-----------------------------------------------------------------------------
(* One attempt of run().                                                   *)

\* _post: a synchronous chat completion.
SendSync(p) ==
  LET id == call[p].id
  IN /\ pc[p] = "ready"
     /\ call[p].model \notin BatchModel
     /\ paid' = [paid EXCEPT ![id] = @ + 1]
     /\ Goto(p, "waiting")
     /\ UNCHANGED <<stored, call, attempt, orphan>>

\* The sidecar is new.  (Faulty: one without a batch_id counts as new.)
Unprepared_NoBatchId(id) == ~Resumable(id)

Unprepared(id) == job[id] = "none"

\* The sidecar names the batch of this very request.
Matches(id, m) == Resumable(id) /\ reservation[id] = m

\* Any other sidecar ends the attempt.  (Faulty: wait for its batch_id.)
Blocks_Waits(id, m) == Resumable(id) /\ reservation[id] # m

Blocks(id, m) == job[id] # "none" /\ ~Matches(id, m)

\* _load_or_prepare_state: create the sidecar, or find out what it says.
PrepareBatch(p) ==
  LET id == call[p].id
  IN /\ pc[p] = "ready"
     /\ call[p].model \in BatchModel
     /\ \/ /\ Unprepared(id)
           /\ job' = [job EXCEPT ![id] = "prepared"]
           /\ Goto(p, "prepared")
        \/ /\ Matches(id, call[p].model)
           /\ Goto(p, "waiting")
           /\ UNCHANGED job
        \/ /\ Blocks(id, call[p].model)
           /\ Fail(p, "refused")
           /\ UNCHANGED job
     /\ UNCHANGED <<reservation, authorization, status, call, attempt, orphan, paid>>

\* The POST that creates the remote batch.
SubmitBatch(p) ==
  LET id == call[p].id
  IN /\ pc[p] = "prepared"
     /\ paid' = [paid EXCEPT ![id] = @ + 1]
     /\ Goto(p, "submitting")
     /\ UNCHANGED <<stored, call, attempt, orphan>>

\* The POST returns: the batch_id is saved, or the failure is recorded.
BatchSubmitted(p) ==
  LET id == call[p].id
  IN /\ pc[p] = "submitting"
     /\ \/ /\ job' = [job EXCEPT ![id] = "running"]
           /\ Goto(p, "waiting")
        \/ /\ job' = [job EXCEPT ![id] = "ambiguous"]
           /\ Fail(p, "rejected")
     /\ UNCHANGED <<reservation, authorization, status, call, attempt, orphan, paid>>

\* The same return in a thread nobody waits for any more.
OrphanSubmitted(o) ==
  /\ o \in orphan
  /\ orphan' = orphan \ {o}
  /\ \E s \in {"running", "ambiguous"} : job' = [job EXCEPT ![o[2]] = s]
  /\ UNCHANGED <<reservation, authorization, status, pc, call, attempt, outcome, paid>>

AttemptsLeft(p) == attempt[p] < RetryLimit

\* run()'s reaction to the answer a of the current attempt.
Settle(p, a) ==
  IF a = "retryable" /\ AttemptsLeft(p)
  THEN /\ attempt' = [attempt EXCEPT ![p] = @ + 1]
       /\ Goto(p, "ready")
  ELSE /\ UNCHANGED attempt
       /\ Fail(p, a)

AnswerSync(p) ==
  /\ pc[p] = "waiting"
  /\ call[p].model \notin BatchModel
  /\ \E a \in Answer : Settle(p, a)
  /\ UNCHANGED <<stored, call, orphan, paid>>

\* The last poll of the batch: still pending at the deadline, an answer that is
\* no batch at all, or a terminal status.
PollBatch(p) ==
  LET id == call[p].id
  IN /\ pc[p] = "waiting"
     /\ call[p].model \in BatchModel
     /\ \/ /\ \E a \in {"retryable", "rejected"} : Settle(p, a)
           /\ UNCHANGED job
        \/ /\ job[id] # "failed"
           /\ job' = [job EXCEPT ![id] = "completed"]
           /\ \E a \in {"answered", "response_contract", "payload", "rejected"} :
                Settle(p, a)
        \/ /\ job[id] # "completed"
           /\ job' = [job EXCEPT ![id] = "failed"]
           /\ Settle(p, "rejected")
     /\ UNCHANGED <<reservation, authorization, status, call, orphan, paid>>

\* asyncio.wait_for gives up while the submission thread is still in its POST.
SubmissionTimeout(p) ==
  /\ pc[p] = "submitting"
  /\ orphan' = orphan \union {<<p, call[p].id>>}
  /\ Settle(p, "retryable")
  /\ UNCHANGED <<stored, call, paid>>

-----------------------------------------------------------------------------
\* execute() has returned, or the process is gone: nothing of it is left.
Leave(p) ==
  /\ pc' = [pc EXCEPT ![p] = "idle"]
  /\ call' = [call EXCEPT ![p] = NoCall]
  /\ attempt' = [attempt EXCEPT ![p] = 0]
  /\ outcome' = [outcome EXCEPT ![p] = "none"]

\* The Manager saves the response PMP, or the error PMP and FAILED.
Record(p) ==
  /\ pc[p] = "done"
  /\ status' = [status EXCEPT ![call[p].id[1]] = outcome[p]]
  /\ Leave(p)
  /\ UNCHANGED <<reservation, authorization, job, orphan, paid>>

\* The process stops, with every thread it runs.
Crash(p) ==
  /\ pc[p] # "idle" \/ \E o \in orphan : o[1] = p
  /\ Leave(p)
  /\ orphan' = {o \in orphan : o[1] # p}
  /\ UNCHANGED <<stored, paid>>

Next ==
  \/ \E t \in Task, s \in Stage \ {"original"}, m \in Model : Authorize(t, s, m)
  \/ \E p \in Process :
       \/ \E id \in Id, m \in Model : Execute(p, id, m)
       \/ Reserve(p) \/ Consume(p)
       \/ SendSync(p) \/ AnswerSync(p)
       \/ PrepareBatch(p) \/ SubmitBatch(p) \/ BatchSubmitted(p)
       \/ PollBatch(p) \/ SubmissionTimeout(p)
       \/ Record(p) \/ Crash(p)
  \/ \E o \in orphan : OrphanSubmitted(o)

Spec == Init /\ [][Next]_vars

\* The event loop and the threads of a process that stays up make progress:
\* each call has a timeout.  Operators, crashes and new executions are not
\* assumed to happen.
Progress(p) ==
  \/ Reserve(p) \/ Consume(p)
  \/ SendSync(p) \/ AnswerSync(p)
  \/ PrepareBatch(p) \/ SubmitBatch(p) \/ BatchSubmitted(p)
  \/ PollBatch(p) \/ SubmissionTimeout(p)
  \/ Record(p)

FairSpec == Spec /\ \A p \in Process : WF_vars(Progress(p))

-----------------------------------------------------------------------------
(* Properties.                                                             *)

TypeOK ==
  /\ reservation \in [Id -> Model \union {NoModel}]
  /\ authorization \in [RepairId -> [status : {"absent", "PENDING", "CONSUMED"},
                                     model : Model \union {NoModel}]]
  /\ job \in [Id -> JobStatus]
  /\ status \in [Task -> Failure \union {"open", "answered"}]
  /\ pc \in [Process -> Pc]
  /\ call \in [Process -> Call \union {NoCall}]
  /\ \A p \in Process : pc[p] # "idle" => call[p] \in Call
  /\ \A p \in Process : pc[p] = "reserved" => call[p].id \in RepairId
  /\ attempt \in [Process -> 0 .. RetryLimit]
  /\ outcome \in [Process -> Failure \union {"answered", "none"}]
  /\ \A p \in Process : pc[p] = "done" => outcome[p] # "none"
  /\ orphan \subseteq Process \X Id
  /\ paid \in [Id -> Nat]

\* A reserved identity is sent to the Provider once, plus the automatic
\* retries of the one execute() that created the reservation; whatever
\* processes race for it, crash or come back later.  (_reserve_provider_invocation
\* and run, common/agents/base.py)
PaidWithinReservation ==
  \A id \in Id : AlwaysReserved(id) => paid[id] <= RetryLimit + 1

\* A batch is submitted at most once even where run() retries: a later attempt
\* polls the saved batch_id or stops.  (execute_chat, providers/openrouter_batch.py)
BatchSubmittedOnce ==
  \A id \in Id :
    AlwaysReserved(id) /\ reservation[id] \in BatchModel => paid[id] <= 1

\* No repair identity is paid for unless its own authorization is spent on the
\* model it names.  (the consume calls of _reserve_provider_invocation)
RepairPaidOnlyWhenSpent ==
  \A id \in RepairId :
    paid[id] > 0 =>
      /\ Spent(id)
      /\ id[2] # "operator_retry" => reservation[id] = authorization[id].model

\* The ladder has no short cut: an authorization exists only above a reserved
\* predecessor, which (if it is itself a repair) is spent.  A crash between a
\* reservation and its consume ends the ladder there.
LadderInOrder ==
  \A id \in RepairId :
    authorization[id].status # "absent" =>
      LET below == <<id[1], Predecessor[id[2]]>>
      IN /\ reservation[below] # NoModel
         /\ below \in RepairId => Spent(below)

\* A capability or runtime-model repair and everything above it runs on another
\* model than the one that had no endpoint.
EndpointRepairChangesModel ==
  \A id \in RepairId :
    /\ reservation[id] # NoModel
    /\ id[2] \in {"capability_repair", "runtime_model", "runtime_output",
                  "runtime_adapter", "runtime_identity", "runtime_provenance"}
    => reservation[id] # reservation[<<id[1], "original">>]

\* While one execute() is between its reservation and its answer, no other one
\* is there with the same identity, except pollers of a batch that exists.
Holding(p) == pc[p] \in {"reserved", "ready", "prepared", "submitting", "waiting"}

OneHolder ==
  \A p, q \in Process :
    LET id == call[p].id
    IN (/\ p # q
        /\ Holding(p) /\ Holding(q)
        /\ call[q].id = id
        /\ AlwaysReserved(id))
       => Resumable(id) /\ reservation[id] \in BatchModel

\* The ledger only grows: a reservation is never changed or removed, a spent
\* authorization never comes back, the model of a grant never changes.
LedgerOnlyGrows ==
  [][/\ \A id \in Id : reservation[id] # NoModel => reservation'[id] = reservation[id]
     /\ \A id \in RepairId :
          authorization[id].status # "absent" =>
            /\ authorization'[id].model = authorization[id].model
            /\ authorization'[id].status # "absent"
            /\ Spent(id) => authorization'[id].status = "CONSUMED"]_vars

\* A repair whose process stopped between the reservation file and the consume:
\* the grant still reads PENDING but can never be used.
Stranded(id) ==
  /\ reservation[id] # NoModel
  /\ authorization[id].status = "PENDING"
  /\ \A p \in Process : ~(pc[p] = "reserved" /\ call[p].id = id)

\* Such an identity fails closed: it is never sent, now or later.
StrandedNeverPaid ==
  [][\A id \in RepairId : Stranded(id) => Stranded(id)' /\ paid'[id] = 0]_vars

\* The ledger keeps the promise of OneShotCalls.  The right of a repair is its
\* authorization file, the right of an original its reservation file.
Right ==
  [id \in Id |->
     IF id \in RepairId
     THEN CASE authorization[id].status = "absent"  -> "none"
            [] authorization[id].status = "PENDING" -> "granted"
            [] OTHER -> "spent"
     ELSE IF reservation[id] = NoModel THEN "none" ELSE "spent"]

OneShot == INSTANCE OneShotCalls
             WITH Identity <- Id, Repair <- RepairId,
                  Bounded <- {id \in Id : AlwaysReserved(id)},
                  Limit <- RetryLimit + 1,
                  right <- Right, sent <- paid

\* Every step of every process is a grant, the spending of a right or a paid
\* request under a spent right, or changes nothing an operator is billed for.
\* (authorize_once and consume of the stores, base.py)
ImplementsOneShotCalls == OneShot!Spec

\* Every execute() ends, with an answer or an error the Manager saves, or with
\* its process.  (the timeouts of run and of execute_chat)
EveryCallEnds == \A p \in Process : pc[p] # "idle" ~> pc[p] = "idle"

-----------------------------------------------------------------------------
(* The inductive invariant behind PaidWithinReservation, BatchSubmittedOnce, *)
(* OneHolder and RepairPaidOnlyWhenSpent, in named parts.                  *)

\* A thread that is going to write the outcome of a submission of id.
Submitting(p, id) == pc[p] \in {"prepared", "submitting"} /\ call[p].id = id

\* Who is past the reservation owns it, or polls a batch that exists.
HolderInv ==
  \A p \in Process :
    /\ pc[p] \in {"admitted", "reserved"} =>
         /\ NeedsReservation(call[p].id, call[p].model)
         /\ attempt[p] = 0
    /\ pc[p] \in {"reserved", "prepared", "submitting"} =>
         reservation[call[p].id] = call[p].model
    /\ Holding(p) /\ NeedsReservation(call[p].id, call[p].model) =>
         \/ reservation[call[p].id] = call[p].model
         \/ call[p].model \in BatchModel /\ Resumable(call[p].id)

\* The sidecar and the threads that write it agree.
JobInv ==
  /\ \A id \in Id : job[id] # "none" => reservation[id] \in BatchModel
  /\ \A p \in Process :
       /\ pc[p] \in {"prepared", "submitting"} =>
            /\ call[p].model \in BatchModel
            /\ job[call[p].id] = "prepared"
       /\ pc[p] = "waiting" /\ call[p].model \in BatchModel => Resumable(call[p].id)
  /\ \A o \in orphan : job[o[2]] = "prepared"

\* One thread at most writes the outcome of a submission.
WriterInv ==
  /\ \A p, q \in Process :
       pc[p] \in {"prepared", "submitting"} /\ Submitting(q, call[p].id) => p = q
  /\ \A p \in Process, o \in orphan : ~Submitting(p, o[2])
  /\ \A o, r \in orphan : o[2] = r[2] => o = r

\* What has been paid for so far, by where the one holder is.
PaidInv ==
  /\ \A id \in Id : AlwaysReserved(id) =>
       /\ reservation[id] = NoModel => paid[id] = 0
       /\ reservation[id] \in BatchModel /\ job[id] = "none" => paid[id] = 0
  /\ \A p \in Process : pc[p] # "idle" /\ AlwaysReserved(call[p].id) =>
       /\ pc[p] \in {"reserved", "prepared"} => paid[call[p].id] = 0
       /\ pc[p] = "ready" /\ call[p].model \notin BatchModel =>
            paid[call[p].id] <= attempt[p]
       /\ pc[p] = "waiting" /\ call[p].model \notin BatchModel =>
            paid[call[p].id] <= attempt[p] + 1

\* An authorization is spent before anything else happens to its identity.
SpentInv ==
  /\ \A p \in Process : call[p].id \in RepairId =>
       /\ pc[p] \in {"admitted", "reserved"} =>
            /\ authorization[call[p].id].status # "absent"
            /\ \/ call[p].id[2] = "operator_retry"
               \/ authorization[call[p].id].model = call[p].model
       /\ pc[p] \in {"ready", "prepared", "submitting", "waiting"} =>
            Spent(call[p].id)
  /\ \A id \in RepairId :
       /\ job[id] # "none" => Spent(id)
       /\ reservation[id] # NoModel =>
            /\ authorization[id].status # "absent"
            /\ id[2] # "operator_retry" => reservation[id] = authorization[id].model

LedgerInv ==
  /\ TypeOK
  /\ HolderInv
  /\ JobInv
  /\ WriterInv
  /\ OneHolder
  /\ PaidInv
  /\ PaidWithinReservation
  /\ BatchSubmittedOnce
  /\ SpentInv
  /\ RepairPaidOnlyWhenSpent

=============================================================================
