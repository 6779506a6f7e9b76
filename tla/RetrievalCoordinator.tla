------------------------- MODULE RetrievalCoordinator -------------------------
(***************************************************************************)
(* Paid searches (retrieval/coordinator.py): prepare() returns the saved   *)
(* context of a search, or reserves the search in a create-once file, pays *)
(* for it and saves the context in another.                                *)
(*                                                                         *)
(* A search that was lost can be replaced once, under an authorization of  *)
(* the operator and with an identity of its own: by the Producer after a   *)
(* Batch search that failed (common/retrieval_provider_retry.py), by the   *)
(* Researcher when a failed task has no context                            *)
(* (common/retrieval_reconstruction.py).                                   *)
(*                                                                         *)
(* One task; commands of several processes run at the same time, overwrite *)
(* each other's state file and stop anywhere.  A create-once file is there *)
(* but empty before it is written.                                         *)
(***************************************************************************)
EXTENDS Integers

CONSTANTS
  Worker,
  MaxCommands   \* bound: commands started

ASSUME CommandsAssumption == MaxCommands \in Nat

Identity == {"original", "replacement"}

File == {"none", "empty", "written"}

\* The sidecar of a Batch search, by what it says of the remote batch.
Job == {"none", "prepared", "submitted", "completed", "failed"}

Model == {"sync", "batch"}

Agent == {"general_opinion", "research"}

Status == {"none", "empty", "PENDING", "CONSUMED"}

\* What the latest error message of the task says: the Batch search failed, the
\* model of the reasoning has no endpoint, or anything else.
Error == {"none", "batch_failed", "no_endpoint", "other"}

At == {"idle", "authorize", "begin", "load", "look", "reserve", "reserving", "consume",
       "search", "sent", "submit", "posted", "poll", "save", "saving", "record", "reason"}

\* The saved workflow, as far as this task goes: the latest error message, whether it is
\* FAILED, whether the result of the task is there.
State == [error : Error, failed : BOOLEAN, done : BOOLEAN]

\* Where a command is, on which identity, with which model, the status of the
\* authorization it has loaded, its copy of the state.
Command == [at : At, on : Identity, uses : Model, seen : Status, copy : State]

VARIABLES
  agent,          \* whose task it is
  model,          \* the model of the Retrieval provider, as configured now
  saved,          \* the state file
  reservation,    \* by identity
  job,            \* by identity
  context,        \* by identity
  authorization,  \* of the replacement: status, model, context recorded
  paid,           \* searches sent, by identity
  cmd,            \* per process
  commands        \* commands started

files == <<reservation, job, context, authorization>>
retrieval == <<agent, model, saved, files, paid, cmd, commands>>

NewState == [error |-> "none", failed |-> FALSE, done |-> FALSE]

Idle == [at |-> "idle", on |-> "original", uses |-> "sync", seen |-> "none",
         copy |-> NewState]

\* A Producer starts anew.  A Researcher task has failed at its reasoning and its
\* context is gone; the reservation of its search may be there.
RetrievalInit ==
  /\ agent \in Agent
  /\ model \in Model
  /\ saved = [NewState EXCEPT !.error = IF agent = "research" THEN "no_endpoint" ELSE "none"]
  /\ \E f \in IF agent = "research" THEN {"none", "written"} ELSE {"none"} :
       reservation = [i \in Identity |-> IF i = "original" THEN f ELSE "none"]
  /\ job = [i \in Identity |-> "none"]
  /\ context = [i \in Identity |-> "none"]
  /\ authorization = [status |-> "none", model |-> "sync", recorded |-> FALSE]
  /\ paid = [i \in Identity |-> 0]
  /\ cmd = [p \in Worker |-> Idle]
  /\ commands = 0

MoveTo(p, l) == cmd' = [cmd EXCEPT ![p].at = l]

\* repository.save of a state.
SaveAndEnd(p, s) == saved' = s /\ cmd' = [cmd EXCEPT ![p] = Idle]

\* It raises: an agent answers with an error message, and the Producer fails with it;
\* a search of the Researcher Manager itself leaves nothing.
Fail(p, e) ==
  SaveAndEnd(p, IF cmd[p].on = "replacement" /\ agent = "research" THEN saved
                ELSE [cmd[p].copy EXCEPT !.error = e,
                                         !.failed = agent = "general_opinion"])

Continue(p, l) == MoveTo(p, l) /\ UNCHANGED saved

Start(p, c) ==
  /\ cmd[p].at = "idle"
  /\ ~saved.done
  /\ commands < MaxCommands
  /\ commands' = commands + 1
  /\ cmd' = [cmd EXCEPT ![p] = c]

-----------------------------------------------------------------------------
(* The operator.                                                           *)

Configure(m) ==
  /\ \A p \in Worker : cmd[p].at = "idle"
  /\ m # model
  /\ model' = m
  /\ UNCHANGED <<agent, saved, files, paid, cmd, commands>>

New(i, s, l) == [at |-> l, on |-> i, uses |-> model, seen |-> s, copy |-> saved]

\* The task runs, for the first time or again.
Run(p) ==
  /\ Start(p, New("original", "none", "begin"))
  /\ UNCHANGED <<agent, model, saved, files, paid>>

\* A search may be replaced: the Batch search failed and the model is another now, or
\* the reasoning found no endpoint and no context can be read.
Replaceable ==
  \/ /\ agent = "general_opinion"
     /\ saved.failed /\ saved.error = "batch_failed" /\ job["original"] = "failed"
     /\ model = "sync"
  \/ /\ agent = "research"
     /\ saved.error = "no_endpoint" /\ context["original"] # "written"
     /\ ~(authorization.recorded /\ context["replacement"] = "written")

\* authorize_once: a new authorization, or the one there is.
Authorize(p) ==
  /\ Replaceable
  /\ authorization.status = "none"
  /\ Start(p, New("replacement", "PENDING", "authorize"))
  /\ authorization' = [authorization EXCEPT !.status = "empty", !.model = model]
  /\ UNCHANGED <<agent, model, saved, reservation, job, context, paid>>

AfterAuthorize == IF agent = "research" THEN "look" ELSE "begin"

\* A Producer loads its state again.
WriteAuthorization(p) ==
  /\ cmd[p].at = "authorize"
  /\ authorization' = [authorization EXCEPT !.status = "PENDING"]
  /\ cmd' = [cmd EXCEPT ![p].at = AfterAuthorize, ![p].copy = saved]
  /\ UNCHANGED <<agent, model, saved, reservation, job, context, paid, commands>>

AuthorizeAgain(p) ==
  /\ Replaceable
  /\ authorization.model = model
  /\ \/ /\ authorization.status = "PENDING"
        /\ Start(p, New("replacement", "PENDING", AfterAuthorize))
     \/ /\ authorization.status = "CONSUMED"    \* a Producer raises
        /\ agent = "research"
        /\ Start(p, New("replacement", "CONSUMED", "record"))
  /\ UNCHANGED <<agent, model, saved, files, paid>>

\* The task message is saved.
Begin(p) ==
  LET s == [cmd[p].copy EXCEPT !.failed = FALSE]
  IN /\ cmd[p].at = "begin"
     /\ saved' = s
     /\ cmd' = [cmd EXCEPT ![p].copy = s,
                           ![p].at = IF cmd[p].on = "original" THEN "look" ELSE "load"]
     /\ UNCHANGED <<agent, model, files, paid, commands>>

\* require_for_retry_task: the agent of a Producer loads the authorization once more.
Load(p) ==
  /\ cmd[p].at = "load"
  /\ cmd' = [cmd EXCEPT ![p].seen = authorization.status, ![p].at = "look"]
  /\ UNCHANGED <<agent, model, saved, files, paid, commands>>

-----------------------------------------------------------------------------
(* prepare().                                                              *)

OnFound(p) == IF cmd[p].on = "original" THEN "reason" ELSE "record"

Look(p) ==
  LET f == context[cmd[p].on]
  IN /\ cmd[p].at = "look"
     /\ \/ f = "written" /\ Continue(p, OnFound(p))
        \/ f = "empty" /\ Fail(p, "other")
        \/ f = "none" /\ Continue(p, "reserve")
     /\ UNCHANGED <<agent, model, files, paid, commands>>

\* A search whose batch has an id can be asked for without paying again.
\* (Faulty: any search can.)
CanResume_Any(c) == TRUE

CanResume(c) == c.uses = "batch" /\ job[c.on] \notin {"none", "prepared"}

\* The callback of the command consumes its authorization before the search.
\* (Faulty: a reservation of one's own is enough.)
AfterReserve_Search(c) == "search"

AfterReserve(c) == IF c.seen = "PENDING" THEN "consume" ELSE "search"

Reserve(p) ==
  /\ cmd[p].at = "reserve"
  /\ reservation[cmd[p].on] = "none"
  /\ reservation' = [reservation EXCEPT ![cmd[p].on] = "empty"]
  /\ Continue(p, "reserving")
  /\ UNCHANGED <<agent, model, job, context, authorization, paid, commands>>

WriteReservation(p) ==
  /\ cmd[p].at = "reserving"
  /\ reservation' = [reservation EXCEPT ![cmd[p].on] = "written"]
  /\ Continue(p, AfterReserve(cmd[p]))
  /\ UNCHANGED <<agent, model, job, context, authorization, paid, commands>>

\* The reservation of another command is adopted by a pending authorization, or by
\* a poll of its batch; else the search is ambiguous.
Reserved(p) ==
  LET c == cmd[p]
  IN /\ c.at = "reserve"
     /\ reservation[c.on] # "none"
     /\ \/ c.seen = "PENDING" /\ Continue(p, "consume")
        \/ c.seen # "PENDING" /\ CanResume(c) /\ Continue(p, "search")
        \/ c.seen # "PENDING" /\ ~CanResume(c) /\ Fail(p, "other")
     /\ UNCHANGED <<agent, model, files, paid, commands>>

\* consume() writes the copy that was loaded, with the new status.
Consume(p) ==
  LET ready == reservation[cmd[p].on] = "written"
  IN /\ cmd[p].at = "consume"
     /\ \/ ~ready /\ Fail(p, "other") /\ UNCHANGED authorization
        \/ /\ ready /\ Continue(p, "search")
           /\ authorization' = [authorization EXCEPT !.status = "CONSUMED",
                                                     !.recorded = FALSE]
     /\ UNCHANGED <<agent, model, reservation, job, context, paid, commands>>

-----------------------------------------------------------------------------
(* The search.                                                             *)

Pay(p) == paid' = [paid EXCEPT ![cmd[p].on] = @ + 1]

SendSync(p) ==
  /\ cmd[p].at = "search" /\ cmd[p].uses = "sync"
  /\ Pay(p)
  /\ Continue(p, "sent")
  /\ UNCHANGED <<agent, model, files, commands>>

Answer(p) ==
  /\ cmd[p].at = "sent"
  /\ Continue(p, "save") \/ Fail(p, "other")
  /\ UNCHANGED <<agent, model, files, paid, commands>>

\* The sidecar of the search of p.
SetJob(p, j) == job' = [job EXCEPT ![cmd[p].on] = j]

\* _load_or_prepare_state: a sidecar without a batch id is ambiguous.
SearchBatch(p) ==
  LET j == job[cmd[p].on]
  IN /\ cmd[p].at = "search" /\ cmd[p].uses = "batch"
     /\ \/ j = "none" /\ SetJob(p, "prepared") /\ Continue(p, "submit")
        \/ j = "prepared" /\ Fail(p, "other") /\ UNCHANGED job
        \/ j \notin {"none", "prepared"} /\ Continue(p, "poll") /\ UNCHANGED job
     /\ UNCHANGED <<agent, model, reservation, context, authorization, paid, commands>>

Submit(p) ==
  /\ cmd[p].at = "submit"
  /\ Pay(p)
  /\ Continue(p, "posted")
  /\ UNCHANGED <<agent, model, files, commands>>

Submitted(p) ==
  /\ cmd[p].at = "posted"
  /\ \/ SetJob(p, "submitted") /\ Continue(p, "poll")
     \/ Fail(p, "other") /\ UNCHANGED job
  /\ UNCHANGED <<agent, model, reservation, context, authorization, paid, commands>>

\* A batch ends one way; or it has not ended when the time is up.
Poll(p) ==
  LET j == job[cmd[p].on]
  IN /\ cmd[p].at = "poll"
     /\ \/ j \in {"submitted", "completed"} /\ SetJob(p, "completed") /\ Continue(p, "save")
        \/ j \in {"submitted", "failed"} /\ SetJob(p, "failed") /\ Fail(p, "batch_failed")
        \/ j = "submitted" /\ Fail(p, "other") /\ UNCHANGED job
     /\ UNCHANGED <<agent, model, reservation, context, authorization, paid, commands>>

-----------------------------------------------------------------------------
(* What was found is saved and used.                                       *)

Save(p) ==
  LET f == context[cmd[p].on]
  IN /\ cmd[p].at = "save"
     /\ \/ f = "none" /\ context' = [context EXCEPT ![cmd[p].on] = "empty"]
           /\ Continue(p, "saving")
        \/ f # "none" /\ Fail(p, "other") /\ UNCHANGED context
     /\ UNCHANGED <<agent, model, reservation, job, authorization, paid, commands>>

WriteContext(p) ==
  /\ cmd[p].at = "saving"
  /\ context' = [context EXCEPT ![cmd[p].on] = "written"]
  /\ Continue(p, OnFound(p))
  /\ UNCHANGED <<agent, model, reservation, job, authorization, paid, commands>>

\* record_context: the authorization names the context it led to.
RecordContext(p) ==
  LET ready == authorization.status = "CONSUMED" /\ context["replacement"] = "written"
  IN /\ cmd[p].at = "record"
     /\ \/ ~ready /\ Fail(p, "other") /\ UNCHANGED authorization
        \/ /\ ready /\ Continue(p, "reason")
           /\ authorization' = [authorization EXCEPT !.recorded = TRUE]
     /\ UNCHANGED <<agent, model, reservation, job, context, paid, commands>>

\* The agent reasons about the context (for a reconstructed one, the drift repair does).
Reason(p) ==
  /\ cmd[p].at = "reason"
  /\ \/ SaveAndEnd(p, [cmd[p].copy EXCEPT !.done = TRUE])
     \/ \E e \in {"no_endpoint", "other"} : Fail(p, e)
  /\ UNCHANGED <<agent, model, files, paid, commands>>

\* The process of a command ends.
Stop(p) ==
  /\ cmd[p].at # "idle"
  /\ SaveAndEnd(p, saved)
  /\ UNCHANGED <<agent, model, files, paid, commands>>

RetrievalStep(p) ==
  \/ WriteAuthorization(p) \/ Begin(p) \/ Load(p)
  \/ Look(p) \/ Reserve(p) \/ WriteReservation(p) \/ Reserved(p) \/ Consume(p)
  \/ SendSync(p) \/ Answer(p)
  \/ SearchBatch(p) \/ Submit(p) \/ Submitted(p) \/ Poll(p)
  \/ Save(p) \/ WriteContext(p) \/ RecordContext(p) \/ Reason(p)

RetrievalNext ==
  \/ \E p \in Worker : \/ Run(p) \/ Authorize(p) \/ AuthorizeAgain(p)
                       \/ RetrievalStep(p) \/ Stop(p)
  \/ \E m \in Model : Configure(m)

RetrievalSpec == RetrievalInit /\ [][RetrievalNext]_retrieval

-----------------------------------------------------------------------------
(* Properties.                                                             *)

RetrievalTypeOK ==
  /\ agent \in Agent /\ model \in Model /\ saved \in State
  /\ reservation \in [Identity -> File] /\ context \in [Identity -> File]
  /\ job \in [Identity -> Job]
  /\ authorization \in [status : Status, model : Model, recorded : BOOLEAN]
  /\ paid \in [Identity -> Nat]
  /\ cmd \in [Worker -> Command]
  /\ commands \in 0 .. MaxCommands

\* A search is paid for once, however often its task is run again, by whom and on
\* which model, and wherever it stopped.
\* (retrieval/coordinator.py:95, "automatic search retry is blocked")
OriginalPaidOnce == paid["original"] <= 1

\* Where a command goes on to pay, has paid or polls.
Searching == {"search", "sent", "submit", "posted", "poll"}

\* No search is replaced but under an authorization that is consumed, behind a
\* complete reservation, by a command that saw it pending: once consumed, no later
\* command searches again.
\* (common/retrieval_reconstruction.py:67-69)
ReplacementIsAuthorized ==
  /\ paid["replacement"] > 0 =>
       authorization.status = "CONSUMED" /\ reservation["replacement"] = "written"
  /\ \A p \in Worker : cmd[p].on = "replacement" /\ cmd[p].at \in Searching =>
       cmd[p].seen = "PENDING" /\ authorization.status = "CONSUMED"

===============================================================================
