------------------------- MODULE ProducerManager_proofs -------------------------
(***************************************************************************)
(* What every state of ProducerManager keeps, for any line of agents, any  *)
(* budget and any number of commands, crashes and requests.                *)
(*                                                                         *)
(* The saved state and the copy of the command differ only while a         *)
(* decision is not saved yet, and both are Good: their checkpoints are a   *)
(* prefix of the line of agents, each made from the one before it, and an  *)
(* executing revision is a paid-for one that has made everything from its  *)
(* target on.                                                              *)
(***************************************************************************)
EXTENDS ProducerManager, FiniteSetTheorems, TLAPS

Call == [task : Task, input : Nat, reserved : BOOLEAN, answer : Answer,
         target : {0} \union Specialist]

Request == [route : {"internal", "upstream"}, target : Specialist, base : Nat]

Run == [safe : BOOLEAN, actor : Operator \union {System}, at : Agent,
        cycle : Nat, retryAt : {0} \union Agent, stop : BOOLEAN, call : Nat,
        kind : Answer]

TypeInv ==
  /\ disk \in State
  /\ mem \in State
  /\ pc \in Pc
  /\ run \in Run
  /\ calls \in Seq(Call)
  /\ requests \in Seq(Request)
  /\ handed \subseteq Nat

-----------------------------------------------------------------------------
(* A state of the workflow, beside the calls cs, the requests rs and the     *)
(* spent authorizations sp.                                                  *)

\* The agents up to k are complete, and no other has an artifact.
Upto(s, k) ==
  /\ s.completed = 1 .. k
  /\ \A a \in Specialist : s.art[a] # 0 <=> a <= k

Line(s) == \E k \in 0 .. Last : Upto(s, k)

\* An artifact is the result of its agent, made from the one before it.
Made(s, a, cs) ==
  /\ s.art[a] \in DOMAIN cs
  /\ cs[s.art[a]].task.agent = a
  /\ cs[s.art[a]].answer = "result"
  /\ cs[s.art[a]].input = Input(s, a)

\* The revision of s, if it has one, is executing with its authorization spent,
\* and has itself made what there is from its target on.
Executing(s, cs, rs, sp) ==
  s.phase = "executing" =>
    /\ s.active \in sp
    /\ \A a \in Agent : a < rs[s.active].target => a \in s.completed
    /\ \A a \in Specialist :
         s.art[a] # 0 /\ a >= rs[s.active].target
           => cs[s.art[a]].task.cycle = s.active

Good(s, cs, rs, sp) ==
  /\ Line(s)
  /\ \A a \in Specialist : s.art[a] # 0 => Made(s, a, cs)
  /\ s.phase # "idle" => s.active \in DOMAIN rs
  /\ Executing(s, cs, rs, sp)

StatesInv ==
  /\ Good(disk, calls, requests, spent)
  /\ Good(mem, calls, requests, spent)

\* An answer is one its agent may give, and a review that wants a revision
\* names the agent to start from.
CallsInv ==
  /\ \A c \in DOMAIN calls :
       /\ calls[c].answer \in {"open"} \union AnswersTo(calls[c].task.agent)
       /\ calls[c].answer = "revision_required" => calls[c].target \in Specialist
  /\ RevisionCallsAreAuthorized

Granted(r) == \E g \in grants : g.request = r

Budgeted(r) == requests[r].route = "internal" => r \in slots

SpentInv ==
  \A r \in spent : r \in DOMAIN requests /\ Granted(r) /\ Budgeted(r)

-----------------------------------------------------------------------------
(* What a command knows where it is.                                         *)

Walking == {"begin", "dispatch", "execute", "waiting", "respond", "review"}

Revising == {"planned", "stop", "adopt", "authorize", "budget", "exhausted",
             "consume", "invalidate"}

\* The call of the command is the one of its task, for the present input.
Paid ==
  /\ run.call \in DOMAIN calls
  /\ calls[run.call].task = Current
  /\ calls[run.call].input = Input(mem, run.at)

Approved(p) ==
  \E c \in DOMAIN calls : /\ calls[c].task.agent = Last
                          /\ calls[c].input = p
                          /\ calls[c].answer = "approved"

CommandInv ==
  /\ pc \notin {"decided", "planned", "adopt"} => mem = disk
  /\ pc \in Walking \union {"decided"} => mem.completed = 1 .. run.at - 1
  /\ pc \in Walking => run.cycle = ActiveCycle(mem)
  /\ pc = "waiting" => Paid
  /\ pc = "respond" /\ run.kind \in Verdict \union {"result"}
       => Paid /\ calls[run.call].answer = run.kind
  /\ pc \in {"review", "decided"}
       => Paid /\ calls[run.call].answer = run.kind /\ run.kind \in Verdict
  /\ pc = "handoff" => Approved(mem.art[Planner])
  /\ pc \in Revising => mem.active \in DOMAIN requests
  /\ pc \in {"budget", "exhausted", "consume", "invalidate"}
       => Granted(mem.active)
  /\ pc \in {"consume", "invalidate"}
       => UpToDate(mem.active, mem) /\ Budgeted(mem.active)
  /\ pc = "invalidate" => mem.active \in spent

\* What ResultsAreTruthful says of a result.
Truthful(x) ==
  /\ x.plan # 0
  /\ x.plan \in DOMAIN calls
  /\ calls[x.plan].task.cycle = x.request
  /\ \E c \in DOMAIN calls : /\ calls[c].task.agent = Last
                             /\ calls[c].task.cycle = x.request
                             /\ calls[c].input = x.plan
                             /\ calls[c].answer \in Verdict
                             /\ x.status = "completed"
                                  <=> calls[c].answer = "approved"

ResultsInv == \A x \in results : Truthful(x)

IInv ==
  /\ TypeInv
  /\ CallsInv
  /\ SpentInv
  /\ StatesInv
  /\ CommandInv
  /\ HandoffWasApproved
  /\ ResultsInv

-----------------------------------------------------------------------------
(* The files only grow.                                                      *)

Later(cs, cs2) ==
  \A c \in DOMAIN cs :
    /\ c \in DOMAIN cs2
    /\ cs2[c].task = cs[c].task
    /\ cs2[c].input = cs[c].input
    /\ cs[c].answer # "open" => cs2[c].answer = cs[c].answer

Grown ==
  /\ Later(calls, calls')
  /\ \A r \in DOMAIN requests : r \in DOMAIN requests' /\ requests'[r] = requests[r]
  /\ spent \subseteq spent'
  /\ slots \subseteq slots'
  /\ grants \subseteq grants'

\* A call that was paid for and its answer, a request, and an authorization that
\* was spent stay what they are, whoever takes the step.
LEMMA FilesGrow == TypeInv /\ [Next]_vars => Grown
<1> SUFFICES ASSUME TypeInv, [Next]_vars PROVE Grown
  OBVIOUS
<1>1. CASE UNCHANGED <<calls, requests>>
  <2>1. spent \subseteq spent' /\ slots \subseteq slots' /\ grants \subseteq grants'
    BY DEF Next, Step, vars, store, revision, Begin, Dispatch, Send, Poll,
       ReservationBlocks, Answered, RespondError, RespondResult, RespondReview, Finalize,
       Approve, HandOff, HandOffFails, Complete, ReviewBlocked, Plan, SavePlan,
       StopForOperator, Adopt, Authorize, Budget, Exhausted, Consume, Invalidate, Resume,
       LocalRefusal, Recover, Revise, ProviderRetry, Crash, UpstreamRequest
  <2> QED
    BY <1>1, <2>1 DEF Grown, Later
<1>2. CASE Send
  BY <1>2 DEF Send, TypeInv, Grown, Later, revision
<1>3. CASE Answered
  <2>1. run.call \in Nat /\ calls \in Seq(Call)
    BY DEF TypeInv, Run
  <2>2. CASE UNCHANGED calls
    BY <1>3, <2>2 DEF Answered, Grown, Later, revision
  <2>3. ASSUME NEW k, NEW g, calls[run.call].answer = "open",
               calls' = [calls EXCEPT ![run.call].answer = k, ![run.call].target = g]
        PROVE  Later(calls, calls')
    <3>1. DOMAIN calls' = DOMAIN calls
      BY <2>3
    <3>2. ASSUME NEW c \in DOMAIN calls
          PROVE  /\ calls'[c].task = calls[c].task
                 /\ calls'[c].input = calls[c].input
                 /\ calls[c].answer # "open" => calls'[c].answer = calls[c].answer
      BY <2>1, <2>3, <3>2 DEF Call
    <3> QED
      BY <3>1, <3>2 DEF Later
  <2> QED
    BY <1>3, <2>2, <2>3 DEF Answered, Grown, revision
<1>4. CASE Plan \/ UpstreamRequest
  <2>1. requests \in Seq(Request)
    BY DEF TypeInv
  <2>2. UNCHANGED calls /\ spent' = spent /\ slots' = slots /\ grants' = grants
    BY <1>4 DEF Plan, UpstreamRequest, store
  <2>3. \E x : requests' = Append(requests, x)
    BY <1>4 DEF Plan, UpstreamRequest
  <2>4. \A r \in DOMAIN requests : r \in DOMAIN requests' /\ requests'[r] = requests[r]
    BY <2>1, <2>3
  <2> QED
    BY <2>2, <2>4 DEF Grown, Later
<1> QED
  BY <1>1, <1>2, <1>3, <1>4
     DEF Next, Step, vars, store, revision, Begin, Dispatch, Poll,
     ReservationBlocks, RespondError, RespondResult, RespondReview, Finalize,
     Approve, HandOff, HandOffFails, Complete, ReviewBlocked, SavePlan,
     StopForOperator, Adopt, Authorize, Budget, Exhausted, Consume, Invalidate, Resume,
     LocalRefusal, Recover, Revise, ProviderRetry, Crash

-----------------------------------------------------------------------------
(* A Good state stays Good.                                                  *)

\* It does while files grow around it.
LEMMA GoodStays ==
  ASSUME NEW s \in State, NEW cs, NEW rs, NEW sp, Good(s, cs, rs, sp),
         NEW cs2, NEW rs2, NEW sp2, Later(cs, cs2), sp \subseteq sp2,
         \A r \in DOMAIN rs : r \in DOMAIN rs2 /\ rs2[r] = rs[r]
  PROVE  Good(s, cs2, rs2, sp2)
<1>1. Line(s)
  BY DEF Good
<1>2. ASSUME NEW a \in Specialist, s.art[a] # 0
      PROVE  Made(s, a, cs) /\ Made(s, a, cs2)
             /\ cs2[s.art[a]].task = cs[s.art[a]].task
  <2>1. Made(s, a, cs)
    BY <1>2 DEF Good
  <2> QED
    BY <2>1 DEF Made, Later
<1>3. s.phase # "idle" => s.active \in DOMAIN rs /\ rs2[s.active] = rs[s.active]
  BY DEF Good
<1>4. Executing(s, cs2, rs2, sp2)
  <2> SUFFICES ASSUME s.phase = "executing"
               PROVE  /\ s.active \in sp2
                      /\ \A a \in Agent : a < rs2[s.active].target => a \in s.completed
                      /\ \A a \in Specialist :
                           s.art[a] # 0 /\ a >= rs2[s.active].target
                             => cs2[s.art[a]].task.cycle = s.active
    BY DEF Executing
  <2>1. rs2[s.active] = rs[s.active]
    BY <1>3
  <2> QED
    BY <1>2, <2>1 DEF Good, Executing
<1> QED
  BY <1>1, <1>2, <1>3, <1>4 DEF Good

\* It does when only its status, its errors or what it has consumed change, or when
\* it goes to a phase in which no revision executes.
LEMMA GoodAlike ==
  ASSUME NEW s, NEW t, NEW cs, NEW rs, NEW sp, Good(s, cs, rs, sp),
         t.completed = s.completed, t.art = s.art,
         \/ t.phase = s.phase /\ t.active = s.active
         \/ t.phase # "executing" /\ t.active \in DOMAIN rs
  PROVE  Good(t, cs, rs, sp)
<1>1. Line(t)
  BY DEF Good, Line, Upto
<1>2. \A a \in Specialist : t.art[a] # 0 => Made(t, a, cs)
  BY DEF Good, Made, Input
<1> QED
  BY <1>1, <1>2 DEF Good, Executing

-----------------------------------------------------------------------------
(* Types.                                                                    *)

\* The parameters of no command are parameters.
LEMMA NoRunTyped == NoRun \in Run
<1> USE AgentAssumption DEF Agent
<1>1. 1 \in Agent /\ 0 \in Nat /\ 0 \in {0} \union Agent
  OBVIOUS
<1>2. "open" \in Answer /\ System \in Operator \union {System}
  BY DEF Answer
<1> QED
  BY <1>1, <1>2 DEF NoRun, Run

\* Types hold at the start.
LEMMA TypeInit == Init => TypeInv
<1> SUFFICES ASSUME Init PROVE TypeInv
  OBVIOUS
<1> USE AgentAssumption DEF Agent, Specialist
<1>1. Fresh \in State
  <2>1. [a \in Agent |-> NoTask] \in [Agent -> Task \union {NoTask}]
    OBVIOUS
  <2>2. [a \in Specialist |-> 0] \in [Specialist -> Nat]
    OBVIOUS
  <2> QED
    BY <2>1, <2>2 DEF Fresh, State, Status, Phase
<1>2. PICK b \in BOOLEAN : run = [NoRun EXCEPT !.safe = b]
  BY DEF Init
<1>3. run \in Run
  <2>1. NoRun \in Run
    BY NoRunTyped
  <2> QED
    BY <1>2, <2>1 DEF Run
<1> QED
  BY <1>1, <1>3 DEF Init, TypeInv, Pc

\* The members of the two sequences have their types, and 0 numbers none of them.
LEMMA Numbered ==
  ASSUME TypeInv
  PROVE  /\ DOMAIN calls = 1 .. Len(calls) /\ Len(calls) \in Nat
         /\ \A c \in DOMAIN calls : c \in Nat /\ c # 0 /\ calls[c] \in Call
         /\ DOMAIN requests = 1 .. Len(requests) /\ Len(requests) \in Nat
         /\ \A r \in DOMAIN requests : r \in Nat /\ r # 0 /\ requests[r] \in Request
<1>1. calls \in Seq(Call) /\ requests \in Seq(Request)
  BY DEF TypeInv
<1> QED
  BY <1>1

\* Who may have given the answer the command is at: a specialist its result, the
\* reviewer its verdict.
LEMMA WhoAnswered ==
  ASSUME IInv
  PROVE  /\ pc = "respond" /\ run.kind = "result" => run.at \in Specialist /\ run.call # 0
         /\ pc = "respond" /\ run.kind \in Verdict => run.at = Last
         /\ pc \in {"review", "decided"} => run.at = Last /\ run.kind \in Verdict
<1> USE DEF Agent, Specialist
<1>1. run.at \in Agent /\ Last \in Nat /\ Last >= 2
  BY AgentAssumption DEF IInv, TypeInv, Run
<1>2. ASSUME Paid, calls[run.call].answer = run.kind, run.kind \in Verdict \union {"result"}
      PROVE  run.kind \in AnswersTo(run.at) /\ run.call # 0
  <2>1. calls[run.call].answer \in {"open"} \union AnswersTo(calls[run.call].task.agent)
    BY <1>2 DEF IInv, CallsInv, Paid
  <2>2. calls[run.call].task.agent = run.at
    BY <1>2 DEF Paid, Current, TaskOf
  <2>3. run.kind # "open"
    BY <1>2 DEF Verdict
  <2>4. run.call # 0
    BY <1>2 DEF Paid, IInv, TypeInv
  <2> QED
    BY <1>2, <2>1, <2>2, <2>3, <2>4
<1>3. ASSUME run.kind \in AnswersTo(run.at)
      PROVE  /\ run.kind = "result" => run.at \in Specialist
             /\ run.kind \in Verdict => run.at = Last
  BY <1>1, <1>3 DEF AnswersTo, Verdict
<1> QED
  BY <1>2, <1>3 DEF IInv, CommandInv

\* Every action that saves or changes the state leaves one.
LEMMA StatesTyped == IInv /\ [Next]_vars => disk' \in State /\ mem' \in State
<1> SUFFICES ASSUME IInv, [Next]_vars PROVE disk' \in State /\ mem' \in State
  OBVIOUS
<1> USE DEF Save, Refuse, Failed, End
<1>1. disk \in State /\ mem \in State /\ run \in Run
  BY DEF IInv, TypeInv
<1>2. ASSUME NEW s \in State, NEW st \in Status
      PROVE  /\ [s EXCEPT !.status = st] \in State
             /\ \A ph \in Phase : [s EXCEPT !.phase = ph, !.status = st] \in State
             /\ \A a \in Agent :
                  [s EXCEPT !.completed = @ \union {a}, !.status = st] \in State
  BY DEF State
<1>3. \A r \in DOMAIN requests : r \in Nat
  BY DEF IInv, TypeInv
<1>4. CASE UNCHANGED <<disk, mem>> \/ Resume \/ SavePlan \/ Adopt \/ Authorize \/ Crash
  BY <1>1, <1>4 DEF Resume, SavePlan, Adopt, Authorize, Crash
<1>5. CASE Exhausted
  BY <1>1, <1>2, <1>5 DEF Exhausted, Status, Phase
<1>6. CASE Budget
  BY <1>1, <1>6 DEF Budget
<1>7. CASE Begin \/ Dispatch \/ HandOffFails \/ Complete \/ ReviewBlocked
  BY <1>1, <1>2, <1>7
     DEF Begin, Dispatch, HandOffFails, Complete, ReviewBlocked, Status
<1>8. CASE StopForOperator
  BY <1>1, <1>2, <1>8 DEF StopForOperator, Status, Phase
<1>9. CASE Approve
  <2>1. Last \in Agent
    BY AgentAssumption DEF Agent
  <2> QED
    BY <1>1, <1>2, <1>9, <2>1 DEF Approve, Status
<1>10. CASE Plan
  <2>1. Len(requests) + 1 \in Nat
    BY DEF IInv, TypeInv
  <2>2. [mem EXCEPT !.phase = "planned", !.active = Len(requests) + 1] \in State
    BY <1>1, <2>1 DEF State, Phase
  <2> QED
    BY <1>1, <1>10, <2>2 DEF Plan
<1>11. CASE Finalize
  <2>1. [mem EXCEPT !.phase = "completed",
                    !.consumed = mem.consumed \union {mem.active}] \in State
    BY <1>1 DEF State, Phase
  <2> QED
    BY <1>1, <1>11, <2>1 DEF Finalize
<1>12. ASSUME NEW b \in BOOLEAN, NEW o \in Operator, Revise(b, o)
       PROVE  disk' \in State /\ mem' \in State
  <2>1. ASSUME NEW r \in Pending
        PROVE  [disk EXCEPT !.phase = "authorization_required",
                            !.status = "BLOCKED", !.active = r] \in State
    BY <1>1, <1>3, <2>1 DEF Pending, State, Phase, Status
  <2> QED
    BY <1>1, <1>12, <2>1 DEF Revise
<1>13. CASE RespondError
  <2>1. run.at \in Agent /\ Current \in Task
    BY <1>1 DEF Run, Current, TaskOf, Task
  <2>2. \A e \in Task \union {NoTask} : [mem EXCEPT !.error[run.at] = e] \in State
    BY <1>1, <2>1 DEF State
  <2>3. [mem EXCEPT !.error[run.at] = IF run.kind = "rejected" THEN Current ELSE NoTask]
          \in State
    BY <2>1, <2>2
  <2> QED
    BY <1>2, <1>13, <2>3 DEF RespondError, Status
<1>14. CASE RespondResult
  <2>1. run.at \in Specialist /\ run.at \in Agent /\ run.call \in Nat
    BY <1>1, <1>14, WhoAnswered DEF RespondResult, Run
  <2>2. [mem EXCEPT !.art[run.at] = run.call] \in State
    BY <1>1, <2>1 DEF State
  <2>3. [mem EXCEPT !.art[run.at] = run.call, !.completed = @ \union {run.at},
                    !.status = "RUNNING"] \in State
    BY <2>1, <2>2, <1>1 DEF State, Status
  <2> QED
    BY <1>14, <2>3 DEF RespondResult
<1>15. CASE Invalidate
  <2> DEFINE K == Kept(requests[mem.active].target)
  <2>1. mem.art \in [Specialist -> Nat] /\ mem.completed \in SUBSET Agent
    BY <1>1 DEF State
  <2>2. [a \in Specialist |-> IF a \in K THEN mem.art[a] ELSE 0] \in [Specialist -> Nat]
    BY <2>1
  <2>3. mem.completed \cap K \in SUBSET Agent
    BY <2>1
  <2> HIDE DEF K
  <2>4. ASSUME NEW ar \in [Specialist -> Nat], NEW co \in SUBSET Agent
        PROVE  [mem EXCEPT !.phase = "executing", !.status = "REVISING",
                           !.completed = co, !.art = ar] \in State
    BY <1>1 DEF State, Status, Phase
  <2>5. mem' = [mem EXCEPT !.phase = "executing", !.status = "REVISING",
                  !.completed = mem.completed \cap K,
                  !.art = [a \in Specialist |-> IF a \in K THEN mem.art[a] ELSE 0]]
        /\ disk' = mem'
    BY <1>1, <1>15 DEF Invalidate, K, State
  <2> QED
    BY <2>2, <2>3, <2>4, <2>5
<1> QED
  BY <1>4, <1>5, <1>6, <1>7, <1>8, <1>9, <1>10, <1>11, <1>12, <1>13, <1>14, <1>15
     DEF Next, Step, vars, Send, Poll, ReservationBlocks, Answered, RespondReview,
     HandOff, Consume, LocalRefusal, Recover, ProviderRetry, UpstreamRequest

\* Every action that moves the command leaves it at an agent of the line.
LEMMA RunTyped == IInv /\ [Next]_vars => run' \in Run
<1> SUFFICES ASSUME IInv, [Next]_vars PROVE run' \in Run
  OBVIOUS
<1> USE DEF Refuse, Failed, End, Replied
<1>1. run \in Run /\ NoRun \in Run
  BY NoRunTyped DEF IInv, TypeInv
<1>2. "error" \in Answer /\ "open" \in Answer
  BY DEF Answer
<1>3. CASE UNCHANGED run \/ run' = NoRun \/ LocalRefusal \/ ReservationBlocks
  BY <1>1, <1>2, <1>3 DEF Run, LocalRefusal, ReservationBlocks
<1>4. CASE Send
  <2>1. Len(calls) + 1 \in Nat
    BY DEF IInv, TypeInv
  <2>2. [run EXCEPT !.call = Len(calls) + 1] \in Run /\ [run EXCEPT !.kind = "error"] \in Run
    BY <1>1, <1>2, <2>1 DEF Run
  <2> QED
    BY <1>4, <2>2 DEF Send
<1>5. CASE Poll
  <2>1. \A c \in CallsOf(Current) : [run EXCEPT !.call = c] \in Run
    <3>1. \A c \in CallsOf(Current) : c \in Nat
      BY Numbered DEF CallsOf, IInv
    <3> QED
      BY <1>1, <3>1 DEF Run
  <2> QED
    BY <1>5, <2>1 DEF Poll
<1>6. CASE Answered
  <2>1. \A k \in AnswersTo(run.at) : k \in Answer
    BY DEF AnswersTo, Answer, Verdict
  <2>2. calls[run.call].answer \in Answer
    <3>1. run.call \in DOMAIN calls
      BY <1>6 DEF Answered, IInv, CommandInv, Paid
    <3>2. calls[run.call] \in Call
      BY <3>1, Numbered DEF IInv
    <3> QED
      BY <3>2 DEF Call
  <2>3. \A k \in Answer : [run EXCEPT !.kind = k] \in Run
    BY <1>1 DEF Run
  <2> QED
    BY <1>2, <1>6, <2>1, <2>2, <2>3 DEF Answered
<1>7. CASE RespondResult
  <2>1. run.at + 1 \in Agent
    BY <1>7, AgentAssumption, WhoAnswered DEF RespondResult, Agent, Specialist
  <2>2. [run EXCEPT !.at = run.at + 1, !.call = 0, !.kind = "open"] \in Run
    BY <1>1, <1>2, <2>1 DEF Run
  <2> QED
    BY <1>1, <1>7, <2>2 DEF RespondResult, Run
<1>8. CASE SavePlan
  <2>1. [run EXCEPT !.actor = System] \in Run
    BY <1>1 DEF Run
  <2> QED
    BY <1>8, <2>1 DEF SavePlan
<1>9. CASE Invalidate
  <2> DEFINE g == requests[mem.active].target
             r == mem.active
  <2>1. g \in Specialist /\ r \in Nat
    <3>1. mem.active \in DOMAIN requests
      BY <1>9 DEF Invalidate, IInv, CommandInv, Revising
    <3>2. requests[mem.active] \in Request /\ mem.active \in Nat
      BY <3>1, Numbered DEF IInv
    <3> QED
      BY <3>2 DEF Request
  <2>2. g \in Agent
    BY <2>1, AgentAssumption DEF Agent, Specialist
  <2> HIDE DEF g, r
  <2>3. [run EXCEPT !.at = g, !.cycle = r, !.retryAt = 0, !.stop = FALSE, !.call = 0,
                    !.kind = "open"] \in Run
    BY <1>1, <1>2, <2>1, <2>2 DEF Run
  <2> QED
    BY <1>9, <2>3 DEF Invalidate, g, r
<1>10. ASSUME NEW b \in BOOLEAN, Recover(b)
       PROVE  run' \in Run
  BY <1>1, <1>10 DEF Recover, Run
<1>11. ASSUME NEW b \in BOOLEAN, NEW o \in Operator, Revise(b, o)
       PROVE  run' \in Run
  <2>1. [NoRun EXCEPT !.safe = b, !.actor = o] \in Run
    BY <1>1 DEF Run
  <2> QED
    BY <1>1, <1>11, <2>1 DEF Revise
<1>12. CASE ProviderRetry
  BY <1>1, <1>12 DEF ProviderRetry, Run
<1>13. CASE Resume
  <2> DEFINE a == FirstIncomplete(disk)
             r == ActiveCycle(disk)
  <2>1. r \in Nat
    BY DEF ActiveCycle, IInv, TypeInv, State
  <2>2. a <= Last => a \in Agent
    <3>1. PICK k \in 0 .. Last : disk.completed = 1 .. k
      BY DEF IInv, StatesInv, Good, Line, Upto
    <3>2. Cardinality(disk.completed) = k
      BY <3>1, FS_Interval, AgentAssumption
    <3> QED
      BY <3>2, AgentAssumption DEF FirstIncomplete, Agent
  <2> HIDE DEF a, r
  <2>3. ASSUME a \in Agent
        PROVE  [run EXCEPT !.at = a, !.cycle = r, !.retryAt = a] \in Run
               /\ [run EXCEPT !.at = a, !.cycle = r, !.retryAt = 0] \in Run
    BY <1>1, <2>1, <2>3 DEF Run
  <2>4. run' = NoRun \/ (a <= Last /\
          \E x \in {0, a} : run' = [run EXCEPT !.at = a, !.cycle = r, !.retryAt = x])
    BY <1>13 DEF Resume, a, r
  <2> QED
    BY <1>1, <2>2, <2>3, <2>4
<1> QED
  BY <1>3, <1>4, <1>5, <1>6, <1>7, <1>8, <1>9, <1>10, <1>11, <1>12, <1>13
     DEF Next, Step, vars, Begin, Dispatch, RespondError, RespondReview, Finalize,
     Approve, HandOff, HandOffFails, Complete, ReviewBlocked, Plan,
     StopForOperator, Adopt, Authorize, Budget, Exhausted, Consume, Crash, UpstreamRequest

\* The Planner is a specialist, and every specialist an agent.
LEMMA PlannerIsOne == Planner \in Specialist /\ Planner \in Agent /\ Specialist \subseteq Agent
BY AgentAssumption DEF Planner, Specialist, Agent

\* What an agent is given is an artifact or nothing.
LEMMA InputTyped ==
  ASSUME NEW s \in State, NEW a \in Agent
  PROVE  Input(s, a) \in Nat
BY AgentAssumption DEF Input, State, Agent, Specialist

\* A call that is paid for or answered is a call.
LEMMA CallsTyped == IInv /\ [Next]_vars => calls' \in Seq(Call)
<1> SUFFICES ASSUME IInv, [Next]_vars PROVE calls' \in Seq(Call)
  OBVIOUS
<1>1. calls \in Seq(Call) /\ run \in Run /\ mem \in State
  BY DEF IInv, TypeInv
<1>2. CASE Send
  <2> DEFINE x == [task |-> Current, input |-> Input(mem, Current.agent),
                   reserved |-> Reserves(Current), answer |-> "open", target |-> 0]
  <2>1. Current \in Task /\ Current.agent \in Agent
    BY <1>1 DEF Current, TaskOf, Task, Run
  <2>2. Input(mem, Current.agent) \in Nat
    BY <1>1, <2>1, InputTyped
  <2>3. Reserves(Current) \in BOOLEAN
    BY <1>1 DEF Reserves, Run, Current, TaskOf
  <2>4. "open" \in Answer /\ 0 \in {0} \union Specialist
    BY DEF Answer
  <2>5. x \in Call
    BY <2>1, <2>2, <2>3, <2>4, Zenon DEF Call
  <2>6. calls' = Append(calls, x)
    BY <1>2 DEF Send
  <2> QED
    BY <1>1, <2>5, <2>6
<1>3. CASE Answered
  <2>1. ASSUME NEW k \in Answer, NEW g \in {0} \union Specialist, run.call \in DOMAIN calls,
               calls' = [calls EXCEPT ![run.call].answer = k, ![run.call].target = g]
        PROVE  calls' \in Seq(Call)
    <3>1. calls[run.call] \in Call
      BY <2>1, Numbered DEF IInv
    <3>2. [calls[run.call] EXCEPT !.answer = k, !.target = g] \in Call
      BY <2>1, <3>1 DEF Call
    <3>3. calls' = [calls EXCEPT ![run.call] =
                      [calls[run.call] EXCEPT !.answer = k, !.target = g]]
      BY <1>1, <2>1
    <3> QED
      BY <1>1, <2>1, <3>2, <3>3
  <2>2. \A k \in AnswersTo(run.at) : k \in Answer
    BY DEF AnswersTo, Answer, Verdict
  <2>3. run.call \in DOMAIN calls
    BY <1>3 DEF Answered, IInv, CommandInv, Paid
  <2> QED
    BY <1>1, <1>3, <2>1, <2>2, <2>3 DEF Answered
<1>4. CASE UNCHANGED calls
  BY <1>1, <1>4
<1> QED
  BY <1>2, <1>3, <1>4
     DEF Next, Step, vars, store, Begin, Dispatch, Poll, ReservationBlocks, RespondError,
     RespondResult, RespondReview, Finalize, Approve, HandOff, HandOffFails, Complete,
     ReviewBlocked, Plan, SavePlan, StopForOperator, Adopt, Authorize, Budget, Exhausted,
     Consume, Invalidate, Resume, LocalRefusal, Recover, Revise, ProviderRetry, Crash,
     UpstreamRequest

\* The review and the Researcher ask for revisions from a specialist.
LEMMA RequestsTyped ==
  IInv /\ [Next]_vars => requests' \in Seq(Request) /\ handed' \subseteq Nat
<1> SUFFICES ASSUME IInv, [Next]_vars
             PROVE  requests' \in Seq(Request) /\ handed' \subseteq Nat
  OBVIOUS
<1>1. requests \in Seq(Request) /\ handed \subseteq Nat /\ mem \in State
  BY DEF IInv, TypeInv
<1>2. mem.art[Planner] \in Nat
  BY <1>1, PlannerIsOne DEF State
<1>3. CASE Plan
  <2> DEFINE x == [route |-> "internal", target |-> calls[run.call].target,
                   base |-> mem.art[Planner]]
  <2>1. calls[run.call].target \in Specialist
    BY <1>3 DEF Plan, IInv, CallsInv, CommandInv, Paid
  <2>2. x \in Request
    BY <1>2, <2>1 DEF Request
  <2>3. requests' = Append(requests, x) /\ handed' = handed
    BY <1>3 DEF Plan, handoff
  <2> QED
    BY <1>1, <2>2, <2>3
<1>4. CASE UpstreamRequest
  <2>1. PICK p \in handed : requests' = Append(requests, [route |-> "upstream",
                                                          target |-> Planner, base |-> p])
    BY <1>4 DEF UpstreamRequest
  <2>2. [route |-> "upstream", target |-> Planner, base |-> p] \in Request
    BY <1>1, PlannerIsOne DEF Request
  <2> QED
    BY <1>1, <1>4, <2>1, <2>2 DEF UpstreamRequest, handoff
<1>5. CASE HandOff
  BY <1>1, <1>2, <1>5 DEF HandOff, revision
<1> QED
  BY <1>1, <1>3, <1>4, <1>5
     DEF Next, Step, vars, revision, handoff, Begin, Dispatch, Send, Poll,
     ReservationBlocks, Answered, RespondError, RespondResult, RespondReview, Finalize,
     Approve, HandOffFails, Complete, ReviewBlocked, SavePlan, StopForOperator, Adopt,
     Authorize, Budget, Exhausted, Consume, Invalidate, Resume, LocalRefusal, Recover,
     Revise, ProviderRetry, Crash

\* Every step keeps the types.
LEMMA Typed == IInv /\ [Next]_vars => TypeInv'
<1> SUFFICES ASSUME IInv, [Next]_vars PROVE TypeInv'
  OBVIOUS
<1>1. pc' \in Pc
  BY DEF IInv, TypeInv, Pc, End, Refuse, Failed, Goto, Replied,
     Next, Step, vars, Begin, Dispatch, Send, Poll,
     ReservationBlocks, Answered, RespondError, RespondResult, RespondReview, Finalize,
     Approve, HandOff, HandOffFails, Complete, ReviewBlocked, Plan, SavePlan,
     StopForOperator, Adopt, Authorize, Budget, Exhausted, Consume, Invalidate, Resume,
     LocalRefusal, Recover, Revise, ProviderRetry, Crash, UpstreamRequest
<1> QED
  BY <1>1, StatesTyped, RunTyped, CallsTyped, RequestsTyped DEF TypeInv

-----------------------------------------------------------------------------
(* The calls and the authorizations.                                         *)

\* An authorization is spent only with its grant and its budget in hand.
LEMMA SpentStep == IInv /\ [Next]_vars => SpentInv'
<1> SUFFICES ASSUME IInv, [Next]_vars, NEW r \in spent'
             PROVE  (r \in DOMAIN requests /\ Granted(r) /\ Budgeted(r))'
  BY DEF SpentInv
<1>1. Grown
  BY FilesGrow DEF IInv
<1>2. r \in spent \/ (Consume /\ r = mem.active)
  <2>1. CASE Consume
    BY <2>1 DEF Consume
  <2>2. CASE UNCHANGED spent
    BY <2>2
  <2> QED
    BY <2>1, <2>2
       DEF Next, Step, vars, store, revision, Begin, Dispatch, Send, Poll,
       ReservationBlocks, Answered, RespondError, RespondResult, RespondReview, Finalize,
       Approve, HandOff, HandOffFails, Complete, ReviewBlocked, Plan, SavePlan,
       StopForOperator, Adopt, Authorize, Budget, Exhausted, Invalidate, Resume,
       LocalRefusal, Recover, Revise, ProviderRetry, Crash, UpstreamRequest
<1>3. r \in DOMAIN requests /\ Granted(r) /\ Budgeted(r)
  BY <1>2 DEF IInv, SpentInv, CommandInv, Revising, Consume
<1> QED
  BY <1>1, <1>3 DEF Grown, Granted, Budgeted

\* The agent a command of a revision has reached is its target or behind it.
LEMMA BehindTarget ==
  ASSUME IInv, pc \in Walking, run.cycle # 0
  PROVE  /\ mem.phase = "executing" /\ run.cycle = mem.active
         /\ run.cycle \in spent
         /\ run.at >= requests[run.cycle].target
<1>1. mem.phase = "executing" /\ run.cycle = mem.active
  BY DEF IInv, CommandInv, ActiveCycle
<1>2. run.cycle \in spent /\ run.cycle \in DOMAIN requests
  BY <1>1 DEF IInv, StatesInv, Good, Executing
<1>3. \A a \in Agent : a < requests[run.cycle].target => a \in 1 .. run.at - 1
  BY <1>1 DEF IInv, StatesInv, Good, Executing, CommandInv
<1>4. requests[run.cycle].target \in Specialist /\ run.at \in Agent
  BY <1>2, Numbered DEF IInv, TypeInv, Run, Request
<1>5. ASSUME run.at < requests[run.cycle].target PROVE FALSE
  BY <1>3, <1>4, <1>5 DEF Agent
<1>6. run.at >= requests[run.cycle].target
  <2> DEFINE g == requests[run.cycle].target
  <2>1. g \in Int /\ run.at \in Int
    BY <1>4, AgentAssumption DEF Agent, Specialist
  <2>2. ~ (run.at < g)
    BY <1>5
  <2> HIDE DEF g
  <2>3. run.at >= g
    BY <2>1, <2>2
  <2> QED
    BY <2>3 DEF g
<1> QED
  BY <1>1, <1>2, <1>6

\* Every call is paid for by right, and answered by its agent.
LEMMA CallsStep == IInv /\ [Next]_vars => CallsInv'
<1> SUFFICES ASSUME IInv, [Next]_vars PROVE CallsInv'
  OBVIOUS
<1> DEFINE Fine(c) ==
             /\ calls[c].answer \in {"open"} \union AnswersTo(calls[c].task.agent)
             /\ calls[c].answer = "revision_required" => calls[c].target \in Specialist
           Allowed(c) ==
             LET r == calls[c].task.cycle
             IN r # 0 => /\ r \in spent
                         /\ Granted(r)
                         /\ Budgeted(r)
                         /\ calls[c].task.agent >= requests[r].target
<1> SUFFICES ASSUME NEW c \in DOMAIN calls' PROVE (Fine(c) /\ Allowed(c))'
  BY DEF CallsInv, RevisionCallsAreAuthorized, Granted, Budgeted
<1>1. Grown
  BY FilesGrow DEF IInv
<1>2. c \in DOMAIN calls => Fine(c) /\ Allowed(c)
  BY DEF IInv, CallsInv, RevisionCallsAreAuthorized, Granted, Budgeted
<1>3. ASSUME NEW t \in Task, t.cycle # 0 => /\ t.cycle \in spent
                                            /\ t.agent >= requests[t.cycle].target,
             c \in DOMAIN calls', calls'[c].task = t
      PROVE  Allowed(c)'
  <2>1. t.cycle # 0 => t.cycle \in DOMAIN requests /\ Granted(t.cycle) /\ Budgeted(t.cycle)
    BY <1>3 DEF IInv, SpentInv
  <2>2. t.cycle # 0 => t.cycle \in spent' /\ requests'[t.cycle] = requests[t.cycle]
                       /\ Granted(t.cycle)' /\ Budgeted(t.cycle)'
    BY <1>1, <1>3, <2>1 DEF Grown, Granted, Budgeted
  <2> QED
    BY <1>3, <2>2
<1>4. ASSUME c \in DOMAIN calls PROVE Allowed(c)'
  <2>1. calls'[c].task = calls[c].task /\ calls[c].task \in Task
    BY <1>1, <1>4, Numbered DEF Grown, Later, IInv, Call
  <2>2. calls[c].task.cycle # 0 =>
          /\ calls[c].task.cycle \in spent
          /\ calls[c].task.agent >= requests[calls[c].task.cycle].target
    BY <1>2, <1>4
  <2> HIDE DEF Allowed
  <2> QED
    BY <1>3, <2>1, <2>2
<1>5. CASE Send
  <2>1. calls \in Seq(Call) /\ Len(calls) \in Nat /\ DOMAIN calls = 1 .. Len(calls)
    BY Numbered DEF IInv, TypeInv
  <2>2. c \in DOMAIN calls => calls'[c] = calls[c]
    BY <1>5, <2>1 DEF Send
  <2>3. c \notin DOMAIN calls => calls'[c].task = Current /\ calls'[c].answer = "open"
    BY <1>5, <2>1 DEF Send
  <2>4. Fine(c)'
    BY <1>2, <2>2, <2>3 DEF AnswersTo, Verdict
  <2>5. Current \in Task /\ Current.cycle = run.cycle /\ Current.agent = run.at
    BY DEF Current, TaskOf, Task, IInv, TypeInv, Run
  <2>6. run.cycle # 0 => run.cycle \in spent /\ run.at >= requests[run.cycle].target
    BY <1>5, BehindTarget DEF Send, Walking
  <2> HIDE DEF Allowed, Fine
  <2>7. CASE c \in DOMAIN calls
    BY <1>4, <2>4, <2>7
  <2>8. CASE c \notin DOMAIN calls
    <3>1. calls'[c].task = Current
      BY <2>3, <2>8
    <3>2. Current.cycle # 0 => /\ Current.cycle \in spent
                               /\ Current.agent >= requests[Current.cycle].target
      BY <2>5, <2>6
    <3>3. Allowed(c)'
      BY <1>3, <2>5, <3>1, <3>2
    <3> QED
      BY <2>4, <3>3
  <2> QED
    BY <2>7, <2>8
<1>6. CASE Answered /\ calls' # calls
  <2>1. calls \in Seq(Call) /\ run.call \in DOMAIN calls /\ calls[run.call].task.agent = run.at
    <3>1. pc = "waiting"
      BY <1>6 DEF Answered
    <3>2. Paid
      BY <3>1 DEF IInv, CommandInv
    <3> QED
      BY <3>2 DEF Paid, Current, TaskOf, IInv, TypeInv
  <2>2. PICK k \in AnswersTo(run.at) :
        \E g \in IF k = "revision_required" THEN Specialist ELSE {0} :
          calls' = [calls EXCEPT ![run.call].answer = k, ![run.call].target = g]
    BY <1>6 DEF Answered
  <2>3. PICK g \in IF k = "revision_required" THEN Specialist ELSE {0} :
          calls' = [calls EXCEPT ![run.call].answer = k, ![run.call].target = g]
    BY <2>2
  <2>4. DOMAIN calls' = DOMAIN calls /\ (c # run.call => calls'[c] = calls[c])
    BY <2>3
  <2>5. calls[run.call] \in Call
    BY <2>1, Numbered DEF IInv
  <2>6. calls'[run.call].answer = k /\ calls'[run.call].target = g
        /\ calls'[run.call].task = calls[run.call].task
    BY <2>1, <2>3, <2>5 DEF Call
  <2>7. Fine(c)'
    <3>1. CASE c = run.call
      BY <2>1, <2>3, <2>6, <3>1
    <3>2. CASE c # run.call
      BY <1>2, <2>4, <3>2
    <3> QED
      BY <3>1, <3>2
  <2> HIDE DEF Fine, Allowed
  <2> QED
    BY <1>4, <2>4, <2>7
<1>7. CASE UNCHANGED calls
  <2>1. c \in DOMAIN calls /\ Fine(c)'
    BY <1>2, <1>7
  <2> HIDE DEF Allowed, Fine
  <2> QED
    BY <1>4, <2>1
<1> HIDE DEF Fine, Allowed
<1> QED
  BY <1>5, <1>6, <1>7
     DEF Next, Step, vars, store, Begin, Dispatch, Poll, ReservationBlocks, RespondError,
     RespondResult, RespondReview, Finalize, Approve, HandOff, HandOffFails, Complete,
     ReviewBlocked, Plan, SavePlan, StopForOperator, Adopt, Authorize, Budget, Exhausted,
     Consume, Invalidate, Resume, LocalRefusal, Recover, Revise, ProviderRetry, Crash,
     UpstreamRequest

-----------------------------------------------------------------------------
(* The saved state and the copy of the command.                              *)

\* A line whose completed agents are known has the artifacts of just those.
LEMMA LineIs ==
  ASSUME NEW s \in State, NEW k \in 0 .. Last, Line(s), s.completed = 1 .. k
  PROVE  Upto(s, k)
<1>1. PICK j \in 0 .. Last : Upto(s, j)
  BY DEF Line
<1>2. 1 .. j = 1 .. k
  BY <1>1 DEF Upto
<1>3. j = k
  <2>1. j > k => j \in 1 .. j /\ j \notin 1 .. k
    BY AgentAssumption
  <2>2. k > j => k \in 1 .. k /\ k \notin 1 .. j
    BY AgentAssumption
  <2> QED
    BY <1>2, <2>1, <2>2, AgentAssumption
<1> QED
  BY <1>1, <1>3

\* The result of an agent is the next checkpoint.
LEMMA GoodResult ==
  ASSUME IInv, pc = "respond", run.kind = "result"
  PROVE  LET s == [mem EXCEPT !.art[run.at] = run.call, !.completed = @ \union {run.at},
                              !.status = "RUNNING"]
         IN Good(s, calls, requests, spent)
<1> DEFINE s == [mem EXCEPT !.art[run.at] = run.call, !.completed = @ \union {run.at},
                            !.status = "RUNNING"]
<1>1. /\ mem \in State /\ Good(mem, calls, requests, spent)
      /\ run.at \in Specialist /\ run.call # 0
      /\ mem.completed = 1 .. run.at - 1 /\ run.cycle = ActiveCycle(mem)
      /\ run.call \in DOMAIN calls /\ calls[run.call].task = Current
      /\ calls[run.call].input = Input(mem, run.at) /\ calls[run.call].answer = "result"
  <2>1. Paid /\ calls[run.call].answer = run.kind
    BY DEF IInv, CommandInv
  <2> QED
    BY <2>1, WhoAnswered DEF IInv, TypeInv, StatesInv, CommandInv, Paid, Walking
<1>2. /\ s.completed = mem.completed \union {run.at}
      /\ s.art = [mem.art EXCEPT ![run.at] = run.call]
      /\ s.phase = mem.phase /\ s.active = mem.active
      /\ mem.art \in [Specialist -> Nat]
  BY <1>1 DEF State
<1> HIDE DEF s
<1>3. /\ s.art[run.at] = run.call
      /\ \A a \in Specialist : a # run.at => s.art[a] = mem.art[a]
  BY <1>1, <1>2
<1>4. /\ Last \in Nat /\ Last >= 2 /\ Specialist = 1 .. Last - 1
      /\ run.at \in Nat /\ 1 <= run.at /\ run.at <= Last - 1
  BY <1>1, AgentAssumption DEF Specialist
<1>5. Upto(mem, run.at - 1)
  BY <1>1, <1>4, LineIs DEF Good
<1>6. Line(s)
  <2>1. s.completed = 1 .. run.at
    BY <1>1, <1>2, <1>4
  <2>2. ASSUME NEW a \in Specialist PROVE s.art[a] # 0 <=> a <= run.at
    <3>1. a = run.at \/ (a # run.at /\ (a <= run.at <=> a <= run.at - 1))
      BY <1>4
    <3> QED
      BY <1>1, <1>3, <1>4, <1>5, <3>1 DEF Upto
  <2>3. run.at \in 0 .. Last
    BY <1>4
  <2> QED
    BY <2>1, <2>2, <2>3 DEF Line, Upto
<1>7. ASSUME NEW a \in Specialist, s.art[a] # 0 PROVE Made(s, a, calls)
  <2>1. a <= run.at
    <3>1. a # run.at => mem.art[a] # 0
      BY <1>3, <1>7
    <3> QED
      BY <1>4, <1>5, <3>1 DEF Upto
  <2>2. Input(s, a) = Input(mem, a)
    <3>1. a # 1 => a - 1 \in Specialist /\ a - 1 # run.at
      BY <1>4, <2>1
    <3>2. a # 1 => s.art[a - 1] = mem.art[a - 1]
      BY <1>3, <3>1
    <3> QED
      BY <3>2 DEF Input
  <2>3. CASE a = run.at
    BY <1>1, <1>3, <2>2, <2>3 DEF Made, Current, TaskOf
  <2>4. CASE a # run.at
    BY <1>1, <1>3, <1>7, <2>2, <2>4 DEF Made, Good
  <2> QED
    BY <2>3, <2>4
<1>8. s.phase # "idle" => s.active \in DOMAIN requests
  BY <1>1, <1>2 DEF Good
<1>9. Executing(s, calls, requests, spent)
  <2> SUFFICES ASSUME s.phase = "executing"
               PROVE  /\ s.active \in spent
                      /\ \A a \in Agent : a < requests[s.active].target => a \in s.completed
                      /\ \A a \in Specialist :
                           s.art[a] # 0 /\ a >= requests[s.active].target
                             => calls[s.art[a]].task.cycle = s.active
    BY DEF Executing
  <2>1. /\ mem.active \in spent
        /\ \A a \in Agent : a < requests[mem.active].target => a \in mem.completed
        /\ \A a \in Specialist :
             mem.art[a] # 0 /\ a >= requests[mem.active].target
               => calls[mem.art[a]].task.cycle = mem.active
    BY <1>1, <1>2 DEF Good, Executing
  <2>2. calls[run.call].task.cycle = mem.active
    BY <1>1, <1>2 DEF Current, TaskOf, ActiveCycle
  <2> QED
    BY <1>2, <1>3, <2>1, <2>2
<1> QED
  BY <1>6, <1>7, <1>8, <1>9 DEF Good, s

\* An approved review completes the line.
LEMMA GoodApproval ==
  ASSUME IInv, pc = "decided"
  PROVE  LET s == [mem EXCEPT !.completed = @ \union {Last}, !.status = "APPROVED"]
         IN Good(s, calls, requests, spent)
<1> DEFINE s == [mem EXCEPT !.completed = @ \union {Last}, !.status = "APPROVED"]
<1>1. /\ mem \in State /\ Good(mem, calls, requests, spent)
      /\ mem.completed = 1 .. Last - 1
  BY WhoAnswered DEF IInv, TypeInv, StatesInv, CommandInv
<1>2. /\ s.completed = mem.completed \union {Last} /\ s.art = mem.art
      /\ s.phase = mem.phase /\ s.active = mem.active
  BY <1>1 DEF State
<1> HIDE DEF s
<1>3. Last \in Nat /\ Last >= 2 /\ Specialist = 1 .. Last - 1
  BY AgentAssumption DEF Specialist
<1>4. Upto(mem, Last - 1)
  BY <1>1, <1>3, LineIs DEF Good
<1>5. Upto(s, Last)
  <2>1. s.completed = 1 .. Last
    BY <1>1, <1>2, <1>3
  <2>2. \A a \in Specialist : s.art[a] # 0 <=> a <= Last
    BY <1>2, <1>3, <1>4 DEF Upto
  <2> QED
    BY <2>1, <2>2 DEF Upto
<1>6. Line(s)
  BY <1>3, <1>5 DEF Line
<1>7. \A a \in Specialist : s.art[a] # 0 => Made(s, a, calls)
  BY <1>1, <1>2 DEF Good, Made, Input
<1> QED
  BY <1>1, <1>2, <1>6, <1>7 DEF Good, Executing, s

\* A revision keeps what is before its target, and has nothing of its own yet.
LEMMA GoodInvalidation ==
  ASSUME IInv, pc = "invalidate", NEW s \in State,
         s.phase = "executing", s.active = mem.active,
         s.completed = mem.completed \cap Kept(requests[mem.active].target),
         s.art = [a \in Specialist |->
                    IF a \in Kept(requests[mem.active].target) THEN mem.art[a] ELSE 0]
  PROVE  /\ Good(s, calls, requests, spent)
         /\ s.completed = 1 .. requests[mem.active].target - 1
<1> DEFINE g == requests[mem.active].target
<1>1. /\ mem \in State /\ Good(mem, calls, requests, spent)
      /\ mem.active \in DOMAIN requests /\ mem.active \in spent
      /\ mem.art[Planner] # 0
  BY DEF IInv, TypeInv, StatesInv, CommandInv, Revising, UpToDate
<1>2. Last \in Nat /\ Last >= 2 /\ Specialist = 1 .. Last - 1 /\ Agent = 1 .. Last
      /\ Planner = Last - 1
  BY AgentAssumption DEF Specialist, Agent, Planner
<1>3. g \in 1 .. Last - 1
  BY <1>1, <1>2, Numbered DEF IInv, Request
<1>4. PICK k \in 0 .. Last : Upto(mem, k)
  BY <1>1 DEF Good, Line
<1>5. k >= Last - 1
  BY <1>1, <1>2, <1>4 DEF Upto
<1>6. s.completed = mem.completed \cap (1 .. g - 1)
      /\ \A a \in Specialist : s.art[a] = IF a \in 1 .. g - 1 THEN mem.art[a] ELSE 0
  BY DEF Kept
<1> HIDE DEF g
<1>7. s.completed = 1 .. g - 1
  BY <1>2, <1>3, <1>4, <1>5, <1>6 DEF Upto
<1>8. Upto(s, g - 1)
  <2>1. ASSUME NEW a \in Specialist PROVE s.art[a] # 0 <=> a <= g - 1
    <3>1. mem.art[a] # 0
      BY <1>2, <1>4, <1>5 DEF Upto
    <3>2. a \in 1 .. g - 1 <=> a <= g - 1
      BY <1>2, <1>3
    <3> QED
      BY <1>6, <3>1, <3>2
  <2> QED
    BY <1>7, <2>1 DEF Upto
<1>9. Line(s)
  BY <1>2, <1>3, <1>8 DEF Line
<1>10. ASSUME NEW a \in Specialist, s.art[a] # 0 PROVE Made(s, a, calls)
  <2>1. a \in 1 .. g - 1 /\ s.art[a] = mem.art[a]
    BY <1>6, <1>10
  <2>2. a # 1 => s.art[a - 1] = mem.art[a - 1]
    BY <1>2, <1>3, <1>6, <2>1
  <2> QED
    BY <1>1, <1>10, <2>1, <2>2 DEF Good, Made, Input
<1>11. Executing(s, calls, requests, spent)
  <2>1. \A a \in Agent : a < g => a \in s.completed
    BY <1>2, <1>3, <1>7
  <2>2. \A a \in Specialist : a >= g => s.art[a] = 0
    BY <1>2, <1>3, <1>6
  <2> QED
    BY <1>1, <2>1, <2>2 DEF Executing, g
<1> QED
  BY <1>1, <1>7, <1>9, <1>10, <1>11 DEF Good, g

\* Every step leaves both states Good.
LEMMA StatesStep == IInv /\ [Next]_vars => StatesInv'
<1> SUFFICES ASSUME IInv, [Next]_vars PROVE StatesInv'
  OBVIOUS
<1> USE DEF Save, Refuse, Failed, End
<1> DEFINE Fits(s) == Good(s, calls, requests, spent)
<1>1. /\ Grown /\ disk' \in State /\ mem' \in State
      /\ disk \in State /\ mem \in State /\ Fits(disk) /\ Fits(mem)
  BY FilesGrow, StatesTyped DEF IInv, TypeInv, StatesInv
<1>2. ASSUME Fits(disk'), Fits(mem') PROVE StatesInv'
  <2>1. /\ Later(calls, calls') /\ spent \subseteq spent'
        /\ \A r \in DOMAIN requests : r \in DOMAIN requests' /\ requests'[r] = requests[r]
    BY <1>1 DEF Grown
  <2>2. ASSUME NEW s \in State, Fits(s)
        PROVE  Good(s, calls', requests', spent')
    BY <2>1, <2>2, GoodStays
  <2> HIDE DEF Fits
  <2> QED
    BY <1>1, <1>2, <2>2 DEF StatesInv
<1>3. ASSUME NEW s, NEW t, Fits(s), t.completed = s.completed, t.art = s.art,
             \/ t.phase = s.phase /\ t.active = s.active
             \/ t.phase # "executing" /\ t.active \in DOMAIN requests
      PROVE  Fits(t)
  BY <1>3, GoodAlike
<1>4. \A s \in State : /\ \A st : LET t == [s EXCEPT !.status = st]
                                  IN /\ t.completed = s.completed /\ t.art = s.art
                                     /\ t.phase = s.phase /\ t.active = s.active
                       /\ DOMAIN s = {"status", "completed", "art", "phase", "active",
                                      "consumed", "error"}
  BY DEF State
<1> HIDE DEF Fits
<1>5. CASE UNCHANGED <<disk, mem>> \/ Resume \/ SavePlan \/ Adopt \/ Authorize \/ Crash
           \/ Budget
  BY <1>1, <1>2, <1>5 DEF Resume, SavePlan, Adopt, Authorize, Crash, Budget
<1>6. CASE Begin \/ Dispatch \/ HandOffFails \/ Complete \/ ReviewBlocked
  <2>1. PICK st : disk' = [mem EXCEPT !.status = st] /\ mem' = disk'
    BY <1>6 DEF Begin, Dispatch, HandOffFails, Complete, ReviewBlocked
  <2> QED
    BY <1>1, <1>2, <1>3, <1>4, <2>1
<1>7. CASE StopForOperator \/ Exhausted
  <2>1. PICK ph \in {"authorization_required", "blocked"} :
          disk' = [mem EXCEPT !.phase = ph, !.status = "BLOCKED"] /\ mem' = disk'
    BY <1>7 DEF StopForOperator, Exhausted
  <2>2. mem.active \in DOMAIN requests
    BY <1>7 DEF StopForOperator, Exhausted, IInv, CommandInv, Revising
  <2>3. disk'.completed = mem.completed /\ disk'.art = mem.art /\ disk'.phase = ph
        /\ disk'.active = mem.active
    BY <1>1, <1>4, <2>1
  <2> QED
    BY <1>1, <1>2, <1>3, <2>1, <2>2, <2>3
<1>8. CASE Approve
  <2>1. Fits([mem EXCEPT !.completed = @ \union {Last}, !.status = "APPROVED"])
    BY <1>8, GoodApproval DEF Approve, Fits
  <2> QED
    BY <1>2, <1>8, <2>1 DEF Approve
<1>9. CASE Plan
  <2> DEFINE r == Len(requests) + 1
  <2>1. mem' = [mem EXCEPT !.phase = "planned", !.active = r] /\ disk' = disk
        /\ calls' = calls /\ spent' = spent
    BY <1>9 DEF Plan, store
  <2>2. r \in DOMAIN requests'
    <3>1. requests \in Seq(Request) /\ \E x : requests' = Append(requests, x)
      BY <1>9 DEF Plan, IInv, TypeInv
    <3> QED
      BY <3>1
  <2> HIDE DEF r
  <2>3. mem'.completed = mem.completed /\ mem'.art = mem.art /\ mem'.phase = "planned"
        /\ mem'.active = r
    BY <1>1, <1>4, <2>1
  <2>4. \A q \in DOMAIN requests : q \in DOMAIN requests' /\ requests'[q] = requests[q]
    BY <1>1 DEF Grown
  <2>5. Later(calls, calls') /\ spent \subseteq spent'
    BY <2>1 DEF Later
  <2>6. Good(mem, calls', requests', spent') /\ Good(disk, calls', requests', spent')
    BY <1>1, <2>4, <2>5, GoodStays DEF Fits
  <2>7. Good(mem', calls', requests', spent')
    BY <2>2, <2>3, <2>6, GoodAlike
  <2> QED
    BY <2>1, <2>6, <2>7 DEF StatesInv
<1>10. CASE Finalize
  <2>1. CASE UNCHANGED disk /\ mem' \in {mem, disk}
    BY <1>1, <1>2, <2>1
  <2>2. CASE /\ mem.phase = "executing" /\ disk' = disk
             /\ mem' = [mem EXCEPT !.phase = "completed",
                                   !.consumed = @ \union {mem.active}]
    <3>1. mem.active \in DOMAIN requests
      BY <1>1, <2>2 DEF Fits, Good
    <3>2. mem'.completed = mem.completed /\ mem'.art = mem.art
          /\ mem'.phase = "completed" /\ mem'.active = mem.active
      BY <1>1, <1>4, <2>2
    <3>3. Fits(mem')
      BY <1>1, <1>3, <3>1, <3>2
    <3> QED
      BY <1>1, <1>2, <2>2, <3>3
  <2> QED
    BY <1>10, <2>1, <2>2 DEF Finalize
<1>11. ASSUME NEW b \in BOOLEAN, NEW o \in Operator, Revise(b, o)
       PROVE  StatesInv'
  <2>1. CASE UNCHANGED disk /\ mem' \in {mem, disk}
    BY <1>1, <1>2, <2>1
  <2>2. ASSUME NEW r \in Pending, UNCHANGED disk,
               mem' = [disk EXCEPT !.phase = "authorization_required",
                                   !.status = "BLOCKED", !.active = r]
        PROVE  StatesInv'
    <3>1. r \in DOMAIN requests
      BY DEF Pending
    <3>2. mem'.completed = disk.completed /\ mem'.art = disk.art
          /\ mem'.phase = "authorization_required" /\ mem'.active = r
      BY <1>1, <1>4, <2>2
    <3>3. Fits(mem')
      BY <1>1, <1>3, <3>1, <3>2
    <3> QED
      BY <1>1, <1>2, <2>2, <3>3
  <2> QED
    BY <1>11, <2>1, <2>2 DEF Revise
<1>12. CASE RespondError
  <2>1. PICK e : disk' = [[mem EXCEPT !.error[run.at] = e] EXCEPT !.status = "FAILED"]
                 /\ mem' = disk'
    BY <1>12 DEF RespondError
  <2>2. disk'.completed = mem.completed /\ disk'.art = mem.art
        /\ disk'.phase = mem.phase /\ disk'.active = mem.active
    BY <1>1, <1>4, <2>1
  <2> QED
    BY <1>1, <1>2, <1>3, <2>1, <2>2
<1>13. CASE RespondResult
  <2>1. Fits([mem EXCEPT !.art[run.at] = run.call, !.completed = @ \union {run.at},
                         !.status = "RUNNING"])
    BY <1>13, GoodResult DEF RespondResult, Fits
  <2> QED
    BY <1>2, <1>13, <2>1 DEF RespondResult
<1>14. CASE Invalidate
  <2>1. /\ mem'.phase = "executing" /\ mem'.active = mem.active /\ disk' = mem'
        /\ mem'.completed = mem.completed \cap Kept(requests[mem.active].target)
        /\ mem'.art = [a \in Specialist |->
              IF a \in Kept(requests[mem.active].target) THEN mem.art[a] ELSE 0]
    BY <1>1, <1>4, <1>14 DEF Invalidate
  <2>2. pc = "invalidate"
    BY <1>14 DEF Invalidate
  <2>3. Fits(mem')
    BY <1>1, <2>1, <2>2, GoodInvalidation DEF Fits
  <2> QED
    BY <1>2, <2>1, <2>3
<1> QED
  BY <1>5, <1>6, <1>7, <1>8, <1>9, <1>10, <1>11, <1>12, <1>13, <1>14
     DEF Next, Step, vars, Send, Poll, ReservationBlocks, Answered, RespondReview,
     HandOff, Consume, LocalRefusal, Recover, ProviderRetry, UpstreamRequest

-----------------------------------------------------------------------------
(* The command.                                                              *)

\* Between two commands there is nothing to know.
LEMMA Ended == pc' \in {"idle", "recover"} /\ mem' = disk' => CommandInv'
BY DEF CommandInv, Walking, Revising

\* Around a call: what comes back belongs to the task the command is at.
LEMMA CommandStepCall ==
  ASSUME IInv, [Next]_vars,
         Send \/ Poll \/ Answered \/ LocalRefusal \/ ReservationBlocks
  PROVE  CommandInv'
<1> USE DEF Goto, Replied
<1>1. /\ pc \in {"execute", "waiting"} /\ UNCHANGED <<disk, mem>>
      /\ mem = disk /\ mem.completed = 1 .. run.at - 1 /\ run.cycle = ActiveCycle(mem)
      /\ run'.at = run.at /\ run'.cycle = run.cycle /\ run'.retryAt = run.retryAt
      /\ run \in Run
  BY DEF IInv, TypeInv, Run, CommandInv, Walking, Send, Poll, Answered, LocalRefusal,
     ReservationBlocks
<1>2. \/ /\ pc' = "waiting"
         /\ Paid'
      \/ /\ pc' = "respond"
         /\ run'.kind \in Verdict \union {"result"}
              => Paid' /\ calls'[run'.call].answer = run'.kind
  <2>1. CASE Send
    <3>1. calls \in Seq(Call) /\ Len(calls) \in Nat
      BY Numbered DEF IInv, TypeInv
    <3>2. Len(calls) + 1 \in DOMAIN calls' /\ calls'[Len(calls) + 1].task = Current
          /\ calls'[Len(calls) + 1].input = Input(mem, run.at)
      BY <2>1, <3>1 DEF Send, Current, TaskOf
    <3>3. CASE pc' = "waiting" /\ run' = [run EXCEPT !.call = Len(calls) + 1]
      <4>1. run'.call = Len(calls) + 1
        BY <1>1, <3>3 DEF Run
      <4> QED
        BY <1>1, <3>2, <3>3, <4>1 DEF Paid, Current, Input
    <3>4. CASE pc' = "respond" /\ run' = [run EXCEPT !.kind = "error"]
      BY <1>1, <3>4 DEF Run, Verdict
    <3> QED
      BY <2>1, <3>3, <3>4 DEF Send
  <2>2. CASE Poll
    <3>1. PICK c \in CallsOf(Current) :
            SameInput(c, run.at) /\ run' = [run EXCEPT !.call = c]
      BY <2>2 DEF Poll
    <3>2. run'.call = c /\ pc' = "waiting" /\ calls' = calls
      BY <1>1, <2>2, <3>1 DEF Poll, Run, store
    <3> QED
      BY <1>1, <3>1, <3>2 DEF Paid, Current, CallsOf, SameInput, Input
  <2>3. CASE Answered
    <3>1. /\ calls \in Seq(Call) /\ pc' = "respond" /\ run.call \in DOMAIN calls
          /\ calls[run.call].task = Current /\ calls[run.call].input = Input(mem, run.at)
      <4>1. pc = "waiting" /\ pc' = "respond"
        BY <2>3 DEF Answered
      <4>2. Paid
        BY <4>1 DEF IInv, CommandInv
      <4> QED
        BY <4>1, <4>2 DEF Paid, IInv, TypeInv
    <3>2. run'.call = run.call
      BY <1>1, <2>3 DEF Answered, Run
    <3>3. Later(calls, calls')
      BY FilesGrow DEF IInv, Grown
    <3>4. Paid'
      BY <1>1, <3>1, <3>2, <3>3 DEF Paid, Later, Current, Input
    <3>5. CASE run' = [run EXCEPT !.kind = "error"]
      BY <1>1, <3>1, <3>5 DEF Run, Verdict
    <3>6. CASE run' = [run EXCEPT !.kind = calls[run.call].answer] /\ calls' = calls
      <4>1. run'.kind = calls[run.call].answer
        BY <1>1, <3>6 DEF Run
      <4> QED
        BY <3>1, <3>2, <3>4, <3>6, <4>1
    <3>7. ASSUME NEW k, NEW g, run' = [run EXCEPT !.kind = k],
                 calls' = [calls EXCEPT ![run.call].answer = k, ![run.call].target = g]
          PROVE  calls'[run'.call].answer = run'.kind
      <4>1. calls[run.call] \in Call
        BY <3>1, Numbered DEF IInv
      <4>2. calls'[run.call] = [calls[run.call] EXCEPT !.answer = k, !.target = g]
        BY <3>1, <3>7
      <4>3. calls'[run.call].answer = k
        BY <4>1, <4>2 DEF Call
      <4>4. run'.kind = k
        BY <1>1, <3>7 DEF Run
      <4> QED
        BY <3>2, <4>3, <4>4
    <3> QED
      BY <2>3, <3>1, <3>4, <3>5, <3>6, <3>7 DEF Answered
  <2>4. CASE LocalRefusal \/ ReservationBlocks
    <3>1. run' = [run EXCEPT !.kind = "error"] /\ pc' = "respond"
      BY <2>4 DEF LocalRefusal, ReservationBlocks
    <3> QED
      BY <1>1, <3>1 DEF Run, Verdict
  <2> QED
    BY <2>1, <2>2, <2>3, <2>4
<1>3. pc' \in {"waiting", "respond"}
  BY <1>2
<1> QED
  BY <1>1, <1>2, <1>3 DEF CommandInv, Walking, Revising, ActiveCycle

\* From agent to agent, through the review to the handoff.
LEMMA CommandStepWalk ==
  ASSUME IInv, [Next]_vars,
         Begin \/ Dispatch \/ RespondResult \/ RespondReview \/ Finalize \/ Approve \/ HandOff
  PROVE  CommandInv'
<1> USE DEF Goto, Save, End, Refuse
<1>1. /\ mem \in State /\ run \in Run /\ CommandInv
      /\ pc \in {"begin", "dispatch", "respond", "review"} =>
           /\ mem = disk /\ mem.completed = 1 .. run.at - 1 /\ run.cycle = ActiveCycle(mem)
  BY DEF IInv, TypeInv, CommandInv, Walking
<1>2. CASE Begin \/ Dispatch
  <2>1. PICK st : mem' = [mem EXCEPT !.status = st] /\ disk' = mem'
    BY <1>2 DEF Begin, Dispatch
  <2>2. mem'.completed = mem.completed /\ mem'.phase = mem.phase /\ mem'.active = mem.active
    BY <1>1, <2>1 DEF State
  <2>3. run' = run /\ pc' \in {"dispatch", "execute"} /\ pc \in {"begin", "dispatch"}
    BY <1>2 DEF Begin, Dispatch
  <2> QED
    BY <1>1, <2>1, <2>2, <2>3 DEF CommandInv, Walking, Revising, ActiveCycle
<1>3. CASE RespondResult
  <2>1. run.at \in Specialist /\ pc = "respond"
    BY <1>3, WhoAnswered DEF RespondResult
  <2>2. disk' = mem' /\ mem' = [mem EXCEPT !.art[run.at] = run.call,
                                           !.completed = @ \union {run.at},
                                           !.status = "RUNNING"]
    BY <1>3 DEF RespondResult
  <2>3. mem'.completed = mem.completed \union {run.at} /\ mem'.phase = mem.phase
        /\ mem'.active = mem.active
    BY <1>1, <2>2 DEF State
  <2>4. CASE pc' = "idle"
    BY <2>2, <2>4, Ended
  <2>5. CASE pc' = "dispatch"
            /\ run' = [run EXCEPT !.at = @ + 1, !.call = 0, !.kind = "open"]
    <3>1. run'.at = run.at + 1 /\ run'.cycle = run.cycle
      BY <1>1, <2>5 DEF Run
    <3>2. mem'.completed = 1 .. run'.at - 1
      BY <1>1, <2>1, <2>3, <3>1, AgentAssumption DEF Specialist
    <3> QED
      BY <1>1, <2>1, <2>2, <2>3, <2>5, <3>1, <3>2
         DEF CommandInv, Walking, Revising, ActiveCycle
  <2> QED
    BY <1>3, <2>4, <2>5 DEF RespondResult
<1>4. CASE RespondReview
  <2>1. Paid /\ calls[run.call].answer = run.kind /\ run.kind \in Verdict
    BY <1>1, <1>4 DEF RespondReview, CommandInv
  <2>2. UNCHANGED <<disk, mem, run, calls>> /\ pc = "respond" /\ pc' = "review"
    BY <1>4 DEF RespondReview, store
  <2>3. Paid'
    BY <2>1, <2>2 DEF Paid, Current, Input
  <2> QED
    BY <1>1, <2>1, <2>2, <2>3 DEF CommandInv, Walking, Revising, ActiveCycle
<1>5. CASE Finalize
  <2>1. CASE pc' = "idle"
    BY <1>1, <1>5, <2>1, Ended DEF Finalize
  <2>2. CASE pc' = "decided"
    <3>1. Paid /\ calls[run.call].answer = run.kind /\ run.kind \in Verdict /\ pc = "review"
      BY <1>1, <1>5 DEF Finalize, CommandInv
    <3>2. UNCHANGED <<run, calls>> /\ mem'.completed = mem.completed /\ mem'.art = mem.art
      BY <1>1, <1>5, <2>2 DEF Finalize, store, State
    <3>3. Paid'
      BY <3>1, <3>2 DEF Paid, Current, Input
    <3> QED
      BY <1>1, <2>2, <3>1, <3>2, <3>3 DEF CommandInv, Walking, Revising
  <2> QED
    BY <1>5, <2>1, <2>2 DEF Finalize
<1>6. CASE Approve
  <2>1. pc = "decided" /\ pc' = "handoff" /\ mem' = disk' /\ calls' = calls
        /\ run.kind = "approved"
    BY <1>6 DEF Approve, store
  <2>2. mem'.art = mem.art
    BY <1>1, <1>6 DEF Approve, State
  <2>3. Paid /\ calls[run.call].answer = "approved" /\ run.at = Last
    BY <1>1, <2>1, WhoAnswered DEF CommandInv
  <2>4. Input(mem, Last) = mem.art[Planner]
    BY AgentAssumption DEF Input, Planner
  <2>5. Approved(mem.art[Planner])
    BY <2>3, <2>4 DEF Approved, Paid, Current, TaskOf
  <2>6. Approved(mem.art[Planner])'
    BY <2>1, <2>2, <2>5 DEF Approved
  <2> QED
    BY <2>1, <2>6 DEF CommandInv, Walking, Revising
<1>7. CASE HandOff
  BY <1>1, <1>7 DEF HandOff, CommandInv, Walking, Revising
<1> QED
  BY <1>2, <1>3, <1>4, <1>5, <1>6, <1>7

\* From a review or an operator to the first agent of a revision.
LEMMA CommandStepRevision ==
  ASSUME IInv, [Next]_vars,
         \/ Plan \/ SavePlan \/ Adopt \/ Authorize \/ Budget \/ Consume \/ Invalidate
         \/ \E b \in BOOLEAN, o \in Operator : Revise(b, o)
  PROVE  CommandInv'
<1> USE DEF Goto, Save, End, Refuse
<1>1. /\ mem \in State /\ disk \in State /\ run \in Run /\ CommandInv /\ Grown
      /\ mem' \in State
  BY FilesGrow, StatesTyped DEF IInv, TypeInv
<1>2. pc \in Revising => mem.active \in DOMAIN requests
  BY <1>1 DEF CommandInv
<1>3. \A r \in DOMAIN requests : r \in DOMAIN requests'
  BY <1>1 DEF Grown
<1>4. CASE Plan
  <2>1. pc' = "planned" /\ \E x : requests' = Append(requests, x)
        /\ mem' = [mem EXCEPT !.phase = "planned", !.active = Len(requests) + 1]
    BY <1>4 DEF Plan
  <2>2. mem'.active = Len(requests) + 1
    BY <1>1, <2>1 DEF State
  <2>3. Len(requests) + 1 \in DOMAIN requests'
    <3>1. requests \in Seq(Request)
      BY DEF IInv, TypeInv
    <3> QED
      BY <2>1, <3>1
  <2> QED
    BY <2>1, <2>2, <2>3 DEF CommandInv, Walking, Revising
<1>5. CASE SavePlan \/ Adopt
  <2>1. mem' = mem /\ disk' = mem /\ pc \in Revising /\ pc' \in {"stop", "authorize"}
        /\ requests' = requests
    BY <1>5 DEF SavePlan, Adopt, Revising, revision
  <2> QED
    BY <1>2, <2>1 DEF CommandInv, Walking, Revising
<1>6. CASE Authorize
  <2>1. CASE pc' = "idle"
    BY <1>1, <1>6, <2>1, Ended DEF Authorize
  <2>2. CASE pc' = "budget"
    <3>1. mem' = mem /\ disk' = mem /\ requests' = requests /\ pc \in Revising
          /\ grants' = grants \union {[request |-> mem.active, actor |-> run.actor]}
      BY <1>6, <2>2 DEF Authorize, Revising
    <3>2. Granted(mem.active)'
      <4> DEFINE x == [request |-> mem.active, actor |-> run.actor]
      <4>1. x.request = mem.active /\ x \in grants'
        BY <3>1
      <4> HIDE DEF x
      <4> QED
        BY <3>1, <4>1 DEF Granted
    <3> QED
      BY <1>2, <2>2, <3>1, <3>2 DEF CommandInv, Walking, Revising
  <2> QED
    BY <1>6, <2>1, <2>2 DEF Authorize
<1>7. CASE Budget
  <2>1. CASE pc' = "idle"
    BY <1>1, <1>7, <2>1, Ended DEF Budget
  <2>2. CASE pc' \in {"exhausted", "consume"}
    <3>1. UNCHANGED <<disk, mem, requests, grants>> /\ pc = "budget" /\ mem = disk
          /\ Granted(mem.active)
      BY <1>1, <1>7, <2>2 DEF Budget, CommandInv
    <3>2. pc' = "consume" => UpToDate(mem.active, mem)
                             /\ slots' = IF requests[mem.active].route = "internal"
                                         THEN slots \union {mem.active} ELSE slots
      BY <1>7 DEF Budget
    <3>3. pc' = "consume" => UpToDate(mem.active, mem)' /\ Budgeted(mem.active)'
      BY <3>1, <3>2 DEF UpToDate, Budgeted
    <3>4. Granted(mem.active)'
      BY <3>1 DEF Granted
    <3>5. mem.active \in DOMAIN requests
      BY <1>2, <3>1 DEF Revising
    <3> QED
      BY <2>2, <3>1, <3>3, <3>4, <3>5 DEF CommandInv, Walking, Revising
  <2> QED
    BY <1>7, <2>1, <2>2 DEF Budget
<1>8. CASE Consume
  <2>1. UNCHANGED <<disk, mem, requests, slots, grants>> /\ pc = "consume"
        /\ pc' = "invalidate" /\ mem.active \in spent'
    BY <1>8 DEF Consume
  <2>2. mem = disk /\ Granted(mem.active) /\ Budgeted(mem.active)
        /\ UpToDate(mem.active, mem) /\ mem.active \in DOMAIN requests
    BY <1>1, <2>1 DEF CommandInv, Revising
  <2> QED
    BY <2>1, <2>2 DEF CommandInv, Walking, Revising, Granted, Budgeted, UpToDate
<1>9. CASE Invalidate
  <2> DEFINE g == requests[mem.active].target
             K == Kept(g)
  <2>1. /\ pc = "invalidate" /\ pc' = "begin" /\ disk' = mem'
        /\ mem' = [mem EXCEPT !.phase = "executing", !.status = "REVISING",
                       !.completed = @ \cap K,
                       !.art = [a \in Specialist |-> IF a \in K THEN mem.art[a] ELSE 0]]
        /\ run' = [run EXCEPT !.at = g, !.cycle = mem.active, !.retryAt = 0,
                              !.stop = FALSE, !.call = 0, !.kind = "open"]
    BY <1>9 DEF Invalidate
  <2>2. mem'.phase = "executing" /\ mem'.active = mem.active
        /\ mem'.completed = mem.completed \cap K
        /\ mem'.art = [a \in Specialist |-> IF a \in K THEN mem.art[a] ELSE 0]
    BY <1>1, <2>1 DEF State
  <2>3. mem'.completed = 1 .. g - 1
    BY <1>1, <2>1, <2>2, GoodInvalidation
  <2>4. run'.at = g /\ run'.cycle = mem.active
    BY <1>1, <2>1 DEF Run
  <2> HIDE DEF g, K
  <2> QED
    BY <2>1, <2>2, <2>3, <2>4 DEF CommandInv, Walking, Revising, ActiveCycle
<1>10. ASSUME NEW b \in BOOLEAN, NEW o \in Operator, Revise(b, o) PROVE CommandInv'
  <2>1. pc = "idle" /\ mem = disk
    BY <1>1, <1>10 DEF Revise, CommandInv
  <2>2. CASE pc' = "idle"
    BY <1>10, <2>1, <2>2, Ended DEF Revise
  <2>3. CASE pc' = "authorize" /\ disk.phase = "authorization_required"
    <3>1. disk.active \in DOMAIN requests
      BY <2>3 DEF IInv, StatesInv, Good
    <3>2. UNCHANGED <<disk, mem, requests>>
      BY <1>10, <2>3 DEF Revise
    <3> QED
      BY <2>1, <2>3, <3>1, <3>2 DEF CommandInv, Walking, Revising
  <2>4. ASSUME NEW r \in Pending, pc' = "adopt", UNCHANGED requests,
               mem' = [disk EXCEPT !.phase = "authorization_required",
                                   !.status = "BLOCKED", !.active = r]
        PROVE  CommandInv'
    <3>1. mem'.active = r /\ r \in DOMAIN requests'
      BY <1>1, <2>4 DEF State, Pending
    <3> QED
      BY <2>4, <3>1 DEF CommandInv, Walking, Revising
  <2> QED
    BY <1>10, <2>2, <2>3, <2>4 DEF Revise
<1> QED
  BY <1>4, <1>5, <1>6, <1>7, <1>8, <1>9, <1>10

\* Wherever a command goes, it knows what CommandInv says.
LEMMA CommandStep == IInv /\ [Next]_vars => CommandInv'
<1> SUFFICES ASSUME IInv, [Next]_vars PROVE CommandInv'
  OBVIOUS
<1> USE DEF Goto, Save, End, Refuse, Failed
<1>1. /\ disk \in State /\ mem \in State /\ run \in Run /\ CommandInv /\ Grown
      /\ Good(disk, calls, requests, spent)
      /\ pc \in {"idle", "recover", "handoff", "sent"} => mem = disk
  BY FilesGrow DEF IInv, TypeInv, StatesInv, CommandInv
<1>2. CASE RespondError \/ HandOffFails \/ Complete \/ ReviewBlocked \/ StopForOperator
           \/ Exhausted \/ Crash
  <2>1. pc' = "idle" /\ mem' = disk'
    BY <1>2 DEF RespondError, HandOffFails, Complete, ReviewBlocked, StopForOperator,
       Exhausted, Crash
  <2> QED
    BY <2>1, Ended
<1>3. CASE ProviderRetry \/ \E b \in BOOLEAN : Recover(b)
  <2>1. pc' = "recover" /\ mem' = disk'
    BY <1>1, <1>3 DEF ProviderRetry, Recover
  <2> QED
    BY <2>1, Ended
<1>4. CASE Resume
  <2> DEFINE a == FirstIncomplete(disk)
             r == ActiveCycle(disk)
  <2>1. CASE pc' = "idle"
    BY <1>1, <1>4, <2>1, Ended DEF Resume
  <2>2. ASSUME NEW x \in {0, a}, pc' = "begin", mem' = disk, disk' = disk,
               run' = [run EXCEPT !.at = a, !.cycle = r, !.retryAt = x]
        PROVE  CommandInv'
    <3>1. PICK k \in 0 .. Last : disk.completed = 1 .. k
      BY <1>1 DEF Good, Line, Upto
    <3>2. Cardinality(disk.completed) = k
      BY <3>1, FS_Interval, AgentAssumption
    <3>3. a - 1 = k
      BY <3>2, AgentAssumption DEF FirstIncomplete
    <3> HIDE DEF a, r
    <3>4. run'.at = a /\ run'.cycle = r
      BY <1>1, <2>2 DEF Run
    <3>5. disk'.completed = 1 .. run'.at - 1
      BY <2>2, <3>1, <3>3, <3>4
    <3> QED
      BY <2>2, <3>4, <3>5 DEF CommandInv, Walking, Revising, ActiveCycle, r
  <2>3. pc' = "idle" \/ \E x \in {0, a} :
          /\ pc' = "begin" /\ mem' = disk /\ disk' = disk
          /\ run' = [run EXCEPT !.at = a, !.cycle = r, !.retryAt = x]
    BY <1>4 DEF Resume
  <2> HIDE DEF a, r
  <2> QED
    BY <2>1, <2>2, <2>3
<1>5. CASE UpstreamRequest \/ UNCHANGED vars
  <2>1. UNCHANGED <<disk, mem, pc, run, calls, slots, grants, spent>>
    BY <1>5 DEF UpstreamRequest, vars, store, revision
  <2>2. \A q \in DOMAIN requests : q \in DOMAIN requests' /\ requests'[q] = requests[q]
    BY <1>1 DEF Grown
  <2>3. pc' \in Revising => mem'.active \in DOMAIN requests'
                            /\ requests'[mem.active] = requests[mem.active]
    BY <1>1, <2>1, <2>2 DEF CommandInv
  <2>4. ASSUME pc \in {"waiting", "respond", "review", "decided"}, Paid PROVE Paid'
    BY <2>1, <2>4 DEF Paid, Current, Input
  <2>5. pc \in {"budget", "exhausted", "consume", "invalidate"} => Granted(mem.active)'
    BY <1>1, <2>1 DEF CommandInv, Granted
  <2>6. pc \in {"consume", "invalidate"} => (UpToDate(mem.active, mem) /\ Budgeted(mem.active))'
    BY <1>1, <2>1, <2>3 DEF CommandInv, Revising, UpToDate, Budgeted
  <2>7. pc = "handoff" => Approved(mem.art[Planner])'
    BY <1>1, <2>1 DEF CommandInv, Approved
  <2> HIDE DEF Goto, Save, End, Refuse, Failed
  <2> QED
    BY <1>1, <2>1, <2>3, <2>4, <2>5, <2>6, <2>7 DEF CommandInv, ActiveCycle
<1> HIDE DEF Goto, Save, End, Refuse, Failed
<1> QED
  BY <1>2, <1>3, <1>4, <1>5, CommandStepCall, CommandStepWalk, CommandStepRevision
     DEF Next, Step

-----------------------------------------------------------------------------
(* What was handed over and what is reported.                                *)

\* A plan is handed over behind the review that approved it.
LEMMA HandedStep == IInv /\ [Next]_vars => HandoffWasApproved'
<1> SUFFICES ASSUME IInv, [Next]_vars, NEW p \in handed' PROVE Approved(p)'
  BY DEF HandoffWasApproved, Approved
<1>1. p \in handed \/ (HandOff /\ p = mem.art[Planner])
  <2>1. CASE HandOff
    BY <2>1 DEF HandOff
  <2>2. CASE UNCHANGED handed
    BY <2>2
  <2> QED
    BY <2>1, <2>2
       DEF Next, Step, vars, handoff, Begin, Dispatch, Send, Poll,
       ReservationBlocks, Answered, RespondError, RespondResult, RespondReview, Finalize,
       Approve, HandOffFails, Complete, ReviewBlocked, Plan, SavePlan,
       StopForOperator, Adopt, Authorize, Budget, Exhausted, Consume, Invalidate, Resume,
       LocalRefusal, Recover, Revise, ProviderRetry, Crash, UpstreamRequest
<1>2. Approved(p)
  BY <1>1 DEF IInv, HandoffWasApproved, Approved, CommandInv, HandOff
<1>3. Later(calls, calls')
  BY FilesGrow DEF IInv, Grown
<1> QED
  BY <1>2, <1>3 DEF Approved, Later

\* A result is filed by the review of the revision in execution.
LEMMA ResultsStep == IInv /\ [Next]_vars => ResultsInv'
<1> SUFFICES ASSUME IInv, [Next]_vars, NEW x \in results' PROVE Truthful(x)'
  BY DEF ResultsInv
<1> DEFINE new == [request |-> mem.active, status |-> Outcome(run.kind),
                   plan |-> mem.art[Planner]]
<1>1. x \in results \/ (Finalize /\ mem.phase = "executing" /\ x = new)
  <2>1. CASE Finalize
    BY <2>1 DEF Finalize
  <2>2. CASE UNCHANGED results
    BY <2>2
  <2> HIDE DEF new
  <2> QED
    BY <2>1, <2>2
       DEF Next, Step, vars, revision, Begin, Dispatch, Send, Poll,
       ReservationBlocks, Answered, RespondError, RespondResult, RespondReview,
       Approve, HandOff, HandOffFails, Complete, ReviewBlocked, Plan, SavePlan,
       StopForOperator, Adopt, Authorize, Budget, Exhausted, Consume, Invalidate, Resume,
       LocalRefusal, Recover, Revise, ProviderRetry, Crash, UpstreamRequest
<1>2. ASSUME Finalize, mem.phase = "executing", x = new
      PROVE  Truthful(x)
  <2>1. /\ pc = "review" /\ Paid /\ calls[run.call].answer = run.kind
        /\ run.kind \in Verdict /\ run.at = Last
        /\ run.cycle = mem.active /\ mem.completed = 1 .. run.at - 1
    BY <1>2, WhoAnswered DEF Finalize, IInv, CommandInv, Walking, ActiveCycle
  <2>2. /\ x.request = mem.active /\ x.plan = mem.art[Planner]
        /\ x.status = Outcome(run.kind)
    BY <1>2
  <2> HIDE DEF new
  <2>3. mem \in State /\ Line(mem) /\ mem.active \in DOMAIN requests
    BY <1>2 DEF IInv, TypeInv, StatesInv, Good
  <2>4. Upto(mem, Last - 1)
    BY <2>1, <2>3, LineIs, AgentAssumption
  <2>5. mem.art[Planner] # 0 /\ Made(mem, Planner, calls)
    <3>1. mem.art[Planner] # 0
      BY <2>4, PlannerIsOne, AgentAssumption DEF Upto, Planner
    <3> QED
      BY <3>1, PlannerIsOne DEF IInv, StatesInv, Good
  <2>6. calls[mem.art[Planner]].task.cycle = mem.active
    <3>1. Planner >= requests[mem.active].target
      BY <2>3, Numbered, AgentAssumption DEF IInv, Request, Planner, Specialist
    <3> QED
      BY <1>2, <2>5, <3>1, PlannerIsOne DEF IInv, StatesInv, Good, Executing
  <2>7. /\ run.call \in DOMAIN calls
        /\ calls[run.call].task.agent = Last /\ calls[run.call].task.cycle = mem.active
        /\ calls[run.call].input = mem.art[Planner]
    BY <2>1, AgentAssumption DEF Paid, Current, TaskOf, Input, Planner
  <2>8. x.status = "completed" <=> calls[run.call].answer = "approved"
    BY <2>1, <2>2 DEF Outcome
  <2> QED
    BY <2>1, <2>2, <2>5, <2>6, <2>7, <2>8 DEF Truthful, Made
<1>3. Truthful(x)
  BY <1>1, <1>2 DEF IInv, ResultsInv
<1>4. Later(calls, calls')
  BY FilesGrow DEF IInv, Grown
<1>5. PICK c \in DOMAIN calls : /\ calls[c].task.agent = Last
                                /\ calls[c].task.cycle = x.request
                                /\ calls[c].input = x.plan
                                /\ calls[c].answer \in Verdict
                                /\ x.status = "completed"
                                     <=> calls[c].answer = "approved"
  BY <1>3 DEF Truthful
<1>6. c \in DOMAIN calls' /\ calls'[c].task = calls[c].task
      /\ calls'[c].input = calls[c].input /\ calls'[c].answer = calls[c].answer
  BY <1>4, <1>5 DEF Later, Verdict
<1>7. x.plan # 0 /\ x.plan \in DOMAIN calls' /\ calls'[x.plan].task.cycle = x.request
  BY <1>3, <1>4 DEF Truthful, Later
<1> QED
  BY <1>5, <1>6, <1>7 DEF Truthful

-----------------------------------------------------------------------------
(* The theorems.                                                             *)

\* The invariant holds when start has saved the new workflow.
LEMMA InvariantInit == Init => IInv
<1> SUFFICES ASSUME Init PROVE IInv
  OBVIOUS
<1>1. /\ disk = Fresh /\ mem = Fresh /\ pc = "begin" /\ calls = <<>> /\ requests = <<>>
      /\ spent = {} /\ handed = {} /\ results = {}
  BY DEF Init
<1>2. run.at = 1 /\ run.cycle = 0
  <2>1. PICK b \in BOOLEAN : run = [NoRun EXCEPT !.safe = b]
    BY DEF Init
  <2> QED
    BY <2>1 DEF NoRun
<1>3. Fresh.phase = "idle" /\ Fresh.completed = {} /\ \A a \in Specialist : Fresh.art[a] = 0
  BY DEF Fresh
<1>4. Line(Fresh)
  <2>1. Fresh.completed = 1 .. 0 /\ \A a \in Specialist : ~ (a <= 0)
    BY <1>3 DEF Specialist
  <2>2. Upto(Fresh, 0)
    BY <1>3, <2>1 DEF Upto
  <2> QED
    BY <2>2, AgentAssumption DEF Line
<1>5. StatesInv
  BY <1>1, <1>3, <1>4 DEF StatesInv, Good, Executing
<1>6. CommandInv
  BY <1>1, <1>2, <1>3 DEF CommandInv, Walking, Revising, ActiveCycle
<1>7. CallsInv /\ SpentInv /\ HandoffWasApproved /\ ResultsInv
  BY <1>1 DEF CallsInv, RevisionCallsAreAuthorized, SpentInv, HandoffWasApproved, ResultsInv
<1> QED
  BY <1>5, <1>6, <1>7, TypeInit DEF IInv

\* Every step keeps the invariant.
LEMMA InvariantStep == IInv /\ [Next]_vars => IInv'
BY Typed, CallsStep, SpentStep, StatesStep, CommandStep, HandedStep, ResultsStep DEF IInv

\* The inductive invariant, for any line of agents, budget and history.
THEOREM ProducerInvariant == Spec => []IInv
BY InvariantInit, InvariantStep, PTL DEF Spec

\* After a crash anywhere, or a revision from any agent, what is saved is the work of
\* the first agents of the line, each made from the one saved before it.
THEOREM CheckpointsFit == Spec => []CheckpointsFitTogether
<1>1. ASSUME IInv PROVE CheckpointsFitTogether
  <2>1. PICK k \in 0 .. Last : Upto(disk, k)
    BY <1>1 DEF IInv, StatesInv, Good, Line
  <2>2. disk.completed = 1 .. k /\ \A a \in Specialist : disk.art[a] # 0 <=> a <= k
    BY <2>1 DEF Upto
  <2>3. Cardinality(disk.completed) = k
    BY <2>2, FS_Interval, AgentAssumption
  <2>4. \A a \in Specialist : a <= k <=> a \in disk.completed
    BY <2>2, AgentAssumption DEF Specialist
  <2>5. \A a \in Specialist : disk.art[a] # 0 => Made(disk, a, calls)
    BY <1>1 DEF IInv, StatesInv, Good
  <2> QED
    BY <2>2, <2>3, <2>4, <2>5 DEF CheckpointsFitTogether, Contiguous, Made
<1> QED
  BY <1>1, ProducerInvariant, PTL

\* No plan reaches the Researcher that a review has not approved as it is.
THEOREM HandoffsAreApproved == Spec => []HandoffWasApproved
<1>1. IInv => HandoffWasApproved
  BY DEF IInv
<1> QED
  BY <1>1, ProducerInvariant, PTL

\* No call of a revision is paid for without its authorization and its budget.
THEOREM RevisionsArePaidByRight == Spec => []RevisionCallsAreAuthorized
<1>1. IInv => RevisionCallsAreAuthorized
  BY DEF IInv, CallsInv
<1> QED
  BY <1>1, ProducerInvariant, PTL

\* What a revision reports is what its own review said of its own plan.
THEOREM ResultsTellTheTruth == Spec => []ResultsAreTruthful
<1>1. IInv => ResultsAreTruthful
  BY DEF IInv, ResultsInv, Truthful, ResultsAreTruthful
<1> QED
  BY <1>1, ProducerInvariant, PTL

\* Only the first agent without a checkpoint is ever paid for, on what is saved.
THEOREM CompletedWorkIsKept == Spec => CompletedWorkIsReused
<1>1. ASSUME IInv, [Next]_vars, Paying
      PROVE  /\ NewTask.agent \notin disk.completed
             /\ 1 .. NewTask.agent - 1 \subseteq disk.completed
             /\ calls'[Len(calls')].input = Input(disk, NewTask.agent)
  <2>1. calls \in Seq(Call) /\ Len(calls) \in Nat
    BY <1>1, Numbered DEF IInv, TypeInv
  <2>2. CASE UNCHANGED calls
    BY <1>1, <2>1, <2>2 DEF Paying
  <2>3. CASE Answered
    <3>1. UNCHANGED calls \/ \E k, g :
            calls' = [calls EXCEPT ![run.call].answer = k, ![run.call].target = g]
      BY <2>3 DEF Answered
    <3>2. DOMAIN calls' = DOMAIN calls
      BY <3>1
    <3>3. calls' \in Seq(Call)
      BY <1>1, CallsTyped
    <3>4. Len(calls') = Len(calls)
      BY <2>1, <3>2, <3>3
    <3> QED
      BY <1>1, <2>1, <3>4 DEF Paying
  <2>4. CASE Send
    <3>1. calls' = Append(calls, [task |-> Current, input |-> Input(mem, Current.agent),
                                  reserved |-> Reserves(Current), answer |-> "open",
                                  target |-> 0])
      BY <2>4 DEF Send
    <3>2. NewTask = Current /\ calls'[Len(calls')].input = Input(mem, Current.agent)
      BY <2>1, <3>1 DEF NewTask
    <3>3. /\ Current.agent = run.at /\ run.at \in Agent
          /\ mem = disk /\ mem.completed = 1 .. run.at - 1
      BY <1>1, <2>4 DEF Send, IInv, TypeInv, CommandInv, Walking, Current, TaskOf, Run
    <3>4. run.at \notin 1 .. run.at - 1
      BY <3>3 DEF Agent
    <3> QED
      BY <3>2, <3>3, <3>4
  <2> QED
    BY <1>1, <2>2, <2>3, <2>4
       DEF Next, Step, vars, store, Begin, Dispatch, Poll, ReservationBlocks, RespondError,
       RespondResult, RespondReview, Finalize, Approve, HandOff, HandOffFails, Complete,
       ReviewBlocked, Plan, SavePlan, StopForOperator, Adopt, Authorize, Budget, Exhausted,
       Consume, Invalidate, Resume, LocalRefusal, Recover, Revise, ProviderRetry, Crash,
       UpstreamRequest
<1>2. IInv /\ [Next]_vars =>
        [Paying => /\ NewTask.agent \notin disk.completed
                   /\ 1 .. NewTask.agent - 1 \subseteq disk.completed
                   /\ calls'[Len(calls')].input = Input(disk, NewTask.agent)]_vars
  BY <1>1
<1> QED
  BY <1>2, ProducerInvariant, PTL DEF Spec, CompletedWorkIsReused

-----------------------------------------------------------------------------
(* Types, and the internal budget.                                           *)

BudgetInv ==
  /\ IsFiniteSet(slots)
  /\ slots \subseteq DOMAIN requests
  /\ Cardinality(slots) <= MaxRevisions

\* A slot is taken by one command, which has just counted them.
LEMMA BudgetStep == IInv /\ BudgetInv /\ [Next]_vars => BudgetInv'
<1> SUFFICES ASSUME IInv, BudgetInv, [Next]_vars PROVE BudgetInv'
  OBVIOUS
<1>1. Grown
  BY FilesGrow DEF IInv
<1>2. CASE Budget
  <2>1. CASE slots' = slots
    BY <1>1, <2>1 DEF BudgetInv, Grown
  <2>2. CASE slots' = slots \union {mem.active} /\ mem.active \notin slots /\ SlotLeft
    <3>1. mem.active \in DOMAIN requests
      BY <1>2 DEF Budget, IInv, CommandInv, Revising
    <3>2. IsFiniteSet(slots') /\ Cardinality(slots') = Cardinality(slots) + 1
      BY <2>2, FS_AddElement DEF BudgetInv
    <3>3. Cardinality(slots) \in Nat /\ MaxRevisions \in Nat
      BY FS_CardinalityType, LimitAssumption DEF BudgetInv
    <3>4. Cardinality(slots') <= MaxRevisions
      BY <2>2, <3>2, <3>3 DEF SlotLeft
    <3>5. slots' \subseteq DOMAIN requests'
      BY <1>1, <2>2, <3>1 DEF BudgetInv, Grown
    <3> QED
      BY <3>2, <3>4, <3>5 DEF BudgetInv
  <2> QED
    BY <1>2, <2>1, <2>2 DEF Budget
<1>3. CASE UNCHANGED slots
  BY <1>1, <1>3 DEF BudgetInv, Grown
<1> QED
  BY <1>2, <1>3
     DEF Next, Step, vars, store, revision, Begin, Dispatch, Send, Poll,
     ReservationBlocks, Answered, RespondError, RespondResult, RespondReview, Finalize,
     Approve, HandOff, HandOffFails, Complete, ReviewBlocked, Plan, SavePlan,
     StopForOperator, Adopt, Authorize, Exhausted, Consume, Invalidate, Resume,
     LocalRefusal, Recover, Revise, ProviderRetry, Crash, UpstreamRequest

\* However the commands stop and start again, no more internal revisions are begun
\* than the budget has slots.
THEOREM InternalBudgetHolds == Spec => [](Cardinality(slots) <= MaxRevisions)
<1>1. Init => BudgetInv
  BY FS_EmptySet, LimitAssumption DEF Init, BudgetInv
<1>2. BudgetInv => Cardinality(slots) <= MaxRevisions
  BY DEF BudgetInv
<1> QED
  BY <1>1, <1>2, BudgetStep, ProducerInvariant, PTL DEF Spec

\* The state, its copy in the command, the calls and the requests are well typed.
THEOREM TypeCorrect == Spec => []TypeInv
<1>1. IInv => TypeInv
  BY DEF IInv
<1> QED
  BY <1>1, ProducerInvariant, PTL

===============================================================================
