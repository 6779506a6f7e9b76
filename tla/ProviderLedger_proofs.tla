------------------------ MODULE ProviderLedger_proofs ------------------------
(* What ProviderLedger promises for any number of processes, tasks and      *)
(* models: the ledger is well typed, an identity is never paid for beyond   *)
(* its one reservation, a batch is submitted once, two processes never hold *)
(* one identity, and a repair is paid for only on its spent authorization.  *)
EXTENDS ProviderLedger, TLAPS

-----------------------------------------------------------------------------
(* Facts about the constants.                                               *)

LEMMA RetryLimitNat == RetryLimit \in Nat
  BY ParameterAssumption, SMT DEF RetryLimit, Min2, Max2

LEMMA RepairIdFacts ==
  ASSUME NEW id \in RepairId
  PROVE  id \in Id /\ id[2] # "original" /\ AlwaysReserved(id)
  BY DEF RepairId, AlwaysReserved

LEMMA RepairIds == \A id \in RepairId : id \in Id /\ id[2] # "original" /\ AlwaysReserved(id)
  BY RepairIdFacts

LEMMA RepairIdOf ==
  ASSUME NEW t \in Task, NEW s \in Stage \ {"original"}
  PROVE  <<t, s>> \in RepairId
  BY DEF RepairId, Id

LEMMA IdTask == \A id \in Id : id[1] \in Task
  BY DEF Id

LEMMA ReservedFacts ==
  ASSUME NEW id, NEW m
  PROVE  /\ AlwaysReserved(id) => NeedsReservation(id, m)
         /\ m \in BatchModel => NeedsReservation(id, m)
  BY DEF AlwaysReserved, NeedsReservation

LEMMA BatchModels == BatchModel \subseteq Model /\ NoModel \notin Model /\ NoModel \notin BatchModel
  BY ModelAssumption

-----------------------------------------------------------------------------
(* Type correctness.                                                        *)

LEMMA TypeInit == Init => TypeOK
  <1> SUFFICES ASSUME Init PROVE TypeOK
    OBVIOUS
  <1>1. 0 \in 0 .. RetryLimit
    BY RetryLimitNat
  <1> QED
    BY <1>1, SMT DEF Init, TypeOK, NoAuthorization, JobStatus, Pc, NoCall

LEMMA TypeStep == TypeOK /\ [Next]_vars => TypeOK'
  <1> SUFFICES ASSUME TypeOK, [Next]_vars PROVE TypeOK'
    OBVIOUS
  <1> USE DEF TypeOK
  <1>1. ASSUME NEW t \in Task, NEW s \in Stage \ {"original"}, NEW m \in Model,
               Authorize(t, s, m)
        PROVE  TypeOK'
    <2>1. <<t, s>> \in RepairId
      BY RepairIdOf
    <2> QED
      BY <1>1, <2>1 DEF Authorize, local
  <1>2. ASSUME NEW p \in Process, NEW id \in Id, NEW m \in Model, Execute(p, id, m)
        PROVE  TypeOK'
    BY <1>2, IdTask, RetryLimitNat, SMTT(30) DEF Execute, Fail, Goto, Pc, Failure, Call
  <1>3. ASSUME NEW p \in Process, Reserve(p)
        PROVE  TypeOK'
    BY <1>3, SMTT(30) DEF Reserve, Fail, Goto, Pc, Failure, Call
  <1>4. ASSUME NEW p \in Process, Consume(p)
        PROVE  TypeOK'
    <2>1. call[p].id \in RepairId /\ call[p].id \in Id
      BY <1>4, RepairIdFacts DEF Consume
    <2>2. authorization' \in [RepairId -> [status : {"absent", "PENDING", "CONSUMED"},
                                          model : Model \union {NoModel}]]
      BY <1>4, <2>1 DEF Consume
    <2> QED
      BY <1>4, <2>1, <2>2, SMTT(30) DEF Consume, Fail, Goto, Pc, Failure
  <1>5. ASSUME NEW p \in Process, SendSync(p)
        PROVE  TypeOK'
    BY <1>5, SMTT(30) DEF SendSync, Goto, Pc, Call, stored
  <1>6. ASSUME NEW p \in Process, AnswerSync(p)
        PROVE  TypeOK'
    BY <1>6, RetryLimitNat, SMTT(30)
       DEF AnswerSync, Settle, AttemptsLeft, Answer, Fail, Goto, Pc, Failure, stored
  <1>7. ASSUME NEW p \in Process, PrepareBatch(p)
        PROVE  TypeOK'
    BY <1>7, SMTT(30) DEF PrepareBatch, Fail, Goto, Pc, Failure, Call, JobStatus
  <1>8. ASSUME NEW p \in Process, SubmitBatch(p)
        PROVE  TypeOK'
    BY <1>8, SMTT(30) DEF SubmitBatch, Goto, Pc, Call, stored
  <1>9. ASSUME NEW p \in Process, BatchSubmitted(p)
        PROVE  TypeOK'
    BY <1>9, SMTT(30) DEF BatchSubmitted, Fail, Goto, Pc, Failure, JobStatus
  <1>10. ASSUME NEW p \in Process, PollBatch(p)
         PROVE  TypeOK'
    BY <1>10, RetryLimitNat, SMTT(30)
       DEF PollBatch, Settle, AttemptsLeft, Fail, Goto, Pc, Failure, JobStatus
  <1>11. ASSUME NEW p \in Process, SubmissionTimeout(p)
         PROVE  TypeOK'
    BY <1>11, RetryLimitNat, SMTT(30)
       DEF SubmissionTimeout, Settle, AttemptsLeft, Fail, Goto, Pc, Failure, Call, stored
  <1>12. ASSUME NEW p \in Process, Record(p)
         PROVE  TypeOK'
    BY <1>12, IdTask, RetryLimitNat, SMTT(30) DEF Record, Leave, Pc, Call
  <1>13. ASSUME NEW p \in Process, Crash(p)
         PROVE  TypeOK'
    BY <1>13, RetryLimitNat, SMTT(30) DEF Crash, Leave, Pc, stored
  <1>14. ASSUME NEW o \in orphan, OrphanSubmitted(o)
         PROVE  TypeOK'
    BY <1>14, SMTT(30) DEF OrphanSubmitted, JobStatus
  <1>15. CASE UNCHANGED vars
    BY <1>15 DEF vars
  <1> QED
    BY <1>1, <1>2, <1>3, <1>4, <1>5, <1>6, <1>7, <1>8, <1>9, <1>10, <1>11,
       <1>12, <1>13, <1>14, <1>15 DEF Next

\* The files of the ledger and the variables of a call always hold values the
\* code can read back: whatever the processes, tasks and models are.
THEOREM TypeCorrect == Spec => []TypeOK
  BY TypeInit, TypeStep, PTL DEF Spec

LEMMA HolderStep ==
  TypeOK /\ HolderInv /\ JobInv /\ [Next]_vars => HolderInv'
  <1> SUFFICES ASSUME TypeOK, HolderInv, JobInv, [Next]_vars PROVE HolderInv'
    OBVIOUS
  <1> USE RetryLimitNat, BatchModels, ReservedFacts, IdTask
  <1> USE DEF TypeOK, HolderInv, JobInv, Holding, Resumable, JobStatus, Call, Pc
  <1>1. ASSUME NEW t \in Task, NEW s \in Stage \ {"original"}, NEW m \in Model,
             Authorize(t, s, m)
        PROVE  HolderInv'
    BY <1>1, SMTT(30) DEF Authorize, local
  <1>2. ASSUME NEW p \in Process, NEW i \in Id, NEW m \in Model, Execute(p, i, m)
        PROVE  HolderInv'
    BY <1>2, SMTT(30) DEF Execute, Fail, Goto
  <1>3. ASSUME NEW p \in Process, Reserve(p)
        PROVE  HolderInv'
    BY <1>3, SMTT(30) DEF Reserve, Fail, Goto, Free, MayResume
  <1>4. ASSUME NEW p \in Process, Consume(p)
        PROVE  HolderInv'
    BY <1>4, SMTT(30) DEF Consume, Fail, Goto
  <1>5. ASSUME NEW p \in Process, SendSync(p)
        PROVE  HolderInv'
    BY <1>5, SMTT(30) DEF SendSync, Goto, stored
  <1>6. ASSUME NEW p \in Process, AnswerSync(p)
        PROVE  HolderInv'
    BY <1>6, SMTT(30) DEF AnswerSync, Settle, AttemptsLeft, Fail, Goto, stored
  <1>7. ASSUME NEW p \in Process, PrepareBatch(p)
        PROVE  HolderInv'
    BY <1>7, SMTT(30) DEF PrepareBatch, Unprepared, Matches, Blocks, Fail, Goto
  <1>8. ASSUME NEW p \in Process, SubmitBatch(p)
        PROVE  HolderInv'
    BY <1>8, SMTT(30) DEF SubmitBatch, Goto, stored
  <1>9. ASSUME NEW p \in Process, BatchSubmitted(p)
        PROVE  HolderInv'
    BY <1>9, SMTT(30) DEF BatchSubmitted, Fail, Goto
  <1>10. ASSUME NEW p \in Process, PollBatch(p)
         PROVE  HolderInv'
    BY <1>10, SMTT(30) DEF PollBatch, Settle, AttemptsLeft, Fail, Goto
  <1>11. ASSUME NEW p \in Process, SubmissionTimeout(p)
         PROVE  HolderInv'
    BY <1>11, SMTT(30) DEF SubmissionTimeout, Settle, AttemptsLeft, Fail, Goto, stored
  <1>12. ASSUME NEW p \in Process, Record(p)
         PROVE  HolderInv'
    BY <1>12, SMTT(30) DEF Record, Leave
  <1>13. ASSUME NEW p \in Process, Crash(p)
         PROVE  HolderInv'
    BY <1>13, SMTT(30) DEF Crash, Leave, stored
  <1>14. ASSUME NEW o \in orphan, OrphanSubmitted(o)
         PROVE  HolderInv'
    BY <1>14, SMTT(30) DEF OrphanSubmitted
  <1>15. CASE UNCHANGED vars
    BY <1>15 DEF vars
  <1> QED
    BY <1>1, <1>2, <1>3, <1>4, <1>5, <1>6, <1>7, <1>8,
       <1>9, <1>10, <1>11, <1>12, <1>13, <1>14, <1>15 DEF Next

LEMMA JobStep ==
  TypeOK /\ HolderInv /\ JobInv /\ WriterInv /\ [Next]_vars => JobInv'
  <1> SUFFICES ASSUME TypeOK, HolderInv, JobInv, WriterInv, [Next]_vars PROVE JobInv'
    OBVIOUS
  <1> USE RetryLimitNat, BatchModels, ReservedFacts, IdTask
  <1> USE DEF TypeOK, HolderInv, JobInv, WriterInv, Submitting, Holding, Resumable, JobStatus, Call, Pc
  <1>1. ASSUME NEW t \in Task, NEW s \in Stage \ {"original"}, NEW m \in Model,
             Authorize(t, s, m)
        PROVE  JobInv'
    BY <1>1, SMTT(30) DEF Authorize, local
  <1>2. ASSUME NEW p \in Process, NEW i \in Id, NEW m \in Model, Execute(p, i, m)
        PROVE  JobInv'
    BY <1>2, SMTT(30) DEF Execute, Fail, Goto
  <1>3. ASSUME NEW p \in Process, Reserve(p)
        PROVE  JobInv'
    BY <1>3, SMTT(30) DEF Reserve, Fail, Goto, Free, MayResume
  <1>4. ASSUME NEW p \in Process, Consume(p)
        PROVE  JobInv'
    BY <1>4, SMTT(30) DEF Consume, Fail, Goto
  <1>5. ASSUME NEW p \in Process, SendSync(p)
        PROVE  JobInv'
    BY <1>5, SMTT(30) DEF SendSync, Goto, stored
  <1>6. ASSUME NEW p \in Process, AnswerSync(p)
        PROVE  JobInv'
    BY <1>6, SMTT(30) DEF AnswerSync, Settle, AttemptsLeft, Fail, Goto, stored
  <1>7. ASSUME NEW p \in Process, PrepareBatch(p)
        PROVE  JobInv'
    BY <1>7, SMTT(30) DEF PrepareBatch, Unprepared, Matches, Blocks, Fail, Goto
  <1>8. ASSUME NEW p \in Process, SubmitBatch(p)
        PROVE  JobInv'
    BY <1>8, SMTT(30) DEF SubmitBatch, Goto, stored
  <1>9. ASSUME NEW p \in Process, BatchSubmitted(p)
        PROVE  JobInv'
    BY <1>9, SMTT(30) DEF BatchSubmitted, Fail, Goto
  <1>10. ASSUME NEW p \in Process, PollBatch(p)
         PROVE  JobInv'
    BY <1>10, SMTT(30) DEF PollBatch, Settle, AttemptsLeft, Fail, Goto
  <1>11. ASSUME NEW p \in Process, SubmissionTimeout(p)
         PROVE  JobInv'
    BY <1>11, SMTT(30) DEF SubmissionTimeout, Settle, AttemptsLeft, Fail, Goto, stored
  <1>12. ASSUME NEW p \in Process, Record(p)
         PROVE  JobInv'
    BY <1>12, SMTT(30) DEF Record, Leave
  <1>13. ASSUME NEW p \in Process, Crash(p)
         PROVE  JobInv'
    BY <1>13, SMTT(30) DEF Crash, Leave, stored
  <1>14. ASSUME NEW o \in orphan, OrphanSubmitted(o)
         PROVE  JobInv'
    BY <1>14, SMTT(30) DEF OrphanSubmitted
  <1>15. CASE UNCHANGED vars
    BY <1>15 DEF vars
  <1> QED
    BY <1>1, <1>2, <1>3, <1>4, <1>5, <1>6, <1>7, <1>8,
       <1>9, <1>10, <1>11, <1>12, <1>13, <1>14, <1>15 DEF Next

LEMMA WriterStep ==
  TypeOK /\ JobInv /\ WriterInv /\ [Next]_vars => WriterInv'
  <1> SUFFICES ASSUME TypeOK, JobInv, WriterInv, [Next]_vars PROVE WriterInv'
    OBVIOUS
  <1> USE RetryLimitNat, BatchModels, ReservedFacts, IdTask
  <1> USE DEF TypeOK, JobInv, WriterInv, Submitting, JobStatus, Call, Pc
  <1>1. ASSUME NEW t \in Task, NEW s \in Stage \ {"original"}, NEW m \in Model,
             Authorize(t, s, m)
        PROVE  WriterInv'
    BY <1>1, SMTT(30) DEF Authorize, local
  <1>2. ASSUME NEW p \in Process, NEW i \in Id, NEW m \in Model, Execute(p, i, m)
        PROVE  WriterInv'
    BY <1>2, SMTT(30) DEF Execute, Fail, Goto
  <1>3. ASSUME NEW p \in Process, Reserve(p)
        PROVE  WriterInv'
    BY <1>3, SMTT(30) DEF Reserve, Fail, Goto, Free, MayResume
  <1>4. ASSUME NEW p \in Process, Consume(p)
        PROVE  WriterInv'
    BY <1>4, SMTT(30) DEF Consume, Fail, Goto
  <1>5. ASSUME NEW p \in Process, SendSync(p)
        PROVE  WriterInv'
    BY <1>5, SMTT(30) DEF SendSync, Goto, stored
  <1>6. ASSUME NEW p \in Process, AnswerSync(p)
        PROVE  WriterInv'
    BY <1>6, SMTT(30) DEF AnswerSync, Settle, AttemptsLeft, Fail, Goto, stored
  <1>7. ASSUME NEW p \in Process, PrepareBatch(p)
        PROVE  WriterInv'
    BY <1>7, SMTT(30) DEF PrepareBatch, Unprepared, Matches, Blocks, Fail, Goto
  <1>8. ASSUME NEW p \in Process, SubmitBatch(p)
        PROVE  WriterInv'
    BY <1>8, SMTT(30) DEF SubmitBatch, Goto, stored
  <1>9. ASSUME NEW p \in Process, BatchSubmitted(p)
        PROVE  WriterInv'
    BY <1>9, SMTT(30) DEF BatchSubmitted, Fail, Goto
  <1>10. ASSUME NEW p \in Process, PollBatch(p)
         PROVE  WriterInv'
    BY <1>10, SMTT(30) DEF PollBatch, Settle, AttemptsLeft, Fail, Goto
  <1>11. ASSUME NEW p \in Process, SubmissionTimeout(p)
         PROVE  WriterInv'
    <2> DEFINE o == <<p, call[p].id>>
    <2>1. /\ pc[p] = "submitting" /\ pc' \in {[pc EXCEPT ![p] = "ready"], [pc EXCEPT ![p] = "done"]}
          /\ call' = call /\ orphan' = orphan \union {o} /\ o[2] = call[p].id
      BY <1>11 DEF SubmissionTimeout, Settle, Fail, Goto
    <2>2. \A q \in Process : Submitting(q, call[p].id) => q = p
      BY <2>1
    <2>3. \A r \in orphan : r[2] # call[p].id
      BY <2>1
    <2>4. \A q, r \in Process :
            pc'[q] \in {"prepared", "submitting"} /\ Submitting(r, call[q].id)' => q = r
      BY <2>1, SMTT(30)
    <2>5. \A q \in Process, r \in orphan' : ~Submitting(q, r[2])'
      BY <2>1, <2>2, SMTT(30)
    <2>6. ASSUME NEW r \in orphan', NEW u \in orphan', r[2] = u[2] PROVE r = u
      <3>1. r \in orphan \/ r = o
        BY <2>1
      <3>2. u \in orphan \/ u = o
        BY <2>1
      <3>3. o[2] = call[p].id
        OBVIOUS
      <3> HIDE DEF o
      <3> QED
        BY <2>3, <2>6, <3>1, <3>2, <3>3
    <2> QED
      BY <2>1, <2>4, <2>5, <2>6
  <1>12. ASSUME NEW p \in Process, Record(p)
         PROVE  WriterInv'
    BY <1>12, SMTT(30) DEF Record, Leave
  <1>13. ASSUME NEW p \in Process, Crash(p)
         PROVE  WriterInv'
    BY <1>13, SMTT(30) DEF Crash, Leave, stored
  <1>14. ASSUME NEW o \in orphan, OrphanSubmitted(o)
         PROVE  WriterInv'
    BY <1>14, SMTT(30) DEF OrphanSubmitted
  <1>15. CASE UNCHANGED vars
    BY <1>15 DEF vars
  <1> QED
    BY <1>1, <1>2, <1>3, <1>4, <1>5, <1>6, <1>7, <1>8,
       <1>9, <1>10, <1>11, <1>12, <1>13, <1>14, <1>15 DEF Next

LEMMA OneHolderStep ==
  TypeOK /\ HolderInv /\ JobInv /\ WriterInv /\ OneHolder /\ [Next]_vars => OneHolder'
  <1> SUFFICES ASSUME TypeOK, HolderInv, JobInv, WriterInv, OneHolder, [Next]_vars PROVE OneHolder'
    OBVIOUS
  <1> USE RetryLimitNat, BatchModels, ReservedFacts, IdTask
  <1> USE DEF TypeOK, HolderInv, JobInv, WriterInv, OneHolder, Submitting, Holding, Resumable, JobStatus, Call, Pc
  <1>1. ASSUME NEW t \in Task, NEW s \in Stage \ {"original"}, NEW m \in Model,
             Authorize(t, s, m)
        PROVE  OneHolder'
    BY <1>1, SMTT(30) DEF Authorize, local
  <1>2. ASSUME NEW p \in Process, NEW i \in Id, NEW m \in Model, Execute(p, i, m)
        PROVE  OneHolder'
    BY <1>2, SMTT(30) DEF Execute, Fail, Goto
  <1>3. ASSUME NEW p \in Process, Reserve(p)
        PROVE  OneHolder'
    BY <1>3, SMTT(30) DEF Reserve, Fail, Goto, Free, MayResume
  <1>4. ASSUME NEW p \in Process, Consume(p)
        PROVE  OneHolder'
    BY <1>4, SMTT(30) DEF Consume, Fail, Goto
  <1>5. ASSUME NEW p \in Process, SendSync(p)
        PROVE  OneHolder'
    BY <1>5, SMTT(30) DEF SendSync, Goto, stored
  <1>6. ASSUME NEW p \in Process, AnswerSync(p)
        PROVE  OneHolder'
    BY <1>6, SMTT(30) DEF AnswerSync, Settle, AttemptsLeft, Fail, Goto, stored
  <1>7. ASSUME NEW p \in Process, PrepareBatch(p)
        PROVE  OneHolder'
    BY <1>7, SMTT(30) DEF PrepareBatch, Unprepared, Matches, Blocks, Fail, Goto
  <1>8. ASSUME NEW p \in Process, SubmitBatch(p)
        PROVE  OneHolder'
    BY <1>8, SMTT(30) DEF SubmitBatch, Goto, stored
  <1>9. ASSUME NEW p \in Process, BatchSubmitted(p)
        PROVE  OneHolder'
    BY <1>9, SMTT(30) DEF BatchSubmitted, Fail, Goto
  <1>10. ASSUME NEW p \in Process, PollBatch(p)
         PROVE  OneHolder'
    BY <1>10, SMTT(30) DEF PollBatch, Settle, AttemptsLeft, Fail, Goto
  <1>11. ASSUME NEW p \in Process, SubmissionTimeout(p)
         PROVE  OneHolder'
    BY <1>11, SMTT(30) DEF SubmissionTimeout, Settle, AttemptsLeft, Fail, Goto, stored
  <1>12. ASSUME NEW p \in Process, Record(p)
         PROVE  OneHolder'
    BY <1>12, SMTT(30) DEF Record, Leave
  <1>13. ASSUME NEW p \in Process, Crash(p)
         PROVE  OneHolder'
    BY <1>13, SMTT(30) DEF Crash, Leave, stored
  <1>14. ASSUME NEW o \in orphan, OrphanSubmitted(o)
         PROVE  OneHolder'
    BY <1>14, SMTT(30) DEF OrphanSubmitted
  <1>15. CASE UNCHANGED vars
    BY <1>15 DEF vars
  <1> QED
    BY <1>1, <1>2, <1>3, <1>4, <1>5, <1>6, <1>7, <1>8,
       <1>9, <1>10, <1>11, <1>12, <1>13, <1>14, <1>15 DEF Next

LEMMA PaidStep ==
  TypeOK /\ HolderInv /\ JobInv /\ WriterInv /\ OneHolder /\ PaidInv /\ [Next]_vars => PaidInv'
  <1> SUFFICES ASSUME TypeOK, HolderInv, JobInv, WriterInv, OneHolder, PaidInv, [Next]_vars PROVE PaidInv'
    OBVIOUS
  <1> USE RetryLimitNat, BatchModels, ReservedFacts, IdTask
  <1> USE DEF TypeOK, HolderInv, JobInv, WriterInv, OneHolder, PaidInv, Submitting, Holding, Resumable, JobStatus, Call, Pc
  <1>1. ASSUME NEW t \in Task, NEW s \in Stage \ {"original"}, NEW m \in Model,
             Authorize(t, s, m)
        PROVE  PaidInv'
    BY <1>1, SMTT(30) DEF Authorize, local
  <1>2. ASSUME NEW p \in Process, NEW i \in Id, NEW m \in Model, Execute(p, i, m)
        PROVE  PaidInv'
    BY <1>2, SMTT(30) DEF Execute, Fail, Goto
  <1>3. ASSUME NEW p \in Process, Reserve(p)
        PROVE  PaidInv'
    <2> DEFINE id == call[p].id
    <2>1. CASE ~Free(id)
      BY <1>3, <2>1, SMTT(30) DEF Reserve, Fail, Goto, MayResume
    <2>2. CASE Free(id)
      <3>1. /\ id \in Id /\ reservation[id] = NoModel /\ attempt[p] = 0
            /\ reservation' = [reservation EXCEPT ![id] = call[p].model]
            /\ pc' \in {[pc EXCEPT ![p] = l] : l \in {"reserved", "ready", "done"}}
            /\ UNCHANGED <<job, call, attempt, paid>>
        BY <1>3, <2>2 DEF Reserve, Fail, Goto, Free, MayResume
      <3>2. AlwaysReserved(id) => paid[id] = 0
        BY <3>1
      <3> HIDE DEF id
      <3>3. \A k \in Id : AlwaysReserved(k) =>
              /\ reservation'[k] = NoModel => paid'[k] = 0
              /\ reservation'[k] \in BatchModel /\ job'[k] = "none" => paid'[k] = 0
        BY <3>1, <3>2, SMTT(30)
      <3>4. ASSUME NEW q \in Process, pc'[q] # "idle", AlwaysReserved(call[q].id)
            PROVE  /\ pc'[q] \in {"reserved", "prepared"} => paid[call[q].id] = 0
                   /\ pc'[q] = "ready" /\ call[q].model \notin BatchModel =>
                        paid[call[q].id] <= attempt[q]
                   /\ pc'[q] = "waiting" /\ call[q].model \notin BatchModel =>
                        paid[call[q].id] <= attempt[q] + 1
        <4>1. CASE q = p
          BY <3>1, <3>2, <3>4, <4>1, SMTT(30) DEF id
        <4>2. CASE q # p
          BY <3>1, <3>4, <4>2, SMTT(30)
        <4> QED
          BY <4>1, <4>2
      <3> QED
        BY <3>1, <3>3, <3>4
    <2> QED
      BY <2>1, <2>2
  <1>4. ASSUME NEW p \in Process, Consume(p)
        PROVE  PaidInv'
    BY <1>4, SMTT(30) DEF Consume, Fail, Goto
  <1>5. ASSUME NEW p \in Process, SendSync(p)
        PROVE  PaidInv'
    BY <1>5, SMTT(30) DEF SendSync, Goto, stored
  <1>6. ASSUME NEW p \in Process, AnswerSync(p)
        PROVE  PaidInv'
    BY <1>6, SMTT(30) DEF AnswerSync, Settle, AttemptsLeft, Fail, Goto, stored
  <1>7. ASSUME NEW p \in Process, PrepareBatch(p)
        PROVE  PaidInv'
    BY <1>7, SMTT(30) DEF PrepareBatch, Unprepared, Matches, Blocks, Fail, Goto
  <1>8. ASSUME NEW p \in Process, SubmitBatch(p)
        PROVE  PaidInv'
    BY <1>8, SMTT(30) DEF SubmitBatch, Goto, stored
  <1>9. ASSUME NEW p \in Process, BatchSubmitted(p)
        PROVE  PaidInv'
    BY <1>9, SMTT(30) DEF BatchSubmitted, Fail, Goto
  <1>10. ASSUME NEW p \in Process, PollBatch(p)
         PROVE  PaidInv'
    BY <1>10, SMTT(30) DEF PollBatch, Settle, AttemptsLeft, Fail, Goto
  <1>11. ASSUME NEW p \in Process, SubmissionTimeout(p)
         PROVE  PaidInv'
    BY <1>11, SMTT(30) DEF SubmissionTimeout, Settle, AttemptsLeft, Fail, Goto, stored
  <1>12. ASSUME NEW p \in Process, Record(p)
         PROVE  PaidInv'
    BY <1>12, SMTT(30) DEF Record, Leave
  <1>13. ASSUME NEW p \in Process, Crash(p)
         PROVE  PaidInv'
    BY <1>13, SMTT(30) DEF Crash, Leave, stored
  <1>14. ASSUME NEW o \in orphan, OrphanSubmitted(o)
         PROVE  PaidInv'
    BY <1>14, SMTT(30) DEF OrphanSubmitted
  <1>15. CASE UNCHANGED vars
    BY <1>15 DEF vars
  <1> QED
    BY <1>1, <1>2, <1>3, <1>4, <1>5, <1>6, <1>7, <1>8,
       <1>9, <1>10, <1>11, <1>12, <1>13, <1>14, <1>15 DEF Next

LEMMA PaidWithinStep ==
  TypeOK /\ HolderInv /\ JobInv /\ WriterInv /\ OneHolder /\ PaidInv /\ PaidWithinReservation /\ [Next]_vars => PaidWithinReservation'
  <1> SUFFICES ASSUME TypeOK, HolderInv, JobInv, WriterInv, OneHolder, PaidInv, PaidWithinReservation, [Next]_vars PROVE PaidWithinReservation'
    OBVIOUS
  <1> USE RetryLimitNat, BatchModels, ReservedFacts, IdTask
  <1> USE DEF TypeOK, HolderInv, JobInv, WriterInv, OneHolder, PaidInv, Submitting, Holding, Resumable, JobStatus, Call, Pc, PaidWithinReservation
  <1>1. ASSUME NEW t \in Task, NEW s \in Stage \ {"original"}, NEW m \in Model,
             Authorize(t, s, m)
        PROVE  PaidWithinReservation'
    BY <1>1, SMTT(30) DEF Authorize, local
  <1>2. ASSUME NEW p \in Process, NEW i \in Id, NEW m \in Model, Execute(p, i, m)
        PROVE  PaidWithinReservation'
    BY <1>2, SMTT(30) DEF Execute, Fail, Goto
  <1>3. ASSUME NEW p \in Process, Reserve(p)
        PROVE  PaidWithinReservation'
    BY <1>3, SMTT(30) DEF Reserve, Fail, Goto, Free, MayResume
  <1>4. ASSUME NEW p \in Process, Consume(p)
        PROVE  PaidWithinReservation'
    BY <1>4, SMTT(30) DEF Consume, Fail, Goto
  <1>5. ASSUME NEW p \in Process, SendSync(p)
        PROVE  PaidWithinReservation'
    BY <1>5, SMTT(30) DEF SendSync, Goto, stored
  <1>6. ASSUME NEW p \in Process, AnswerSync(p)
        PROVE  PaidWithinReservation'
    BY <1>6, SMTT(30) DEF AnswerSync, Settle, AttemptsLeft, Fail, Goto, stored
  <1>7. ASSUME NEW p \in Process, PrepareBatch(p)
        PROVE  PaidWithinReservation'
    BY <1>7, SMTT(30) DEF PrepareBatch, Unprepared, Matches, Blocks, Fail, Goto
  <1>8. ASSUME NEW p \in Process, SubmitBatch(p)
        PROVE  PaidWithinReservation'
    BY <1>8, SMTT(30) DEF SubmitBatch, Goto, stored
  <1>9. ASSUME NEW p \in Process, BatchSubmitted(p)
        PROVE  PaidWithinReservation'
    BY <1>9, SMTT(30) DEF BatchSubmitted, Fail, Goto
  <1>10. ASSUME NEW p \in Process, PollBatch(p)
         PROVE  PaidWithinReservation'
    BY <1>10, SMTT(30) DEF PollBatch, Settle, AttemptsLeft, Fail, Goto
  <1>11. ASSUME NEW p \in Process, SubmissionTimeout(p)
         PROVE  PaidWithinReservation'
    BY <1>11, SMTT(30) DEF SubmissionTimeout, Settle, AttemptsLeft, Fail, Goto, stored
  <1>12. ASSUME NEW p \in Process, Record(p)
         PROVE  PaidWithinReservation'
    BY <1>12, SMTT(30) DEF Record, Leave
  <1>13. ASSUME NEW p \in Process, Crash(p)
         PROVE  PaidWithinReservation'
    BY <1>13, SMTT(30) DEF Crash, Leave, stored
  <1>14. ASSUME NEW o \in orphan, OrphanSubmitted(o)
         PROVE  PaidWithinReservation'
    BY <1>14, SMTT(30) DEF OrphanSubmitted
  <1>15. CASE UNCHANGED vars
    BY <1>15 DEF vars
  <1> QED
    BY <1>1, <1>2, <1>3, <1>4, <1>5, <1>6, <1>7, <1>8,
       <1>9, <1>10, <1>11, <1>12, <1>13, <1>14, <1>15 DEF Next

LEMMA BatchOnceStep ==
  TypeOK /\ HolderInv /\ JobInv /\ WriterInv /\ OneHolder /\ PaidInv /\ BatchSubmittedOnce /\ [Next]_vars => BatchSubmittedOnce'
  <1> SUFFICES ASSUME TypeOK, HolderInv, JobInv, WriterInv, OneHolder, PaidInv, BatchSubmittedOnce, [Next]_vars PROVE BatchSubmittedOnce'
    OBVIOUS
  <1> USE RetryLimitNat, BatchModels, ReservedFacts, IdTask
  <1> USE DEF TypeOK, HolderInv, JobInv, WriterInv, OneHolder, PaidInv, Submitting, Holding, Resumable, JobStatus, Call, Pc, BatchSubmittedOnce
  <1>1. ASSUME NEW t \in Task, NEW s \in Stage \ {"original"}, NEW m \in Model,
             Authorize(t, s, m)
        PROVE  BatchSubmittedOnce'
    BY <1>1, SMTT(30) DEF Authorize, local
  <1>2. ASSUME NEW p \in Process, NEW i \in Id, NEW m \in Model, Execute(p, i, m)
        PROVE  BatchSubmittedOnce'
    BY <1>2, SMTT(30) DEF Execute, Fail, Goto
  <1>3. ASSUME NEW p \in Process, Reserve(p)
        PROVE  BatchSubmittedOnce'
    BY <1>3, SMTT(30) DEF Reserve, Fail, Goto, Free, MayResume
  <1>4. ASSUME NEW p \in Process, Consume(p)
        PROVE  BatchSubmittedOnce'
    BY <1>4, SMTT(30) DEF Consume, Fail, Goto
  <1>5. ASSUME NEW p \in Process, SendSync(p)
        PROVE  BatchSubmittedOnce'
    BY <1>5, SMTT(30) DEF SendSync, Goto, stored
  <1>6. ASSUME NEW p \in Process, AnswerSync(p)
        PROVE  BatchSubmittedOnce'
    BY <1>6, SMTT(30) DEF AnswerSync, Settle, AttemptsLeft, Fail, Goto, stored
  <1>7. ASSUME NEW p \in Process, PrepareBatch(p)
        PROVE  BatchSubmittedOnce'
    BY <1>7, SMTT(30) DEF PrepareBatch, Unprepared, Matches, Blocks, Fail, Goto
  <1>8. ASSUME NEW p \in Process, SubmitBatch(p)
        PROVE  BatchSubmittedOnce'
    BY <1>8, SMTT(30) DEF SubmitBatch, Goto, stored
  <1>9. ASSUME NEW p \in Process, BatchSubmitted(p)
        PROVE  BatchSubmittedOnce'
    BY <1>9, SMTT(30) DEF BatchSubmitted, Fail, Goto
  <1>10. ASSUME NEW p \in Process, PollBatch(p)
         PROVE  BatchSubmittedOnce'
    BY <1>10, SMTT(30) DEF PollBatch, Settle, AttemptsLeft, Fail, Goto
  <1>11. ASSUME NEW p \in Process, SubmissionTimeout(p)
         PROVE  BatchSubmittedOnce'
    BY <1>11, SMTT(30) DEF SubmissionTimeout, Settle, AttemptsLeft, Fail, Goto, stored
  <1>12. ASSUME NEW p \in Process, Record(p)
         PROVE  BatchSubmittedOnce'
    BY <1>12, SMTT(30) DEF Record, Leave
  <1>13. ASSUME NEW p \in Process, Crash(p)
         PROVE  BatchSubmittedOnce'
    BY <1>13, SMTT(30) DEF Crash, Leave, stored
  <1>14. ASSUME NEW o \in orphan, OrphanSubmitted(o)
         PROVE  BatchSubmittedOnce'
    BY <1>14, SMTT(30) DEF OrphanSubmitted
  <1>15. CASE UNCHANGED vars
    BY <1>15 DEF vars
  <1> QED
    BY <1>1, <1>2, <1>3, <1>4, <1>5, <1>6, <1>7, <1>8,
       <1>9, <1>10, <1>11, <1>12, <1>13, <1>14, <1>15 DEF Next

LEMMA SpentStep ==
  TypeOK /\ HolderInv /\ JobInv /\ SpentInv /\ [Next]_vars => SpentInv'
  <1> SUFFICES ASSUME TypeOK, HolderInv, JobInv, SpentInv, [Next]_vars PROVE SpentInv'
    OBVIOUS
  <1> USE RetryLimitNat, BatchModels, ReservedFacts, IdTask
  <1> USE DEF TypeOK, HolderInv, JobInv, SpentInv, Spent, Holding, Resumable, JobStatus, Call, Pc
  <1>1. ASSUME NEW t \in Task, NEW s \in Stage \ {"original"}, NEW m \in Model,
             Authorize(t, s, m)
        PROVE  SpentInv'
    <2> DEFINE id == <<t, s>>
    <2>1. /\ id \in RepairId /\ authorization[id].status = "absent"
          /\ authorization' = [authorization EXCEPT
                                 ![id] = [status |-> "PENDING", model |-> m]]
          /\ UNCHANGED <<reservation, job, status, pc, call, attempt, outcome, orphan, paid>>
      BY <1>1, RepairIdOf DEF Authorize, local, Grantable
    <2> HIDE DEF id
    <2> QED
      BY <2>1, RepairIds, SMTT(30)
  <1>2. ASSUME NEW p \in Process, NEW i \in Id, NEW m \in Model, Execute(p, i, m)
        PROVE  SpentInv'
    BY <1>2, RepairIds, SMTT(60) DEF Execute, PendingFor, Fail, Goto
  <1>3. ASSUME NEW p \in Process, Reserve(p)
        PROVE  SpentInv'
    BY <1>3, RepairIds, SMTT(60) DEF Reserve, Fail, Goto, Free, MayResume
  <1>4. ASSUME NEW p \in Process, Consume(p)
        PROVE  SpentInv'
    BY <1>4, SMTT(30) DEF Consume, Fail, Goto
  <1>5. ASSUME NEW p \in Process, SendSync(p)
        PROVE  SpentInv'
    BY <1>5, RepairIds, SMTT(60) DEF SendSync, Goto, stored
  <1>6. ASSUME NEW p \in Process, AnswerSync(p)
        PROVE  SpentInv'
    BY <1>6, SMTT(30) DEF AnswerSync, Settle, AttemptsLeft, Fail, Goto, stored
  <1>7. ASSUME NEW p \in Process, PrepareBatch(p)
        PROVE  SpentInv'
    BY <1>7, RepairIds, SMTT(60) DEF PrepareBatch, Unprepared, Matches, Blocks, Fail, Goto
  <1>8. ASSUME NEW p \in Process, SubmitBatch(p)
        PROVE  SpentInv'
    BY <1>8, SMTT(30) DEF SubmitBatch, Goto, stored
  <1>9. ASSUME NEW p \in Process, BatchSubmitted(p)
        PROVE  SpentInv'
    BY <1>9, RepairIds, SMTT(60) DEF BatchSubmitted, Fail, Goto
  <1>10. ASSUME NEW p \in Process, PollBatch(p)
         PROVE  SpentInv'
    BY <1>10, RepairIds, SMTT(60) DEF PollBatch, Settle, AttemptsLeft, Fail, Goto
  <1>11. ASSUME NEW p \in Process, SubmissionTimeout(p)
         PROVE  SpentInv'
    BY <1>11, SMTT(30) DEF SubmissionTimeout, Settle, AttemptsLeft, Fail, Goto, stored
  <1>12. ASSUME NEW p \in Process, Record(p)
         PROVE  SpentInv'
    BY <1>12, SMTT(30) DEF Record, Leave
  <1>13. ASSUME NEW p \in Process, Crash(p)
         PROVE  SpentInv'
    BY <1>13, SMTT(30) DEF Crash, Leave, stored
  <1>14. ASSUME NEW o \in orphan, OrphanSubmitted(o)
         PROVE  SpentInv'
    BY <1>14, SMTT(30) DEF OrphanSubmitted
  <1>15. CASE UNCHANGED vars
    BY <1>15 DEF vars
  <1> QED
    BY <1>1, <1>2, <1>3, <1>4, <1>5, <1>6, <1>7, <1>8,
       <1>9, <1>10, <1>11, <1>12, <1>13, <1>14, <1>15 DEF Next

LEMMA RepairPaidStep ==
  TypeOK /\ HolderInv /\ JobInv /\ SpentInv /\ PaidInv /\ RepairPaidOnlyWhenSpent /\ [Next]_vars => RepairPaidOnlyWhenSpent'
  <1> SUFFICES ASSUME TypeOK, HolderInv, JobInv, SpentInv, PaidInv, RepairPaidOnlyWhenSpent, [Next]_vars PROVE RepairPaidOnlyWhenSpent'
    OBVIOUS
  <1> USE RetryLimitNat, BatchModels, ReservedFacts, IdTask
  <1> USE DEF TypeOK, HolderInv, JobInv, SpentInv, PaidInv, RepairPaidOnlyWhenSpent, Spent, Holding, Resumable, JobStatus, Call, Pc
  <1>1. ASSUME NEW t \in Task, NEW s \in Stage \ {"original"}, NEW m \in Model,
             Authorize(t, s, m)
        PROVE  RepairPaidOnlyWhenSpent'
    <2> DEFINE id == <<t, s>>
    <2>1. /\ id \in RepairId /\ authorization[id].status = "absent"
          /\ authorization' = [authorization EXCEPT
                                 ![id] = [status |-> "PENDING", model |-> m]]
          /\ UNCHANGED <<reservation, job, status, pc, call, attempt, outcome, orphan, paid>>
      BY <1>1, RepairIdOf DEF Authorize, local, Grantable
    <2> HIDE DEF id
    <2> QED
      BY <2>1, RepairIds, SMTT(30)
  <1>2. ASSUME NEW p \in Process, NEW i \in Id, NEW m \in Model, Execute(p, i, m)
        PROVE  RepairPaidOnlyWhenSpent'
    BY <1>2, RepairIds, SMTT(60) DEF Execute, PendingFor, Fail, Goto
  <1>3. ASSUME NEW p \in Process, Reserve(p)
        PROVE  RepairPaidOnlyWhenSpent'
    BY <1>3, RepairIds, SMTT(60) DEF Reserve, Fail, Goto, Free, MayResume
  <1>4. ASSUME NEW p \in Process, Consume(p)
        PROVE  RepairPaidOnlyWhenSpent'
    BY <1>4, SMTT(30) DEF Consume, Fail, Goto
  <1>5. ASSUME NEW p \in Process, SendSync(p)
        PROVE  RepairPaidOnlyWhenSpent'
    BY <1>5, RepairIds, SMTT(60) DEF SendSync, Goto, stored
  <1>6. ASSUME NEW p \in Process, AnswerSync(p)
        PROVE  RepairPaidOnlyWhenSpent'
    BY <1>6, SMTT(30) DEF AnswerSync, Settle, AttemptsLeft, Fail, Goto, stored
  <1>7. ASSUME NEW p \in Process, PrepareBatch(p)
        PROVE  RepairPaidOnlyWhenSpent'
    BY <1>7, RepairIds, SMTT(60) DEF PrepareBatch, Unprepared, Matches, Blocks, Fail, Goto
  <1>8. ASSUME NEW p \in Process, SubmitBatch(p)
        PROVE  RepairPaidOnlyWhenSpent'
    BY <1>8, SMTT(30) DEF SubmitBatch, Goto, stored
  <1>9. ASSUME NEW p \in Process, BatchSubmitted(p)
        PROVE  RepairPaidOnlyWhenSpent'
    BY <1>9, RepairIds, SMTT(60) DEF BatchSubmitted, Fail, Goto
  <1>10. ASSUME NEW p \in Process, PollBatch(p)
         PROVE  RepairPaidOnlyWhenSpent'
    BY <1>10, RepairIds, SMTT(60) DEF PollBatch, Settle, AttemptsLeft, Fail, Goto
  <1>11. ASSUME NEW p \in Process, SubmissionTimeout(p)
         PROVE  RepairPaidOnlyWhenSpent'
    BY <1>11, SMTT(30) DEF SubmissionTimeout, Settle, AttemptsLeft, Fail, Goto, stored
  <1>12. ASSUME NEW p \in Process, Record(p)
         PROVE  RepairPaidOnlyWhenSpent'
    BY <1>12, SMTT(30) DEF Record, Leave
  <1>13. ASSUME NEW p \in Process, Crash(p)
         PROVE  RepairPaidOnlyWhenSpent'
    BY <1>13, SMTT(30) DEF Crash, Leave, stored
  <1>14. ASSUME NEW o \in orphan, OrphanSubmitted(o)
         PROVE  RepairPaidOnlyWhenSpent'
    BY <1>14, SMTT(30) DEF OrphanSubmitted
  <1>15. CASE UNCHANGED vars
    BY <1>15 DEF vars
  <1> QED
    BY <1>1, <1>2, <1>3, <1>4, <1>5, <1>6, <1>7, <1>8,
       <1>9, <1>10, <1>11, <1>12, <1>13, <1>14, <1>15 DEF Next
-----------------------------------------------------------------------------
(* The invariant as a whole.                                                *)

LEMMA LedgerInit == Init => LedgerInv
  <1> SUFFICES ASSUME Init PROVE LedgerInv
    OBVIOUS
  <1>1. TypeOK
    BY TypeInit
  <1>2. /\ \A p \in Process : pc[p] = "idle"
        /\ \A id \in Id : reservation[id] = NoModel /\ job[id] = "none" /\ paid[id] = 0
        /\ orphan = {}
    BY DEF Init
  <1>3. HolderInv /\ JobInv /\ WriterInv /\ OneHolder /\ PaidInv
    BY <1>2, BatchModels DEF HolderInv, JobInv, WriterInv, OneHolder, PaidInv, Holding,
       Submitting
  <1>4. PaidWithinReservation /\ BatchSubmittedOnce
    BY <1>2, RetryLimitNat, SMT DEF PaidWithinReservation, BatchSubmittedOnce
  <1>5. SpentInv /\ RepairPaidOnlyWhenSpent
    BY <1>2, RepairIds, SMT DEF SpentInv, RepairPaidOnlyWhenSpent
  <1> QED
    BY <1>1, <1>3, <1>4, <1>5 DEF LedgerInv

LEMMA LedgerStep == LedgerInv /\ [Next]_vars => LedgerInv'
  <1> USE DEF LedgerInv
  <1> QED
    BY TypeStep, HolderStep, JobStep, WriterStep, OneHolderStep, PaidStep,
       PaidWithinStep, BatchOnceStep, SpentStep, RepairPaidStep

THEOREM LedgerInvariant == Spec => []LedgerInv
  BY LedgerInit, LedgerStep, PTL DEF Spec

\* An identity that is always reserved is sent to the Provider at most
\* RetryLimit + 1 times (once in Safe Mode), whatever number of processes
\* execute it, crash and come back.  (_reserve_provider_invocation and run)
THEOREM PaidOnce == Spec => []PaidWithinReservation
  BY LedgerInvariant, PTL DEF LedgerInv

\* The POST of a batch is sent at most once per reservation, also across the
\* automatic retries of run().  (execute_chat)
THEOREM OneSubmission == Spec => []BatchSubmittedOnce
  BY LedgerInvariant, PTL DEF LedgerInv

\* Two processes are never past the reservation of one identity together,
\* unless both poll a batch the Provider has accepted.
THEOREM ExclusiveHolder == Spec => []OneHolder
  BY LedgerInvariant, PTL DEF LedgerInv

\* No repair identity is paid for before its authorization is spent, nor on
\* another model than the one authorized.
THEOREM RepairsAreAuthorized == Spec => []RepairPaidOnlyWhenSpent
  BY LedgerInvariant, PTL DEF LedgerInv

-----------------------------------------------------------------------------
(* What a step may never do.                                                *)

\* The step of LedgerOnlyGrows.
Grows ==
  /\ \A id \in Id : reservation[id] # NoModel => reservation'[id] = reservation[id]
  /\ \A id \in RepairId :
       authorization[id].status # "absent" =>
         /\ authorization'[id].model = authorization[id].model
         /\ authorization'[id].status # "absent"
         /\ Spent(id) => authorization'[id].status = "CONSUMED"

LEMMA GrowsStep == TypeOK /\ [Next]_vars => Grows
  <1> SUFFICES ASSUME TypeOK, [Next]_vars PROVE Grows
    OBVIOUS
  <1>1. CASE UNCHANGED <<reservation, authorization>>
    BY <1>1 DEF Grows, Spent
  <1>2. ASSUME NEW t \in Task, NEW s \in Stage \ {"original"}, NEW m \in Model,
               Authorize(t, s, m)
        PROVE  Grows
    <2> DEFINE i == <<t, s>>
    <2>1. /\ i \in RepairId /\ authorization[i].status = "absent"
          /\ authorization' = [authorization EXCEPT
                                 ![i] = [status |-> "PENDING", model |-> m]]
          /\ reservation' = reservation
      BY <1>2, RepairIdOf DEF Authorize, Grantable
    <2> HIDE DEF i
    <2> QED
      BY <2>1, SMT DEF TypeOK, Grows, Spent
  <1>3. ASSUME NEW p \in Process, Reserve(p)
        PROVE  Grows
    BY <1>3, SMT DEF TypeOK, Reserve, Free, Grows, Spent
  <1>4. ASSUME NEW p \in Process, Consume(p)
        PROVE  Grows
    BY <1>4, SMT DEF TypeOK, Consume, Grows, Spent
  <1>5. ASSUME NEW p \in Process, NEW i \in Id, NEW m \in Model, Execute(p, i, m)
        PROVE  UNCHANGED <<reservation, authorization>>
    BY <1>5 DEF Execute
  <1>6. ASSUME NEW p \in Process,
               \/ SendSync(p) \/ AnswerSync(p) \/ PrepareBatch(p) \/ SubmitBatch(p)
               \/ BatchSubmitted(p) \/ PollBatch(p) \/ SubmissionTimeout(p)
               \/ Record(p) \/ Crash(p)
        PROVE  UNCHANGED <<reservation, authorization>>
    BY <1>6 DEF SendSync, AnswerSync, PrepareBatch, SubmitBatch, BatchSubmitted,
       PollBatch, SubmissionTimeout, Record, Crash, stored
  <1>7. ASSUME NEW o \in orphan, OrphanSubmitted(o)
        PROVE  UNCHANGED <<reservation, authorization>>
    BY <1>7 DEF OrphanSubmitted
  <1>8. CASE UNCHANGED vars
    BY <1>1, <1>8 DEF vars
  <1> QED
    BY <1>1, <1>2, <1>3, <1>4, <1>5, <1>6, <1>7, <1>8 DEF Next

\* Reservations and grants are write-once: no step removes a reservation,
\* changes its model, or revives a spent authorization, whichever process takes
\* it and wherever another one stopped.
THEOREM WriteOnce == Spec => LedgerOnlyGrows
  <1>1. TypeOK /\ [Next]_vars => [Grows]_vars
    BY GrowsStep
  <1> QED
    BY <1>1, TypeCorrect, PTL DEF Spec, LedgerOnlyGrows, Grows

\* A grant left PENDING by a crash behind its reservation file stays so, and
\* its identity is never sent: the crash fails closed.
LEMMA StrandedStep ==
  ASSUME LedgerInv, LedgerInv', [Next]_vars, NEW id \in RepairId, Stranded(id)
  PROVE  Stranded(id)' /\ paid'[id] = 0
  <1>1. id \in Id
    BY RepairIds
  <1>2. Grows
    BY GrowsStep DEF LedgerInv
  <1>3. reservation'[id] # NoModel
    BY <1>1, <1>2 DEF Grows, Stranded
  <1>4. ~Spent(id)' /\ authorization'[id].status = "PENDING"
    <2> USE DEF Stranded
    <2>1. ASSUME NEW p \in Process, Consume(p)
          PROVE  authorization'[id] = authorization[id]
      <3>1. call[p].id # id
        BY <2>1 DEF Consume
      <3> QED
        BY <2>1, <3>1, SMT DEF Consume, LedgerInv, TypeOK
    <2>2. ASSUME NEW t \in Task, NEW s \in Stage \ {"original"}, NEW m \in Model,
                 Authorize(t, s, m)
          PROVE  authorization'[id] = authorization[id]
      <3>1. <<t, s>> # id
        BY <2>2 DEF Authorize, Grantable
      <3> QED
        BY <2>2, <3>1 DEF Authorize
    <2>3. ASSUME authorization' = authorization
          PROVE  authorization'[id] = authorization[id]
      BY <2>3
    <2> QED
      BY <2>1, <2>2, <2>3 DEF Next, vars, Spent, Execute, Reserve, SendSync, AnswerSync,
         PrepareBatch, SubmitBatch, BatchSubmitted, PollBatch, SubmissionTimeout, Record,
         Crash, OrphanSubmitted, stored
  <1>5. \A p \in Process : ~(pc'[p] = "reserved" /\ call'[p].id = id)
    <2> SUFFICES ASSUME NEW q \in Process, pc'[q] = "reserved", call'[q].id = id
                 PROVE  FALSE
      OBVIOUS
    <2>1. pc[q] = "reserved" /\ call[q] = call'[q]
      <3>1. ASSUME NEW p \in Process, Reserve(p)
            PROVE  pc[q] = "reserved" /\ call[q] = call'[q]
        BY <1>1, <3>1, SMT DEF Reserve, Free, Fail, Goto, Stranded, LedgerInv, TypeOK
      <3>2. ASSUME NEW p \in Process, NEW i \in Id, NEW m \in Model, Execute(p, i, m)
            PROVE  pc[q] = "reserved" /\ call[q] = call'[q]
        BY <3>2, SMT DEF Execute, Fail, Goto, LedgerInv, TypeOK
      <3>3. ASSUME NEW p \in Process,
                   \/ Consume(p) \/ SendSync(p) \/ AnswerSync(p) \/ PrepareBatch(p)
                   \/ SubmitBatch(p) \/ BatchSubmitted(p) \/ PollBatch(p)
                   \/ SubmissionTimeout(p)
            PROVE  pc[q] = "reserved" /\ call[q] = call'[q]
        BY <3>3, SMT DEF Consume, SendSync, AnswerSync, PrepareBatch, SubmitBatch,
           BatchSubmitted, PollBatch, SubmissionTimeout, Settle, Fail, Goto, LedgerInv,
           TypeOK
      <3>4. ASSUME NEW p \in Process, Record(p) \/ Crash(p)
            PROVE  pc[q] = "reserved" /\ call[q] = call'[q]
        BY <3>4, SMT DEF Record, Crash, Leave, LedgerInv, TypeOK
      <3>5. ASSUME UNCHANGED <<pc, call>>
            PROVE  pc[q] = "reserved" /\ call[q] = call'[q]
        BY <3>5
      <3> QED
        BY <3>1, <3>2, <3>3, <3>4, <3>5 DEF Next, vars, Authorize, OrphanSubmitted, local
    <2> QED
      BY <2>1 DEF Stranded
  <1>6. paid'[id] = 0
    BY <1>1, <1>4, SMT DEF LedgerInv, RepairPaidOnlyWhenSpent, TypeOK
  <1> QED
    BY <1>3, <1>4, <1>5, <1>6 DEF Stranded

\* See StrandedStep.
THEOREM StrandedFailsClosed == Spec => StrandedNeverPaid
  <1>1. LedgerInv /\ LedgerInv' /\ [Next]_vars =>
          [\A id \in RepairId : Stranded(id) => Stranded(id)' /\ paid'[id] = 0]_vars
    BY StrandedStep
  <1> QED
    BY <1>1, LedgerInvariant, PTL DEF Spec, StrandedNeverPaid

-----------------------------------------------------------------------------
(* Who writes the authorization files.                                      *)

\* An authorization that does not exist is written by authorize_once only.
LEMMA NewGrant ==
  ASSUME LedgerInv, [Next]_vars, NEW id \in RepairId,
         authorization[id].status = "absent",
         authorization'[id].status # "absent"
  PROVE  \E t \in Task, s \in Stage \ {"original"}, m \in Model :
            Authorize(t, s, m) /\ id = <<t, s>>
  <1>1. ASSUME NEW p \in Process, Consume(p)
        PROVE  FALSE
    <2>1. call[p].id # id
      BY <1>1, Zenon DEF Consume, LedgerInv, SpentInv
    <2> QED
      BY <1>1, <2>1, SMT DEF Consume, LedgerInv, TypeOK
  <1>2. ASSUME NEW t \in Task, NEW s \in Stage \ {"original"}, NEW m \in Model,
               Authorize(t, s, m)
        PROVE  id = <<t, s>>
    BY <1>2, SMT DEF Authorize, LedgerInv, TypeOK
  <1>3. authorization' # authorization
    OBVIOUS
  <1> QED
    BY <1>1, <1>2, <1>3 DEF Next, vars, Execute, Reserve, SendSync, AnswerSync,
       PrepareBatch, SubmitBatch, BatchSubmitted, PollBatch, SubmissionTimeout, Record,
       Crash, OrphanSubmitted, stored

LEMMA PredecessorId ==
  ASSUME NEW t \in Task, NEW s \in Stage \ {"original"}
  PROVE  /\ <<t, "original">> \in Id
         /\ Predecessor[s] \in Stage
         /\ <<t, Predecessor[s]>> \in Id
         /\ <<t, Predecessor[s]>> \in RepairId <=> Predecessor[s] # "original"
  BY StageAssumption DEF Id, RepairId

-----------------------------------------------------------------------------
(* The ladder.                                                              *)

LEMMA LadderStep ==
  ASSUME LedgerInv, LadderInOrder, [Next]_vars
  PROVE  LadderInOrder'
  <1> SUFFICES ASSUME NEW id \in RepairId, authorization'[id].status # "absent"
               PROVE  LET below == <<id[1], Predecessor[id[2]]>>
                      IN /\ reservation'[below] # NoModel
                         /\ below \in RepairId => Spent(below)'
    BY DEF LadderInOrder
  <1> DEFINE below == <<id[1], Predecessor[id[2]]>>
  <1>1. /\ below \in Id
        /\ below \in RepairId <=> Predecessor[id[2]] # "original"
    BY PredecessorId DEF RepairId, Id
  <1>2. reservation[below] # NoModel /\ (below \in RepairId => Spent(below))
    <2>1. CASE authorization[id].status # "absent"
      BY <2>1 DEF LadderInOrder
    <2>2. CASE authorization[id].status = "absent"
      <3>1. PICK t \in Task, s \in Stage \ {"original"}, m \in Model :
              Authorize(t, s, m) /\ id = <<t, s>>
        BY <2>2, NewGrant
      <3>2. reservation[below] # NoModel
        BY <3>1 DEF Authorize
      <3>3. Predecessor[id[2]] # "original" => Spent(below)
        BY <3>1 DEF Authorize, PredecessorSpent
      <3> QED
        BY <1>1, <3>2, <3>3
    <2> QED
      BY <2>1, <2>2
  <1>3. Grows
    BY GrowsStep DEF LedgerInv
  <1> HIDE DEF below
  <1>4. reservation'[below] # NoModel
    BY <1>1, <1>2, <1>3 DEF Grows
  <1>5. below \in RepairId => Spent(below)'
    BY <1>2, <1>3 DEF Grows, Spent
  <1> QED
    BY <1>4, <1>5 DEF below

\* No authorization is ever found above an identity that was not reserved, or
\* above a repair whose own authorization is not spent: an operator cannot skip
\* a rung, nor stand on one whose process stopped before the consume.
THEOREM LadderHolds == Spec => []LadderInOrder
  <1>1. Init => LadderInOrder
    BY DEF Init, LadderInOrder, NoAuthorization
  <1> QED
    BY <1>1, LadderStep, LedgerInvariant, PTL DEF Spec

-----------------------------------------------------------------------------
(* The repairs of a missing endpoint.                                       *)

EndpointStage == {"capability_repair", "runtime_model", "runtime_output",
                  "runtime_adapter", "runtime_identity", "runtime_provenance"}

\* The grants themselves name another model: the model rule of each rung passes
\* it on from the first one.
EndpointInv ==
  \A id \in RepairId :
    id[2] \in EndpointStage /\ authorization[id].status # "absent" =>
      /\ reservation[<<id[1], "original">>] # NoModel
      /\ authorization[id].model # reservation[<<id[1], "original">>]

LEMMA EndpointStep ==
  ASSUME LedgerInv, EndpointInv, [Next]_vars
  PROVE  EndpointInv'
  <1> SUFFICES ASSUME NEW id \in RepairId, id[2] \in EndpointStage,
                      authorization'[id].status # "absent"
               PROVE  /\ reservation'[<<id[1], "original">>] # NoModel
                      /\ authorization'[id].model # reservation'[<<id[1], "original">>]
    BY DEF EndpointInv
  <1>1. Grows
    BY GrowsStep DEF LedgerInv
  <1>2. <<id[1], "original">> \in Id
    BY PredecessorId DEF RepairId, Id
  <1>3. CASE authorization[id].status # "absent"
    BY <1>1, <1>2, <1>3 DEF EndpointInv, Grows
  <1>4. CASE authorization[id].status = "absent"
    <2>1. PICK t \in Task, s \in Stage \ {"original"}, m \in Model :
            Authorize(t, s, m) /\ id = <<t, s>>
      BY <1>4, NewGrant
    <2> DEFINE root == <<t, "original">>
               below == <<t, Predecessor[s]>>
    <2>2. /\ reservation[root] # NoModel
          /\ reservation[below] # NoModel
          /\ reservation' = reservation
          /\ ModelAllowed(t, s, m)
      BY <2>1 DEF Authorize
    <2>3. authorization'[id].model = m
      BY <2>1, SMT DEF Authorize, LedgerInv, TypeOK
    <2>4. m # reservation[root]
      <3>1. CASE s \in {"capability_repair", "runtime_model"}
        BY <2>2, <3>1 DEF ModelAllowed, EndpointRepairModel, FailedModel
      <3>2. CASE s \in EndpointStage \ {"capability_repair", "runtime_model"}
        <4>1. m = reservation[below]
          BY <2>2, <3>2 DEF ModelAllowed, EndpointStage, RuntimeRepairModel, LastModel
        <4>2. Predecessor[s] \in EndpointStage /\ Predecessor[s] # "operator_retry"
          BY <3>2 DEF Predecessor, Repairs, EndpointStage
        <4>3. below \in RepairId
          BY <4>2, PredecessorId DEF EndpointStage
        <4>4. /\ authorization[below].status # "absent"
              /\ reservation[below] = authorization[below].model
          BY <2>2, <4>2, <4>3 DEF LedgerInv, SpentInv
        <4>5. authorization[below].model # reservation[root]
          BY <4>2, <4>3, <4>4 DEF EndpointInv
        <4> QED
          BY <4>1, <4>4, <4>5
      <3> QED
        BY <2>1, <3>1, <3>2
    <2> QED
      BY <2>1, <2>2, <2>3, <2>4
  <1> QED
    BY <1>3, <1>4

\* A repair of a missing endpoint, and every repair above it, runs on another
\* model than the original call did.
THEOREM EndpointRepairs == Spec => []EndpointRepairChangesModel
  <1>1. Init => EndpointInv
    BY DEF Init, EndpointInv, NoAuthorization
  <1>2. LedgerInv /\ EndpointInv => EndpointRepairChangesModel
    <2> SUFFICES ASSUME LedgerInv, EndpointInv, NEW id \in RepairId,
                        reservation[id] # NoModel, id[2] \in EndpointStage
                 PROVE  reservation[id] # reservation[<<id[1], "original">>]
      BY DEF EndpointRepairChangesModel, EndpointStage
    <2>1. /\ authorization[id].status # "absent"
          /\ reservation[id] = authorization[id].model
      BY DEF LedgerInv, SpentInv, EndpointStage
    <2> QED
      BY <2>1 DEF EndpointInv
  <1> QED
    BY <1>1, <1>2, EndpointStep, LedgerInvariant, PTL DEF Spec

-----------------------------------------------------------------------------
(* The refinement of OneShotCalls.                                          *)

\* Every step is an abstract grant, the spending of a right, a request under a
\* spent right, or a stutter.
LEMMA OneShotStep ==
  ASSUME LedgerInv, [Next]_vars
  PROVE  [OneShot!Next]_<<Right, paid>>
  <1> USE DEF LedgerInv
  <1>1. CASE UNCHANGED <<reservation, authorization, paid>>
    BY <1>1 DEF Right
  <1>2. ASSUME NEW t \in Task, NEW s \in Stage \ {"original"}, NEW m \in Model,
               Authorize(t, s, m)
        PROVE  [OneShot!Next]_<<Right, paid>>
    <2> DEFINE i == <<t, s>>
    <2>1. /\ i \in RepairId /\ i \in Id /\ authorization[i].status = "absent"
          /\ authorization' = [authorization EXCEPT
                                 ![i] = [status |-> "PENDING", model |-> m]]
          /\ reservation' = reservation
          /\ paid' = paid
      BY <1>2, RepairIdOf, RepairIds DEF Authorize, Grantable
    <2> HIDE DEF i
    <2>2. authorization \in [RepairId -> [status : {"absent", "PENDING", "CONSUMED"},
                                          model : Model \union {NoModel}]]
      BY DEF TypeOK
    <2>3. authorization'[i].status = "PENDING"
      BY <2>1, <2>2, SMT
    <2>4. \A j \in RepairId : j # i => authorization'[j] = authorization[j]
      BY <2>1, <2>2, SMT
    <2>5. Right[i] = "none" /\ Right' = [Right EXCEPT ![i] = "granted"]
      BY <2>1, <2>3, <2>4 DEF Right
    <2> QED
      BY <2>1, <2>5 DEF OneShot!Next, OneShot!Grant
  <1>3. ASSUME NEW p \in Process, Reserve(p)
        PROVE  [OneShot!Next]_<<Right, paid>>
    <2> DEFINE i == call[p].id
    <2>1. i \in Id /\ call[p].model \in Model
      BY <1>3, SMT DEF Reserve, TypeOK, Call
    <2>2. authorization' = authorization /\ paid' = paid
      BY <1>3 DEF Reserve
    <2>3. CASE reservation' = reservation
      BY <1>1, <2>2, <2>3
    <2>4. CASE reservation' # reservation
      <3>1. /\ reservation[i] = NoModel
            /\ reservation' = [reservation EXCEPT ![i] = call[p].model]
        BY <1>3, <2>4 DEF Reserve, Free
      <3> HIDE DEF i
      <3>2. CASE i \in RepairId
        <4>1. Right' = Right
          BY <2>1, <2>2, <3>1, <3>2, SMT DEF Right, TypeOK
        <4> QED
          BY <2>2, <4>1
      <3>3. CASE i \notin RepairId
        <4> DEFINE m == call[p].model
        <4>1. m # NoModel
          BY <2>1, BatchModels
        <4> HIDE DEF m
        <4>2. reservation \in [Id -> Model \union {NoModel}]
          BY DEF TypeOK
        <4>3. reservation' = [reservation EXCEPT ![i] = m]
          BY <3>1 DEF m
        <4>4. reservation'[i] # NoModel /\ \A j \in Id : j # i => reservation'[j] = reservation[j]
          BY <2>1, <4>1, <4>2, <4>3, SMT
        <4>5. Right[i] = "none" /\ Right' = [Right EXCEPT ![i] = "spent"]
          BY <2>1, <2>2, <3>1, <3>3, <4>4 DEF Right
        <4> QED
          BY <2>1, <2>2, <3>3, <4>5 DEF OneShot!Next, OneShot!Spend
      <3> QED
        BY <3>2, <3>3
    <2> QED
      BY <2>3, <2>4
  <1>4. ASSUME NEW p \in Process, Consume(p)
        PROVE  [OneShot!Next]_<<Right, paid>>
    <2> DEFINE i == call[p].id
    <2>1. i \in RepairId /\ authorization[i].status # "absent"
      BY <1>4 DEF Consume, TypeOK, SpentInv
    <2>2. reservation' = reservation /\ paid' = paid
      BY <1>4 DEF Consume
    <2>3. \/ authorization' = authorization
          \/ authorization' = [authorization EXCEPT ![i].status = "CONSUMED"]
      BY <1>4 DEF Consume
    <2> HIDE DEF i
    <2>4. \/ Right' = Right
          \/ Right[i] = "granted" /\ Right' = [Right EXCEPT ![i] = "spent"]
      BY <2>1, <2>2, <2>3, RepairIds, SMT DEF Right, TypeOK
    <2> QED
      BY <2>1, <2>2, <2>4, RepairIds DEF OneShot!Next, OneShot!Spend
  <1>5. ASSUME NEW p \in Process, SendSync(p) \/ SubmitBatch(p)
        PROVE  [OneShot!Next]_<<Right, paid>>
    <2> DEFINE i == call[p].id
               m == call[p].model
    <2>1. i \in Id /\ m \in Model /\ paid[i] \in Nat /\ attempt[p] \in 0 .. RetryLimit
      BY <1>5, SMT DEF SendSync, SubmitBatch, TypeOK, Call
    <2>2. /\ UNCHANGED <<reservation, authorization>>
          /\ paid' = [paid EXCEPT ![i] = @ + 1]
      BY <1>5 DEF SendSync, SubmitBatch, stored
    <2>3. AlwaysReserved(i) => paid[i] < RetryLimit + 1
      <3>1. CASE SendSync(p)
        <4>1. AlwaysReserved(i) => paid[i] <= attempt[p]
          BY <3>1 DEF SendSync, PaidInv
        <4> QED
          BY <2>1, <4>1, RetryLimitNat, SMT
      <3>2. CASE SubmitBatch(p)
        <4>1. AlwaysReserved(i) => paid[i] = 0
          BY <3>2 DEF SubmitBatch, PaidInv
        <4> QED
          BY <4>1, RetryLimitNat, SMT
      <3> QED
        BY <1>5, <3>1, <3>2
    <2>4. AlwaysReserved(i) => Right[i] = "spent"
      <3>1. CASE i \in RepairId
        <4>1. Spent(i)
          BY <1>5, <3>1 DEF SendSync, SubmitBatch, SpentInv
        <4> QED
          BY <2>1, <3>1, <4>1 DEF Right, Spent
      <3>2. CASE i \notin RepairId
        <4>1. AlwaysReserved(i) => reservation[i] = m
          BY <1>5, <2>1, ReservedFacts
             DEF SendSync, SubmitBatch, HolderInv, Holding
        <4> QED
          BY <2>1, <3>2, <4>1, BatchModels DEF Right
      <3> QED
        BY <3>1, <3>2
    <2>5. Right' = Right
      BY <2>2 DEF Right
    <2> QED
      BY <2>1, <2>2, <2>3, <2>4, <2>5 DEF OneShot!Next, OneShot!Send
  <1> QED
    BY <1>1, <1>2, <1>3, <1>4, <1>5
       DEF Next, vars, Execute, AnswerSync, PrepareBatch, BatchSubmitted, PollBatch,
           SubmissionTimeout, Record, Crash, OrphanSubmitted, stored

\* The files, processes and transports of ProviderLedger keep the promise of
\* OneShotCalls: a granted right is spent once, and only a spent right is sent.
THEOREM Implementation == Spec => ImplementsOneShotCalls
  <1>1. Init => OneShot!Init
    BY DEF Init, OneShot!Init, Right, NoAuthorization
  <1> QED
    BY <1>1, OneShotStep, LedgerInvariant, PTL
       DEF Spec, ImplementsOneShotCalls, OneShot!Spec, OneShot!vars

=============================================================================
