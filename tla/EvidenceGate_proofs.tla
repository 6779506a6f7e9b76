-------------------------- MODULE EvidenceGate_proofs --------------------------
(***************************************************************************)
(* Proofs about EvidenceGate, for any number of concurrent commands,       *)
(* reviews and requests.  The argument: a decision file is created once    *)
(* and a review judged once, so that what any copy of the state knows      *)
(* about them stays true, however old the copy is; and a command that      *)
(* hands over holds the very evidence of its decision file.                *)
(***************************************************************************)
EXTENDS EvidenceGate, TLAPS

\* A copy of the state shows a review that was made, and no decision but its own.
Sound(s) ==
  /\ class[s.review] # NoKind
  /\ s.decision # NoKind => Filed(s.review) /\ files[s.review].kind = s.decision

StatesInv ==
  /\ class[1] # NoKind
  /\ Sound(disk)
  /\ \A p \in Process : Sound(mem[p])

\* The human was allowed to decide so, on a review that was made.
FilesInv ==
  /\ NothingOverridden
  /\ \A r \in Review : Filed(r) => files[r].kind \in Kind /\ class[r] # NoKind

\* The decision of the copy of p is on file, for the evidence it shows.
Decided(p) == Filed(mem[p].review) /\ Fits(mem[p]) /\ mem[p].decision # NoKind

\* Where a command holds the evidence of a filed decision, and where it may hand over.
Holding == {"plan", "filed", "adopted", "block", "finalize", "canonical", "sent"}

HandingOver == {"filed", "finalize", "canonical", "sent"}

CommandOK(p) ==
  /\ pc[p] = "claim" => Eligible(mem[p]) /\ wants[p] \in Allowed(mem[p])
  /\ pc[p] \in Holding => Decided(p)
  /\ pc[p] \in HandingOver => files[mem[p].review].kind \in Handing

CommandsInv == \A p \in Process : CommandOK(p)

\* What was handed over is about reviews.
HandedInv ==
  /\ HandoffWasDecided
  /\ outbox # NoMail => outbox.evidence.review \in Review
  /\ \A x \in results : x.evidence.review \in Review

IInv == TypeOK /\ StatesInv /\ FilesInv /\ CommandsInv /\ HandedInv

USE DEF Review, Request, Kind, Handing, Class, NoKind

-----------------------------------------------------------------------------

LEMMA BlankOK == Blank \in State /\ EvidenceOf(Blank) \in Evidence
BY BoundAssumption DEF Blank, State, Status, Phase, Evidence, EvidenceOf

LEMMA NoFileOK == NoFile \in File /\ NoFile.evidence \in Evidence /\ NoFile.kind = NoKind
BY DEF NoFile, File, Evidence, EvidenceOf

LEMMA InitInv == Init => IInv
<1> SUFFICES ASSUME Init PROVE IInv
  OBVIOUS
<1> USE BoundAssumption
<1>1. TypeOK
  <2>1. disk \in State
    BY BlankOK DEF Init, Blank, State, Status
  <2>2. /\ mem \in [Process -> State]
        /\ pc \in [Process -> Pc]
        /\ wants \in [Process -> Kind \union {"repair"}]
    BY BlankOK DEF Init, Pc
  <2>3. /\ class \in [Review -> Class \union {NoKind}]
        /\ files \in [Review -> File]
        /\ outbox \in [request : {0} \union Request, evidence : Evidence]
    BY NoFileOK DEF Init, NoMail
  <2> QED
    BY <2>1, <2>2, <2>3 DEF Init, TypeOK
<1>2. StatesInv
  BY DEF Init, StatesInv, Sound, Blank
<1>3. \A r \in Review : ~Filed(r)
  BY DEF Init, Filed
<1>4. FilesInv /\ CommandsInv
  BY <1>3 DEF Init, FilesInv, NothingOverridden, CommandsInv, CommandOK, Holding, HandingOver
<1>5. HandedInv
  BY DEF Init, HandedInv, HandoffWasDecided
<1> QED
  BY <1>1, <1>2, <1>4, <1>5 DEF IInv

-----------------------------------------------------------------------------
(* Types.                                                                  *)

\* What the operators do to a state.
LEMMA StateOps ==
  ASSUME NEW s \in State
  PROVE  /\ Prepared(s) \in State
         /\ EvidenceOf(s) \in Evidence
         /\ Mail(s) \in [request : {0} \union Request, evidence : Evidence]
BY BoundAssumption DEF State, Status, Prepared, EvidenceOf, Evidence, Mail

LEMMA StateFields ==
  ASSUME NEW s \in State
  PROVE  /\ s.review \in Review
         /\ s.pending \in {0} \union Request
         /\ s.phase \in Phase
         /\ s.decision \in Kind \union {NoKind}
BY BoundAssumption DEF State

LEMMA TypeStep == ASSUME TypeOK, CommandsInv, [Next]_vars PROVE TypeOK'
<1> USE BoundAssumption, BlankOK
<1>1. ASSUME NEW p \in Process, Step(p) PROVE TypeOK'
  <2> DEFINE s == mem[p]
  <2>0. s \in State /\ Prepared(s) \in State
    BY StateOps DEF TypeOK
  <2>a. s.review \in Review
    BY <2>0, StateFields
  <2>1. CASE Prepare(p)
    BY <2>0, <2>1 DEF Prepare, Save, SaveAndEnd, Goto, Pc, TypeOK
  <2>2. CASE PrepareRepaired(p)
    <3>1. [s EXCEPT !.repaired = TRUE] \in State
      BY <2>0 DEF State
    <3> QED
      BY <2>2, <3>1, StateOps DEF PrepareRepaired, SaveAndEnd, Goto, Pc, TypeOK
  <2>3. CASE Claim(p)
    <3>1. disk' \in State
      BY <2>3 DEF Claim, Load, TypeOK
    <3>2. mem' \in [Process -> State]
      <4>1. wants[p] \in Kind => [s EXCEPT !.decision = wants[p]] \in State
        BY <2>0 DEF State
      <4>2. CASE MayClaim(s.review)
        <5>1. wants[p] \in Kind
          BY <2>3 DEF Claim, CommandsInv, CommandOK, Allowed
        <5>2. mem' = [mem EXCEPT ![p] = [s EXCEPT !.decision = wants[p]]]
          BY <2>3, <4>2 DEF Claim, TypeOK
        <5> QED
          BY <4>1, <5>1, <5>2 DEF TypeOK
      <4>3. CASE ~MayClaim(s.review)
        BY <2>3, <4>3 DEF Claim, Load, TypeOK
      <4> QED
        BY <4>2, <4>3
    <3>3. files' \in [Review -> File]
      <4>1. CASE MayClaim(s.review)
        <5>1. [kind |-> wants[p], evidence |-> EvidenceOf(s)] \in File
          <6>1. wants[p] \in Kind
            BY <2>3 DEF Claim, CommandsInv, CommandOK, Allowed
          <6> QED
            BY <2>0, <6>1, StateOps DEF File
        <5>2. files' = [files EXCEPT ![s.review] =
                          [kind |-> wants[p], evidence |-> EvidenceOf(s)]]
          BY <2>3, <4>1 DEF Claim
        <5> QED
          BY <2>a, <5>1, <5>2 DEF TypeOK
      <4>2. CASE ~MayClaim(s.review)
        BY <2>3, <4>2 DEF Claim, TypeOK
      <4> QED
        BY <4>1, <4>2
    <3> QED
      BY <2>3, <3>1, <3>2, <3>3 DEF Claim, Goto, Pc, TypeOK
  <2>4. CASE SaveDecision(p)
    <3>1. [s EXCEPT !.status = "FINALIZING"] \in State
      BY <2>0 DEF State, Status
    <3> QED
      BY <2>4, <3>1 DEF SaveDecision, Save, Goto, Pc, TypeOK
  <2>5. CASE PlanRevision(p)
    BY <2>a, <2>5 DEF PlanRevision, TypeOK
  <2>6. CASE SavePlan(p)
    <3>1. [s EXCEPT !.phase = "authorization_required", !.status = "BLOCKED"] \in State
      BY <2>0 DEF State, Status, Phase
    <3> QED
      BY <2>6, <3>1 DEF SavePlan, SaveAndEnd, Goto, Pc, TypeOK
  <2>7. CASE RecoverUndecided(p)
    BY <2>0, <2>7 DEF RecoverUndecided, SaveAndEnd, End, Goto, Pc, TypeOK
  <2>8. CASE Adopt(p)
    <3> DEFINE ph == IF files[s.review].kind = "REVISE" /\ s.phase = "idle"
                     THEN "authorization_required" ELSE s.phase
    <3>1. files[s.review].kind \in Kind \union {NoKind}
      <4>1. files[s.review] \in File
        BY <2>a DEF TypeOK
      <4> QED
        BY <4>1 DEF File
    <3>2. [[s EXCEPT !.decision = files[s.review].kind] EXCEPT !.phase = ph] \in State
      BY <2>0, <3>1 DEF State, Phase
    <3>3. mem' = [mem EXCEPT ![p] =
                    [[s EXCEPT !.decision = files[s.review].kind] EXCEPT !.phase = ph]]
      BY <2>8 DEF Adopt, TypeOK, State
    <3> QED
      BY <2>a, <2>8, <3>2, <3>3 DEF Adopt, Goto, Pc, TypeOK
  <2>9. CASE SaveAdopted(p)
    BY <2>0, <2>9 DEF SaveAdopted, Save, After, Goto, Pc, TypeOK
  <2>10. CASE AlreadyAdopted(p)
    BY <2>10 DEF AlreadyAdopted, After, Goto, Pc, TypeOK
  <2>11. CASE BlockForOperator(p)
    <3>1. [s EXCEPT !.status = "BLOCKED"] \in State
      BY <2>0 DEF State, Status
    <3> QED
      BY <2>11, <3>1 DEF BlockForOperator, SaveAndEnd, Goto, Pc, TypeOK
  <2>12. CASE Deliver(p)
    BY <2>0, <2>12, StateOps DEF Deliver, Goto, Pc, TypeOK
  <2>13. CASE DeliverResult(p)
    <3>1. s.pending \in {0} \union Request /\ EvidenceOf(s) \in Evidence
      BY <2>0, StateOps DEF State
    <3> QED
      BY <2>13, <3>1 DEF DeliverResult, Goto, Pc, TypeOK
  <2>14. CASE SaveSent(p)
    <3> DEFINE t(x) == [s EXCEPT !.status = x, !.pending = 0]
    <3>1. t("COMPLETED") \in State /\ t("COMPLETED_REVISION") \in State
      BY <2>0 DEF State, Status
    <3> QED
      BY <2>14, <3>1 DEF SaveSent, SaveAndEnd, Goto, Pc, TypeOK
  <2>15. CASE HandoffFails(p)
    <3>1. [s EXCEPT !.status = "FAILED"] \in State
      BY <2>0 DEF State, Status
    <3> QED
      BY <2>15, <3>1 DEF HandoffFails, SaveAndEnd, Goto, Pc, TypeOK
  <2>16. CASE Build(p)
    <3>1. built' \in 1 .. MaxReviews /\ built' \in Nat
      BY <2>16 DEF Build, TypeOK
    <3>2. [s EXCEPT !.report = built', !.repaired = FALSE] \in State
      BY <2>0, <3>1 DEF State
    <3> QED
      BY <2>16, <3>1, <3>2 DEF Build, Save, Goto, Pc, TypeOK
  <2>17. ASSUME NEW c \in Class, ReviewAgain(p, c) PROVE TypeOK'
    <3>1. PICK r \in Review : /\ class' = [class EXCEPT ![r] = c]
                              /\ SaveAndEnd(p, Reviewed(p, c, r))
      BY <2>17 DEF ReviewAgain, Unreviewed
    <3>2. Reviewed(p, c, r) \in State
      <4> DEFINE ph == IF s.phase = "executing" THEN "completed" ELSE s.phase
                 st == IF c \in {"clean", "gaps"} THEN "WAITING_HUMAN_EVIDENCE_REVIEW"
                       ELSE "BLOCKED"
      <4>1. ph \in Phase /\ st \in Status
        BY <2>0, StateFields DEF Phase, Status
      <4> HIDE DEF ph, st
      <4>2. [s EXCEPT !.review = r, !.decision = NoKind, !.phase = ph, !.status = st] \in State
        BY <2>0, <4>1 DEF State
      <4>3. Reviewed(p, c, r) =
              [s EXCEPT !.review = r, !.decision = NoKind, !.phase = ph, !.status = st]
        BY DEF Reviewed, AfterReview, ph, st
      <4> QED
        BY <4>2, <4>3
    <3>3. disk' \in State /\ mem' \in [Process -> State] /\ pc' \in [Process -> Pc]
      BY <3>1, <3>2 DEF SaveAndEnd, Goto, Pc, TypeOK
    <3>4. class' \in [Review -> Class \union {NoKind}]
      BY <3>1 DEF TypeOK
    <3> QED
      BY <2>17, <3>3, <3>4 DEF ReviewAgain, TypeOK
  <2> QED
    BY <1>1, <2>1, <2>2, <2>3, <2>4, <2>5, <2>6, <2>7, <2>8, <2>9, <2>10, <2>11, <2>12,
       <2>13, <2>14, <2>15, <2>16, <2>17 DEF Step
<1>2. ASSUME NEW p \in Process, NEW k \in Kind, Decide(p, k) PROVE TypeOK'
  BY <1>2 DEF Decide, Load, Goto, Pc, TypeOK
<1>3. ASSUME NEW p \in Process, Repair(p) \/ Recover(p) PROVE TypeOK'
  BY <1>3 DEF Repair, Recover, Load, Goto, Pc, TypeOK
<1>4. ASSUME NEW p \in Process, StartInternal(p) PROVE TypeOK'
  <2>1. [disk EXCEPT !.phase = "executing", !.status = "RUNNING"] \in State
    BY DEF State, Status, Phase, TypeOK
  <2> QED
    BY <1>4, <2>1 DEF StartInternal, Save, Goto, Pc, TypeOK
<1>5. ASSUME NEW p \in Process, StartExternal(p) PROVE TypeOK'
  <2>1. Len(asked) \in {0} \union Request
    BY DEF TypeOK
  <2>2. /\ [disk EXCEPT !.status = "COMPLETED_REVISION", !.pending = 0] \in State
        /\ [disk EXCEPT !.status = "RUNNING", !.pending = Len(asked)] \in State
    BY <2>1 DEF State, Status, TypeOK
  <2>3. disk' \in State
    BY <1>5, <2>2 DEF StartExternal, Save
  <2>4. mem' \in [Process -> State] /\ pc' \in [Process -> Pc]
    <3>1. CASE outbox.request = Len(asked)
      BY <1>5, <3>1 DEF StartExternal, TypeOK
    <3>2. CASE outbox.request # Len(asked)
      <4>1. /\ mem' = [mem EXCEPT ![p] = [disk EXCEPT !.status = "RUNNING",
                                                     !.pending = Len(asked)]]
            /\ pc' = [pc EXCEPT ![p] = "build"]
        BY <1>5, <3>2 DEF StartExternal, Save, Goto
      <4> QED
        BY <2>2, <4>1 DEF Pc, TypeOK
    <3> QED
      BY <3>1, <3>2
  <2> QED
    BY <1>5, <2>3, <2>4 DEF StartExternal, TypeOK
<1>6. ASSUME NEW p \in Process, Crash(p) PROVE TypeOK'
  BY <1>6 DEF Crash, End, Goto, Pc, TypeOK
<1>7. CASE Ask
  BY <1>7 DEF Ask, TypeOK
<1>8. CASE UNCHANGED vars
  BY <1>8 DEF vars, TypeOK
<1> QED
  BY <1>1, <1>2, <1>3, <1>4, <1>5, <1>6, <1>7, <1>8 DEF Next

-----------------------------------------------------------------------------
(* What is on file and what was found stay.                                *)

Kept ==
  \A r \in Review :
    /\ Filed(r) => files'[r] = files[r]
    /\ class[r] # NoKind => class'[r] = class[r]

\* Who writes what outlives a command.
LEMMA WhoWrites ==
  ASSUME [Next]_vars
  PROVE  /\ \/ UNCHANGED <<class, files>>
            \/ \E p \in Process : Claim(p) \/ \E c \in Class : ReviewAgain(p, c)
         /\ \/ UNCHANGED <<outbox, results>>
            \/ \E p \in Process : Deliver(p) \/ DeliverResult(p)
<1>1. ASSUME NEW p \in Process, Step(p), ~Claim(p), \A c \in Class : ~ReviewAgain(p, c)
      PROVE  UNCHANGED <<class, files>>
  BY <1>1 DEF Step, Prepare, PrepareRepaired, SaveDecision, PlanRevision, SavePlan,
     RecoverUndecided, Adopt, SaveAdopted, AlreadyAdopted, BlockForOperator, Deliver,
     DeliverResult, SaveSent, HandoffFails, Build
<1>2. ASSUME NEW p \in Process, Step(p), ~Deliver(p), ~DeliverResult(p)
      PROVE  UNCHANGED <<outbox, results>>
  BY <1>2 DEF Step, Prepare, PrepareRepaired, Claim, SaveDecision, PlanRevision, SavePlan,
     RecoverUndecided, Adopt, SaveAdopted, AlreadyAdopted, BlockForOperator,
     SaveSent, HandoffFails, Build, ReviewAgain
<1>3. ASSUME NEW p \in Process,
             \/ \E k \in Kind : Decide(p, k)
             \/ Repair(p) \/ Recover(p) \/ StartInternal(p) \/ StartExternal(p) \/ Crash(p)
      PROVE  UNCHANGED <<class, files, outbox, results>>
  BY <1>3 DEF Decide, Repair, Recover, StartInternal, StartExternal, Crash
<1>4. CASE Ask \/ UNCHANGED vars
  BY <1>4 DEF Ask, vars
<1> QED
  BY <1>1, <1>2, <1>3, <1>4 DEF Next

LEMMA KeptStep == ASSUME TypeOK, [Next]_vars PROVE Kept
<1>1. ASSUME NEW p \in Process, Claim(p) PROVE Kept
  BY <1>1 DEF Claim, MayClaim, Kept, TypeOK
<1>2. ASSUME NEW p \in Process, NEW c \in Class, ReviewAgain(p, c) PROVE Kept
  BY <1>2 DEF ReviewAgain, Unreviewed, Kept, TypeOK
<1>3. UNCHANGED <<class, files>> => Kept
  BY DEF Kept
<1> QED
  BY <1>1, <1>2, <1>3, WhoWrites

-----------------------------------------------------------------------------
(* The copies of the state.                                                *)

\* What command p does, alone or in a step of another kind than Ask.
Acts(p) ==
  \/ Step(p)
  \/ \E k \in Kind : Decide(p, k)
  \/ Repair(p) \/ Recover(p) \/ StartInternal(p) \/ StartExternal(p) \/ Crash(p)

LEMMA OthersStay ==
  ASSUME TypeOK, NEW p \in Process, NEW q \in Process, q # p, Acts(p)
  PROVE  mem'[q] = mem[q] /\ pc'[q] = pc[q] /\ wants'[q] = wants[q]
<1> USE DEF Save, SaveAndEnd, End, Load, Goto, TypeOK
<1>1. CASE Step(p)
  <2>1. CASE Prepare(p) \/ PrepareRepaired(p) \/ Claim(p) \/ SaveDecision(p) \/ PlanRevision(p)
    BY <2>1 DEF Prepare, PrepareRepaired, Claim, SaveDecision, PlanRevision
  <2>2. CASE SavePlan(p) \/ RecoverUndecided(p) \/ Adopt(p) \/ SaveAdopted(p) \/ AlreadyAdopted(p)
    BY <2>2 DEF SavePlan, RecoverUndecided, Adopt, SaveAdopted, AlreadyAdopted
  <2>3. CASE BlockForOperator(p) \/ Deliver(p) \/ DeliverResult(p) \/ SaveSent(p)
    BY <2>3 DEF BlockForOperator, Deliver, DeliverResult, SaveSent
  <2>4. CASE HandoffFails(p) \/ Build(p) \/ \E c \in Class : ReviewAgain(p, c)
    BY <2>4 DEF HandoffFails, Build, ReviewAgain
  <2> QED
    BY <1>1, <2>1, <2>2, <2>3, <2>4 DEF Step
<1>2. CASE \E k \in Kind : Decide(p, k)
  BY <1>2 DEF Decide
<1>3. CASE Repair(p) \/ Recover(p) \/ StartInternal(p) \/ StartExternal(p) \/ Crash(p)
  BY <1>3 DEF Repair, Recover, StartInternal, StartExternal, Crash
<1> QED
  BY <1>1, <1>2, <1>3 DEF Acts

\* A copy with the review of a sound one and the same decision, or none, is sound.
LEMMA StatesStep ==
  ASSUME TypeOK, TypeOK', StatesInv, FilesInv, CommandsInv, Kept, [Next]_vars
  PROVE  StatesInv'
<1> USE BoundAssumption
<1> DEFINE Like(t, s) == t.review = s.review /\ t.decision \in {s.decision, NoKind}
<1>0. /\ disk \in State /\ disk' \in State /\ disk.review \in Review
      /\ \A p \in Process : mem[p] \in State /\ mem'[p] \in State /\ mem[p].review \in Review
  BY StateFields DEF TypeOK
<1>1. class'[1] # NoKind
  BY DEF Kept, StatesInv
<1>2. /\ Like(disk', disk) => Sound(disk)'
      /\ \A p \in Process : Like(disk', mem[p]) => Sound(disk)'
  BY <1>0 DEF Kept, Sound, Filed, StatesInv
<1>3. \A p \in Process : Like(mem'[p], mem[p]) \/ Like(mem'[p], disk) => Sound(mem[p])'
  BY <1>0 DEF Kept, Sound, Filed, StatesInv
<1>4. \A p \in Process : mem'[p] = Blank => Sound(mem[p])'
  BY <1>1 DEF Blank, Sound
<1> HIDE DEF Like
<1>5. ASSUME NEW p \in Process, Step(p) PROVE Sound(disk)' /\ Sound(mem[p])'
  <2> USE DEF Save, SaveAndEnd, End, Load
  <2>1. ASSUME Like(disk', disk) \/ Like(disk', mem[p]),
               Like(mem'[p], disk) \/ Like(mem'[p], mem[p]) \/ mem'[p] = Blank
        PROVE  Sound(disk)' /\ Sound(mem[p])'
    BY <1>2, <1>3, <1>4, <2>1
  <2>2. CASE Prepare(p)
    BY <1>0, <2>1, <2>2 DEF Prepare, Prepared, TypeOK, State, Like
  <2>3. CASE PrepareRepaired(p)
    BY <1>0, <2>1, <2>3 DEF PrepareRepaired, Prepared, TypeOK, State, Like
  <2>4. CASE SaveDecision(p)
    BY <1>0, <2>1, <2>4 DEF SaveDecision, TypeOK, State, Like
  <2>5. CASE PlanRevision(p)
    BY <1>0, <2>1, <2>5 DEF PlanRevision, TypeOK, State, Like
  <2>6. CASE SavePlan(p)
    BY <1>0, <2>1, <2>6 DEF SavePlan, TypeOK, State, Like
  <2>7. CASE RecoverUndecided(p)
    BY <1>0, <2>1, <2>7 DEF RecoverUndecided, Prepared, TypeOK, State, Like
  <2>8. CASE SaveAdopted(p)
    BY <1>0, <2>1, <2>8 DEF SaveAdopted, TypeOK, State, Like
  <2>9. CASE AlreadyAdopted(p)
    BY <1>0, <2>1, <2>9 DEF AlreadyAdopted, TypeOK, State, Like
  <2>10. CASE BlockForOperator(p)
    BY <1>0, <2>1, <2>10 DEF BlockForOperator, TypeOK, State, Like
  <2>11. CASE Deliver(p)
    BY <1>0, <2>1, <2>11 DEF Deliver, TypeOK, State, Like
  <2>12. CASE DeliverResult(p)
    BY <1>0, <2>1, <2>12 DEF DeliverResult, TypeOK, State, Like
  <2>13. CASE SaveSent(p)
    BY <1>0, <2>1, <2>13 DEF SaveSent, TypeOK, State, Like
  <2>14. CASE HandoffFails(p)
    BY <1>0, <2>1, <2>14 DEF HandoffFails, TypeOK, State, Like
  <2>15. CASE Build(p)
    BY <1>0, <2>1, <2>15 DEF Build, TypeOK, State, Like
  <2>16. CASE Claim(p)
    <3>1. Like(disk', disk)
      BY <2>16 DEF Claim, Like
    <3>2. CASE MayClaim(mem[p].review)
      <4>1. wants[p] \in Kind
        BY <2>16 DEF Claim, CommandsInv, CommandOK, Allowed
      <4>2. /\ files'[mem[p].review].kind = wants[p]
            /\ mem'[p].review = mem[p].review
        BY <1>0, <2>16, <3>2 DEF Claim, TypeOK, State
      <4>3. mem'[p].decision = wants[p]
        BY <1>0, <2>16, <3>2 DEF Claim, TypeOK, State
      <4>4. Filed(mem[p].review)'
        BY <4>1, <4>2 DEF Filed, NoFile
      <4>5. class'[mem[p].review] # NoKind
        BY <1>0 DEF Kept, StatesInv, Sound
      <4> QED
        BY <1>2, <3>1, <4>2, <4>3, <4>4, <4>5 DEF Sound
    <3>3. CASE ~MayClaim(mem[p].review)
      BY <1>0, <2>1, <2>16, <3>1, <3>3 DEF Claim, TypeOK, Like
    <3> QED
      BY <3>2, <3>3
  <2>17. CASE Adopt(p)
    <3>1. disk' = disk /\ files' = files /\ class' = class
      BY <2>17 DEF Adopt
    <3>2. /\ mem'[p].review = mem[p].review
          /\ mem'[p].decision = files[mem[p].review].kind
      <4> DEFINE s == mem[p]
                 ph == IF files[s.review].kind = "REVISE" /\ s.phase = "idle"
                       THEN "authorization_required" ELSE s.phase
      <4>1. mem'[p] = [[s EXCEPT !.decision = files[s.review].kind] EXCEPT !.phase = ph]
        BY <2>17 DEF Adopt, TypeOK, State
      <4> HIDE DEF ph
      <4> QED
        BY <1>0, <4>1 DEF State
    <3>3. Filed(mem[p].review) /\ class[mem[p].review] # NoKind
      BY <2>17 DEF Adopt, StatesInv, Sound
    <3> QED
      BY <3>1, <3>2, <3>3 DEF StatesInv, Sound, Filed
  <2>18. ASSUME NEW c \in Class, ReviewAgain(p, c) PROVE Sound(disk)' /\ Sound(mem[p])'
    <3>1. PICK r \in Review : /\ class' = [class EXCEPT ![r] = c]
                              /\ disk' = Reviewed(p, c, r)
      BY <2>18 DEF ReviewAgain, Unreviewed
    <3>2. disk'.review = r /\ disk'.decision = NoKind
      BY <1>0, <3>1 DEF Reviewed, AfterReview, State
    <3>3. class'[r] # NoKind
      BY <3>1 DEF TypeOK
    <3>4. mem'[p] = Blank
      BY <2>18 DEF ReviewAgain, TypeOK
    <3> QED
      BY <1>4, <3>2, <3>3, <3>4 DEF Sound
  <2> QED
    BY <1>5, <2>2, <2>3, <2>4, <2>5, <2>6, <2>7, <2>8, <2>9, <2>10,
       <2>11, <2>12, <2>13, <2>14, <2>15, <2>16, <2>17, <2>18 DEF Step
<1>6. ASSUME NEW p \in Process,
             \/ \E k \in Kind : Decide(p, k)
             \/ Repair(p) \/ Recover(p) \/ Crash(p)
      PROVE  Like(disk', disk) /\ (Like(mem'[p], disk) \/ mem'[p] = Blank)
  BY <1>0, <1>6 DEF Decide, Repair, Recover, Crash, Load, End, Like, TypeOK
<1>7. ASSUME NEW p \in Process, StartInternal(p) \/ StartExternal(p)
      PROVE  Like(disk', disk) /\ (Like(mem'[p], disk) \/ Like(mem'[p], mem[p]))
  <2>1. CASE StartInternal(p)
    BY <1>0, <2>1 DEF StartInternal, Save, Like, State, TypeOK
  <2>2. CASE StartExternal(p) /\ outbox.request = Len(asked)
    BY <1>0, <2>2 DEF StartExternal, Like, State, TypeOK
  <2>3. CASE StartExternal(p) /\ outbox.request # Len(asked)
    <3>1. /\ disk' = [disk EXCEPT !.status = "RUNNING", !.pending = Len(asked)]
          /\ mem'[p] = disk'
      BY <2>3 DEF StartExternal, Save, TypeOK
    <3> QED
      BY <1>0, <3>1 DEF Like, State
  <2> QED
    BY <1>7, <2>1, <2>2, <2>3
<1>8. ASSUME NEW p \in Process, NEW q \in Process, q # p, Acts(p)
      PROVE  mem'[q] = mem[q]
  BY <1>8, OthersStay
<1>9. CASE Ask \/ UNCHANGED vars
  BY <1>0, <1>1, <1>2, <1>3, <1>9 DEF Ask, vars, Like, StatesInv
<1> QED
  BY <1>1, <1>2, <1>3, <1>4, <1>5, <1>6, <1>7, <1>8, <1>9 DEF Next, Acts, StatesInv, Like

-----------------------------------------------------------------------------
(* The decision files.                                                     *)

\* A file is created for a review that was made, by a command that was allowed to.
LEMMA FilesStep ==
  ASSUME TypeOK, StatesInv, FilesInv, CommandsInv, [Next]_vars
  PROVE  FilesInv'
<1> USE BoundAssumption
<1> DEFINE Fine(r) ==
      Filed(r) => /\ files[r].kind \in Kind /\ class[r] # NoKind
                  /\ class[r] # "hard"
                  /\ class[r] = "tracking" => files[r].evidence.repaired
                  /\ class[r] = "clean" <=> files[r].kind = "ACCEPT"
<1>0. FilesInv <=> \A r \in Review : Fine(r)
  BY DEF FilesInv, NothingOverridden
<1>1. ASSUME NEW p \in Process, Claim(p), NEW r \in Review PROVE Fine(r)'
  <2> DEFINE s == mem[p]
  <2>0. s \in State /\ s.review \in Review
    BY StateFields DEF TypeOK
  <2>1. class' = class
    BY <1>1 DEF Claim
  <2>2. CASE MayClaim(s.review) /\ r = s.review
    <3>1. files'[r] = [kind |-> wants[p], evidence |-> EvidenceOf(s)]
      BY <1>1, <2>0, <2>2 DEF Claim, TypeOK
    <3>2. Eligible(s) /\ wants[p] \in Allowed(s)
      BY <1>1 DEF Claim, CommandsInv, CommandOK
    <3>3. files'[r].kind = wants[p] /\ files'[r].evidence.repaired = s.repaired
      BY <3>1 DEF EvidenceOf
    <3> QED
      BY <2>1, <2>2, <3>2, <3>3 DEF Eligible, Allowed, StatesInv, Sound
  <2>3. CASE ~MayClaim(s.review) \/ r # s.review
    <3>1. files'[r] = files[r]
      BY <1>1, <2>0, <2>3 DEF Claim, TypeOK
    <3> QED
      BY <1>0, <2>1, <3>1 DEF Filed
  <2> QED
    BY <2>2, <2>3
<1>2. ASSUME NEW p \in Process, NEW c \in Class, ReviewAgain(p, c), NEW r \in Review
      PROVE  Fine(r)'
  BY <1>0, <1>2 DEF ReviewAgain, Unreviewed, Filed, TypeOK
<1>3. CASE UNCHANGED <<class, files>>
  BY <1>3 DEF FilesInv, NothingOverridden, Filed
<1> QED
  BY <1>0, <1>1, <1>2, <1>3, WhoWrites DEF FilesInv, NothingOverridden

-----------------------------------------------------------------------------
(* The commands.                                                           *)

\* A command that holds its place and its copy: the files it knows of stay.
LEMMA Waiting ==
  ASSUME TypeOK, StatesInv, CommandsInv, Kept, NEW q \in Process,
         mem'[q] = mem[q], pc'[q] = pc[q], wants'[q] = wants[q]
  PROVE  CommandOK(q)'
<1>1. mem[q].review \in Review /\ class[mem[q].review] # NoKind
  BY StateFields DEF TypeOK, StatesInv, Sound
<1>2. class'[mem[q].review] = class[mem[q].review]
  BY <1>1 DEF Kept
<1>3. Filed(mem[q].review) => files'[mem[q].review] = files[mem[q].review]
  BY <1>1 DEF Kept
<1>4. CommandOK(q)
  BY DEF CommandsInv
<1>5. pc[q] = "claim" => Eligible(mem[q])' /\ wants'[q] \in Allowed(mem[q])'
  BY <1>2, <1>4 DEF CommandOK, Eligible, Allowed
<1>6. pc[q] \in Holding => Decided(q)' /\ files'[mem[q].review] = files[mem[q].review]
  BY <1>3, <1>4 DEF CommandOK, Decided, Filed, Fits
<1>7. HandingOver \subseteq Holding
  BY DEF Holding, HandingOver
<1> QED
  BY <1>4, <1>5, <1>6, <1>7 DEF CommandOK

LEMMA CommandsStep ==
  ASSUME TypeOK, TypeOK', StatesInv, StatesInv', FilesInv, CommandsInv, Kept, [Next]_vars
  PROVE  CommandsInv'
<1> USE BoundAssumption
<1>1. ASSUME NEW p \in Process, Step(p) PROVE CommandOK(p)'
  <2> USE DEF Holding, HandingOver
  <2> DEFINE s == mem[p]
  <2>0. s \in State /\ s.review \in Review /\ CommandOK(p) /\ mem'[p] \in State
    BY StateFields DEF TypeOK, CommandsInv
  <2>1. pc'[p] \in {"idle", "recover", "build", "review"} => CommandOK(p)'
    BY DEF CommandOK
  <2>2. ASSUME pc'[p] \in Holding, files' = files, Decided(p),
               EvidenceOf(mem'[p]) = EvidenceOf(s),
               mem'[p].review = s.review, mem'[p].decision = s.decision,
               pc'[p] \in HandingOver => files[s.review].kind \in Handing
        PROVE  CommandOK(p)'
    BY <2>2 DEF CommandOK, Decided, Filed, Fits
  <2>3. CASE Prepare(p)
    <3>1. class' = class
      BY <2>3 DEF Prepare
    <3>2. CASE pc'[p] = "claim"
      <4>1. mem'[p] = Prepared(s) /\ wants' = wants
        BY <2>3, <3>2 DEF Prepare, Save, SaveAndEnd, Goto, TypeOK
      <4>2. Eligible(mem'[p]) /\ wants[p] \in Allowed(mem'[p])
        BY <2>3, <3>2, <4>1 DEF Prepare, SaveAndEnd, Goto, TypeOK
      <4> QED
        BY <3>1, <3>2, <4>1, <4>2 DEF CommandOK, Eligible, Allowed
    <3> QED
      BY <2>1, <2>3, <3>2 DEF Prepare, SaveAndEnd, Goto, TypeOK
  <2>4. CASE \/ PrepareRepaired(p) \/ SavePlan(p) \/ RecoverUndecided(p)
            \/ BlockForOperator(p)
    BY <2>1, <2>4 DEF PrepareRepaired, SavePlan, RecoverUndecided, BlockForOperator,
       SaveAndEnd, End, Goto, TypeOK
  <2>5. CASE \/ SaveSent(p) \/ HandoffFails(p) \/ Build(p)
            \/ \E c \in Class : ReviewAgain(p, c)
    BY <2>1, <2>5 DEF SaveSent, HandoffFails, Build, ReviewAgain, SaveAndEnd, Goto, TypeOK
  <2>6. CASE Claim(p)
    <3>1. CASE MayClaim(s.review)
      <4> DEFINE f == [kind |-> wants[p], evidence |-> EvidenceOf(s)]
      <4>1. wants[p] \in Kind /\ pc[p] = "claim"
        BY <2>0, <2>6 DEF Claim, CommandOK, Allowed
      <4>2. files'[s.review] = f
        BY <2>0, <2>6, <3>1 DEF Claim, TypeOK
      <4>3. mem'[p] = [s EXCEPT !.decision = wants[p]]
        BY <2>6, <3>1 DEF Claim, TypeOK
      <4>4. pc'[p] = IF wants[p] = "REVISE" THEN "plan" ELSE "filed"
        BY <2>6, <3>1 DEF Claim, Goto, TypeOK
      <4>5. /\ EvidenceOf(mem'[p]) = EvidenceOf(s)
            /\ mem'[p].review = s.review /\ mem'[p].decision = wants[p]
        BY <2>0, <4>3 DEF EvidenceOf, State
      <4>6. f # NoFile /\ f.kind = wants[p] /\ f.evidence = EvidenceOf(s)
        BY <4>1 DEF NoFile
      <4> HIDE DEF f
      <4>7. Decided(p)'
        BY <4>1, <4>2, <4>5, <4>6 DEF Decided, Filed, Fits
      <4>8. pc'[p] # "claim"
        BY <4>4
      <4>9. pc'[p] \in HandingOver => files'[mem'[p].review].kind \in Handing
        BY <4>1, <4>2, <4>4, <4>5, <4>6
      <4> QED
        BY <4>7, <4>8, <4>9 DEF CommandOK
    <3>2. CASE ~MayClaim(s.review)
      BY <2>1, <2>6, <3>2 DEF Claim, Goto, TypeOK
    <3> QED
      BY <3>1, <3>2
  <2>7. CASE SaveDecision(p)
    <3>1. mem'[p] = [s EXCEPT !.status = "FINALIZING"] /\ pc'[p] = "finalize"
      BY <2>7 DEF SaveDecision, Save, Goto, TypeOK
    <3>2. /\ EvidenceOf(mem'[p]) = EvidenceOf(s)
          /\ mem'[p].review = s.review /\ mem'[p].decision = s.decision
      BY <2>0, <3>1 DEF EvidenceOf, State
    <3> QED
      BY <2>0, <2>2, <2>7, <3>1, <3>2 DEF SaveDecision, CommandOK
  <2>8. CASE PlanRevision(p)
    BY <2>8, Waiting DEF PlanRevision
  <2>9. CASE Adopt(p)
    <3> DEFINE k == files[s.review].kind
               ph == IF k = "REVISE" /\ s.phase = "idle"
                     THEN "authorization_required" ELSE s.phase
    <3>1. /\ Filed(s.review) /\ Fits(s)
          /\ files' = files /\ pc'[p] = "adopted"
      BY <2>9 DEF Adopt, Goto, TypeOK
    <3>2. mem'[p] = [[s EXCEPT !.decision = k] EXCEPT !.phase = ph]
      BY <2>9 DEF Adopt, TypeOK, State
    <3> HIDE DEF ph
    <3>3. /\ EvidenceOf(mem'[p]) = EvidenceOf(s)
          /\ mem'[p].review = s.review /\ mem'[p].decision = k
      BY <2>0, <3>2 DEF EvidenceOf, State
    <3>4. k \in Kind
      BY <2>0, <3>1 DEF FilesInv
    <3> HIDE DEF k
    <3>5. Decided(p)'
      BY <3>1, <3>3, <3>4 DEF Decided, Filed, Fits
    <3> QED
      BY <3>1, <3>5 DEF CommandOK
  <2>10. CASE SaveAdopted(p)
    <3>1. mem'[p] = s /\ pc'[p] = After(files[s.review].kind) /\ files' = files
      BY <2>10 DEF SaveAdopted, Save, Goto, TypeOK
    <3>2. Decided(p) /\ files[s.review].kind \in Kind
      BY <2>0, <2>10 DEF SaveAdopted, CommandOK, Decided, FilesInv
    <3> QED
      BY <2>2, <3>1, <3>2 DEF After
  <2>11. CASE AlreadyAdopted(p)
    <3>1. mem'[p] = s /\ pc'[p] = After(files[s.review].kind) /\ files' = files
      BY <2>11 DEF AlreadyAdopted, Goto, TypeOK
    <3>2. Decided(p) /\ files[s.review].kind \in Kind
      BY <2>0, <2>11 DEF AlreadyAdopted, Decided, FilesInv
    <3> QED
      BY <2>2, <3>1, <3>2 DEF After
  <2>12. CASE Deliver(p) \/ DeliverResult(p)
    <3>1. mem'[p] = s /\ pc'[p] \in {"sent", "canonical"} /\ files' = files
      BY <2>12 DEF Deliver, DeliverResult, Goto, TypeOK
    <3>2. pc[p] \in HandingOver
      BY <2>12 DEF Deliver, DeliverResult
    <3> QED
      BY <2>0, <2>2, <3>1, <3>2 DEF CommandOK
  <2> QED
    BY <1>1, <2>3, <2>4, <2>5, <2>6, <2>7, <2>8, <2>9, <2>10, <2>11, <2>12 DEF Step
<1>2. ASSUME NEW p \in Process, NEW q \in Process, q # p, Acts(p) PROVE CommandOK(q)'
  BY <1>2, OthersStay, Waiting
<1>3. ASSUME NEW p \in Process,
             \/ \E k \in Kind : Decide(p, k)
             \/ Repair(p) \/ Recover(p) \/ StartInternal(p) \/ Crash(p)
      PROVE  CommandOK(p)'
  BY <1>3 DEF Decide, Repair, Recover, StartInternal, Crash, End, Goto, CommandOK, Holding,
     HandingOver, TypeOK
<1>4. ASSUME NEW p \in Process, StartExternal(p) PROVE CommandOK(p)'
  <2>1. CASE outbox.request = Len(asked)
    BY <1>4, <2>1, Waiting DEF StartExternal
  <2>2. CASE outbox.request # Len(asked)
    <3>1. pc'[p] = "build"
      BY <1>4, <2>2 DEF StartExternal, Goto, TypeOK
    <3> QED
      BY <3>1 DEF CommandOK, Holding, HandingOver
  <2> QED
    BY <2>1, <2>2
<1>5. CASE Ask \/ UNCHANGED vars
  BY <1>5, Waiting DEF Ask, vars, CommandsInv
<1> QED
  BY <1>1, <1>2, <1>3, <1>4, <1>5 DEF Next, Acts, CommandsInv

-----------------------------------------------------------------------------
(* The handoff.                                                            *)

\* The evidence of a command that hands over was accepted.
LEMMA WhatIsHanded ==
  ASSUME TypeOK, StatesInv, FilesInv, CommandsInv,
         NEW p \in Process, pc[p] \in HandingOver
  PROVE  /\ Accepted(EvidenceOf(mem[p]))
         /\ EvidenceOf(mem[p]).review = mem[p].review
         /\ mem[p].decision = files[mem[p].review].kind
<1> DEFINE s == mem[p]
<1>1. s.review \in Review
  BY StateFields DEF TypeOK
<1>2. EvidenceOf(s).review = s.review
  BY DEF EvidenceOf
<1>3. CommandOK(p) /\ HandingOver \subseteq Holding
  BY DEF CommandsInv, Holding, HandingOver
<1>4. Filed(s.review) /\ Fits(s) /\ s.decision # NoKind
  BY <1>3 DEF CommandOK, Decided
<1>5. files[s.review].kind \in Handing
  BY <1>3 DEF CommandOK
<1>6. s.decision = files[s.review].kind
  BY <1>4 DEF StatesInv, Sound
<1>7. /\ class[s.review] # "hard"
      /\ class[s.review] = "tracking" => files[s.review].evidence.repaired
      /\ class[s.review] = "clean" <=> files[s.review].kind = "ACCEPT"
  BY <1>1, <1>4 DEF FilesInv, NothingOverridden
<1> QED
  BY <1>2, <1>4, <1>5, <1>6, <1>7 DEF Accepted, Fits

\* What was accepted stays accepted.
LEMMA AcceptedStays ==
  ASSUME FilesInv, Kept, NEW e \in Evidence, e.review \in Review, Accepted(e)
  PROVE  Accepted(e)' /\ class'[e.review] = class[e.review]
<1>1. Filed(e.review)
  BY NoFileOK DEF Accepted, Filed
<1>2. files'[e.review] = files[e.review] /\ class'[e.review] = class[e.review]
  BY <1>1 DEF Kept, FilesInv
<1> QED
  BY <1>2 DEF Accepted

LEMMA HandedStep ==
  ASSUME TypeOK, StatesInv, FilesInv, CommandsInv, HandedInv, Kept, [Next]_vars
  PROVE  HandedInv'
<1> DEFINE Good(e) == e.review \in Review /\ Accepted(e)
           Fair(x) == Good(x.evidence) /\ (x.completed <=> class[x.evidence.review] = "clean")
<1>0. HandedInv <=> (outbox # NoMail => Good(outbox.evidence)) /\ \A x \in results : Fair(x)
  BY DEF HandedInv, HandoffWasDecided
<1>1. ASSUME outbox # NoMail, outbox' = outbox PROVE Good(outbox.evidence)'
  BY <1>0, <1>1, AcceptedStays DEF TypeOK
<1>2. ASSUME NEW x \in results
      PROVE  /\ x.evidence.review \in Review /\ Accepted(x.evidence)'
             /\ x.completed <=> class'[x.evidence.review] = "clean"
  BY <1>0, <1>2, AcceptedStays DEF TypeOK
<1>3. ASSUME NEW p \in Process, Deliver(p) PROVE HandedInv'
  <2> DEFINE s == mem[p]
  <2>1. pc[p] \in HandingOver /\ s \in State /\ s.review \in Review
    BY <1>3, StateFields DEF Deliver, HandingOver, TypeOK
  <2>2. class' = class /\ files' = files /\ results' = results
    BY <1>3 DEF Deliver
  <2>3. Good(EvidenceOf(s))
    BY <2>1, WhatIsHanded
  <2>4. outbox' = outbox \/ outbox' = Mail(s)
    BY <1>3 DEF Deliver
  <2>5. Mail(s).evidence = EvidenceOf(s)
    BY DEF Mail
  <2>6. outbox' # NoMail => outbox'.evidence.review \in Review /\ Accepted(outbox'.evidence)
    BY <1>0, <2>3, <2>4, <2>5
  <2> QED
    BY <1>0, <2>2, <2>6 DEF HandedInv, HandoffWasDecided, Accepted
<1>4. ASSUME NEW p \in Process, DeliverResult(p) PROVE HandedInv'
  <2> DEFINE s == mem[p]
             n == [request |-> s.pending, evidence |-> EvidenceOf(s),
                   completed |-> s.decision = "ACCEPT"]
  <2>1. pc[p] \in HandingOver /\ s \in State /\ s.review \in Review
    BY <1>4, StateFields DEF DeliverResult, HandingOver, TypeOK
  <2>2. class' = class /\ files' = files /\ outbox' = outbox
    BY <1>4 DEF DeliverResult
  <2>3. /\ Good(EvidenceOf(s)) /\ EvidenceOf(s).review = s.review
        /\ s.decision = files[s.review].kind
    BY <2>1, WhatIsHanded
  <2>4. n.evidence = EvidenceOf(s) /\ (n.completed <=> s.decision = "ACCEPT")
    OBVIOUS
  <2>5. class[s.review] = "clean" <=> s.decision = "ACCEPT"
    BY <2>3 DEF Accepted
  <2> HIDE DEF s, n
  <2>6. Fair(n)
    BY <2>3, <2>4, <2>5
  <2>7. results' \subseteq results \union {n}
    BY <1>4 DEF DeliverResult, n, s
  <2>8. \A x \in results' : Fair(x)
    BY <1>0, <2>6, <2>7
  <2> QED
    BY <1>0, <2>2, <2>8 DEF HandedInv, HandoffWasDecided, Accepted
<1>5. CASE UNCHANGED <<outbox, results>>
  <2>1. (outbox # NoMail => Good(outbox.evidence))'
    BY <1>1, <1>5
  <2>2. (\A x \in results : Fair(x))'
    BY <1>2, <1>5
  <2> QED
    BY <2>1, <2>2 DEF HandedInv, HandoffWasDecided
<1> QED
  BY <1>3, <1>4, <1>5, WhoWrites

-----------------------------------------------------------------------------
(* The theorems.                                                           *)

LEMMA InductiveStep == IInv /\ [Next]_vars => IInv'
<1> SUFFICES ASSUME IInv, [Next]_vars PROVE IInv'
  OBVIOUS
<1>1. TypeOK' /\ Kept
  BY TypeStep, KeptStep DEF IInv
<1>2. StatesInv' /\ FilesInv' /\ HandedInv'
  BY <1>1, StatesStep, FilesStep, HandedStep DEF IInv
<1>3. CommandsInv'
  BY <1>1, <1>2, CommandsStep DEF IInv
<1> QED
  BY <1>1, <1>2, <1>3 DEF IInv

\* The invariant the others follow from: every copy of the state knows only what is
\* on file, and who hands over holds the evidence of a filed decision.
THEOREM GateInvariant == Spec => []IInv
BY InitInv, InductiveStep, PTL DEF Spec

\* Commands that overwrite each other's state, crash and recover keep it well-formed.
THEOREM TypeCorrect == Spec => []TypeOK
<1>1. IInv => TypeOK
  BY DEF IInv
<1> QED
  BY <1>1, GateInvariant, PTL

\* Whatever state was saved last, a decision in it is the one on file for its
\* review (decide_human_evidence, recover_human_evidence_gate).
THEOREM DecisionsAreFiled == Spec => []DecisionIsFiled
<1>1. IInv => DecisionIsFiled
  BY DEF IInv, StatesInv, Sound, DecisionIsFiled
<1> QED
  BY <1>1, GateInvariant, PTL

\* Deliberation gets only evidence that a human accepted, for any number of
\* commands, reviews and requests (_finalize_human_evidence_decision).
THEOREM HandoffsAreDecided == Spec => []HandoffWasDecided
<1>1. IInv => HandoffWasDecided
  BY DEF IInv, HandedInv
<1> QED
  BY <1>1, GateInvariant, PTL

\* No decision passes an integrity failure, or gaps in silence (_gate_summary),
\* whatever was saved between its check and its file.
THEOREM NothingIsOverridden == Spec => []NothingOverridden
<1>1. IInv => NothingOverridden
  BY DEF IInv, FilesInv
<1> QED
  BY <1>1, GateInvariant, PTL

\* Of commands that decide at the same time one has decided, for ever
\* (create_human_evidence_decision_once).
THEOREM DecisionsAreFinal == Spec => DecisionsStand
<1>1. IInv /\ [Next]_vars => [\A r \in Review : Filed(r) => files'[r] = files[r]]_vars
  BY KeptStep DEF IInv, Kept
<1> QED
  BY <1>1, GateInvariant, PTL DEF Spec, DecisionsStand
================================================================================
