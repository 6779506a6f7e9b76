----------------------------- MODULE EvidenceGate -----------------------------
(***************************************************************************)
(* The Human Evidence Gate of one Researcher workflow                      *)
(* (researcher/manager.py): a Quality Review is prepared for a human, who  *)
(* decides once, at the CLI or on Discord; the decision is a create-once   *)
(* file, and the handoff to Deliberation follows from it.                  *)
(*                                                                         *)
(* Every command loads the state file, works on its copy and saves it;     *)
(* nothing locks the file, so commands overwrite each other, and each may  *)
(* stop between two of the files it writes.  What the file of the decision *)
(* decides is not affected by that.                                        *)
(*                                                                         *)
(* The work between two reviews (specialists, report, reviewer) is here    *)
(* the three saves the gate can see of it; ResearcherManager has the rest. *)
(***************************************************************************)
EXTENDS Integers, Sequences, FiniteSets

CONSTANTS
  Process,      \* commands that run at the same time: CLI and Discord
  MaxReviews,   \* bound: Quality Reviews
  MaxRequests   \* bound: revision requests of Deliberation

ASSUME BoundAssumption ==
  MaxReviews \in Nat /\ MaxReviews >= 1 /\ MaxRequests \in Nat

Review  == 1 .. MaxReviews
Request == 1 .. MaxRequests

Kind == {"ACCEPT", "ACCEPT_WITH_LIMITATIONS", "REVISE"}

Handing == {"ACCEPT", "ACCEPT_WITH_LIMITATIONS"}

\* What a review leaves for the human once the repairs any command applies are
\* made: nothing, evidence gaps, the gaps behind a finding only the repair
\* command can resolve, or an integrity failure.
Class == {"clean", "gaps", "tracking", "hard"}

Status == {"RUNNING", "WAITING_HUMAN_EVIDENCE_REVIEW", "BLOCKED", "FINALIZING",
           "COMPLETED", "COMPLETED_REVISION", "FAILED"}

Phase == {"idle", "authorization_required", "executing", "completed"}

Pc == {"idle", "prepare", "claim", "filed", "plan", "recover", "adopted",
       "block", "finalize", "canonical", "sent", "build", "review"}

NoKind == "none"

\* evidence: the report by its number, the review of it, the operator's repair
Evidence == [report : Nat, review : Nat, repaired : BOOLEAN]

State == [status : Status, report : Review, review : Review, repaired : BOOLEAN,
          decision : Kind \union {NoKind}, phase : Phase,
          pending : {0} \union Request]

VARIABLES
  disk,      \* the saved ResearcherWorkflowState
  mem,       \* per process, the copy its command works on
  pc,        \* per process, where its command is
  wants,     \* per process, the decision it is to record, or "repair"
  class,     \* what the reviews found, in their order
  built,     \* how many reports have been built
  files,     \* the decision files: kind and evidence, by review
  planned,   \* reviews whose internal revision request is written
  asked,     \* the evidence each request of Deliberation is about
  outbox,    \* what lies in Deliberation's inbox
  results    \* canonical results: request, status and evidence

vars == <<disk, mem, pc, wants, class, built, files, planned, asked, outbox, results>>

EvidenceOf(s) == [report |-> s.report, review |-> s.review,
                  repaired |-> s.repaired]

NoFile == [kind |-> NoKind, evidence |-> EvidenceOf([report |-> 0, review |-> 0,
                                                     repaired |-> FALSE])]

Blank == [status |-> "RUNNING", report |-> 1, review |-> 1, repaired |-> FALSE,
          decision |-> NoKind, phase |-> "idle", pending |-> 0]

NoMail == [request |-> 0, evidence |-> NoFile.evidence]

Filed(r) == files[r] # NoFile

Unreviewed == {r \in Review : class[r] = NoKind}

\* The initial workflow has been reviewed and its gate prepared.
Init ==
  /\ \E c \in Class :
       /\ class = [r \in Review |-> IF r = 1 THEN c ELSE NoKind]
       /\ disk = [Blank EXCEPT !.status =
                    IF c \in {"clean", "gaps"}
                    THEN "WAITING_HUMAN_EVIDENCE_REVIEW" ELSE "BLOCKED"]
  /\ built = 1
  /\ mem = [p \in Process |-> Blank]
  /\ pc = [p \in Process |-> "idle"]
  /\ wants = [p \in Process |-> "ACCEPT"]
  /\ files = [r \in Review |-> NoFile]
  /\ planned = {}
  /\ asked = <<>>
  /\ outbox = NoMail
  /\ results = {}

Goto(p, l) == pc' = [pc EXCEPT ![p] = l]

\* repository.save of the copy of p.
Save(p, s) == disk' = s /\ mem' = [mem EXCEPT ![p] = s]

\* The last save of a command, which then forgets its copy.
SaveAndEnd(p, s) == disk' = s /\ mem' = [mem EXCEPT ![p] = Blank] /\ Goto(p, "idle")

\* It raises or returns.
End(p) == mem' = [mem EXCEPT ![p] = Blank] /\ Goto(p, "idle") /\ UNCHANGED disk

Load(p) == mem' = [mem EXCEPT ![p] = disk] /\ UNCHANGED disk

-----------------------------------------------------------------------------
(* The gate.                                                               *)

\* _gate_summary: whether a human may decide, and what.
Eligible(s) ==
  class[s.review] \in {"clean", "gaps"} \/ (class[s.review] = "tracking"
                                              /\ s.repaired)

Allowed(s) ==
  IF class[s.review] = "clean" THEN {"ACCEPT"}
  ELSE {"ACCEPT_WITH_LIMITATIONS", "REVISE"}

\* _prepare_human_evidence_gate
Prepared(s) ==
  [s EXCEPT !.status = IF Eligible(s) THEN "WAITING_HUMAN_EVIDENCE_REVIEW"
                       ELSE "BLOCKED"]

\* decide_human_evidence, as loaded.
MayDecide(s) == s.decision = NoKind /\ ~Filed(s.review)

Decide(p, k) ==
  /\ pc[p] = "idle"
  /\ disk.status # "FAILED"
  /\ MayDecide(disk)
  /\ Load(p)
  /\ wants' = [wants EXCEPT ![p] = k]
  /\ Goto(p, "prepare")
  /\ UNCHANGED <<class, built, files, planned, asked, outbox, results>>

\* The gate is prepared again and saved, whatever was saved since the load.
Prepare(p) ==
  LET s == Prepared(mem[p])
  IN /\ pc[p] = "prepare"
     /\ wants[p] = "repair" => class[s.review] # "tracking"
     /\ IF Eligible(s) /\ wants[p] \in Allowed(s)
        THEN Save(p, s) /\ Goto(p, "claim")
        ELSE SaveAndEnd(p, s)
     /\ UNCHANGED <<wants, class, built, files, planned, asked, outbox, results>>

\* create_human_evidence_decision_once: whoever creates the file has decided.
MayClaim(r) == ~Filed(r)

Claim(p) ==
  LET s == mem[p]
  IN /\ pc[p] = "claim"
     /\ \/ /\ MayClaim(s.review)
           /\ files' = [files EXCEPT ![s.review] =
                          [kind |-> wants[p], evidence |-> EvidenceOf(s)]]
           /\ mem' = [mem EXCEPT ![p].decision = wants[p]]
           /\ Goto(p, IF wants[p] = "REVISE" THEN "plan" ELSE "filed")
           /\ UNCHANGED disk
        \/ /\ ~MayClaim(s.review)     \* the loser recovers before it raises
           /\ Load(p)
           /\ Goto(p, "recover")
           /\ UNCHANGED files
     /\ UNCHANGED <<wants, class, built, planned, asked, outbox, results>>

SaveDecision(p) ==
  /\ pc[p] = "filed"
  /\ Save(p, [mem[p] EXCEPT !.status = "FINALIZING"])
  /\ Goto(p, "finalize")
  /\ UNCHANGED <<wants, class, built, files, planned, asked, outbox, results>>

\* _plan_internal_revision_request: the request file, then the state.
PlanRevision(p) ==
  /\ pc[p] = "plan"
  /\ mem[p].review \notin planned
  /\ planned' = planned \union {mem[p].review}
  /\ UNCHANGED <<disk, mem, pc, wants, class, built, files, asked, outbox, results>>

SavePlan(p) ==
  /\ pc[p] = "plan"
  /\ mem[p].review \in planned
  /\ SaveAndEnd(p, [mem[p] EXCEPT !.phase = "authorization_required",
                            !.status = "BLOCKED"])
  /\ UNCHANGED <<wants, class, built, files, planned, asked, outbox, results>>

-----------------------------------------------------------------------------
(* repair_human_evidence_integrity and recover_human_evidence_gate.        *)

Repair(p) ==
  /\ pc[p] = "idle"
  /\ disk.decision = NoKind
  /\ disk.status \in {"BLOCKED", "WAITING_HUMAN_EVIDENCE_REVIEW"}
  /\ Load(p)
  /\ wants' = [wants EXCEPT ![p] = "repair"]
  /\ Goto(p, "prepare")
  /\ UNCHANGED <<class, built, files, planned, asked, outbox, results>>

\* One pass of the allowlisted repair, and the gate is prepared with it.
PrepareRepaired(p) ==
  /\ pc[p] = "prepare"
  /\ wants[p] = "repair"
  /\ class[mem[p].review] = "tracking"
  /\ SaveAndEnd(p, Prepared([mem[p] EXCEPT !.repaired = TRUE]))
  /\ UNCHANGED <<wants, class, built, files, planned, asked, outbox, results>>

Recover(p) ==
  /\ pc[p] = "idle"
  /\ disk.status # "FAILED" \/ disk.decision # NoKind
  /\ Load(p)
  /\ Goto(p, "recover")
  /\ UNCHANGED <<wants, class, built, files, planned, asked, outbox, results>>

\* A decision that is filed is this state's, if it is about what it shows.
\* (Faulty: the evidence is not compared.)
Fits_Any(s) == TRUE

Fits(s) == files[s.review].evidence = EvidenceOf(s)

\* Nothing is filed, or not about this evidence: prepared again, or refused.
RecoverUndecided(p) ==
  LET s == mem[p]
  IN /\ pc[p] = "recover"
     /\ \/ /\ ~Filed(s.review) /\ s.decision = NoKind
           /\ SaveAndEnd(p, Prepared(s))
        \/ /\ IF Filed(s.review) THEN ~Fits(s) ELSE s.decision # NoKind
           /\ End(p)
     /\ UNCHANGED <<wants, class, built, files, planned, asked, outbox, results>>

\* A state without the filed decision adopts it; the request of a REVISE is
\* written only in a state that has never had one.
Adopt(p) ==
  LET s == mem[p]
      k == files[s.review].kind
      new == k = "REVISE" /\ s.phase = "idle"
  IN /\ pc[p] = "recover"
     /\ Filed(s.review) /\ Fits(s)
     /\ s.decision = NoKind
     /\ planned' = IF new THEN planned \union {s.review} ELSE planned
     /\ mem' = [mem EXCEPT ![p].decision = k,
                           ![p].phase = IF new THEN "authorization_required"
                                        ELSE s.phase]
     /\ Goto(p, "adopted")
     /\ UNCHANGED <<disk, wants, class, built, files, asked, outbox, results>>

After(k) == IF k = "REVISE" THEN "block" ELSE "finalize"

SaveAdopted(p) ==
  /\ pc[p] = "adopted"
  /\ Save(p, mem[p])
  /\ Goto(p, After(files[mem[p].review].kind))
  /\ UNCHANGED <<wants, class, built, files, planned, asked, outbox, results>>

AlreadyAdopted(p) ==
  /\ pc[p] = "recover"
  /\ Filed(mem[p].review) /\ Fits(mem[p])
  /\ mem[p].decision # NoKind
  /\ Goto(p, After(files[mem[p].review].kind))
  /\ UNCHANGED <<disk, mem, wants, class, built, files, planned, asked, outbox,
                 results>>

BlockForOperator(p) ==
  /\ pc[p] = "block"
  /\ SaveAndEnd(p, [mem[p] EXCEPT !.status = "BLOCKED"])
  /\ UNCHANGED <<wants, class, built, files, planned, asked, outbox, results>>

-----------------------------------------------------------------------------
(* _finalize_human_evidence_decision: the handoff, then the state.         *)

Mail(s) == [request |-> s.pending, evidence |-> EvidenceOf(s)]

\* The inbox already holds a message of this decision.
Sent(s) ==
  /\ outbox # NoMail
  /\ outbox.request # 0 <=> s.pending # 0
  /\ outbox.evidence.review = s.review

\* The first handoff does not replace a message; a reply to a request does.
Deliver(p) ==
  LET s == mem[p]
  IN /\ pc[p] = "finalize"
     /\ s.pending = 0 => Sent(s) \/ outbox = NoMail
     /\ outbox' = IF Sent(s) THEN outbox ELSE Mail(s)
     /\ Goto(p, IF s.pending = 0 THEN "sent" ELSE "canonical")
     /\ UNCHANGED <<disk, mem, wants, class, built, files, planned, asked, results>>

\* The canonical result of the request is written once.
DeliverResult(p) ==
  LET s == mem[p]
  IN /\ pc[p] = "canonical"
     /\ results' =
          IF \E x \in results : x.request = s.pending THEN results
          ELSE results \union
                 {[request |-> s.pending, evidence |-> EvidenceOf(s),
                   completed |-> s.decision = "ACCEPT"]}
     /\ Goto(p, "sent")
     /\ UNCHANGED <<disk, mem, wants, class, built, files, planned, asked, outbox>>

SaveSent(p) ==
  /\ pc[p] = "sent"
  /\ SaveAndEnd(p, [mem[p] EXCEPT !.status = IF mem[p].pending = 0 THEN "COMPLETED"
                                       ELSE "COMPLETED_REVISION",
                            !.pending = 0])
  /\ UNCHANGED <<wants, class, built, files, planned, asked, outbox, results>>

\* Any error of the handoff, also that another message lies in the inbox.
HandoffFails(p) ==
  /\ pc[p] \in {"finalize", "canonical"}
  /\ SaveAndEnd(p, [mem[p] EXCEPT !.status = "FAILED"])
  /\ UNCHANGED <<wants, class, built, files, planned, asked, outbox, results>>

-----------------------------------------------------------------------------
(* What goes on between two reviews, as far as the gate can see it.        *)

\* execute_authorized_revision: the request is about the report of the state.
StartInternal(p) ==
  /\ pc[p] = "idle"
  /\ disk.decision = "REVISE" /\ disk.review \in planned
  /\ disk.phase \in {"authorization_required", "executing"}
  /\ Fits(disk)
  /\ Save(p, [disk EXCEPT !.phase = "executing", !.status = "RUNNING"])
  /\ Goto(p, "build")
  /\ UNCHANGED <<wants, class, built, files, planned, asked, outbox, results>>

\* Deliberation asks for more evidence on the report it was given.
Ask ==
  /\ Len(asked) < MaxRequests
  /\ outbox # NoMail /\ outbox.request = Len(asked)
  /\ asked' = Append(asked, outbox.evidence)
  /\ UNCHANGED <<disk, mem, pc, wants, class, built, files, planned, outbox, results>>

\* resume: a request with its reply in the inbox has been answered; any other
\* must be about the report of the state.
StartExternal(p) ==
  LET n == Len(asked)
  IN /\ pc[p] = "idle"
     /\ n # 0
     /\ \/ /\ outbox.request = n
           /\ disk.pending = n
           /\ disk' = [disk EXCEPT !.status = "COMPLETED_REVISION", !.pending = 0]
           /\ UNCHANGED <<mem, pc>>
        \/ /\ outbox.request # n
           /\ disk.report = asked[n].report
           /\ disk.pending \in {0, n}
           /\ Save(p, [disk EXCEPT !.status = "RUNNING", !.pending = n])
           /\ Goto(p, "build")
     /\ UNCHANGED <<wants, class, built, files, planned, asked, outbox, results>>

\* _integrate_and_review: a new report is saved, then the review of it, and a
\* decision about another review is dropped.
Build(p) ==
  /\ pc[p] = "build"
  /\ Unreviewed # {}
  /\ built < MaxReviews
  /\ built' = built + 1
  /\ Save(p, [mem[p] EXCEPT !.report = built', !.repaired = FALSE])
  /\ Goto(p, "review")
  /\ UNCHANGED <<wants, class, files, planned, asked, outbox, results>>

\* (Faulty: the decision stays.)
AfterReview_Kept(s) == s.decision

AfterReview(s) == NoKind

Reviewed(p, c, r) ==
  LET s == mem[p]
  IN [s EXCEPT !.review = r, !.decision = AfterReview(s),
               !.phase = IF @ = "executing" THEN "completed" ELSE @,
               !.status = IF c \in {"clean", "gaps"}
                          THEN "WAITING_HUMAN_EVIDENCE_REVIEW" ELSE "BLOCKED"]

ReviewAgain(p, c) ==
  /\ pc[p] = "review"
  /\ \E r \in Unreviewed :
       /\ \A x \in Unreviewed : r <= x
       /\ class' = [class EXCEPT ![r] = c]
       /\ SaveAndEnd(p, Reviewed(p, c, r))
  /\ UNCHANGED <<wants, built, files, planned, asked, outbox, results>>

\* The process of a command ends.
Crash(p) ==
  /\ pc[p] # "idle"
  /\ End(p)
  /\ UNCHANGED <<wants, class, built, files, planned, asked, outbox, results>>

Step(p) ==
  \/ Prepare(p) \/ PrepareRepaired(p) \/ Claim(p) \/ SaveDecision(p)
  \/ PlanRevision(p) \/ SavePlan(p)
  \/ RecoverUndecided(p) \/ Adopt(p) \/ SaveAdopted(p) \/ AlreadyAdopted(p)
  \/ BlockForOperator(p)
  \/ Deliver(p) \/ DeliverResult(p) \/ SaveSent(p) \/ HandoffFails(p)
  \/ Build(p) \/ \E c \in Class : ReviewAgain(p, c)

Next ==
  \/ \E p \in Process : \/ \E k \in Kind : Decide(p, k)
                        \/ Repair(p) \/ Recover(p)
                        \/ StartInternal(p) \/ StartExternal(p)
                        \/ Step(p) \/ Crash(p)
  \/ Ask

Spec == Init /\ [][Next]_vars

-----------------------------------------------------------------------------
(* Properties.                                                             *)

File == [kind : Kind \union {NoKind}, evidence : Evidence]

TypeOK ==
  /\ disk \in State
  /\ mem \in [Process -> State]
  /\ pc \in [Process -> Pc]
  /\ wants \in [Process -> Kind \union {"repair"}]
  /\ class \in [Review -> Class \union {NoKind}]
  /\ built \in 1 .. MaxReviews
  /\ files \in [Review -> File]
  /\ planned \subseteq Review
  /\ asked \in Seq(Evidence) /\ Len(asked) <= MaxRequests
  /\ outbox \in [request : {0} \union Request, evidence : Evidence]
  /\ \A x \in results : x.request \in {0} \union Request /\ x.evidence \in Evidence

\* A decision in the state file, whichever command saved it last, is the one on
\* file for the review of that state.
\* (decide_human_evidence, recover_human_evidence_gate)
DecisionIsFiled ==
  disk.decision # NoKind =>
    Filed(disk.review) /\ files[disk.review].kind = disk.decision

\* What a human accepted, exactly as it was: no integrity failure, and gaps only
\* with the limitations named.
Accepted(e) ==
  LET f == files[e.review]
  IN /\ f.kind \in Handing /\ f.evidence = e
     /\ class[e.review] # "hard"
     /\ class[e.review] = "tracking" => e.repaired
     /\ class[e.review] = "clean" <=> f.kind = "ACCEPT"

\* Deliberation is given nothing but evidence a human accepted, whatever crashed or
\* ran at the same time, and a result is complete only when nothing was missing.
\* (README.md:163, _finalize_human_evidence_decision)
HandoffWasDecided ==
  /\ outbox # NoMail => Accepted(outbox.evidence)
  /\ \A x \in results :
       Accepted(x.evidence) /\ (x.completed <=> class[x.evidence.review] = "clean")

\* No one accepts an integrity failure, nor passes gaps over in silence.
\* (_gate_summary)
NothingOverridden ==
  \A r \in Review : Filed(r) =>
    /\ class[r] # "hard"
    /\ class[r] = "tracking" => files[r].evidence.repaired
    /\ class[r] = "clean" <=> files[r].kind = "ACCEPT"

\* A decision, once filed, is the decision.
\* (create_human_evidence_decision_once)
DecisionsStand ==
  [][\A r \in Review : Filed(r) => files'[r] = files[r]]_vars

===============================================================================
