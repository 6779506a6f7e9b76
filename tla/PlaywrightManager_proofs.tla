------------------------ MODULE PlaywrightManager_proofs ------------------------
(***************************************************************************)
(* What every state of PlaywrightManager keeps, for any limit and any      *)
(* number of handoffs, commands, crashes and calls that fail.              *)
(*                                                                         *)
(* What a call was given is on record with what it made: the saved state   *)
(* and the copy of the command are both Good when their artifacts are a    *)
(* prefix of the stages, each made from the ones before it as long as the  *)
(* ids of the providers are unambiguous, the saved validation is about all *)
(* four, and a revision is about the validation it was planned for.        *)
(* Nothing is assumed of those ids: where they are ambiguous, everything   *)
(* but the making from each other still holds.                             *)
(***************************************************************************)
EXTENDS PlaywrightManager, TLAPS

Problem == {"none", "structural", "content"}

Form == {"none", "edited", "restored", "repaired"}

Task == [stage : 0 .. 4, up : 0 .. MaxRevisions, rev : Nat, retry : BOOLEAN]

Art == [Stages -> Task]

Content == [art : Art, form : Form, handoff : Nat]

Request == [route : {"none", "internal", "upstream"}, epoch : Nat, serial : Nat,
            first : 0 .. 4, impact : {"none", "unchanged", "reselection_required"},
            final : Nat, base : Content]

Package == [serial : Nat, of : Content, final : Nat]

State == [status : Status, handoff : Nat, final : Nat, problem : Problem,
          art : Art, form : Form, checked : Content, package : Package,
          asked : SUBSET Task, heard : SUBSET Task, fault : Task, again : BOOLEAN,
          count : 0 .. MaxRevisions, repairs : 0 .. 1, up : 0 .. MaxRevisions,
          phase : Phase, epoch : Nat, active : Request]

Run == [at : 0 .. 5, ids : Art]

Artifact(n) == [id : Task, on : [1 .. n - 1 -> Task], handoff : Nat]

Check == [of : Content, verdict : Verdicts]

Answered == [request : Request, status : {"completed", "partial"}, of : Content,
             final : Nat]

TypeInv ==
  /\ disk \in State
  /\ mem \in State
  /\ run \in Run
  /\ paid \subseteq Task
  /\ retries \subseteq Task
  /\ \A m \in made : \E n \in Stages : m \in Artifact(n)
  /\ checks \subseteq Check
  /\ requests \subseteq Request
  /\ slots \in Seq(Request)
  /\ asked \in 0 .. MaxRevisions
  /\ noted \subseteq Request
  /\ results \subseteq Answered
  /\ packages \in Nat
  /\ files \in [package : Package, delivery : Package, script : Package]
  /\ inbox \in [n : Nat \ {0}, final : Nat, problem : Problem]

-----------------------------------------------------------------------------
(* A state of the workflow, beside what was made ms, the verdicts cs and the *)
(* requests rs.                                                              *)

\* m made this artifact of stage n, and from the others of art if ids are unambiguous.
IsSource(m, art, n, handoff, ms) ==
  m.id = art[n] /\ (Unambiguous(ms) => m.handoff = handoff /\ m.on = Before(art, n))

Fits(art, handoff, ms) ==
  \A n \in Stages : art[n] # NoId => \E m \in ms : IsSource(m, art, n, handoff, ms)

\* All artifacts are there, and each refers to the one before it.
Refer(of, ms) ==
  \A n \in Stages : \E m \in ms : m.id = of.art[n] /\ Matches(of, m)

Valid(p, ms, cs) ==
  p.serial > 0 => /\ [of |-> p.of, verdict |-> <<"approved", 0>>] \in cs
                  /\ Refer(p.of, ms)
                  /\ Fits(p.of.art, p.of.handoff, ms)

Judged(of, cs) == \E c \in cs : c.of = of

Complete(s) == \A n \in Stages : s.art[n] # NoId

Prefix(s) ==
  \A n \in Stages : s.art[n] # NoId => \A k \in 1 .. n - 1 : s.art[k] # NoId

\* What the artifacts are, and what is known of them.
Sound(s, ms, cs) ==
  /\ Fits(s.art, s.handoff, ms)
  /\ Prefix(s)
  /\ \A id \in s.heard : \E m \in ms : m.id = id
  /\ s.checked # NoContents =>
       Complete(s) /\ s.checked.handoff = s.handoff /\ Judged(s.checked, cs)
  /\ s.status = "VALIDATING_PACKAGE" => s.checked # NoContents
  /\ s.status # "CREATED" => s.handoff > 0
  /\ Valid(s.package, ms, cs)

\* What the revision is about.
Bound(s, rs) ==
  /\ Planned(s) \/ Executing(s) \/ Waiting(s) => s.active \in rs
  /\ Waiting(s) => s.active.route = "upstream"
  /\ Planned(s) \/ Executing(s) =>
       /\ s.active.route = "internal" /\ s.active.first \in Stages
       /\ s.active.base # NoContents
  /\ Planned(s) =>
       s.count < MaxRevisions /\ (s.status = "BLOCKED" => Executable(s))
  /\ Executing(s) =>
       /\ s.status \notin {"CREATED", "WAITING_UPSTREAM_REVISION"}
       /\ s.final = s.active.final /\ s.handoff = s.active.base.handoff

Good(s, ms, cs, rs) == Sound(s, ms, cs) /\ Bound(s, rs)

StatesInv == Good(disk, made, checks, requests) /\ Good(mem, made, checks, requests)

\* Numbers that do not run ahead of what they count.
Counted(s, a, n, p) ==
  /\ s.up <= a /\ s.handoff <= n /\ s.package.serial <= p
  /\ s.heard \subseteq s.asked
  /\ \A k \in Stages : s.art[k].stage \in {0, k}

CountsInv ==
  /\ Counted(disk, asked, inbox.n, packages) /\ Counted(mem, asked, inbox.n, packages)
  /\ Len(slots) <= MaxRevisions
  /\ \A i \in DOMAIN slots : slots[i] \in requests
  /\ noted \subseteq requests

-----------------------------------------------------------------------------
(* What there is beside the state.                                           *)

\* A logical task is paid for once, so that it has made one artifact, from artifacts
\* that were made from the ones before them and from the same handoff.
MadeInv ==
  \A m \in made :
    /\ m.id \in paid /\ m.id.stage \in Stages
    /\ \A m2 \in made : m2.id = m.id => m2 = m
    /\ DOMAIN m.on = 1 .. m.id.stage - 1
    /\ \A k \in 1 .. m.id.stage - 1 :
         /\ m.on[k].stage = k
         /\ \E m2 \in made : IsSource(m2, m.on, k, m.handoff, made)

\* Contents have one verdict, and what the validator lets pass refers to each other.
ChecksInv ==
  \A c \in checks :
    /\ \A d \in checks : c.of = d.of => c.verdict = d.verdict
    /\ c.verdict[1] = "approved" => Refer(c.of, made)

FilesInv ==
  /\ Valid(files.package, made, checks)
  /\ Valid(files.delivery, made, checks)
  /\ Valid(files.script, made, checks)

Truthful(x, cs) ==
  x.request.route = "internal" =>
    /\ \E c \in cs : /\ c.of = x.of
                     /\ x.status = "completed" <=> c.verdict[1] = "approved"
    /\ x.final = x.request.final /\ x.of.handoff = x.request.base.handoff

ResultsInv == \A x \in results : Truthful(x, checks)

-----------------------------------------------------------------------------
(* What a command knows where it is.                                         *)

Making == {"ask", "answer", "keep"}

Delivering == {"package", "deliver", "texts", "delivered"}

\* The stages before run.at are done, and no other.
AtStage ==
  /\ run.at \in Stages
  /\ \A k \in Stages : mem.art[k] # NoId <=> k < run.at
  /\ \A k \in Stages : run.ids[k] # NoId => run.ids[k].stage = k

\* The artifact that is kept next was made from what is kept.
AtKeep ==
  /\ run.ids[run.at] # NoId
  /\ \E m \in made : /\ m.id = run.ids[run.at] /\ m.handoff = mem.handoff
                     /\ m.on = Before(mem.art, run.at)

CommandInv ==
  /\ pc = "idle" => mem = disk
  /\ pc # "idle" => /\ disk.status # "COMPLETED"
                    /\ mem.status \notin {"CREATED", "COMPLETED"}
  /\ pc \in Making => AtStage
  /\ pc = "answer" => StageId(run.at) \in mem.asked
  /\ pc = "keep" => AtKeep
  /\ pc \in {"received", "upstream"} => \A n \in Stages : mem.art[n] = NoId
  /\ pc = "validate" => Complete(mem)
  /\ pc = "judge" => mem.checked = Contents(mem)
  /\ pc = "plan" => mem.checked # NoContents /\ Gate(mem) = "revise"
  /\ pc \in {"planned", "execute", "begin"} => Planned(mem) /\ mem.status = "BLOCKED"
  /\ pc = "begin" => Slot(mem.active) # {}
  /\ pc = "stop" => ~Planned(mem)

DeliveryInv ==
  /\ pc \in Delivering
       => mem.package.of = Contents(mem) /\ mem.package.final = mem.final
  /\ pc \in {"deliver", "texts", "delivered"} => files.package = mem.package
  /\ pc \in {"texts", "delivered"} => files.delivery = mem.package
  /\ pc = "delivered" => files.script = mem.package

IInv ==
  /\ TypeInv
  /\ MadeInv
  /\ ChecksInv
  /\ StatesInv
  /\ CountsInv
  /\ FilesInv
  /\ ResultsInv
  /\ CommandInv
  /\ DeliveryInv
  /\ CompletedIsDelivered

-----------------------------------------------------------------------------
(* Types of the constants, and the start.                                    *)

\* The limits are numbers.
LEMMA Limits == MaxRevisions \in Nat /\ MaxRevisions >= 0
BY LimitAssumption

\* What stands for nothing has the type of what it stands for.
LEMMA NothingTyped ==
  /\ NoId \in Task /\ NoId.stage = 0
  /\ NoArt \in Art
  /\ NoContents \in Content
  /\ NoRequest \in Request
  /\ NoPackage \in Package
  /\ NoRun \in Run
<1>1. NoId \in Task /\ NoId.stage = 0
  BY Limits DEF NoId, Id, Task
<1>2. NoArt \in Art
  BY <1>1 DEF NoArt, Art
<1>3. NoContents \in Content
  BY <1>2 DEF NoContents, Content, Form
<1>4. NoRequest \in Request
  BY <1>3 DEF NoRequest, Request
<1>5. NoPackage \in Package
  BY <1>3 DEF NoPackage, Package
<1>6. NoRun \in Run
  BY <1>2 DEF NoRun, Run
<1> QED
  BY <1>1, <1>2, <1>3, <1>4, <1>5, <1>6

\* The state of a workflow that has not begun.
LEMMA NewTyped == NewState \in State
<1>1. {} \in SUBSET Task /\ 0 \in 0 .. MaxRevisions
  BY Limits
<1> QED
  BY <1>1, NothingTyped DEF NewState, State, Status, Problem, Form, Phase

\* A workflow that has not begun is Good.
LEMMA NewGood ==
  ASSUME NEW ms, NEW cs, NEW rs
  PROVE  Good(NewState, ms, cs, rs)
<1> USE DEF NewState
<1>1. \A n \in Stages : NewState.art[n] = NoId
  BY DEF NoArt
<1>2. Sound(NewState, ms, cs)
  BY <1>1 DEF Sound, Fits, Prefix, Valid, NoPackage
<1>3. Bound(NewState, rs)
  BY DEF Bound, Planned, Executing, Waiting
<1> QED
  BY <1>2, <1>3 DEF Good

\* The invariant holds at the start.
LEMMA InvInit == Init => IInv
<1> SUFFICES ASSUME Init PROVE IInv
  OBVIOUS
<1> USE DEF Init
<1>1. TypeInv
  <2>1. inbox \in [n : Nat \ {0}, final : Nat, problem : Problem]
    BY ProblemsAssumption DEF Problem
  <2>2. disk \in State /\ mem \in State
    BY NewTyped
  <2>3. slots \in Seq(Request) /\ asked \in 0 .. MaxRevisions
    BY Limits
  <2>4. files \in [package : Package, delivery : Package, script : Package]
    BY NothingTyped
  <2>5. run \in Run /\ packages \in Nat
    BY NothingTyped
  <2> QED
    BY <2>1, <2>2, <2>3, <2>4, <2>5 DEF TypeInv
<1>2. MadeInv /\ ChecksInv /\ ResultsInv
  BY DEF MadeInv, ChecksInv, ResultsInv
<1>3. StatesInv
  BY NewGood DEF StatesInv
<1>4. CountsInv
  <2>1. Counted(NewState, asked, inbox.n, packages)
    BY NothingTyped DEF Counted, NewState, NoArt, NoPackage
  <2>2. Len(slots) <= MaxRevisions /\ DOMAIN slots = {}
    BY Limits
  <2> QED
    BY <2>1, <2>2 DEF CountsInv
<1>5. FilesInv
  BY DEF FilesInv, Valid, NoPackage
<1>6. CommandInv /\ DeliveryInv /\ CompletedIsDelivered
  BY DEF CommandInv, DeliveryInv, CompletedIsDelivered, NewState, Making, Delivering
<1> QED
  BY <1>1, <1>2, <1>3, <1>4, <1>5, <1>6 DEF IInv

-----------------------------------------------------------------------------
(* What is on record only grows.                                             *)

Grown ==
  paid \subseteq paid' /\ made \subseteq made' /\ checks \subseteq checks'
    /\ requests \subseteq requests'

\* No step takes back an id that was paid for, an artifact, a verdict or a request.
LEMMA RecordsGrow == [Next]_vars => Grown
BY DEF Grown, Next, vars, calls, exchange, ends, Line, Judge, Revision, Handoff, Recovery,
   Around, Ask, Answer, Keep, Validate, NotFinalized, Approve, Unsettled, Stop, PackageFile,
   Deliver, DeliverTexts, Delivered, Plan, SavePlan, Revise, Exhausted, Authorize, Begin,
   Start, Receive, AskConclusion, Asked, Resume, ProviderRetry, Recover, Crash,
   ConclusionHands, ConclusionFiles

\* What fits together and what was judged stay so while the records grow.
LEMMA FitsStays ==
  ASSUME NEW ms, NEW ms2, ms \subseteq ms2
  PROVE  /\ \A m, art, n, handoff :
              IsSource(m, art, n, handoff, ms) => IsSource(m, art, n, handoff, ms2)
         /\ \A art, handoff : Fits(art, handoff, ms) => Fits(art, handoff, ms2)
         /\ \A of : Refer(of, ms) => Refer(of, ms2)
<1>1. Unambiguous(ms2) => Unambiguous(ms)
  BY DEF Unambiguous
<1>2. \A m, art, n, handoff :
        IsSource(m, art, n, handoff, ms) => IsSource(m, art, n, handoff, ms2)
  BY <1>1 DEF IsSource
<1>3. \A of : Refer(of, ms) => Refer(of, ms2)
  BY DEF Refer
<1> QED
  BY <1>2, <1>3 DEF Fits

\* A valid package stays valid.
LEMMA ValidStays ==
  ASSUME NEW ms, NEW ms2, ms \subseteq ms2, NEW cs, NEW cs2, cs \subseteq cs2,
         NEW p, Valid(p, ms, cs)
  PROVE  Valid(p, ms2, cs2)
BY FitsStays DEF Valid

\* A Good state stays Good.
LEMMA GoodStays ==
  ASSUME NEW ms, NEW ms2, ms \subseteq ms2, NEW cs, NEW cs2, cs \subseteq cs2,
         NEW rs, NEW rs2, rs \subseteq rs2, NEW s, Good(s, ms, cs, rs)
  PROVE  Good(s, ms2, cs2, rs2)
<1>1. Valid(s.package, ms2, cs2) /\ Fits(s.art, s.handoff, ms2)
  BY FitsStays, ValidStays DEF Good, Sound
<1>2. Sound(s, ms2, cs2)
  BY <1>1 DEF Good, Sound, Judged
<1>3. Bound(s, rs2)
  BY DEF Good, Bound
<1> QED
  BY <1>2, <1>3 DEF Good

\* Contents that were judged have one verdict.
LEMMA VerdictIs ==
  ASSUME ChecksInv, NEW c \in checks
  PROVE  Verdict(c.of) = c.verdict
BY DEF ChecksInv, Verdict

\* Verdicts have two parts.
LEMMA VerdictsTyped ==
  \A v \in Verdicts : /\ v[2] \in 0 .. 4
                      /\ v[1] = "approved" => v = <<"approved", 0>>
                      /\ v[1] # "approved" => v[2] \in Stages
BY DEF Verdicts, Stages

\* The gate lets pass what the validator has approved.
LEMMA GateIs ==
  ASSUME IInv, NEW s, s.checked # NoContents, Judged(s.checked, checks)
  PROVE  /\ \E c \in checks : /\ c.of = s.checked
                              /\ Passed(s) <=> c.verdict[1] = "approved"
         /\ Passed(s) => [of |-> s.checked, verdict |-> <<"approved", 0>>] \in checks
         /\ ~Passed(s) => Verdict(s.checked)[2] \in Stages
         /\ Gate(s) = "approved" <=> Passed(s)
<1>1. PICK c \in checks : c.of = s.checked
  BY DEF Judged
<1>2. c \in Check /\ Verdict(s.checked) = c.verdict
  BY <1>1, VerdictIs DEF IInv, TypeInv
<1>3. c = [of |-> c.of, verdict |-> c.verdict] /\ c.verdict \in Verdicts
  BY <1>2 DEF Check
<1>4. Gate(s) = "approved" <=> Passed(s)
  BY DEF Gate
<1> QED
  BY <1>1, <1>2, <1>3, <1>4, VerdictsTyped DEF Passed

-----------------------------------------------------------------------------
(* Clearing and restoring the artifacts.                                     *)

\* Artifacts that agree up to k were made from the same ones up to k.
LEMMA BeforeAgrees ==
  ASSUME NEW art, NEW art2, NEW k \in Stages, \A j \in 1 .. k - 1 : art2[j] = art[j]
  PROVE  Before(art2, k) = Before(art, k)
BY DEF Before, Stages

\* The artifacts that are left when those from n on are cleared.
LEMMA ClearedIs ==
  ASSUME NEW s \in State, NEW n \in Stages
  PROVE  /\ Cleared(s, n) \in State
         /\ \A k \in Stages : Cleared(s, n).art[k] = IF k < n THEN s.art[k] ELSE NoId
         /\ Cleared(s, n).checked = NoContents
         /\ Cleared(s, n).package = NoPackage
         /\ \A f \in {"status", "handoff", "final", "heard", "asked", "count", "up",
                      "phase", "active"} : Cleared(s, n)[f] = s[f]
<1> DEFINE ar == [k \in Stages |-> IF k < n THEN s.art[k] ELSE NoId]
           fo == IF n <= 3 THEN "none" ELSE s.form
<1>1. Cleared(s, n) = [s EXCEPT !.art = ar, !.form = fo,
                                !.checked = NoContents, !.package = NoPackage]
  BY DEF Cleared, State
<1>2. ar \in Art /\ fo \in Form
  BY NothingTyped DEF State, Art, Form
<1>3. \A k \in Stages : ar[k] = IF k < n THEN s.art[k] ELSE NoId
  OBVIOUS
<1> HIDE DEF ar, fo
<1>4. Cleared(s, n) \in State
  BY ZenonT(30), <1>1, <1>2, NothingTyped DEF State
<1>5. Cleared(s, n).art = ar
  BY <1>1 DEF State
<1>6. Cleared(s, n).checked = NoContents /\ Cleared(s, n).package = NoPackage
  BY <1>1 DEF State
<1>7. \A f \in {"status", "handoff", "final", "heard", "asked", "count", "up",
                "phase", "active"} : Cleared(s, n)[f] = s[f]
  BY <1>1 DEF State
<1> QED
  BY <1>3, <1>4, <1>5, <1>6, <1>7

\* They are as good as they were.
LEMMA ClearedSound ==
  ASSUME NEW s \in State, NEW n \in Stages, NEW ms, NEW cs,
         Fits(s.art, s.handoff, ms), Prefix(s),
         \A id \in s.heard : \E m \in ms : m.id = id,
         s.status # "VALIDATING_PACKAGE", s.status # "CREATED" => s.handoff > 0
  PROVE  Sound(Cleared(s, n), ms, cs)
<1> DEFINE c == Cleared(s, n)
<1>1. \A k \in Stages : c.art[k] = IF k < n THEN s.art[k] ELSE NoId
  BY ClearedIs
<1>2. /\ c.checked = NoContents /\ c.package = NoPackage /\ c.status = s.status
      /\ c.handoff = s.handoff /\ c.heard = s.heard
  BY ClearedIs
<1> HIDE DEF c
<1>3. ASSUME NEW k \in Stages, c.art[k] # NoId
      PROVE  /\ \E m \in ms : IsSource(m, c.art, k, c.handoff, ms)
             /\ \A j \in 1 .. k - 1 : c.art[j] # NoId
  <2>1. c.art[k] = s.art[k] /\ \A j \in 1 .. k - 1 : j \in Stages /\ c.art[j] = s.art[j]
    BY <1>1, <1>3 DEF Stages
  <2>2. Before(c.art, k) = Before(s.art, k)
    BY <2>1, BeforeAgrees
  <2> QED
    BY <1>2, <1>3, <2>1, <2>2 DEF Fits, Prefix, IsSource
<1>4. Valid(c.package, ms, cs)
  BY <1>2 DEF Valid, NoPackage
<1>5. Sound(c, ms, cs)
  BY <1>2, <1>3, <1>4 DEF Sound, Fits, Prefix
<1> QED
  BY <1>5 DEF c

\* If ids are unambiguous, an answer that matches the stages before it was made from
\* them, and from the same handoff: it refers to the one before it, which was made from
\* the others.
LEMMA MatchGives ==
  ASSUME TypeInv, MadeInv, Unambiguous(made), NEW s, NEW n \in Stages, NEW m \in made,
         Fits(s.art, s.handoff, made),
         \A k \in 1 .. n - 1 : s.art[k] # NoId /\ s.art[k].stage \in {0, k},
         m.id.stage = n, Matches(s, m)
  PROVE  m.handoff = s.handoff /\ m.on = Before(s.art, n)
<1>1. PICK j \in Stages : m \in Artifact(j)
  BY DEF TypeInv
<1>2. DOMAIN m.on = 1 .. n - 1 /\ m.on = [k \in 1 .. n - 1 |-> m.on[k]]
  BY <1>1 DEF MadeInv, Artifact
<1>3. CASE n = 1
  <2>1. m.handoff = s.handoff
    BY <1>3 DEF Matches, SourceOf, Unambiguous
  <2> QED
    BY <1>2, <1>3, <2>1 DEF Before
<1>4. CASE n # 1
  <2>1. n - 1 \in Stages /\ n - 1 \in 1 .. n - 1
    BY <1>4 DEF Stages
  <2>2. Name(m.on[n - 1]) = Name(s.art[n - 1])
    BY <1>4 DEF Matches, SourceOf, Unambiguous
  <2>3. PICK m2 \in made : IsSource(m2, m.on, n - 1, m.handoff, made)
    BY <2>1 DEF MadeInv
  <2>4. PICK m3 \in made : IsSource(m3, s.art, n - 1, s.handoff, made)
    BY <2>1 DEF Fits
  <2>5. m2 = m3
    <3>1. m2.id = m.on[n - 1] /\ m3.id = s.art[n - 1]
      BY <2>3, <2>4 DEF IsSource
    <3>2. m2.id.stage = n - 1 /\ m3.id.stage = n - 1
      BY <2>1, <3>1 DEF MadeInv, Stages
    <3>3. m2.id = m3.id
      BY <2>2, <3>1, <3>2 DEF Unambiguous
    <3> QED
      BY <3>3 DEF MadeInv
  <2>6. m.handoff = s.handoff /\ Before(m.on, n - 1) = Before(s.art, n - 1)
        /\ m.on[n - 1] = s.art[n - 1]
    BY <2>3, <2>4, <2>5 DEF IsSource
  <2>7. ASSUME NEW k \in 1 .. n - 1
        PROVE  m.on[k] = s.art[k]
    <3>1. CASE k = n - 1
      BY <2>6, <3>1
    <3>2. CASE k # n - 1
      <4>1. k \in 1 .. (n - 1) - 1
        BY <3>2 DEF Stages
      <4>2. Before(m.on, n - 1)[k] = m.on[k] /\ Before(s.art, n - 1)[k] = s.art[k]
        BY <4>1 DEF Before
      <4> QED
        BY <2>6, <4>2
    <3> QED
      BY <3>1, <3>2
  <2> QED
    BY <1>2, <2>6, <2>7 DEF Before
<1> QED
  BY <1>3, <1>4

\* And an artifact that is there refers to the one before it.
LEMMA FitMatches ==
  ASSUME MadeInv, Unambiguous(made), NEW s, NEW n \in Stages, s.art[n] # NoId,
         s.art[n].stage \in {0, n}, Fits(s.art, s.handoff, made),
         NEW m \in made, m.id = s.art[n]
  PROVE  Matches(s, m)
<1>1. PICK m2 \in made : IsSource(m2, s.art, n, s.handoff, made)
  BY DEF Fits
<1>2. m = m2 /\ m.id.stage = n
  BY <1>1 DEF MadeInv, IsSource, Stages
<1>3. m.handoff = s.handoff /\ m.on = Before(s.art, n)
  BY <1>1, <1>2 DEF IsSource
<1>4. n # 1 => m.on[n - 1] = s.art[n - 1]
  BY <1>3 DEF Before, Stages
<1> QED
  BY <1>2, <1>3, <1>4 DEF Unambiguous, Matches, SourceOf

\* What is restored is an answer to a task of its stage.
LEMMA RestorableIs ==
  ASSUME NEW s \in State, NEW n \in Stages
  PROVE  LET id == Restorable(s, n)
         IN id # NoId => id \in s.heard /\ id.stage = n /\ id \in Task
<1> DEFINE answered == {id \in Recoverable(s, n) : id \in s.heard}
           retried == {id \in answered : id.retry}
<1>1. \A id \in Recoverable(s, n) : id.stage = n
  BY DEF Recoverable, LogicalId, Id, RetryOf
<1>2. Restorable(s, n) # NoId => Restorable(s, n) \in answered
  BY DEF Restorable
<1> QED
  BY <1>1, <1>2 DEF State

\* What the restoring has made of s after n stages.
Restoring(s, t, n) ==
  /\ t.state \in State /\ t.goes \in BOOLEAN
  /\ t.state = [s EXCEPT !.art = t.state.art, !.form = t.state.form]
  /\ Fits(t.state.art, s.handoff, made) /\ Prefix(t.state)
  /\ t.goes => Linked(t.state, n)
  /\ Complete(s) => Complete(t.state)
  /\ \A k \in Stages : t.state.art[k].stage \in {0, k}

\* One stage of the restoring keeps that.
LEMMA RestoreStageIs ==
  ASSUME TypeInv, MadeInv, NEW s \in State, NEW n \in Stages, NEW t,
         t = [state |-> t.state, goes |-> t.goes],
         \A id \in s.heard : \E m \in made : m.id = id,
         Restoring(s, t, n - 1)
  PROVE  LET u == RestoreStage(t, n)
         IN u = [state |-> u.state, goes |-> u.goes] /\ Restoring(s, u, n)
<1> DEFINE st == t.state
           id == Restorable(st, n)
           found == id # NoId /\ \A m \in made : m.id = id => Matches(st, m)
           u == RestoreStage(t, n)
           ar == [st.art EXCEPT ![n] = id]
           fo == IF n = 3 THEN "restored" ELSE st.form
<1>1. st \in State /\ st.heard = s.heard /\ st.handoff = s.handoff
  BY DEF Restoring, State
<1>2. CASE Linked(st, n)
  <2>1. u = t
    BY <1>2 DEF RestoreStage
  <2> QED
    BY <1>2, <2>1 DEF Restoring
<1>3. CASE ~Linked(st, n) /\ ~(t.goes /\ found)
  <2>1. u = [t EXCEPT !.goes = FALSE]
    BY <1>3 DEF RestoreStage
  <2>2. u = [state |-> t.state, goes |-> FALSE]
    BY <2>1
  <2> QED
    BY <2>2 DEF Restoring
<1>4. CASE ~Linked(st, n) /\ t.goes /\ found
  <2>1. u = [t EXCEPT !.state = [st EXCEPT !.art = ar, !.form = fo]]
    BY <1>1, <1>4 DEF RestoreStage, State
  <2>2. u = [state |-> [st EXCEPT !.art = ar, !.form = fo], goes |-> TRUE]
    BY <1>4, <2>1
  <2>3. id \in s.heard /\ id.stage = n /\ id \in Task
    BY <1>1, <1>4, RestorableIs
  <2>4. ar \in Art /\ fo \in Form
    BY <1>1, <2>3 DEF State, Art, Form
  <2>5. \A k \in Stages : ar[k] = IF k = n THEN id ELSE st.art[k]
    BY <1>1 DEF State, Art
  <2>6. Linked(st, n - 1)
    BY <1>4 DEF Restoring
  <2>7. \A k \in 1 .. n - 1 : k \in Stages /\ st.art[k] # NoId
    BY <2>6 DEF Linked, Stages
  <2>8. PICK m \in made : m.id = id
    BY <2>3
  <2>9. Matches(st, m) /\ id # NoId
    BY <1>4, <2>8
  <2>10. \A k \in Stages : st.art[k].stage \in {0, k}
    BY DEF Restoring
  <2>11. Unambiguous(made) => m.handoff = s.handoff /\ m.on = Before(st.art, n)
    <3>1. \A k \in 1 .. n - 1 : st.art[k] # NoId /\ st.art[k].stage \in {0, k}
      BY <2>7, <2>10
    <3>2. Fits(st.art, st.handoff, made) /\ m.id.stage = n
      BY <1>1, <2>3, <2>8 DEF Restoring
    <3> HIDE DEF st, id
    <3> QED
      BY <1>1, <2>9, <3>1, <3>2, MatchGives
  <2>12. Unambiguous(made) => st.art[n] = NoId
    <3>1. SUFFICES ASSUME Unambiguous(made), st.art[n] # NoId PROVE FALSE
      OBVIOUS
    <3>2. Fits(st.art, st.handoff, made) /\ st.art[n].stage \in {0, n}
      BY <1>1, <2>10 DEF Restoring
    <3>3. ASSUME NEW x \in made, x.id = st.art[n] PROVE Matches(st, x)
      <4> HIDE DEF st
      <4> QED
        BY <3>1, <3>2, <3>3, FitMatches
    <3>4. Linked(st, n)
      <4>1. \A k \in 1 .. n : k = n \/ k \in 1 .. n - 1
        BY DEF Stages
      <4> QED
        BY <2>6, <3>1, <3>3, <4>1 DEF Linked
    <3> QED
      BY <1>4, <3>4
  <2> HIDE DEF ar, fo, id, st, found
  <2>13. ASSUME NEW k \in Stages, ar[k] # NoId
         PROVE  /\ \E x \in made : IsSource(x, ar, k, s.handoff, made)
                /\ \A j \in 1 .. k - 1 : ar[j] # NoId
    <3>1. \A j \in 1 .. k - 1 : j \in Stages
      BY DEF Stages
    <3>2. CASE k = n
      <4>1. \A j \in 1 .. n - 1 : ar[j] = st.art[j]
        BY <2>5, <2>7
      <4>2. Before(ar, n) = Before(st.art, n)
        BY <4>1, BeforeAgrees
      <4>3. IsSource(m, ar, n, s.handoff, made)
        BY <2>5, <2>8, <2>11, <4>2 DEF IsSource
      <4> QED
        BY <2>7, <3>2, <4>1, <4>3
    <3>3. CASE k # n
      <4>1. st.art[k] # NoId
        BY <2>5, <2>13, <3>3
      <4>2. \A j \in 1 .. k - 1 : st.art[j] # NoId
        BY <4>1 DEF Restoring, Prefix, st
      <4>3. PICK x \in made : IsSource(x, st.art, k, s.handoff, made)
        BY <4>1 DEF Restoring, Fits, st
      <4>4. Unambiguous(made) => Before(ar, k) = Before(st.art, k)
        <5>1. SUFFICES ASSUME Unambiguous(made)
                       PROVE  \A j \in 1 .. k - 1 : ar[j] = st.art[j]
          BY BeforeAgrees
        <5> QED
          BY <2>5, <2>12, <3>1, <4>2, <5>1
      <4>5. IsSource(x, ar, k, s.handoff, made)
        BY <2>5, <3>3, <4>3, <4>4 DEF IsSource
      <4> QED
        BY <2>5, <2>9, <3>1, <4>2, <4>5
    <3> QED
      BY <3>2, <3>3
  <2> DEFINE v == [st EXCEPT !.art = ar, !.form = fo]
  <2>14. v \in State /\ v.art = ar /\ v.form = fo /\ v.handoff = st.handoff
    BY <1>1, <2>4 DEF State
  <2>15. v = [s EXCEPT !.art = ar, !.form = fo]
    BY <1>1 DEF Restoring, State, st
  <2>16. u.state = v /\ u.goes = TRUE
    BY <2>2
  <2> HIDE DEF v, u
  <2>17. \A k \in Stages : ar[k].stage \in {0, k}
    BY <2>3, <2>5, <2>10
  <2>18. Complete(s) => Complete(v)
    BY <2>5, <2>9, <2>14 DEF Restoring, Complete, st
  <2>19. Fits(ar, s.handoff, made) /\ Prefix(v)
    BY <2>13, <2>14 DEF Fits, Prefix
  <2>20. Linked(v, n)
    <3>1. \A k \in 1 .. n - 1 : v.art[k] = st.art[k]
      BY <2>5, <2>7, <2>14
    <3>2. \A k \in 1 .. n : SourceOf(v, k) = SourceOf(st, k)
      <4>1. \A k \in 1 .. n : k # 1 => k - 1 \in 1 .. n - 1
        BY DEF Stages
      <4> QED
        BY <2>14, <3>1, <4>1 DEF SourceOf
    <3>3. ASSUME NEW k \in 1 .. n, NEW x \in made, x.id = v.art[k], v.art[k] # NoId
          PROVE  Matches(v, x)
      <4>1. k \in Stages /\ x.id.stage \in Stages
        BY DEF MadeInv, Stages
      <4>2. x.id.stage = k
        BY <2>14, <2>17, <3>3, <4>1 DEF Stages
      <4>3. Matches(st, x)
        <5>1. CASE k = n
          BY <1>4, <2>5, <2>14, <3>3, <5>1 DEF found
        <5>2. CASE k # n
          <6>1. k \in 1 .. n - 1
            BY <5>2 DEF Stages
          <6> QED
            BY <2>6, <3>1, <3>3, <6>1 DEF Linked
        <5> QED
          BY <5>1, <5>2
      <4> QED
        BY <3>2, <4>2, <4>3 DEF Matches
    <3>4. \A k \in 1 .. n : v.art[k] # NoId
      <4>1. \A k \in 1 .. n : k = n \/ k \in 1 .. n - 1
        BY DEF Stages
      <4> QED
        BY <2>5, <2>7, <2>9, <2>14, <3>1, <4>1
    <3> QED
      BY <3>3, <3>4 DEF Linked
  <2>21. Restoring(s, u, n)
    BY <2>14, <2>15, <2>16, <2>17, <2>18, <2>19, <2>20 DEF Restoring
  <2> QED
    BY <2>2, <2>16, <2>21 DEF u, v
<1> QED
  BY <1>2, <1>3, <1>4

\* The restoring ends in a state that fits together, and that nothing but the
\* artifacts tells from the one before.
LEMMA RestoredIs ==
  ASSUME TypeInv, MadeInv, NEW s \in State, Fits(s.art, s.handoff, made), Prefix(s),
         \A id \in s.heard : \E m \in made : m.id = id,
         \A k \in Stages : s.art[k].stage \in {0, k}
  PROVE  LET u == Restored(s)
         IN /\ u \in State /\ u = [s EXCEPT !.art = u.art, !.form = u.form]
            /\ Fits(u.art, s.handoff, made) /\ Prefix(u)
            /\ \A k \in Stages : u.art[k].stage \in {0, k}
            /\ Complete(s) => Complete(u)
<1> DEFINE t0 == [state |-> s, goes |-> TRUE]
           t1 == RestoreStage(t0, 1)
           t2 == RestoreStage(t1, 2)
           t3 == RestoreStage(t2, 3)
           t4 == RestoreStage(t3, 4)
<1>1. Restoring(s, t0, 0) /\ t0 = [state |-> t0.state, goes |-> t0.goes]
  <2>1. s = [s EXCEPT !.art = s.art, !.form = s.form]
    BY DEF State
  <2> QED
    BY <2>1 DEF Restoring, Linked
<1> HIDE DEF t0
<1>2. Restoring(s, t1, 1) /\ t1 = [state |-> t1.state, goes |-> t1.goes]
  <2>1. 1 \in Stages /\ 1 - 1 = 0
    BY DEF Stages
  <2> QED
    BY <1>1, <2>1, RestoreStageIs
<1> HIDE DEF t1
<1>3. Restoring(s, t2, 2) /\ t2 = [state |-> t2.state, goes |-> t2.goes]
  <2>1. 2 \in Stages /\ 2 - 1 = 1
    BY DEF Stages
  <2> QED
    BY <1>2, <2>1, RestoreStageIs
<1> HIDE DEF t2
<1>4. Restoring(s, t3, 3) /\ t3 = [state |-> t3.state, goes |-> t3.goes]
  <2>1. 3 \in Stages /\ 3 - 1 = 2
    BY DEF Stages
  <2> QED
    BY <1>3, <2>1, RestoreStageIs
<1> HIDE DEF t3
<1>5. Restoring(s, t4, 4)
  <2>1. 4 \in Stages /\ 4 - 1 = 3
    BY DEF Stages
  <2> QED
    BY <1>4, <2>1, RestoreStageIs
<1>6. Restored(s) = t4.state
  BY DEF Restored, t0, t1, t2, t3, t4
<1> QED
  BY <1>5, <1>6 DEF Restoring

\* The first missing stage comes after stages that are there.
LEMMA FirstMissingIs ==
  ASSUME NEW s
  PROVE  LET n == FirstMissing(s)
         IN /\ n = 5 => Linked(s, 4) /\ Complete(s)
            /\ n # 5 => n \in Stages /\ \A k \in 1 .. n - 1 : s.art[k] # NoId
            /\ n \in 1 .. 5
<1>1. CASE Linked(s, 4)
  BY <1>1 DEF FirstMissing, Linked, Complete, Stages
<1>2. CASE ~Linked(s, 4)
  <2> DEFINE Is(n) == Linked(s, n - 1) /\ ~Linked(s, n)
  <2>1. Linked(s, 0)
    BY DEF Linked
  <2>2. Is(1) \/ Is(2) \/ Is(3) \/ Is(4)
    BY <1>2, <2>1
  <2>3. \E n \in Stages : Is(n)
    BY <2>2 DEF Stages
  <2>4. FirstMissing(s) = CHOOSE n \in Stages : Is(n)
    BY <1>2 DEF FirstMissing
  <2> HIDE DEF Is
  <2>5. FirstMissing(s) \in Stages /\ Is(FirstMissing(s))
    BY <2>3, <2>4
  <2> QED
    BY <2>5 DEF Is, Linked, Stages
<1> QED
  BY <1>1, <1>2

\* The validator has verdicts.
LEMMA PossibleTyped ==
  ASSUME NEW s
  PROVE  Possible(s) \subseteq Verdicts
BY FirstMissingIs, TargetsAssumption DEF Possible, Verdicts, Stages

\* The handoff of Conclusion replaces what was made from the one before it.
LEMMA ReceivedIs ==
  ASSUME TypeInv
  PROVE  LET s == Received(mem)
         IN /\ s \in State
            /\ \A k \in Stages : s.art[k] = NoId
            /\ s.checked = NoContents /\ s.package = NoPackage
            /\ s.handoff = inbox.n /\ s.handoff > 0
            /\ \A f \in {"status", "heard", "asked", "count", "up", "phase", "active"} :
                 s[f] = mem[f]
<1> DEFINE c == Cleared(mem, 1)
<1>1. 1 \in Stages
  BY DEF Stages
<1>2. mem \in State /\ inbox.n \in Nat \ {0} /\ inbox.final \in Nat
      /\ inbox.problem \in Problem
  BY DEF TypeInv
<1>3. c \in State /\ c.checked = NoContents /\ c.package = NoPackage
  BY <1>1, <1>2, ClearedIs
<1>4. \A k \in Stages : c.art[k] = NoId
  BY <1>1, <1>2, ClearedIs DEF Stages
<1>5. \A f \in {"status", "heard", "asked", "count", "up", "phase", "active"} :
        c[f] = mem[f]
  BY <1>1, <1>2, ClearedIs
<1>6. Received(mem) = [c EXCEPT !.handoff = inbox.n, !.final = inbox.final,
                                !.problem = inbox.problem]
  BY DEF Received
<1> HIDE DEF c
<1>7. Received(mem) \in State
  BY <1>2, <1>3, <1>6 DEF State
<1>8. \A f \in {"status", "heard", "asked", "count", "up", "phase", "active"} :
        Received(mem)[f] = c[f]
  BY <1>3, <1>6 DEF State
<1>9. \A f \in {"art", "checked", "package"} : Received(mem)[f] = c[f]
  BY <1>3, <1>6 DEF State
<1>10. Received(mem).handoff = inbox.n /\ inbox.n > 0
  BY <1>2, <1>3, <1>6 DEF State
<1> QED
  BY <1>3, <1>4, <1>5, <1>7, <1>8, <1>9, <1>10

-----------------------------------------------------------------------------
(* Types.                                                                    *)

\* The task of a stage has its number.
LEMMA StageIdIs ==
  ASSUME TypeInv, AtStage
  PROVE  StageId(run.at) \in Task /\ StageId(run.at).stage = run.at
<1>1. run.at \in Stages /\ run.ids[run.at] \in Task /\ mem.up \in 0 .. MaxRevisions
      /\ mem.count \in 0 .. MaxRevisions
  BY DEF TypeInv, AtStage, Run, Art, State
<1>2. run.ids[run.at] # NoId => run.ids[run.at].stage = run.at
  BY DEF AtStage
<1>3. LogicalId(mem, run.at) \in Task /\ LogicalId(mem, run.at).stage = run.at
  BY <1>1, Limits DEF LogicalId, Id, Task, Stages
<1> QED
  BY <1>1, <1>2, <1>3 DEF StageId

\* What is validated, and the package that is built.
LEMMA ContentsTyped ==
  ASSUME TypeInv
  PROVE  Contents(mem) \in Content /\ Built(mem) \in Package
BY DEF TypeInv, Contents, Built, State, Content, Package

\* Contents of a handoff are not nothing.
LEMMA ContentsNotNothing ==
  ASSUME NEW s, s.handoff > 0
  PROVE  Contents(s) # NoContents
BY DEF Contents, NoContents

\* The request of a planned revision is about the validation that asks for it.
LEMMA InternalRequestIs ==
  ASSUME IInv, pc = "plan"
  PROVE  LET r == InternalRequest(mem)
         IN /\ r \in Request /\ r.route = "internal" /\ r.first \in Stages
            /\ r.final = mem.final /\ r.base = mem.checked /\ r.base # NoContents
            /\ mem.count < MaxRevisions
<1>1. mem \in State
  BY DEF IInv, TypeInv
<1>2. mem.checked # NoContents /\ Gate(mem) = "revise"
  BY DEF IInv, CommandInv
<1>3. Judged(mem.checked, checks)
  BY <1>2 DEF IInv, StatesInv, Good, Sound
<1>4. ~Passed(mem) /\ mem.count < MaxRevisions
  BY <1>1, <1>2, Limits DEF Gate, State
<1>5. Verdict(mem.checked)[2] \in Stages
  BY <1>2, <1>3, <1>4, GateIs
<1>6. Maximum(mem.epoch, mem.count) + 1 \in Nat
  BY <1>1, Limits DEF Maximum, State
<1> DEFINE f == Verdict(mem.checked)[2]
           e == Maximum(mem.epoch, mem.count) + 1
<1>7. InternalRequest(mem) =
        [NoRequest EXCEPT !.route = "internal", !.epoch = e, !.first = f,
                          !.final = mem.final, !.base = mem.checked]
  BY DEF InternalRequest
<1>8. f \in 0 .. 4 /\ f \in Stages /\ e \in Nat
  BY <1>5, <1>6 DEF Stages
<1> HIDE DEF f, e
<1>9. InternalRequest(mem) =
        [route |-> "internal", epoch |-> e, serial |-> 0, first |-> f, impact |-> "none",
         final |-> mem.final, base |-> mem.checked]
  BY <1>7 DEF NoRequest
<1> QED
  BY <1>1, <1>2, <1>4, <1>8, <1>9 DEF State, Request

\* A budget slot is a number up to the limit.
LEMMA SlotIs ==
  ASSUME IInv, pc = "begin"
  PROVE  LET slot == CHOOSE i \in Slot(mem.active) : TRUE
         IN /\ slot \in 1 .. MaxRevisions
            /\ Maximum(mem.count, slot) \in 0 .. MaxRevisions
<1>1. Slot(mem.active) # {}
  BY DEF IInv, CommandInv
<1>2. Slot(mem.active) \subseteq 1 .. MaxRevisions
  <2>1. slots \in Seq(Request) /\ Len(slots) <= MaxRevisions
    BY DEF IInv, TypeInv, CountsInv
  <2>2. DOMAIN slots = 1 .. Len(slots) /\ Len(slots) \in Nat
    BY <2>1
  <2> QED
    BY <2>1, <2>2, Limits DEF Slot
<1>3. (CHOOSE i \in Slot(mem.active) : TRUE) \in 1 .. MaxRevisions
  BY <1>1, <1>2
<1>4. mem.count \in 0 .. MaxRevisions
  BY DEF IInv, TypeInv, State
<1> QED
  BY <1>3, <1>4, Limits DEF Maximum

\* A request to Conclusion that has a budget slot waits for its answer.
LEMMA AskConclusionIs ==
  ASSUME IInv, AskConclusion
  PROVE  \/ Leave("refused") /\ UNCHANGED <<requests, asked>>
         \/ \E r \in Request :
              /\ r.route = "upstream"
              /\ asked < MaxRevisions /\ asked' = asked + 1
              /\ requests' = requests \union {r}
              /\ mem' = [mem EXCEPT !.up = mem.up + 1,
                                    !.status = "WAITING_UPSTREAM_REVISION",
                                    !.phase = "waiting_upstream_result",
                                    !.epoch = r.epoch, !.active = r]
              /\ UNCHANGED <<disk, run>>
<1> DEFINE e == Maximum(mem.epoch, mem.up) + 1
           i == IF mem.problem = "structural" THEN "unchanged"
                ELSE "reselection_required"
           r == [NoRequest EXCEPT !.route = "upstream", !.serial = asked + 1, !.epoch = e,
                                  !.final = mem.final, !.impact = i]
<1>1. mem \in State /\ asked \in Nat
  BY Limits DEF IInv, TypeInv
<1>2. e \in Nat /\ asked + 1 \in Nat
      /\ i \in {"none", "unchanged", "reselection_required"}
  BY <1>1, Limits DEF State, Maximum
<1>3. \/ Leave("refused") /\ UNCHANGED <<requests, asked>>
      \/ /\ asked < MaxRevisions /\ asked' = asked + 1
         /\ requests' = requests \union {r}
         /\ mem' = [mem EXCEPT !.up = mem.up + 1, !.status = "WAITING_UPSTREAM_REVISION",
                               !.phase = "waiting_upstream_result", !.epoch = r.epoch,
                               !.active = r]
         /\ UNCHANGED <<disk, run>>
  BY DEF AskConclusion
<1> HIDE DEF e, i
<1>4. r \in Request /\ r.route = "upstream"
  BY ZenonT(30), <1>1, <1>2, NothingTyped DEF State, Request
<1> HIDE DEF r
<1> QED
  BY <1>3, <1>4

\* Every action that changes the state or saves it leaves one.
LEMMA StatesTyped == IInv /\ [Next]_vars => disk' \in State /\ mem' \in State
<1> SUFFICES ASSUME IInv, [Next]_vars PROVE disk' \in State /\ mem' \in State
  OBVIOUS
<1> USE DEF Save, SaveAndEnd, Leave, End, Goto
<1>1. disk \in State /\ mem \in State /\ run \in Run /\ TypeInv
  BY DEF IInv, TypeInv
<1>2. CASE \/ UNCHANGED <<disk, mem>> \/ NotFinalized \/ SavePlan \/ Revise \/ Receive
           \/ Asked \/ Crash
  BY <1>1, <1>2 DEF NotFinalized, SavePlan, Revise, Receive, Asked, Crash
<1>3. \A s \in State : \A st \in Status : [s EXCEPT !.status = st] \in State
  BY DEF State
<1>4. \A s \in State : \A ph \in Phase : [s EXCEPT !.phase = ph] \in State
  BY DEF State
<1>5. CASE Stop \/ Delivered
  BY <1>1, <1>3, <1>5 DEF Stop, Delivered, Block, Status
<1>6. CASE Exhausted
  BY <1>1, <1>4, <1>6 DEF Exhausted, Phase
<1>7. CASE Unsettled
  BY <1>1, <1>4, <1>7 DEF Unsettled, Finalized, Phase
<1>8. CASE Approve
  <2>1. [mem EXCEPT !.package = Built(mem)] \in State
    BY <1>1, ContentsTyped DEF State
  <2> DEFINE s == [mem EXCEPT !.package = Built(mem)]
  <2>2. mem' = s \/ mem' = [s EXCEPT !.phase = "completed"]
    BY <1>8 DEF Approve, Finalized
  <2>3. disk' = disk
    BY <1>8 DEF Approve
  <2> HIDE DEF s
  <2> QED
    BY <1>1, <1>4, <2>1, <2>2, <2>3 DEF s, Phase
<1>9. CASE Ask
  <2>1. AtStage
    BY <1>9 DEF Ask, IInv, CommandInv, Making
  <2>2. Working[run.at] \in Status /\ StageId(run.at) \in Task
    BY <1>1, <2>1, StageIdIs DEF AtStage, Stages, Working, Status
  <2>3. mem' = [mem EXCEPT !.status = Working[run.at],
                           !.asked = mem.asked \union {StageId(run.at)}] /\ disk' = mem'
    BY <1>9 DEF Ask
  <2> QED
    BY <1>1, <2>2, <2>3 DEF State
<1>10. CASE Answer
  <2>1. AtStage
    BY <1>10 DEF Answer, IInv, CommandInv, Making
  <2>2. StageId(run.at) \in Task
    BY <1>1, <2>1, StageIdIs
  <2>3. [mem EXCEPT !.heard = @ \union {StageId(run.at)}] \in State
    BY <1>1, <2>2 DEF State
  <2>4. \A b \in BOOLEAN :
          [[mem EXCEPT !.fault = StageId(run.at), !.again = b] EXCEPT !.status = "FAILED"]
            \in State
    BY <1>1, <2>2 DEF State, Status
  <2> QED
    BY <1>10, <2>3, <2>4 DEF Answer, Fail
<1>11. CASE Keep
  <2>1. run.at \in Stages /\ run.ids[run.at] \in Task
    BY <1>1, <1>11 DEF Keep, IInv, CommandInv, Making, AtStage, Run, Art
  <2>2. [mem.art EXCEPT ![run.at] = run.ids[run.at]] \in Art
    BY <1>1, <2>1 DEF State, Art
  <2>3. \A ar \in Art : \A f \in Form : [mem EXCEPT !.art = ar, !.form = f] \in State
    BY <1>1 DEF State
  <2>4. (IF run.at = 3 THEN "edited" ELSE mem.form) \in Form
    BY <1>1 DEF State, Form
  <2>5. mem' = [mem EXCEPT !.art = [mem.art EXCEPT ![run.at] = run.ids[run.at]],
                           !.form = IF run.at = 3 THEN "edited" ELSE mem.form]
        /\ disk' = mem'
    BY <1>1, <1>11 DEF Keep, State
  <2> QED
    BY <2>2, <2>3, <2>4, <2>5
<1>12. CASE Validate
  <2>1. [mem EXCEPT !.status = "VALIDATING_PACKAGE", !.checked = Contents(mem)] \in State
    BY <1>1, ContentsTyped DEF State, Status
  <2> QED
    BY <1>12, <2>1 DEF Validate
<1>13. CASE Plan
  <2>1. \A r \in Request : [mem EXCEPT !.phase = "authorization_required", !.epoch = r.epoch,
                                       !.active = r, !.status = "BLOCKED"] \in State
    BY ZenonT(30), <1>1 DEF State, Request, Phase, Status
  <2>2. InternalRequest(mem) \in Request
    BY <1>13, InternalRequestIs DEF Plan
  <2> QED
    BY <1>1, <1>13, <2>1, <2>2 DEF Plan
<1>14. CASE Begin
  <2> DEFINE c == Maximum(mem.count, CHOOSE i \in Slot(mem.active) : TRUE)
             s == [mem EXCEPT !.phase = "executing", !.status = "REVISING", !.count = c]
  <2>1. c \in 0 .. MaxRevisions
    BY <1>14, SlotIs DEF Begin
  <2> HIDE DEF c
  <2>2. s \in State
    BY <1>1, <2>1 DEF State, Status, Phase
  <2>3. mem.active.first \in Stages
    BY <1>14 DEF Begin, IInv, CommandInv, StatesInv, Good, Bound
  <2>4. mem' = Cleared(s, mem.active.first) /\ disk' = mem'
    BY <1>14 DEF Begin, c
  <2> HIDE DEF s
  <2> QED
    BY <2>2, <2>3, <2>4, ClearedIs
<1>15. CASE Start
  BY <1>1, <1>3, <1>15, ReceivedIs DEF Start, Status
<1>16. CASE Resume
  <2>1. Received(mem) \in State
    BY <1>1, ReceivedIs
  <2>2. \A ph \in Phase : [Received(mem) EXCEPT !.phase = ph] \in State
    BY <1>4, <2>1
  <2>3. (IF Waiting(mem) THEN "completed" ELSE Received(mem).phase) \in Phase
    BY <2>1 DEF State, Phase
  <2>4. \/ disk' = disk /\ (mem' = mem \/ mem' = disk)
        \/ /\ mem' = [Received(mem) EXCEPT !.phase = IF Waiting(mem) THEN "completed"
                                                    ELSE Received(mem).phase]
           /\ disk' = mem' \/ disk' = disk
    BY <1>16 DEF Resume
  <2> QED
    BY <1>1, <2>2, <2>3, <2>4
<1>17. CASE AskConclusion
  <2>1. asked < MaxRevisions => mem.up + 1 \in 0 .. MaxRevisions
    BY SMTT(30), <1>1, Limits DEF State, TypeInv, IInv, CountsInv, Counted
  <2>2. ASSUME NEW u \in 0 .. MaxRevisions, NEW r \in Request
        PROVE  [mem EXCEPT !.up = u, !.status = "WAITING_UPSTREAM_REVISION",
                           !.phase = "waiting_upstream_result", !.epoch = r.epoch,
                           !.active = r] \in State
    BY <1>1 DEF State, Status, Phase, Request
  <2> QED
    BY ZenonT(30), <1>1, <1>17, <2>1, <2>2, AskConclusionIs
<1>18. CASE Recover
  <2>1. CASE RecoverFailed
    <3>1. Restored(mem) \in State /\ Prefix(Restored(mem))
      BY <1>1, RestoredIs DEF IInv, StatesInv, Good, Sound, CountsInv, Counted
    <3>2. FirstMissing(Restored(mem)) # 5 => FirstMissing(Restored(mem)) \in Stages
      BY <3>1, FirstMissingIs
    <3>3. FirstMissing(Restored(mem)) # 5
            => Cleared(Restored(mem), FirstMissing(Restored(mem))) \in State
      BY <3>1, <3>2, ClearedIs
    <3> QED
      BY <2>1, <3>1, <3>3 DEF RecoverFailed
  <2>2. CASE Repair
    <3>1. "repaired" \in Form /\ "VALIDATING_PACKAGE" \in Status /\ 1 \in 0 .. 1
      BY DEF Form, Status
    <3>2. \A f \in Form : \A st \in Status : \A k \in 0 .. 1 :
            [mem EXCEPT !.form = f, !.repairs = k, !.status = st] \in State
      BY <1>1 DEF State
    <3> QED
      BY <2>2, <3>1, <3>2 DEF Repair
  <2> QED
    BY <1>1, <1>18, <2>1, <2>2 DEF Recover, Revalidate
<1> QED
  BY <1>2, <1>5, <1>6, <1>7, <1>8, <1>9, <1>10, <1>11, <1>12, <1>13, <1>14, <1>15, <1>16,
     <1>17, <1>18
     DEF Next, vars, Line, Judge, Revision, Handoff, Recovery, Around, PackageFile, Deliver,
     DeliverTexts, Authorize, ProviderRetry, ConclusionHands, ConclusionFiles

\* Every action that moves the command leaves it at a stage, with ids of tasks.
LEMMA RunTyped == IInv /\ [Next]_vars => run' \in Run
<1> SUFFICES ASSUME IInv, [Next]_vars PROVE run' \in Run
  OBVIOUS
<1> USE DEF Save, SaveAndEnd, Leave, End, Goto, Fail, Block
<1>1. run \in Run /\ NoRun \in Run /\ mem \in State /\ TypeInv
  BY NothingTyped DEF IInv, TypeInv
<1>2. \A k \in 0 .. 5 : \A i \in Art : [at |-> k, ids |-> i] \in Run
  BY DEF Run
<1>3. run = [at |-> run.at, ids |-> run.ids] /\ run.at \in 0 .. 5 /\ run.ids \in Art
  BY <1>1 DEF Run
<1>4. CASE UNCHANGED run \/ run' = NoRun
  BY <1>1, <1>4
<1>5. CASE Answer
  <2>1. AtStage
    BY <1>5 DEF Answer, IInv, CommandInv, Making
  <2>2. StageId(run.at) \in Task
    BY <1>1, <2>1, StageIdIs
  <2>3. [run.ids EXCEPT ![run.at] = StageId(run.at)] \in Art
    BY <1>3, <2>2 DEF Art
  <2>4. run' = NoRun \/ run' = [at |-> run.at,
                                ids |-> [run.ids EXCEPT ![run.at] = StageId(run.at)]]
    BY <1>3, <1>5 DEF Answer
  <2> QED
    BY <1>1, <1>2, <1>3, <2>3, <2>4
<1>6. CASE Keep
  <2>1. run.at + 1 \in 0 .. 5
    BY <1>6 DEF Keep, IInv, CommandInv, Making, AtStage, Stages
  <2>2. run' = [at |-> run.at + 1, ids |-> run.ids]
    BY <1>3, <1>6 DEF Keep
  <2> QED
    BY <1>2, <1>3, <2>1, <2>2
<1>7. CASE Begin
  <2>1. mem.active.first \in Stages
    BY <1>7 DEF Begin, IInv, CommandInv, StatesInv, Good, Bound
  <2>2. mem.up \in 0 .. MaxRevisions /\ mem.active.epoch \in Nat
    BY <1>1 DEF State, Request
  <2>3. \A n \in Stages : Id(n, mem.up, mem.active.epoch) \in Task
    BY <2>2 DEF Id, Task, Stages
  <2>4. OwnIds(mem) \in Art
    BY <2>3, NothingTyped DEF OwnIds, Art
  <2>5. run' = [at |-> mem.active.first, ids |-> OwnIds(mem)]
    BY <1>7 DEF Begin
  <2>6. mem.active.first \in 0 .. 5
    BY <2>1 DEF Stages
  <2> QED
    BY <1>2, <2>4, <2>5, <2>6
<1>8. CASE Receive
  BY <1>1, <1>2, <1>8, NothingTyped DEF Receive, NoRun
<1>9. CASE Recover
  <2>1. CASE RecoverFailed
    <3> DEFINE n == FirstMissing(Restored(mem))
               id == Suspect(mem, n)
    <3>1. n \in 0 .. 5
      <4>1. Restored(mem) \in State /\ Prefix(Restored(mem))
        BY <1>1, RestoredIs DEF IInv, StatesInv, Good, Sound, CountsInv, Counted
      <4> QED
        BY <4>1, FirstMissingIs
    <3>2. id \in Task /\ RetryOf(id) \in Task
      <4>1. mem.fault \in Task
        BY <1>1 DEF State
      <4>2. id \in Task
        BY <4>1, NothingTyped DEF Suspect
      <4> QED
        BY <4>2 DEF RetryOf, Task
    <3>3. [NoArt EXCEPT ![n] = RetryOf(id)] \in Art
      BY <3>2, NothingTyped DEF Art
    <3>4. run' = [at |-> n, ids |-> IF id = NoId THEN NoArt
                                    ELSE [NoArt EXCEPT ![n] = RetryOf(id)]]
      BY <2>1 DEF RecoverFailed
    <3> HIDE DEF n, id
    <3> QED
      BY <1>2, <3>1, <3>3, <3>4, NothingTyped
  <2>2. CASE Repair \/ Revalidate
    BY <1>1, <1>2, <2>2, NothingTyped DEF Repair, Revalidate, NoRun
  <2> QED
    BY <1>1, <1>9, <2>1, <2>2 DEF Recover
<1> QED
  BY <1>4, <1>5, <1>6, <1>7, <1>8, <1>9
     DEF Next, vars, calls, exchange, ends, Line, Judge, Revision, Handoff, Recovery,
     Around, Ask, Validate, NotFinalized, Approve, Unsettled, Stop, PackageFile, Deliver,
     DeliverTexts, Delivered, Plan, SavePlan, Revise, Exhausted, Authorize, Start,
     AskConclusion, Asked, Resume, ProviderRetry, Crash, ConclusionHands, ConclusionFiles

\* On record are the call, what it was given, and the handoff.
LEMMA MadeIs ==
  ASSUME TypeInv, AtStage
  PROVE  LET id == StageId(run.at)
         IN /\ Made(id) = [id |-> id, on |-> Before(mem.art, run.at), handoff |-> mem.handoff]
            /\ Made(id) \in Artifact(run.at)
<1>1. StageId(run.at) \in Task /\ StageId(run.at).stage = run.at
  BY StageIdIs
<1>2. mem.art \in Art /\ mem.handoff \in Nat
  BY DEF TypeInv, State
<1>3. \A k \in 1 .. run.at - 1 : k \in Stages
  BY DEF AtStage, Stages
<1>4. Before(mem.art, run.at) \in [1 .. run.at - 1 -> Task]
  BY <1>2, <1>3 DEF Before, Art
<1> QED
  BY <1>1, <1>2, <1>4 DEF Made, Artifact

\* Calls, artifacts and verdicts are what they are.
LEMMA CallsTyped ==
  IInv /\ [Next]_vars
    => /\ paid' \subseteq Task /\ retries' \subseteq Task /\ checks' \subseteq Check
       /\ \A m \in made' : \E n \in Stages : m \in Artifact(n)
<1> SUFFICES ASSUME IInv, [Next]_vars
             PROVE  /\ paid' \subseteq Task /\ retries' \subseteq Task
                    /\ checks' \subseteq Check
                    /\ \A m \in made' : \E n \in Stages : m \in Artifact(n)
  OBVIOUS
<1>1. TypeInv
  BY DEF IInv
<1>2. CASE UNCHANGED <<paid, retries, checks, made>>
  BY <1>1, <1>2 DEF TypeInv
<1>3. CASE Answer
  <2>1. AtStage
    BY <1>3 DEF Answer, IInv, CommandInv, Making
  <2>2. StageId(run.at) \in Task /\ Made(StageId(run.at)) \in Artifact(run.at)
    BY <1>1, <2>1, StageIdIs, MadeIs
  <2>3. /\ paid' = paid \union {StageId(run.at)} /\ UNCHANGED <<retries, checks>>
        /\ made' = made \/ made' = made \union {Made(StageId(run.at))}
    BY <1>3 DEF Answer
  <2> QED
    BY <1>1, <2>1, <2>2, <2>3 DEF TypeInv, AtStage
<1>4. CASE Validate
  <2>1. \A v \in Verdicts : [of |-> Contents(mem), verdict |-> v] \in Check
    BY <1>1, ContentsTyped DEF Check
  <2>2. PICK v \in Possible(mem) :
          checks' = checks \union {[of |-> Contents(mem), verdict |-> v]}
    BY <1>4 DEF Validate
  <2>3. v \in Verdicts /\ UNCHANGED <<paid, retries, made>>
    BY <1>4, PossibleTyped DEF Validate
  <2> QED
    BY <1>1, <2>1, <2>2, <2>3 DEF TypeInv
<1>5. CASE ProviderRetry
  BY <1>1, <1>5 DEF ProviderRetry, TypeInv, State
<1> QED
  BY <1>2, <1>3, <1>4, <1>5
     DEF Next, vars, calls, Line, Judge, Revision, Handoff, Recovery, Around, Ask, Keep,
     NotFinalized, Approve, Unsettled, Stop, PackageFile, Deliver, DeliverTexts, Delivered,
     Plan, SavePlan, Revise, Exhausted, Authorize, Begin, Start, Receive, AskConclusion,
     Asked, Resume, Recover, Crash, ConclusionHands, ConclusionFiles

\* Requests, budgets and results are what they are.
LEMMA ExchangeTyped ==
  IInv /\ [Next]_vars
    => /\ requests' \subseteq Request /\ slots' \in Seq(Request)
       /\ asked' \in 0 .. MaxRevisions /\ noted' \subseteq Request
       /\ results' \subseteq Answered
<1> SUFFICES ASSUME IInv, [Next]_vars
             PROVE  /\ requests' \subseteq Request /\ slots' \in Seq(Request)
                    /\ asked' \in 0 .. MaxRevisions /\ noted' \subseteq Request
                    /\ results' \subseteq Answered
  OBVIOUS
<1>1. TypeInv /\ mem.active \in Request
  BY DEF IInv, TypeInv, State
<1>2. CASE UNCHANGED <<requests, slots, asked, noted, results>>
  BY <1>1, <1>2 DEF TypeInv
<1>3. CASE Approve \/ Unsettled
  <2>1. \A st \in {"completed", "partial"} : Result(mem, st) \in Answered
    BY <1>1 DEF Result, Answered, TypeInv, State
  <2>2. /\ UNCHANGED <<requests, slots, asked, noted>>
        /\ WriteResult(mem, "completed") \/ WriteResult(mem, "partial")
    BY <1>3 DEF Approve, Unsettled
  <2> QED
    BY <1>1, <2>1, <2>2 DEF WriteResult, TypeInv
<1>4. CASE Plan
  BY <1>1, <1>4, InternalRequestIs DEF Plan, TypeInv
<1>5. CASE Exhausted \/ Authorize
  <2>1. UNCHANGED <<requests, asked, results>>
    BY <1>5 DEF Exhausted, Authorize
  <2>2. noted' = noted \/ noted' = noted \union {mem.active}
    BY <1>5 DEF Exhausted, Authorize
  <2>3. slots' = slots \/ slots' = Append(slots, mem.active)
    BY <1>5 DEF Exhausted, Authorize
  <2>4. slots' \in Seq(Request)
    BY SMTT(30), <1>1, <2>3 DEF TypeInv
  <2> QED
    BY <1>1, <2>1, <2>2, <2>4 DEF TypeInv
<1>6. CASE AskConclusion
  <2>1. UNCHANGED <<slots, noted, results>>
    BY <1>6 DEF AskConclusion
  <2>2. \/ UNCHANGED <<requests, asked>>
        \/ /\ asked < MaxRevisions /\ asked' = asked + 1
           /\ \E r \in Request : requests' = requests \union {r}
    BY <1>6, AskConclusionIs
  <2>3. asked' \in 0 .. MaxRevisions
    BY <1>1, <2>2, Limits DEF TypeInv
  <2> QED
    BY <1>1, <2>1, <2>2, <2>3 DEF TypeInv
<1>7. \A r \in Request : \A st \in {"completed", "partial"} : Reply(r, st) \in Answered
  BY <1>1, NothingTyped DEF Reply, Answered, TypeInv
<1>8. CASE Resume
  <2>1. Answers(mem.active) \subseteq Answered
    BY <1>1, <1>7 DEF Answers, ResultsOf, TypeInv
  <2> QED
    BY <1>1, <1>8, <2>1 DEF Resume, TypeInv
<1>9. CASE ConclusionFiles
  BY <1>1, <1>7, <1>9 DEF ConclusionFiles, Upstream, TypeInv
<1> QED
  BY <1>2, <1>3, <1>4, <1>5, <1>6, <1>8, <1>9
     DEF Next, vars, exchange, Line, Judge, Revision, Handoff, Recovery, Around, Ask, Answer,
     Keep, Validate, NotFinalized, Stop, PackageFile, Deliver, DeliverTexts, Delivered,
     SavePlan, Revise, Begin, Start, Receive, Asked, ProviderRetry, Recover, Crash,
     ConclusionHands

\* Types hold in every step.
LEMMA TypeStep == IInv /\ [Next]_vars => TypeInv'
<1> SUFFICES ASSUME IInv, [Next]_vars PROVE TypeInv'
  OBVIOUS
<1>1. TypeInv
  BY DEF IInv
<1>2. /\ packages' \in Nat
      /\ files' \in [package : Package, delivery : Package, script : Package]
      /\ inbox' \in [n : Nat \ {0}, final : Nat, problem : Problem]
  <2>1. mem.package \in Package
    BY <1>1 DEF TypeInv, State
  <2>2. CASE UNCHANGED ends
    BY <1>1, <2>2 DEF ends, TypeInv
  <2>3. CASE Approve
    BY <1>1, <2>3 DEF Approve, TypeInv
  <2>4. CASE PackageFile \/ Deliver \/ DeliverTexts
    BY <1>1, <2>1, <2>4 DEF PackageFile, Deliver, DeliverTexts, Written, TypeInv
  <2>5. CASE ConclusionHands
    <3>1. PICK f \in {inbox.final, inbox.final + 1}, p \in Problems \union {"none"} :
            inbox' = [n |-> inbox.n + 1, final |-> f, problem |-> p]
      BY <2>5 DEF ConclusionHands
    <3>2. inbox.n + 1 \in Nat \ {0} /\ f \in Nat /\ p \in Problem
      BY <1>1, ProblemsAssumption DEF TypeInv, Problem
    <3>3. UNCHANGED <<packages, files>>
      BY <2>5 DEF ConclusionHands
    <3> QED
      BY <1>1, <3>1, <3>2, <3>3 DEF TypeInv
  <2> QED
    BY <2>2, <2>3, <2>4, <2>5
       DEF Next, vars, ends, Line, Judge, Revision, Handoff, Recovery, Around, Ask, Answer,
       Keep, Validate, NotFinalized, Unsettled, Stop, Delivered, Plan, SavePlan, Revise,
       Exhausted, Authorize, Begin, Start, Receive, AskConclusion, Asked, Resume,
       ProviderRetry, Recover, Crash, ConclusionFiles
<1> QED
  BY <1>2, StatesTyped, RunTyped, CallsTyped, ExchangeTyped DEF TypeInv

-----------------------------------------------------------------------------
(* The records stay what they are.                                           *)

\* The artifacts a command has are made from the ones before them.
LEMMA SourcesAreMade ==
  ASSUME IInv, AtStage, NEW k \in 1 .. run.at - 1
  PROVE  \E m \in made : IsSource(m, mem.art, k, mem.handoff, made)
<1>1. k \in Stages /\ mem.art[k] # NoId
  BY DEF AtStage, Stages
<1> QED
  BY <1>1 DEF IInv, StatesInv, Good, Sound, Fits

\* A new artifact is of a call that was not paid for, and made from what is on record.
LEMMA MadeStep == IInv /\ [Next]_vars => MadeInv'
<1> SUFFICES ASSUME IInv, [Next]_vars PROVE MadeInv'
  OBVIOUS
<1>1. MadeInv /\ TypeInv
  BY DEF IInv
<1>2. CASE made' = made
  <2>1. paid \subseteq paid'
    BY RecordsGrow DEF Grown
  <2> QED
    BY <1>1, <1>2, <2>1 DEF MadeInv
<1>3. CASE Answer /\ made' # made
  <2> DEFINE id == StageId(run.at)
             n == Made(id)
  <2>1. AtStage
    BY <1>3 DEF Answer, IInv, CommandInv, Making
  <2>2. id \in Task /\ id.stage = run.at
    BY <1>1, <2>1, StageIdIs
  <2>3. n = [id |-> id, on |-> Before(mem.art, run.at), handoff |-> mem.handoff]
    BY <1>1, <2>1, MadeIs
  <2>4. id \notin paid /\ id \in paid' /\ paid \subseteq paid' /\ made' = made \union {n}
    BY <1>3 DEF Answer, Outcomes
  <2>5. \A m \in made : m.id \in paid
    BY <1>1 DEF MadeInv
  <2>6. run.at \in Stages
    BY <2>1 DEF AtStage
  <2> HIDE DEF id, n
  <2>7. ASSUME NEW m \in made
        PROVE  /\ m.id \in paid' /\ m.id.stage \in Stages
               /\ \A m2 \in made' : m2.id = m.id => m2 = m
               /\ DOMAIN m.on = 1 .. m.id.stage - 1
               /\ \A k \in 1 .. m.id.stage - 1 :
                    /\ m.on[k].stage = k
                    /\ \E m2 \in made' : IsSource(m2, m.on, k, m.handoff, made')
    <3>1. \A m2 \in made' : m2.id = m.id => m2 = m
      BY <1>1, <2>3, <2>4, <2>5 DEF MadeInv
    <3>2. made \subseteq made'
      BY <2>4
    <3>3. ASSUME NEW k \in 1 .. m.id.stage - 1
          PROVE  /\ m.on[k].stage = k
                 /\ \E m2 \in made' : IsSource(m2, m.on, k, m.handoff, made')
      BY <1>1, <3>2, FitsStays DEF MadeInv
    <3> QED
      BY <1>1, <2>4, <3>1, <3>3 DEF MadeInv
  <2>8. /\ n.id \in paid' /\ n.id.stage \in Stages
        /\ \A m2 \in made' : m2.id = n.id => m2 = n
    BY <2>2, <2>3, <2>4, <2>5, <2>6
  <2>9. DOMAIN n.on = 1 .. n.id.stage - 1
    BY <2>2, <2>3 DEF Before
  <2>10. ASSUME NEW k \in 1 .. n.id.stage - 1
         PROVE  /\ n.on[k].stage = k
                /\ \E m2 \in made' : IsSource(m2, n.on, k, n.handoff, made')
    <3>1. k \in 1 .. run.at - 1 /\ k \in Stages
      BY <2>2, <2>3, <2>6 DEF Stages
    <3>2. PICK m2 \in made : IsSource(m2, mem.art, k, mem.handoff, made)
      BY <2>1, <3>1, SourcesAreMade
    <3>3. \A j \in 1 .. k : n.on[j] = mem.art[j]
      BY <2>3, <3>1, <2>6 DEF Before, Stages
    <3>4. n.on[k] = mem.art[k] /\ Before(n.on, k) = Before(mem.art, k)
      BY <3>1, <3>3, BeforeAgrees DEF Stages
    <3>5. IsSource(m2, n.on, k, n.handoff, made)
      BY <2>3, <3>2, <3>4 DEF IsSource
    <3>6. IsSource(m2, n.on, k, n.handoff, made')
      BY <2>4, <3>5, FitsStays
    <3>7. n.on[k].stage = k
      <4>1. n.on[k] = m2.id /\ m2.id.stage \in Stages /\ n.on[k].stage \in {0, k}
        BY <1>1, <3>1, <3>2, <3>4 DEF IsSource, MadeInv, IInv, CountsInv, Counted
      <4> QED
        BY <4>1 DEF Stages
    <3> QED
      BY <2>4, <3>6, <3>7
  <2> QED
    BY <2>4, <2>7, <2>8, <2>9, <2>10 DEF MadeInv
<1> QED
  BY <1>2, <1>3
     DEF Next, vars, calls, Line, Judge, Revision, Handoff, Recovery, Around, Ask, Keep,
     Validate, NotFinalized, Approve, Unsettled, Stop, PackageFile, Deliver, DeliverTexts,
     Delivered, Plan, SavePlan, Revise, Exhausted, Authorize, Begin, Start, Receive,
     AskConclusion, Asked, Resume, ProviderRetry, Recover, Crash, ConclusionHands,
     ConclusionFiles

\* Contents that were judged are judged in the same way.
LEMMA ChecksStep == IInv /\ [Next]_vars => ChecksInv'
<1> SUFFICES ASSUME IInv, [Next]_vars PROVE ChecksInv'
  OBVIOUS
<1>1. ChecksInv
  BY DEF IInv
<1>r. \A of : Refer(of, made) => Refer(of, made')
  BY RecordsGrow, FitsStays DEF Grown
<1>2. CASE checks' = checks
  BY <1>1, <1>2, <1>r DEF ChecksInv
<1>3. CASE Validate
  <2> DEFINE of == Contents(mem)
  <2>1. PICK v \in Possible(mem) :
          /\ \A c \in checks : c.of = of => c.verdict = v
          /\ checks' = checks \union {[of |-> of, verdict |-> v]}
    BY <1>3 DEF Validate
  <2>2. v[1] = "approved" => Refer(of, made)
    <3>1. SUFFICES ASSUME v[1] = "approved", NEW n \in Stages
                   PROVE  \E m \in made : m.id = of.art[n] /\ Matches(of, m)
      BY DEF Refer
    <3>2. FirstMissing(mem) = 5
      BY <2>1, <3>1 DEF Possible
    <3>3. Linked(mem, 4) /\ mem.art[n] # NoId
      BY <3>2, FirstMissingIs DEF Complete
    <3>4. PICK m \in made : m.id = mem.art[n]
      BY <3>3 DEF IInv, StatesInv, Good, Sound, Fits, IsSource
    <3>5. Matches(mem, m)
      BY <3>3, <3>4 DEF Linked, Stages
    <3>6. of.art = mem.art /\ of.handoff = mem.handoff
      BY DEF Contents
    <3> HIDE DEF of
    <3> QED
      BY <3>4, <3>5, <3>6 DEF Matches, SourceOf
  <2> HIDE DEF of
  <2> QED
    BY <1>1, <1>r, <2>1, <2>2 DEF ChecksInv
<1> QED
  BY <1>2, <1>3
     DEF Next, vars, calls, Line, Judge, Revision, Handoff, Recovery, Around, Ask, Answer,
     Keep, NotFinalized, Approve, Unsettled, Stop, PackageFile, Deliver, DeliverTexts,
     Delivered, Plan, SavePlan, Revise, Exhausted, Authorize, Begin, Start, Receive,
     AskConclusion, Asked, Resume, ProviderRetry, Recover, Crash, ConclusionHands,
     ConclusionFiles

-----------------------------------------------------------------------------
(* A Good state leads to Good states.                                        *)

\* What is known of the artifacts is known whatever else changes.
LEMMA SoundAlike ==
  ASSUME NEW s, NEW t, NEW ms, NEW cs, Sound(s, ms, cs),
         t.art = s.art, t.handoff = s.handoff, t.heard = s.heard, t.checked = s.checked,
         t.package = s.package,
         t.status = s.status \/ (s.status # "CREATED" /\ t.status # "VALIDATING_PACKAGE")
  PROVE  Sound(t, ms, cs)
BY DEF Sound, Fits, Prefix, Complete

\* What the revision is about does not depend on the artifacts, and on the status only
\* for a plan and for what waits.
LEMMA BoundAlike ==
  ASSUME NEW s, NEW t, NEW rs, Bound(s, rs),
         t.active = s.active, t.phase = s.phase, t.count = s.count, t.final = s.final,
         t.handoff = s.handoff,
         \/ t.status = s.status /\ t.checked = s.checked
         \/ t.status \notin {"CREATED", "WAITING_UPSTREAM_REVISION", "BLOCKED"}
  PROVE  Bound(t, rs)
BY DEF Bound, Planned, Executing, Waiting, Executable

\* Without a revision under way there is nothing it could be about.
LEMMA BoundIdle ==
  ASSUME NEW s, NEW rs,
         s.phase \notin {"authorization_required", "executing", "waiting_upstream_result"}
  PROVE  Bound(s, rs)
BY DEF Bound, Planned, Executing, Waiting

\* A running command works on a handoff.
LEMMA Handed == IInv /\ pc # "idle" => mem.handoff > 0 /\ mem.status # "CREATED"
BY DEF IInv, CommandInv, StatesInv, Good, Sound

\* What the gate has judged and approved is a valid package.
LEMMA BuiltIsValid ==
  ASSUME IInv, pc = "judge", Gate(mem) = "approved"
  PROVE  Valid(Built(mem), made, checks)
<1>1. mem.checked = Contents(mem) /\ mem.handoff > 0
  BY Handed DEF IInv, CommandInv
<1>2. mem.checked # NoContents
  BY <1>1, ContentsNotNothing
<1>3. Judged(mem.checked, checks) /\ Fits(mem.art, mem.handoff, made)
  BY <1>2 DEF IInv, StatesInv, Good, Sound
<1>4. [of |-> mem.checked, verdict |-> <<"approved", 0>>] \in checks
  BY <1>2, <1>3, GateIs
<1>5. Fits(Contents(mem).art, Contents(mem).handoff, made)
  BY <1>3 DEF Contents
<1>6. Refer(Contents(mem), made)
  BY <1>1, <1>4 DEF IInv, ChecksInv
<1> QED
  BY <1>1, <1>4, <1>5, <1>6 DEF Valid, Built

\* The command is asked for, or makes an artifact.
LEMMA LineGood ==
  IInv /\ (Ask \/ Answer \/ Keep) => Good(disk', made', checks', requests')
                                     /\ Good(mem', made', checks', requests')
<1> SUFFICES ASSUME IInv, Ask \/ Answer \/ Keep
             PROVE  Good(disk', made', checks', requests')
                    /\ Good(mem', made', checks', requests')
  OBVIOUS
<1> USE DEF Save, SaveAndEnd, Leave, End, Goto, Fail, Making
<1>1. TypeInv /\ mem \in State /\ Good(mem, made, checks, requests)
  BY DEF IInv, TypeInv, StatesInv
<1>2. pc # "idle" /\ AtStage /\ mem.handoff > 0 /\ mem.status # "CREATED"
      /\ disk' = mem' /\ checks' = checks /\ requests' = requests
  <2>1. pc \in Making
    BY DEF Ask, Answer, Keep
  <2>2. disk' = mem'
    <3>1. CASE Ask
      BY <3>1 DEF Ask
    <3>2. CASE Answer
      BY <3>2, Zenon DEF Answer
    <3>3. CASE Keep
      BY <3>3 DEF Keep
    <3> QED
      BY <3>1, <3>2, <3>3
  <2>3. checks' = checks /\ requests' = requests
    BY DEF Ask, Answer, Keep, calls, exchange
  <2> QED
    BY <2>1, <2>2, <2>3, Handed DEF IInv, CommandInv
<1>3. Sound(mem, made, checks) /\ Bound(mem, requests)
  BY <1>1 DEF Good
<1>4. CASE Ask
  <2>1. made' = made
    BY <1>4 DEF Ask, calls
  <2>2. Working[run.at] \in {"DESIGNING_NARRATIVE", "WRITING_SCRIPT", "EDITING_CITATIONS",
                             "DESIGNING_VISUALS"}
    BY <1>2 DEF AtStage, Stages, Working
  <2>3. mem' = [mem EXCEPT !.status = Working[run.at],
                           !.asked = mem.asked \union {StageId(run.at)}]
    BY <1>4 DEF Ask
  <2>4. /\ mem'.art = mem.art /\ mem'.handoff = mem.handoff /\ mem'.checked = mem.checked
        /\ mem'.package = mem.package /\ mem'.heard = mem.heard
        /\ mem'.active = mem.active /\ mem'.phase = mem.phase /\ mem'.count = mem.count
        /\ mem'.final = mem.final /\ mem'.status = Working[run.at]
    BY <1>1, <2>3 DEF State
  <2>5. Sound(mem', made, checks)
    BY <1>2, <1>3, <2>2, <2>4, SoundAlike
  <2>6. Bound(mem', requests)
    BY <1>3, <2>2, <2>4, BoundAlike
  <2> QED
    BY <1>2, <2>1, <2>5, <2>6 DEF Good
<1>5. CASE Answer
  <2> DEFINE id == StageId(run.at)
  <2>1. \/ mem' = [mem EXCEPT !.heard = mem.heard \union {id}]
           /\ made' = made \union {Made(id)}
        \/ \E b \in BOOLEAN :
             mem' = [mem EXCEPT !.fault = id, !.again = b, !.status = "FAILED"]
             /\ made' = made
    BY <1>1, <1>5 DEF Answer, State
  <2>2. Made(id).id = id
    BY DEF Made
  <2> HIDE DEF id
  <2>3. CASE mem' = [mem EXCEPT !.heard = mem.heard \union {id}]
             /\ made' = made \union {Made(id)}
    <3>1. Good(mem, made', checks, requests)
      BY <1>1, <2>3, GoodStays
    <3>2. \A i \in mem'.heard : \E m \in made' : m.id = i
      BY <1>1, <2>2, <2>3, <3>1 DEF Good, Sound, State
    <3>3. /\ mem'.art = mem.art /\ mem'.handoff = mem.handoff /\ mem'.checked = mem.checked
          /\ mem'.package = mem.package /\ mem'.status = mem.status
          /\ mem'.active = mem.active /\ mem'.phase = mem.phase /\ mem'.count = mem.count
          /\ mem'.final = mem.final
      BY <1>1, <2>3 DEF State
    <3>4. Sound(mem', made', checks)
      BY <3>1, <3>2, <3>3 DEF Good, Sound, Fits, Prefix, Complete
    <3>5. Bound(mem', requests)
      BY <1>3, <3>3, BoundAlike
    <3> QED
      BY <1>2, <3>4, <3>5 DEF Good
  <2>4. CASE \E b \in BOOLEAN :
               mem' = [mem EXCEPT !.fault = id, !.again = b, !.status = "FAILED"]
               /\ made' = made
    <3>0. /\ mem'.art = mem.art /\ mem'.handoff = mem.handoff /\ mem'.checked = mem.checked
          /\ mem'.package = mem.package /\ mem'.heard = mem.heard
          /\ mem'.active = mem.active /\ mem'.phase = mem.phase /\ mem'.count = mem.count
          /\ mem'.final = mem.final /\ mem'.status = "FAILED"
      BY <1>1, <2>4 DEF State
    <3>1. Sound(mem', made, checks)
      BY <1>2, <1>3, <3>0, SoundAlike
    <3>2. Bound(mem', requests)
      BY <1>3, <3>0, BoundAlike
    <3> QED
      BY <1>2, <2>4, <3>1, <3>2 DEF Good
  <2> QED
    BY <2>1, <2>3, <2>4
<1>6. CASE Keep
  <2> DEFINE n == run.at
             id == run.ids[n]
             ar == [mem.art EXCEPT ![n] = id]
  <2>1. n \in Stages /\ \A k \in Stages : mem.art[k] # NoId <=> k < n
    BY <1>2 DEF AtStage
  <2>2. AtKeep /\ made' = made
    BY <1>6 DEF Keep, IInv, CommandInv, calls
  <2>3. mem' = [mem EXCEPT !.art = ar, !.form = IF n = 3 THEN "edited" ELSE mem.form]
    BY <1>1, <1>6 DEF Keep, State
  <2>4. \A k \in Stages : ar[k] = IF k = n THEN id ELSE mem.art[k]
    BY <1>1 DEF State, Art
  <2>5. PICK m \in made : m.id = id /\ m.handoff = mem.handoff /\ m.on = Before(mem.art, n)
    BY <2>2 DEF AtKeep
  <2>6. id # NoId
    BY <2>2 DEF AtKeep
  <2> HIDE DEF ar, id, n
  <2>7. mem'.art = ar /\ mem'.handoff = mem.handoff /\ mem'.heard = mem.heard
        /\ mem'.checked = mem.checked /\ mem'.package = mem.package
        /\ mem'.status = mem.status /\ mem'.active = mem.active /\ mem'.phase = mem.phase
        /\ mem'.count = mem.count /\ mem'.final = mem.final
    BY <1>1, <2>3 DEF State
  <2>8. \A k \in 1 .. n : \A j \in 1 .. k - 1 : ar[j] = mem.art[j]
    BY <2>1, <2>4 DEF Stages
  <2>9. \A k \in 1 .. n : Before(ar, k) = Before(mem.art, k)
    <3>1. ASSUME NEW k \in 1 .. n
          PROVE  k \in Stages /\ \A j \in 1 .. k - 1 : ar[j] = mem.art[j]
      BY <2>1, <2>8 DEF Stages
    <3> QED
      BY <3>1, BeforeAgrees
  <2>10. ASSUME NEW k \in Stages, ar[k] # NoId
         PROVE  /\ \E x \in made : IsSource(x, ar, k, mem.handoff, made)
                /\ \A j \in 1 .. k - 1 : ar[j] # NoId
    <3>1. k \in 1 .. n
      BY <2>1, <2>4, <2>10 DEF Stages
    <3>2. \A j \in 1 .. k - 1 : j \in Stages /\ j < n /\ ar[j] = mem.art[j]
      BY <2>1, <2>8, <3>1 DEF Stages
    <3>3. CASE k = n
      <4>1. IsSource(m, ar, k, mem.handoff, made)
        BY <2>4, <2>5, <2>9, <3>1, <3>3 DEF IsSource
      <4> QED
        BY <2>1, <3>2, <4>1
    <3>4. CASE k # n
      <4>1. mem.art[k] # NoId /\ ar[k] = mem.art[k]
        BY <2>4, <2>10, <3>4
      <4>2. PICK x \in made : IsSource(x, mem.art, k, mem.handoff, made)
        BY <1>3, <4>1 DEF Sound, Fits
      <4>3. IsSource(x, ar, k, mem.handoff, made)
        BY <2>9, <3>1, <4>1, <4>2 DEF IsSource
      <4> QED
        BY <2>1, <3>2, <4>3
    <3> QED
      BY <3>3, <3>4
  <2>11. ~Complete(mem)
    BY <2>1 DEF Complete, Stages
  <2>12. Sound(mem', made, checks)
    BY <1>3, <2>7, <2>10, <2>11 DEF Sound, Fits, Prefix
  <2>13. Bound(mem', requests)
    BY <1>3, <2>7, BoundAlike
  <2> QED
    BY <1>2, <2>2, <2>12, <2>13 DEF Good
<1> QED
  BY <1>4, <1>5, <1>6

\* The contents are judged, packed or sent back.
LEMMA JudgeGood ==
  IInv /\ (Validate \/ Approve \/ Unsettled \/ Stop \/ Delivered)
    => Good(disk', made', checks', requests') /\ Good(mem', made', checks', requests')
<1> SUFFICES ASSUME IInv, Validate \/ Approve \/ Unsettled \/ Stop \/ Delivered
             PROVE  Good(disk', made', checks', requests')
                    /\ Good(mem', made', checks', requests')
  OBVIOUS
<1> USE DEF Save, SaveAndEnd, End, Goto, Block
<1>1. mem \in State /\ Sound(mem, made, checks) /\ Bound(mem, requests)
      /\ Good(disk, made, checks, requests)
  BY DEF IInv, TypeInv, StatesInv, Good
<1>2. pc # "idle" /\ mem.handoff > 0 /\ mem.status # "CREATED"
  BY Handed DEF Validate, Approve, Unsettled, Stop, Delivered
<1>3. made' = made /\ requests' = requests /\ checks \subseteq checks'
  BY DEF Validate, Approve, Unsettled, Stop, Delivered, calls, exchange
<1>4. CASE Validate
  <2>1. mem' = [mem EXCEPT !.status = "VALIDATING_PACKAGE", !.checked = Contents(mem)]
        /\ disk' = mem'
    BY <1>4 DEF Validate
  <2>2. /\ mem'.art = mem.art /\ mem'.handoff = mem.handoff
        /\ mem'.checked = Contents(mem) /\ mem'.status = "VALIDATING_PACKAGE"
        /\ mem'.package = mem.package /\ mem'.heard = mem.heard
        /\ mem'.active = mem.active /\ mem'.phase = mem.phase /\ mem'.count = mem.count
        /\ mem'.final = mem.final
    BY <1>1, <2>1 DEF State
  <2>3. Complete(mem)
    BY <1>4 DEF Validate, IInv, CommandInv
  <2>4. Judged(Contents(mem), checks')
    <3> DEFINE of == Contents(mem)
    <3>1. PICK v : checks' = checks \union {[of |-> of, verdict |-> v]}
      BY <1>4 DEF Validate
    <3> HIDE DEF of
    <3>2. [of |-> of, verdict |-> v] \in checks' /\ [of |-> of, verdict |-> v].of = of
      BY <3>1
    <3>3. Judged(of, checks')
      BY <3>2 DEF Judged
    <3> QED
      BY <3>3 DEF of
  <2>5. Contents(mem) # NoContents /\ Contents(mem).handoff = mem.handoff
    BY <1>2, ContentsNotNothing DEF Contents
  <2>6. Valid(mem.package, made, checks')
    BY <1>1, <1>3, ValidStays DEF Sound
  <2>7. Sound(mem', made, checks')
    BY <1>1, <1>2, <2>2, <2>3, <2>4, <2>5, <2>6 DEF Sound, Fits, Prefix, Complete
  <2>8. Bound(mem', requests)
    BY <1>1, <2>2, BoundAlike
  <2> QED
    BY <1>3, <2>1, <2>7, <2>8 DEF Good
<1>5. CASE Approve
  <2> DEFINE s == [mem EXCEPT !.package = Built(mem)]
  <2>1. mem' = Finalized(s, "completed") /\ disk' = disk /\ checks' = checks
    BY <1>5 DEF Approve, calls
  <2>2. Valid(Built(mem), made, checks)
    BY <1>5, BuiltIsValid DEF Approve
  <2>3. s \in State
    BY <1>1, ContentsTyped DEF State, IInv
  <2>4. s.package = Built(mem)
        /\ s.art = mem.art /\ s.handoff = mem.handoff /\ s.checked = mem.checked
        /\ s.heard = mem.heard /\ s.active = mem.active /\ s.phase = mem.phase
        /\ s.count = mem.count /\ s.final = mem.final /\ s.status = mem.status
    BY <1>1 DEF State
  <2> HIDE DEF s
  <2>5. Sound(s, made, checks)
    BY <1>1, <2>2, <2>4 DEF Sound, Fits, Prefix, Complete
  <2>6. Bound(s, requests)
    BY <1>1, <2>4, BoundAlike
  <2>7. CASE mem' = s
    BY <1>1, <1>3, <2>1, <2>5, <2>6, <2>7 DEF Good
  <2>8. CASE mem' = [s EXCEPT !.phase = "completed"]
    <3>1. /\ mem'.package = s.package /\ mem'.art = s.art /\ mem'.handoff = s.handoff
          /\ mem'.checked = s.checked /\ mem'.heard = s.heard /\ mem'.status = s.status
          /\ mem'.phase = "completed"
      BY <2>3, <2>8 DEF State
    <3>2. Sound(mem', made, checks)
      BY <2>5, <3>1, SoundAlike
    <3>3. Bound(mem', requests)
      BY <3>1, BoundIdle
    <3> QED
      BY <1>1, <1>3, <2>1, <3>2, <3>3 DEF Good
  <2> QED
    BY <2>1, <2>7, <2>8 DEF Finalized
<1>6. CASE Unsettled
  <2>1. mem' = Finalized(mem, "partial") /\ disk' = disk /\ checks' = checks
    BY <1>6 DEF Unsettled, calls
  <2>2. CASE mem' = mem
    BY <1>1, <1>3, <2>1, <2>2 DEF Good
  <2>3. CASE mem' = [mem EXCEPT !.phase = "blocked"]
    <3>1. /\ mem'.package = mem.package /\ mem'.art = mem.art /\ mem'.handoff = mem.handoff
          /\ mem'.checked = mem.checked /\ mem'.heard = mem.heard
          /\ mem'.status = mem.status /\ mem'.phase = "blocked"
      BY <1>1, <2>3 DEF State
    <3>2. Sound(mem', made, checks)
      BY <1>1, <3>1, SoundAlike
    <3>3. Bound(mem', requests)
      BY <3>1, BoundIdle
    <3> QED
      BY <1>1, <1>3, <2>1, <3>2, <3>3 DEF Good
  <2> QED
    BY <2>1, <2>2, <2>3 DEF Finalized
<1>7. CASE Stop \/ Delivered
  <2>1. PICK st \in {"BLOCKED", "COMPLETED"} : disk' = [mem EXCEPT !.status = st]
    BY <1>7 DEF Stop, Delivered
  <2>2. mem' = disk' /\ checks' = checks
    BY <1>7 DEF Stop, Delivered, calls
  <2>3. st = "BLOCKED" => ~Planned(mem)
    BY <1>1, <1>7, <2>1 DEF Stop, Delivered, IInv, CommandInv, State
  <2>4. /\ disk'.package = mem.package /\ disk'.art = mem.art /\ disk'.handoff = mem.handoff
        /\ disk'.checked = mem.checked /\ disk'.heard = mem.heard
        /\ disk'.phase = mem.phase /\ disk'.active = mem.active
        /\ disk'.count = mem.count /\ disk'.final = mem.final /\ disk'.status = st
    BY <1>1, <2>1 DEF State
  <2>5. Sound(disk', made, checks)
    BY <1>1, <1>2, <2>4, SoundAlike
  <2>6. Bound(disk', requests)
    BY <1>1, <2>3, <2>4 DEF Bound, Planned, Executing, Waiting
  <2> QED
    BY <1>3, <2>2, <2>5, <2>6 DEF Good
<1> QED
  BY <1>4, <1>5, <1>6, <1>7

\* A revision is planned, refused or begun.
LEMMA RevisionGood ==
  IInv /\ (Plan \/ Exhausted \/ Begin)
    => Good(disk', made', checks', requests') /\ Good(mem', made', checks', requests')
<1> SUFFICES ASSUME IInv, Plan \/ Exhausted \/ Begin
             PROVE  Good(disk', made', checks', requests')
                    /\ Good(mem', made', checks', requests')
  OBVIOUS
<1> USE DEF Save, Leave, End, Goto
<1>1. mem \in State /\ Sound(mem, made, checks) /\ Bound(mem, requests)
      /\ Good(disk, made, checks, requests) /\ Good(mem, made, checks, requests)
  BY DEF IInv, TypeInv, StatesInv, Good
<1>2. pc # "idle" /\ mem.handoff > 0 /\ mem.status # "CREATED"
  BY Handed DEF Plan, Exhausted, Begin
<1>3. made' = made /\ requests \subseteq requests' /\ checks' = checks
  BY DEF Plan, Exhausted, Begin, calls, exchange
<1>4. CASE Plan
  <2> DEFINE r == InternalRequest(mem)
  <2>1. /\ requests' = requests \union {r} /\ disk' = disk
        /\ mem' = [mem EXCEPT !.phase = "authorization_required", !.epoch = r.epoch,
                              !.active = r, !.status = "BLOCKED"]
    BY <1>4 DEF Plan
  <2>2. /\ r.route = "internal" /\ r.first \in Stages /\ r.final = mem.final
        /\ r.base = mem.checked /\ r.base # NoContents /\ mem.count < MaxRevisions
    BY <1>4, InternalRequestIs DEF Plan
  <2> HIDE DEF r
  <2>3. /\ mem'.package = mem.package /\ mem'.art = mem.art /\ mem'.handoff = mem.handoff
        /\ mem'.checked = mem.checked /\ mem'.heard = mem.heard
        /\ mem'.phase = "authorization_required" /\ mem'.active = r
        /\ mem'.count = mem.count /\ mem'.final = mem.final /\ mem'.status = "BLOCKED"
    BY <1>1, <2>1 DEF State
  <2>4. Sound(mem', made, checks)
    BY <1>1, <1>2, <2>3, SoundAlike
  <2>5. Bound(mem', requests')
    BY <2>1, <2>2, <2>3 DEF Bound, Planned, Executing, Waiting, Executable
  <2>6. Good(disk', made, checks, requests')
    BY <1>1, <1>3, <2>1, GoodStays
  <2> QED
    BY <1>3, <2>4, <2>5, <2>6 DEF Good
<1>5. CASE Exhausted
  <2>1. requests' = requests /\ disk' = disk
        /\ (mem' = [mem EXCEPT !.phase = "blocked"] \/ mem' = disk)
    BY <1>5 DEF Exhausted
  <2>2. CASE mem' = [mem EXCEPT !.phase = "blocked"]
    <3>1. /\ mem'.package = mem.package /\ mem'.art = mem.art /\ mem'.handoff = mem.handoff
          /\ mem'.checked = mem.checked /\ mem'.heard = mem.heard
          /\ mem'.status = mem.status /\ mem'.phase = "blocked"
      BY <1>1, <2>2 DEF State
    <3>2. Sound(mem', made, checks)
      BY <1>1, <3>1, SoundAlike
    <3>3. Bound(mem', requests)
      BY <3>1, BoundIdle
    <3> QED
      BY <1>1, <1>3, <2>1, <3>2, <3>3 DEF Good
  <2> QED
    BY <1>1, <1>3, <2>1, <2>2
<1>6. CASE Begin
  <2> DEFINE c == Maximum(mem.count, CHOOSE i \in Slot(mem.active) : TRUE)
             s == [mem EXCEPT !.phase = "executing", !.status = "REVISING", !.count = c]
             n == mem.active.first
  <2>1. c \in 0 .. MaxRevisions
    BY <1>6, SlotIs DEF Begin
  <2>2. mem' = Cleared(s, n) /\ disk' = mem' /\ requests' = requests
    BY <1>6 DEF Begin, exchange
  <2> HIDE DEF c
  <2>3. s \in State
    BY <1>1, <2>1 DEF State, Status, Phase
  <2>4. Planned(mem) /\ mem.status = "BLOCKED"
    BY <1>6 DEF Begin, IInv, CommandInv
  <2>5. /\ mem.active \in requests /\ mem.active.route = "internal"
        /\ mem.active.first \in Stages /\ mem.active.base # NoContents
        /\ mem.active.base = mem.checked /\ mem.active.final = mem.final
    BY <1>1, <2>4 DEF Bound, Executable
  <2>6. mem.checked.handoff = mem.handoff
    BY <1>1, <2>5 DEF Sound
  <2>7. s.art = mem.art /\ s.handoff = mem.handoff /\ s.heard = mem.heard
        /\ s.status = "REVISING" /\ s.phase = "executing" /\ s.active = mem.active
        /\ s.final = mem.final
    BY <1>1 DEF State
  <2> HIDE DEF s
  <2>8. Sound(mem', made, checks)
    <3>1. Fits(s.art, s.handoff, made) /\ Prefix(s)
      BY <1>1, <2>7 DEF Sound, Prefix
    <3>2. \A id \in s.heard : \E m \in made : m.id = id
      BY <1>1, <2>7 DEF Sound
    <3> QED
      BY <1>2, <2>2, <2>3, <2>5, <2>7, <3>1, <3>2, ClearedSound
  <2>9. mem'.phase = "executing" /\ mem'.active = mem.active /\ mem'.final = mem.final
        /\ mem'.handoff = mem.handoff /\ mem'.status = "REVISING"
    BY <2>2, <2>3, <2>5, <2>7, ClearedIs
  <2>10. Bound(mem', requests)
    BY <2>5, <2>6, <2>9 DEF Bound, Planned, Executing, Waiting
  <2> QED
    BY <1>3, <2>2, <2>8, <2>10 DEF Good
<1> QED
  BY <1>4, <1>5, <1>6

\* With nothing made and nothing judged, what is known is what was heard.
LEMMA SoundWhenEmpty ==
  ASSUME NEW s, NEW ms, NEW cs, \A k \in Stages : s.art[k] = NoId,
         s.checked = NoContents, s.package = NoPackage, s.handoff > 0,
         s.status # "VALIDATING_PACKAGE",
         \A id \in s.heard : \E m \in ms : m.id = id
  PROVE  Sound(s, ms, cs)
BY DEF Sound, Fits, Prefix, Valid, NoPackage

\* A handoff comes, or one is asked for.
LEMMA HandoffGood ==
  IInv /\ (Start \/ AskConclusion \/ Resume)
    => Good(disk', made', checks', requests') /\ Good(mem', made', checks', requests')
<1> SUFFICES ASSUME IInv, Start \/ AskConclusion \/ Resume
             PROVE  Good(disk', made', checks', requests')
                    /\ Good(mem', made', checks', requests')
  OBVIOUS
<1> USE DEF Save, Leave, End, Goto
<1>1. mem \in State /\ Sound(mem, made, checks) /\ Bound(mem, requests)
      /\ Good(disk, made, checks, requests) /\ Good(mem, made, checks, requests) /\ TypeInv
  BY DEF IInv, TypeInv, StatesInv, Good
<1>2. made' = made /\ checks' = checks /\ requests \subseteq requests'
  BY DEF Start, AskConclusion, Resume, calls, exchange
<1> DEFINE s == Received(mem)
<1>3. s \in State /\ (\A k \in Stages : s.art[k] = NoId)
      /\ s.checked = NoContents /\ s.package = NoPackage /\ s.handoff > 0
  BY <1>1, ReceivedIs
<1>4. s.status = mem.status /\ s.heard = mem.heard /\ s.count = mem.count
      /\ s.phase = mem.phase /\ s.active = mem.active
  BY <1>1, ReceivedIs
<1> HIDE DEF s
<1>5. \A id \in s.heard : \E m \in made : m.id = id
  BY <1>1, <1>4 DEF Sound
<1>6. CASE Start
  <2>1. mem' = [s EXCEPT !.status = "VALIDATING_HANDOFF"] /\ disk' = mem'
        /\ requests' = requests
    BY <1>6 DEF Start, s, exchange
  <2>2. mem.status = "CREATED"
    BY <1>6 DEF Start, IInv, CommandInv
  <2>3. /\ mem'.status = "VALIDATING_HANDOFF" /\ mem'.art = s.art /\ mem'.checked = s.checked
        /\ mem'.package = s.package /\ mem'.handoff = s.handoff /\ mem'.heard = s.heard
        /\ mem'.count = s.count /\ mem'.phase = s.phase /\ mem'.active = s.active
    BY <1>3, <2>1 DEF State
  <2>4. Sound(mem', made, checks)
    BY <1>3, <1>5, <2>3, SoundWhenEmpty
  <2>5. Bound(mem', requests)
    BY <1>1, <1>4, <2>2, <2>3 DEF Bound, Planned, Executing, Waiting
  <2> QED
    BY <1>2, <2>1, <2>4, <2>5 DEF Good
<1>7. CASE Resume
  <2>1. disk' = disk /\ requests' = requests
    BY <1>7 DEF Resume
  <2>2. \/ mem' = disk
        \/ /\ mem.status = "WAITING_UPSTREAM_REVISION"
           /\ mem' = [s EXCEPT !.phase = IF Waiting(mem) THEN "completed" ELSE s.phase]
    <3>1. \/ mem' = disk
          \/ /\ mem.status = "WAITING_UPSTREAM_REVISION"
             /\ mem' = [s EXCEPT !.phase = IF Waiting(mem) THEN "completed" ELSE @]
      BY <1>7 DEF Resume, s
    <3> QED
      BY <1>3, <3>1
  <2>3. CASE mem' = disk
    BY <1>1, <1>2, <2>1, <2>3
  <2>4. CASE /\ mem.status = "WAITING_UPSTREAM_REVISION"
             /\ mem' = [s EXCEPT !.phase = IF Waiting(mem) THEN "completed" ELSE s.phase]
    <3>1. /\ mem'.status = s.status /\ mem'.art = s.art /\ mem'.checked = s.checked
          /\ mem'.package = s.package /\ mem'.handoff = s.handoff /\ mem'.heard = s.heard
          /\ mem'.count = s.count /\ mem'.active = s.active
          /\ mem'.phase = IF Waiting(mem) THEN "completed" ELSE s.phase
      BY <1>3, <2>4 DEF State
    <3>2. Sound(mem', made, checks)
      BY ZenonT(30), <1>3, <1>4, <1>5, <2>4, <3>1, SoundWhenEmpty
    <3>3. Bound(mem', requests)
      <4>1. CASE Waiting(mem)
        BY <3>1, <4>1, BoundIdle
      <4>2. CASE ~Waiting(mem)
        <5>1. mem'.phase = mem.phase /\ mem'.count = mem.count /\ mem'.active = mem.active
              /\ mem'.status = "WAITING_UPSTREAM_REVISION"
          BY <1>4, <2>4, <3>1, <4>2
        <5> QED
          BY <1>1, <2>4, <4>2, <5>1 DEF Bound, Planned, Executing, Waiting
      <4> QED
        BY <4>1, <4>2
    <3> QED
      BY <1>1, <1>2, <2>1, <3>2, <3>3 DEF Good
  <2> QED
    BY <2>2, <2>3, <2>4
<1>8. CASE AskConclusion
  <2>1. CASE mem' = disk /\ disk' = disk /\ requests' = requests
    BY <1>1, <1>2, <2>1
  <2>2. ASSUME NEW r \in Request, r.route = "upstream", disk' = disk,
               requests' = requests \union {r},
               mem' = [mem EXCEPT !.up = mem.up + 1,
                                  !.status = "WAITING_UPSTREAM_REVISION",
                                  !.phase = "waiting_upstream_result",
                                  !.epoch = r.epoch, !.active = r]
        PROVE  Good(disk', made', checks', requests') /\ Good(mem', made', checks', requests')
    <3>1. /\ mem'.package = mem.package /\ mem'.art = mem.art /\ mem'.handoff = mem.handoff
          /\ mem'.checked = mem.checked /\ mem'.heard = mem.heard
          /\ mem'.status = "WAITING_UPSTREAM_REVISION"
          /\ mem'.phase = "waiting_upstream_result" /\ mem'.active = r
      BY <1>1, <2>2 DEF State
    <3>2. mem.status # "CREATED"
      BY <1>8, Handed DEF AskConclusion
    <3>3. Sound(mem', made, checks)
      BY <1>1, <3>1, <3>2, SoundAlike
    <3>4. Bound(mem', requests')
      BY <2>2, <3>1 DEF Bound, Planned, Executing, Waiting
    <3>5. Good(disk, made, checks, requests')
      BY <1>1, <1>2, GoodStays
    <3> QED
      BY <1>2, <2>2, <3>3, <3>4, <3>5 DEF Good
  <2> QED
    BY <1>8, <2>1, <2>2, AskConclusionIs
<1> QED
  BY <1>6, <1>7, <1>8

\* An answer that was heard is restored, or the citations are repaired.
LEMMA RecoverGood ==
  IInv /\ Recover
    => Good(disk', made', checks', requests') /\ Good(mem', made', checks', requests')
<1> SUFFICES ASSUME IInv, Recover
             PROVE  Good(disk', made', checks', requests')
                    /\ Good(mem', made', checks', requests')
  OBVIOUS
<1> USE DEF Save, Leave, End, Goto
<1>1. mem \in State /\ Sound(mem, made, checks) /\ Bound(mem, requests)
      /\ Good(disk, made, checks, requests) /\ Good(mem, made, checks, requests)
      /\ TypeInv /\ MadeInv
  BY DEF IInv, TypeInv, StatesInv, Good
<1>2. made' = made /\ checks' = checks /\ requests' = requests
  BY DEF Recover, calls, exchange
<1>3. CASE UNCHANGED <<disk, mem>> \/ (disk' = disk /\ mem' = disk)
  BY <1>1, <1>2, <1>3
<1>4. CASE RecoverFailed
  <2> DEFINE u == Restored(mem)
             n == FirstMissing(u)
  <2>1. /\ u \in State /\ u = [mem EXCEPT !.art = u.art, !.form = u.form]
        /\ Fits(u.art, mem.handoff, made) /\ Prefix(u) /\ (Complete(mem) => Complete(u))
    BY <1>1, RestoredIs DEF IInv, Sound, CountsInv, Counted
  <2>2. n # 5 => n \in Stages
    BY <2>1, FirstMissingIs
  <2>3. mem.status = "FAILED" /\ disk' = mem'
        /\ mem' = IF n = 5 THEN u ELSE Cleared(u, n)
    BY <1>4 DEF RecoverFailed
  <2> HIDE DEF u, n
  <2>4. /\ u.status = mem.status /\ u.handoff = mem.handoff /\ u.heard = mem.heard
        /\ u.checked = mem.checked /\ u.package = mem.package /\ u.active = mem.active
        /\ u.phase = mem.phase /\ u.count = mem.count /\ u.final = mem.final
    BY <1>1, <2>1 DEF State
  <2>5. Sound(u, made, checks)
    BY <1>1, <2>1, <2>4 DEF Sound
  <2>6. Bound(u, requests)
    BY <1>1, <2>4, BoundAlike
  <2>7. CASE n = 5
    BY <1>2, <2>3, <2>5, <2>6, <2>7 DEF Good
  <2>8. CASE n # 5
    <3>1. Sound(Cleared(u, n), made, checks)
      BY <2>1, <2>2, <2>3, <2>4, <2>5, <2>8, ClearedSound DEF Sound
    <3>2. /\ mem'.active = u.active /\ mem'.phase = u.phase /\ mem'.count = u.count
          /\ mem'.final = u.final /\ mem'.handoff = u.handoff /\ mem'.status = u.status
      BY <2>1, <2>2, <2>3, <2>8, ClearedIs
    <3>3. Bound(mem', requests)
      BY <2>3, <2>4, <2>6, <3>2, BoundAlike
    <3> QED
      BY <1>2, <2>3, <2>8, <3>1, <3>3 DEF Good
  <2> QED
    BY <2>7, <2>8
<1>5. CASE Repair
  <2>1. mem' = [mem EXCEPT !.form = "repaired", !.repairs = 1,
                           !.status = "VALIDATING_PACKAGE"] /\ disk' = mem'
    BY <1>5 DEF Repair
  <2>2. /\ mem'.package = mem.package /\ mem'.art = mem.art /\ mem'.handoff = mem.handoff
        /\ mem'.checked = mem.checked /\ mem'.heard = mem.heard
        /\ mem'.phase = mem.phase /\ mem'.active = mem.active
        /\ mem'.count = mem.count /\ mem'.final = mem.final
        /\ mem'.status = "VALIDATING_PACKAGE"
    BY <1>1, <2>1 DEF State
  <2>3. mem.checked # NoContents /\ mem.status = "BLOCKED"
    BY <1>5 DEF Repair, Repairable
  <2>4. Sound(mem', made, checks)
    BY <1>1, <2>2, <2>3 DEF Sound, Fits, Prefix, Complete
  <2>5. Bound(mem', requests)
    BY <1>1, <2>2, BoundAlike
  <2> QED
    BY <1>2, <2>1, <2>4, <2>5 DEF Good
<1> QED
  BY <1>3, <1>4, <1>5 DEF Recover, Revalidate

\* The saved state and the copy of the command stay Good, whoever takes the step.
LEMMA StatesStep == IInv /\ [Next]_vars => StatesInv'
<1> SUFFICES ASSUME IInv, [Next]_vars
             PROVE  Good(disk', made', checks', requests')
                    /\ Good(mem', made', checks', requests')
  BY DEF StatesInv
<1>1. Good(disk, made, checks, requests) /\ Good(mem, made, checks, requests)
  BY DEF IInv, StatesInv
<1>2. made \subseteq made' /\ checks \subseteq checks' /\ requests \subseteq requests'
  BY RecordsGrow DEF Grown
<1>3. Good(disk, made', checks', requests') /\ Good(mem, made', checks', requests')
  BY <1>1, <1>2, GoodStays
<1>4. CASE disk' \in {disk, mem} /\ mem' \in {disk, mem}
  BY <1>3, <1>4
<1> QED
  BY <1>4, LineGood, JudgeGood, RevisionGood, HandoffGood, RecoverGood
     DEF Next, vars, Line, Judge, Revision, Handoff, Recovery, Around, NotFinalized,
     PackageFile, Deliver, DeliverTexts, SavePlan, Revise, Authorize, Receive, Asked,
     ProviderRetry, Crash, ConclusionHands, ConclusionFiles, Save, SaveAndEnd, Leave, End

-----------------------------------------------------------------------------
(* What is counted, delivered and answered.                                  *)

\* Budgets and audit events are of requests there are.
LEMMA BudgetStep ==
  IInv /\ [Next]_vars
    => /\ Len(slots') <= MaxRevisions
       /\ \A i \in DOMAIN slots' : slots'[i] \in requests'
       /\ noted' \subseteq requests'
<1> SUFFICES ASSUME IInv, [Next]_vars
             PROVE  /\ Len(slots') <= MaxRevisions
                    /\ \A i \in DOMAIN slots' : slots'[i] \in requests'
                    /\ noted' \subseteq requests'
  OBVIOUS
<1>1. /\ slots \in Seq(Request) /\ Len(slots) <= MaxRevisions
      /\ \A i \in DOMAIN slots : slots[i] \in requests
      /\ noted \subseteq requests
  BY DEF IInv, TypeInv, CountsInv
<1>2. requests \subseteq requests'
  BY RecordsGrow DEF Grown
<1>3. Planned(mem) \/ Waiting(mem) => mem.active \in requests
  BY DEF IInv, StatesInv, Good, Bound
<1>4. CASE UNCHANGED <<slots, noted>>
  BY <1>1, <1>2, <1>4
<1>5. CASE Exhausted \/ Resume
  <2>1. UNCHANGED slots /\ noted' \subseteq noted \union {mem.active}
        /\ (noted' = noted \/ Planned(mem) \/ Waiting(mem))
    BY <1>5 DEF Exhausted, Resume, IInv, CommandInv
  <2> QED
    BY <1>1, <1>2, <1>3, <2>1
<1>6. CASE Authorize
  <2>1. UNCHANGED noted /\ mem.active \in requests
    BY <1>3, <1>6 DEF Authorize, IInv, CommandInv
  <2>2. slots' = slots \/ (Len(slots) < MaxRevisions /\ slots' = Append(slots, mem.active))
    BY <1>6 DEF Authorize, HasBudget
  <2>3. CASE slots' = slots
    BY <1>1, <1>2, <2>1, <2>3
  <2>4. CASE Len(slots) < MaxRevisions /\ slots' = Append(slots, mem.active)
    <3>1. Len(slots') = Len(slots) + 1 /\ Len(slots) \in Nat
      BY <1>1, <2>4
    <3>2. ASSUME NEW i \in DOMAIN slots'
          PROVE  slots'[i] \in requests
      <4>1. i \in 1 .. Len(slots) + 1
        BY <1>1, <2>4, <3>1
      <4>2. CASE i = Len(slots) + 1
        BY <1>1, <2>1, <2>4, <4>2
      <4>3. CASE i # Len(slots) + 1
        <5>1. i \in DOMAIN slots /\ slots'[i] = slots[i]
          BY <1>1, <2>4, <3>1, <4>1, <4>3
        <5> QED
          BY <1>1, <5>1
      <4> QED
        BY <4>2, <4>3
    <3> QED
      BY <1>1, <1>2, <2>1, <2>4, <3>1, <3>2, Limits
  <2> QED
    BY <2>2, <2>3, <2>4
<1> QED
  BY <1>4, <1>5, <1>6
     DEF Next, vars, exchange, Line, Judge, Revision, Handoff, Recovery, Around, Ask, Answer,
     Keep, Validate, NotFinalized, Approve, Unsettled, Stop, PackageFile, Deliver,
     DeliverTexts, Delivered, Plan, SavePlan, Revise, Begin, Start, Receive, AskConclusion,
     Asked, ProviderRetry, Recover, Crash, ConclusionHands, ConclusionFiles

\* Nothing is uncounted.
LEMMA NumbersGrow ==
  IInv /\ [Next]_vars => /\ asked <= asked' /\ inbox.n <= inbox'.n /\ packages <= packages'
                         /\ (AskConclusion \/ asked' = asked)
                         /\ (Approve \/ packages' = packages)
<1> SUFFICES ASSUME IInv, [Next]_vars
             PROVE  /\ asked <= asked' /\ inbox.n <= inbox'.n /\ packages <= packages'
                    /\ (AskConclusion \/ asked' = asked)
                    /\ (Approve \/ packages' = packages)
  OBVIOUS
<1>1. asked \in Nat /\ inbox.n \in Nat /\ packages \in Nat
  BY Limits DEF IInv, TypeInv
<1>2. asked' = asked \/ (AskConclusion /\ asked' = asked + 1)
  BY DEF Next, vars, exchange, Line, Judge, Revision, Handoff, Recovery, Around, Ask, Answer,
     Keep, Validate, NotFinalized, Approve, Unsettled, Stop, PackageFile, Deliver,
     DeliverTexts, Delivered, Plan, SavePlan, Revise, Exhausted, Authorize, Begin, Start,
     Receive, AskConclusion, Asked, Resume, ProviderRetry, Recover, Crash, ConclusionHands,
     ConclusionFiles
<1>3. packages' = packages \/ Approve
  BY DEF Next, vars, ends, Line, Judge, Revision, Handoff, Recovery, Around, Ask, Answer,
     Keep, Validate, NotFinalized, Unsettled, Stop, PackageFile, Deliver, DeliverTexts,
     Delivered, Plan, SavePlan, Revise, Exhausted, Authorize, Begin, Start, Receive,
     AskConclusion, Asked, Resume, ProviderRetry, Recover, Crash, ConclusionHands,
     ConclusionFiles
<1>4. Approve => packages' = packages + 1
  BY DEF Approve
<1>5. inbox' = inbox \/ ConclusionHands
  BY DEF Next, vars, ends, Line, Judge, Revision, Handoff, Recovery, Around, Ask, Answer,
     Keep, Validate, NotFinalized, Approve, Unsettled, Stop, PackageFile, Deliver,
     DeliverTexts, Delivered, Plan, SavePlan, Revise, Exhausted, Authorize, Begin, Start,
     Receive, AskConclusion, Asked, Resume, ProviderRetry, Recover, Crash, ConclusionFiles
<1>6. ConclusionHands => inbox'.n = inbox.n + 1
  BY DEF ConclusionHands
<1> QED
  BY <1>1, <1>2, <1>3, <1>4, <1>5, <1>6

\* What a state counts is still there when more is.
LEMMA CountedAlike ==
  ASSUME NEW s \in State, NEW t,
         NEW a \in Nat, NEW n \in Nat, NEW p \in Nat, Counted(s, a, n, p),
         NEW a2 \in Nat, NEW n2 \in Nat, NEW p2 \in Nat, a <= a2, n <= n2, p <= p2,
         t.up = s.up, t.handoff = s.handoff, t.package = s.package, t.heard = s.heard,
         s.asked \subseteq t.asked, t.art = s.art
  PROVE  Counted(t, a2, n2, p2)
<1>1. s.up \in Nat /\ s.handoff \in Nat /\ s.package.serial \in Nat
  BY Limits DEF State, Package
<1> QED
  BY <1>1 DEF Counted

\* The saved state and the copy of the command do not run ahead.
LEMMA CountedStep ==
  IInv /\ [Next]_vars => /\ Counted(disk', asked', inbox'.n, packages')
                         /\ Counted(mem', asked', inbox'.n, packages')
<1> SUFFICES ASSUME IInv, [Next]_vars
             PROVE  /\ Counted(disk', asked', inbox'.n, packages')
                    /\ Counted(mem', asked', inbox'.n, packages')
  OBVIOUS
<1> USE DEF Save, SaveAndEnd, Leave, End, Goto, Block, Fail
<1>1. /\ disk \in State /\ mem \in State /\ TypeInv
      /\ Counted(disk, asked, inbox.n, packages) /\ Counted(mem, asked, inbox.n, packages)
  BY DEF IInv, TypeInv, CountsInv
<1>2. asked \in Nat /\ inbox.n \in Nat /\ packages \in Nat
  BY Limits DEF IInv, TypeInv
<1>3. TypeInv'
  BY TypeStep
<1>4. asked' \in Nat /\ inbox'.n \in Nat /\ packages' \in Nat
  BY <1>3, Limits DEF TypeInv
<1>5. asked <= asked' /\ inbox.n <= inbox'.n /\ packages <= packages'
  BY NumbersGrow
<1> DEFINE Fine(s) == Counted(s, asked', inbox'.n, packages')
<1>6. Fine(disk) /\ Fine(mem)
  BY <1>1, <1>2, <1>4, <1>5, CountedAlike
<1>7. ASSUME NEW s \in State, Fine(s), NEW t,
             t.up = s.up, t.handoff = s.handoff, t.package = s.package, t.heard = s.heard,
             s.asked \subseteq t.asked, t.art = s.art
      PROVE  Fine(t)
  BY <1>4, <1>7, CountedAlike
<1>8. ASSUME NEW s \in State, Fine(s), NEW n \in Stages
      PROVE  Fine(Cleared(s, n))
  <2>1. \A k \in Stages : Cleared(s, n).art[k] = IF k < n THEN s.art[k] ELSE NoId
    BY ClearedIs
  <2>2. /\ Cleared(s, n).package = NoPackage /\ Cleared(s, n).up = s.up
        /\ Cleared(s, n).handoff = s.handoff /\ Cleared(s, n).heard = s.heard
        /\ Cleared(s, n).asked = s.asked
    BY ClearedIs
  <2>3. \A k \in Stages : Cleared(s, n).art[k].stage \in {0, k}
    BY <1>8, <2>1, NothingTyped DEF Counted
  <2> QED
    BY <1>4, <1>8, <2>2, <2>3 DEF Counted, NoPackage
<1>9. CASE disk' \in {disk, mem} /\ mem' \in {disk, mem}
  BY <1>6, <1>9
<1>10. CASE Stop \/ Delivered
  <2>1. PICK st : disk' = [mem EXCEPT !.status = st]
    BY <1>10 DEF Stop, Delivered
  <2>2. mem' = disk'
    BY <1>10 DEF Stop, Delivered
  <2>3. Fine(disk')
    BY <1>1, <1>6, <1>7, <2>1 DEF State
  <2> QED
    BY <2>2, <2>3
<1>11. CASE Exhausted \/ Unsettled
  <2>1. PICK ph \in Phase : mem' = disk \/ mem' = [mem EXCEPT !.phase = ph] \/ mem' = mem
    BY <1>11 DEF Exhausted, Unsettled, Finalized, Phase
  <2>2. disk' = disk
    BY <1>11 DEF Exhausted, Unsettled
  <2> HIDE DEF Fine
  <2>3. mem' = [mem EXCEPT !.phase = ph] => Fine(mem')
    BY <1>1, <1>6, <1>7 DEF State
  <2> QED
    BY <1>6, <2>1, <2>2, <2>3 DEF Fine
<1>12. CASE Plan
  <2>1. mem' = [mem EXCEPT !.phase = "authorization_required",
                           !.epoch = InternalRequest(mem).epoch,
                           !.active = InternalRequest(mem), !.status = "BLOCKED"]
        /\ disk' = disk
    BY <1>12 DEF Plan
  <2>2. /\ mem'.up = mem.up /\ mem'.handoff = mem.handoff /\ mem'.package = mem.package
        /\ mem'.heard = mem.heard /\ mem'.asked = mem.asked /\ mem'.art = mem.art
    BY <1>1, <2>1 DEF State
  <2> QED
    BY <1>1, <1>6, <1>7, <2>1, <2>2
<1>13. CASE Ask
  <2>1. mem' = [mem EXCEPT !.status = Working[run.at],
                           !.asked = mem.asked \union {StageId(run.at)}] /\ disk' = mem'
    BY <1>13 DEF Ask
  <2>2. Fine(mem')
    BY <1>1, <1>6, <1>7, <2>1 DEF State
  <2> QED
    BY <2>1, <2>2
<1>14. CASE Answer
  <2> DEFINE id == StageId(run.at)
  <2>1. id \in mem.asked
    BY <1>14 DEF Answer, IInv, CommandInv
  <2>2. disk' = mem' /\
        \/ mem' = [mem EXCEPT !.heard = mem.heard \union {id}]
        \/ \E b \in BOOLEAN :
             mem' = [mem EXCEPT !.fault = id, !.again = b, !.status = "FAILED"]
    BY <1>1, <1>14, Zenon DEF Answer, State
  <2> HIDE DEF id
  <2>3. CASE mem' = [mem EXCEPT !.heard = mem.heard \union {id}]
    BY <1>1, <1>4, <1>6, <2>1, <2>2, <2>3 DEF State, Counted
  <2>4. CASE \E b \in BOOLEAN :
               mem' = [mem EXCEPT !.fault = id, !.again = b, !.status = "FAILED"]
    <3>1. Fine(mem')
      BY <1>1, <1>6, <1>7, <2>4 DEF State
    <3> QED
      BY <2>2, <3>1
  <2> QED
    BY <2>2, <2>3, <2>4
<1>15. CASE Keep
  <2> DEFINE n == run.at
             id == run.ids[n]
             ar == [mem.art EXCEPT ![n] = id]
             fo == IF n = 3 THEN "edited" ELSE mem.form
  <2>1. n \in Stages /\ id.stage = n
    BY <1>15 DEF Keep, IInv, CommandInv, Making, AtStage, AtKeep
  <2>2. \A k \in Stages : ar[k] = IF k = n THEN id ELSE mem.art[k]
    BY <1>1 DEF State, Art
  <2>3. mem' = [mem EXCEPT !.art = ar, !.form = fo] /\ disk' = mem'
    BY <1>1, <1>15 DEF Keep, State
  <2>4. \A k \in Stages : ar[k].stage \in {0, k}
    BY <1>1, <2>1, <2>2 DEF Counted
  <2> HIDE DEF ar, fo, id, n
  <2>5. /\ mem'.up = mem.up /\ mem'.handoff = mem.handoff /\ mem'.package = mem.package
        /\ mem'.heard = mem.heard /\ mem'.asked = mem.asked /\ mem'.art = ar
    BY <1>1, <2>3 DEF State
  <2>6. Fine(mem')
    BY <1>6, <2>4, <2>5 DEF Counted
  <2> QED
    BY <2>3, <2>6
<1>16. CASE Validate
  <2>1. mem' = [mem EXCEPT !.status = "VALIDATING_PACKAGE", !.checked = Contents(mem)]
        /\ disk' = mem'
    BY <1>16 DEF Validate
  <2>2. Fine(mem')
    BY <1>1, <1>6, <1>7, <2>1 DEF State
  <2> QED
    BY <2>1, <2>2
<1>17. CASE Approve
  <2> DEFINE s == [mem EXCEPT !.package = Built(mem)]
  <2>1. disk' = disk /\ packages' = packages + 1
        /\ (mem' = s \/ mem' = [s EXCEPT !.phase = "completed"])
    BY <1>17 DEF Approve, Finalized
  <2>2. s \in State
    BY <1>1, ContentsTyped DEF State
  <2>3. /\ s.up = mem.up /\ s.handoff = mem.handoff /\ s.package.serial = packages + 1
        /\ s.heard = mem.heard /\ s.asked = mem.asked /\ s.art = mem.art
    BY <1>1 DEF State, Built
  <2> HIDE DEF s
  <2>4. Fine(s)
    BY <1>2, <1>6, <2>1, <2>3 DEF Counted
  <2>5. mem' = [s EXCEPT !.phase = "completed"] => Fine(mem')
    BY <1>7, <2>2, <2>4 DEF State
  <2> QED
    BY <1>6, <2>1, <2>4, <2>5
<1>18. CASE Begin
  <2> DEFINE c == Maximum(mem.count, CHOOSE i \in Slot(mem.active) : TRUE)
             s == [mem EXCEPT !.phase = "executing", !.status = "REVISING", !.count = c]
  <2>1. c \in 0 .. MaxRevisions
    BY <1>18, SlotIs DEF Begin
  <2> HIDE DEF c
  <2>2. s \in State
    BY <1>1, <2>1 DEF State, Status, Phase
  <2>3. Fine(s)
    BY <1>1, <1>6, <1>7 DEF State
  <2>4. mem.active.first \in Stages
    BY <1>18 DEF Begin, IInv, CommandInv, StatesInv, Good, Bound
  <2>5. mem' = Cleared(s, mem.active.first) /\ disk' = mem'
    BY <1>18 DEF Begin, c
  <2> HIDE DEF s, Fine
  <2>6. Fine(Cleared(s, mem.active.first))
    BY <1>8, <2>2, <2>3, <2>4
  <2> QED
    BY <2>5, <2>6 DEF Fine
<1>19. CASE Start \/ Resume
  <2> DEFINE s == Received(mem)
  <2>1. s \in State /\ (\A k \in Stages : s.art[k] = NoId) /\ s.package = NoPackage
        /\ s.handoff = inbox.n /\ s.heard = mem.heard /\ s.asked = mem.asked
        /\ s.up = mem.up
    BY <1>1, ReceivedIs
  <2>2. Fine(s)
    BY <1>2, <1>4, <1>5, <1>6, <2>1, NothingTyped DEF Counted, NoPackage
  <2>3. \/ disk' = disk /\ mem' = disk
        \/ disk' = mem' /\ mem' = [s EXCEPT !.status = "VALIDATING_HANDOFF"]
        \/ disk' = disk /\ \E ph : mem' = [s EXCEPT !.phase = ph]
    BY <1>19 DEF Start, Resume
  <2> HIDE DEF s
  <2>4. mem' = [s EXCEPT !.status = "VALIDATING_HANDOFF"] => Fine(mem')
    BY <1>7, <2>1, <2>2 DEF State
  <2>5. ASSUME NEW ph, mem' = [s EXCEPT !.phase = ph]
        PROVE  Fine(mem')
    BY <1>7, <2>1, <2>2, <2>5 DEF State
  <2> QED
    BY <1>6, <2>3, <2>4, <2>5
<1>20. CASE AskConclusion
  <2>1. CASE disk' = disk /\ mem' = disk
    BY <1>6, <2>1
  <2>2. ASSUME NEW r \in Request, disk' = disk, asked' = asked + 1,
               mem' = [mem EXCEPT !.up = mem.up + 1,
                                  !.status = "WAITING_UPSTREAM_REVISION",
                                  !.phase = "waiting_upstream_result",
                                  !.epoch = r.epoch, !.active = r]
        PROVE  Fine(disk') /\ Fine(mem')
    <3>1. /\ mem'.up = mem.up + 1 /\ mem'.handoff = mem.handoff
          /\ mem'.package = mem.package /\ mem'.heard = mem.heard
          /\ mem'.asked = mem.asked /\ mem'.art = mem.art
      BY <1>1, <2>2 DEF State
    <3>2. mem.up \in Nat /\ mem.up <= asked
      BY <1>1, Limits DEF State, Counted
    <3> QED
      BY <1>2, <1>6, <2>2, <3>1, <3>2 DEF Counted
  <2> QED
    BY <1>20, <2>1, <2>2, AskConclusionIs
<1>21. CASE Recover
  <2>1. CASE RecoverFailed
    <3> DEFINE u == Restored(mem)
               n == FirstMissing(u)
    <3>1. /\ u \in State /\ u = [mem EXCEPT !.art = u.art, !.form = u.form] /\ Prefix(u)
          /\ \A k \in Stages : u.art[k].stage \in {0, k}
      BY <1>1, RestoredIs DEF IInv, StatesInv, Good, Sound, Counted
    <3>2. n # 5 => n \in Stages
      BY <3>1, FirstMissingIs
    <3>3. disk' = mem' /\ mem' = IF n = 5 THEN u ELSE Cleared(u, n)
      BY <2>1 DEF RecoverFailed
    <3> HIDE DEF u, n
    <3>4. /\ u.up = mem.up /\ u.handoff = mem.handoff /\ u.package = mem.package
          /\ u.heard = mem.heard /\ u.asked = mem.asked
      BY <1>1, <3>1 DEF State
    <3>5. Fine(u)
      BY <1>6, <3>1, <3>4 DEF Counted
    <3> HIDE DEF Fine
    <3>6. n # 5 => Fine(Cleared(u, n))
      BY <1>8, <3>1, <3>2, <3>5
    <3> QED
      BY <3>3, <3>5, <3>6 DEF Fine
  <2>2. CASE Repair
    <3>1. mem' = [mem EXCEPT !.form = "repaired", !.repairs = 1,
                             !.status = "VALIDATING_PACKAGE"] /\ disk' = mem'
      BY <2>2 DEF Repair
    <3>2. Fine(mem')
      BY <1>1, <1>6, <1>7, <3>1 DEF State
    <3> QED
      BY <3>1, <3>2
  <2> QED
    BY <1>6, <1>21, <2>1, <2>2 DEF Recover, Revalidate
<1> HIDE DEF Fine
<1> QED
  BY <1>9, <1>10, <1>11, <1>12, <1>13, <1>14, <1>15, <1>16, <1>17, <1>18, <1>19, <1>20,
     <1>21
     DEF Next, vars, Line, Judge, Revision, Handoff, Recovery, Around, NotFinalized,
     PackageFile, Deliver, DeliverTexts, SavePlan, Revise, Authorize, Receive, Asked,
     ProviderRetry, Crash, ConclusionHands, ConclusionFiles

\* Nothing runs ahead of what it counts.
LEMMA CountsStep == IInv /\ [Next]_vars => CountsInv'
BY BudgetStep, CountedStep DEF CountsInv

\* What is delivered is the package of the state.
LEMMA FilesStep == IInv /\ [Next]_vars => FilesInv'
<1> SUFFICES ASSUME IInv, [Next]_vars PROVE FilesInv'
  OBVIOUS
<1>1. made \subseteq made' /\ checks \subseteq checks'
  BY RecordsGrow DEF Grown
<1>2. /\ Valid(files.package, made', checks') /\ Valid(files.delivery, made', checks')
      /\ Valid(files.script, made', checks') /\ Valid(mem.package, made', checks')
  BY <1>1, ValidStays DEF IInv, FilesInv, StatesInv, Good, Sound
<1>3. files \in [package : Package, delivery : Package, script : Package]
  BY DEF IInv, TypeInv
<1>4. CASE files' = files
  BY <1>2, <1>4 DEF FilesInv
<1>5. CASE PackageFile \/ Deliver \/ DeliverTexts
  <2>1. \/ files' = [files EXCEPT !.package = mem.package]
        \/ files' = [files EXCEPT !.delivery = mem.package]
        \/ files' = [files EXCEPT !.script = mem.package]
    BY <1>5 DEF PackageFile, Deliver, DeliverTexts, Written
  <2>2. /\ files'.package \in {files.package, mem.package}
        /\ files'.delivery \in {files.delivery, mem.package}
        /\ files'.script \in {files.script, mem.package}
    BY <1>3, <2>1
  <2> QED
    BY <1>2, <2>2 DEF FilesInv
<1> QED
  BY <1>4, <1>5
     DEF Next, vars, ends, Line, Judge, Revision, Handoff, Recovery, Around, Ask, Answer,
     Keep, Validate, NotFinalized, Approve, Unsettled, Stop, Delivered, Plan, SavePlan,
     Revise, Exhausted, Authorize, Begin, Start, Receive, AskConclusion, Asked, Resume,
     ProviderRetry, Recover, Crash, ConclusionHands, ConclusionFiles

\* A result says of its request what the gate said of what was made for it.
LEMMA ResultsStep == IInv /\ [Next]_vars => ResultsInv'
<1> SUFFICES ASSUME IInv, [Next]_vars PROVE ResultsInv'
  OBVIOUS
<1>1. checks \subseteq checks'
  BY RecordsGrow DEF Grown
<1>2. \A x : Truthful(x, checks) => Truthful(x, checks')
  BY <1>1 DEF Truthful
<1>3. \A x \in results : Truthful(x, checks')
  BY <1>2 DEF IInv, ResultsInv
<1>4. CASE results' = results
  BY <1>3, <1>4 DEF ResultsInv
<1>5. CASE \A x \in results' : x \in results \/ x.request.route = "upstream"
  BY <1>3, <1>5 DEF ResultsInv, Truthful
<1>6. CASE Approve \/ Unsettled
  <2>1. pc = "judge" /\ mem.checked = Contents(mem) /\ mem.handoff > 0
    BY <1>6, Handed DEF Approve, Unsettled, IInv, CommandInv
  <2>2. mem.checked # NoContents /\ mem.checked.handoff = mem.handoff
    BY <2>1, ContentsNotNothing DEF Contents
  <2>3. Judged(mem.checked, checks)
    BY <2>2 DEF IInv, StatesInv, Good, Sound
  <2>4. PICK c \in checks : /\ c.of = mem.checked
                            /\ Gate(mem) = "approved" <=> c.verdict[1] = "approved"
    BY <2>2, <2>3, GateIs
  <2>5. /\ checks' = checks
        /\ \/ Gate(mem) = "approved" /\ WriteResult(mem, "completed")
           \/ Gate(mem) # "approved" /\ WriteResult(mem, "partial")
    BY <1>6 DEF Approve, Unsettled, calls
  <2>6. ASSUME NEW s \in {"completed", "partial"}, Executing(mem),
               Gate(mem) = "approved" <=> s = "completed"
        PROVE  Truthful(Result(mem, s), checks)
    <3>1. mem.final = mem.active.final /\ mem.handoff = mem.active.base.handoff
      BY <2>6 DEF IInv, StatesInv, Good, Bound
    <3> QED
      BY <2>2, <2>4, <2>6, <3>1 DEF Truthful, Result
  <2>7. \A x \in results' : x \in results \/ Truthful(x, checks')
    BY <2>5, <2>6 DEF WriteResult
  <2> QED
    BY <1>3, <2>7 DEF ResultsInv
<1>7. CASE Resume
  <2>1. Waiting(mem) => mem.active.route = "upstream"
    BY DEF IInv, StatesInv, Good, Bound
  <2>2. \A x \in Answers(mem.active) : x \in results \/ x.request = mem.active
    BY DEF Answers, ResultsOf, Reply
  <2> QED
    BY <1>5, <1>7, <2>1, <2>2 DEF Resume
<1>8. CASE ConclusionFiles
  BY <1>5, <1>8 DEF ConclusionFiles, Upstream, Reply
<1> QED
  BY <1>4, <1>6, <1>7, <1>8
     DEF Next, vars, exchange, Line, Judge, Revision, Handoff, Recovery, Around, Ask, Answer,
     Keep, Validate, NotFinalized, Stop, PackageFile, Deliver, DeliverTexts, Delivered,
     Plan, SavePlan, Revise, Exhausted, Authorize, Begin, Start, Receive, AskConclusion,
     Asked, ProviderRetry, Recover, Crash, ConclusionHands

-----------------------------------------------------------------------------
(* What a command knows is true when it gets there.                          *)

\* A command that runs has not completed the workflow, and one that has ended left
\* what is saved.
LEMMA StatusStep ==
  IInv /\ [Next]_vars
    => /\ pc' = "idle" => mem' = disk'
       /\ pc' # "idle" => /\ disk'.status # "COMPLETED"
                          /\ mem'.status \notin {"CREATED", "COMPLETED"}
<1> SUFFICES ASSUME IInv, [Next]_vars
             PROVE  /\ pc' = "idle" => mem' = disk'
                    /\ pc' # "idle" => /\ disk'.status # "COMPLETED"
                                       /\ mem'.status \notin {"CREATED", "COMPLETED"}
  OBVIOUS
<1> USE DEF Save, SaveAndEnd, Leave, End, Goto, Block, Fail
<1>1. /\ disk \in State /\ mem \in State /\ TypeInv
      /\ pc = "idle" => mem = disk
      /\ pc # "idle" => /\ disk.status # "COMPLETED"
                        /\ mem.status \notin {"CREATED", "COMPLETED"}
  BY DEF IInv, TypeInv, CommandInv
<1>2. CASE pc' = "idle" /\ mem' = disk'
  BY <1>2
<1>3. CASE UNCHANGED <<disk, mem, pc>>
  BY <1>1, <1>3
<1>4. CASE pc # "idle" /\ pc' # "idle" /\ disk' \in {disk, mem} /\ mem' = mem
  BY <1>1, <1>4
<1>5. CASE Ask
  <2>1. AtStage
    BY <1>5 DEF Ask, IInv, CommandInv, Making
  <2>2. Working[run.at] \notin {"CREATED", "COMPLETED"}
    BY <2>1 DEF AtStage, Stages, Working
  <2>3. mem' = [mem EXCEPT !.status = Working[run.at],
                           !.asked = mem.asked \union {StageId(run.at)}] /\ disk' = mem'
        /\ pc' = "answer"
    BY <1>5 DEF Ask
  <2>4. mem'.status = Working[run.at]
    BY <1>1, <2>3 DEF State
  <2> QED
    BY <2>2, <2>3, <2>4
<1>6. CASE Answer /\ pc' # "idle"
  <2>1. mem' = [mem EXCEPT !.heard = mem.heard \union {StageId(run.at)}] /\ disk' = mem'
        /\ pc # "idle"
    BY <1>6 DEF Answer
  <2>2. mem'.status = mem.status
    BY <1>1, <2>1 DEF State
  <2> QED
    BY <1>1, <1>6, <2>1, <2>2
<1>7. CASE Keep
  <2>1. \E ar, fo : mem' = [mem EXCEPT !.art = ar, !.form = fo]
    BY <1>7 DEF Keep
  <2>2. mem'.status = mem.status /\ disk' = mem' /\ pc # "idle" /\ pc' # "idle"
    BY <1>1, <1>7, <2>1 DEF Keep, State
  <2> QED
    BY <1>1, <2>2
<1>8. CASE Validate
  <2>1. mem'.status = "VALIDATING_PACKAGE" /\ disk' = mem' /\ pc' = "judge"
    BY <1>1, <1>8 DEF Validate, State
  <2> QED
    BY <2>1
<1>9. CASE Approve \/ Unsettled
  <2>1. disk' = disk /\ pc # "idle" /\ pc' # "idle"
    BY <1>9 DEF Approve, Unsettled
  <2>2. \/ mem' = mem
        \/ \E ph : mem' = [mem EXCEPT !.phase = ph]
        \/ \E pk : mem' = [mem EXCEPT !.package = pk]
        \/ \E pk, ph : mem' = [[mem EXCEPT !.package = pk] EXCEPT !.phase = ph]
    BY <1>9 DEF Approve, Unsettled, Finalized
  <2>3. mem'.status = mem.status
    BY <1>1, <2>2 DEF State
  <2> QED
    BY <1>1, <2>1, <2>3
<1>10. CASE Plan
  <2>1. mem' = [mem EXCEPT !.phase = "authorization_required",
                           !.epoch = InternalRequest(mem).epoch,
                           !.active = InternalRequest(mem), !.status = "BLOCKED"]
        /\ disk' = disk /\ pc # "idle"
    BY <1>10 DEF Plan
  <2>2. mem'.status = "BLOCKED"
    BY <1>1, <2>1 DEF State
  <2> QED
    BY <1>1, <2>1, <2>2, <1>10 DEF Plan
<1>11. CASE Exhausted /\ pc' # "idle"
  <2>1. mem' = [mem EXCEPT !.phase = "blocked"] /\ disk' = disk /\ pc # "idle"
    BY <1>11 DEF Exhausted
  <2>2. mem'.status = mem.status
    BY <1>1, <2>1 DEF State
  <2> QED
    BY <1>1, <1>11, <2>1, <2>2
<1>12. CASE Revise /\ pc' # "idle"
  <2>1. mem.status = "BLOCKED" /\ UNCHANGED <<disk, mem>> /\ pc = "idle"
    BY <1>12 DEF Revise, Revisable, Command
  <2> QED
    BY <1>1, <1>12, <2>1
<1>13. CASE Begin
  <2> DEFINE c == Maximum(mem.count, CHOOSE i \in Slot(mem.active) : TRUE)
             s == [mem EXCEPT !.phase = "executing", !.status = "REVISING", !.count = c]
  <2>1. c \in 0 .. MaxRevisions
    BY <1>13, SlotIs DEF Begin
  <2> HIDE DEF c
  <2>2. s \in State /\ s.status = "REVISING"
    BY <1>1, <2>1 DEF State, Status, Phase
  <2>3. mem.active.first \in Stages
    BY <1>13 DEF Begin, IInv, CommandInv, StatesInv, Good, Bound
  <2>4. mem' = Cleared(s, mem.active.first) /\ disk' = mem' /\ pc' = "ask"
    BY <1>13 DEF Begin, c
  <2> HIDE DEF s
  <2>5. mem'.status = "REVISING"
    BY <2>2, <2>3, <2>4, ClearedIs
  <2> QED
    BY <2>4, <2>5
<1>14. CASE Start
  <2>1. Received(mem) \in State
    BY <1>1, ReceivedIs
  <2>2. mem'.status = "VALIDATING_HANDOFF" /\ disk' = mem' /\ pc' = "received"
    BY <1>14, <2>1 DEF Start, State
  <2> QED
    BY <2>2
<1>15. CASE AskConclusion /\ pc' # "idle"
  <2>1. mem'.status = "WAITING_UPSTREAM_REVISION"
    BY <1>1, <1>15, AskConclusionIs DEF State
  <2>2. disk' = disk /\ pc # "idle"
    BY <1>15 DEF AskConclusion
  <2> QED
    BY <1>1, <1>15, <2>1, <2>2
<1>16. CASE Resume /\ pc' # "idle"
  <2>1. Received(mem) \in State /\ Received(mem).status = mem.status
    BY <1>1, ReceivedIs
  <2>2. disk' = disk /\ disk = mem /\ mem.status = "WAITING_UPSTREAM_REVISION"
        /\ \E ph : mem' = [Received(mem) EXCEPT !.phase = ph]
    BY <1>1, <1>16 DEF Resume, Command
  <2>3. mem'.status = mem.status
    BY <2>1, <2>2 DEF State
  <2> QED
    BY <1>16, <2>2, <2>3
<1>17. CASE Recover /\ pc' # "idle"
  <2>1. CASE RecoverFailed
    <3> DEFINE u == Restored(mem)
               n == FirstMissing(u)
    <3>1. u \in State /\ u = [mem EXCEPT !.art = u.art, !.form = u.form] /\ Prefix(u)
      BY <1>1, RestoredIs DEF IInv, StatesInv, Good, Sound, CountsInv, Counted
    <3>2. n # 5 => n \in Stages
      BY <3>1, FirstMissingIs
    <3>3. disk' = mem' /\ mem' = (IF n = 5 THEN u ELSE Cleared(u, n))
          /\ mem.status = "FAILED"
      BY <2>1 DEF RecoverFailed
    <3> HIDE DEF u, n
    <3>4. u.status = "FAILED"
      BY <1>1, <3>1, <3>3 DEF State
    <3>5. n # 5 => Cleared(u, n).status = "FAILED"
      BY <3>1, <3>2, <3>4, ClearedIs
    <3> QED
      BY <1>17, <3>3, <3>4, <3>5
  <2>2. CASE Repair
    BY <1>1, <1>17, <2>2 DEF Repair, State
  <2>3. CASE Revalidate
    BY <1>1, <1>17, <2>3 DEF Revalidate, Recover, Command
  <2> QED
    BY <1>17, <2>1, <2>2, <2>3 DEF Recover
<1>18. CASE (Answer \/ Exhausted \/ Revise \/ AskConclusion \/ Resume \/ Recover)
            /\ pc' = "idle"
  <2>1. mem' = disk'
    <3>1. CASE Answer
      BY <1>18, <3>1, Zenon DEF Answer
    <3>2. CASE Recover
      BY <1>18, <3>2 DEF Recover, RecoverFailed, Repair, Revalidate
    <3> QED
      BY <1>18, <3>1, <3>2 DEF Exhausted, Revise, AskConclusion, Resume
  <2> QED
    BY <1>18, <2>1
<1> QED
  BY <1>2, <1>3, <1>4, <1>5, <1>6, <1>7, <1>8, <1>9, <1>10, <1>11, <1>12, <1>13, <1>14,
     <1>15, <1>16, <1>17, <1>18
     DEF Next, vars, Line, Judge, Revision, Handoff, Recovery, Around, NotFinalized, Stop,
     PackageFile, Deliver, DeliverTexts, Delivered, SavePlan, Authorize, Receive, Asked,
     ProviderRetry, Crash, ConclusionHands, ConclusionFiles

\* A stage is next when those before it are done.
LEMMA MakingStep == IInv /\ [Next]_vars => (pc' \in Making => AtStage')
<1> SUFFICES ASSUME IInv, [Next]_vars, pc' \in Making PROVE AtStage'
  OBVIOUS
<1> USE DEF Save, SaveAndEnd, Leave, End, Goto, Block, Fail, Making
<1>1. /\ disk \in State /\ mem \in State /\ run \in Run /\ TypeInv
      /\ pc \in Making => AtStage
  BY DEF IInv, TypeInv, CommandInv
<1>2. run = [at |-> run.at, ids |-> run.ids] /\ run.ids \in Art
  BY <1>1 DEF Run
<1>3. CASE UNCHANGED <<pc, run, mem>>
  BY <1>1, <1>3 DEF AtStage
<1>4. CASE Ask
  <2>1. run' = run /\ AtStage
    BY <1>1, <1>4 DEF Ask
  <2>2. \E st, as : mem' = [mem EXCEPT !.status = st, !.asked = as]
    BY <1>4 DEF Ask
  <2>3. mem'.art = mem.art
    BY <1>1, <2>2 DEF State
  <2> QED
    BY <2>1, <2>3 DEF AtStage
<1>5. CASE Answer
  <2> DEFINE id == StageId(run.at)
  <2>1. AtStage /\ id.stage = run.at
    BY <1>1, <1>5, StageIdIs DEF Answer
  <2>2. run' = [run EXCEPT !.ids[run.at] = id]
        /\ mem' = [mem EXCEPT !.heard = mem.heard \union {id}]
    BY <1>5 DEF Answer
  <2> HIDE DEF id
  <2>3. run'.at = run.at /\ mem'.art = mem.art
        /\ \A k \in Stages : run'.ids[k] = IF k = run.at THEN id ELSE run.ids[k]
    BY <1>1, <1>2, <2>2 DEF State, Run, Art
  <2> QED
    BY <2>1, <2>3 DEF AtStage
<1>6. CASE Keep
  <2>1. AtStage /\ AtKeep /\ run.at < 4
    BY <1>1, <1>6 DEF Keep, IInv, CommandInv, AtStage, Stages
  <2>2. run' = [run EXCEPT !.at = run.at + 1]
    BY <1>6 DEF Keep
  <2>3. \E fo : mem' = [mem EXCEPT !.art = [mem.art EXCEPT ![run.at] = run.ids[run.at]],
                                   !.form = fo]
    BY <1>1, <1>6 DEF Keep, State
  <2>4. \A k \in Stages : mem'.art[k] = IF k = run.at THEN run.ids[run.at] ELSE mem.art[k]
    BY <1>1, <2>3 DEF State, Art
  <2>5. run'.at = run.at + 1 /\ run'.ids = run.ids
    BY <1>2, <2>2
  <2>6. run.ids[run.at] # NoId
    BY <2>1 DEF AtKeep
  <2> QED
    BY <2>1, <2>4, <2>5, <2>6 DEF AtStage, Stages
<1>7. CASE Begin
  <2> DEFINE c == Maximum(mem.count, CHOOSE i \in Slot(mem.active) : TRUE)
             s == [mem EXCEPT !.phase = "executing", !.status = "REVISING", !.count = c]
             n == mem.active.first
  <2>1. c \in 0 .. MaxRevisions
    BY <1>7, SlotIs DEF Begin
  <2> HIDE DEF c
  <2>2. s \in State /\ s.art = mem.art
    BY <1>1, <2>1 DEF State, Status, Phase
  <2>3. n \in Stages /\ mem.checked # NoContents
    BY <1>7 DEF Begin, IInv, CommandInv, StatesInv, Good, Bound, Executable
  <2>4. mem' = Cleared(s, n) /\ run' = [at |-> n, ids |-> OwnIds(mem)]
    BY <1>7 DEF Begin, c
  <2> HIDE DEF s
  <2>5. \A k \in Stages : mem.art[k] # NoId
    BY <2>3 DEF IInv, StatesInv, Good, Sound, Complete
  <2>6. \A k \in Stages : mem'.art[k] = IF k < n THEN mem.art[k] ELSE NoId
    BY <2>2, <2>3, <2>4, ClearedIs
  <2>7. \A k \in Stages : run'.ids[k] # NoId => run'.ids[k].stage = k
    BY <2>4 DEF OwnIds, Id
  <2> QED
    BY <2>3, <2>4, <2>5, <2>6, <2>7 DEF AtStage
<1>8. CASE Receive
  <2>1. run' = [NoRun EXCEPT !.at = 1] /\ mem' = mem /\ \A n \in Stages : mem.art[n] = NoId
    BY <1>8 DEF Receive, IInv, CommandInv
  <2>2. run'.at = 1 /\ run'.ids = NoArt
    BY <2>1 DEF NoRun
  <2> QED
    BY <2>1, <2>2 DEF AtStage, NoArt, Stages
<1>9. CASE Recover
  <2> DEFINE u == Restored(mem)
             n == FirstMissing(u)
             id == Suspect(mem, n)
  <2>1. /\ CanGoOn(mem, n) /\ mem' = (IF n = 5 THEN u ELSE Cleared(u, n)) /\ n # 5
        /\ run' = [at |-> n, ids |-> IF id = NoId THEN NoArt
                                     ELSE [NoArt EXCEPT ![n] = RetryOf(id)]]
    BY <1>9 DEF Recover, RecoverFailed, Repair, Revalidate
  <2>2. u \in State /\ Prefix(u)
    BY <1>1, RestoredIs DEF IInv, StatesInv, Good, Sound, CountsInv, Counted
  <2>3. n \in Stages /\ \A k \in 1 .. n - 1 : u.art[k] # NoId
    BY <2>1, FirstMissingIs
  <2>4. id # NoId => RetryOf(id).stage = n
    <3>1. id # NoId => id = mem.fault /\ id.stage = n
      BY <2>1 DEF CanGoOn, Suspect
    <3>2. mem.fault \in Task
      BY <1>1 DEF State
    <3> QED
      BY <3>1, <3>2 DEF RetryOf, Task
  <2> HIDE DEF u, n, id
  <2>5. \A k \in Stages : mem'.art[k] = IF k < n THEN u.art[k] ELSE NoId
    BY <2>1, <2>2, <2>3, ClearedIs
  <2>6. \A k \in Stages : run'.ids[k] # NoId => run'.ids[k].stage = k
    BY <2>1, <2>4 DEF NoArt
  <2>7. \A k \in Stages : mem'.art[k] # NoId <=> k < n
    BY <2>3, <2>5 DEF Stages
  <2> QED
    BY <2>1, <2>3, <2>6, <2>7 DEF AtStage
<1> QED
  BY <1>3, <1>4, <1>5, <1>6, <1>7, <1>8, <1>9
     DEF Next, vars, Line, Judge, Revision, Handoff, Recovery, Around, NotFinalized, Stop,
     PackageFile, Deliver, DeliverTexts, Delivered, SavePlan, Authorize, Asked, Validate,
     Approve, Unsettled, Plan, Revise, Exhausted, Start, AskConclusion, Resume,
     ProviderRetry, Crash, ConclusionHands, ConclusionFiles

\* The request of the call is saved before it is made, and the artifact is kept as it
\* was made.
LEMMA CallStep ==
  IInv /\ [Next]_vars => /\ pc' = "answer" => (StageId(run.at))' \in mem'.asked
                         /\ pc' = "keep" => AtKeep'
<1> SUFFICES ASSUME IInv, [Next]_vars
             PROVE  /\ pc' = "answer" => (StageId(run.at))' \in mem'.asked
                    /\ pc' = "keep" => AtKeep'
  OBVIOUS
<1> USE DEF Save, SaveAndEnd, Leave, End, Goto, Block, Fail
<1>1. mem \in State /\ run \in Run /\ TypeInv
  BY DEF IInv, TypeInv
<1>2. CASE pc' \notin {"answer", "keep"}
  BY <1>2
<1>3. CASE UNCHANGED <<pc, run, mem, made>>
  <2>1. pc = "answer" => StageId(run.at) \in mem.asked
    BY DEF IInv, CommandInv
  <2>2. pc = "keep" => AtKeep
    BY DEF IInv, CommandInv
  <2> QED
    BY <1>3, <2>1, <2>2 DEF AtKeep, StageId, LogicalId
<1>4. CASE Ask
  <2>1. mem' = [mem EXCEPT !.status = Working[run.at],
                           !.asked = mem.asked \union {StageId(run.at)}]
        /\ run' = run /\ pc' = "answer"
    BY <1>4 DEF Ask
  <2>2. mem'.up = mem.up /\ mem'.count = mem.count
        /\ mem'.asked = mem.asked \union {StageId(run.at)}
    BY <1>1, <2>1 DEF State
  <2>3. (StageId(run.at))' = StageId(run.at)
    BY <2>1, <2>2 DEF StageId, LogicalId
  <2> QED
    BY <2>1, <2>2, <2>3
<1>5. CASE Answer
  <2> DEFINE id == StageId(run.at)
  <2>1. AtStage /\ id.stage = run.at
    BY <1>1, <1>5, StageIdIs DEF Answer, IInv, CommandInv, Making
  <2>2. pc' = "idle" \/
        (/\ run' = [run EXCEPT !.ids[run.at] = id] /\ pc' = "keep"
         /\ mem' = [mem EXCEPT !.heard = mem.heard \union {id}]
         /\ made' = made \union {Made(id)})
    BY <1>5, Zenon DEF Answer
  <2>3. Made(id) = [id |-> id, on |-> Before(mem.art, run.at), handoff |-> mem.handoff]
    BY <1>1, <2>1, MadeIs
  <2>4. id # NoId
    BY <2>1, NothingTyped DEF AtStage, Stages
  <2> HIDE DEF id
  <2>5. CASE /\ run' = [run EXCEPT !.ids[run.at] = id] /\ pc' = "keep"
             /\ mem' = [mem EXCEPT !.heard = mem.heard \union {id}]
             /\ made' = made \union {Made(id)}
    <3>1. run'.at = run.at /\ run'.ids[run.at] = id
      BY <1>1, <2>1, <2>5 DEF Run, Art, AtStage
    <3>2. mem'.art = mem.art /\ mem'.handoff = mem.handoff
      BY <1>1, <2>5 DEF State
    <3>3. Made(id) \in made' /\ Made(id).id = id /\ Made(id).handoff = mem.handoff
          /\ Made(id).on = Before(mem.art, run.at)
      BY <2>3, <2>5
    <3> QED
      BY <2>4, <2>5, <3>1, <3>2, <3>3 DEF AtKeep
  <2> QED
    BY <2>2, <2>5
<1> QED
  BY <1>2, <1>3, <1>4, <1>5
     DEF Next, vars, calls, Line, Judge, Revision, Handoff, Recovery, Around, NotFinalized,
     Stop, Keep, PackageFile, Deliver, DeliverTexts, Delivered, SavePlan, Authorize, Begin,
     Receive, Asked, Validate, Approve, Unsettled, Plan, Revise, Exhausted, Start,
     AskConclusion, Resume, Recover, RecoverFailed, Repair, Revalidate, ProviderRetry, Crash,
     ConclusionHands, ConclusionFiles

\* A handoff finds nothing made, the validation finds all four artifacts, and the gate
\* finds the validation of what there is.
LEMMA GateStep ==
  IInv /\ [Next]_vars
    => /\ pc' \in {"received", "upstream"} => \A n \in Stages : mem'.art[n] = NoId
       /\ pc' = "validate" => Complete(mem')
       /\ pc' = "judge" => mem'.checked = Contents(mem')
<1> SUFFICES ASSUME IInv, [Next]_vars
             PROVE  /\ pc' \in {"received", "upstream"}
                         => \A n \in Stages : mem'.art[n] = NoId
                    /\ pc' = "validate" => Complete(mem')
                    /\ pc' = "judge" => mem'.checked = Contents(mem')
  OBVIOUS
<1> USE DEF Save, SaveAndEnd, Leave, End, Goto, Block, Fail
<1>1. mem \in State /\ run \in Run /\ TypeInv
  BY DEF IInv, TypeInv
<1>2. CASE pc' \notin {"received", "upstream", "validate", "judge"}
  BY <1>2
<1>3. CASE UNCHANGED <<pc, mem>>
  BY <1>3 DEF IInv, CommandInv
<1>4. CASE Receive
  BY <1>4 DEF Receive, IInv, CommandInv
<1>5. CASE Start \/ Resume
  <2> DEFINE s == Received(mem)
  <2>1. s \in State /\ \A n \in Stages : s.art[n] = NoId
    BY <1>1, ReceivedIs
  <2>2. \/ pc' = "idle"
        \/ pc' = "received" /\ \E st : mem' = [s EXCEPT !.status = st]
        \/ pc' = "received" /\ \E ph : mem' = [s EXCEPT !.phase = ph]
    BY <1>5 DEF Start, Resume
  <2> HIDE DEF s
  <2>3. pc' = "received" => mem'.art = s.art
    BY <2>1, <2>2 DEF State
  <2> QED
    BY <2>1, <2>2, <2>3
<1>6. CASE Keep /\ pc' = "validate"
  <2>1. AtStage /\ AtKeep /\ run.at = 4
    BY <1>6 DEF Keep, IInv, CommandInv, Making, AtStage, Stages
  <2>2. \E fo : mem' = [mem EXCEPT !.art = [mem.art EXCEPT ![run.at] = run.ids[run.at]],
                                   !.form = fo]
    BY <1>1, <1>6 DEF Keep, State
  <2>3. \A k \in Stages : mem'.art[k] = IF k = run.at THEN run.ids[run.at] ELSE mem.art[k]
    BY <1>1, <2>2 DEF State, Art
  <2>4. run.ids[run.at] # NoId
    BY <2>1 DEF AtKeep
  <2> QED
    BY <1>6, <2>1, <2>3, <2>4 DEF AtStage, Complete, Stages
<1>7. CASE Validate
  <2>1. mem' = [mem EXCEPT !.status = "VALIDATING_PACKAGE", !.checked = Contents(mem)]
        /\ pc' = "judge"
    BY <1>7 DEF Validate
  <2>2. mem'.checked = Contents(mem) /\ mem'.art = mem.art /\ mem'.form = mem.form
        /\ mem'.handoff = mem.handoff
    BY <1>1, <2>1 DEF State
  <2> QED
    BY <2>1, <2>2 DEF Contents
<1>8. CASE Recover /\ pc' = "validate"
  <2>1. CASE RecoverFailed
    <3>1. Restored(mem) \in State /\ Prefix(Restored(mem))
      BY <1>1, RestoredIs DEF IInv, StatesInv, Good, Sound, CountsInv, Counted
    <3>2. FirstMissing(Restored(mem)) = 5 /\ mem' = Restored(mem)
      BY <1>8, <2>1 DEF RecoverFailed
    <3>3. Complete(mem')
      BY <3>1, <3>2, FirstMissingIs
    <3> QED
      BY <1>8, <3>3
  <2>2. CASE Repair \/ Revalidate
    <3>1. mem.checked # NoContents
      BY <2>2 DEF Repair, Repairable, Revalidate, IInv, StatesInv, Good, Sound
    <3>2. Complete(mem)
      BY <3>1 DEF IInv, StatesInv, Good, Sound
    <3>3. mem'.art = mem.art
      BY <1>1, <2>2 DEF Repair, Revalidate, State
    <3> QED
      BY <1>8, <3>2, <3>3 DEF Complete
  <2> QED
    BY <1>8, <2>1, <2>2 DEF Recover
<1> QED
  BY <1>2, <1>3, <1>4, <1>5, <1>6, <1>7, <1>8
     DEF Next, vars, Line, Judge, Revision, Handoff, Recovery, Around, NotFinalized, Ask,
     Answer, Keep, Stop, PackageFile, Deliver, DeliverTexts, Delivered, SavePlan, Authorize,
     Begin, Asked, Approve, Unsettled, Plan, Revise, Exhausted, AskConclusion, Recover,
     RecoverFailed, Repair, Revalidate, ProviderRetry, Crash, ConclusionHands,
     ConclusionFiles

\* A revision is planned for a validation that asks for it, what is executed is the
\* plan, and nobody stops with a plan that was made for something else.
LEMMA PlanStep ==
  IInv /\ [Next]_vars
    => /\ pc' = "plan" => mem'.checked # NoContents /\ Gate(mem)' = "revise"
       /\ pc' \in {"planned", "execute", "begin"}
            => Planned(mem') /\ mem'.status = "BLOCKED"
       /\ pc' = "begin" => Slot(mem.active)' # {}
       /\ pc' = "stop" => ~Planned(mem')
<1> SUFFICES ASSUME IInv, [Next]_vars
             PROVE  /\ pc' = "plan" => mem'.checked # NoContents /\ Gate(mem)' = "revise"
                    /\ pc' \in {"planned", "execute", "begin"}
                         => Planned(mem') /\ mem'.status = "BLOCKED"
                    /\ pc' = "begin" => Slot(mem.active)' # {}
                    /\ pc' = "stop" => ~Planned(mem')
  OBVIOUS
<1> USE DEF Save, SaveAndEnd, Leave, End, Goto, Block, Fail
<1>1. mem \in State /\ TypeInv
  BY DEF IInv, TypeInv
<1>2. CASE pc' \notin {"plan", "planned", "execute", "begin", "stop"}
  BY <1>2
<1>3. CASE UNCHANGED <<pc, mem, checks, slots>>
  BY <1>3 DEF IInv, CommandInv, Gate, Passed, Verdict, Slot
<1>4. CASE Unsettled
  <2>1. pc = "judge" /\ mem.checked = Contents(mem) /\ mem.handoff > 0
    BY <1>4, Handed DEF Unsettled, IInv, CommandInv
  <2>2. mem.checked # NoContents
    BY <2>1, ContentsNotNothing
  <2>3. Gate(mem) # "approved" /\ mem' = Finalized(mem, "partial") /\ checks' = checks
        /\ pc' = (IF Gate(mem) = "blocked" \/ Executing(mem) THEN "stop" ELSE "plan")
    BY <1>4 DEF Unsettled, calls
  <2>4. CASE Executing(mem)
    <3>1. mem' = [mem EXCEPT !.phase = "blocked"] /\ pc' = "stop"
      BY <2>3, <2>4 DEF Finalized
    <3>2. mem'.phase = "blocked"
      BY <1>1, <3>1 DEF State
    <3> QED
      BY <3>1, <3>2 DEF Planned
  <2>5. CASE ~Executing(mem) /\ Gate(mem) = "blocked"
    <3>1. mem' = mem /\ pc' = "stop"
      BY <2>3, <2>5 DEF Finalized
    <3>2. mem.count >= MaxRevisions /\ mem.count \in Nat
      BY <1>1, <2>5, Limits DEF Gate, State
    <3>3. ~Planned(mem)
      BY <3>2, Limits DEF IInv, StatesInv, Good, Bound
    <3> QED
      BY <3>1, <3>3
  <2>6. CASE ~Executing(mem) /\ Gate(mem) # "blocked"
    <3>1. mem' = mem /\ pc' = "plan" /\ Gate(mem) = "revise"
      BY <2>3, <2>6 DEF Finalized, Gate
    <3>2. Gate(mem)' = Gate(mem)
      BY <2>3, <3>1 DEF Gate, Passed, Verdict
    <3> QED
      BY <2>2, <3>1, <3>2
  <2> QED
    BY <2>4, <2>5, <2>6
<1>5. CASE Plan
  <2>1. mem' = [mem EXCEPT !.phase = "authorization_required",
                           !.epoch = InternalRequest(mem).epoch,
                           !.active = InternalRequest(mem), !.status = "BLOCKED"]
        /\ pc' = "planned"
    BY <1>5 DEF Plan
  <2>2. mem'.phase = "authorization_required" /\ mem'.status = "BLOCKED"
    BY <1>1, <2>1 DEF State
  <2> QED
    BY <2>1, <2>2 DEF Planned
<1>6. CASE SavePlan
  BY <1>6 DEF SavePlan, IInv, CommandInv
<1>7. CASE Revise /\ pc' # "idle"
  <2>1. mem' = mem /\ checks' = checks /\ Revisable(mem)
        /\ pc' = (IF Planned(mem) THEN "execute" ELSE "plan")
    BY <1>7 DEF Revise, calls
  <2>2. Gate(mem)' = Gate(mem)
    BY <2>1 DEF Gate, Passed, Verdict
  <2> QED
    BY <2>1, <2>2 DEF Revisable
<1>8. CASE Exhausted /\ pc' # "idle"
  <2>1. mem' = [mem EXCEPT !.phase = "blocked"] /\ pc' = "stop"
    BY <1>8 DEF Exhausted
  <2>2. mem'.phase = "blocked"
    BY <1>1, <2>1 DEF State
  <2> QED
    BY <2>1, <2>2 DEF Planned
<1>9. CASE Authorize
  <2>1. mem' = mem /\ pc' = "begin" /\ Planned(mem) /\ mem.status = "BLOCKED"
        /\ slots' = IF Slot(mem.active) # {} THEN slots ELSE Append(slots, mem.active)
    BY <1>9 DEF Authorize, IInv, CommandInv
  <2>2. Slot(mem.active)' # {}
    <3>1. CASE slots' = slots /\ Slot(mem.active) # {}
      BY <2>1, <3>1 DEF Slot
    <3>2. CASE slots' = Append(slots, mem.active)
      <4>1. slots \in Seq(Request)
        BY <1>1 DEF TypeInv
      <4>2. Len(slots) + 1 \in DOMAIN slots' /\ slots'[Len(slots) + 1] = mem.active
        BY <3>2, <4>1
      <4> QED
        BY <2>1, <4>2 DEF Slot
    <3> QED
      BY <2>1, <3>1, <3>2
  <2> QED
    BY <2>1, <2>2
<1> QED
  BY <1>2, <1>3, <1>4, <1>5, <1>6, <1>7, <1>8, <1>9
     DEF Next, vars, calls, exchange, Line, Judge, Revision, Handoff, Recovery, Around,
     NotFinalized, Ask, Answer, Keep, Validate, Stop, PackageFile, Deliver, DeliverTexts,
     Delivered, Begin, Asked, Approve, Revise, Exhausted, Start, Receive, AskConclusion,
     Resume, Recover, RecoverFailed, Repair, Revalidate, ProviderRetry, Crash,
     ConclusionHands, ConclusionFiles

\* A command knows what it needs wherever it gets.
LEMMA CommandStep == IInv /\ [Next]_vars => CommandInv'
BY StatusStep, MakingStep, CallStep, GateStep, PlanStep DEF CommandInv

\* The three files of a delivery are written one after the other.
LEMMA DeliveryStep == IInv /\ [Next]_vars => DeliveryInv'
<1> SUFFICES ASSUME IInv, [Next]_vars PROVE DeliveryInv'
  OBVIOUS
<1> USE DEF Save, SaveAndEnd, Leave, End, Goto, Block, Fail, Delivering
<1>1. mem \in State /\ DeliveryInv
      /\ files \in [package : Package, delivery : Package, script : Package]
  BY DEF IInv, TypeInv
<1>2. CASE pc' \notin Delivering
  BY <1>2 DEF DeliveryInv
<1>3. CASE UNCHANGED <<pc, mem, files>>
  BY <1>1, <1>3 DEF DeliveryInv, Contents
<1>4. CASE Approve
  <2> DEFINE s == [mem EXCEPT !.package = Built(mem)]
  <2>1. s \in State
    BY <1>1, ContentsTyped DEF State, IInv
  <2>2. s.package.of = Contents(mem) /\ s.package.final = mem.final /\ s.final = mem.final
        /\ s.art = mem.art /\ s.form = mem.form /\ s.handoff = mem.handoff
    BY <1>1 DEF State, Built
  <2>3. pc' = "package" /\ (mem' = s \/ mem' = [s EXCEPT !.phase = "completed"])
    BY <1>4 DEF Approve, Finalized
  <2> HIDE DEF s
  <2>4. /\ mem'.package = s.package /\ mem'.final = s.final /\ mem'.art = s.art
        /\ mem'.form = s.form /\ mem'.handoff = s.handoff
    BY <2>1, <2>3 DEF State
  <2> QED
    BY <2>2, <2>3, <2>4 DEF DeliveryInv, Contents
<1>5. CASE PackageFile
  <2>1. files' = [files EXCEPT !.package = mem.package] /\ mem' = mem /\ pc = "package"
        /\ pc' = "deliver"
    BY <1>5 DEF PackageFile
  <2>2. files'.package = mem.package
    BY <1>1, <2>1
  <2> QED
    BY <1>1, <2>1, <2>2 DEF DeliveryInv, Contents
<1>6. CASE Deliver
  <2>1. files' = [files EXCEPT !.delivery = mem.package] /\ mem' = mem /\ pc = "deliver"
        /\ pc' = "texts"
    BY <1>6 DEF Deliver, Written
  <2>2. files'.package = files.package /\ files'.delivery = mem.package
    BY <1>1, <2>1
  <2> QED
    BY <1>1, <2>1, <2>2 DEF DeliveryInv, Contents
<1>7. CASE DeliverTexts
  <2>1. files' = [files EXCEPT !.script = mem.package] /\ mem' = mem /\ pc = "texts"
        /\ pc' = "delivered"
    BY <1>7 DEF DeliverTexts, Written
  <2>2. files'.package = files.package /\ files'.delivery = files.delivery
        /\ files'.script = mem.package
    BY <1>1, <2>1
  <2> QED
    BY <1>1, <2>1, <2>2 DEF DeliveryInv, Contents
<1> QED
  BY <1>2, <1>3, <1>4, <1>5, <1>6, <1>7
     DEF Next, vars, ends, Line, Judge, Revision, Handoff, Recovery, Around, NotFinalized,
     Ask, Answer, Keep, Validate, Stop, Delivered, SavePlan, Authorize, Begin, Asked, Plan,
     Unsettled, Revise, Exhausted, Start, Receive, AskConclusion, Resume, Recover,
     RecoverFailed, Repair, Revalidate, ProviderRetry, Crash, ConclusionHands,
     ConclusionFiles

\* The workflow is completed when all three are, and they are not touched then.
LEMMA CompletedStep == IInv /\ [Next]_vars => CompletedIsDelivered'
<1> SUFFICES ASSUME IInv, [Next]_vars, disk'.status = "COMPLETED"
             PROVE  /\ files' = [package |-> disk'.package, delivery |-> disk'.package,
                                 script |-> disk'.package]
                    /\ disk'.package.of = Contents(disk')
                    /\ disk'.package.final = disk'.final
  BY DEF CompletedIsDelivered
<1>1. mem \in State /\ TypeInv
  BY DEF IInv, TypeInv
<1>2. CASE pc' # "idle"
  BY <1>2, StatusStep
<1>3. CASE UNCHANGED <<disk, files>>
  <2>1. CompletedIsDelivered
    BY DEF IInv
  <2> QED
    BY <1>3, <2>1 DEF CompletedIsDelivered
<1>4. CASE Delivered
  <2>1. disk' = [mem EXCEPT !.status = "COMPLETED"] /\ files' = files
    BY <1>4 DEF Delivered, SaveAndEnd, Save, ends
  <2>2. /\ files.package = mem.package /\ files.delivery = mem.package
        /\ files.script = mem.package /\ mem.package.of = Contents(mem)
        /\ mem.package.final = mem.final
    BY <1>4 DEF Delivered, IInv, DeliveryInv, Delivering
  <2>3. files = [package |-> mem.package, delivery |-> mem.package,
                 script |-> mem.package]
    BY <1>1, <2>2 DEF TypeInv
  <2>4. /\ disk'.package = mem.package /\ disk'.final = mem.final /\ disk'.art = mem.art
        /\ disk'.form = mem.form /\ disk'.handoff = mem.handoff
    BY <1>1, <2>1 DEF State
  <2> QED
    BY <2>1, <2>2, <2>3, <2>4 DEF Contents
<1>5. CASE SavePlan \/ Asked
  <2>1. disk' = mem /\ pc # "idle"
    BY <1>5 DEF SavePlan, Asked, SaveAndEnd, Save
  <2> QED
    BY <2>1 DEF IInv, CommandInv
<1>6. CASE Stop
  BY <1>1, <1>6 DEF Stop, Block, SaveAndEnd, Save, State
<1>7. CASE Answer /\ pc' = "idle"
  <2>1. \E f, b : disk' = [[mem EXCEPT !.fault = f, !.again = b] EXCEPT !.status = "FAILED"]
    BY ZenonT(30), <1>7 DEF Answer, Goto, Fail, SaveAndEnd, Save
  <2> QED
    BY <1>1, <2>1 DEF State
<1> QED
  BY <1>2, <1>3, <1>4, <1>5, <1>6, <1>7
     DEF Next, vars, ends, Line, Judge, Revision, Handoff, Recovery, Around, NotFinalized,
     Ask, Keep, Validate, Approve, Unsettled, PackageFile, Deliver, DeliverTexts, Plan,
     Revise, Exhausted, Authorize, Begin, Start, Receive, AskConclusion, Resume, Recover,
     RecoverFailed, Repair, Revalidate, ProviderRetry, Crash, ConclusionHands,
     ConclusionFiles, Goto, Leave, End

-----------------------------------------------------------------------------
(* Theorems.                                                                 *)

\* The invariant is inductive.
THEOREM PlaywrightInvariant == Spec => []IInv
<1>1. Init => IInv
  BY InvInit
<1>2. IInv /\ [Next]_vars => IInv'
  BY TypeStep, MadeStep, ChecksStep, StatesStep, CountsStep, FilesStep, ResultsStep,
     CommandStep, DeliveryStep, CompletedStep DEF IInv
<1> QED
  BY <1>1, <1>2, PTL DEF Spec

\* Ids have their parts.
LEMMA IdsTyped == \A id \in Task : IsId(id)
BY Limits DEF Task, IsId

\* The types of TypeOK, and the numbers it bounds: requests and revisions stay within
\* the limit, also when a budget slot was taken and the command stopped before the
\* request was saved as executing.
THEOREM TypeCorrect == Spec => []TypeOK
<1>1. ASSUME NEW s \in State, inbox.n \in Nat, packages \in Nat, asked \in 0 .. MaxRevisions,
             Counted(s, asked, inbox.n, packages)
      PROVE  StateOK(s)
  <2>1. \A n \in Stages : IsId(s.art[n]) /\ s.art[n].stage \in {0, n}
    BY <1>1, IdsTyped DEF State, Art, Counted
  <2>2. s.handoff \in 0 .. inbox.n /\ s.package.serial <= packages
        /\ s.heard \subseteq s.asked
    BY <1>1 DEF Counted, State
  <2> QED
    BY <2>1, <2>2 DEF StateOK, State, Form
<1>2. IInv => TypeOK
  <2> SUFFICES ASSUME IInv PROVE TypeOK
    OBVIOUS
  <2>1. disk \in State /\ mem \in State /\ inbox.n \in Nat /\ packages \in Nat
        /\ asked \in 0 .. MaxRevisions /\ slots \in Seq(Request)
    BY DEF IInv, TypeInv
  <2>2. StateOK(disk) /\ StateOK(mem)
    BY <1>1, <2>1 DEF IInv, CountsInv
  <2>3. \A id \in paid \union retries : IsId(id)
    BY IdsTyped DEF IInv, TypeInv
  <2>4. {slots[i] : i \in DOMAIN slots} \union noted \subseteq requests
        /\ Len(slots) <= MaxRevisions
    BY DEF IInv, CountsInv
  <2> QED
    BY <2>1, <2>2, <2>3, <2>4, Limits DEF TypeOK
<1> QED
  BY <1>2, PlaywrightInvariant, PTL

\* As long as the providers' ids tell artifacts apart: whatever is remade, restored or
\* repaired, and wherever a command stops, the saved artifacts are each made from the
\* ones before it and from the handoff of the state.
THEOREM CheckpointsFit == Spec => []CheckpointsFitTogether
<1>1. IInv => CheckpointsFitTogether
  BY DEF IInv, StatesInv, Good, Sound, Fits, IsSource, CheckpointsFitTogether, FitsTogether
<1> QED
  BY <1>1, PlaywrightInvariant, PTL

\* No package is written to the delivery that the gate has not approved in the form it
\* has, or whose artifacts refer to others; and none whose artifacts were made from
\* others, or for two handoffs, as long as the ids tell artifacts apart.
THEOREM DeliveriesAreValidated == Spec => []DeliveryWasValidated
<1>1. IInv => DeliveryWasValidated
  <2>1. \A p : Valid(p, made, checks) /\ p.serial > 0 =>
          /\ [of |-> p.of, verdict |-> <<"approved", 0>>] \in checks
          /\ ReferTogether(p.of)
          /\ Unambiguous(made) => FitsTogether(p.of.art, p.of.handoff)
    BY DEF Valid, Fits, IsSource, FitsTogether, Refer, ReferTogether
  <2> QED
    BY <2>1 DEF IInv, FilesInv, DeliveryWasValidated
<1> QED
  BY <1>1, PlaywrightInvariant, PTL

\* When the saved state says COMPLETED, its package is in all three files.
THEOREM CompletedMeansDelivered == Spec => []CompletedIsDelivered
<1>1. IInv => CompletedIsDelivered
  BY DEF IInv
<1> QED
  BY <1>1, PlaywrightInvariant, PTL

\* A result of an internal revision says what the gate said, about the Final Conclusion
\* and the handoff of its request.
THEOREM ResultsTellTheTruth == Spec => []ResultsAreTruthful
<1>1. IInv => ResultsAreTruthful
  <2> SUFFICES ASSUME IInv, NEW x \in results, x.request.route = "internal"
               PROVE  /\ (x.status = "completed") = (Verdict(x.of)[1] = "approved")
                      /\ x.final = x.request.final
                      /\ x.of.handoff = x.request.base.handoff
    BY DEF ResultsAreTruthful
  <2>1. Truthful(x, checks) /\ ChecksInv
    BY DEF IInv, ResultsInv
  <2>2. PICK c \in checks : /\ c.of = x.of
                            /\ x.status = "completed" <=> c.verdict[1] = "approved"
    BY <2>1 DEF Truthful
  <2>3. Verdict(x.of) = c.verdict
    BY <2>1, <2>2, VerdictIs
  <2> QED
    BY <2>1, <2>2, <2>3 DEF Truthful
<1> QED
  BY <1>1, PlaywrightInvariant, PTL

\* A plan that waits for the operator is for the validation that is saved, and there is
\* a revision left for it.
THEOREM PlansAreExecutable == Spec => []PlanIsExecutable
<1>1. IInv => PlanIsExecutable
  BY DEF IInv, StatesInv, Good, Bound, PlanIsExecutable
<1> QED
  BY <1>1, PlaywrightInvariant, PTL
================================================================================
