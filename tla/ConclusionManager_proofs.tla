------------------------- MODULE ConclusionManager_proofs -------------------------
(***************************************************************************)
(* What every state of ConclusionManager keeps, for any limit, whatever    *)
(* ids the providers choose, and for any number of reports, requests,      *)
(* commands and failures.                                                  *)
(*                                                                         *)
(* The saved state and the copy of the command are both Good: each         *)
(* artifact was made from the ones before it unless a revision has         *)
(* borrowed one of them or an id of an evaluation or an integration was    *)
(* repeated, the contents beside a selection are those it was made from,   *)
(* and what is planned is about what is there.                             *)
(***************************************************************************)
EXTENDS ConclusionManager, TLAPS

-----------------------------------------------------------------------------
(* Types.                                                                    *)

Task == [stage : 0 .. 4, up : Nat, rev : Nat, mark : 0 .. 1, retry : BOOLEAN]

Art == [Stages -> Task]

Parts == [1 .. 3 -> Task]

Parcel == [of : Parts, report : Nat, review : Task]

Request == [route : {"none", "internal", "upstream", "playwright"}, epoch : Nat,
            source : Task, first : 0 .. 3,
            impact : {"none", "unchanged", "reselection_required"},
            report : Nat, package : Parcel, final : Nat]

State == [status : Status, report : Nat, art : Art, package : Parcel, valid : BOOLEAN,
          selection : Nat, about : Parts, heard : SUBSET Task, fault : Task,
          again : BOOLEAN, count : 0 .. MaxRevisions, up : Nat, phase : Phase,
          epoch : Nat, active : Request, consumed : SUBSET Request]

Run == [at : 0 .. 5, ids : Art, mark : 0 .. 1]

Artifact(n) == [id : Task, on : [1 .. n - 1 -> Task], report : Nat,
                verdict : {<<"none", 0>>} \union Verdicts]

Check == [of : Parts, passed : BOOLEAN]

Answered == [request : Request, status : {"completed", "partial"}, report : Nat,
             package : Parcel, final : Nat]

TypeInv ==
  /\ disk \in State
  /\ mem \in State
  /\ run \in Run
  /\ paid \subseteq Task
  /\ retries \subseteq Task
  /\ borrowed \subseteq Task
  /\ \A m \in made : \E n \in Stages : m \in Artifact(n)
  /\ checks \subseteq Check
  /\ requests \subseteq Request
  /\ slots \in Seq(Request)
  /\ Len(slots) <= MaxRevisions
  /\ spent \subseteq Request
  /\ adopted \subseteq Request
  /\ results \subseteq Answered
  /\ finals \in Nat
  /\ inbox \in Nat \ {0}
  /\ outbox \in [final : Nat, package : Parcel]

-----------------------------------------------------------------------------

(* A state of the workflow, beside what was made ms, what was borrowed bs,   *)
(* the verdicts of the validator cs and the number of selections fs.         *)

\* A review was asked about contents of these ids.
ByName(m, art, n) == n = 4 => \A k \in 1 .. 3 : Name(m.on[k]) = Name(art[k])

\* m made the artifact of stage n of art: from the ones before it, unless one of
\* them or itself is borrowed, or the ids in ms do not tell them apart.
Stems(m, art, n, ms, bs) ==
  /\ m.id = art[n]
  /\ ByName(m, art, n)
  /\ Unambiguous(ms) => m.on = Before(art, n) \/ \E k \in 2 .. n : art[k] \in bs

\* The artifact of stage n, if there is one, is one that was made there.
Fit(art, n, ms, bs) ==
  art[n] # NoId => art[n].stage = n /\ \E m \in ms : Stems(m, art, n, ms, bs)

\* A review that approves.
Approves(id, ms) == \E m \in ms : m.id = id /\ m.verdict[1] = "approved"

\* The artifacts a package names.
Whole(p) == [n \in Stages |-> IF n = 4 THEN p.review ELSE p.of[n]]

\* The validator agrees with the contents of the package.
Passed(p, cs) == [of |-> p.of, passed |-> TRUE] \in cs

\* A package Playwright may get.
Sealed(p, ms, bs, cs) ==
  /\ \A n \in Stages : Whole(p)[n] # NoId /\ Fit(Whole(p), n, ms, bs)
  /\ Passed(p, cs)
  /\ Approves(p.review, ms)

\* A request asks for what its route allows: Playwright's is about a selection that was
\* made and a package that was sealed.
Proper(r, ms, bs, cs, fs) ==
  /\ r.route # "playwright" => r.impact = "none"
  /\ r.route = "playwright" =>
       r.impact # "none" /\ 0 < r.final /\ r.final <= fs /\ Sealed(r.package, ms, bs, cs)
  /\ r.route \in {"internal", "playwright"} => r.first \in 1 .. 3

\* Positions, evaluation and integration are there.
ContentsMade(s) == \A n \in 1 .. 3 : s.art[n] # NoId

\* No artifact without those before it.
Prefix(s) ==
  \A n \in Stages : s.art[n] # NoId => \A k \in 1 .. n - 1 : s.art[k] # NoId

\* Each answer of the first three stages is a checkpoint.
AllKept(s) ==
  \A id \in s.heard : id.stage = 4 \/ s.art[id.stage] # NoId

\* A revision waits for the operator.
PlanOf(s) == s.phase = "authorization_required"

\* What the artifacts are and what the selection stands for.  A failed run outside of a
\* revision has kept what it heard, so that recover does not restore a selection's
\* contents from anything else.
Sound(s, ms, bs, cs) ==
  /\ \A n \in Stages : Fit(s.art, n, ms, bs)
  /\ Prefix(s)
  /\ \A id \in s.heard : id.stage \in Stages /\ \E m \in ms : m.id = id
  /\ s.valid => Passed(s.package, cs)
  /\ s.selection > 0 =>
       ContentsMade(s) /\ s.package.of = s.about /\ Contents(s) = s.about
  /\ s.status = "FAILED" /\ ~Executing(s) => AllKept(s)

\* What the revision is about: a plan of Playwright's names the package and the selection
\* that are there, and the stages before its first one are kept.
Bound(s, ms, bs, cs, fs) ==
  /\ Proper(s.active, ms, bs, cs, fs)
  /\ PlanOf(s) \/ Executing(s) => s.active.route \in {"internal", "playwright"}
  /\ PlanOf(s) => s.status = "BLOCKED"
  /\ PlanOf(s) /\ s.active.route = "playwright" => Current(s, s.active)
  /\ PlanOf(s) => \A k \in Stages : k < s.active.first => s.art[k] # NoId
  /\ s.status = "WAITING_UPSTREAM_REVISION" => s.active.route = "upstream"
  /\ s.selection <= fs

\* Deliberation has answered with this report.
AnsweredBy(report, rs) ==
  report > 1 => \E x \in rs : /\ x.request.route = "upstream" /\ x.status = "completed"
                              /\ x.report = report

Good(s, ms, bs, cs, fs, rs) ==
  /\ Sound(s, ms, bs, cs)
  /\ Bound(s, ms, bs, cs, fs)
  /\ AnsweredBy(s.report, rs)

\* The package is about the contents, and does not pass beside a selection.
Packed(s) == ContentsMade(s) /\ s.package.of = Contents(s) /\ (s.valid => s.selection = 0)

\* What waits for the human was approved; a review that is given up leaves the contents.
Waits(s, ms) ==
  s.status = "WAITING_HUMAN_SELECTION" =>
    /\ s.selection = 0 /\ s.valid /\ ContentsMade(s)
    /\ s.art[4] # NoId => /\ Approves(s.art[4], ms) /\ s.package.review = s.art[4]
                          /\ s.package.of = Contents(s)

-----------------------------------------------------------------------------
(* What there is beside the state.                                           *)

\* A structural correction is never saved while it is carried out.
StatesInv ==
  /\ Good(disk, made, borrowed, checks, finals, results)
  /\ Good(mem, made, borrowed, checks, finals, results)
  /\ Waits(disk, made)
  /\ Executing(disk) => disk.active.impact # "unchanged"

\* A logical task is paid for once, so that it has brought one artifact, made from
\* artifacts that were made in their turn.
MadeInv ==
  \A m \in made :
    /\ m.id \in paid /\ m.id.stage \in Stages
    /\ m.id.stage = 4 => m.verdict \in Verdicts
    /\ \A m2 \in made : m2.id = m.id => m2 = m
    /\ DOMAIN m.on = 1 .. m.id.stage - 1
    /\ \A k \in 1 .. m.id.stage - 1 :
         m.on[k].stage = k /\ \E m2 \in made : Stems(m2, m.on, k, made, borrowed)

\* What Playwright got, and what it asks about, is sealed.
FilesInv ==
  /\ \A r \in requests : Proper(r, made, borrowed, checks, finals)
  /\ outbox.final <= finals
  /\ outbox.final > 0 => Sealed(outbox.package, made, borrowed, checks)

\* A result that says completed is about an approval, or the selection it is for.
ResultTrue(x, ms) ==
  x.status = "completed" =>
    /\ x.request.route = "internal" => x.package.review # NoId /\ Approves(x.package.review, ms)
    /\ x.request.impact = "unchanged" => x.final = x.request.final
    /\ x.request.impact = "reselection_required" => x.final > x.request.final

ResultsInv == \A x \in results : ResultTrue(x, made)

\* A review is never borrowed.
BorrowedInv == \A id \in borrowed : id.stage # 4

-----------------------------------------------------------------------------
(* What a command knows where it is.                                         *)

Making == {"ask", "answer", "keep"}

Walking == Making \union {"package", "review", "judge", "approved"}

\* The stages before run.at are there and those after it are not; the contents are made
\* again only without a selection.
AtStage ==
  /\ run.at \in Stages
  /\ \A k \in Stages : k < run.at => mem.art[k] # NoId
  /\ \A k \in Stages : k > run.at => mem.art[k] = NoId
  /\ run.at <= 3 => mem.selection = 0
  /\ run.at = 4 => Packed(mem)

\* The artifact that is kept next was made from what is kept.
AtKeep ==
  /\ run.ids[run.at] # NoId
  /\ \E m \in made :
       Stems(m, [mem.art EXCEPT ![run.at] = run.ids[run.at]], run.at, made, borrowed)

\* A command carries out what is planned, reviews what it has packed, sends what was
\* sealed and settles what is executing.
CommandInv ==
  /\ pc = "idle" => mem = disk
  /\ pc \in Walking \union {"send", "sent", "sent_again", "settled"} => ~PlanOf(mem)
  /\ pc \in {"answer", "keep"} => mem.status # "FAILED"
  /\ pc \in Making => AtStage
  /\ \A k \in Stages : run.ids[k] # NoId => run.ids[k].stage = k
  /\ pc \in {"ask", "answer"} /\ ~Executing(mem) => AllKept(mem)
  /\ pc = "keep" => AtKeep /\ (~Executing(mem) => AllKept([mem EXCEPT !.art[run.at] = run.ids[run.at]]))
  /\ pc \in Walking \union {"planned", "activated", "asked", "resumed"} =>
        mem.status # "WAITING_HUMAN_SELECTION" \/ pc = "ask"
  /\ pc = "package" => ContentsMade(mem)
  /\ pc \in {"review", "judge", "approved"} => Packed(mem)
  /\ pc \in {"judge", "approved", "plan"} => mem.art[4] # NoId
  /\ pc = "plan" => OfReview(mem)[1] = "revise"
  /\ pc = "approved" => /\ mem.valid /\ mem.package.review = mem.art[4]
                        /\ Approves(mem.art[4], made)
  /\ pc \in {"planned", "activated", "authorize", "execute", "begin", "resend"} => PlanOf(mem)
  /\ pc = "begin" => mem.active.impact # "unchanged"
  /\ pc = "resend" => mem.active.impact = "unchanged"
  /\ pc = "resent" => /\ Executing(mem) /\ mem.active.impact = "unchanged"
                      /\ mem.selection = mem.active.final
  /\ Executing(mem) /\ pc # "resent" => mem.active.impact # "unchanged"
  /\ pc \in {"send", "sent_again"} /\ ForPlaywright(mem) => mem.selection > mem.active.final
  /\ pc = "sent_again" => ForPlaywright(mem)
  /\ pc = "send" => mem.selection > 0 /\ Sealed(mem.package, made, borrowed, checks)

\* The inductive invariant.
IInv ==
  /\ TypeInv
  /\ MadeInv
  /\ StatesInv
  /\ FilesInv
  /\ ResultsInv
  /\ BorrowedInv
  /\ CommandInv

-----------------------------------------------------------------------------
(* Types of the constants, and the start.                                    *)

\* The limit is a number.
LEMMA Limits == MaxRevisions \in Nat /\ MaxRevisions >= 0
BY LimitAssumption

\* What stands for nothing has the type of what it stands for.
LEMMA NothingTyped ==
  /\ NoId \in Task /\ NoId.stage = 0
  /\ NoPackage \in Parcel
  /\ NoRequest \in Request
  /\ NoRun \in Run
  /\ \A n \in Stages : NoRun.ids[n] = NoId
<1>1. NoId \in Task /\ NoId.stage = 0
  BY DEF NoId, Id, Task
<1>2. NoPackage \in Parcel
  BY <1>1 DEF NoPackage, Parcel, Parts
<1>3. NoRequest \in Request
  BY <1>1, <1>2 DEF NoRequest, Request
<1>4. NoRun \in Run /\ \A n \in Stages : NoRun.ids[n] = NoId
  BY <1>1 DEF NoRun, Run, Art
<1> QED
  BY <1>1, <1>2, <1>3, <1>4

\* The state of a workflow that has not begun.
LEMMA NewTyped == NewState \in State
<1>1. {} \in SUBSET Task /\ 0 \in 0 .. MaxRevisions /\ {} \in SUBSET Request
  BY Limits
<1>2. [n \in Stages |-> NoId] \in Art /\ NoPackage.of \in Parts
  BY NothingTyped DEF Art, Parcel
<1> QED
  BY <1>1, <1>2, NothingTyped DEF NewState, State, Status, Phase

\* A workflow that has not begun is Good.
LEMMA NewGood ==
  ASSUME NEW ms, NEW bs, NEW cs, NEW rs
  PROVE  Good(NewState, ms, bs, cs, 0, rs)
<1> USE DEF NewState
<1>1. \A n \in Stages : NewState.art[n] = NoId
  OBVIOUS
<1>2. Sound(NewState, ms, bs, cs)
  BY <1>1 DEF Sound, Fit, Prefix
<1>3. Bound(NewState, ms, bs, cs, 0)
  BY DEF Bound, PlanOf, Executing, Proper, NoRequest
<1>4. AnsweredBy(NewState.report, rs)
  BY DEF AnsweredBy
<1> QED
  BY <1>2, <1>3, <1>4 DEF Good

\* The invariant holds at the start.
LEMMA InvInit == Init => IInv
<1> SUFFICES ASSUME Init PROVE IInv
  OBVIOUS
<1> USE DEF Init
<1>1. TypeInv
  <2>1. disk \in State /\ mem \in State
    BY NewTyped
  <2>2. slots \in Seq(Request) /\ Len(slots) <= MaxRevisions
    BY Limits
  <2>3. outbox \in [final : Nat, package : Parcel]
    BY NothingTyped
  <2>4. run \in Run
    BY NothingTyped DEF Run
  <2>5. /\ paid \subseteq Task /\ retries \subseteq Task /\ borrowed \subseteq Task
        /\ \A m \in made : \E n \in Stages : m \in Artifact(n)
        /\ checks \subseteq Check /\ requests \subseteq Request /\ spent \subseteq Request
        /\ adopted \subseteq Request /\ results \subseteq Answered
        /\ finals \in Nat /\ inbox \in Nat \ {0}
    OBVIOUS
  <2> QED
    BY <2>1, <2>2, <2>3, <2>4, <2>5 DEF TypeInv
<1>2. MadeInv /\ FilesInv /\ ResultsInv /\ BorrowedInv
  BY DEF MadeInv, FilesInv, ResultsInv, BorrowedInv
<1>3. StatesInv
  <2>1. Waits(NewState, made) /\ ~Executing(NewState)
    BY DEF Waits, NewState, Executing
  <2> QED
    BY <2>1, NewGood DEF StatesInv
<1>4. CommandInv
  <2>1. AtStage
    BY NothingTyped DEF AtStage, NewState, NoRun, Stages
  <2>2. \A k \in Stages : run.ids[k] = NoId
    BY NothingTyped DEF NoRun
  <2>3. AllKept(mem) /\ ~PlanOf(mem) /\ ~Executing(mem)
    BY DEF AllKept, PlanOf, Executing, NewState
  <2> QED
    BY <2>1, <2>2, <2>3 DEF CommandInv, Walking, Making
<1> QED
  BY <1>1, <1>2, <1>3, <1>4 DEF IInv

-----------------------------------------------------------------------------
(* What is on record only grows.                                             *)

Grown ==
  /\ paid \subseteq paid' /\ made \subseteq made' /\ borrowed \subseteq borrowed'
  /\ checks \subseteq checks' /\ requests \subseteq requests' /\ results \subseteq results'
  /\ finals <= finals'

\* No step takes back an id that was paid for, an artifact, a verdict, a request, a
\* result or a selection.
LEMMA RecordsGrow == TypeInv /\ [Next]_vars => Grown
<1> SUFFICES ASSUME TypeInv, [Next]_vars PROVE Grown
  OBVIOUS
<1>1. finals \in Nat
  BY DEF TypeInv
<1>2. finals' = finals \/ finals' = finals + 1
  BY DEF Next, vars, calls, exchange, ends, Line, Judge, Revision, Human, Recovery,
     Around, Ask, Answer, Keep, Package, Review, Approve, WaitForHuman, Overruled, Unsettled,
     Stop, Plan, SavePlan, AskDeliberation, Asked, Resume, Resumed, Revise, Activate, Limit,
     Exhausted, Authorize, Begin, Resend, Resent, Settled, Settle, ProviderRetry, Recover,
     Integrate, Combine, Select, Send, SendFails, SentAgain, Sent, Crash,
     DeliberationFiles, DeliberationHands, PlaywrightAsks
<1>3. /\ paid \subseteq paid' /\ made \subseteq made' /\ borrowed \subseteq borrowed'
      /\ checks \subseteq checks'
  BY DEF Next, vars, calls, exchange, ends, Line, Judge, Revision, Human, Recovery,
     Around, Ask, Answer, Keep, Package, Review, Approve, WaitForHuman, Overruled, Unsettled,
     Stop, Plan, SavePlan, AskDeliberation, Asked, Resume, Resumed, Revise, Activate, Limit,
     Exhausted, Authorize, Begin, Resend, Resent, Settled, Settle, ProviderRetry, Recover,
     Integrate, Combine, Select, Send, SendFails, SentAgain, Sent, Crash,
     DeliberationFiles, DeliberationHands, PlaywrightAsks
<1>4. requests \subseteq requests' /\ results \subseteq results'
  BY DEF Next, vars, calls, exchange, ends, Line, Judge, Revision, Human, Recovery,
     Around, Ask, Answer, Keep, Package, Review, Approve, WaitForHuman, Overruled, Unsettled,
     Stop, Plan, SavePlan, AskDeliberation, Asked, Resume, Resumed, Revise, Activate, Limit,
     Exhausted, Authorize, Begin, Resend, Resent, Settled, Settle, ProviderRetry, Recover,
     Integrate, Combine, Select, Send, SendFails, SentAgain, Sent, Crash,
     DeliberationFiles, DeliberationHands, PlaywrightAsks, WriteResult
<1> QED
  BY <1>1, <1>2, <1>3, <1>4 DEF Grown

\* What an artifact was made from stays so while the records grow.
LEMMA StemsStays ==
  ASSUME NEW ms, NEW ms2, ms \subseteq ms2, NEW bs, NEW bs2, bs \subseteq bs2,
         NEW m, NEW art, NEW n, Stems(m, art, n, ms, bs)
  PROVE  Stems(m, art, n, ms2, bs2)
<1>1. Unambiguous(ms2) => Unambiguous(ms)
  BY DEF Unambiguous
<1> QED
  BY <1>1 DEF Stems

\* So does what there is.
LEMMA FitStays ==
  ASSUME NEW ms, NEW ms2, ms \subseteq ms2, NEW bs, NEW bs2, bs \subseteq bs2,
         NEW art, NEW n, Fit(art, n, ms, bs)
  PROVE  Fit(art, n, ms2, bs2)
BY StemsStays DEF Fit

\* An approval stays one.
LEMMA ApprovesStays ==
  ASSUME NEW ms, NEW ms2, ms \subseteq ms2, NEW id, Approves(id, ms)
  PROVE  Approves(id, ms2)
BY DEF Approves

\* A sealed package stays sealed.
LEMMA SealedStays ==
  ASSUME NEW ms, NEW ms2, ms \subseteq ms2, NEW bs, NEW bs2, bs \subseteq bs2,
         NEW cs, NEW cs2, cs \subseteq cs2, NEW p, Sealed(p, ms, bs, cs)
  PROVE  Sealed(p, ms2, bs2, cs2)
<1>1. \A n \in Stages : Whole(p)[n] # NoId /\ Fit(Whole(p), n, ms2, bs2)
  BY FitStays DEF Sealed
<1>2. Passed(p, cs2) /\ Approves(p.review, ms2)
  BY ApprovesStays DEF Sealed, Passed
<1> QED
  BY <1>1, <1>2 DEF Sealed

\* A proper request stays one.
LEMMA ProperStays ==
  ASSUME NEW ms, NEW ms2, ms \subseteq ms2, NEW bs, NEW bs2, bs \subseteq bs2,
         NEW cs, NEW cs2, cs \subseteq cs2, NEW fs \in Nat, NEW fs2 \in Nat, fs <= fs2,
         NEW r \in Request, Proper(r, ms, bs, cs, fs)
  PROVE  Proper(r, ms2, bs2, cs2, fs2)
<1>1. r.route = "playwright" => Sealed(r.package, ms2, bs2, cs2)
  BY SealedStays DEF Proper
<1>2. r.route = "playwright" => r.final <= fs2
  BY DEF Proper, Request
<1> QED
  BY <1>1, <1>2 DEF Proper

\* A Good state stays Good.
LEMMA GoodStays ==
  ASSUME NEW ms, NEW ms2, ms \subseteq ms2, NEW bs, NEW bs2, bs \subseteq bs2,
         NEW cs, NEW cs2, cs \subseteq cs2, NEW fs \in Nat, NEW fs2 \in Nat, fs <= fs2,
         NEW rs, NEW rs2, rs \subseteq rs2,
         NEW s \in State, Good(s, ms, bs, cs, fs, rs)
  PROVE  Good(s, ms2, bs2, cs2, fs2, rs2)
<1>1. \A n \in Stages : Fit(s.art, n, ms2, bs2)
  BY FitStays DEF Good, Sound
<1>2. Sound(s, ms2, bs2, cs2)
  BY <1>1 DEF Good, Sound, Passed
<1>3. Proper(s.active, ms2, bs2, cs2, fs2)
  BY ProperStays DEF Good, Bound, State
<1>4. s.selection <= fs2
  BY DEF Good, Bound, State
<1>5. Bound(s, ms2, bs2, cs2, fs2)
  BY <1>3, <1>4 DEF Good, Bound
<1>6. AnsweredBy(s.report, rs2)
  BY DEF Good, AnsweredBy
<1> QED
  BY <1>2, <1>5, <1>6 DEF Good

\* A state that waits for the human goes on waiting with its approval.
LEMMA WaitsStays ==
  ASSUME NEW ms, NEW ms2, ms \subseteq ms2, NEW s, Waits(s, ms)
  PROVE  Waits(s, ms2)
BY ApprovesStays DEF Waits

\* A task has brought one artifact, so that a review has one verdict.
LEMMA VerdictIs ==
  ASSUME MadeInv, NEW m \in made
  PROVE  Verdict(m.id) = m.verdict
BY DEF MadeInv, Verdict

\* What a saved review says.
LEMMA ReviewIs ==
  ASSUME MadeInv, NEW s, s.art[4] # NoId, Fit(s.art, 4, made, borrowed)
  PROVE  /\ OfReview(s) \in Verdicts
         /\ OfReview(s)[1] = "approved" <=> Approves(s.art[4], made)
         /\ OfReview(s)[1] = "revise" => OfReview(s)[2] \in 1 .. 3
<1>1. PICK m \in made : m.id = s.art[4]
  BY DEF Fit, Stems
<1>2. m.id.stage = 4
  BY <1>1 DEF Fit
<1>3. OfReview(s) = m.verdict
  BY <1>1, VerdictIs DEF OfReview
<1>4. m.verdict \in Verdicts
  BY <1>2 DEF MadeInv
<1>5. \A m2 \in made : m2.id = s.art[4] => m2 = m
  BY <1>1 DEF MadeInv
<1>6. m.verdict[1] = "revise" => m.verdict[2] \in 1 .. 3
  BY <1>4 DEF Verdicts
<1> QED
  BY <1>1, <1>3, <1>4, <1>5, <1>6 DEF Approves

-----------------------------------------------------------------------------
(* Contents, clearing and restoring.                                         *)

\* Artifacts that agree up to k were made from the same ones up to k.
LEMMA BeforeAgrees ==
  ASSUME NEW art, NEW art2, NEW k \in Stages, \A j \in 1 .. k - 1 : art2[j] = art[j]
  PROVE  Before(art2, k) = Before(art, k)
BY DEF Before, Stages

\* The contents are the artifacts of the first three stages.
LEMMA ContentsAre ==
  ASSUME NEW s \in State
  PROVE  Contents(s) \in Parts /\ \A n \in 1 .. 3 : Contents(s)[n] = s.art[n]
<1>1. s.art \in Art /\ \A n \in 1 .. 3 : n \in Stages
  BY DEF State, Stages
<1>2. Contents(s) = [n \in 1 .. 3 |-> s.art[n]]
  BY DEF Contents, Before
<1> QED
  BY <1>1, <1>2 DEF Art, Parts

\* States with the same first three artifacts have the same contents.
LEMMA ContentsAgree ==
  ASSUME NEW s, NEW t, \A n \in 1 .. 3 : t.art[n] = s.art[n]
  PROVE  Contents(t) = Contents(s) /\ (ContentsMade(t) <=> ContentsMade(s))
<1>1. 4 \in Stages
  BY DEF Stages
<1>2. Before(t.art, 4) = Before(s.art, 4)
  BY <1>1, BeforeAgrees
<1> QED
  BY <1>2 DEF Contents, ContentsMade

\* A package of the contents that carries the review names just the artifacts.
LEMMA WholeIs ==
  ASSUME NEW s \in State, s.package.of = Contents(s), s.package.review = s.art[4]
  PROVE  Whole(s.package) = s.art
<1>1. \A n \in Stages : Whole(s.package)[n] = s.art[n]
  BY ContentsAre DEF Whole, Stages
<1>2. Whole(s.package) = [n \in Stages |-> Whole(s.package)[n]]
  BY DEF Whole
<1>3. s.art = [n \in Stages |-> s.art[n]]
  BY DEF State, Art
<1> QED
  BY <1>1, <1>2, <1>3

\* The state that is left when the artifacts from n on are cleared.
LEMMA ClearedIs ==
  ASSUME NEW s \in State, NEW n \in Stages
  PROVE  /\ Cleared(s, n) \in State
         /\ \A k \in Stages : Cleared(s, n).art[k] = IF k < n THEN s.art[k] ELSE NoId
         /\ Cleared(s, n).package = NoPackage
         /\ Cleared(s, n).valid = FALSE
         /\ Cleared(s, n).selection = 0
         /\ \A f \in {"status", "report", "heard", "phase", "active"} :
              Cleared(s, n)[f] = s[f]
<1> DEFINE ar == [k \in Stages |-> IF k < n THEN s.art[k] ELSE NoId]
<1>1. Cleared(s, n) = [s EXCEPT !.art = ar, !.package = NoPackage, !.valid = FALSE,
                                !.selection = 0, !.about = NoPackage.of]
  BY DEF Cleared, State
<1>2. ar \in Art /\ NoPackage.of \in Parts
  BY NothingTyped DEF State, Art, Parcel
<1>3. \A k \in Stages : ar[k] = IF k < n THEN s.art[k] ELSE NoId
  OBVIOUS
<1> HIDE DEF ar
<1>4. Cleared(s, n) \in State
  <2> DEFINE t == [s EXCEPT !.art = ar, !.package = NoPackage, !.valid = FALSE]
  <2>1. t \in State
    BY <1>2, NothingTyped, ZenonT(30) DEF State
  <2>2. Cleared(s, n) = [t EXCEPT !.selection = 0, !.about = NoPackage.of]
    BY <1>1 DEF State
  <2> HIDE DEF t
  <2>3. [t EXCEPT !.selection = 0, !.about = NoPackage.of] \in State
    BY <1>2, <2>1, ZenonT(30) DEF State
  <2> QED
    BY <2>2, <2>3
<1>5. Cleared(s, n).art = ar /\ Cleared(s, n).package = NoPackage
      /\ Cleared(s, n).valid = FALSE /\ Cleared(s, n).selection = 0
  BY <1>1 DEF State
<1>6. \A f \in {"status", "report", "heard", "phase", "active"} :
        Cleared(s, n)[f] = s[f]
  BY <1>1 DEF State
<1> QED
  BY <1>3, <1>4, <1>5, <1>6

\* What an artifact was made from rests on the artifacts up to it.
LEMMA StemsAlike ==
  ASSUME NEW n \in Stages, NEW m, NEW art, NEW art2, NEW ms, NEW bs,
         \A k \in 1 .. n : art2[k] = art[k], Stems(m, art, n, ms, bs)
  PROVE  Stems(m, art2, n, ms, bs)
<1>1. \A k \in 1 .. n - 1 : art2[k] = art[k]
  BY DEF Stages
<1>2. Before(art2, n) = Before(art, n)
  BY <1>1, BeforeAgrees
<1>3. art2[n] = art[n] /\ \A k \in 2 .. n : art2[k] = art[k]
  BY DEF Stages
<1>4. ByName(m, art2, n)
  <2>1. \A k \in 1 .. 3 : n = 4 => art2[k] = art[k]
    OBVIOUS
  <2> QED
    BY <2>1 DEF Stems, ByName
<1> QED
  BY <1>2, <1>3, <1>4 DEF Stems

\* What was made from what there is.
LEMMA StemsFresh ==
  ASSUME NEW n \in Stages, NEW m, NEW art, NEW ms, NEW bs,
         m.id = art[n], m.on = Before(art, n)
  PROVE  Stems(m, art, n, ms, bs)
<1>1. n = 4 => \A k \in 1 .. 3 : m.on[k] = art[k]
  BY DEF Before
<1> QED
  BY <1>1 DEF Stems, ByName

\* What is left was made as it was.
LEMMA ClearedSound ==
  ASSUME NEW s \in State, NEW n \in Stages, NEW ms, NEW bs, NEW cs,
         Sound(s, ms, bs, cs),
         s.status = "FAILED" /\ ~Executing(s) => AllKept(Cleared(s, n))
  PROVE  Sound(Cleared(s, n), ms, bs, cs)
<1> DEFINE c == Cleared(s, n)
<1>1. \A k \in Stages : c.art[k] = IF k < n THEN s.art[k] ELSE NoId
  BY ClearedIs
<1>2. /\ c.valid = FALSE /\ c.selection = 0 /\ c.status = s.status
      /\ c.heard = s.heard /\ c.phase = s.phase
  BY ClearedIs
<1>3. s.status = "FAILED" /\ ~Executing(s) => AllKept(c)
  OBVIOUS
<1> HIDE DEF c
<1>4. ASSUME NEW k \in Stages, c.art[k] # NoId
      PROVE  /\ c.art[k].stage = k /\ \E m \in ms : Stems(m, c.art, k, ms, bs)
             /\ \A j \in 1 .. k - 1 : c.art[j] # NoId
  <2>1. c.art[k] = s.art[k] /\ \A j \in 1 .. k - 1 : j \in Stages /\ c.art[j] = s.art[j]
    BY <1>1, <1>4 DEF Stages
  <2>3. PICK m \in ms : Stems(m, s.art, k, ms, bs)
    BY <1>4, <2>1 DEF Sound, Fit
  <2>4. \A j \in 1 .. k : c.art[j] = s.art[j]
    BY <2>1 DEF Stages
  <2>5. Stems(m, c.art, k, ms, bs)
    BY <2>3, <2>4, StemsAlike
  <2>6. c.art[k].stage = k
    BY <1>4, <2>1 DEF Sound, Fit
  <2> QED
    BY <1>4, <2>1, <2>5, <2>6 DEF Sound, Prefix
<1>5. Sound(c, ms, bs, cs)
  BY <1>2, <1>3, <1>4 DEF Sound, Fit, Prefix, Executing
<1> QED
  BY <1>5 DEF c

\* Ids that are not repeated tell which evaluation and which integration an answer
\* was made from.
LEMMA NamesTell ==
  ASSUME MadeInv, Unambiguous(made), NEW m \in made, m.id.stage = 4,
         NEW k \in 2 .. 3, NEW art, art[k] # NoId, Fit(art, k, made, borrowed),
         Name(m.on[k]) = Name(art[k])
  PROVE  m.on[k] = art[k]
<1>1. PICK m2 \in made : m2.id = art[k] /\ art[k].stage = k
  BY DEF Fit, Stems
<1>2. k \in 1 .. m.id.stage - 1
  OBVIOUS
<1>3. PICK m3 \in made : m3.id = m.on[k] /\ m.on[k].stage = k
  BY <1>2 DEF MadeInv, Stems
<1> QED
  BY <1>1, <1>3 DEF Unambiguous

\* A review that matches is about what there is, unless that is borrowed or the ids are
\* repeated: it names the evaluation, which was made from the positions, and the
\* integration.
LEMMA ReviewStems ==
  ASSUME TypeInv, MadeInv, NEW s, NEW m \in made, m.id.stage = 4, Matches(s, m),
         Unambiguous(made),
         \A k \in 2 .. 3 : s.art[k] # NoId /\ Fit(s.art, k, made, borrowed)
  PROVE  m.on = Before(s.art, 4) \/ \E k \in 2 .. 3 : s.art[k] \in borrowed
<1> SUFFICES ASSUME s.art[2] \notin borrowed
             PROVE  m.on = Before(s.art, 4)
  OBVIOUS
<1>1. m.on[2] = s.art[2] /\ m.on[3] = s.art[3]
  <2>1. \A k \in 2 .. 3 : k \in 1 .. 3 /\ Name(m.on[k]) = Name(s.art[k])
    BY DEF Matches, Agree
  <2>2. \A k \in 2 .. 3 : m.on[k] = s.art[k]
    BY <2>1, NamesTell
  <2> QED
    BY <2>2
<1>2. PICK j \in Stages : m \in Artifact(j)
  BY DEF TypeInv
<1>3. m.on = [k \in 1 .. 3 |-> m.on[k]]
  <2>1. m.on = [k \in 1 .. j - 1 |-> m.on[k]]
    BY <1>2 DEF Artifact
  <2>2. DOMAIN m.on = 1 .. 3
    <3>1. DOMAIN m.on = 1 .. m.id.stage - 1
      BY DEF MadeInv
    <3> QED
      BY <3>1
  <2>3. DOMAIN m.on = 1 .. j - 1
    BY <2>1
  <2> QED
    BY <2>1, <2>2, <2>3
<1>4. PICK m2 \in made : Stems(m2, s.art, 2, made, borrowed)
  <2>1. s.art[2] # NoId /\ Fit(s.art, 2, made, borrowed)
    OBVIOUS
  <2> QED
    BY <2>1 DEF Fit
<1>5. PICK m3 \in made : Stems(m3, m.on, 2, made, borrowed)
  <2>1. 2 \in 1 .. m.id.stage - 1
    OBVIOUS
  <2> QED
    BY <2>1 DEF MadeInv
<1>6. m3 = m2
  BY <1>1, <1>4, <1>5 DEF Stems, MadeInv
<1>7. m2.on = Before(s.art, 2) /\ m3.on = Before(m.on, 2)
  <2>1. \A k \in 2 .. 2 : k = 2
    OBVIOUS
  <2> QED
    BY <1>1, <1>4, <1>5, <2>1 DEF Stems
<1>8. Before(s.art, 2)[1] = s.art[1] /\ Before(m.on, 2)[1] = m.on[1]
  BY DEF Before
<1>9. \A k \in 1 .. 3 : m.on[k] = s.art[k]
  BY <1>1, <1>6, <1>7, <1>8
<1>10. Before(s.art, 4) = [k \in 1 .. 3 |-> s.art[k]]
  BY DEF Before
<1> QED
  BY <1>3, <1>9, <1>10

\* A review that matches bears the ids of what there is.
LEMMA ReviewByName ==
  ASSUME NEW s, NEW m, m.id.stage = 4, Matches(s, m)
  PROVE  ByName(m, s.art, 4)
BY DEF Matches, Agree, ByName

\* What is restored is an answer to a task of its stage.
LEMMA RestorableIs ==
  ASSUME NEW s \in State, NEW n \in Stages
  PROVE  LET id == Restorable(s, n)
         IN id # NoId => id \in s.heard /\ id.stage = n /\ id \in Task
<1> DEFINE answered == {id \in Recoverable(s, n) : id \in s.heard}
           retried == {id \in answered : id.retry}
<1>1. \A id \in Recoverable(s, n) : id.stage = n
  BY DEF Recoverable, LogicalId, Id, RetryOf
<1>2. Restorable(s, n) # NoId => Restorable(s, n) \in answered
  BY DEF Restorable
<1> QED
  BY <1>1, <1>2 DEF State

\* What the restoring has made of s after n stages.
Restoring(s, t, n) ==
  /\ t = [state |-> t.state, goes |-> t.goes]
  /\ t.state \in State /\ t.goes \in BOOLEAN
  /\ t.state = [s EXCEPT !.art = t.state.art]
  /\ Prefix(t.state)
  /\ \A k \in Stages : s.art[k] # NoId => t.state.art[k] = s.art[k]
  /\ \A k \in Stages : s.art[k] = NoId /\ t.state.art[k] # NoId =>
       /\ k <= n /\ t.state.art[k] \in s.heard /\ t.state.art[k].stage = k
       /\ k = 4 => \A m \in made : m.id = t.state.art[k] => Matches(t.state, m)
  /\ t.goes => \A k \in 1 .. n : t.state.art[k] # NoId

\* One stage of the restoring keeps that.
LEMMA RestoreStageIs ==
  ASSUME NEW s \in State, NEW n \in Stages, NEW t, Restoring(s, t, n - 1)
  PROVE  Restoring(s, RestoreStage(t, n), n)
<1> DEFINE st == t.state
           id == Restorable(st, n)
           u == RestoreStage(t, n)
           ar == [st.art EXCEPT ![n] = id]
<1>1. st \in State /\ st.heard = s.heard /\ t = [state |-> st, goes |-> t.goes]
  BY DEF Restoring, State
<1>2. CASE st.art[n] # NoId
  <2>1. u = t
    BY <1>2 DEF RestoreStage
  <2>2. t.goes => \A k \in 1 .. n : st.art[k] # NoId
    BY <1>2 DEF Restoring, Stages
  <2>3. \A k \in Stages : k <= n - 1 => k <= n
    BY DEF Stages
  <2> QED
    BY <2>1, <2>2, <2>3 DEF Restoring
<1>3. CASE st.art[n] = NoId /\ ~(t.goes /\ id # NoId /\ Fits(st, id))
  <2>1. u = [t EXCEPT !.goes = FALSE]
    BY <1>3 DEF RestoreStage
  <2>2. u = [state |-> st, goes |-> FALSE]
    BY <1>1, <2>1
  <2>3. \A k \in Stages : k <= n - 1 => k <= n
    BY DEF Stages
  <2> QED
    BY <2>2, <2>3 DEF Restoring
<1>4. CASE st.art[n] = NoId /\ t.goes /\ id # NoId /\ Fits(st, id)
  <2>1. u = [t EXCEPT !.state = [st EXCEPT !.art = ar]]
    BY <1>1, <1>4 DEF RestoreStage, State
  <2>2. u = [state |-> [st EXCEPT !.art = ar], goes |-> TRUE]
    BY <1>1, <1>4, <2>1
  <2>3. id \in s.heard /\ id.stage = n /\ id \in Task
    BY <1>1, <1>4, RestorableIs
  <2>4. ar \in Art
    BY <1>1, <2>3 DEF State, Art
  <2>5. \A k \in Stages : ar[k] = IF k = n THEN id ELSE st.art[k]
    BY <1>1 DEF State, Art
  <2>6. \A k \in 1 .. n - 1 : k \in Stages /\ st.art[k] # NoId
    BY <1>4 DEF Restoring, Stages
  <2>7. \A m \in made : m.id = id => Matches(st, m)
    BY <1>4 DEF Fits
  <2>8. s.art[n] = NoId
    BY <1>4 DEF Restoring
  <2> HIDE DEF ar, id
  <2> DEFINE v == [st EXCEPT !.art = ar]
  <2>9. v \in State /\ v.art = ar
    BY <1>1, <2>4 DEF State
  <2>10. v = [s EXCEPT !.art = ar]
    BY <1>1 DEF Restoring, State
  <2>11. u.state = v /\ u.goes = TRUE /\ u = [state |-> u.state, goes |-> u.goes]
    BY <2>2
  <2> HIDE DEF v, u
  <2>12. Prefix(v)
    <3>1. ASSUME NEW k \in Stages, ar[k] # NoId, NEW j \in 1 .. k - 1
          PROVE  ar[j] # NoId
      <4>1. j \in Stages /\ j < k
        BY <3>1 DEF Stages
      <4>2. CASE k = n
        <5>1. j \in 1 .. n - 1 /\ j # n
          BY <3>1, <4>1, <4>2 DEF Stages
        <5> QED
          BY <2>5, <2>6, <4>1, <5>1
      <4>3. CASE k # n
        <5>1. st.art[k] # NoId
          BY <2>5, <3>1, <4>3
        <5>2. st.art[j] # NoId
          BY <3>1, <5>1 DEF Restoring, Prefix
        <5> QED
          BY <1>4, <2>5, <4>1, <5>2
      <4> QED
        BY <4>2, <4>3
    <3> QED
      BY <2>9, <3>1 DEF Prefix
  <2>13. \A k \in Stages : s.art[k] # NoId => ar[k] = s.art[k]
    BY <2>5, <2>8 DEF Restoring
  <2>14. \A k \in 1 .. n : ar[k] # NoId
    BY <1>4, <2>5, <2>6 DEF Stages
  <2>15. ASSUME NEW k \in Stages, s.art[k] = NoId, ar[k] # NoId
         PROVE  /\ k <= n /\ ar[k] \in s.heard /\ ar[k].stage = k
                /\ k = 4 => \A m \in made : m.id = ar[k] => Matches(v, m)
    <3>1. CASE k # n
      <4>1. st.art[k] # NoId /\ st.art[k] = ar[k]
        BY <2>5, <2>15, <3>1
      <4>2. k <= n - 1 /\ ar[k] \in s.heard /\ ar[k].stage = k
        BY <2>15, <4>1 DEF Restoring
      <4> QED
        BY <4>2 DEF Stages
    <3>2. CASE k = n
      <4>1. ar[k] = id
        BY <2>5, <3>2
      <4>2. ASSUME k = 4, NEW m \in made, m.id = id
            PROVE  Matches(v, m)
        <5>1. \A j \in 1 .. 3 : ar[j] = st.art[j]
          BY <2>5, <3>2, <4>2 DEF Stages
        <5>2. Matches(st, m) /\ m.id.stage = 4
          BY <2>3, <2>7, <3>2, <4>2
        <5> QED
          BY <2>9, <5>1, <5>2 DEF Matches, Agree
      <4> QED
        BY <2>3, <3>2, <4>1, <4>2 DEF Stages
    <3> QED
      BY <3>1, <3>2
  <2>16. Restoring(s, u, n)
    <3>1. u.state.art = ar /\ u.state \in State /\ u.goes \in BOOLEAN
      BY <2>9, <2>11
    <3>2. u.state = [s EXCEPT !.art = u.state.art] /\ Prefix(u.state)
      BY <2>10, <2>11, <2>12, <3>1
    <3>3. \A k \in Stages : s.art[k] = NoId /\ u.state.art[k] # NoId =>
            /\ k <= n /\ u.state.art[k] \in s.heard /\ u.state.art[k].stage = k
            /\ k = 4 => \A m \in made : m.id = u.state.art[k] => Matches(u.state, m)
      BY <2>11, <2>15, <3>1
    <3> QED
      BY <2>11, <2>13, <2>14, <3>1, <3>2, <3>3 DEF Restoring
  <2> QED
    BY <2>16 DEF u
<1> QED
  BY <1>2, <1>3, <1>4

\* Nothing but the artifacts tells what is restored from what there was: those there
\* were, and answers of their stage, of which a review matches what it is about.
LEMMA RestoredIs ==
  ASSUME NEW s \in State, Prefix(s)
  PROVE  LET u == Restored(s)
         IN /\ u \in State /\ u = [s EXCEPT !.art = u.art] /\ Prefix(u)
            /\ \A k \in Stages : s.art[k] # NoId => u.art[k] = s.art[k]
            /\ \A k \in Stages : s.art[k] = NoId /\ u.art[k] # NoId =>
                 /\ u.art[k] \in s.heard /\ u.art[k].stage = k
                 /\ k = 4 => \A m \in made : m.id = u.art[k] => Matches(u, m)
<1> DEFINE t0 == [state |-> s, goes |-> TRUE]
           t1 == RestoreStage(t0, 1)
           t2 == RestoreStage(t1, 2)
           t3 == RestoreStage(t2, 3)
           t4 == RestoreStage(t3, 4)
<1>1. Restoring(s, t0, 0)
  <2>1. s = [s EXCEPT !.art = s.art]
    BY DEF State
  <2> QED
    BY <2>1 DEF Restoring
<1> HIDE DEF t0
<1>2. Restoring(s, t1, 1)
  <2>1. 1 \in Stages /\ 1 - 1 = 0
    BY DEF Stages
  <2> QED
    BY <1>1, <2>1, RestoreStageIs
<1> HIDE DEF t1
<1>3. Restoring(s, t2, 2)
  <2>1. 2 \in Stages /\ 2 - 1 = 1
    BY DEF Stages
  <2> QED
    BY <1>2, <2>1, RestoreStageIs
<1> HIDE DEF t2
<1>4. Restoring(s, t3, 3)
  <2>1. 3 \in Stages /\ 3 - 1 = 2
    BY DEF Stages
  <2> QED
    BY <1>3, <2>1, RestoreStageIs
<1> HIDE DEF t3
<1>5. Restoring(s, t4, 4)
  <2>1. 4 \in Stages /\ 4 - 1 = 3
    BY DEF Stages
  <2> QED
    BY <1>4, <2>1, RestoreStageIs
<1>6. Restored(s) = t4.state
  BY DEF Restored, t0, t1, t2, t3, t4
<1> QED
  BY <1>5, <1>6 DEF Restoring

\* The next stage is the one after those that are there.
LEMMA NextStageIs ==
  ASSUME NEW s \in State, Prefix(s)
  PROVE  LET n == NextStage(s)
         IN /\ n \in 1 .. 5
            /\ n = 5 => \A k \in Stages : s.art[k] # NoId
            /\ n # 5 => n \in Stages /\ \A k \in Stages : s.art[k] # NoId <=> k < n
<1> DEFINE Is(n) == s.art[n] = NoId /\ \A k \in 1 .. n - 1 : s.art[k] # NoId
<1>1. CASE \A n \in Stages : s.art[n] # NoId
  BY <1>1 DEF NextStage
<1>2. CASE ~ \A n \in Stages : s.art[n] # NoId
  <2>1. \E n \in Stages : Is(n)
    <3>1. \/ s.art[1] = NoId
          \/ s.art[1] # NoId /\ s.art[2] = NoId
          \/ s.art[1] # NoId /\ s.art[2] # NoId /\ s.art[3] = NoId
          \/ s.art[1] # NoId /\ s.art[2] # NoId /\ s.art[3] # NoId /\ s.art[4] = NoId
      BY <1>2 DEF Stages
    <3>2. Is(1) \/ Is(2) \/ Is(3) \/ Is(4)
      BY <3>1
    <3> QED
      BY <3>2 DEF Stages
  <2>2. NextStage(s) = CHOOSE n \in Stages : Is(n)
    BY <1>2 DEF NextStage
  <2>3. NextStage(s) \in Stages /\ Is(NextStage(s))
    BY <2>1, <2>2
  <2>4. ASSUME NEW n \in Stages, Is(n), NEW k \in Stages
        PROVE  s.art[k] # NoId <=> k < n
    <3>1. CASE k < n
      BY <2>4, <3>1 DEF Stages
    <3>2. CASE k = n
      BY <2>4, <3>2 DEF Stages
    <3>3. CASE k > n
      <4>1. n \in 1 .. k - 1
        BY <3>3 DEF Stages
      <4> QED
        BY <2>4, <3>3, <4>1 DEF Prefix, Stages
    <3> QED
      BY <3>1, <3>2, <3>3 DEF Stages
  <2> HIDE DEF Is
  <2> QED
    BY <2>3, <2>4 DEF Stages
<1> QED
  BY <1>1, <1>2

-----------------------------------------------------------------------------
(* The pieces of the actions.                                                *)

\* The task of a stage has its number.
LEMMA StageIdIs ==
  ASSUME TypeInv, CommandInv, NEW n \in Stages
  PROVE  StageId(n) \in Task /\ StageId(n).stage = n /\ StageId(n) # NoId
<1>1. /\ run.ids[n] \in Task /\ run.mark \in 0 .. 1 /\ mem.up \in Nat
      /\ mem.count \in 0 .. MaxRevisions
  BY DEF TypeInv, Run, Art, State
<1>2. run.ids[n] # NoId => run.ids[n].stage = n
  BY DEF CommandInv
<1>3. LogicalId(mem, n, run.mark) \in Task /\ LogicalId(mem, n, run.mark).stage = n
  BY <1>1, Limits DEF LogicalId, Id, Task, Stages
<1>4. n # 0
  BY DEF Stages
<1> QED
  BY <1>1, <1>2, <1>3, <1>4, NothingTyped DEF StageId

\* What a call brings is an artifact of its stage.
LEMMA BroughtTyped ==
  ASSUME TypeInv, NEW id \in Task, id.stage \in Stages, NEW m \in Brought(id)
  PROVE  /\ m \in Artifact(id.stage) /\ m.id = id /\ m.on = Before(mem.art, id.stage)
         /\ id.stage = 4 => m.verdict \in Verdicts
<1> DEFINE V == IF id.stage = 4 THEN Verdicts ELSE {<<"none", 0>>}
<1>1. V \subseteq {<<"none", 0>>} \union Verdicts
  OBVIOUS
<1>2. Brought(id) =
        {[id |-> id, on |-> Before(mem.art, id.stage), report |-> mem.report,
          verdict |-> v] : v \in V}
  BY DEF Brought
<1> HIDE DEF V
<1>3. PICK v \in V :
        m = [id |-> id, on |-> Before(mem.art, id.stage), report |-> mem.report,
             verdict |-> v]
  BY <1>2
<1>4. mem.report \in Nat /\ mem.art \in Art
  BY DEF TypeInv, State
<1>5. Before(mem.art, id.stage) \in [1 .. id.stage - 1 -> Task]
  BY <1>4 DEF Before, Art, Stages
<1> QED
  BY <1>1, <1>3, <1>4, <1>5 DEF Artifact, V

\* The end of a revision changes how far it is, nothing else.
LEMMA FinalizedIs ==
  ASSUME NEW s \in State, NEW how
  PROVE  LET t == Finalized(s, how)
         IN /\ t \in State /\ ~Executing(t) /\ (PlanOf(t) <=> PlanOf(s))
            /\ \A f \in {"status", "report", "art", "package", "valid", "selection", "about",
                         "heard", "active"} : t[f] = s[f]
<1> DEFINE ph == IF how = "completed" THEN "completed" ELSE "blocked"
           co == s.consumed \union {s.active}
           u == [s EXCEPT !.phase = ph, !.consumed = co]
<1>1. ph \in Phase /\ ph \notin {"executing", "authorization_required"} /\ co \in SUBSET Request
  BY DEF State, Phase
<1>2. Finalized(s, how) = IF ~Executing(s) THEN s ELSE u
  BY DEF Finalized
<1> HIDE DEF ph, co
<1>3. u \in State /\ u.phase = ph
  BY <1>1, ZenonT(30) DEF State
<1>4. \A f \in {"status", "report", "art", "package", "valid", "selection", "about",
                "heard", "active"} : u[f] = s[f]
  BY DEF State
<1> HIDE DEF u
<1> QED
  BY <1>1, <1>2, <1>3, <1>4 DEF Executing, PlanOf

\* A planned revision.
LEMMA PlannedIs ==
  ASSUME NEW s \in State, NEW r \in Request
  PROVE  LET t == Planned(s, r)
         IN /\ t \in State /\ t.phase = "authorization_required" /\ t.active = r
            /\ t.status = "BLOCKED"
            /\ \A f \in {"report", "art", "package", "valid", "selection", "about", "heard"} :
                 t[f] = s[f]
<1>1. r.epoch \in Nat /\ "authorization_required" \in Phase /\ "BLOCKED" \in Status
  BY DEF Request, Phase, Status
<1>2. Planned(s, r) = [s EXCEPT !.phase = "authorization_required", !.epoch = r.epoch,
                                !.active = r, !.status = "BLOCKED"]
  BY DEF Planned
<1>3. Planned(s, r) \in State
  BY <1>1, <1>2, ZenonT(30) DEF State
<1>4. /\ Planned(s, r).phase = "authorization_required" /\ Planned(s, r).active = r
      /\ Planned(s, r).status = "BLOCKED"
  BY <1>2 DEF State
<1>5. \A f \in {"report", "art", "package", "valid", "selection", "about", "heard"} :
        Planned(s, r)[f] = s[f]
  BY <1>2 DEF State
<1> QED
  BY <1>3, <1>4, <1>5

\* The request of an internal revision is about the review that asks for it.
LEMMA InternalRequestIs ==
  ASSUME IInv, pc = "plan"
  PROVE  LET r == InternalRequest(mem)
         IN r \in Request /\ r.route = "internal" /\ r.impact = "none" /\ r.first \in 1 .. 3
<1> DEFINE f == OfReview(mem)[2]
           e == Maximum(mem.epoch, mem.count) + 1
           p == mem.package
           rp == mem.report
           a == mem.art[4]
<1>1. mem \in State /\ mem.art[4] # NoId /\ OfReview(mem)[1] = "revise"
  BY DEF IInv, TypeInv, CommandInv
<1>2. Fit(mem.art, 4, made, borrowed)
  BY DEF IInv, StatesInv, Good, Sound, Stages
<1>3. f \in 1 .. 3
  BY <1>1, <1>2, ReviewIs DEF IInv
<1>4. e \in Nat /\ p \in Parcel /\ rp \in Nat /\ a \in Task
  BY <1>1, Limits DEF State, Maximum, Art, Stages
<1>5. InternalRequest(mem) =
        Base(mem, [NoRequest EXCEPT !.route = "internal", !.source = a, !.epoch = e,
                                    !.first = f])
  BY DEF InternalRequest
<1>6. Base(mem, [NoRequest EXCEPT !.route = "internal", !.source = a, !.epoch = e,
                                  !.first = f])
        = [[NoRequest EXCEPT !.route = "internal", !.source = a, !.epoch = e, !.first = f]
             EXCEPT !.report = rp, !.package = p]
  BY DEF Base
<1>7. f \in 0 .. 3 /\ 0 \in Nat
  BY <1>3
<1> HIDE DEF f, e, p, rp, a
<1>8. InternalRequest(mem) =
        [route |-> "internal", epoch |-> e, source |-> a, first |-> f, impact |-> "none",
         report |-> rp, package |-> p, final |-> 0]
  BY <1>5, <1>6, ZenonT(30) DEF NoRequest
<1> DEFINE q == InternalRequest(mem)
<1>9. q = [route |-> "internal", epoch |-> e, source |-> a, first |-> f, impact |-> "none",
           report |-> rp, package |-> p, final |-> 0]
  BY <1>8
<1> HIDE DEF q
<1>10. q \in Request
  BY <1>4, <1>7, <1>9, ZenonT(30) DEF Request
<1>11. q.route = "internal" /\ q.impact = "none" /\ q.first = f
  BY <1>9
<1> QED
  BY <1>3, <1>10, <1>11 DEF q

\* The request for a new result of Deliberation.
LEMMA AskDeliberationIs ==
  ASSUME IInv, AskDeliberation
  PROVE  \/ Leave("refused") /\ UNCHANGED requests
         \/ \E r \in Request :
              /\ r.route = "upstream" /\ r.impact = "none"
              /\ requests' = requests \union {r}
              /\ mem' = [mem EXCEPT !.up = mem.up + 1,
                                    !.status = "WAITING_UPSTREAM_REVISION",
                                    !.phase = "waiting_upstream_result",
                                    !.epoch = r.epoch, !.active = r]
              /\ UNCHANGED <<disk, run>>
<1> DEFINE e == Maximum(mem.epoch, mem.up) + 1
           p == mem.package
           rp == mem.report
           a == mem.art[4]
           r == Base(mem, [NoRequest EXCEPT !.route = "upstream", !.source = a, !.epoch = e])
<1>1. mem \in State
  BY DEF IInv, TypeInv
<1>2. e \in Nat /\ p \in Parcel /\ rp \in Nat /\ a \in Task
  BY <1>1, Limits DEF State, Maximum, Art, Stages
<1>3. \/ Leave("refused") /\ UNCHANGED requests
      \/ /\ requests' = requests \union {r}
         /\ mem' = [mem EXCEPT !.up = mem.up + 1, !.status = "WAITING_UPSTREAM_REVISION",
                               !.phase = "waiting_upstream_result", !.epoch = r.epoch,
                               !.active = r]
         /\ UNCHANGED <<disk, run>>
  BY DEF AskDeliberation
<1>4. r = [[NoRequest EXCEPT !.route = "upstream", !.source = a, !.epoch = e]
             EXCEPT !.report = rp, !.package = p]
  BY DEF Base
<1> HIDE DEF e, p, rp, a, r
<1>5. r = [route |-> "upstream", epoch |-> e, source |-> a, first |-> 0, impact |-> "none",
           report |-> rp, package |-> p, final |-> 0]
  BY <1>4 DEF NoRequest
<1>6. 0 \in 0 .. 3 /\ 0 \in Nat
  OBVIOUS
<1>7. r \in Request /\ r.route = "upstream" /\ r.impact = "none"
  BY <1>2, <1>5, <1>6, ZenonT(30) DEF Request
<1> QED
  BY <1>3, <1>7

\* The revision that takes over what Deliberation has answered.
LEMMA ResumeIs ==
  ASSUME IInv, Resume
  PROVE  \/ Leave("refused") /\ UNCHANGED <<requests, results>>
         \/ \E r \in Request :
              /\ r.route = "internal" /\ r.impact = "none" /\ r.first = 1
              /\ requests' = requests \union {r}
              /\ mem' = [Planned(mem, r) EXCEPT !.report = inbox,
                                                !.consumed = @ \union {mem.active}]
              /\ mem.status = "WAITING_UPSTREAM_REVISION" /\ mem.selection = 0
              /\ \A x \in ResultsOf(mem.active) : Answers(x)
              /\ results' = IF ResultsOf(mem.active) # {} THEN results
                            ELSE results \union {Reply(mem.active, "completed", inbox)}
              /\ UNCHANGED <<disk, run>>
<1> DEFINE e == mem.active.epoch + 1
           p == mem.package
           a == mem.active.source
           r == [NoRequest EXCEPT !.route = "internal", !.epoch = e, !.source = a,
                                  !.first = 1, !.report = inbox, !.package = p]
<1>1. mem \in State /\ inbox \in Nat
  BY DEF IInv, TypeInv
<1>2. e \in Nat /\ p \in Parcel /\ a \in Task
  BY <1>1 DEF State, Request
<1>3. \/ Leave("refused") /\ UNCHANGED <<requests, results>>
      \/ /\ requests' = requests \union {r}
         /\ mem' = [Planned(mem, r) EXCEPT !.report = inbox,
                                           !.consumed = @ \union {mem.active}]
         /\ mem.status = "WAITING_UPSTREAM_REVISION" /\ mem.selection = 0
         /\ \A x \in ResultsOf(mem.active) : Answers(x)
         /\ results' = IF ResultsOf(mem.active) # {} THEN results
                       ELSE results \union {Reply(mem.active, "completed", inbox)}
         /\ UNCHANGED <<disk, run>>
  BY DEF Resume
<1>9. r = [NoRequest EXCEPT !.route = "internal", !.epoch = e, !.source = a,
                            !.first = 1, !.report = inbox, !.package = p]
  OBVIOUS
<1> HIDE DEF e, p, a, r
<1>4. r = [route |-> "internal", epoch |-> e, source |-> a, first |-> 1, impact |-> "none",
           report |-> inbox, package |-> p, final |-> 0]
  BY <1>9 DEF NoRequest
<1>5. 1 \in 0 .. 3 /\ 0 \in Nat
  OBVIOUS
<1>6. r \in Request /\ r.route = "internal" /\ r.impact = "none" /\ r.first = 1
  BY <1>1, <1>2, <1>4, <1>5, ZenonT(30) DEF Request
<1> QED
  BY <1>3, <1>6

\* A budget slot is a number up to the limit.
LEMMA SlotIs ==
  ASSUME TypeInv, NEW r, Slot(r) # {}
  PROVE  (CHOOSE i \in Slot(r) : TRUE) \in 1 .. MaxRevisions
<1>1. slots \in Seq(Request) /\ Len(slots) <= MaxRevisions
  BY DEF TypeInv
<1>2. DOMAIN slots = 1 .. Len(slots) /\ Len(slots) \in Nat
  BY <1>1
<1>3. Slot(r) \subseteq 1 .. MaxRevisions
  BY <1>1, <1>2, Limits DEF Slot
<1> QED
  BY <1>3

\* What recover goes on from.
LEMMA RecoverIs ==
  ASSUME IInv, Recover
  PROVE  \/ Leave("refused") /\ UNCHANGED borrowed
         \/ \E n \in 1 .. 5 :
              /\ mem.status = "FAILED" /\ n = NextStage(Restored(mem))
              /\ \/ mem' = Restored(mem) /\ Suspect(mem, n) = NoId
                 \/ /\ n \in Stages /\ mem' = Cleared(Restored(mem), n)
                    /\ Suspect(mem, n) = mem.fault /\ mem.fault # NoId /\ mem.fault.stage = n
              /\ disk' = mem'
              /\ run' = [NoRun EXCEPT !.at = n,
                     !.ids = IF Suspect(mem, n) = NoId
                             THEN [NoRun.ids EXCEPT
                                     ![4] = IF 4 \in RestoredStages(mem)
                                            THEN Restored(mem).art[4] ELSE NoId]
                             ELSE [NoRun.ids EXCEPT ![n] = RetryOf(mem.fault)]]
              /\ borrowed' = borrowed \union
                   {Restored(mem).art[k] :
                      k \in IF Executing(mem) THEN RestoredStages(mem) \ {4} ELSE {}}
              /\ pc' = (IF n <= 3 THEN "ask" ELSE "package")
<1> DEFINE n == NextStage(Restored(mem))
           ids == [NoRun.ids EXCEPT ![4] = IF 4 \in RestoredStages(mem)
                                           THEN Restored(mem).art[4] ELSE NoId]
           s == Restored(mem)
<1>1. mem \in State /\ Prefix(mem)
  BY DEF IInv, TypeInv, StatesInv, Good, Sound
<1>2. s \in State /\ Prefix(s)
  BY <1>1, RestoredIs
<1>3. n \in 1 .. 5 /\ (n # 5 => n \in Stages)
  BY <1>2, NextStageIs
<1> HIDE DEF n, s, ids
<1>9. n = NextStage(s) /\ s = Restored(mem)
      /\ ids = [NoRun.ids EXCEPT ![4] = IF 4 \in RestoredStages(mem)
                                         THEN s.art[4] ELSE NoId]
  BY DEF n, s, ids
<1>4. \/ Leave("refused") /\ UNCHANGED borrowed
      \/ /\ mem.status = "FAILED" /\ CanGoOn(mem, n)
         /\ Save(IF Suspect(mem, n) = NoId THEN s ELSE Cleared(s, n))
         /\ run' = [NoRun EXCEPT !.at = n,
                      !.ids = IF Suspect(mem, n) = NoId THEN ids
                              ELSE [NoRun.ids EXCEPT ![n] = RetryOf(Suspect(mem, n))]]
         /\ borrowed' = borrowed \union
              {s.art[k] : k \in IF Executing(mem) THEN RestoredStages(mem) \ {4} ELSE {}}
         /\ pc' = (IF n <= 3 THEN "ask" ELSE "package")
  BY <1>9, ZenonT(60) DEF Recover, Goto
<1>5. CASE Leave("refused") /\ UNCHANGED borrowed
  BY <1>5
<1>6. CASE ~(Leave("refused") /\ UNCHANGED borrowed)
  <2>1. Suspect(mem, n) = NoId \/
          (n \in Stages /\ Suspect(mem, n) = mem.fault /\ mem.fault # NoId /\ mem.fault.stage = n)
    BY <1>3, <1>4, <1>6 DEF CanGoOn, Suspect
  <2>2. mem' = (IF Suspect(mem, n) = NoId THEN s ELSE Cleared(s, n)) /\ disk' = mem'
    BY <1>4, <1>6 DEF Save
  <2>3. n = NextStage(Restored(mem)) /\ s = Restored(mem)
        /\ ids = [NoRun.ids EXCEPT ![4] = IF 4 \in RestoredStages(mem)
                                           THEN Restored(mem).art[4] ELSE NoId]
    BY DEF n, s, ids
  <2>4. /\ mem.status = "FAILED"
        /\ run' = [NoRun EXCEPT !.at = n,
                      !.ids = IF Suspect(mem, n) = NoId THEN ids
                              ELSE [NoRun.ids EXCEPT ![n] = RetryOf(mem.fault)]]
        /\ borrowed' = borrowed \union
              {s.art[k] : k \in IF Executing(mem) THEN RestoredStages(mem) \ {4} ELSE {}}
        /\ pc' = (IF n <= 3 THEN "ask" ELSE "package")
    BY <1>4, <1>6, <2>1
  <2> QED
    BY <1>3, <2>1, <2>2, <2>3, <2>4
<1> QED
  BY <1>5, <1>6
-----------------------------------------------------------------------------
(* Types.                                                                    *)

\* Every action that changes the state or saves it leaves one.
LEMMA StatesTyped == IInv /\ [Next]_vars => disk' \in State /\ mem' \in State
<1> SUFFICES ASSUME IInv, [Next]_vars PROVE disk' \in State /\ mem' \in State
  OBVIOUS
<1> USE DEF Save, SaveAndEnd, Leave, End, Goto
<1>1. disk \in State /\ mem \in State /\ run \in Run /\ TypeInv /\ CommandInv
  BY DEF IInv, TypeInv
<1>2. CASE \/ UNCHANGED <<disk, mem>> \/ SavePlan \/ Asked \/ Resumed \/ Revise
           \/ Authorize \/ Send \/ Crash
  BY <1>1, <1>2 DEF SavePlan, Asked, Resumed, Revise, Authorize, Send, Crash
<1>3. \A s \in State : \A st \in Status : [s EXCEPT !.status = st] \in State
  BY DEF State
<1>4. \A s \in State : \A ph \in Phase : [s EXCEPT !.phase = ph] \in State
  BY DEF State
<1>5. CASE \/ Review \/ WaitForHuman \/ Overruled \/ Stop \/ Limit \/ Settled \/ Sent
           \/ SendFails
  BY <1>1, <1>3, <1>5 DEF Review, WaitForHuman, Overruled, Stop, Limit, Settled, Sent,
     SendFails, Block, Fail, Status
<1>6. CASE Ask
  <2>1. AtStage
    BY <1>6 DEF Ask, IInv, CommandInv, Making
  <2>2. Working[run.at] \in Status
    BY <2>1 DEF AtStage, Stages, Working, Status
  <2> QED
    BY <1>1, <1>3, <1>6, <2>2 DEF Ask
<1>7. CASE Answer
  <2>1. run.at \in Stages
    BY <1>7 DEF Answer, IInv, CommandInv, Making, AtStage
  <2>2. StageId(run.at) \in Task
    BY <1>1, <2>1, StageIdIs
  <2>3. [mem EXCEPT !.heard = @ \union {StageId(run.at)}] \in State
    BY <1>1, <2>2 DEF State
  <2>4. \A b \in BOOLEAN :
          [[mem EXCEPT !.fault = StageId(run.at), !.again = b] EXCEPT !.status = "FAILED"]
            \in State
    BY <1>1, <2>2 DEF State, Status
  <2> QED
    BY <1>7, <2>3, <2>4 DEF Answer, Fail
<1>8. CASE Keep
  <2>1. run.at \in Stages /\ run.ids[run.at] \in Task
    BY <1>1, <1>8 DEF Keep, IInv, CommandInv, Making, AtStage, Run, Art
  <2>2. [mem.art EXCEPT ![run.at] = run.ids[run.at]] \in Art
    BY <1>1, <2>1 DEF State, Art
  <2>3. \A ar \in Art : [mem EXCEPT !.art = ar] \in State
    BY <1>1 DEF State
  <2>4. mem' = [mem EXCEPT !.art = [mem.art EXCEPT ![run.at] = run.ids[run.at]]]
        /\ disk' = mem'
    BY <1>1, <1>8 DEF Keep, State
  <2> QED
    BY <2>2, <2>3, <2>4
<1>9. CASE Package
  <2>1. Contents(mem) \in Parts /\ mem.report \in Nat
    BY <1>1, ContentsAre DEF State
  <2>2. [of |-> Contents(mem), report |-> mem.report, review |-> NoId] \in Parcel
    BY <2>1, NothingTyped DEF Parcel
  <2>3. \A p \in Parcel : \A b \in BOOLEAN : [mem EXCEPT !.package = p, !.valid = b] \in State
    BY <1>1 DEF State
  <2>4. \A v \in BOOLEAN : Passes(mem, v) \in BOOLEAN
    BY DEF Passes
  <2> QED
    BY <1>9, <2>2, <2>3, <2>4 DEF Package
<1>10. CASE Approve \/ Unsettled
  <2> DEFINE s == [mem EXCEPT !.package.review = mem.art[4]]
  <2>1. s \in State
    <3>1. mem.art[4] \in Task /\ mem.package \in Parcel
      BY <1>1 DEF State, Art, Stages
    <3>2. [mem.package EXCEPT !.review = mem.art[4]] \in Parcel
      BY <3>1 DEF Parcel
    <3>3. s = [mem EXCEPT !.package = [mem.package EXCEPT !.review = mem.art[4]]]
      BY <1>1 DEF State
    <3> QED
      BY <1>1, <3>2, <3>3 DEF State
  <2>2. \/ mem' = s \/ mem' = Finalized(s, "completed") \/ mem' = Finalized(mem, "partial")
    BY <1>10 DEF Approve, Unsettled
  <2>3. disk' = disk
    BY <1>10 DEF Approve, Unsettled
  <2> HIDE DEF s
  <2> QED
    BY <1>1, <2>1, <2>2, <2>3, FinalizedIs
<1>11. CASE Plan
  <2>1. InternalRequest(mem) \in Request
    BY <1>11, InternalRequestIs DEF Plan
  <2> QED
    BY <1>1, <1>11, <2>1, PlannedIs DEF Plan
<1>12. CASE Activate
  <2>1. Pending(mem) \subseteq Request
    BY <1>1 DEF Pending, TypeInv
  <2> QED
    BY <1>1, <1>12, <2>1, PlannedIs DEF Activate
<1>13. CASE AskDeliberation
  <2>1. ASSUME NEW r \in Request
        PROVE  [mem EXCEPT !.up = mem.up + 1, !.status = "WAITING_UPSTREAM_REVISION",
                           !.phase = "waiting_upstream_result", !.epoch = r.epoch,
                           !.active = r] \in State
    <3>1. mem.up + 1 \in Nat /\ r.epoch \in Nat /\ "waiting_upstream_result" \in Phase
          /\ "WAITING_UPSTREAM_REVISION" \in Status
      BY <1>1 DEF State, Request, Phase, Status
    <3> QED
      BY <1>1, <3>1, ZenonT(30) DEF State
  <2> QED
    BY <1>1, <1>13, <2>1, AskDeliberationIs
<1>14. CASE Resume
  <2>1. ASSUME NEW r \in Request
        PROVE  [Planned(mem, r) EXCEPT !.report = inbox, !.consumed = @ \union {mem.active}]
                 \in State
    <3>1. Planned(mem, r) \in State
      BY <1>1, PlannedIs
    <3>2. inbox \in Nat /\ mem.active \in Request
      BY <1>1 DEF TypeInv, State
    <3>3. \A s \in State : s.consumed \union {mem.active} \in SUBSET Request
      BY <3>2 DEF State
    <3>4. \A s \in State : [s EXCEPT !.report = inbox, !.consumed = @ \union {mem.active}]
                              \in State
      BY <3>2, <3>3, ZenonT(30) DEF State
    <3> QED
      BY <3>1, <3>4
  <2> QED
    BY <1>1, <1>14, <2>1, ResumeIs
<1>15. CASE Exhausted
  <2> DEFINE e == IF mem.active.epoch < MaxRevisions THEN mem.active.epoch ELSE MaxRevisions
             c == Maximum(mem.count, e)
  <2>1. c \in 0 .. MaxRevisions
    BY <1>1, Limits DEF State, Request, Maximum
  <2>2. mem' = [[mem EXCEPT !.phase = "blocked", !.count = c] EXCEPT !.status = "BLOCKED"]
        /\ disk' = mem'
    BY <1>15 DEF Exhausted, Block
  <2> HIDE DEF c, e
  <2>3. "blocked" \in Phase /\ "BLOCKED" \in Status
    BY DEF Phase, Status
  <2>4. [mem EXCEPT !.phase = "blocked", !.count = c] \in State
    BY <1>1, <2>1, <2>3, ZenonT(30) DEF State
  <2> QED
    BY <1>3, <2>2, <2>3, <2>4
<1>16. CASE Begin
  <2> DEFINE c == IF Slot(mem.active) = {} THEN mem.count
                  ELSE Maximum(mem.count, CHOOSE i \in Slot(mem.active) : TRUE)
             s == [mem EXCEPT !.phase = "executing", !.status = "REVISING", !.count = c]
  <2>1. c \in 0 .. MaxRevisions
    <3>1. mem.count \in 0 .. MaxRevisions
      BY <1>1 DEF State
    <3>2. Slot(mem.active) # {} => (CHOOSE i \in Slot(mem.active) : TRUE) \in 1 .. MaxRevisions
      BY <1>1, SlotIs
    <3> QED
      BY <3>1, <3>2, Limits DEF Maximum
  <2>2. mem' = Cleared(s, mem.active.first) /\ disk' = mem'
    BY <1>16 DEF Begin
  <2> HIDE DEF c
  <2>3. "executing" \in Phase /\ "REVISING" \in Status
    BY DEF Phase, Status
  <2>4. s \in State
    BY <1>1, <2>1, <2>3, ZenonT(30) DEF State
  <2>5. mem.active.first \in Stages
    BY <1>16 DEF Begin, IInv, CommandInv, StatesInv, Good, Bound, Proper, Stages
  <2> HIDE DEF s
  <2> QED
    BY <2>2, <2>4, <2>5, ClearedIs
<1>17. CASE Resend
  BY <1>1, <1>4, <1>17 DEF Resend, Phase
<1>18. CASE Resent \/ SentAgain
  <2>1. disk' = disk /\ (mem' = disk \/ mem' = Finalized(mem, "completed"))
    BY <1>18 DEF Resent, SentAgain, Settle
  <2> QED
    BY <1>1, <2>1, FinalizedIs
<1>19. CASE Recover
  <2>1. Restored(mem) \in State
    BY <1>1, RestoredIs DEF IInv, StatesInv, Good, Sound
  <2>2. \A n \in Stages : Cleared(Restored(mem), n) \in State
    BY <2>1, ClearedIs
  <2>3. \/ disk' = disk /\ mem' = disk
        \/ /\ disk' = mem'
           /\ mem' = Restored(mem) \/ \E n \in Stages : mem' = Cleared(Restored(mem), n)
    BY <1>19, RecoverIs
  <2> QED
    BY <1>1, <2>1, <2>2, <2>3
<1>20. CASE Integrate
  <2>1. [mem.art EXCEPT ![4] = NoId] \in Art
    BY <1>1, NothingTyped DEF State, Art
  <2>2. \A ar \in Art : [mem EXCEPT !.art = ar] \in State
    BY <1>1 DEF State
  <2>3. [mem EXCEPT !.art[4] = NoId] = [mem EXCEPT !.art = [mem.art EXCEPT ![4] = NoId]]
    BY <1>1 DEF State
  <2>4. [mem EXCEPT !.art[4] = NoId] \in State
    BY <2>1, <2>2, <2>3
  <2> QED
    BY <1>1, <1>20, <2>4 DEF Integrate, Combine
<1>21. CASE Select
  <2>1. finals + 1 \in Nat /\ mem.package.of \in Parts
    BY <1>1 DEF TypeInv, State, Parcel
  <2>2. [mem EXCEPT !.selection = finals + 1, !.about = mem.package.of] \in State
    BY <1>1, <2>1, ZenonT(30) DEF State
  <2> QED
    BY <1>1, <1>21, <2>2 DEF Select
<1> QED
  BY <1>2, <1>5, <1>6, <1>7, <1>8, <1>9, <1>10, <1>11, <1>12, <1>13, <1>14, <1>15, <1>16,
     <1>17, <1>18, <1>19, <1>20, <1>21
     DEF Next, vars, Line, Judge, Revision, Recovery, Human, Around, ProviderRetry,
     DeliberationFiles, DeliberationHands, PlaywrightAsks

\* Every action that moves the command leaves it at a stage, with ids of tasks.
LEMMA RunTyped == IInv /\ [Next]_vars => run' \in Run
<1> SUFFICES ASSUME IInv, [Next]_vars PROVE run' \in Run
  OBVIOUS
<1> USE DEF Save, SaveAndEnd, Leave, End, Goto, Fail, Block
<1>1. run \in Run /\ NoRun \in Run /\ mem \in State /\ TypeInv /\ CommandInv
  BY NothingTyped DEF IInv, TypeInv
<1>2. \A k \in 0 .. 5 : \A i \in Art : \A b \in 0 .. 1 : [at |-> k, ids |-> i, mark |-> b] \in Run
  BY DEF Run
<1>3. /\ run = [at |-> run.at, ids |-> run.ids, mark |-> run.mark]
      /\ run.at \in 0 .. 5 /\ run.ids \in Art /\ run.mark \in 0 .. 1
  BY <1>1 DEF Run
<1>4. CASE UNCHANGED run \/ run' = NoRun
  BY <1>1, <1>4
<1>5. CASE Answer
  <2>1. run.at \in Stages
    BY <1>5 DEF Answer, IInv, CommandInv, Making, AtStage
  <2>2. StageId(run.at) \in Task
    BY <1>1, <2>1, StageIdIs
  <2>3. [run.ids EXCEPT ![run.at] = StageId(run.at)] \in Art
    BY <1>3, <2>2 DEF Art
  <2>4. run' = NoRun \/ run' = [at |-> run.at, mark |-> run.mark,
                                ids |-> [run.ids EXCEPT ![run.at] = StageId(run.at)]]
    BY <1>3, <1>5 DEF Answer
  <2> QED
    BY <1>1, <1>2, <1>3, <2>3, <2>4
<1>6. CASE Keep
  <2>1. run.at + 1 \in 0 .. 5
    BY <1>6 DEF Keep, IInv, CommandInv, Making, AtStage, Stages
  <2>2. run' = [at |-> run.at + 1, ids |-> run.ids, mark |-> run.mark]
    BY <1>3, <1>6 DEF Keep
  <2> QED
    BY <1>2, <1>3, <2>1, <2>2
<1>7. CASE Review
  <2>1. StageId(4) \in Task
    BY <1>1, StageIdIs DEF Stages
  <2>2. [run.ids EXCEPT ![4] = StageId(4)] \in Art
    BY <1>3, <2>1 DEF Art
  <2>3. run' = [at |-> 4, ids |-> [run.ids EXCEPT ![4] = StageId(4)], mark |-> run.mark]
    BY <1>3, <1>7 DEF Review
  <2>4. 4 \in 0 .. 5
    OBVIOUS
  <2> QED
    BY <1>2, <1>3, <2>2, <2>3, <2>4
<1>8. CASE Begin
  <2>1. mem.active.first \in Stages
    BY <1>8 DEF Begin, IInv, CommandInv, StatesInv, Good, Bound, Proper, Stages
  <2>2. mem.up \in Nat /\ mem.active.epoch \in Nat
    BY <1>1 DEF State, Request
  <2>3. \A n \in Stages : Id(n, mem.up, mem.active.epoch, 0) \in Task
    BY <2>2 DEF Id, Task, Stages
  <2>4. OwnIds(mem) \in Art
    BY <2>3, NothingTyped DEF OwnIds, Art
  <2>5. run' = [at |-> mem.active.first, ids |-> OwnIds(mem), mark |-> 0]
    BY <1>8 DEF Begin, NoRun
  <2>6. mem.active.first \in 0 .. 5 /\ 0 \in 0 .. 1
    BY <2>1 DEF Stages
  <2> QED
    BY <1>2, <2>4, <2>5, <2>6
<1>9. CASE Recover
  <2>1. CASE Leave("refused")
    BY <1>1, <2>1
  <2>2. CASE ~Leave("refused")
    <3> DEFINE ids(n) == IF Suspect(mem, n) = NoId
                         THEN [NoRun.ids EXCEPT ![4] = IF 4 \in RestoredStages(mem)
                                                       THEN Restored(mem).art[4] ELSE NoId]
                         ELSE [NoRun.ids EXCEPT ![n] = RetryOf(mem.fault)]
    <3>1. PICK n \in 1 .. 5 : run' = [NoRun EXCEPT !.at = n, !.ids = ids(n)]
      BY <1>9, <2>2, RecoverIs
    <3>2. ids(n) \in Art
      <4>1. NoRun.ids \in Art /\ NoId \in Task
        BY NothingTyped DEF Run
      <4>2. Restored(mem).art[4] \in Task
        <5>1. Restored(mem) \in State
          BY <1>1, RestoredIs DEF IInv, StatesInv, Good, Sound
        <5> QED
          BY <5>1 DEF State, Art, Stages
      <4>3. RetryOf(mem.fault) \in Task
        BY <1>1 DEF State, RetryOf, Task
      <4> DEFINE t == IF 4 \in RestoredStages(mem) THEN Restored(mem).art[4] ELSE NoId
      <4>5. t \in Task
        BY <4>1, <4>2
      <4>6. ids(n) = IF Suspect(mem, n) = NoId THEN [NoRun.ids EXCEPT ![4] = t]
                     ELSE [NoRun.ids EXCEPT ![n] = RetryOf(mem.fault)]
        OBVIOUS
      <4> HIDE DEF t, ids
      <4>7. [NoRun.ids EXCEPT ![4] = t] \in Art
        BY <4>1, <4>5 DEF Art
      <4>8. [NoRun.ids EXCEPT ![n] = RetryOf(mem.fault)] \in Art
        BY <4>1, <4>3 DEF Art
      <4> QED
        BY <4>6, <4>7, <4>8
    <3> HIDE DEF ids
    <3>3. run' = [at |-> n, ids |-> ids(n), mark |-> 0]
      BY <3>1 DEF NoRun
    <3>4. n \in 0 .. 5 /\ 0 \in 0 .. 1
      OBVIOUS
    <3> QED
      BY <1>2, <3>2, <3>3, <3>4
  <2> QED
    BY <2>1, <2>2
<1>10. CASE Integrate
  <2>1. run' = NoRun \/ run' = [at |-> 3, ids |-> NoRun.ids, mark |-> 1]
    BY <1>10 DEF Integrate, Combine, NoRun
  <2>2. NoRun.ids \in Art /\ 3 \in 0 .. 5 /\ 1 \in 0 .. 1
    BY <1>1 DEF Run
  <2> QED
    BY <1>1, <1>2, <2>1, <2>2
<1> QED
  BY <1>4, <1>5, <1>6, <1>7, <1>8, <1>9, <1>10
     DEF Next, vars, calls, exchange, ends, Line, Judge, Revision, Human, Recovery,
     Around, Ask, Package, Approve, WaitForHuman, Overruled, Unsettled,
     Stop, Plan, SavePlan, AskDeliberation, Asked, Resume, Resumed, Revise, Activate, Limit,
     Exhausted, Authorize, Resend, Resent, Settled, Settle, ProviderRetry,
     Select, Send, SendFails, SentAgain, Sent, Crash,
     DeliberationFiles, DeliberationHands, PlaywrightAsks

\* Calls, artifacts and what the validator says are what they are.
LEMMA CallsTyped ==
  IInv /\ [Next]_vars
    => /\ paid' \subseteq Task /\ retries' \subseteq Task /\ checks' \subseteq Check
       /\ borrowed' \subseteq Task
       /\ \A m \in made' : \E n \in Stages : m \in Artifact(n)
<1> SUFFICES ASSUME IInv, [Next]_vars
             PROVE  /\ paid' \subseteq Task /\ retries' \subseteq Task
                    /\ checks' \subseteq Check /\ borrowed' \subseteq Task
                    /\ \A m \in made' : \E n \in Stages : m \in Artifact(n)
  OBVIOUS
<1>1. TypeInv /\ CommandInv /\ mem \in State
  BY DEF IInv, TypeInv
<1>2. CASE UNCHANGED <<paid, retries, checks, borrowed, made>>
  BY <1>1, <1>2 DEF TypeInv
<1>3. CASE Answer
  <2>1. run.at \in Stages
    BY <1>3 DEF Answer, IInv, CommandInv, Making, AtStage
  <2>2. StageId(run.at) \in Task /\ StageId(run.at).stage = run.at
    BY <1>1, <2>1, StageIdIs
  <2>3. \A m \in Brought(StageId(run.at)) : m \in Artifact(run.at)
    BY <1>1, <2>1, <2>2, BroughtTyped
  <2>4. /\ paid' = paid \union {StageId(run.at)} /\ UNCHANGED <<retries, checks, borrowed>>
        /\ made' = made \/ \E m \in Brought(StageId(run.at)) : made' = made \union {m}
    BY <1>3 DEF Answer
  <2> QED
    BY <1>1, <2>1, <2>2, <2>3, <2>4 DEF TypeInv
<1>4. CASE Package
  <2>1. \A v \in BOOLEAN : [of |-> Contents(mem), passed |-> v] \in Check
    BY <1>1, ContentsAre DEF Check
  <2> QED
    BY <1>1, <1>4, <2>1 DEF Package, TypeInv
<1>5. CASE ProviderRetry
  BY <1>1, <1>5 DEF ProviderRetry, TypeInv, State
<1>6. CASE Recover
  <2>1. Restored(mem) \in State
    BY <1>1, RestoredIs DEF IInv, StatesInv, Good, Sound
  <2>2. \A k \in Stages : Restored(mem).art[k] \in Task
    BY <2>1 DEF State, Art
  <2>3. borrowed' = borrowed \/ borrowed' = borrowed \union
          {Restored(mem).art[k] : k \in IF Executing(mem) THEN RestoredStages(mem) \ {4} ELSE {}}
    BY <1>6, RecoverIs
  <2>4. UNCHANGED <<paid, retries, made, checks>>
    BY <1>6 DEF Recover
  <2> QED
    BY <1>1, <2>2, <2>3, <2>4 DEF TypeInv, RestoredStages
<1> QED
  BY <1>2, <1>3, <1>4, <1>5, <1>6
     DEF Next, vars, calls, exchange, ends, Line, Judge, Revision, Human, Recovery,
     Around, Ask, Keep, Review, Approve, WaitForHuman, Overruled, Unsettled,
     Stop, Plan, SavePlan, AskDeliberation, Asked, Resume, Resumed, Revise, Activate, Limit,
     Exhausted, Authorize, Begin, Resend, Resent, Settled, Settle,
     Integrate, Combine, Select, Send, SendFails, SentAgain, Sent, Crash,
     DeliberationFiles, DeliberationHands, PlaywrightAsks

\* What Playwright asks about is what it has received.
LEMMA PlaywrightAsksIs ==
  ASSUME TypeInv, PlaywrightAsks
  PROVE  /\ outbox.final > 0
         /\ \E r \in Request :
              /\ requests' = requests \union {r}
              /\ r.route = "playwright" /\ r.impact # "none" /\ r.first \in 1 .. 3
              /\ r.package = outbox.package /\ r.final = outbox.final
<1>1. PICK e \in 1 .. MaxEpoch, i \in Impacts :
        requests' = requests \union
            {[NoRequest EXCEPT !.route = "playwright", !.epoch = e, !.impact = i,
                               !.first = IF i = "unchanged" THEN 3 ELSE 1,
                               !.package = outbox.package, !.final = outbox.final]}
  BY DEF PlaywrightAsks
<1> DEFINE f == IF i = "unchanged" THEN 3 ELSE 1
           p == outbox.package
           n == outbox.final
           r == [NoRequest EXCEPT !.route = "playwright", !.epoch = e, !.impact = i,
                                  !.first = f, !.package = p, !.final = n]
<1>2. /\ e \in Nat /\ i \in {"unchanged", "reselection_required"} /\ f \in 1 .. 3
      /\ p \in Parcel /\ n \in Nat
  BY ImpactsAssumption DEF TypeInv
<1>3. requests' = requests \union {r}
  BY <1>1
<1> HIDE DEF f, p, n
<1>4. r = [NoRequest EXCEPT !.route = "playwright", !.epoch = e, !.impact = i,
                            !.first = f, !.package = p, !.final = n]
  OBVIOUS
<1> HIDE DEF r
<1>5. r = [route |-> "playwright", epoch |-> e, source |-> NoId, first |-> f, impact |-> i,
           report |-> 0, package |-> p, final |-> n]
  BY <1>4 DEF NoRequest
<1>6. f \in 0 .. 3 /\ 0 \in Nat /\ NoId \in Task
  BY <1>2, NothingTyped
<1>7. r \in Request
  BY <1>2, <1>5, <1>6, ZenonT(30) DEF Request
<1>8. r.route = "playwright" /\ r.impact = i /\ r.first = f /\ r.package = p /\ r.final = n
  BY <1>5
<1>9. outbox.final > 0
  BY DEF PlaywrightAsks
<1> QED
  BY <1>2, <1>3, <1>7, <1>8, <1>9 DEF p, n

\* Requests, budgets and results are what they are.
LEMMA ExchangeTyped ==
  IInv /\ [Next]_vars
    => /\ requests' \subseteq Request /\ slots' \in Seq(Request)
       /\ Len(slots') <= MaxRevisions /\ spent' \subseteq Request
       /\ adopted' \subseteq Request /\ results' \subseteq Answered
<1> SUFFICES ASSUME IInv, [Next]_vars
             PROVE  /\ requests' \subseteq Request /\ slots' \in Seq(Request)
                    /\ Len(slots') <= MaxRevisions /\ spent' \subseteq Request
                    /\ adopted' \subseteq Request /\ results' \subseteq Answered
  OBVIOUS
<1>1. TypeInv /\ mem \in State /\ mem.active \in Request
  BY DEF IInv, TypeInv, State
<1>2. CASE UNCHANGED <<requests, slots, spent, adopted, results>>
  BY <1>1, <1>2 DEF TypeInv
<1>3. CASE Approve \/ Unsettled \/ Resent \/ SentAgain
  <2> DEFINE s == [mem EXCEPT !.package.review = mem.art[4]]
  <2>1. s \in State
    <3>1. mem.art[4] \in Task /\ mem.package \in Parcel
      BY <1>1 DEF State, Art, Stages
    <3>2. [mem.package EXCEPT !.review = mem.art[4]] \in Parcel
      BY <3>1 DEF Parcel
    <3>3. s = [mem EXCEPT !.package = [mem.package EXCEPT !.review = mem.art[4]]]
      BY <1>1 DEF State
    <3> QED
      BY <1>1, <3>2, <3>3 DEF State
  <2>2. \A t \in State : \A st \in {"completed", "partial"} : Result(t, st) \in Answered
    BY DEF Result, Answered, State
  <2>3. /\ UNCHANGED <<requests, slots, spent, adopted>>
        /\ \/ UNCHANGED results \/ WriteResult(s, "completed")
           \/ WriteResult(mem, "partial") \/ WriteResult(mem, "completed")
    BY <1>3 DEF Approve, Unsettled, Resent, SentAgain, Settle
  <2> HIDE DEF s
  <2> QED
    BY <1>1, <2>1, <2>2, <2>3 DEF WriteResult, TypeInv
<1>4. CASE Plan
  BY <1>1, <1>4, InternalRequestIs DEF Plan, TypeInv
<1>5. CASE Authorize
  <2>1. UNCHANGED <<requests, adopted, results>> /\ spent' = spent \union {mem.active}
    BY <1>5 DEF Authorize
  <2>2. \/ slots' = slots
        \/ slots' = Append(slots, mem.active) /\ Len(slots) < MaxRevisions
    BY <1>5 DEF Authorize, HasBudget
  <2>3. slots \in Seq(Request) /\ Len(slots) <= MaxRevisions
    BY <1>1 DEF TypeInv
  <2>4. slots' \in Seq(Request) /\ Len(slots') <= MaxRevisions
    BY SMTT(30), <1>1, <2>2, <2>3, Limits
  <2> QED
    BY <1>1, <2>1, <2>4 DEF TypeInv
<1>6. CASE AskDeliberation
  <2>1. UNCHANGED <<slots, spent, adopted, results>>
    BY <1>6 DEF AskDeliberation
  <2>2. UNCHANGED requests \/ \E r \in Request : requests' = requests \union {r}
    BY <1>6, AskDeliberationIs
  <2> QED
    BY <1>1, <2>1, <2>2 DEF TypeInv
<1>7. \A r \in Request : \A st \in {"completed", "partial"} : \A n \in Nat :
        Reply(r, st, n) \in Answered
  BY NothingTyped DEF Reply, Answered
<1>8. inbox \in Nat
  BY <1>1 DEF TypeInv
<1>9. CASE Resume
  <2>1. UNCHANGED <<slots, spent, adopted>>
    BY <1>9 DEF Resume
  <2>2. /\ UNCHANGED requests \/ \E r \in Request : requests' = requests \union {r}
        /\ \/ UNCHANGED results
           \/ results' = results \union {Reply(mem.active, "completed", inbox)}
    BY <1>9, ResumeIs
  <2>3. Reply(mem.active, "completed", inbox) \in Answered
    BY <1>1, <1>7, <1>8
  <2> QED
    BY <1>1, <2>1, <2>2, <2>3 DEF TypeInv
<1>10. CASE Activate
  <2>1. Pending(mem) \subseteq Request
    BY <1>1 DEF Pending, TypeInv
  <2> QED
    BY <1>1, <1>10, <2>1 DEF Activate, TypeInv
<1>11. CASE DeliberationFiles
  <2>1. PICK r \in Upstream, st \in {"completed", "partial"} :
          results' = results \union {Reply(r, st, inbox + 1)}
    BY <1>11 DEF DeliberationFiles
  <2>2. r \in Request /\ inbox + 1 \in Nat
    BY <1>1, <1>8 DEF TypeInv, Upstream
  <2>3. Reply(r, st, inbox + 1) \in Answered
    BY <1>7, <2>2
  <2>4. UNCHANGED <<requests, slots, spent, adopted>>
    BY <1>11 DEF DeliberationFiles
  <2> QED
    BY <1>1, <2>1, <2>3, <2>4 DEF TypeInv
<1>12. CASE PlaywrightAsks
  <2>1. UNCHANGED <<slots, spent, adopted, results>>
    BY <1>12 DEF PlaywrightAsks
  <2>2. \E r \in Request : requests' = requests \union {r}
    BY <1>1, <1>12, PlaywrightAsksIs
  <2> QED
    BY <1>1, <2>1, <2>2 DEF TypeInv
<1> QED
  BY <1>2, <1>3, <1>4, <1>5, <1>6, <1>9, <1>10, <1>11, <1>12
     DEF Next, vars, calls, exchange, ends, Line, Judge, Revision, Human, Recovery,
     Around, Ask, Answer, Keep, Package, Review, WaitForHuman, Overruled,
     Stop, SavePlan, Asked, Resumed, Revise, Limit, Exhausted, Begin, Resend, Settled,
     ProviderRetry, Recover, Integrate, Combine, Select, Send, SendFails, Sent, Crash,
     DeliberationHands

\* Types hold in every step.
LEMMA TypeStep == IInv /\ [Next]_vars => TypeInv'
<1> SUFFICES ASSUME IInv, [Next]_vars PROVE TypeInv'
  OBVIOUS
<1>1. TypeInv
  BY DEF IInv
<1>2. finals' \in Nat /\ inbox' \in Nat \ {0} /\ outbox' \in [final : Nat, package : Parcel]
  <2>1. Handoff(mem) \in [final : Nat, package : Parcel] /\ finals + 1 \in Nat
        /\ inbox + 1 \in Nat \ {0}
    BY <1>1 DEF TypeInv, State, Handoff
  <2>2. CASE UNCHANGED ends
    BY <1>1, <2>2 DEF ends, TypeInv
  <2>3. CASE Resend \/ Send \/ Select \/ DeliberationHands
    BY <1>1, <2>1, <2>3 DEF Resend, Send, Select, DeliberationHands, TypeInv
  <2> QED
    BY <2>2, <2>3
       DEF Next, vars, calls, exchange, ends, Line, Judge, Revision, Human, Recovery,
       Around, Ask, Answer, Keep, Package, Review, Approve, WaitForHuman, Overruled, Unsettled,
       Stop, Plan, SavePlan, AskDeliberation, Asked, Resume, Resumed, Revise, Activate, Limit,
       Exhausted, Authorize, Begin, Resent, Settled, Settle, ProviderRetry, Recover,
       Integrate, Combine, SendFails, SentAgain, Sent, Crash,
       DeliberationFiles, PlaywrightAsks
<1> QED
  BY <1>2, StatesTyped, RunTyped, CallsTyped, ExchangeTyped DEF TypeInv

-----------------------------------------------------------------------------
(* What was made.                                                            *)

\* A task has brought one artifact, and what it was made from was made before it.
LEMMA MadeStep == IInv /\ [Next]_vars => MadeInv'
<1> SUFFICES ASSUME IInv, [Next]_vars PROVE MadeInv'
  OBVIOUS
<1>1. TypeInv /\ MadeInv /\ CommandInv /\ mem \in State
  BY DEF IInv, TypeInv
<1>2. Grown
  BY <1>1, RecordsGrow
<1>3. CASE made' = made
  <2>1. \A m \in made, k \in Nat, m2 \in made :
          Stems(m2, m.on, k, made, borrowed) => Stems(m2, m.on, k, made', borrowed')
    BY <1>2, StemsStays DEF Grown
  <2> QED
    BY <1>1, <1>2, <1>3, <2>1 DEF MadeInv, Grown
<1>4. CASE made' # made
  <2>1. Answer
    BY <1>4 DEF Next, vars, calls, exchange, ends, Line, Judge, Revision, Human, Recovery,
     Around, Ask, Keep, Package, Review, Approve, WaitForHuman, Overruled, Unsettled,
     Stop, Plan, SavePlan, AskDeliberation, Asked, Resume, Resumed, Revise, Activate, Limit,
     Exhausted, Authorize, Begin, Resend, Resent, Settled, Settle, ProviderRetry, Recover,
     Integrate, Combine, Select, Send, SendFails, SentAgain, Sent, Crash,
     DeliberationFiles, DeliberationHands, PlaywrightAsks
  <2> DEFINE id == StageId(run.at)
  <2>2. run.at \in Stages /\ \A k \in Stages : k < run.at => mem.art[k] # NoId
    BY <2>1 DEF Answer, CommandInv, IInv, Making, AtStage
  <2>3. id \in Task /\ id.stage = run.at
    BY <1>1, <2>2, StageIdIs
  <2>4. /\ id \notin paid /\ paid' = paid \union {id} /\ borrowed' = borrowed
        /\ \E m \in Brought(id) : made' = made \union {m}
    BY <1>4, <2>1 DEF Answer, Outcomes
  <2>5. PICK m \in Brought(id) : made' = made \union {m}
    BY <2>4
  <2>6. m.id = id /\ m.on = Before(mem.art, run.at) /\ m \in Artifact(run.at)
        /\ (run.at = 4 => m.verdict \in Verdicts)
    BY <1>1, <2>2, <2>3, BroughtTyped
  <2> HIDE DEF id
  <2>7. \A m2 \in made : m2.id # id
    BY <1>1, <2>4 DEF MadeInv
  <2>8. DOMAIN m.on = 1 .. m.id.stage - 1
    BY <2>3, <2>6 DEF Before
  <2>9. ASSUME NEW k \in 1 .. m.id.stage - 1
        PROVE  m.on[k].stage = k /\ \E m2 \in made : Stems(m2, m.on, k, made, borrowed)
    <3>1. k \in Stages /\ mem.art[k] # NoId /\ k < run.at
      BY <2>2, <2>3, <2>6 DEF Stages
    <3>2. PICK m2 \in made : Stems(m2, mem.art, k, made, borrowed)
      BY <1>1, <3>1 DEF IInv, StatesInv, Good, Sound, Fit
    <3>3. \A j \in 1 .. k : m.on[j] = mem.art[j]
      BY <2>2, <2>6, <3>1 DEF Before, Stages
    <3>4. Stems(m2, m.on, k, made, borrowed)
      BY <3>1, <3>2, <3>3, StemsAlike
    <3>5. mem.art[k].stage = k
      BY <1>1, <3>1 DEF IInv, StatesInv, Good, Sound, Fit
    <3>6. m.on[k] = mem.art[k]
      BY <3>1, <3>3 DEF Stages
    <3> QED
      BY <3>4, <3>5, <3>6
  <2>10. ASSUME NEW m1 \in made'
         PROVE  /\ m1.id \in paid' /\ m1.id.stage \in Stages
                /\ m1.id.stage = 4 => m1.verdict \in Verdicts
                /\ \A m2 \in made' : m2.id = m1.id => m2 = m1
                /\ DOMAIN m1.on = 1 .. m1.id.stage - 1
                /\ \A k \in 1 .. m1.id.stage - 1 :
                     /\ m1.on[k].stage = k
                     /\ \E m2 \in made' : Stems(m2, m1.on, k, made', borrowed')
    <3> DEFINE On(ms, bs) == \A k \in 1 .. m1.id.stage - 1 :
                               /\ m1.on[k].stage = k
                               /\ \E m2 \in made : Stems(m2, m1.on, k, ms, bs)
    <3>3. On(made, borrowed) => On(made', borrowed')
      BY <1>2, StemsStays DEF Grown
    <3>1. CASE m1 = m
      <4>1. On(made', borrowed')
        BY <2>9, <3>1, <3>3
      <4> QED
        BY <2>2, <2>3, <2>4, <2>5, <2>6, <2>7, <2>8, <3>1, <4>1
    <3>2. CASE m1 \in made
      <4>1. On(made', borrowed')
        BY <1>1, <3>2, <3>3 DEF MadeInv
      <4>2. /\ m1.id \in paid /\ m1.id.stage \in Stages
            /\ m1.id.stage = 4 => m1.verdict \in Verdicts
            /\ \A m2 \in made : m2.id = m1.id => m2 = m1
            /\ DOMAIN m1.on = 1 .. m1.id.stage - 1
        BY <1>1, <3>2 DEF MadeInv
      <4>3. m1.id # m.id
        BY <2>6, <2>7, <3>2
      <4> QED
        BY <2>4, <2>5, <4>1, <4>2, <4>3
    <3> QED
      BY <2>5, <3>1, <3>2
  <2> QED
    BY <2>10 DEF MadeInv
<1> QED
  BY <1>3, <1>4

-----------------------------------------------------------------------------
(* A Good state leads to Good states.                                        *)

\* What is known of the artifacts and the selection does not depend on the rest, but
\* for a failed workflow.
LEMMA SoundAlike ==
  ASSUME NEW s, NEW t, NEW ms, NEW bs, NEW cs, Sound(s, ms, bs, cs),
         t.art = s.art, t.heard = s.heard, t.selection = s.selection, t.about = s.about,
         t.package.of = s.package.of, t.valid => s.valid,
         t.status = "FAILED" /\ ~Executing(t) => AllKept(s)
  PROVE  Sound(t, ms, bs, cs)
<1>1. \A n \in Stages : Fit(t.art, n, ms, bs)
  BY DEF Sound
<1>2. Prefix(t) /\ (AllKept(t) <=> AllKept(s)) /\ (ContentsMade(t) <=> ContentsMade(s))
      /\ Contents(t) = Contents(s)
  BY DEF Sound, Prefix, AllKept, ContentsMade, Contents
<1>3. t.valid => Passed(t.package, cs)
  BY DEF Sound, Passed
<1> QED
  BY <1>1, <1>2, <1>3 DEF Sound

\* What the revision is about stays so, whether it goes on or ends.
LEMMA BoundAlike ==
  ASSUME NEW s, NEW t, NEW ms, NEW bs, NEW cs, NEW fs, Bound(s, ms, bs, cs, fs),
         t.active = s.active, t.selection = s.selection,
         PlanOf(t) => PlanOf(s) /\ t.package = s.package /\ t.art = s.art
                      /\ t.status = "BLOCKED",
         Executing(t) => Executing(s) \/ PlanOf(s),
         t.status # "WAITING_UPSTREAM_REVISION" \/ t.status = s.status
  PROVE  Bound(t, ms, bs, cs, fs)
BY DEF Bound, Current

\* A state differs from a Good one by its status.
LEMMA StatusAlike ==
  ASSUME NEW s \in State, NEW ms, NEW bs, NEW cs, NEW fs, NEW rs,
         Good(s, ms, bs, cs, fs, rs), NEW st \in Status,
         st # "WAITING_UPSTREAM_REVISION", PlanOf(s) => st = "BLOCKED",
         st = "FAILED" /\ ~Executing(s) => AllKept(s)
  PROVE  Good([s EXCEPT !.status = st], ms, bs, cs, fs, rs)
<1> DEFINE t == [s EXCEPT !.status = st]
<1>1. t.status = st /\ \A f \in {"report", "art", "package", "valid", "selection", "about",
                                "heard", "phase", "active"} : t[f] = s[f]
  BY DEF State
<1> HIDE DEF t
<1>2. Executing(t) <=> Executing(s)
  BY <1>1 DEF Executing
<1>3. PlanOf(t) <=> PlanOf(s)
  BY <1>1 DEF PlanOf
<1>4. Sound(t, ms, bs, cs)
  BY <1>1, <1>2, SoundAlike DEF Good
<1>5. Bound(t, ms, bs, cs, fs)
  BY <1>1, <1>2, <1>3, BoundAlike DEF Good
<1>6. AnsweredBy(t.report, rs)
  BY <1>1 DEF Good
<1> QED
  BY <1>4, <1>5, <1>6 DEF Good, t

\* With all contents made, every answer about them is kept.
LEMMA MadeIsKept ==
  ASSUME NEW s, NEW ms, NEW bs, NEW cs, Sound(s, ms, bs, cs), ContentsMade(s)
  PROVE  AllKept(s)
<1>1. \A id \in s.heard : id.stage \in Stages
  BY DEF Sound
<1>2. \A n \in Stages : n = 4 \/ n \in 1 .. 3
  BY DEF Stages
<1> QED
  BY <1>1, <1>2 DEF AllKept, ContentsMade

\* The end of a revision leaves a Good state, with the contents made.
LEMMA FinalizedGood ==
  ASSUME NEW s \in State, NEW ms, NEW bs, NEW cs, NEW fs, NEW rs, NEW how,
         Good(s, ms, bs, cs, fs, rs), ContentsMade(s), ~PlanOf(s)
  PROVE  Good(Finalized(s, how), ms, bs, cs, fs, rs)
<1> DEFINE t == Finalized(s, how)
<1>1. ~Executing(t) /\ ~PlanOf(t)
      /\ \A f \in {"status", "report", "art", "package", "valid", "selection", "about",
                   "heard", "active"} : t[f] = s[f]
  BY FinalizedIs
<1> HIDE DEF t
<1>2. AllKept(s)
  BY MadeIsKept DEF Good
<1>3. Sound(t, ms, bs, cs)
  BY <1>1, <1>2, SoundAlike DEF Good
<1>4. Bound(t, ms, bs, cs, fs)
  BY <1>1, BoundAlike DEF Good
<1>5. AnsweredBy(t.report, rs)
  BY <1>1 DEF Good
<1> QED
  BY <1>3, <1>4, <1>5 DEF Good, t

\* What was Good is so with what is on record now.
LEMMA StillGood ==
  ASSUME IInv, [Next]_vars
  PROVE  /\ Good(disk, made', borrowed', checks', finals', results')
         /\ Good(mem, made', borrowed', checks', finals', results')
         /\ Sound(mem, made', borrowed', checks')
         /\ Bound(mem, made', borrowed', checks', finals')
<1>1. TypeInv /\ TypeInv' /\ Grown
  BY TypeStep, RecordsGrow DEF IInv
<1>2. /\ Good(disk, made, borrowed, checks, finals, results)
      /\ Good(mem, made, borrowed, checks, finals, results)
  BY DEF IInv, StatesInv
<1>3. finals \in Nat /\ finals' \in Nat /\ finals <= finals' /\ disk \in State /\ mem \in State
  BY <1>1 DEF TypeInv, Grown
<1>4. /\ Good(disk, made', borrowed', checks', finals', results')
      /\ Good(mem, made', borrowed', checks', finals', results')
  BY <1>1, <1>2, <1>3, GoodStays DEF Grown
<1> QED
  BY <1>4 DEF Good

\* The command changes the status.
LEMMA StatusGood ==
  ASSUME IInv, [Next]_vars,
         \/ Ask \/ Review \/ WaitForHuman \/ Overruled \/ Stop \/ Limit \/ Settled \/ Sent
         \/ SendFails
  PROVE  Good(mem', made', borrowed', checks', finals', results')
<1> USE DEF Save, SaveAndEnd, Goto, Block, Fail
<1> DEFINE G(s) == Good(s, made', borrowed', checks', finals', results')
<1>1. mem \in State /\ CommandInv /\ G(mem)
  BY StillGood DEF IInv, TypeInv
<1>2. \A st \in Status : st # "WAITING_UPSTREAM_REVISION" /\ (PlanOf(mem) => st = "BLOCKED")
                         /\ (st = "FAILED" /\ ~Executing(mem) => AllKept(mem))
        => G([mem EXCEPT !.status = st])
  BY <1>1, StatusAlike
<1> HIDE DEF G
<1>3. CASE Ask
  <2>1. run.at \in Stages /\ ~PlanOf(mem)
    BY <1>1, <1>3 DEF Ask, CommandInv, Making, AtStage, Walking
  <2>2. Working[run.at] \in Status \ {"FAILED", "WAITING_UPSTREAM_REVISION"}
    BY <2>1 DEF Stages, Working, Status
  <2> QED
    BY <1>2, <1>3, <2>1, <2>2 DEF Ask, G
<1>4. CASE Review \/ WaitForHuman \/ Settled \/ Sent
  <2>1. ~PlanOf(mem)
    BY <1>1, <1>4 DEF Review, WaitForHuman, Settled, Sent, CommandInv, Walking
  <2>2. \E st \in {"REVIEWING", "WAITING_HUMAN_SELECTION", "COMPLETED"} :
          mem' = [mem EXCEPT !.status = st]
    BY <1>4 DEF Review, WaitForHuman, Settled, Sent
  <2> QED
    BY <1>2, <2>1, <2>2 DEF Status, G
<1>5. CASE Overruled \/ Stop \/ Limit
  <2>1. mem' = [mem EXCEPT !.status = "BLOCKED"]
    BY <1>5 DEF Overruled, Stop, Limit
  <2> QED
    BY <1>2, <2>1 DEF Status, G
<1>6. CASE SendFails
  <2>1. ~PlanOf(mem) /\ mem.selection > 0
    BY <1>1, <1>6 DEF SendFails, CommandInv
  <2>2. ContentsMade(mem)
    BY <1>1, <2>1 DEF G, Good, Sound
  <2>3. AllKept(mem)
    BY <1>1, <2>2, MadeIsKept DEF G, Good
  <2>4. mem' = [mem EXCEPT !.status = "FAILED"]
    BY <1>6 DEF SendFails
  <2> QED
    BY <1>2, <2>1, <2>3, <2>4 DEF Status, G
<1> QED
  BY <1>3, <1>4, <1>5, <1>6 DEF G

\* The revision ends with what the reviewer or Playwright has said.
LEMMA SettlingGood ==
  ASSUME IInv, [Next]_vars, Approve \/ Unsettled \/ Resent \/ SentAgain
  PROVE  Good(mem', made', borrowed', checks', finals', results')
<1> USE DEF Goto
<1> DEFINE G(s) == Good(s, made', borrowed', checks', finals', results')
<1>1. mem \in State /\ CommandInv /\ G(mem) /\ G(disk)
      /\ Bound(mem, made', borrowed', checks', finals')
  BY StillGood DEF IInv, TypeInv
<1>2. CASE Approve
  <2> DEFINE s == [mem EXCEPT !.package.review = mem.art[4]]
  <2>1. mem' = s \/ mem' = Finalized(s, "completed")
    BY <1>2 DEF Approve
  <2>2. ~PlanOf(mem) /\ ContentsMade(mem)
    BY <1>1, <1>2 DEF Approve, CommandInv, Walking, Packed
  <2>3. s \in State
    <3>1. mem.art[4] \in Task /\ mem.package \in Parcel
      BY <1>1 DEF State, Art, Stages
    <3>2. [mem.package EXCEPT !.review = mem.art[4]] \in Parcel
      BY <3>1 DEF Parcel
    <3>3. s = [mem EXCEPT !.package = [mem.package EXCEPT !.review = mem.art[4]]]
      BY <1>1 DEF State
    <3> QED
      BY <1>1, <3>2, <3>3 DEF State
  <2>4. \A f \in {"status", "report", "art", "valid", "selection", "about", "heard", "phase",
                  "active"} : s[f] = mem[f]
    BY <1>1 DEF State
  <2>5. s.package.of = mem.package.of
    BY <1>1 DEF State, Parcel
  <2> HIDE DEF s
  <2>6. ~PlanOf(s) /\ ContentsMade(s) /\ (Executing(s) <=> Executing(mem))
    BY <2>2, <2>4 DEF PlanOf, ContentsMade, Executing
  <2>7. AllKept(mem)
    BY <1>1, <2>2, MadeIsKept DEF Good
  <2>8. Sound(s, made', borrowed', checks')
    BY <1>1, <2>4, <2>5, <2>7, SoundAlike DEF Good
  <2>9. Bound(s, made', borrowed', checks', finals')
    BY <1>1, <2>4, <2>6, BoundAlike DEF Good
  <2>10. G(s)
    BY <1>1, <2>4, <2>8, <2>9 DEF Good
  <2>11. G(Finalized(s, "completed"))
    BY <2>3, <2>6, <2>10, FinalizedGood
  <2> QED
    BY <2>1, <2>10, <2>11
<1>3. CASE Unsettled
  <2>1. ~PlanOf(mem) /\ ContentsMade(mem)
    BY <1>1, <1>3 DEF Unsettled, CommandInv, Walking, Packed
  <2>2. G(Finalized(mem, "partial"))
    BY <1>1, <2>1, FinalizedGood
  <2> QED
    BY <1>3, <2>2 DEF Unsettled
<1>4. CASE Resent \/ SentAgain
  <2>1. mem' = disk \/ mem' = Finalized(mem, "completed")
    BY <1>4 DEF Resent, SentAgain, Settle, Leave
  <2>2. mem.selection > 0 /\ ~PlanOf(mem)
    <3>1. CASE Resent
      <4>1. Executing(mem) /\ mem.active.impact = "unchanged" /\ mem.selection = mem.active.final
        BY <1>1, <3>1 DEF Resent, Settle, CommandInv
      <4>2. mem.active.route = "playwright"
        BY <1>1, <4>1 DEF Bound, Proper
      <4> QED
        BY <1>1, <4>1, <4>2 DEF Bound, Proper, Executing, PlanOf
    <3>2. CASE SentAgain
      <4>1. ~PlanOf(mem) /\ mem.selection > mem.active.final
        BY <1>1, <3>2 DEF SentAgain, Settle, CommandInv
      <4>2. mem.selection \in Nat /\ mem.active.final \in Nat
        BY <1>1 DEF State, Request
      <4> QED
        BY <4>1, <4>2
    <3> QED
      BY <1>4, <3>1, <3>2
  <2>3. ContentsMade(mem)
    BY <1>1, <2>2 DEF Good, Sound
  <2>4. G(Finalized(mem, "completed"))
    BY <1>1, <2>2, <2>3, FinalizedGood
  <2> QED
    BY <1>1, <2>1, <2>4
<1> QED
  BY <1>2, <1>3, <1>4

\* The command makes the artifacts and builds their package.
LEMMA LineGood ==
  ASSUME IInv, [Next]_vars, Answer \/ Keep \/ Package
  PROVE  Good(mem', made', borrowed', checks', finals', results')
<1> USE DEF Save, SaveAndEnd, Goto
<1> DEFINE G(s) == Good(s, made', borrowed', checks', finals', results')
<1>1. mem \in State /\ mem' \in State /\ CommandInv /\ TypeInv /\ G(mem)
  BY StillGood, StatesTyped DEF IInv, TypeInv
<1>2. CASE Answer
  <2> DEFINE id == StageId(run.at)
  <2>1. run.at \in Stages /\ ~PlanOf(mem) /\ mem.status # "FAILED"
        /\ (~Executing(mem) => AllKept(mem))
    BY <1>1, <1>2 DEF Answer, CommandInv, Making, AtStage, Walking
  <2>2. id \in Task /\ id.stage = run.at
    BY <1>1, <2>1, StageIdIs
  <2>3. \/ /\ mem' = [mem EXCEPT !.heard = mem.heard \union {id}]
           /\ \E m \in Brought(id) : made' = made \union {m}
        \/ \E b : mem' = [[mem EXCEPT !.fault = id, !.again = b] EXCEPT !.status = "FAILED"]
    BY <1>1, <1>2 DEF Answer, Fail
  <2> HIDE DEF id
  <2>4. CASE /\ mem' = [mem EXCEPT !.heard = mem.heard \union {id}]
             /\ \E m \in Brought(id) : made' = made \union {m}
    <3>1. \E m \in made' : m.id = id
      BY <1>1, <2>1, <2>2, <2>4, BroughtTyped
    <3>2. mem'.heard = mem.heard \union {id}
          /\ \A f \in {"status", "report", "art", "package", "valid", "selection", "about",
                       "phase", "active"} : mem'[f] = mem[f]
      BY <1>1, <2>4 DEF State
    <3>3. \A h \in mem'.heard : h.stage \in Stages /\ \E m \in made' : m.id = h
      BY <1>1, <2>1, <2>2, <3>1, <3>2 DEF Good, Sound
    <3>4. Prefix(mem') /\ (ContentsMade(mem') <=> ContentsMade(mem))
          /\ Contents(mem') = Contents(mem)
      BY <1>1, <3>2 DEF Good, Sound, Prefix, ContentsMade, Contents
    <3>5. Sound(mem', made', borrowed', checks')
      BY <1>1, <2>1, <3>2, <3>3, <3>4 DEF Good, Sound
    <3>6. Bound(mem', made', borrowed', checks', finals')
      BY <1>1, <2>1, <3>2, BoundAlike DEF Good, PlanOf, Executing
    <3> QED
      BY <1>1, <3>2, <3>5, <3>6 DEF Good
  <2>5. CASE \E b : mem' = [[mem EXCEPT !.fault = id, !.again = b] EXCEPT !.status = "FAILED"]
    <3>1. mem'.status = "FAILED"
          /\ \A f \in {"report", "art", "package", "valid", "selection", "about",
                       "heard", "phase", "active"} : mem'[f] = mem[f]
      BY <1>1, <2>5 DEF State
    <3>2. Sound(mem', made', borrowed', checks')
      BY <1>1, <2>1, <3>1, SoundAlike DEF Good, Executing
    <3>3. Bound(mem', made', borrowed', checks', finals')
      BY <1>1, <2>1, <3>1, BoundAlike DEF Good, PlanOf, Executing
    <3> QED
      BY <1>1, <3>1, <3>2, <3>3 DEF Good
  <2> QED
    BY <2>3, <2>4, <2>5
<1>3. CASE Keep
  <2> DEFINE n == run.at
             id == run.ids[run.at]
             ar == [mem.art EXCEPT ![n] = id]
  <2>1. /\ n \in Stages /\ ~PlanOf(mem) /\ mem.status # "FAILED"
        /\ \A k \in Stages : k < n => mem.art[k] # NoId
        /\ \A k \in Stages : k > n => mem.art[k] = NoId
        /\ n <= 3 => mem.selection = 0
        /\ id # NoId /\ \E m \in made : Stems(m, ar, n, made, borrowed)
        /\ id.stage = n
    BY <1>1, <1>3 DEF Keep, CommandInv, Making, AtStage, AtKeep, Walking
  <2>2. mem' = [mem EXCEPT !.art = ar]
    BY <1>1, <1>3 DEF Keep, State
  <2>3. \A k \in Stages : ar[k] = IF k = n THEN id ELSE mem.art[k]
    BY <1>1, <2>1 DEF State, Art
  <2>4. UNCHANGED <<made, borrowed, checks, finals, results>>
    BY <1>3 DEF Keep, calls, exchange, ends
  <2> HIDE DEF n, id, ar
  <2>5. mem'.art = ar
        /\ \A f \in {"status", "report", "package", "valid", "selection", "about",
                     "heard", "phase", "active"} : mem'[f] = mem[f]
    BY <1>1, <2>2 DEF State
  <2>6. ASSUME NEW k \in Stages, ar[k] # NoId
        PROVE  /\ ar[k].stage = k /\ \E m \in made : Stems(m, ar, k, made, borrowed)
               /\ \A j \in 1 .. k - 1 : ar[j] # NoId
    <3>1. CASE k = n
      <4>1. \A j \in 1 .. k - 1 : j \in Stages /\ j < n /\ j # n
        BY <3>1 DEF Stages
      <4> QED
        BY <2>1, <2>3, <3>1, <4>1
    <3>2. CASE k # n
      <4>1. mem.art[k] = ar[k] /\ k < n
        BY <2>1, <2>3, <2>6, <3>2 DEF Stages
      <4>2. \A j \in 1 .. k : j \in Stages /\ j < n /\ ar[j] = mem.art[j]
        BY <2>1, <2>3, <4>1 DEF Stages
      <4>3. PICK m \in made : Stems(m, mem.art, k, made, borrowed)
        BY <1>1, <2>4, <2>6, <4>1 DEF Good, Sound, Fit
      <4>6. Stems(m, ar, k, made, borrowed)
        BY <4>2, <4>3, StemsAlike
      <4>7. ar[k].stage = k
        BY <1>1, <2>6, <4>1 DEF Good, Sound, Fit
      <4>8. \A j \in 1 .. k - 1 : ar[j] # NoId
        BY <2>1, <4>2 DEF Stages
      <4> QED
        BY <4>6, <4>7, <4>8
    <3> QED
      BY <3>1, <3>2
  <2>7. mem.selection > 0 => ContentsMade(mem') /\ Contents(mem') = Contents(mem)
    <3>1. ASSUME mem.selection > 0 PROVE \A k \in 1 .. 3 : ar[k] = mem.art[k]
      <4>1. n = 4
        BY <2>1, <3>1 DEF Stages
      <4> QED
        BY <2>3, <4>1 DEF Stages
    <3>2. mem.selection > 0 => ContentsMade(mem)
      BY <1>1 DEF Good, Sound
    <3> QED
      BY <2>5, <3>1, <3>2, ContentsAgree
  <2>8. Sound(mem', made', borrowed', checks')
    BY <1>1, <2>1, <2>4, <2>5, <2>6, <2>7 DEF Good, Sound, Fit, Prefix
  <2>9. Bound(mem', made', borrowed', checks', finals')
    BY <1>1, <2>1, <2>5, BoundAlike DEF Good, PlanOf, Executing
  <2> QED
    BY <1>1, <2>5, <2>8, <2>9 DEF Good
<1>4. CASE Package
  <2>1. PICK v \in BOOLEAN :
          /\ checks' = checks \union {[of |-> Contents(mem), passed |-> v]}
          /\ mem' = [mem EXCEPT !.package = [of |-> Contents(mem), report |-> mem.report,
                                             review |-> NoId],
                                !.valid = Passes(mem, v)]
    BY <1>4 DEF Package
  <2>2. ~PlanOf(mem)
    BY <1>1, <1>4 DEF Package, CommandInv, Walking
  <2>3. /\ mem'.package.of = Contents(mem) /\ mem'.valid = Passes(mem, v)
        /\ \A f \in {"status", "report", "art", "selection", "about", "heard", "phase",
                     "active"} : mem'[f] = mem[f]
    BY <1>1, <2>1 DEF State
  <2>4. mem'.valid => v = TRUE
    BY <2>3 DEF Passes
  <2>5. mem'.valid => Passed(mem'.package, checks')
    <3>1. [of |-> Contents(mem), passed |-> v] \in checks'
      BY <2>1
    <3>2. mem'.valid => [of |-> Contents(mem), passed |-> TRUE] \in checks'
      BY <2>4, <3>1
    <3> QED
      BY <2>3, <3>2 DEF Passed
  <2>6. Prefix(mem') /\ (AllKept(mem') <=> AllKept(mem))
        /\ (ContentsMade(mem') <=> ContentsMade(mem)) /\ Contents(mem') = Contents(mem)
    BY <1>1, <2>3 DEF Good, Sound, Prefix, AllKept, ContentsMade, Contents
  <2>7. Sound(mem', made', borrowed', checks')
    BY <1>1, <2>3, <2>5, <2>6 DEF Good, Sound, Executing
  <2>8. Bound(mem', made', borrowed', checks', finals')
    BY <1>1, <2>2, <2>3, BoundAlike DEF Good, PlanOf, Executing
  <2> QED
    BY <1>1, <2>3, <2>7, <2>8 DEF Good
<1> QED
  BY <1>2, <1>3, <1>4

\* A revision is planned, about what there is.
LEMMA PlannedGood ==
  ASSUME NEW s \in State, NEW ms, NEW bs, NEW cs, NEW fs, NEW rs,
         Good(s, ms, bs, cs, fs, rs), NEW r \in Request, Proper(r, ms, bs, cs, fs),
         r.route \in {"internal", "playwright"}, r.route = "playwright" => Current(s, r),
         \A k \in Stages : k < r.first => s.art[k] # NoId
  PROVE  Good(Planned(s, r), ms, bs, cs, fs, rs)
<1> DEFINE t == Planned(s, r)
<1>1. t.phase = "authorization_required" /\ t.active = r /\ t.status = "BLOCKED"
      /\ \A f \in {"report", "art", "package", "valid", "selection", "about", "heard"} :
           t[f] = s[f]
  BY PlannedIs
<1> HIDE DEF t
<1>2. Sound(t, ms, bs, cs)
  BY <1>1, SoundAlike DEF Good
<1>3. r.route = "playwright" => Current(t, r)
  BY <1>1 DEF Current
<1>4. Bound(t, ms, bs, cs, fs)
  BY <1>1, <1>3 DEF Good, Bound, PlanOf
<1>5. AnsweredBy(t.report, rs)
  BY <1>1 DEF Good
<1> QED
  BY <1>2, <1>4, <1>5 DEF Good, t

\* The command plans a revision or asks Deliberation.
LEMMA PlanGood ==
  ASSUME IInv, [Next]_vars, Plan \/ Activate \/ AskDeliberation \/ Resume
  PROVE  Good(mem', made', borrowed', checks', finals', results')
<1> USE DEF Goto
<1> DEFINE G(s) == Good(s, made', borrowed', checks', finals', results')
<1>1. mem \in State /\ mem' \in State /\ CommandInv /\ TypeInv /\ G(mem) /\ G(disk) /\ IInv
      /\ Bound(mem, made', borrowed', checks', finals')
      /\ Sound(mem, made', borrowed', checks')
  BY StillGood, StatesTyped DEF IInv, TypeInv
<1>2. \A r \in Request : r.route \in {"none", "internal", "upstream"} /\ r.impact = "none"
                         /\ (r.route = "internal" => r.first \in 1 .. 3)
        => Proper(r, made', borrowed', checks', finals')
  BY DEF Proper
<1>3. CASE Plan
  <2> DEFINE r == InternalRequest(mem)
  <2>1. mem' = Planned(mem, r) \/ mem' = disk
    BY <1>3 DEF Plan, Leave
  <2>2. r \in Request /\ r.route = "internal" /\ r.impact = "none" /\ r.first \in 1 .. 3
    BY <1>1, <1>3, InternalRequestIs DEF Plan
  <2>3. mem.art[4] # NoId
    BY <1>1, <1>3 DEF Plan, CommandInv
  <2> HIDE DEF r
  <2>4. \A k \in Stages : k < r.first => mem.art[k] # NoId
    <3>1. \A k \in 1 .. 4 - 1 : mem.art[k] # NoId
      BY <1>1, <2>3 DEF Sound, Prefix, Stages
    <3> QED
      BY <2>2, <3>1 DEF Stages
  <2>5. G(Planned(mem, r))
    BY <1>1, <1>2, <2>2, <2>4, PlannedGood
  <2> QED
    BY <1>1, <2>1, <2>5
<1>4. CASE Activate
  <2>1. CASE mem' = disk
    BY <1>1, <2>1
  <2>2. CASE mem' # disk
    <3>1. PICK r \in Pending(mem) : Current(mem, r) /\ mem' = Planned(mem, r)
      BY <1>4, <2>2 DEF Activate, Leave
    <3>2. r \in requests /\ r \in Request /\ r.route = "playwright"
      BY <1>1, <3>1 DEF Pending, TypeInv
    <3>3. Proper(r, made', borrowed', checks', finals')
      <4>1. Proper(r, made, borrowed, checks, finals)
        BY <1>1, <3>2 DEF IInv, FilesInv
      <4>2. Grown /\ finals \in Nat /\ finals' \in Nat
        BY <1>1, RecordsGrow, TypeStep DEF TypeInv
      <4> QED
        BY <3>2, <4>1, <4>2, ProperStays DEF Grown
    <3>4. \A k \in Stages : k < r.first => mem.art[k] # NoId
      <4>1. mem.selection > 0 /\ r.first \in 1 .. 3
        BY <3>1, <3>2, <3>3 DEF Proper, Current
      <4>2. ContentsMade(mem)
        BY <1>1, <4>1 DEF Sound
      <4> QED
        BY <4>1, <4>2 DEF ContentsMade, Stages
    <3>5. G(Planned(mem, r))
      BY <1>1, <3>1, <3>2, <3>3, <3>4, PlannedGood
    <3> QED
      BY <3>1, <3>5
  <2> QED
    BY <2>1, <2>2
<1>5. CASE AskDeliberation
  <2>1. CASE mem' = disk
    BY <1>1, <2>1
  <2>2. CASE mem' # disk
    <3>1. PICK r \in Request :
            /\ r.route = "upstream" /\ r.impact = "none"
            /\ mem' = [mem EXCEPT !.up = mem.up + 1, !.status = "WAITING_UPSTREAM_REVISION",
                                  !.phase = "waiting_upstream_result",
                                  !.epoch = r.epoch, !.active = r]
      BY <1>1, <1>5, <2>2, AskDeliberationIs DEF Leave
    <3>2. /\ mem'.status = "WAITING_UPSTREAM_REVISION"
          /\ mem'.phase = "waiting_upstream_result" /\ mem'.active = r
          /\ \A f \in {"report", "art", "package", "valid", "selection", "about", "heard"} :
               mem'[f] = mem[f]
      BY <1>1, <3>1 DEF State
    <3>3. Proper(r, made', borrowed', checks', finals')
      BY <1>2, <3>1
    <3>4. Sound(mem', made', borrowed', checks')
      BY <1>1, <3>2, SoundAlike
    <3>5. Bound(mem', made', borrowed', checks', finals')
      BY <1>1, <3>1, <3>2, <3>3 DEF Bound, PlanOf, Executing
    <3> QED
      BY <1>1, <3>2, <3>4, <3>5 DEF Good
  <2> QED
    BY <2>1, <2>2
<1>6. CASE Resume
  <2>1. CASE mem' = disk
    BY <1>1, <2>1
  <2>2. CASE mem' # disk
    <3>1. PICK r \in Request :
            /\ r.route = "internal" /\ r.impact = "none" /\ r.first = 1
            /\ mem' = [Planned(mem, r) EXCEPT !.report = inbox,
                                              !.consumed = @ \union {mem.active}]
            /\ mem.status = "WAITING_UPSTREAM_REVISION"
            /\ \A x \in ResultsOf(mem.active) : Answers(x)
            /\ results' = IF ResultsOf(mem.active) # {} THEN results
                          ELSE results \union {Reply(mem.active, "completed", inbox)}
      BY <1>1, <1>6, <2>2, ResumeIs DEF Leave
    <3> DEFINE t == Planned(mem, r)
    <3>2. G(t)
      <4>1. \A k \in Stages : ~(k < r.first)
        BY <3>1 DEF Stages
      <4> QED
        BY <1>1, <1>2, <3>1, <4>1, PlannedGood
    <3>3. t \in State
      BY <1>1, PlannedIs
    <3> HIDE DEF t
    <3>4. mem'.report = inbox
          /\ \A f \in {"status", "art", "package", "valid", "selection", "about", "heard",
                       "phase", "active"} : mem'[f] = t[f]
      BY <3>1, <3>3 DEF State, t
    <3>5. AnsweredBy(inbox, results')
      <4>1. mem.active.route = "upstream"
        BY <1>1, <3>1 DEF Bound
      <4>2. CASE ResultsOf(mem.active) # {}
        BY <3>1, <4>1, <4>2 DEF AnsweredBy, ResultsOf, Answers
      <4>3. CASE ResultsOf(mem.active) = {}
        <5>1. Reply(mem.active, "completed", inbox) \in results'
          BY <3>1, <4>3
        <5> QED
          BY <4>1, <5>1 DEF AnsweredBy, Reply
      <4> QED
        BY <4>2, <4>3
    <3>6. Sound(mem', made', borrowed', checks')
      <4>1. t.status = "BLOCKED"
        BY <1>1, PlannedIs DEF t
      <4> QED
        BY <3>2, <3>4, <4>1, SoundAlike DEF Good
    <3>7. Bound(mem', made', borrowed', checks', finals')
      <4>1. t.status = "BLOCKED"
        BY <1>1, PlannedIs DEF t
      <4> QED
        BY <3>2, <3>4, <4>1, BoundAlike DEF Good, PlanOf, Executing
    <3> QED
      BY <3>4, <3>5, <3>6, <3>7 DEF Good
  <2> QED
    BY <2>1, <2>2
<1> QED
  BY <1>3, <1>4, <1>5, <1>6

\* The command begins a revision, sends a correction, or has no budget for either.
LEMMA RevisionGood ==
  ASSUME IInv, [Next]_vars, Exhausted \/ Begin \/ Resend
  PROVE  Good(mem', made', borrowed', checks', finals', results')
<1> USE DEF Save, SaveAndEnd, Goto
<1> DEFINE G(s) == Good(s, made', borrowed', checks', finals', results')
<1>1. mem \in State /\ mem' \in State /\ CommandInv /\ G(mem)
      /\ Sound(mem, made', borrowed', checks') /\ Bound(mem, made', borrowed', checks', finals')
  BY StillGood, StatesTyped DEF IInv, TypeInv
<1>2. CASE Exhausted
  <2>1. \E c : mem' = [[mem EXCEPT !.phase = "blocked", !.count = c] EXCEPT !.status = "BLOCKED"]
    BY <1>2 DEF Exhausted, Block
  <2>2. mem'.phase = "blocked" /\ mem'.status = "BLOCKED"
        /\ \A f \in {"report", "art", "package", "valid", "selection", "about", "heard",
                     "active"} : mem'[f] = mem[f]
    BY <1>1, <2>1 DEF State
  <2>3. Sound(mem', made', borrowed', checks')
    BY <1>1, <2>2, SoundAlike
  <2>4. Bound(mem', made', borrowed', checks', finals')
    BY <1>1, <2>2, BoundAlike DEF PlanOf, Executing
  <2> QED
    BY <1>1, <2>2, <2>3, <2>4 DEF Good
<1>3. CASE Resend
  <2>1. mem' = [mem EXCEPT !.phase = "executing"] /\ PlanOf(mem)
    BY <1>1, <1>3 DEF Resend, CommandInv
  <2>2. mem'.phase = "executing"
        /\ \A f \in {"status", "report", "art", "package", "valid", "selection", "about",
                     "heard", "active"} : mem'[f] = mem[f]
    BY <1>1, <2>1 DEF State
  <2>3. Sound(mem', made', borrowed', checks')
    BY <1>1, <2>2, SoundAlike DEF Executing
  <2>4. Bound(mem', made', borrowed', checks', finals')
    BY <1>1, <2>1, <2>2, BoundAlike DEF PlanOf, Executing
  <2> QED
    BY <1>1, <2>2, <2>3, <2>4 DEF Good
<1>4. CASE Begin
  <2> DEFINE c == IF Slot(mem.active) = {} THEN mem.count
                  ELSE Maximum(mem.count, CHOOSE i \in Slot(mem.active) : TRUE)
             s == [mem EXCEPT !.phase = "executing", !.status = "REVISING", !.count = c]
             n == mem.active.first
  <2>1. c \in 0 .. MaxRevisions
    <3>1. mem.count \in 0 .. MaxRevisions
      BY <1>1 DEF State
    <3>2. Slot(mem.active) # {} => (CHOOSE i \in Slot(mem.active) : TRUE) \in 1 .. MaxRevisions
      BY SlotIs DEF IInv
    <3> QED
      BY <3>1, <3>2, Limits DEF Maximum
  <2>2. mem' = Cleared(s, n) /\ PlanOf(mem)
    BY <1>1, <1>4 DEF Begin, CommandInv
  <2> HIDE DEF c
  <2>3. "executing" \in Phase /\ "REVISING" \in Status
    BY DEF Phase, Status
  <2>4. s \in State
    BY <1>1, <2>1, <2>3, ZenonT(30) DEF State
  <2>5. s.phase = "executing" /\ s.status = "REVISING"
        /\ \A f \in {"report", "art", "package", "valid", "selection", "about", "heard",
                     "active"} : s[f] = mem[f]
    BY <1>1 DEF State
  <2>6. n \in Stages
    BY <1>1, <2>2 DEF Bound, Proper, Stages
  <2> HIDE DEF s, n
  <2>7. Sound(s, made', borrowed', checks')
    BY <1>1, <2>5, SoundAlike DEF Executing
  <2>8. Sound(mem', made', borrowed', checks')
    BY <2>2, <2>4, <2>5, <2>6, <2>7, ClearedSound
  <2>9. mem'.phase = "executing" /\ mem'.status = "REVISING" /\ mem'.active = mem.active
        /\ mem'.report = mem.report /\ mem'.selection = 0
    BY <2>2, <2>4, <2>5, <2>6, ClearedIs
  <2>10. Bound(mem', made', borrowed', checks', finals')
    <3>1. 0 <= finals'
      BY TypeStep DEF TypeInv
    <3> QED
      BY <1>1, <2>2, <2>9, <3>1 DEF Bound, PlanOf, Executing
  <2> QED
    BY <1>1, <2>8, <2>9, <2>10 DEF Good
<1> QED
  BY <1>2, <1>3, <1>4

\* What is restored to an executing revision is borrowed, to any other workflow only a
\* review can be restored, and that matches.
LEMMA RestoredSound ==
  ASSUME IInv, [Next]_vars, mem.status = "FAILED",
         borrowed' = borrowed \union
           {Restored(mem).art[k] :
              k \in IF Executing(mem) THEN RestoredStages(mem) \ {4} ELSE {}}
  PROVE  /\ Restored(mem) \in State /\ Prefix(Restored(mem))
         /\ Restored(mem) = [mem EXCEPT !.art = Restored(mem).art]
         /\ \A k \in Stages : mem.art[k] # NoId => Restored(mem).art[k] = mem.art[k]
         /\ Sound(Restored(mem), made', borrowed', checks')
         /\ mem.selection > 0 => \A k \in 1 .. 3 : Restored(mem).art[k] # NoId
<1> DEFINE s == Restored(mem)
<1>1. /\ mem \in State /\ MadeInv /\ TypeInv
      /\ Sound(mem, made, borrowed, checks) /\ Sound(mem, made', borrowed', checks')
  BY StillGood DEF IInv, TypeInv, StatesInv, Good
<1>2. /\ s \in State /\ s = [mem EXCEPT !.art = s.art] /\ Prefix(s)
      /\ \A k \in Stages : mem.art[k] # NoId => s.art[k] = mem.art[k]
      /\ \A k \in Stages : mem.art[k] = NoId /\ s.art[k] # NoId =>
           /\ s.art[k] \in mem.heard /\ s.art[k].stage = k
           /\ k = 4 => \A m \in made : m.id = s.art[k] => Matches(s, m)
  BY <1>1, RestoredIs DEF Sound
<1>3. made \subseteq made' /\ borrowed \subseteq borrowed'
  BY <1>1, RecordsGrow DEF Grown
<1>4. ASSUME Executing(mem), NEW k \in Stages, k # 4, mem.art[k] = NoId, s.art[k] # NoId
      PROVE  s.art[k] \in borrowed'
  <2>1. k \in RestoredStages(mem) \ {4}
    BY <1>4 DEF RestoredStages
  <2> QED
    BY <1>4, <2>1
<1> HIDE DEF s
<1>5. \A f \in {"status", "report", "package", "valid", "selection", "about", "heard",
                "phase", "active"} : s[f] = mem[f]
  BY <1>1, <1>2 DEF State
<1>6. ASSUME ~Executing(mem), NEW k \in Stages, k # 4
      PROVE  s.art[k] = mem.art[k]
  <2>1. AllKept(mem)
    BY <1>1, <1>6 DEF Sound
  <2>2. mem.art[k] = NoId /\ s.art[k] # NoId => mem.art[k] # NoId
    BY <1>2, <1>6, <2>1 DEF AllKept
  <2> QED
    BY <1>2, <2>2
<1>7. ASSUME NEW k \in Stages, mem.art[k] # NoId
      PROVE  \A j \in 1 .. k : j \in Stages /\ mem.art[j] # NoId /\ s.art[j] = mem.art[j]
  <2>1. \A j \in 1 .. k - 1 : mem.art[j] # NoId
    BY <1>1, <1>7 DEF Sound, Prefix
  <2>2. \A j \in 1 .. k : j \in Stages /\ (j = k \/ j \in 1 .. k - 1)
    BY DEF Stages
  <2> QED
    BY <1>2, <1>7, <2>1, <2>2
<1>8. ASSUME NEW k \in Stages, mem.art[k] # NoId
      PROVE  s.art[k].stage = k /\ \E m \in made : Stems(m, s.art, k, made, borrowed)
  <2>1. PICK m \in made : Stems(m, mem.art, k, made, borrowed)
    BY <1>1, <1>8 DEF Sound, Fit
  <2>4. s.art[k] = mem.art[k] /\ \A j \in 1 .. k : s.art[j] = mem.art[j]
    BY <1>7, <1>8 DEF Stages
  <2>5. Stems(m, s.art, k, made, borrowed)
    BY <2>1, <2>4, StemsAlike
  <2> QED
    BY <1>1, <1>8, <2>4, <2>5 DEF Sound, Fit
<1>9. ASSUME NEW k \in Stages, mem.art[k] = NoId, s.art[k] # NoId
      PROVE  s.art[k].stage = k /\ \E m \in made : Stems(m, s.art, k, made, borrowed')
  <2>1. PICK m \in made : m.id = s.art[k]
    BY <1>1, <1>2, <1>9 DEF Sound
  <2>2. s.art[k].stage = k /\ (k = 4 => Matches(s, m))
    BY <1>2, <1>9, <2>1
  <2>3. CASE k = 1
    <3>1. DOMAIN m.on = 1 .. m.id.stage - 1
      BY <1>1 DEF MadeInv
    <3>2. PICK j \in Stages : m \in Artifact(j)
      BY <1>1 DEF TypeInv
    <3>3. m.on = [i \in 1 .. j - 1 |-> m.on[i]]
      BY <3>2 DEF Artifact
    <3>4. DOMAIN m.on = 1 .. j - 1 /\ DOMAIN m.on = 1 .. 1 - 1
      BY <2>1, <2>2, <2>3, <3>1, <3>3
    <3>5. m.on = [i \in 1 .. 1 - 1 |-> m.on[i]]
      BY <3>3, <3>4
    <3>6. \A i \in 1 .. 1 - 1 : m.on[i] = s.art[i]
      OBVIOUS
    <3>7. m.on = Before(s.art, k)
      BY <2>3, <3>5, <3>6 DEF Before
    <3> QED
      BY <2>1, <2>2, <3>7, StemsFresh
  <2>4. CASE k \in 2 .. 3
    <3>1. Executing(mem)
      BY <1>6, <1>9, <2>4
    <3>2. s.art[k] \in borrowed'
      BY <1>4, <1>9, <2>4, <3>1
    <3>3. k \in 2 .. k
      BY <2>4
    <3> QED
      BY <2>1, <2>2, <2>4, <3>2, <3>3 DEF Stems, ByName
  <2>5. CASE k = 4
    <3>1. \A i \in 2 .. 3 : i \in Stages /\ s.art[i] # NoId
      <4>1. \A i \in 2 .. 3 : i \in 1 .. k - 1 /\ i \in Stages
        BY <2>5 DEF Stages
      <4> QED
        BY <1>2, <1>9, <4>1 DEF Prefix
    <3>2. ASSUME Unambiguous(made)
          PROVE  m.on = Before(s.art, 4) \/ \E j \in 2 .. 3 : s.art[j] \in borrowed'
      <4>1. ASSUME NEW i \in 2 .. 3, mem.art[i] = NoId
            PROVE  s.art[i] \in borrowed'
        <5>1. i # 4 /\ i \in Stages /\ s.art[i] # NoId
          BY <3>1
        <5>2. Executing(mem)
          BY <1>6, <4>1, <5>1
        <5> QED
          BY <1>4, <4>1, <5>1, <5>2
      <4>2. CASE \A i \in 2 .. 3 : mem.art[i] # NoId
        <5>1. \A i \in 2 .. 3 : s.art[i] # NoId /\ Fit(s.art, i, made, borrowed)
          BY <1>8, <3>1, <4>2 DEF Fit
        <5>2. m.id.stage = 4 /\ Matches(s, m)
          BY <2>1, <2>2, <2>5
        <5>3. m.on = Before(s.art, 4) \/ \E j \in 2 .. 3 : s.art[j] \in borrowed
          BY <1>1, <3>2, <5>1, <5>2, ReviewStems
        <5> QED
          BY <1>3, <5>3
      <4> QED
        BY <4>1, <4>2
    <3>3. \A j \in 2 .. 3 : j \in 2 .. 4
      OBVIOUS
    <3>4. Stems(m, s.art, k, made, borrowed')
      <4>1. ByName(m, s.art, 4)
        BY <2>1, <2>2, <2>5, ReviewByName
      <4> QED
        BY <2>1, <2>5, <3>2, <3>3, <4>1 DEF Stems
    <3> QED
      BY <2>2, <3>4
  <2>6. k = 1 \/ k \in 2 .. 3 \/ k = 4
    BY DEF Stages
  <2> QED
    BY <2>3, <2>4, <2>5, <2>6
<1>10. \A k \in Stages : Fit(s.art, k, made', borrowed')
  <2>1. ASSUME NEW k \in Stages, s.art[k] # NoId
        PROVE  s.art[k].stage = k /\ \E m \in made' : Stems(m, s.art, k, made', borrowed')
    <3>1. CASE mem.art[k] # NoId
      BY <1>3, <1>8, <3>1, StemsStays
    <3>2. CASE mem.art[k] = NoId
      BY <1>3, <1>9, <2>1, <3>2, StemsStays
    <3> QED
      BY <3>1, <3>2
  <2> QED
    BY <2>1 DEF Fit
<1>11. mem.selection > 0 => ContentsMade(s) /\ Contents(s) = Contents(mem)
  <2>1. ASSUME mem.selection > 0
        PROVE  ContentsMade(mem) /\ \A k \in 1 .. 3 : s.art[k] = mem.art[k]
    <3>1. ContentsMade(mem) /\ \A k \in 1 .. 3 : k \in Stages
      BY <1>1, <2>1 DEF Sound, Stages
    <3> QED
      BY <1>2, <3>1 DEF ContentsMade
  <2> QED
    BY <2>1, ContentsAgree
<1>12. AllKept(mem) => AllKept(s)
  BY <1>1, <1>2, <1>5 DEF AllKept, Sound
<1>13. Sound(s, made', borrowed', checks')
  BY <1>1, <1>2, <1>5, <1>10, <1>11, <1>12 DEF Sound, Executing
<1> QED
  BY <1>2, <1>11, <1>13 DEF s, ContentsMade

\* The next stage is past what there is, so that nothing but the selection and its
\* package is cleared.
LEMMA NextKeeps ==
  ASSUME NEW s \in State, Prefix(s), NextStage(s) \in Stages
  PROVE  \A k \in Stages : Cleared(s, NextStage(s)).art[k] = s.art[k]
<1> DEFINE n == NextStage(s)
<1>1. n \in Stages /\ n # 5
  BY DEF Stages
<1>2. \A k \in Stages : s.art[k] # NoId <=> k < n
  BY <1>1, NextStageIs
<1>3. \A k \in Stages : Cleared(s, n).art[k] = IF k < n THEN s.art[k] ELSE NoId
  BY <1>1, ClearedIs
<1> HIDE DEF n
<1>4. \A k \in Stages : Cleared(s, n).art[k] = s.art[k]
  BY <1>2, <1>3
<1> QED
  BY <1>4 DEF n

\* A failed workflow is recovered.
LEMMA RecoverGood ==
  ASSUME IInv, [Next]_vars, Recover
  PROVE  Good(mem', made', borrowed', checks', finals', results')
<1> DEFINE G(s) == Good(s, made', borrowed', checks', finals', results')
<1>1. mem \in State /\ mem' \in State /\ G(mem) /\ G(disk)
      /\ Bound(mem, made', borrowed', checks', finals')
  BY StillGood, StatesTyped DEF IInv, TypeInv
<1>2. CASE Leave("refused")
  BY <1>1, <1>2 DEF Leave
<1>3. CASE ~Leave("refused")
  <2> DEFINE s == Restored(mem)
             n == NextStage(s)
  <2>1. /\ mem.status = "FAILED"
        /\ mem' = s \/ (n \in Stages /\ mem' = Cleared(s, n))
        /\ borrowed' = borrowed \union
             {s.art[k] : k \in IF Executing(mem) THEN RestoredStages(mem) \ {4} ELSE {}}
    BY <1>3, RecoverIs
  <2>2. /\ s \in State /\ Prefix(s) /\ s = [mem EXCEPT !.art = s.art]
        /\ Sound(s, made', borrowed', checks')
    BY <2>1, RestoredSound
  <2>3. n \in Stages => \A k \in Stages : Cleared(s, n).art[k] = s.art[k]
    BY <2>2, NextKeeps
  <2> HIDE DEF n
  <2>4. n \in Stages =>
          /\ Cleared(s, n).selection = 0
          /\ \A f \in {"status", "report", "heard", "phase", "active"} : Cleared(s, n)[f] = s[f]
    BY <2>2, ClearedIs
  <2> HIDE DEF s
  <2>5. \A f \in {"status", "report", "package", "valid", "selection", "about", "heard",
                  "phase", "active"} : s[f] = mem[f]
    BY <1>1, <2>2 DEF State
  <2>6. n \in Stages => (AllKept(Cleared(s, n)) <=> AllKept(s))
    BY <2>2, <2>3, <2>4 DEF AllKept, Sound
  <2>7. n \in Stages => Sound(Cleared(s, n), made', borrowed', checks')
    BY <2>2, <2>6, ClearedSound DEF Sound
  <2>8. Sound(mem', made', borrowed', checks')
    BY <2>1, <2>2, <2>7
  <2>9. mem'.status = "FAILED" /\ mem'.report = mem.report /\ mem'.phase = mem.phase
        /\ mem'.active = mem.active /\ (mem'.selection = mem.selection \/ mem'.selection = 0)
    BY <2>1, <2>4, <2>5
  <2>10. ~PlanOf(mem)
    BY <1>1, <2>1 DEF Bound
  <2>11. mem'.selection <= finals'
    <3>1. 0 <= finals'
      BY TypeStep DEF TypeInv
    <3> QED
      BY <1>1, <2>9, <3>1 DEF Bound
  <2>12. Bound(mem', made', borrowed', checks', finals')
    BY <1>1, <2>9, <2>10, <2>11 DEF Bound, PlanOf, Executing
  <2> QED
    BY <1>1, <2>8, <2>9, <2>12 DEF Good
<1> QED
  BY <1>2, <1>3

\* The human combines candidates or selects.
LEMMA HumanGood ==
  ASSUME IInv, [Next]_vars, Integrate \/ Select
  PROVE  Good(mem', made', borrowed', checks', finals', results')
<1> USE DEF Save, Goto
<1> DEFINE G(s) == Good(s, made', borrowed', checks', finals', results')
<1>1. mem \in State /\ mem' \in State /\ CommandInv /\ TypeInv /\ G(mem) /\ G(disk)
      /\ Sound(mem, made', borrowed', checks') /\ Bound(mem, made', borrowed', checks', finals')
  BY StillGood, StatesTyped DEF IInv, TypeInv
<1>2. CASE mem' = disk
  BY <1>1, <1>2
<1>3. pc = "idle" /\ mem = disk /\ Waits(mem, made)
  <2>1. pc = "idle"
    BY DEF Integrate, Combine, Select, Command
  <2> QED
    BY <1>1, <2>1 DEF CommandInv, IInv, StatesInv
<1>4. CASE mem' # disk /\ Integrate
  <2> DEFINE ar == [mem.art EXCEPT ![4] = NoId]
  <2>1. mem.status = "WAITING_HUMAN_SELECTION" /\ mem' = [mem EXCEPT !.art = ar]
    BY <1>1, <1>4 DEF Integrate, Combine, Leave, State
  <2>2. \A k \in Stages : ar[k] = IF k = 4 THEN NoId ELSE mem.art[k]
    BY <1>1 DEF State, Art
  <2> HIDE DEF ar
  <2>3. mem'.art = ar
        /\ \A f \in {"status", "report", "package", "valid", "selection", "about", "heard",
                     "phase", "active"} : mem'[f] = mem[f]
    BY <1>1, <2>1 DEF State
  <2>4. mem.selection = 0
    BY <1>3, <2>1 DEF Waits
  <2>5. ASSUME NEW k \in Stages, ar[k] # NoId
        PROVE  /\ ar[k].stage = k /\ \E m \in made' : Stems(m, ar, k, made', borrowed')
               /\ \A j \in 1 .. k - 1 : ar[j] # NoId
    <3>1. k # 4 /\ ar[k] = mem.art[k]
      BY <2>2, <2>5
    <3>2. \A j \in 1 .. k : j \in Stages /\ ar[j] = mem.art[j]
      BY <2>2, <3>1 DEF Stages
    <3>3. PICK m \in made' : Stems(m, mem.art, k, made', borrowed')
      BY <1>1, <2>5, <3>1 DEF Sound, Fit
    <3>6. Stems(m, ar, k, made', borrowed')
      BY <3>2, <3>3, StemsAlike
    <3>7. \A j \in 1 .. k - 1 : j \in 1 .. k /\ ar[j] # NoId
      BY <1>1, <2>5, <3>1, <3>2 DEF Sound, Prefix, Stages
    <3>8. ar[k].stage = k
      BY <1>1, <2>5, <3>1 DEF Sound, Fit
    <3> QED
      BY <3>6, <3>7, <3>8
  <2>6. Sound(mem', made', borrowed', checks')
    BY <1>1, <2>1, <2>3, <2>4, <2>5 DEF Sound, Fit, Prefix
  <2>7. ~PlanOf(mem)
    BY <1>1, <2>1 DEF Bound
  <2>8. Bound(mem', made', borrowed', checks', finals')
    BY <1>1, <2>3, <2>7, BoundAlike DEF PlanOf, Executing
  <2> QED
    BY <1>1, <2>3, <2>6, <2>8 DEF Good
<1>5. CASE mem' # disk /\ Select
  <2>1. /\ mem.status = "WAITING_HUMAN_SELECTION" /\ mem.art[4] # NoId
        /\ finals' = finals + 1
        /\ mem' = [mem EXCEPT !.selection = finals + 1, !.about = mem.package.of]
    BY <1>5 DEF Select, Selectable, Leave
  <2>2. mem'.selection = finals' /\ mem'.about = mem.package.of
        /\ \A f \in {"status", "report", "art", "package", "valid", "heard", "phase",
                     "active"} : mem'[f] = mem[f]
    BY <1>1, <2>1 DEF State
  <2>3. ContentsMade(mem) /\ mem.package.of = Contents(mem)
    BY <1>3, <2>1 DEF Waits
  <2>4. ContentsMade(mem') /\ Contents(mem') = Contents(mem) /\ Prefix(mem')
    BY <1>1, <2>2, <2>3 DEF ContentsMade, Contents, Prefix, Sound
  <2>5. Sound(mem', made', borrowed', checks')
    BY <1>1, <2>1, <2>2, <2>3, <2>4 DEF Sound
  <2>6. ~PlanOf(mem)
    BY <1>1, <2>1 DEF Bound
  <2>7. finals' <= finals'
    BY TypeStep DEF TypeInv
  <2>8. Bound(mem', made', borrowed', checks', finals')
    BY <1>1, <2>2, <2>6, <2>7 DEF Bound, PlanOf, Executing
  <2> QED
    BY <1>1, <2>2, <2>5, <2>8 DEF Good
<1> QED
  BY <1>2, <1>4, <1>5

\* What is saved is what the command works on.
LEMMA DiskIs == [Next]_vars => disk' = disk \/ disk' = mem'
BY DEF Next, vars, calls, exchange, ends, Line, Judge, Revision, Human, Recovery,
   Around, Ask, Answer, Keep, Package, Review, Approve, WaitForHuman, Overruled, Unsettled,
   Stop, Plan, SavePlan, AskDeliberation, Asked, Resume, Resumed, Revise, Activate, Limit,
   Exhausted, Authorize, Begin, Resend, Resent, Settled, Settle, ProviderRetry, Recover,
   Integrate, Combine, Select, Send, SendFails, SentAgain, Sent, Crash,
   DeliberationFiles, DeliberationHands, PlaywrightAsks, Save, SaveAndEnd, Leave, Fail, Block

\* The saved state and the copy of the command stay Good.
LEMMA GoodStep ==
  ASSUME IInv, [Next]_vars
  PROVE  /\ Good(disk', made', borrowed', checks', finals', results')
         /\ Good(mem', made', borrowed', checks', finals', results')
<1>1. /\ Good(disk, made', borrowed', checks', finals', results')
      /\ Good(mem, made', borrowed', checks', finals', results')
  BY StillGood
<1>2. Good(mem', made', borrowed', checks', finals', results')
  <2>1. CASE mem' = mem
    BY <1>1, <2>1
  <2>2. CASE mem' = disk
    BY <1>1, <2>2
  <2>3. ASSUME mem' # mem, mem' # disk
        PROVE  \/ Ask \/ Review \/ WaitForHuman \/ Overruled \/ Stop \/ Limit
               \/ Settled \/ Sent \/ SendFails
               \/ Approve \/ Unsettled \/ Resent \/ SentAgain
               \/ Answer \/ Keep \/ Package
               \/ Plan \/ Activate \/ AskDeliberation \/ Resume
               \/ Exhausted \/ Begin \/ Resend
               \/ Recover \/ Integrate \/ Select
    BY <2>3 DEF Next, vars, calls, exchange, ends, Line, Judge, Revision, Human, Recovery,
       Around, SavePlan, Asked, Resumed, Revise, Authorize, ProviderRetry, Send, Crash,
       DeliberationFiles, DeliberationHands, PlaywrightAsks, Save, SaveAndEnd, Leave
  <2>4. CASE \/ Ask \/ Review \/ WaitForHuman \/ Overruled \/ Stop \/ Limit \/ Settled
             \/ Sent \/ SendFails
    BY <2>4, StatusGood
  <2>5. CASE Approve \/ Unsettled \/ Resent \/ SentAgain
    BY <2>5, SettlingGood
  <2>6. CASE Answer \/ Keep \/ Package
    BY <2>6, LineGood
  <2>7. CASE Plan \/ Activate \/ AskDeliberation \/ Resume
    BY <2>7, PlanGood
  <2>8. CASE Exhausted \/ Begin \/ Resend
    BY <2>8, RevisionGood
  <2>9. CASE Recover
    BY <2>9, RecoverGood
  <2>10. CASE Integrate \/ Select
    BY <2>10, HumanGood
  <2> QED
    BY <2>1, <2>2, <2>3, <2>4, <2>5, <2>6, <2>7, <2>8, <2>9, <2>10
<1>3. Good(disk', made', borrowed', checks', finals', results')
  BY <1>1, <1>2, DiskIs
<1> QED
  BY <1>2, <1>3

-----------------------------------------------------------------------------
(* What is written for others.                                               *)

\* Requests are proper, and what lies in Playwright's inbox is sealed.
LEMMA FilesStep == IInv /\ [Next]_vars => FilesInv'
<1> SUFFICES ASSUME IInv, [Next]_vars PROVE FilesInv'
  OBVIOUS
<1>1. TypeInv /\ TypeInv' /\ Grown /\ FilesInv /\ CommandInv /\ mem \in State
  BY TypeStep, RecordsGrow DEF IInv, TypeInv
<1>2. finals \in Nat /\ finals' \in Nat /\ finals <= finals' /\ outbox.final \in Nat
  BY <1>1 DEF TypeInv, Grown
<1>3. \A r \in requests : Proper(r, made', borrowed', checks', finals')
  <2>1. ASSUME NEW r \in requests PROVE Proper(r, made', borrowed', checks', finals')
    <3>1. r \in Request /\ Proper(r, made, borrowed, checks, finals)
      BY <1>1 DEF FilesInv, TypeInv
    <3> QED
      BY <1>1, <1>2, <3>1, ProperStays DEF Grown
  <2> QED
    BY <2>1
<1>4. outbox.final <= finals' /\ (outbox.final > 0 => Sealed(outbox.package, made', borrowed', checks'))
  BY <1>1, <1>2, SealedStays DEF FilesInv, Grown
<1>5. ASSUME NEW r \in requests' PROVE Proper(r, made', borrowed', checks', finals')
  <2>1. CASE r \in requests
    BY <1>3, <2>1
  <2>2. CASE r \notin requests
    <3>1. Plan \/ AskDeliberation \/ Resume \/ PlaywrightAsks
      BY <2>2 DEF Next, vars, calls, exchange, ends, Line, Judge, Revision, Human, Recovery,
         Around, Ask, Answer, Keep, Package, Review, Approve, WaitForHuman, Overruled,
         Unsettled, Stop, SavePlan, Asked, Resumed, Revise, Activate, Limit,
         Exhausted, Authorize, Begin, Resend, Resent, Settled, Settle, ProviderRetry, Recover,
         Integrate, Combine, Select, Send, SendFails, SentAgain, Sent, Crash,
         DeliberationFiles, DeliberationHands
    <3>2. ASSUME r \in Request, r.route \in {"internal", "upstream"}, r.impact = "none",
                 r.route = "internal" => r.first \in 1 .. 3
          PROVE  Proper(r, made', borrowed', checks', finals')
      BY <3>2 DEF Proper
    <3>3. CASE Plan
      <4>1. r = InternalRequest(mem) /\ pc = "plan"
        BY <2>2, <3>3 DEF Plan
      <4>2. /\ InternalRequest(mem) \in Request /\ InternalRequest(mem).route = "internal"
            /\ InternalRequest(mem).impact = "none" /\ InternalRequest(mem).first \in 1 .. 3
        BY <4>1, InternalRequestIs
      <4> QED
        BY <3>2, <4>1, <4>2
    <3>4. CASE AskDeliberation
      <4>1. requests' # requests
        BY <2>2
      <4>2. PICK q \in Request : /\ q.route = "upstream" /\ q.impact = "none"
                                /\ requests' = requests \union {q}
        BY <3>4, <4>1, AskDeliberationIs
      <4>3. r = q
        BY <2>2, <4>2
      <4> QED
        BY <3>2, <4>2, <4>3
    <3>5. CASE Resume
      <4>1. requests' # requests
        BY <2>2
      <4>2. PICK q \in Request : /\ q.route = "internal" /\ q.impact = "none" /\ q.first = 1
                                /\ requests' = requests \union {q}
        BY <3>5, <4>1, ResumeIs
      <4>3. r = q
        BY <2>2, <4>2
      <4> QED
        BY <3>2, <4>2, <4>3
    <3>6. CASE PlaywrightAsks
      <4>1. /\ outbox.final > 0 /\ r.route = "playwright" /\ r.impact # "none"
            /\ r.first \in 1 .. 3 /\ r.package = outbox.package /\ r.final = outbox.final
        BY <1>1, <2>2, <3>6, PlaywrightAsksIs
      <4> QED
        BY <1>4, <4>1 DEF Proper
    <3> QED
      BY <3>1, <3>3, <3>4, <3>5, <3>6
  <2> QED
    BY <2>1, <2>2
<1>6. outbox'.final <= finals'
      /\ (outbox'.final > 0 => Sealed(outbox'.package, made', borrowed', checks'))
  <2>1. CASE UNCHANGED outbox
    BY <1>4, <2>1
  <2>2. CASE ~UNCHANGED outbox
    <3>1. Send \/ Resend
      BY <2>2 DEF Next, vars, calls, exchange, ends, Line, Judge, Revision, Human, Recovery,
         Around, Ask, Answer, Keep, Package, Review, Approve, WaitForHuman, Overruled,
         Unsettled, Stop, Plan, SavePlan, AskDeliberation, Asked, Resume, Resumed, Revise,
         Activate, Limit, Exhausted, Authorize, Begin, Resent, Settled, Settle, ProviderRetry,
         Recover, Integrate, Combine, Select, SendFails, SentAgain, Sent, Crash,
         DeliberationFiles, DeliberationHands, PlaywrightAsks
    <3>2. outbox'.final = mem.selection /\ outbox'.package = mem.package
      BY <3>1 DEF Send, Resend, Handoff
    <3>3. Bound(mem, made', borrowed', checks', finals')
      BY StillGood
    <3>4. Sealed(mem.package, made', borrowed', checks')
      <4>1. CASE Send
        <5>1. Sealed(mem.package, made, borrowed, checks)
          BY <1>1, <4>1 DEF Send, CommandInv
        <5> QED
          BY <1>1, <5>1, SealedStays DEF Grown
      <4>2. CASE Resend
        <5>1. PlanOf(mem) /\ mem.active.impact = "unchanged"
          BY <1>1, <4>2 DEF Resend, CommandInv
        <5>2. mem.active.route = "playwright"
          BY <3>3, <5>1 DEF Bound, Proper
        <5>3. Sealed(mem.active.package, made', borrowed', checks')
          BY <3>3, <5>2 DEF Bound, Proper
        <5>4. mem.active.package = mem.package
          BY <3>3, <5>1, <5>2 DEF Bound, Current
        <5> QED
          BY <5>3, <5>4
      <4> QED
        BY <3>1, <4>1, <4>2
    <3> QED
      BY <3>2, <3>3, <3>4 DEF Bound
  <2> QED
    BY <2>1, <2>2
<1> QED
  BY <1>5, <1>6 DEF FilesInv

\* A result that says completed is true.
LEMMA ResultsStep == IInv /\ [Next]_vars => ResultsInv'
<1> SUFFICES ASSUME IInv, [Next]_vars PROVE ResultsInv'
  OBVIOUS
<1>1. TypeInv /\ Grown /\ ResultsInv /\ FilesInv /\ CommandInv /\ mem \in State /\ MadeInv
      /\ Bound(mem, made, borrowed, checks, finals) /\ Sound(mem, made, borrowed, checks)
  BY RecordsGrow DEF IInv, TypeInv, StatesInv, Good
<1>2. \A x \in results : ResultTrue(x, made')
  <2>1. \A x \in results : ResultTrue(x, made)
    BY <1>1 DEF ResultsInv
  <2> QED
    BY <1>1, <2>1, ApprovesStays DEF ResultTrue, Grown
<1>3. ASSUME NEW x \in results', x \notin results
      PROVE  ResultTrue(x, made')
  <2>1. Approve \/ Unsettled \/ Resent \/ SentAgain \/ Resume \/ DeliberationFiles
    BY <1>3 DEF Next, vars, calls, exchange, ends, Line, Judge, Revision, Human, Recovery,
       Around, Ask, Answer, Keep, Package, Review, WaitForHuman, Overruled,
       Stop, Plan, SavePlan, AskDeliberation, Asked, Resumed, Revise, Activate, Limit,
       Exhausted, Authorize, Begin, Resend, Settled, ProviderRetry, Recover,
       Integrate, Combine, Select, Send, SendFails, Sent, Crash,
       DeliberationHands, PlaywrightAsks
  <2>2. CASE Approve
    <3> DEFINE s == [mem EXCEPT !.package.review = mem.art[4]]
    <3>1. SettlesByReview(mem) /\ x = Result(s, "completed") /\ Approved(mem) /\ pc = "judge"
      BY <1>3, <2>2 DEF Approve, WriteResult
    <3>2. s.package.review = mem.art[4] /\ s.active = mem.active
      BY <1>1 DEF State, Parcel
    <3> HIDE DEF s
    <3>3. x.request = mem.active /\ x.package.review = mem.art[4]
      BY <3>1, <3>2 DEF Result
    <3>4. Executing(mem) /\ mem.active.route = "internal" /\ mem.active.impact = "none"
      BY <1>1, <3>1 DEF SettlesByReview, ForPlaywright, Bound, Proper
    <3>5. mem.art[4] # NoId
      BY <1>1, <3>1 DEF CommandInv
    <3>6. Fit(mem.art, 4, made, borrowed)
      BY <1>1 DEF Sound, Stages
    <3>7. Approves(mem.art[4], made)
      BY <1>1, <3>1, <3>5, <3>6, ReviewIs DEF Approved
    <3>8. Approves(mem.art[4], made')
      BY <1>1, <3>7, ApprovesStays DEF Grown
    <3> QED
      BY <3>3, <3>4, <3>5, <3>8 DEF ResultTrue
  <2>3. CASE Unsettled
    <3>1. x = Result(mem, "partial")
      BY <1>3, <2>3 DEF Unsettled, WriteResult
    <3> QED
      BY <3>1 DEF Result, ResultTrue
  <2>4. CASE Resent \/ SentAgain
    <3>1. x = Result(mem, "completed") /\ Executing(mem)
      BY <1>3, <2>4 DEF Resent, SentAgain, Settle, WriteResult
    <3>2. x.request = mem.active /\ x.final = mem.selection
      BY <3>1 DEF Result
    <3>3. CASE Resent
      <4>1. mem.active.impact = "unchanged" /\ mem.selection = mem.active.final
        BY <1>1, <3>3 DEF Resent, Settle, CommandInv
      <4>2. mem.active.route = "playwright"
        BY <1>1, <4>1 DEF Bound, Proper
      <4> QED
        BY <3>2, <4>1, <4>2 DEF ResultTrue
    <3>4. CASE SentAgain
      <4>1. ForPlaywright(mem) /\ mem.selection > mem.active.final
            /\ mem.active.impact # "unchanged"
        BY <1>1, <3>1, <3>4 DEF SentAgain, Settle, CommandInv
      <4>2. mem.active.route = "playwright"
        BY <4>1 DEF ForPlaywright
      <4> QED
        BY <3>2, <4>1, <4>2 DEF ResultTrue
    <3> QED
      BY <2>4, <3>3, <3>4
  <2>5. CASE Resume
    <3>1. x = Reply(mem.active, "completed", inbox)
          /\ mem.status = "WAITING_UPSTREAM_REVISION"
      BY <1>3, <2>5, ResumeIs
    <3>2. x.request = mem.active /\ mem.active.route = "upstream"
      BY <1>1, <3>1 DEF Reply, Bound
    <3>3. mem.active.impact = "none"
      BY <1>1, <3>2 DEF Bound, Proper
    <3> QED
      BY <3>2, <3>3 DEF ResultTrue
  <2>6. CASE DeliberationFiles
    <3>1. PICK r \in Upstream, st \in {"completed", "partial"} : x = Reply(r, st, inbox + 1)
      BY <1>3, <2>6 DEF DeliberationFiles
    <3>2. x.request = r /\ r.route = "upstream" /\ r \in requests
      BY <3>1 DEF Reply, Upstream
    <3>3. r.impact = "none"
      BY <1>1, <3>2 DEF FilesInv, Proper
    <3> QED
      BY <3>2, <3>3 DEF ResultTrue
  <2> QED
    BY <2>1, <2>2, <2>3, <2>4, <2>5, <2>6
<1> QED
  BY <1>2, <1>3 DEF ResultsInv

-----------------------------------------------------------------------------
(* Where the command is.                                                     *)

\* A command that ends leaves nothing but the state.
LEMMA EndStep ==
  ASSUME IInv, [Next]_vars, pc' = "idle", run' = NoRun, mem' = disk',
         Executing(mem') => mem'.active.impact # "unchanged"
  PROVE  CommandInv'
<1>1. \A k \in Stages : run'.ids[k] = NoId
  BY NothingTyped
<1> QED
  BY <1>1 DEF CommandInv, Walking, Making

\* Saving changes neither the revision nor what it is about.
LEMMA EndsStep ==
  ASSUME IInv, [Next]_vars, pc' = "idle", pc # "idle"
  PROVE  CommandInv'
<1> USE DEF Save, SaveAndEnd, Goto, Block, Fail, End
<1>1. mem \in State /\ CommandInv /\ (Executing(disk) => disk.active.impact # "unchanged")
  BY DEF IInv, TypeInv, StatesInv
<1>2. CASE \E how : Leave(how)
  <2>1. mem' = disk /\ disk' = disk /\ run' = NoRun
    BY <1>2 DEF Leave
  <2> QED
    BY <1>1, <2>1, EndStep DEF Executing
<1>3. CASE ~ \E how : Leave(how)
  <2>1. /\ ~Ask /\ ~Package /\ ~Review /\ ~Approve /\ ~Begin /\ ~Authorize /\ ~Resend /\ ~Send
        /\ ~Unsettled
    BY DEF Ask, Package, Review, Approve, Begin, Authorize, Resend, Send, Unsettled
  <2>2. ~Keep
    <3>1. Keep => run.at \in Stages
      BY <1>1 DEF Keep, CommandInv, Making, AtStage
    <3>2. \A k \in Stages : <<"ask", "ask", "package", "judge">>[k] # "idle"
      BY DEF Stages
    <3> QED
      BY <3>1, <3>2 DEF Keep
  <2>3. ~Revise /\ ~Resume /\ ~Recover /\ ~Integrate /\ ~Select
    BY DEF Revise, Resume, Recover, Integrate, Combine, Select, Command
  <2>4. ~Crash /\ ~Plan /\ ~AskDeliberation /\ ~Activate /\ ~Resent /\ ~SentAgain
    BY <1>3 DEF Crash, Plan, AskDeliberation, Activate, Resent, SentAgain, Settle
  <2>5. /\ ~DeliberationFiles /\ ~DeliberationHands /\ ~PlaywrightAsks /\ ~ProviderRetry
        /\ ~UNCHANGED vars
    BY DEF DeliberationFiles, DeliberationHands, PlaywrightAsks, ProviderRetry, vars
  <2>6. \/ Answer \/ WaitForHuman \/ Overruled \/ Stop \/ SavePlan \/ Asked \/ Resumed
        \/ Limit \/ Exhausted \/ Settled \/ Sent \/ SendFails
    BY <2>1, <2>2, <2>3, <2>4, <2>5 DEF Next, Line, Judge, Revision, Human, Recovery, Around
  <2>7. /\ run' = NoRun /\ mem' = disk' /\ pc # "resent"
        /\ mem'.active = mem.active /\ (mem'.phase = mem.phase \/ mem'.phase = "blocked")
    BY <1>1, <2>6 DEF Answer, WaitForHuman, Overruled, Stop, SavePlan, Asked, Resumed, Limit,
       Exhausted, Settled, Sent, SendFails, State
  <2> QED
    BY <1>1, <2>7, EndStep DEF CommandInv, Executing
<1> QED
  BY <1>2, <1>3

\* States that differ in none of this differ neither in what they have kept nor packed.
LEMMA KeptAlike ==
  ASSUME NEW s, NEW t, t.art = s.art
  PROVE  /\ t.heard = s.heard => (AllKept(t) <=> AllKept(s))
         /\ (Packed(s) /\ t.package.of = s.package.of /\ t.selection = s.selection
               /\ t.valid = s.valid) => Packed(t)
BY DEF AllKept, Packed, ContentsMade, Contents

\* The request for a call is saved: what it is about does not change.
LEMMA AskStep ==
  ASSUME IInv, [Next]_vars, Ask
  PROVE  CommandInv'
<1>1. mem \in State /\ CommandInv
  BY DEF IInv, TypeInv
<1>2. pc = "ask" /\ pc' = "answer" /\ run' = run /\ mem' = [mem EXCEPT !.status = Working[run.at]]
      /\ UNCHANGED <<made, borrowed>>
  BY DEF Ask, Save, Goto, calls
<1>3. AtStage /\ ~PlanOf(mem) /\ (~Executing(mem) => AllKept(mem))
      /\ (Executing(mem) => mem.active.impact # "unchanged")
      /\ \A k \in Stages : run.ids[k] # NoId => run.ids[k].stage = k
  BY <1>1, <1>2 DEF CommandInv, Walking, Making
<1>4. mem'.status = Working[run.at] /\ \A f \in {"art", "package", "selection", "valid", "heard",
                                                  "phase", "active"} : mem'[f] = mem[f]
  BY <1>1, <1>2 DEF State
<1>5. mem'.status \notin {"FAILED", "WAITING_HUMAN_SELECTION"}
  <2>1. run.at \in 1 .. 4
    BY <1>3 DEF AtStage, Stages
  <2> QED
    BY <1>4, <2>1 DEF Working
<1>6. AtStage'
  BY <1>2, <1>3, <1>4, KeptAlike DEF AtStage
<1>7. ~PlanOf(mem') /\ (Executing(mem') <=> Executing(mem)) /\ (AllKept(mem') <=> AllKept(mem))
  BY <1>3, <1>4, KeptAlike DEF PlanOf, Executing
<1> QED
  BY <1>2, <1>3, <1>4, <1>5, <1>6, <1>7 DEF CommandInv, Walking, Making

\* An answer brings the artifact of the stage, made from those before it.
LEMMA AnswerStep ==
  ASSUME IInv, [Next]_vars, Answer
  PROVE  CommandInv'
<1> DEFINE id == StageId(run.at)
<1>1. mem \in State /\ CommandInv /\ TypeInv /\ run \in Run
  BY DEF IInv, TypeInv
<1>2. CASE pc' = "idle"
  <2>1. pc # "idle"
    BY DEF Answer
  <2> QED
    BY <1>2, <2>1, EndsStep
<1>3. CASE pc' # "idle"
  <2>1. PICK m \in Brought(id) : made' = made \union {m}
    BY <1>3 DEF Answer, Fail, SaveAndEnd, End
  <2>2. pc = "answer" /\ pc' = "keep" /\ mem' = [mem EXCEPT !.heard = mem.heard \union {id}]
        /\ run' = [run EXCEPT !.ids[run.at] = id] /\ borrowed' = borrowed
    BY <1>3 DEF Answer, Fail, SaveAndEnd, End, Save, Goto
  <2>3. AtStage /\ ~PlanOf(mem) /\ (~Executing(mem) => AllKept(mem))
        /\ (Executing(mem) => mem.active.impact # "unchanged")
        /\ mem.status \notin {"FAILED", "WAITING_HUMAN_SELECTION"}
        /\ \A k \in Stages : run.ids[k] # NoId => run.ids[k].stage = k
    BY <1>1, <2>2 DEF CommandInv, Walking, Making
  <2>4. run.at \in Stages
    BY <2>3 DEF AtStage
  <2>5. id \in Task /\ id.stage = run.at /\ id # NoId
    BY <1>1, <2>4, StageIdIs
  <2>6. m.id = id /\ m.on = Before(mem.art, run.at)
    BY <1>1, <2>4, <2>5, BroughtTyped
  <2> HIDE DEF id
  <2>7. mem'.heard = mem.heard \union {id}
        /\ \A f \in {"status", "art", "package", "selection", "valid", "phase", "active"} :
             mem'[f] = mem[f]
    BY <1>1, <2>2 DEF State
  <2>8. run'.at = run.at /\ \A k \in Stages : run'.ids[k] = IF k = run.at THEN id ELSE run.ids[k]
    BY <1>1, <2>2 DEF Run, Art
  <2>9. AtStage'
    BY <2>3, <2>7, <2>8, KeptAlike DEF AtStage
  <2>10. ~PlanOf(mem') /\ (Executing(mem') <=> Executing(mem))
    BY <2>3, <2>7 DEF PlanOf, Executing
  <2> DEFINE ar == [mem'.art EXCEPT ![run'.at] = run'.ids[run'.at]]
             t == [mem' EXCEPT !.art = ar]
  <2>11. mem' \in State /\ mem'.art \in Art
    BY TypeStep DEF TypeInv, State
  <2>12. [mem' EXCEPT !.art[run'.at] = run'.ids[run'.at]] = t
    BY <2>11 DEF State
  <2>13. \A k \in Stages : ar[k] = IF k = run.at THEN id ELSE mem.art[k]
    BY <2>4, <2>7, <2>8, <2>11 DEF Art
  <2>14. t.art = ar /\ t.heard = mem.heard \union {id}
    BY <2>7, <2>11 DEF State
  <2> HIDE DEF ar, t
  <2>15. ~Executing(mem) => AllKept(t)
    <3>1. \A i \in mem.heard : i.stage \in Stages
      BY DEF IInv, StatesInv, Good, Sound
    <3> QED
      BY <2>3, <2>4, <2>5, <2>13, <2>14, <3>1 DEF AllKept
  <2>16. AtKeep'
    <3>1. run'.ids[run'.at] = id
      BY <2>4, <2>8
    <3>2. \A j \in 1 .. run.at - 1 : ar[j] = mem.art[j]
      BY <2>4, <2>13 DEF Stages
    <3>3. Before(ar, run.at) = Before(mem.art, run.at)
      BY <2>4, <3>2, BeforeAgrees
    <3>4. Stems(m, ar, run'.at, made', borrowed')
      BY <2>4, <2>6, <2>8, <2>13, <3>3, StemsFresh
    <3>5. m \in made'
      BY <2>1
    <3> QED
      BY <2>5, <3>1, <3>4, <3>5 DEF AtKeep, ar
  <2>17. \A k \in Stages : run'.ids[k] # NoId => run'.ids[k].stage = k
    BY <2>3, <2>5, <2>8
  <2> QED
    BY <2>2, <2>3, <2>7, <2>9, <2>10, <2>12, <2>15, <2>16, <2>17
    DEF CommandInv, Walking, Making
<1> QED
  BY <1>2, <1>3

\* The checkpoint of a stage leads to the next one.
LEMMA KeepStep ==
  ASSUME IInv, [Next]_vars, Keep
  PROVE  CommandInv'
<1> DEFINE ar == [mem.art EXCEPT ![run.at] = run.ids[run.at]]
<1>1. mem \in State /\ CommandInv /\ run \in Run /\ mem.art \in Art
  BY DEF IInv, TypeInv, State
<1>2. pc = "keep" /\ pc' = <<"ask", "ask", "package", "judge">>[run.at]
      /\ mem' = [mem EXCEPT !.art[run.at] = run.ids[run.at]]
      /\ run' = [run EXCEPT !.at = run.at + 1] /\ UNCHANGED <<made, borrowed>>
  BY DEF Keep, Save, Goto, calls
<1>3. AtStage /\ AtKeep /\ ~PlanOf(mem)
      /\ (~Executing(mem) => AllKept([mem EXCEPT !.art[run.at] = run.ids[run.at]]))
      /\ (Executing(mem) => mem.active.impact # "unchanged")
      /\ mem.status # "WAITING_HUMAN_SELECTION"
      /\ \A k \in Stages : run.ids[k] # NoId => run.ids[k].stage = k
  BY <1>1, <1>2 DEF CommandInv, Walking, Making
<1>4. run.at \in Stages /\ run.ids[run.at] # NoId
  BY <1>3 DEF AtStage, AtKeep
<1>5. mem' = [mem EXCEPT !.art = ar]
  BY <1>1, <1>2 DEF State
<1>6. \A k \in Stages : ar[k] = IF k = run.at THEN run.ids[run.at] ELSE mem.art[k]
  BY <1>1, <1>4 DEF Art
<1> HIDE DEF ar
<1>7. mem'.art = ar /\ \A f \in {"status", "package", "selection", "valid", "heard", "phase",
                                 "active"} : mem'[f] = mem[f]
  BY <1>1, <1>5 DEF State
<1>8. run'.at = run.at + 1 /\ run'.ids = run.ids
  BY <1>1, <1>2 DEF Run
<1>9. ~PlanOf(mem') /\ (Executing(mem') <=> Executing(mem))
      /\ (~Executing(mem) => AllKept(mem'))
  BY <1>2, <1>3, <1>7 DEF PlanOf, Executing
<1>10. \A k \in Stages : k <= run.at => mem'.art[k] # NoId
  BY <1>3, <1>4, <1>6, <1>7 DEF AtStage, Stages
<1>11. \A k \in Stages : k > run.at => mem'.art[k] = NoId
  BY <1>3, <1>4, <1>6, <1>7 DEF AtStage, Stages
<1>12. CASE run.at \in {1, 2}
  <2>1. pc' = "ask"
    BY <1>2, <1>12
  <2>2. AtStage'
    BY <1>3, <1>7, <1>8, <1>10, <1>11, <1>12 DEF AtStage, Stages
  <2> QED
    BY <1>3, <1>7, <1>8, <1>9, <2>1, <2>2 DEF CommandInv, Walking, Making
<1>13. CASE run.at = 3
  <2>1. pc' = "package"
    BY <1>2, <1>13
  <2>2. ContentsMade(mem')
    BY <1>10, <1>13 DEF ContentsMade, Stages
  <2> QED
    BY <1>3, <1>7, <1>8, <1>9, <2>1, <2>2 DEF CommandInv, Walking, Making
<1>14. CASE run.at = 4
  <2>1. pc' = "judge" /\ mem'.art[4] # NoId
    BY <1>2, <1>10, <1>14 DEF Stages
  <2>2. \A n \in 1 .. 3 : mem'.art[n] = mem.art[n]
    BY <1>6, <1>7, <1>14 DEF Stages
  <2>3. Contents(mem') = Contents(mem) /\ (ContentsMade(mem') <=> ContentsMade(mem))
    BY <2>2, ContentsAgree
  <2>4. Packed(mem')
    BY <1>3, <1>7, <1>14, <2>3 DEF AtStage, Packed
  <2> QED
    BY <1>3, <1>7, <1>8, <1>9, <2>1, <2>4 DEF CommandInv, Walking, Making
<1> QED
  BY <1>4, <1>12, <1>13, <1>14 DEF Stages

\* A package is about the contents there are.
LEMMA PackageStep ==
  ASSUME IInv, [Next]_vars, Package
  PROVE  CommandInv'
<1>1. mem \in State /\ CommandInv
  BY DEF IInv, TypeInv
<1>2. PICK v \in BOOLEAN :
        mem' = [mem EXCEPT !.package = [of |-> Contents(mem), report |-> mem.report,
                                        review |-> NoId],
                           !.valid = Passes(mem, v)]
  BY DEF Package, Save
<1>3. pc = "package" /\ pc' = "review" /\ run' = run
  BY DEF Package, Goto
<1>4. ContentsMade(mem) /\ ~PlanOf(mem) /\ mem.status # "WAITING_HUMAN_SELECTION"
      /\ (Executing(mem) => mem.active.impact # "unchanged")
      /\ \A k \in Stages : run.ids[k] # NoId => run.ids[k].stage = k
  BY <1>1, <1>3 DEF CommandInv, Walking
<1>5. mem'.package.of = Contents(mem) /\ mem'.valid = Passes(mem, v)
      /\ \A f \in {"status", "art", "selection", "phase", "active"} : mem'[f] = mem[f]
  BY <1>1, <1>2 DEF State
<1>6. Contents(mem') = Contents(mem) /\ (ContentsMade(mem') <=> ContentsMade(mem))
  BY <1>5, ContentsAgree
<1>7. Packed(mem')
  BY <1>4, <1>5, <1>6 DEF Packed, Passes
<1>8. ~PlanOf(mem') /\ (Executing(mem') <=> Executing(mem))
  BY <1>4, <1>5 DEF PlanOf, Executing
<1> QED
  BY <1>3, <1>4, <1>5, <1>7, <1>8 DEF CommandInv, Walking, Making

\* A saved review that is used again is about what there is, or about what is borrowed.
LEMMA ReviewStep ==
  ASSUME IInv, [Next]_vars, Review
  PROVE  CommandInv'
<1> DEFINE id == StageId(4)
<1>1. mem \in State /\ CommandInv /\ run \in Run /\ TypeInv /\ MadeInv /\ 4 \in Stages
      /\ Sound(mem, made, borrowed, checks)
  BY DEF IInv, TypeInv, StatesInv, Good, Stages
<1>2. pc = "review" /\ pc' = (IF Fits(mem, id) THEN "keep" ELSE "ask")
      /\ run' = [run EXCEPT !.at = 4, !.ids[4] = id]
      /\ mem' = [mem EXCEPT !.status = "REVIEWING"] /\ UNCHANGED <<made, borrowed>>
  BY DEF Review, Goto, calls
<1>3. Packed(mem) /\ ~PlanOf(mem) /\ (Executing(mem) => mem.active.impact # "unchanged")
      /\ \A k \in Stages : run.ids[k] # NoId => run.ids[k].stage = k
  BY <1>1, <1>2 DEF CommandInv, Walking
<1>4. id \in Task /\ id.stage = 4 /\ id # NoId
  BY <1>1, StageIdIs
<1> DEFINE fits == Fits(mem, id)
<1>5. fits => id \in mem.heard /\ \A m \in made : m.id = id => Matches(mem, m)
  BY DEF Fits
<1> HIDE DEF id, fits
<1>6. run'.at = 4 /\ \A k \in Stages : run'.ids[k] = IF k = 4 THEN id ELSE run.ids[k]
  BY <1>1, <1>2 DEF Run, Art
<1>7. mem'.status = "REVIEWING" /\ \A f \in {"art", "package", "selection", "valid", "heard",
                                             "phase", "active"} : mem'[f] = mem[f]
  BY <1>1, <1>2 DEF State
<1>8. AtStage'
  <2>1. \A k \in Stages : k < 4 => mem'.art[k] # NoId
    BY <1>3, <1>7 DEF Packed, ContentsMade, Stages
  <2>2. Packed(mem')
    BY <1>3, <1>7, KeptAlike
  <2> QED
    BY <1>1, <1>6, <2>1, <2>2 DEF AtStage, Stages
<1>9. ~PlanOf(mem') /\ (Executing(mem') <=> Executing(mem))
  BY <1>3, <1>7 DEF PlanOf, Executing
<1>10. AllKept(mem')
  <2>1. AllKept(mem)
    BY <1>1, <1>3, MadeIsKept DEF Packed
  <2> QED
    BY <1>7, <2>1, KeptAlike
<1> DEFINE ar == [mem'.art EXCEPT ![run'.at] = run'.ids[run'.at]]
           t == [mem' EXCEPT !.art = ar]
<1>11. mem' \in State /\ mem'.art \in Art
  BY TypeStep DEF TypeInv, State
<1>12. [mem' EXCEPT !.art[run'.at] = run'.ids[run'.at]] = t
  BY <1>11 DEF State
<1>13. \A k \in Stages : ar[k] = IF k = 4 THEN id ELSE mem.art[k]
  BY <1>1, <1>6, <1>7, <1>11 DEF Art
<1>14. t.art = ar /\ t.heard = mem.heard
  BY <1>7, <1>11 DEF State
<1> HIDE DEF ar, t
<1>15. AllKept(t)
  <2>1. \A i \in mem.heard : i.stage \in Stages
    BY <1>1 DEF Sound
  <2> QED
    BY <1>7, <1>10, <1>13, <1>14, <2>1 DEF AllKept
<1>16. ASSUME fits PROVE AtKeep'
  <2>1. PICK m \in made : m.id = id
    BY <1>1, <1>5, <1>16 DEF Sound
  <2>2. Matches(mem, m) /\ m.id.stage = 4
    BY <1>4, <1>5, <1>16, <2>1
  <2>3. \A k \in 2 .. 3 : mem.art[k] # NoId /\ Fit(mem.art, k, made, borrowed)
    BY <1>1, <1>3 DEF Packed, ContentsMade, Sound, Stages
  <2>4. Unambiguous(made) =>
          m.on = Before(mem.art, 4) \/ \E k \in 2 .. 3 : mem.art[k] \in borrowed
    BY <1>1, <2>2, <2>3, ReviewStems
  <2>5. \A k \in 1 .. 3 : ar[k] = mem.art[k]
    BY <1>13 DEF Stages
  <2>6. Before(ar, 4) = Before(mem.art, 4)
    BY <1>1, <2>5, BeforeAgrees
  <2>7. Stems(m, ar, 4, made, borrowed)
    <3>1. m.id = ar[4]
      BY <1>1, <1>13, <2>1
    <3>2. ByName(m, ar, 4)
      BY <2>2, <2>5, ReviewByName DEF ByName
    <3>3. ASSUME \E k \in 2 .. 3 : mem.art[k] \in borrowed
          PROVE  \E k \in 2 .. 4 : ar[k] \in borrowed
      <4>1. PICK k \in 2 .. 3 : mem.art[k] \in borrowed
        BY <3>3
      <4>2. k \in 2 .. 4 /\ ar[k] \in borrowed
        BY <2>5, <4>1
      <4> QED
        BY <4>2
    <3> QED
      BY <2>4, <2>6, <3>1, <3>2, <3>3 DEF Stems
  <2>8. run'.ids[run'.at] = id
    BY <1>1, <1>6
  <2> QED
    BY <1>2, <1>4, <1>6, <2>7, <2>8 DEF AtKeep, ar
<1>17. \A k \in Stages : run'.ids[k] # NoId => run'.ids[k].stage = k
  BY <1>3, <1>4, <1>6
<1>18. (pc' = "keep" /\ fits) \/ pc' = "ask"
  BY <1>2 DEF fits
<1>19. CASE pc' = "keep" /\ fits
  BY <1>3, <1>7, <1>8, <1>9, <1>12, <1>15, <1>16, <1>17, <1>19 DEF CommandInv, Walking, Making
<1>20. CASE pc' = "ask"
  BY <1>3, <1>7, <1>8, <1>9, <1>10, <1>17, <1>20 DEF CommandInv, Walking, Making
<1> QED
  BY <1>18, <1>19, <1>20

\* An approved package carries its approval.
LEMMA ApproveStep ==
  ASSUME IInv, [Next]_vars, Approve
  PROVE  CommandInv'
<1> DEFINE s == [mem EXCEPT !.package.review = mem.art[4]]
<1>1. mem \in State /\ CommandInv /\ MadeInv /\ Sound(mem, made, borrowed, checks)
  BY DEF IInv, TypeInv, StatesInv, Good
<1>2. /\ pc = "judge" /\ pc' = "approved" /\ run' = run /\ made' = made
      /\ mem' = s \/ mem' = Finalized(s, "completed")
      /\ OfReview(mem)[1] = "approved" /\ mem.valid
  BY DEF Approve, Goto, calls, Approved
<1>3. Packed(mem) /\ mem.art[4] # NoId /\ ~PlanOf(mem)
      /\ mem.status # "WAITING_HUMAN_SELECTION"
      /\ (Executing(mem) => mem.active.impact # "unchanged")
      /\ \A k \in Stages : run.ids[k] # NoId => run.ids[k].stage = k
  BY <1>1, <1>2 DEF CommandInv, Walking
<1>4. s \in State /\ s.package.review = mem.art[4] /\ s.package.of = mem.package.of
      /\ \A f \in {"status", "art", "selection", "valid", "phase", "active"} : s[f] = mem[f]
  <2> DEFINE p == [mem.package EXCEPT !.review = mem.art[4]]
  <2>1. mem.art[4] \in Task
    BY <1>1 DEF State, Art, Stages
  <2>2. p \in Parcel /\ p.review = mem.art[4] /\ p.of = mem.package.of
    BY <1>1, <2>1 DEF State, Parcel
  <2>3. s = [mem EXCEPT !.package = p]
    BY <1>1 DEF State
  <2> HIDE DEF p
  <2> QED
    BY <1>1, <2>2, <2>3 DEF State
<1> HIDE DEF s
<1>5. /\ mem'.package.review = mem.art[4] /\ mem'.package.of = mem.package.of
      /\ \A f \in {"status", "art", "selection", "valid", "active"} : mem'[f] = mem[f]
      /\ ~PlanOf(mem') /\ (Executing(mem') => Executing(mem))
  <2>1. CASE mem' = s
    BY <1>3, <1>4, <2>1 DEF PlanOf, Executing
  <2>2. CASE mem' = Finalized(s, "completed")
    <3> DEFINE u == Finalized(s, "completed")
    <3>1. /\ ~Executing(u) /\ (PlanOf(u) <=> PlanOf(s))
          /\ \A f \in {"status", "art", "package", "selection", "valid", "active"} : u[f] = s[f]
      BY <1>4, FinalizedIs
    <3> HIDE DEF u
    <3>2. ~PlanOf(s)
      BY <1>3, <1>4 DEF PlanOf
    <3>3. mem' = u
      BY <2>2 DEF u
    <3> QED
      BY <1>4, <3>1, <3>2, <3>3
  <2> QED
    BY <1>2, <2>1, <2>2
<1>6. Packed(mem')
  BY <1>3, <1>5, KeptAlike
<1>7. Approves(mem'.art[4], made')
  <2>1. Fit(mem.art, 4, made, borrowed)
    BY <1>1 DEF Sound, Stages
  <2> QED
    BY <1>1, <1>2, <1>3, <1>5, <2>1, ReviewIs
<1> QED
  BY <1>2, <1>3, <1>5, <1>6, <1>7 DEF CommandInv, Walking, Making

\* Another verdict ends a revision; outside of one it may plan the next.
LEMMA UnsettledStep ==
  ASSUME IInv, [Next]_vars, Unsettled
  PROVE  CommandInv'
<1>1. mem \in State /\ CommandInv /\ MadeInv /\ Sound(mem, made, borrowed, checks)
  BY DEF IInv, TypeInv, StatesInv, Good
<1>2. /\ pc = "judge" /\ run' = run /\ made' = made /\ mem' = Finalized(mem, "partial")
      /\ pc' \in {"stop", "upstream"} \/ (pc' = "plan" /\ OfReview(mem)[1] \notin
                                                 {"approved", "blocked", "return"})
  BY DEF Unsettled, Goto, calls
<1>3. mem.art[4] # NoId /\ \A k \in Stages : run.ids[k] # NoId => run.ids[k].stage = k
  BY <1>1, <1>2 DEF CommandInv
<1>4. ~Executing(mem') /\ mem'.art = mem.art
  BY <1>1, <1>2, FinalizedIs
<1>5. OfReview(mem)[1] \in {"approved", "blocked", "return", "revise"}
  <2>1. Fit(mem.art, 4, made, borrowed)
    BY <1>1 DEF Sound, Stages
  <2>2. OfReview(mem) \in Verdicts
    BY <1>1, <1>3, <2>1, ReviewIs
  <2> QED
    BY <2>2 DEF Verdicts
<1>6. OfReview(mem)' = OfReview(mem)
  BY <1>2, <1>4 DEF OfReview, Verdict
<1> QED
  BY <1>2, <1>3, <1>4, <1>5, <1>6 DEF CommandInv, Walking, Making

\* What a command has planned, or asked Deliberation for, is saved with it.
LEMMA PlanningStep ==
  ASSUME IInv, [Next]_vars, Plan \/ Activate \/ AskDeliberation \/ Resume, pc' # "idle"
  PROVE  CommandInv'
<1>1. mem \in State /\ CommandInv
      /\ \A k \in Stages : run.ids[k] # NoId => run.ids[k].stage = k
  BY DEF IInv, TypeInv, CommandInv
<1>2. run' = run
  BY DEF Plan, Activate, AskDeliberation, Resume, Leave, End
<1>3. CASE Plan \/ Activate
  <2>1. PICK r : mem' = Planned(mem, r) /\ pc' \in {"planned", "activated"}
    BY <1>3 DEF Plan, Activate, Leave, End, Goto
  <2>2. mem'.phase = "authorization_required" /\ mem'.status = "BLOCKED"
    BY <1>1, <2>1 DEF Planned, State
  <2>3. PlanOf(mem') /\ ~Executing(mem')
    BY <2>2 DEF PlanOf, Executing
  <2> QED
    BY <1>1, <1>2, <2>1, <2>2, <2>3 DEF CommandInv, Walking, Making
<1>4. CASE AskDeliberation
  <2>1. PICK r : mem' = [mem EXCEPT !.up = mem.up + 1, !.status = "WAITING_UPSTREAM_REVISION",
                                    !.phase = "waiting_upstream_result",
                                    !.epoch = r.epoch, !.active = r]
    BY <1>4, AskDeliberationIs DEF Leave, End
  <2>2. pc' = "asked"
    BY <1>4 DEF AskDeliberation, Leave, End, Goto
  <2>3. mem'.status = "WAITING_UPSTREAM_REVISION" /\ ~Executing(mem')
    BY <1>1, <2>1 DEF State, Executing
  <2> QED
    BY <1>1, <1>2, <2>2, <2>3 DEF CommandInv, Walking, Making
<1>5. CASE Resume
  <2>1. PICK r : mem' = [Planned(mem, r) EXCEPT !.report = inbox,
                                                !.consumed = @ \union {mem.active}]
    BY <1>5, ResumeIs DEF Leave, End
  <2>2. pc' = "resumed"
    BY <1>5 DEF Resume, Leave, End, Goto
  <2>3. mem'.status = "BLOCKED" /\ ~Executing(mem')
    BY <1>1, <2>1 DEF State, Executing, Planned
  <2> QED
    BY <1>1, <1>2, <2>2, <2>3 DEF CommandInv, Walking, Making
<1> QED
  BY <1>3, <1>4, <1>5

\* What is planned is authorized before it is carried out.
LEMMA AuthorizingStep ==
  ASSUME IInv, [Next]_vars, SavePlan \/ Revise \/ Authorize, pc' # "idle"
  PROVE  CommandInv'
<1>1. CommandInv
  BY DEF IInv
<1>2. /\ mem' = mem /\ run' = run /\ made' = made
      /\ pc \in {"idle", "planned", "activated", "authorize", "execute"}
  BY DEF SavePlan, Revise, Authorize, Leave, End, Save, Goto, calls, Command
<1>3. /\ Executing(mem) => mem.active.impact # "unchanged"
      /\ \A k \in Stages : run.ids[k] # NoId => run.ids[k].stage = k
  BY <1>1, <1>2 DEF CommandInv
<1>4. OfReview(mem)' = OfReview(mem)
  BY <1>2 DEF OfReview, Verdict
<1>5. CASE SavePlan
  <2>1. pc' \in {"authorize", "execute"} /\ PlanOf(mem)
    BY <1>1, <1>5 DEF SavePlan, End, Goto, CommandInv
  <2> QED
    BY <1>2, <1>3, <2>1 DEF CommandInv, Walking, Making
<1>6. CASE Revise
  <2>1. \/ pc' = "activate"
        \/ pc' = "authorize" /\ PlanOf(mem)
        \/ pc' = "plan" /\ mem.art[4] # NoId /\ OfReview(mem)[1] = "revise"
    BY <1>6 DEF Revise, Leave, End, Goto, PlanOf, Revisable
  <2> QED
    BY <1>2, <1>3, <1>4, <2>1 DEF CommandInv, Walking, Making
<1>7. CASE Authorize
  <2>1. PlanOf(mem)
    BY <1>1, <1>7 DEF Authorize, CommandInv
  <2>2. \/ pc' = "resend" /\ mem.active.impact = "unchanged"
        \/ pc' = "begin" /\ mem.active.impact # "unchanged"
    BY <1>7 DEF Authorize, Goto
  <2> QED
    BY <1>2, <1>3, <2>1, <2>2 DEF CommandInv, Walking, Making
<1> QED
  BY <1>5, <1>6, <1>7

\* A revision begins with the first stage its request names, under ids of its own.
LEMMA BeginStep ==
  ASSUME IInv, [Next]_vars, Begin
  PROVE  CommandInv'
<1> DEFINE first == mem.active.first
<1>1. mem \in State /\ CommandInv /\ Bound(mem, made, borrowed, checks, finals)
  BY DEF IInv, TypeInv, StatesInv, Good
<1>2. pc = "begin"
  BY DEF Begin
<1>3. PlanOf(mem) /\ mem.active.impact # "unchanged"
  BY <1>1, <1>2 DEF CommandInv
<1>4. first \in 1 .. 3 /\ first \in Stages /\ \A k \in Stages : k < first => mem.art[k] # NoId
  BY <1>1, <1>3 DEF Bound, Proper, Stages
<1>5. PICK c \in 0 .. MaxRevisions :
        mem' = Cleared([mem EXCEPT !.phase = "executing", !.status = "REVISING", !.count = c],
                       first)
  <2> DEFINE d == IF Slot(mem.active) = {} THEN mem.count
                  ELSE Maximum(mem.count, CHOOSE i \in Slot(mem.active) : TRUE)
  <2>1. mem.count \in 0 .. MaxRevisions
    BY <1>1 DEF State
  <2>2. Slot(mem.active) # {} => (CHOOSE i \in Slot(mem.active) : TRUE) \in 1 .. MaxRevisions
    BY SlotIs DEF IInv
  <2>3. d \in 0 .. MaxRevisions
    BY <2>1, <2>2, Limits DEF Maximum
  <2>4. mem' = Cleared([mem EXCEPT !.phase = "executing", !.status = "REVISING", !.count = d],
                       first)
    BY <1>1 DEF Begin, Save, State
  <2> QED
    BY <2>3, <2>4
<1> DEFINE s == [mem EXCEPT !.phase = "executing", !.status = "REVISING", !.count = c]
<1>6. s \in State /\ s.phase = "executing" /\ s.active = mem.active /\ s.art = mem.art
  BY <1>1, ZenonT(30) DEF State, Status, Phase
<1> HIDE DEF s
<1>7. /\ \A k \in Stages : mem'.art[k] = IF k < first THEN s.art[k] ELSE NoId
      /\ mem'.selection = 0 /\ mem'.phase = s.phase /\ mem'.active = s.active
  <2>1. mem' = Cleared(s, first)
    BY <1>5 DEF s
  <2> HIDE DEF first
  <2> QED
    BY <1>4, <1>6, <2>1, ClearedIs
<1>8. Executing(mem') /\ ~PlanOf(mem') /\ mem'.active = mem.active
  BY <1>6, <1>7 DEF Executing, PlanOf
<1>9. run' = [NoRun EXCEPT !.at = first, !.ids = OwnIds(mem)] /\ pc' = "ask"
  BY DEF Begin, Goto
<1>10. run'.at = first /\ run'.ids = OwnIds(mem)
  BY <1>9 DEF NoRun
<1>11. \A k \in Stages : run'.ids[k] # NoId => run'.ids[k].stage = k
  BY <1>10 DEF OwnIds, Id
<1>12. AtStage'
  BY <1>4, <1>6, <1>7, <1>10 DEF AtStage, Stages
<1> QED
  BY <1>3, <1>8, <1>9, <1>11, <1>12 DEF CommandInv, Walking, Making

\* A structural correction is sent with the selection it asks about.
LEMMA ResendStep ==
  ASSUME IInv, [Next]_vars, Resend
  PROVE  CommandInv'
<1>1. mem \in State /\ CommandInv /\ Bound(mem, made, borrowed, checks, finals)
  BY DEF IInv, TypeInv, StatesInv, Good
<1>2. pc = "resend" /\ pc' = "resent" /\ run' = run /\ mem' = [mem EXCEPT !.phase = "executing"]
  BY DEF Resend, Goto
<1>3. PlanOf(mem) /\ mem.active.impact = "unchanged"
      /\ \A k \in Stages : run.ids[k] # NoId => run.ids[k].stage = k
  BY <1>1, <1>2 DEF CommandInv
<1>4. mem.selection = mem.active.final
  BY <1>1, <1>3 DEF Bound, Proper, Current
<1>5. Executing(mem') /\ mem'.active = mem.active /\ mem'.selection = mem.selection
  BY <1>1, <1>2 DEF State, Executing
<1> QED
  BY <1>2, <1>3, <1>4, <1>5 DEF CommandInv, Walking, Making

\* A revision that is settled is over.
LEMMA SettleStep ==
  ASSUME IInv, [Next]_vars, Resent \/ SentAgain, pc' # "idle"
  PROVE  CommandInv'
<1>1. mem \in State /\ CommandInv
  BY DEF IInv, TypeInv
<1>2. /\ pc \in {"resent", "sent_again"} /\ pc' = "settled" /\ run' = run
      /\ mem' = Finalized(mem, "completed")
  BY DEF Resent, SentAgain, Settle, Leave, End, Goto
<1>3. ~PlanOf(mem) /\ \A k \in Stages : run.ids[k] # NoId => run.ids[k].stage = k
  BY <1>1, <1>2 DEF CommandInv, PlanOf, Executing
<1>4. ~Executing(mem') /\ ~PlanOf(mem')
  BY <1>1, <1>2, <1>3, FinalizedIs
<1> QED
  BY <1>2, <1>3, <1>4 DEF CommandInv, Walking, Making

\* A recovery goes on at the first stage that is missing.
LEMMA RecoverStep ==
  ASSUME IInv, [Next]_vars, Recover, ~Leave("refused")
  PROVE  CommandInv'
<1> DEFINE s == Restored(mem)
           fault == mem.fault
<1>1. mem \in State /\ CommandInv /\ pc = "idle" /\ Prefix(mem)
      /\ Bound(mem, made, borrowed, checks, finals)
  BY DEF IInv, TypeInv, StatesInv, Good, Sound, Recover, Command
<1>2. PICK n \in 1 .. 5 :
        /\ mem.status = "FAILED" /\ n = NextStage(s)
        /\ \/ mem' = s /\ Suspect(mem, n) = NoId
           \/ /\ n \in Stages /\ mem' = Cleared(s, n)
              /\ Suspect(mem, n) = fault /\ fault # NoId /\ fault.stage = n
        /\ run' = [NoRun EXCEPT !.at = n,
                     !.ids = IF Suspect(mem, n) = NoId
                             THEN [NoRun.ids EXCEPT
                                     ![4] = IF 4 \in RestoredStages(mem) THEN s.art[4] ELSE NoId]
                             ELSE [NoRun.ids EXCEPT ![n] = RetryOf(fault)]]
        /\ borrowed' = borrowed \union
             {s.art[k] : k \in IF Executing(mem) THEN RestoredStages(mem) \ {4} ELSE {}}
        /\ pc' = (IF n <= 3 THEN "ask" ELSE "package")
  BY RecoverIs
<1>3. /\ s \in State /\ Prefix(s) /\ s = [mem EXCEPT !.art = s.art]
      /\ mem.selection > 0 => \A k \in 1 .. 3 : s.art[k] # NoId
  BY <1>2, RestoredSound
<1>4. s.art[4] # NoId /\ mem.art[4] = NoId => s.art[4].stage = 4
  BY <1>1, RestoredIs DEF Stages
<1>5. n \in Stages => \A k \in Stages : Cleared(s, n).art[k] = s.art[k]
  BY <1>2, <1>3, NextKeeps
<1>6. /\ n = 5 => \A k \in Stages : s.art[k] # NoId
      /\ n # 5 => n \in Stages /\ \A k \in Stages : s.art[k] # NoId <=> k < n
  BY <1>2, <1>3, NextStageIs
<1>7. ASSUME n \in Stages
      PROVE  /\ Cleared(s, n).selection = 0
             /\ \A f \in {"status", "phase", "active"} : Cleared(s, n)[f] = s[f]
  <2>1. s \in State
    BY <1>3
  <2> HIDE DEF s
  <2>2. /\ Cleared(s, n).selection = 0
        /\ \A f \in {"status", "report", "heard", "phase", "active"} : Cleared(s, n)[f] = s[f]
    BY <1>7, <2>1, ClearedIs, Zenon
  <2> QED
    BY <2>2
<1>8. 4 \in RestoredStages(mem) => s.art[4] # NoId /\ mem.art[4] = NoId
  BY DEF RestoredStages
<1>9. fault.stage = n => RetryOf(fault).stage = n
  BY <1>1 DEF State, Task, RetryOf
<1> HIDE DEF s, fault
<1>10. \A f \in {"status", "selection", "phase", "active"} : s[f] = mem[f]
  BY <1>1, <1>3 DEF State
<1>11. /\ mem'.status = "FAILED" /\ mem'.phase = mem.phase /\ mem'.active = mem.active
       /\ \A k \in Stages : mem'.art[k] = s.art[k]
       /\ mem'.selection = 0 \/ mem'.selection = mem.selection
  BY <1>2, <1>5, <1>7, <1>10
<1>12. ~PlanOf(mem') /\ (Executing(mem') => mem'.active.impact # "unchanged")
  BY <1>1, <1>2, <1>11 DEF Bound, PlanOf, Executing, CommandInv
<1>13. \A k \in Stages : run'.ids[k] # NoId => run'.ids[k].stage = k
  <2>1. \A k \in Stages : NoRun.ids[k] = NoId
    BY NothingTyped
  <2>2. NoRun.ids \in Art
    BY NothingTyped DEF Run
  <2>3. CASE Suspect(mem, n) = NoId
    <3>1. run'.ids = [NoRun.ids EXCEPT ![4] = IF 4 \in RestoredStages(mem) THEN s.art[4] ELSE NoId]
      BY <1>2, <2>3 DEF NoRun
    <3> QED
      BY <1>4, <1>8, <2>1, <2>2, <3>1 DEF Art
  <2>4. CASE Suspect(mem, n) # NoId
    <3>1. run'.ids = [NoRun.ids EXCEPT ![n] = RetryOf(fault)] /\ fault.stage = n
      BY <1>2, <2>4 DEF NoRun
    <3> QED
      BY <1>9, <2>1, <2>2, <3>1 DEF Art
  <2> QED
    BY <2>3, <2>4
<1>14. CASE n <= 3
  <2>1. n # 5 /\ n \in Stages /\ \A k \in Stages : mem'.art[k] # NoId <=> k < n
    BY <1>6, <1>11, <1>14
  <2>2. mem'.selection = 0
    <3>1. CASE mem.selection > 0
      <4>1. n \in 1 .. 3 /\ n \in Stages
        BY <1>14, <2>1
      <4>2. s.art[n] = NoId
        BY <1>6, <2>1
      <4> QED
        BY <1>3, <3>1, <4>1, <4>2
    <3>2. CASE ~(mem.selection > 0)
      <4>1. mem.selection = 0
        BY <1>1, <3>2 DEF State
      <4> QED
        BY <1>11, <4>1
    <3> QED
      BY <3>1, <3>2
  <2>3. run'.at = n
    BY <1>2 DEF NoRun
  <2>4. AtStage'
    BY <1>14, <2>1, <2>2, <2>3 DEF AtStage, Stages
  <2>5. ~Executing(mem') => AllKept(mem')
    BY <1>11, GoodStep DEF Good, Sound
  <2>6. pc' = "ask"
    BY <1>2, <1>14
  <2> QED
    BY <1>12, <1>13, <2>4, <2>5, <2>6 DEF CommandInv, Walking, Making
<1>15. CASE n > 3
  <2>1. pc' = "package"
    BY <1>2, <1>15
  <2>2. ContentsMade(mem')
    BY <1>6, <1>11, <1>15 DEF ContentsMade, Stages
  <2> QED
    BY <1>11, <1>12, <1>13, <2>1, <2>2 DEF CommandInv, Walking, Making
<1> QED
  BY <1>14, <1>15

\* The human's candidates are integrated from what waited.
LEMMA CombineStep ==
  ASSUME IInv, [Next]_vars, Integrate, ~Leave("refused")
  PROVE  CommandInv'
<1> DEFINE ar == [mem.art EXCEPT ![4] = NoId]
<1>1. mem \in State /\ CommandInv /\ pc = "idle" /\ mem = disk /\ Waits(mem, made)
      /\ Sound(mem, made, borrowed, checks) /\ Bound(mem, made, borrowed, checks, finals)
  BY DEF IInv, TypeInv, StatesInv, Good, Integrate, Combine, Command, CommandInv
<1>2. mem.status = "WAITING_HUMAN_SELECTION" /\ mem' = [mem EXCEPT !.art = ar]
      /\ run' = [NoRun EXCEPT !.at = 3, !.mark = 1] /\ pc' = "ask"
  BY <1>1 DEF Integrate, Combine, Leave, Save, Goto, State
<1>3. \A k \in Stages : ar[k] = IF k = 4 THEN NoId ELSE mem.art[k]
  BY <1>1 DEF State, Art
<1> HIDE DEF ar
<1>4. mem'.art = ar /\ \A f \in {"selection", "heard", "phase", "active"} : mem'[f] = mem[f]
  BY <1>1, <1>2 DEF State
<1>5. mem.selection = 0 /\ ContentsMade(mem) /\ ~PlanOf(mem)
      /\ (Executing(mem) => mem.active.impact # "unchanged")
  BY <1>1, <1>2 DEF Waits, Bound, CommandInv
<1>6. run'.at = 3 /\ run'.ids = NoRun.ids
  BY <1>2 DEF NoRun
<1>7. \A k \in Stages : run'.ids[k] = NoId
  BY <1>6, NothingTyped
<1>8. AtStage'
  BY <1>3, <1>4, <1>5, <1>6 DEF AtStage, ContentsMade, Stages
<1>9. AllKept(mem')
  <2>1. \A i \in mem.heard : i.stage \in Stages
    BY <1>1 DEF Sound
  <2> QED
    BY <1>3, <1>4, <1>5, <2>1 DEF AllKept, ContentsMade, Stages
<1>10. ~PlanOf(mem') /\ (Executing(mem') <=> Executing(mem)) /\ mem'.active = mem.active
  BY <1>4, <1>5 DEF PlanOf, Executing
<1> QED
  BY <1>2, <1>5, <1>7, <1>8, <1>9, <1>10 DEF CommandInv, Walking, Making

\* What the human selects from was approved as it is.
LEMMA SelectStep ==
  ASSUME IInv, [Next]_vars, Select, ~Leave("refused")
  PROVE  CommandInv'
<1>1. mem \in State /\ CommandInv /\ pc = "idle" /\ mem = disk /\ Waits(mem, made)
      /\ Sound(mem, made, borrowed, checks) /\ Bound(mem, made, borrowed, checks, finals)
      /\ finals \in Nat /\ \A k \in Stages : run.ids[k] # NoId => run.ids[k].stage = k
  BY DEF IInv, TypeInv, StatesInv, Good, Select, Command, CommandInv
<1>2. /\ mem.status = "WAITING_HUMAN_SELECTION" /\ mem.art[4] # NoId
      /\ mem' = [mem EXCEPT !.selection = finals + 1, !.about = mem.package.of]
      /\ pc' = "send" /\ run' = run
      /\ UNCHANGED <<made, borrowed, checks>>
  BY DEF Select, Selectable, Leave, Goto, calls
<1>3. mem'.selection = finals + 1 /\ \A f \in {"package", "phase", "active"} : mem'[f] = mem[f]
  BY <1>1, <1>2 DEF State
<1>4. /\ ContentsMade(mem) /\ mem.valid /\ Approves(mem.art[4], made) /\ ~PlanOf(mem)
      /\ mem.package.review = mem.art[4] /\ mem.package.of = Contents(mem)
      /\ Executing(mem) => mem.active.impact # "unchanged"
  BY <1>1, <1>2 DEF Waits, Bound, CommandInv
<1>5. Whole(mem.package) = mem.art
  BY <1>1, <1>4, WholeIs
<1>6. \A n \in Stages : mem.art[n] # NoId
  BY <1>2, <1>4 DEF ContentsMade, Stages
<1>7. Sealed(mem.package, made, borrowed, checks)
  BY <1>1, <1>4, <1>5, <1>6 DEF Sealed, Sound
<1>8. ForPlaywright(mem') => mem'.selection > mem'.active.final
  <2>1. ForPlaywright(mem') => mem.active.route = "playwright"
    BY <1>3 DEF ForPlaywright
  <2>2. mem.active.route = "playwright" => mem.active.final <= finals
    BY <1>1 DEF Bound, Proper
  <2>3. mem.active.final \in Nat
    BY <1>1 DEF State, Request
  <2> QED
    BY <1>1, <1>3, <2>1, <2>2, <2>3
<1>9. ~PlanOf(mem') /\ (Executing(mem') <=> Executing(mem)) /\ mem'.selection > 0
      /\ Sealed(mem'.package, made', borrowed', checks')
  BY <1>1, <1>2, <1>3, <1>4, <1>7 DEF PlanOf, Executing
<1> QED
  BY <1>1, <1>2, <1>3, <1>4, <1>8, <1>9 DEF CommandInv, Walking, Making

\* The Final Conclusion is out: what it is for does not change.
LEMMA SendStep ==
  ASSUME IInv, [Next]_vars, Send
  PROVE  CommandInv'
<1>1. CommandInv /\ pc = "send" /\ mem' = mem /\ run' = run
      /\ pc' = (IF ForPlaywright(mem) THEN "sent_again" ELSE "sent")
  BY DEF IInv, Send, Goto
<1>2. /\ ~PlanOf(mem) /\ (ForPlaywright(mem) => mem.selection > mem.active.final)
      /\ Executing(mem) => mem.active.impact # "unchanged"
      /\ \A k \in Stages : run.ids[k] # NoId => run.ids[k].stage = k
  BY <1>1 DEF CommandInv, Walking
<1> QED
  BY <1>1, <1>2 DEF CommandInv, Walking, Making

\* What is done around a command leaves it where it is.
LEMMA AroundStep ==
  ASSUME CommandInv, UNCHANGED <<disk, mem, pc, run, made, checks, borrowed>>
  PROVE  CommandInv'
BY DEF CommandInv, AtStage, AtKeep, OfReview, Verdict

\* Where the command is goes with what it works on.
LEMMA CommandStep == IInv /\ [Next]_vars => CommandInv'
<1> SUFFICES ASSUME IInv, [Next]_vars PROVE CommandInv'
  OBVIOUS
<1>1. CommandInv /\ TypeInv /\ (Executing(disk) => disk.active.impact # "unchanged")
  BY DEF IInv, StatesInv
<1>2. CASE pc' = "idle" /\ pc # "idle"
  BY <1>2, EndsStep
<1>3. CASE \E how : Leave(how)
  <2>1. mem' = disk' /\ disk' = disk /\ pc' = "idle" /\ run' = NoRun
    BY <1>3 DEF Leave, End
  <2> QED
    BY <1>1, <2>1, EndStep DEF Executing
<1>4. CASE \/ UNCHANGED vars \/ ProviderRetry \/ DeliberationFiles \/ DeliberationHands
           \/ PlaywrightAsks
  <2>1. UNCHANGED <<disk, mem, pc, run, made, checks, borrowed>>
    BY <1>4 DEF vars, calls, ProviderRetry, DeliberationFiles, DeliberationHands,
       PlaywrightAsks
  <2> QED
    BY <1>1, <2>1, AroundStep
<1>5. CASE Ask \/ Answer \/ Keep \/ Package \/ Review \/ Approve \/ Unsettled \/ Begin \/ Resend
           \/ Send
  BY <1>5, AskStep, AnswerStep, KeepStep, PackageStep, ReviewStep, ApproveStep, UnsettledStep,
     BeginStep, ResendStep, SendStep
<1>6. ASSUME ~(pc' = "idle" /\ pc # "idle"), \A how : ~Leave(how),
             \/ Plan \/ Activate \/ AskDeliberation \/ Resume \/ SavePlan \/ Revise
             \/ Authorize \/ Resent \/ SentAgain \/ Recover \/ Integrate \/ Select
      PROVE  CommandInv'
  <2>1. CASE Recover \/ Integrate \/ Select
    BY <1>6, <2>1, RecoverStep, CombineStep, SelectStep
  <2>2. CASE Plan \/ Activate \/ AskDeliberation \/ Resume
    <3>1. pc' # "idle"
      BY <1>6, <2>2 DEF Plan, Activate, AskDeliberation, Resume, Goto
    <3> QED
      BY <2>2, <3>1, PlanningStep
  <2>3. CASE Revise \/ Authorize
    <3>1. pc' # "idle"
      BY <1>6, <2>3 DEF Revise, Authorize, Goto
    <3> QED
      BY <2>3, <3>1, AuthorizingStep
  <2>4. CASE SavePlan
    <3>1. pc' # "idle"
      BY <1>6, <2>4 DEF SavePlan
    <3> QED
      BY <2>4, <3>1, AuthorizingStep
  <2>5. CASE Resent \/ SentAgain
    <3>1. pc' # "idle"
      BY <1>6, <2>5 DEF Resent, SentAgain, Settle, Goto
    <3> QED
      BY <2>5, <3>1, SettleStep
  <2> QED
    BY <1>6, <2>1, <2>2, <2>3, <2>4, <2>5
<1>7. ASSUME \/ WaitForHuman \/ Overruled \/ Stop \/ Asked \/ Resumed \/ Limit \/ Exhausted
             \/ Settled \/ Sent \/ SendFails \/ Crash
      PROVE  pc' = "idle" /\ pc # "idle"
  BY <1>7 DEF WaitForHuman, Overruled, Stop, Asked, Resumed, Limit, Exhausted, Settled, Sent,
     SendFails, Crash, Leave, Block, Fail, SaveAndEnd, End
<1> QED
  BY <1>2, <1>3, <1>4, <1>5, <1>6, <1>7 DEF Next, Line, Judge, Revision, Recovery, Human, Around

\* The actions that save.
LEMMA SavesIs ==
  ASSUME [Next]_vars, disk' # disk
  PROVE  \/ Ask \/ Answer \/ Keep \/ Package \/ WaitForHuman \/ Overruled \/ Stop \/ SavePlan
         \/ Asked \/ Resumed \/ Limit \/ Exhausted \/ Begin \/ Settled \/ Recover \/ Integrate
         \/ Sent \/ SendFails
BY DEF Next, vars, Line, Judge, Revision, Human, Recovery, Around, Review, Approve, Unsettled,
   Plan, AskDeliberation, Resume, Revise, Activate, Authorize, Resend, Resent, Settle,
   ProviderRetry, Select, Send, SentAgain, Crash, DeliberationFiles, DeliberationHands,
   PlaywrightAsks, Leave

\* What is saved while it waits for the human has its approval.
LEMMA WaitsStep ==
  ASSUME IInv, [Next]_vars
  PROVE  Waits(disk', made')
<1>1. CommandInv /\ mem \in State /\ Waits(disk, made) /\ Grown
      /\ Bound(mem, made, borrowed, checks, finals)
  BY RecordsGrow DEF IInv, StatesInv, TypeInv, Good
<1>2. CASE disk' = disk
  BY <1>1, <1>2, WaitsStays DEF Grown
<1>3. CASE disk' # disk
  <2>1. disk' = mem'
    BY <1>3, DiskIs
  <2>2. CASE Ask
    <3>1. pc = "ask" /\ mem' = [mem EXCEPT !.status = Working[run.at]]
      BY <2>2 DEF Ask, Save
    <3>2. run.at \in 1 .. 4
      BY <1>1, <3>1 DEF CommandInv, Making, AtStage, Stages
    <3>3. mem'.status = Working[run.at]
      BY <1>1, <3>1 DEF State
    <3> QED
      BY <2>1, <3>2, <3>3 DEF Working, Waits
  <2>3. CASE Answer \/ Keep \/ Package \/ SavePlan \/ Asked \/ Resumed
    <3>1. mem.status # "WAITING_HUMAN_SELECTION"
      BY <1>1, <2>3 DEF Answer, Keep, Package, SavePlan, Asked, Resumed, CommandInv, Walking,
         Making
    <3>2. mem'.status \in {mem.status, "FAILED"}
      BY <1>1, <2>3 DEF Answer, Keep, Package, SavePlan, Asked, Resumed, Fail, Save,
         SaveAndEnd, State
    <3> QED
      BY <2>1, <3>1, <3>2 DEF Waits
  <2>4. CASE \/ Overruled \/ Stop \/ Limit \/ Exhausted \/ Settled \/ Sent \/ SendFails
    <3>1. mem'.status \in {"BLOCKED", "COMPLETED", "FAILED"}
      BY <1>1, <2>4 DEF Overruled, Stop, Limit, Exhausted, Settled, Sent, SendFails, Block, Fail,
         Save, SaveAndEnd, State
    <3> QED
      BY <2>1, <3>1 DEF Waits
  <2>5. CASE Begin
    <3>1. PICK c : mem' = Cleared([mem EXCEPT !.phase = "executing", !.status = "REVISING",
                                              !.count = c], mem.active.first)
      BY <2>5 DEF Begin, Save
    <3> DEFINE s == [mem EXCEPT !.phase = "executing", !.status = "REVISING", !.count = c]
    <3>2. s.status = "REVISING" /\ DOMAIN s = DOMAIN mem
      BY <1>1 DEF State
    <3>3. "status" \in DOMAIN mem
      BY <1>1 DEF State
    <3> HIDE DEF s
    <3>4. Cleared(s, mem.active.first).status = s.status
      BY <3>2, <3>3 DEF Cleared
    <3>5. mem' = Cleared(s, mem.active.first)
      BY <3>1 DEF s
    <3> QED
      BY <2>1, <3>2, <3>4, <3>5 DEF Waits
  <2>6. CASE Recover
    <3>1. CASE Leave("refused")
      BY <1>3, <3>1 DEF Leave
    <3>2. CASE ~Leave("refused")
      <4>1. \/ mem' = Restored(mem)
            \/ \E n \in Stages : mem' = Cleared(Restored(mem), n)
        BY <2>6, <3>2, RecoverIs
      <4>2. /\ mem.status = "FAILED" /\ Restored(mem) \in State
            /\ Restored(mem) = [mem EXCEPT !.art = Restored(mem).art]
        BY <2>6, <3>2, RecoverIs, RestoredSound
      <4>3. Restored(mem).status = "FAILED"
        BY <1>1, <4>2 DEF State
      <4>4. \A n \in Stages : Cleared(Restored(mem), n).status = Restored(mem).status
        BY <4>2, ClearedIs
      <4>5. mem'.status = "FAILED"
        BY <4>1, <4>3, <4>4
      <4> QED
        BY <2>1, <4>5 DEF Waits
    <3> QED
      BY <3>1, <3>2
  <2>7. CASE Integrate
    <3> DEFINE ar == [mem.art EXCEPT ![4] = NoId]
    <3>1. mem = disk /\ mem.status = "WAITING_HUMAN_SELECTION" /\ mem' = [mem EXCEPT !.art = ar]
      BY <1>1, <1>3, <2>7 DEF Integrate, Combine, Leave, Save, Command, CommandInv, State
    <3>2. \A k \in Stages : ar[k] = IF k = 4 THEN NoId ELSE mem.art[k]
      BY <1>1 DEF State, Art
    <3> HIDE DEF ar
    <3>3. mem'.art = ar /\ mem'.selection = mem.selection /\ mem'.valid = mem.valid
      BY <1>1, <3>1 DEF State
    <3>4. mem'.art[4] = NoId /\ ContentsMade(mem') <=> ContentsMade(mem)
      BY <3>2, <3>3 DEF ContentsMade, Stages
    <3> QED
      BY <1>1, <2>1, <3>1, <3>3, <3>4 DEF Waits
  <2>8. CASE WaitForHuman
    <3>1. pc = "approved" /\ made' = made
          /\ mem' = [mem EXCEPT !.status = "WAITING_HUMAN_SELECTION"]
      BY <2>8 DEF WaitForHuman, SaveAndEnd, Save, calls
    <3>2. /\ Packed(mem) /\ mem.valid /\ mem.package.review = mem.art[4]
          /\ Approves(mem.art[4], made)
      BY <1>1, <3>1 DEF CommandInv
    <3>3. \A f \in {"selection", "valid", "art", "package"} : mem'[f] = mem[f]
      BY <1>1, <3>1 DEF State
    <3> QED
      BY <2>1, <3>1, <3>2, <3>3 DEF Waits, Packed, ContentsMade, Contents
  <2> QED
    BY <1>3, <2>2, <2>3, <2>4, <2>5, <2>6, <2>7, <2>8, SavesIs
<1> QED
  BY <1>2, <1>3

\* No structural correction is saved while it is carried out.
LEMMA ExecutingStep ==
  ASSUME IInv, [Next]_vars
  PROVE  Executing(disk') => disk'.active.impact # "unchanged"
<1>1. CommandInv' /\ CommandInv /\ (Executing(disk) => disk.active.impact # "unchanged")
  BY CommandStep DEF IInv, StatesInv
<1>2. CASE disk' = disk
  BY <1>1, <1>2
<1>3. CASE disk' # disk
  <2>1. disk' = mem'
    BY <1>3, DiskIs
  <2>2. pc' # "resent"
    <3>1. CASE Keep
      <4>1. run.at \in Stages /\ pc' = <<"ask", "ask", "package", "judge">>[run.at]
        BY <1>1, <3>1 DEF Keep, CommandInv, Making, AtStage, Goto
      <4> QED
        BY <4>1 DEF Stages
    <3>2. CASE ~Keep
      BY <1>3, <3>2, SavesIs DEF Ask, Answer, Package, WaitForHuman, Overruled, Stop, SavePlan,
         Asked, Resumed, Limit, Exhausted, Begin, Settled, Recover, Integrate, Combine, Sent,
         SendFails, Goto, End, Leave, SaveAndEnd, Block, Fail
    <3> QED
      BY <3>1, <3>2
  <2>3. Executing(mem') => mem'.active.impact # "unchanged"
    BY <1>1, <2>2 DEF CommandInv
  <2> QED
    BY <2>1, <2>3
<1> QED
  BY <1>2, <1>3

\* What recover borrows are positions, evaluations and integrations.
LEMMA BorrowedStep == IInv /\ [Next]_vars => BorrowedInv'
<1> SUFFICES ASSUME IInv, [Next]_vars PROVE BorrowedInv'
  OBVIOUS
<1>1. CASE borrowed' = borrowed
  BY <1>1 DEF IInv, BorrowedInv
<1>2. CASE borrowed' # borrowed
  <2>1. Recover
    BY <1>2 DEF Next, vars, calls, Line, Judge, Revision, Human, Recovery, Around, Ask, Answer,
       Keep, Package, Review, Approve, WaitForHuman, Overruled, Unsettled, Stop, Plan, SavePlan,
       AskDeliberation, Asked, Resume, Resumed, Revise, Activate, Limit, Exhausted, Authorize,
       Begin, Resend, Resent, Settled, Settle, ProviderRetry, Integrate, Combine, Select, Send,
       SendFails, SentAgain, Sent, Crash, DeliberationFiles, DeliberationHands, PlaywrightAsks
  <2>2. borrowed' \subseteq borrowed \union {Restored(mem).art[k] : k \in RestoredStages(mem) \ {4}}
    BY <1>2, <2>1, RecoverIs
  <2>3. mem \in State /\ Prefix(mem)
    BY DEF IInv, TypeInv, StatesInv, Good, Sound
  <2>4. \A k \in RestoredStages(mem) : Restored(mem).art[k].stage = k
    BY <2>3, RestoredIs DEF RestoredStages
  <2> QED
    BY <2>2, <2>4 DEF IInv, BorrowedInv
<1> QED
  BY <1>1, <1>2

\* The invariant is kept by every step.
LEMMA InvStep == IInv /\ [Next]_vars => IInv'
<1> SUFFICES ASSUME IInv, [Next]_vars PROVE IInv'
  OBVIOUS
<1>1. StatesInv'
  BY GoodStep, WaitsStep, ExecutingStep DEF StatesInv
<1>2. TypeInv' /\ MadeInv' /\ FilesInv' /\ ResultsInv' /\ BorrowedInv' /\ CommandInv'
  BY TypeStep, MadeStep, FilesStep, ResultsStep, BorrowedStep, CommandStep
<1> QED
  BY <1>1, <1>2 DEF IInv

-----------------------------------------------------------------------------
(* Theorems.                                                                 *)

\* The invariant is inductive.
THEOREM ConclusionInvariant == Spec => []IInv
<1>1. Init => IInv
  BY InvInit
<1>2. IInv /\ [Next]_vars => IInv'
  BY InvStep
<1> QED
  BY <1>1, <1>2, PTL DEF Spec

\* Every variable keeps its type, whatever the limits: the internal revisions that hold
\* a budget slot, and the revisions counted, stay within MaxRevisions.
THEOREM TypeCorrect == Spec => []TypeInv
<1>1. IInv => TypeInv
  BY DEF IInv
<1> QED
  BY <1>1, ConclusionInvariant, PTL

\* What Playwright gets passed the validator and was approved under these ids; it was
\* approved as it is, unless ids are repeated or a revision has borrowed answers from
\* before it began.
THEOREM HandoffsAreApproved == Spec => []HandoffWasApproved
<1>1. IInv => HandoffWasApproved
  <2> DEFINE p == outbox.package
             w == Whole(p)
  <2> SUFFICES ASSUME IInv, outbox.final > 0
               PROVE  /\ [of |-> p.of, passed |-> TRUE] \in checks
                      /\ \E m \in made :
                           /\ m.id = p.review /\ m.verdict[1] = "approved"
                           /\ \A k \in 1 .. 3 : Name(m.on[k]) = Name(p.of[k])
                           /\ Unambiguous(made) =>
                                /\ m.on[2] = p.of[2] /\ m.on[3] = p.of[3]
                                /\ Borrows(p) \/ (m.on = p.of /\ Genuine(p.of))
    BY DEF HandoffWasApproved
  <2>1. MadeInv /\ BorrowedInv /\ Sealed(p, made, borrowed, checks) /\ p \in Parcel
    BY DEF IInv, FilesInv, TypeInv
  <2>2. \A n \in 1 .. 3 : n \in Stages /\ w[n] = p.of[n]
    BY DEF Whole, Stages
  <2>3. w[4] = p.review /\ 4 \in Stages
    BY DEF Whole, Stages
  <2>4. Borrows(p) \/ \A n \in 1 .. 3 : w[n] \notin borrowed
    BY <2>2 DEF Borrows
  <2> HIDE DEF p, w
  <2>5. \A n \in Stages : /\ w[n] # NoId /\ w[n].stage = n
                          /\ \E m \in made : Stems(m, w, n, made, borrowed)
    BY <2>1 DEF Sealed, Fit, w
  <2>6. PICK m \in made : Stems(m, w, 4, made, borrowed)
    BY <2>3, <2>5
  <2>7. m.id = p.review /\ m.id.stage = 4 /\ m.verdict[1] = "approved"
    <3>1. PICK m2 \in made : m2.id = p.review /\ m2.verdict[1] = "approved"
      BY <2>1 DEF Sealed, Approves
    <3>2. m.id = p.review /\ m.id.stage = 4
      BY <2>3, <2>5, <2>6 DEF Stems
    <3> QED
      BY <2>1, <3>1, <3>2 DEF MadeInv
  <2>8. \A k \in 1 .. 3 : Name(m.on[k]) = Name(p.of[k])
    BY <2>2, <2>6 DEF Stems, ByName
  <2>9. ASSUME Unambiguous(made), NEW k \in 2 .. 3 PROVE m.on[k] = p.of[k]
    <3>1. k \in 1 .. 3 /\ k \in Stages
      BY DEF Stages
    <3>2. w[k] # NoId /\ Fit(w, k, made, borrowed) /\ Name(m.on[k]) = Name(w[k])
      BY <2>2, <2>5, <2>8, <3>1 DEF Fit
    <3>3. m.on[k] = w[k]
      BY <2>1, <2>7, <2>9, <3>2, NamesTell
    <3> QED
      BY <2>2, <3>1, <3>3
  <2>10. ASSUME Unambiguous(made), ~Borrows(p) PROVE m.on = p.of /\ Genuine(p.of)
    <3>1. \A n \in Stages : w[n] \notin borrowed
      <4>1. w[4] \notin borrowed
        BY <2>1, <2>3, <2>5 DEF BorrowedInv
      <4> QED
        BY <2>4, <2>10, <4>1 DEF Stages
    <3>2. ASSUME NEW n \in Stages, NEW m1 \in made, m1.id = w[n]
          PROVE  m1.on = Before(w, n)
      <4>1. PICK m2 \in made : Stems(m2, w, n, made, borrowed)
        BY <2>5
      <4>2. m2 = m1
        BY <2>1, <3>2, <4>1 DEF Stems, MadeInv
      <4>3. \A k \in 2 .. n : k \in Stages
        BY DEF Stages
      <4> QED
        BY <2>10, <3>1, <4>1, <4>2, <4>3 DEF Stems
    <3>3. \A n \in 1 .. 3 : Before(w, n) = Before(p.of, n)
      BY <2>2 DEF Before
    <3>4. Genuine(p.of)
      BY <2>2, <3>2, <3>3 DEF Genuine
    <3>5. Before(w, 4) = p.of
      <4>1. p.of = [n \in 1 .. 3 |-> p.of[n]]
        BY <2>1 DEF Parcel, Parts
      <4>2. Before(w, 4) = [n \in 1 .. 3 |-> w[n]]
        BY DEF Before
      <4> QED
        BY <2>2, <4>1, <4>2
    <3>6. m.on = Before(w, 4)
      BY <2>3, <2>7, <3>2
    <3> QED
      BY <3>4, <3>5, <3>6
  <2>11. [of |-> p.of, passed |-> TRUE] \in checks
    BY <2>1 DEF Sealed, Passed
  <2>12. Unambiguous(made) => m.on[2] = p.of[2] /\ m.on[3] = p.of[3]
    BY <2>9
  <2> QED
    BY <2>7, <2>8, <2>10, <2>11, <2>12
<1> QED
  BY <1>1, ConclusionInvariant, PTL

\* A saved selection stands for the contents it was made from.
THEOREM SelectionsStandForPackages == Spec => []SelectionIsOfThisPackage
<1>1. IInv => SelectionIsOfThisPackage
  BY DEF IInv, StatesInv, Good, Sound, SelectionIsOfThisPackage
<1> QED
  BY <1>1, ConclusionInvariant, PTL

\* What waits for the human has passed the validator and carries its approval.
THEOREM WaitingIsApproved == Spec => []WaitsWithAnApproval
<1>1. IInv => WaitsWithAnApproval
  <2> SUFFICES ASSUME IInv, disk.status = "WAITING_HUMAN_SELECTION"
               PROVE  /\ disk.selection = 0 /\ disk.valid
                      /\ disk.art[4] # NoId => /\ OfReview(disk)[1] = "approved"
                                               /\ disk.package.review = disk.art[4]
    BY DEF WaitsWithAnApproval
  <2>1. MadeInv /\ Waits(disk, made) /\ Fit(disk.art, 4, made, borrowed)
    BY DEF IInv, StatesInv, Good, Sound, Stages
  <2>2. disk.art[4] # NoId => OfReview(disk)[1] = "approved"
    BY <2>1, ReviewIs DEF Waits
  <2> QED
    BY <2>1, <2>2 DEF Waits
<1> QED
  BY <1>1, ConclusionInvariant, PTL

\* A result that says completed is true: of an approval, of the selection Playwright
\* asked about, or of a new one; and a Deliberation Result is taken over only with a
\* complete result that names it.
THEOREM ResultsTellTheTruth == Spec => []ResultsAreTruthful
<1>1. IInv => CompletedIsTrue
  <2> SUFFICES ASSUME IInv, NEW x \in results, x.status = "completed"
               PROVE  /\ x.request.route = "internal" =>
                           /\ x.package.review # NoId
                           /\ Verdict(x.package.review)[1] = "approved"
                      /\ x.request.impact = "unchanged" => x.final = x.request.final
                      /\ x.request.impact = "reselection_required" =>
                           x.final > x.request.final
    BY DEF CompletedIsTrue
  <2>1. MadeInv /\ ResultTrue(x, made)
    BY DEF IInv, ResultsInv
  <2>2. \A id : Approves(id, made) => Verdict(id)[1] = "approved"
    BY <2>1, VerdictIs DEF Approves
  <2> QED
    BY <2>1, <2>2 DEF ResultTrue
<1>2. IInv => UpstreamWasAnswered
  BY DEF IInv, StatesInv, Good, AnsweredBy, UpstreamWasAnswered
<1>3. IInv => ResultsAreTruthful
  BY <1>1, <1>2 DEF ResultsAreTruthful
<1> QED
  BY <1>3, ConclusionInvariant, PTL
================================================================================
