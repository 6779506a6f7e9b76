--------------------------- MODULE CreateOnce_proofs ---------------------------
(***************************************************************************)
(* Proofs about the two protocols that rest on create-once files, for any  *)
(* number of commands, processes, requests and slots.  Neither uses a fact *)
(* of the other.                                                           *)
(*                                                                         *)
(* RetrievalCoordinator: at most one command holds the right to pay for    *)
(* the original search, the one that created its reservation, and only     *)
(* until it has paid; and who searches for a replacement has seen the      *)
(* authorization pending and consumed it behind a complete reservation.    *)
(*                                                                         *)
(* RevisionExchange: the inductive invariant has four parts: types, the    *)
(* slot directory, the request files, and the authorizations with their    *)
(* claims.                                                                 *)
(***************************************************************************)
EXTENDS RetrievalCoordinator, RevisionExchange, TLAPS

-----------------------------------------------------------------------------
(* RetrievalCoordinator.                                                   *)

\* The right to pay for the original search.
Holds(p) ==
  /\ cmd[p].on = "original"
  /\ \/ cmd[p].at \in {"reserving", "submit"}
     \/ cmd[p].at = "search" /\ ~CanResume(cmd[p])

OneHolds == \A p, q \in Worker : Holds(p) /\ Holds(q) => p = q

OneAuthorizes ==
  \A p, q \in Worker : cmd[p].at = "authorize" /\ cmd[q].at = "authorize" => p = q

FilesInv ==
  /\ OriginalPaidOnce
  /\ authorization.status = "CONSUMED" => reservation["replacement"] = "written"
  /\ paid["replacement"] > 0 => authorization.status = "CONSUMED"
  /\ reservation["original"] = "none" => paid["original"] = 0 /\ job["original"] = "none"

Granted == authorization.status \in {"PENDING", "CONSUMED"}

\* A command for the original search.
OriginalOK(p) ==
  LET c == cmd[p]
  IN /\ c.seen = "none" /\ c.at \notin {"authorize", "load", "consume", "record"}
     /\ Holds(p) => /\ paid["original"] = 0
                    /\ reservation["original"] # "none"
                    /\ job["original"] = IF c.at = "submit" THEN "prepared" ELSE "none"
     /\ c.at \in {"sent", "posted"} => paid["original"] = 1

\* A command for the replacement: only a Producer's begins with a message and loads
\* the authorization again, and its model is synchronous.
ReplacementOK(p) ==
  LET c == cmd[p]
  IN /\ IF c.at = "authorize" THEN authorization.status = "empty" ELSE Granted
     /\ c.at = "authorize" => agent = "research" \/ c.uses = "sync"
     /\ c.at \in {"begin", "load"} => c.uses = "sync"
     /\ c.at \in {"look", "reserve"} =>
          \/ c.seen = "PENDING"
          \/ c.seen = "CONSUMED" /\ c.uses = "sync" /\ authorization.status = "CONSUMED"
     /\ c.at \in {"authorize", "reserving", "consume"} => c.seen = "PENDING"
     /\ c.at \in Searching => c.seen = "PENDING" /\ authorization.status = "CONSUMED"

CommandOK(p) == IF cmd[p].on = "original" THEN OriginalOK(p) ELSE ReplacementOK(p)

CommandsInv == \A p \in Worker : CommandOK(p)

RetrievalInv == RetrievalTypeOK /\ FilesInv /\ CommandsInv /\ OneHolds /\ OneAuthorizes

USE DEF Identity, File, Job, Model, Agent, Status, Error, At

-----------------------------------------------------------------------------

LEMMA IdleOK == Idle \in Command /\ NewState \in State
BY DEF Idle, NewState, Command, State

LEMMA RetrievalInitInv == RetrievalInit => RetrievalInv
<1> SUFFICES ASSUME RetrievalInit PROVE RetrievalInv
  OBVIOUS
<1>1. RetrievalTypeOK
  <2>1. saved \in State
    BY DEF RetrievalInit, NewState, State
  <2>2. reservation \in [Identity -> File] /\ reservation["original"] \in {"none", "written"}
    BY DEF RetrievalInit, File
  <2>3. cmd \in [Worker -> Command]
    BY IdleOK DEF RetrievalInit
  <2>4. /\ agent \in Agent /\ model \in Model /\ context \in [Identity -> File]
        /\ job \in [Identity -> Job] /\ paid \in [Identity -> Nat]
    BY DEF RetrievalInit
  <2>5. /\ authorization \in [status : Status, model : Model, recorded : BOOLEAN]
        /\ commands \in 0 .. MaxCommands
    BY CommandsAssumption DEF RetrievalInit
  <2> QED
    BY <2>1, <2>2, <2>3, <2>4, <2>5 DEF RetrievalTypeOK
<1>2. \A p \in Worker : cmd[p] = Idle
  BY DEF RetrievalInit
<1>3. FilesInv
  BY DEF RetrievalInit, FilesInv, OriginalPaidOnce
<1>4. CommandsInv /\ OneHolds /\ OneAuthorizes
  BY <1>2 DEF CommandsInv, CommandOK, OriginalOK, Holds, OneHolds, OneAuthorizes, Idle
<1> QED
  BY <1>1, <1>3, <1>4 DEF RetrievalInv

-----------------------------------------------------------------------------
(* How a step moves its command.                                           *)

LEMMA Fields ==
  ASSUME NEW c \in Command
  PROVE  /\ c.at \in At /\ c.on \in Identity /\ c.uses \in Model /\ c.seen \in Status
         /\ c.copy \in State
BY DEF Command

\* p goes to l and stays the same command.
CommandMoves(p, l) ==
  /\ cmd'[p].at = l
  /\ cmd'[p].on = cmd[p].on /\ cmd'[p].uses = cmd[p].uses /\ cmd'[p].seen = cmd[p].seen

\* The command of p, if another, ends.
Ends(p) == cmd'[p] = Idle

\* What a step of p does to the commands and the state file, whatever it does.
OtherCommandsStay(p) ==
  /\ cmd' \in [Worker -> Command]
  /\ saved' \in State
  /\ \A q \in Worker \ {p} : cmd'[q] = cmd[q]

LEMMA GotoMoves ==
  ASSUME RetrievalTypeOK, NEW p \in Worker, NEW l \in At, Continue(p, l)
  PROVE  CommandMoves(p, l) /\ OtherCommandsStay(p)
<1>1. cmd[p] \in Command /\ cmd \in [Worker -> Command]
  BY DEF RetrievalTypeOK
<1>2. cmd' = [cmd EXCEPT ![p] = [cmd[p] EXCEPT !.at = l]]
  BY DEF Continue, MoveTo
<1>3. [cmd[p] EXCEPT !.at = l] \in Command
  BY <1>1 DEF Command
<1> QED
  BY <1>1, <1>2, <1>3 DEF CommandMoves, OtherCommandsStay, Continue, RetrievalTypeOK, Command

LEMMA SaveEnds ==
  ASSUME RetrievalTypeOK, NEW p \in Worker, NEW s \in State, SaveAndEnd(p, s)
  PROVE  Ends(p) /\ OtherCommandsStay(p)
BY IdleOK DEF SaveAndEnd, RetrievalTypeOK, Ends, OtherCommandsStay

LEMMA FailEnds ==
  ASSUME RetrievalTypeOK, NEW p \in Worker, NEW e \in Error, Fail(p, e)
  PROVE  Ends(p) /\ OtherCommandsStay(p)
<1> DEFINE failed == [cmd[p].copy EXCEPT !.error = e, !.failed = agent = "general_opinion"]
<1>1. cmd[p].copy \in State /\ (agent = "general_opinion") \in BOOLEAN
  BY Fields DEF RetrievalTypeOK
<1>2. failed \in State
  BY <1>1 DEF State
<1>3. saved \in State
  BY DEF RetrievalTypeOK
<1>4. CASE cmd[p].on = "replacement" /\ agent = "research"
  BY <1>3, <1>4, SaveEnds DEF Fail
<1>5. CASE ~(cmd[p].on = "replacement" /\ agent = "research")
  BY <1>2, <1>5, SaveEnds DEF Fail
<1> QED
  BY <1>4, <1>5

-----------------------------------------------------------------------------
(* One step of one command.                                                *)

\* What the step of p leaves to the other commands.
Frame(p) ==
  /\ agent' = agent
  /\ paid["original"] = 1 => paid'["original"] = 1
  /\ \A i \in Identity : job[i] \notin {"none", "prepared"}
                           => job'[i] \notin {"none", "prepared"}
  /\ (\E q \in Worker \ {p} : Holds(q)) =>
       /\ paid'["original"] = paid["original"]
       /\ job'["original"] = job["original"]
       /\ reservation'["original"] # "none"
  /\ authorization.status = "CONSUMED" => authorization'.status = "CONSUMED"
  /\ Granted => Granted'
  /\ (\E q \in Worker \ {p} : cmd[q].at = "authorize") =>
       authorization'.status = authorization.status

\* While a command holds the right, nothing has been paid.
LEMMA HolderFacts ==
  ASSUME RetrievalInv, NEW q \in Worker, Holds(q)
  PROVE  paid["original"] = 0 /\ reservation["original"] # "none"
BY DEF RetrievalInv, CommandsInv, CommandOK, OriginalOK, Holds

LEMMA OneStep ==
  ASSUME RetrievalInv, RetrievalTypeOK', NEW p \in Worker, OtherCommandsStay(p), Frame(p),
         FilesInv', CommandOK(p)',
         Holds(p)' => Holds(p) \/ \A q \in Worker : ~Holds(q),
         cmd'[p].at = "authorize" => \A q \in Worker : cmd[q].at # "authorize"
  PROVE  RetrievalInv'
<1>1. \A q \in Worker \ {p} : Holds(q)' => Holds(q)
  <2> SUFFICES ASSUME NEW q \in Worker \ {p}, Holds(q)' PROVE Holds(q)
    OBVIOUS
  <2>1. cmd'[q] = cmd[q] /\ cmd[q].on \in Identity
    BY Fields DEF OtherCommandsStay, RetrievalInv, RetrievalTypeOK
  <2> QED
    BY <2>1 DEF Holds, CanResume, Frame
<1>2. OneHolds'
  <2> SUFFICES ASSUME NEW q \in Worker, NEW r \in Worker, Holds(q)', Holds(r)', q # r
               PROVE FALSE
    BY DEF OneHolds
  <2>1. CASE q # p /\ r # p
    BY <2>1, <1>1 DEF RetrievalInv, OneHolds
  <2>2. CASE q = p \/ r = p
    BY <2>2, <1>1 DEF RetrievalInv, OneHolds
  <2> QED
    BY <2>1, <2>2
<1>3. OneAuthorizes'
  BY DEF OneAuthorizes, RetrievalInv, OtherCommandsStay
<1>4. ASSUME NEW q \in Worker \ {p} PROVE CommandOK(q)'
  <2>1. cmd'[q] = cmd[q] /\ CommandOK(q)
    BY DEF OtherCommandsStay, RetrievalInv, CommandsInv
  <2>2. CASE cmd[q].on = "original"
    BY <2>1, <2>2, <1>1 DEF CommandOK, OriginalOK, Frame
  <2>3. CASE cmd[q].on # "original"
    BY <2>1, <2>3 DEF CommandOK, ReplacementOK, Frame
  <2> QED
    BY <2>2, <2>3
<1>5. CommandsInv'
  BY <1>4 DEF CommandsInv
<1> QED
  BY <1>2, <1>3, <1>5 DEF RetrievalInv

\* A command that has ended.
LEMMA EndsOK ==
  ASSUME NEW p \in Worker, Ends(p)
  PROVE  CommandOK(p)' /\ ~Holds(p)' /\ cmd'[p].at = "idle"
BY DEF Ends, CommandOK, OriginalOK, Holds, Idle

\* A step that leaves the files alone, and pays for nothing.
LEMMA QuietStep ==
  ASSUME RetrievalInv, NEW p \in Worker, OtherCommandsStay(p),
         UNCHANGED <<agent, model, files, paid>>, commands' \in 0 .. MaxCommands,
         CommandOK(p)',
         Holds(p)' => Holds(p),
         cmd'[p].at # "authorize"
  PROVE  RetrievalInv'
<1>1. RetrievalTypeOK'
  BY DEF RetrievalInv, RetrievalTypeOK, OtherCommandsStay, files
<1>2. Frame(p)
  BY HolderFacts DEF Frame, Granted, files
<1>3. FilesInv'
  BY DEF RetrievalInv, FilesInv, OriginalPaidOnce, files
<1> QED
  BY <1>1, <1>2, <1>3, OneStep

LEMMA QuietEnd ==
  ASSUME RetrievalInv, NEW p \in Worker, OtherCommandsStay(p), Ends(p),
         UNCHANGED <<agent, model, files, paid, commands>>
  PROVE  RetrievalInv'
BY EndsOK, QuietStep DEF RetrievalInv, RetrievalTypeOK

-----------------------------------------------------------------------------
(* The operator.                                                           *)

LEMMA NewCommand ==
  ASSUME RetrievalTypeOK, NEW p \in Worker, NEW i \in Identity, NEW s \in Status, NEW l \in At,
         Start(p, New(i, s, l))
  PROVE  /\ OtherCommandsStay(p) \/ saved' \notin State
         /\ cmd' \in [Worker -> Command]
         /\ \A q \in Worker \ {p} : cmd'[q] = cmd[q]
         /\ cmd'[p] = New(i, s, l)
         /\ commands' \in 0 .. MaxCommands
<1>1. New(i, s, l) \in Command
  BY DEF New, Command, RetrievalTypeOK
<1>2. cmd' = [cmd EXCEPT ![p] = New(i, s, l)]
  BY DEF Start
<1>3. commands' \in 0 .. MaxCommands
  BY CommandsAssumption DEF Start, RetrievalTypeOK
<1> QED
  BY <1>1, <1>2, <1>3 DEF RetrievalTypeOK, OtherCommandsStay

LEMMA RunStep == ASSUME RetrievalInv, NEW p \in Worker, Run(p) PROVE RetrievalInv'
<1>1. RetrievalTypeOK
  BY DEF RetrievalInv
<1>2. cmd'[p] = New("original", "none", "begin") /\ commands' \in 0 .. MaxCommands
  BY <1>1, NewCommand DEF Run
<1>3. OtherCommandsStay(p)
  BY <1>1, NewCommand DEF Run, RetrievalTypeOK
<1>4. CommandOK(p)' /\ ~Holds(p)' /\ cmd'[p].at # "authorize"
  BY <1>2 DEF New, CommandOK, OriginalOK, Holds
<1> QED
  BY <1>2, <1>3, <1>4, QuietStep DEF Run

LEMMA AuthorizeStep == ASSUME RetrievalInv, NEW p \in Worker, Authorize(p) PROVE RetrievalInv'
<1>1. RetrievalTypeOK
  BY DEF RetrievalInv
<1>2. cmd'[p] = New("replacement", "PENDING", "authorize") /\ commands' \in 0 .. MaxCommands
  BY <1>1, NewCommand DEF Authorize
<1>3. OtherCommandsStay(p)
  BY <1>1, NewCommand DEF Authorize, RetrievalTypeOK
<1>4. authorization' = [authorization EXCEPT !.status = "empty", !.model = model]
  BY DEF Authorize
<1>5. RetrievalTypeOK' /\ authorization'.status = "empty" /\ authorization.status = "none"
  BY <1>1, <1>2, <1>3, <1>4 DEF Authorize, RetrievalTypeOK, OtherCommandsStay
<1>6. \A q \in Worker : cmd[q].at # "authorize"
  <2>1. \A q \in Worker : CommandOK(q)
    BY DEF RetrievalInv, CommandsInv
  <2> QED
    BY <1>5, <2>1 DEF CommandOK, OriginalOK, ReplacementOK
<1>7. Frame(p)
  BY <1>5, <1>6, HolderFacts DEF Frame, Granted, Authorize
<1>8. FilesInv'
  BY <1>5 DEF Authorize, RetrievalInv, FilesInv, OriginalPaidOnce
<1>9. CommandOK(p)' /\ ~Holds(p)'
  BY <1>1, <1>2, <1>5 DEF New, CommandOK, ReplacementOK, Holds, Searching, Authorize, Replaceable, RetrievalTypeOK
<1> QED
  BY <1>3, <1>5, <1>6, <1>7, <1>8, <1>9, OneStep

LEMMA AuthorizeAgainStep == ASSUME RetrievalInv, NEW p \in Worker, AuthorizeAgain(p) PROVE RetrievalInv'
<1>1. RetrievalTypeOK
  BY DEF RetrievalInv
<1>2. PICK s \in Status, l \in At : 
        /\ Start(p, New("replacement", s, l))
        /\ authorization.status = s
        /\ \/ s = "PENDING" /\ l = AfterAuthorize
           \/ s = "CONSUMED" /\ l = "record"
  BY DEF AuthorizeAgain, AfterAuthorize
<1>3. cmd'[p] = New("replacement", s, l) /\ commands' \in 0 .. MaxCommands
  BY <1>1, <1>2, NewCommand
<1>4. OtherCommandsStay(p)
  BY <1>1, <1>2, NewCommand DEF AuthorizeAgain, RetrievalTypeOK
<1>5. l \in {"look", "begin", "record"} /\ (l = "begin" => model = "sync")
  BY <1>2 DEF AfterAuthorize, AuthorizeAgain, Replaceable
<1>6. Granted'
  BY <1>2 DEF AuthorizeAgain, Granted, files
<1>7. CommandOK(p)' /\ ~Holds(p)' /\ cmd'[p].at # "authorize"
  BY <1>2, <1>3, <1>5, <1>6 DEF New, CommandOK, ReplacementOK, Holds, Searching, AfterAuthorize
<1> QED
  BY <1>3, <1>4, <1>7, QuietStep DEF AuthorizeAgain

LEMMA WriteAuthorizationStep ==
  ASSUME RetrievalInv, NEW p \in Worker, WriteAuthorization(p) PROVE RetrievalInv'
<1>1. RetrievalTypeOK /\ cmd[p] \in Command /\ CommandOK(p)
  BY DEF RetrievalInv, RetrievalTypeOK, CommandsInv
<1>2. cmd[p].at = "authorize" /\ cmd[p].on # "original" /\ authorization.status = "empty"
  BY <1>1 DEF WriteAuthorization, CommandOK, OriginalOK, ReplacementOK
<1>3. cmd' = [cmd EXCEPT ![p] = [cmd[p] EXCEPT !.at = AfterAuthorize, !.copy = saved]]
  BY DEF WriteAuthorization
<1>4. [cmd[p] EXCEPT !.at = AfterAuthorize, !.copy = saved] \in Command
  BY <1>1 DEF Command, AfterAuthorize, RetrievalTypeOK
<1>5. OtherCommandsStay(p) /\ CommandMoves(p, AfterAuthorize)
  BY <1>1, <1>3, <1>4 DEF OtherCommandsStay, CommandMoves, RetrievalTypeOK, WriteAuthorization, Command
<1>6. authorization'.status = "PENDING" /\ RetrievalTypeOK'
  BY <1>1, <1>5 DEF WriteAuthorization, RetrievalTypeOK, OtherCommandsStay
<1>7. \A q \in Worker \ {p} : cmd[q].at # "authorize"
  BY <1>2 DEF RetrievalInv, OneAuthorizes
<1>8. Frame(p)
  BY <1>2, <1>6, <1>7, HolderFacts DEF Frame, Granted, WriteAuthorization
<1>9. FilesInv'
  BY <1>2, <1>6 DEF WriteAuthorization, RetrievalInv, FilesInv, OriginalPaidOnce
<1>10. CommandOK(p)' /\ ~Holds(p)' /\ cmd'[p].at # "authorize"
  BY <1>1, <1>2, <1>5, <1>6
     DEF CommandOK, ReplacementOK, CommandMoves, Holds, AfterAuthorize, Granted, Searching,
         WriteAuthorization, RetrievalTypeOK
<1> QED
  BY <1>5, <1>6, <1>8, <1>9, <1>10, OneStep

LEMMA BeginStep == ASSUME RetrievalInv, NEW p \in Worker, Begin(p) PROVE RetrievalInv'
<1> DEFINE s == [cmd[p].copy EXCEPT !.failed = FALSE]
           l == IF cmd[p].on = "original" THEN "look" ELSE "load"
<1>1. RetrievalTypeOK /\ cmd[p] \in Command /\ CommandOK(p)
  BY DEF RetrievalInv, RetrievalTypeOK, CommandsInv
<1>2. s \in State
  BY <1>1 DEF Command, State
<1>3. cmd' = [cmd EXCEPT ![p] = [cmd[p] EXCEPT !.copy = s, !.at = l]] /\ saved' = s
  BY DEF Begin
<1>4. [cmd[p] EXCEPT !.copy = s, !.at = l] \in Command
  BY <1>1, <1>2 DEF Command
<1>5. OtherCommandsStay(p) /\ CommandMoves(p, l)
  BY <1>1, <1>2, <1>3, <1>4 DEF OtherCommandsStay, CommandMoves, RetrievalTypeOK, Command
<1>6. CommandOK(p)' /\ ~Holds(p)' /\ cmd'[p].at # "authorize"
  BY <1>1, <1>5 DEF CommandOK, OriginalOK, ReplacementOK, CommandMoves, Holds, Granted, Searching,
                    Begin, files, Command
<1> QED
  BY <1>1, <1>5, <1>6, QuietStep DEF Begin, RetrievalTypeOK

LEMMA LoadStep == ASSUME RetrievalInv, NEW p \in Worker, Load(p) PROVE RetrievalInv'
<1> DEFINE c == [cmd[p] EXCEPT !.seen = authorization.status, !.at = "look"]
<1>1. RetrievalTypeOK /\ cmd[p] \in Command /\ CommandOK(p)
  BY DEF RetrievalInv, RetrievalTypeOK, CommandsInv
<1>2. cmd' = [cmd EXCEPT ![p] = c]
  BY DEF Load
<1>3. c \in Command
  BY <1>1 DEF Command, RetrievalTypeOK
<1>4. OtherCommandsStay(p) /\ cmd'[p] = c
  BY <1>1, <1>2, <1>3 DEF OtherCommandsStay, RetrievalTypeOK, Load
<1>5. cmd[p].on # "original" /\ cmd[p].uses = "sync" /\ Granted
  BY <1>1 DEF CommandOK, OriginalOK, ReplacementOK, Load
<1>6. c.on = cmd[p].on /\ c.uses = cmd[p].uses /\ c.seen = authorization.status /\ c.at = "look"
  BY <1>1 DEF Command
<1>7. CommandOK(p)' /\ ~Holds(p)' /\ cmd'[p].at # "authorize"
  BY <1>4, <1>5, <1>6 DEF CommandOK, ReplacementOK, Holds, Granted, Searching, Load, files
<1> QED
  BY <1>1, <1>4, <1>7, QuietStep DEF Load, RetrievalTypeOK

-----------------------------------------------------------------------------
(* prepare().                                                              *)

LEMMA LookStep == ASSUME RetrievalInv, NEW p \in Worker, Look(p) PROVE RetrievalInv'
<1>1. RetrievalTypeOK /\ cmd[p] \in Command /\ CommandOK(p)
  BY DEF RetrievalInv, RetrievalTypeOK, CommandsInv
<1>2. ASSUME NEW e \in Error, Fail(p, e) PROVE RetrievalInv'
  BY <1>1, <1>2, FailEnds, QuietEnd DEF Look
<1>3. ASSUME NEW l \in {OnFound(p), "reserve"}, Continue(p, l) PROVE RetrievalInv'
  <2>1. l \in {"reason", "record", "reserve"}
    BY DEF OnFound
  <2>2. CommandMoves(p, l) /\ OtherCommandsStay(p)
    BY <1>1, <1>3, <2>1, GotoMoves
  <2>3. cmd[p].on = "original" => l # "record"
    BY <1>3 DEF OnFound
  <2>4. CommandOK(p)' /\ ~Holds(p)' /\ cmd'[p].at # "authorize"
    BY <1>1, <2>1, <2>2, <2>3
       DEF CommandOK, OriginalOK, ReplacementOK, CommandMoves, Holds, Granted, Searching, Look, files
  <2> QED
    BY <1>1, <2>2, <2>4, QuietStep DEF Look, RetrievalTypeOK
<1> QED
  BY <1>2, <1>3 DEF Look

LEMMA ReserveStep == ASSUME RetrievalInv, NEW p \in Worker, Reserve(p) PROVE RetrievalInv'
<1>1. RetrievalTypeOK /\ cmd[p] \in Command /\ CommandOK(p)
  BY DEF RetrievalInv, RetrievalTypeOK, CommandsInv
<1>2. CommandMoves(p, "reserving") /\ OtherCommandsStay(p)
  BY <1>1, GotoMoves DEF Reserve
<1>3. /\ cmd[p].at = "reserve" /\ reservation[cmd[p].on] = "none"
      /\ reservation' = [reservation EXCEPT ![cmd[p].on] = "empty"]
      /\ UNCHANGED <<agent, model, job, context, authorization, paid, commands>>
  BY DEF Reserve
<1>4. RetrievalTypeOK'
  BY <1>1, <1>2, <1>3, Fields DEF RetrievalTypeOK, OtherCommandsStay
<1>5. cmd[p].on = "original" => \A q \in Worker : ~Holds(q)
  BY <1>3, HolderFacts
<1>6. Frame(p)
  BY <1>1, <1>3, <1>5, HolderFacts, Fields DEF Frame, Granted, RetrievalTypeOK
<1>7. FilesInv'
  BY <1>1, <1>3, Fields DEF RetrievalInv, FilesInv, OriginalPaidOnce, RetrievalTypeOK
<1>8. cmd[p].on # "original" => cmd[p].seen = "PENDING"
  BY <1>1, <1>3, Fields DEF CommandOK, ReplacementOK, RetrievalInv, FilesInv
<1>9. CommandOK(p)'
  <2>1. CASE cmd[p].on = "original"
    <3>1. paid["original"] = 0 /\ job["original"] = "none" /\ reservation'["original"] = "empty"
      BY <1>1, <1>3, <2>1 DEF RetrievalInv, FilesInv, RetrievalTypeOK
    <3> QED
      BY <1>1, <1>2, <1>3, <2>1, <3>1 DEF CommandOK, OriginalOK, CommandMoves, Holds
  <2>2. CASE cmd[p].on # "original"
    BY <1>1, <1>2, <1>3, <1>8, <2>2 DEF CommandOK, ReplacementOK, CommandMoves, Granted, Searching
  <2> QED
    BY <2>1, <2>2
<1>10. (Holds(p)' => \A q \in Worker : ~Holds(q)) /\ cmd'[p].at # "authorize"
  BY <1>2, <1>5 DEF Holds, CommandMoves
<1> QED
  BY <1>2, <1>4, <1>6, <1>7, <1>9, <1>10, OneStep

LEMMA WriteReservationStep ==
  ASSUME RetrievalInv, NEW p \in Worker, WriteReservation(p) PROVE RetrievalInv'
<1> DEFINE l == AfterReserve(cmd[p])
<1>1. RetrievalTypeOK /\ cmd[p] \in Command /\ CommandOK(p)
  BY DEF RetrievalInv, RetrievalTypeOK, CommandsInv
<1>2. CommandMoves(p, l) /\ OtherCommandsStay(p) /\ l \in {"consume", "search"}
  BY <1>1, GotoMoves DEF WriteReservation, AfterReserve
<1>3. /\ cmd[p].at = "reserving"
      /\ reservation' = [reservation EXCEPT ![cmd[p].on] = "written"]
      /\ UNCHANGED <<agent, model, job, context, authorization, paid, commands>>
  BY DEF WriteReservation
<1>4. RetrievalTypeOK'
  BY <1>1, <1>2, <1>3, Fields DEF RetrievalTypeOK, OtherCommandsStay
<1>5. Frame(p)
  BY <1>1, <1>3, HolderFacts, Fields DEF Frame, Granted, RetrievalTypeOK
<1>6. FilesInv'
  BY <1>1, <1>3, Fields DEF RetrievalInv, FilesInv, OriginalPaidOnce, RetrievalTypeOK
<1>7. /\ cmd[p].on = "original" => cmd[p].seen = "none" /\ l = "search" /\ Holds(p)
      /\ cmd[p].on # "original" => cmd[p].seen = "PENDING" /\ l = "consume"
  BY <1>1, <1>3 DEF CommandOK, OriginalOK, ReplacementOK, AfterReserve, Holds
<1>8. CommandOK(p)'
  <2>1. CASE cmd[p].on = "original"
    BY <1>1, <1>2, <1>3, <1>7, <2>1 DEF CommandOK, OriginalOK, CommandMoves, Holds, CanResume, RetrievalTypeOK
  <2>2. CASE cmd[p].on # "original"
    BY <1>1, <1>2, <1>3, <1>7, <2>2 DEF CommandOK, ReplacementOK, CommandMoves, Granted, Searching
  <2> QED
    BY <2>1, <2>2
<1>9. (Holds(p)' => Holds(p)) /\ cmd'[p].at # "authorize"
  BY <1>2, <1>7 DEF Holds, CommandMoves
<1> QED
  BY <1>2, <1>4, <1>5, <1>6, <1>8, <1>9, OneStep

LEMMA ReservedStep == ASSUME RetrievalInv, NEW p \in Worker, Reserved(p) PROVE RetrievalInv'
<1>1. RetrievalTypeOK /\ cmd[p] \in Command /\ CommandOK(p)
  BY DEF RetrievalInv, RetrievalTypeOK, CommandsInv
<1>2. ASSUME Fail(p, "other") PROVE RetrievalInv'
  BY <1>1, <1>2, FailEnds, QuietEnd DEF Reserved
<1>3. CASE cmd[p].seen = "PENDING" /\ Continue(p, "consume")
  <2>1. CommandMoves(p, "consume") /\ OtherCommandsStay(p)
    BY <1>1, <1>3, GotoMoves
  <2>2. CommandOK(p)' /\ ~Holds(p)' /\ cmd'[p].at # "authorize"
    BY <1>1, <1>3, <2>1
       DEF CommandOK, OriginalOK, ReplacementOK, CommandMoves, Holds, Granted, Searching, Reserved, files
  <2> QED
    BY <1>1, <2>1, <2>2, QuietStep DEF Reserved, RetrievalTypeOK
<1>4. CASE cmd[p].seen # "PENDING" /\ CanResume(cmd[p]) /\ Continue(p, "search")
  <2>1. CommandMoves(p, "search") /\ OtherCommandsStay(p)
    BY <1>1, <1>4, GotoMoves
  <2>2. cmd[p].on = "original"
    BY <1>1, <1>4 DEF CommandOK, ReplacementOK, CanResume, Reserved
  <2>3. ~Holds(p)'
    BY <1>4, <2>1 DEF Holds, CommandMoves, CanResume, Reserved, files
  <2>4. CommandOK(p)' /\ cmd'[p].at # "authorize"
    BY <1>1, <2>1, <2>2, <2>3 DEF CommandOK, OriginalOK, CommandMoves
  <2> QED
    BY <1>1, <2>1, <2>3, <2>4, QuietStep DEF Reserved, RetrievalTypeOK
<1> QED
  BY <1>2, <1>3, <1>4 DEF Reserved

LEMMA ConsumeStep == ASSUME RetrievalInv, NEW p \in Worker, Consume(p) PROVE RetrievalInv'
<1>1. RetrievalTypeOK /\ cmd[p] \in Command /\ CommandOK(p)
  BY DEF RetrievalInv, RetrievalTypeOK, CommandsInv
<1>2. CASE Fail(p, "other") /\ UNCHANGED authorization
  BY <1>1, <1>2, FailEnds, QuietEnd DEF Consume, files
<1>3. CASE /\ reservation[cmd[p].on] = "written" /\ Continue(p, "search")
           /\ authorization' = [authorization EXCEPT !.status = "CONSUMED", !.recorded = FALSE]
  <2>1. CommandMoves(p, "search") /\ OtherCommandsStay(p)
    BY <1>1, <1>3, GotoMoves
  <2>2. /\ cmd[p].at = "consume"
        /\ UNCHANGED <<agent, model, reservation, job, context, paid, commands>>
    BY DEF Consume
  <2>3. cmd[p].on = "replacement" /\ cmd[p].seen = "PENDING" /\ Granted
    BY <1>1, <2>2, Fields DEF CommandOK, OriginalOK, ReplacementOK
  <2>4. RetrievalTypeOK' /\ authorization'.status = "CONSUMED"
    BY <1>1, <1>3, <2>1, <2>2 DEF RetrievalTypeOK, OtherCommandsStay
  <2>5. \A q \in Worker : cmd[q].at # "authorize"
    BY <2>3 DEF RetrievalInv, CommandsInv, CommandOK, OriginalOK, ReplacementOK, Granted
  <2>6. Frame(p)
    BY <2>2, <2>4, <2>5, HolderFacts DEF Frame, Granted
  <2>7. FilesInv'
    BY <1>3, <2>2, <2>3, <2>4 DEF RetrievalInv, FilesInv, OriginalPaidOnce
  <2>8. CommandOK(p)' /\ ~Holds(p)' /\ cmd'[p].at # "authorize"
    BY <1>1, <2>1, <2>3, <2>4 DEF CommandOK, ReplacementOK, CommandMoves, Holds, Granted
  <2> QED
    BY <2>1, <2>4, <2>6, <2>7, <2>8, OneStep
<1> QED
  BY <1>2, <1>3 DEF Consume

-----------------------------------------------------------------------------
(* The search.                                                             *)

\* Who may go and pay: the holder of the right, or a command that has consumed its
\* authorization.
LEMMA Payer ==
  ASSUME RetrievalInv, NEW p \in Worker, cmd[p].at \in {"search", "submit"}
  PROVE  cmd[p].on = "original" => Holds(p) \/ CanResume(cmd[p])
BY DEF Holds

\* A step that pays for the search of p.
LEMMA PayStep ==
  ASSUME RetrievalInv, NEW p \in Worker, NEW l \in {"sent", "posted"}, Pay(p), Continue(p, l),
         UNCHANGED <<agent, model, files, commands>>,
         cmd[p].at \in {"search", "submit"},
         cmd[p].on = "original" => Holds(p)
  PROVE  RetrievalInv'
<1>1. RetrievalTypeOK /\ cmd[p] \in Command /\ CommandOK(p)
  BY DEF RetrievalInv, RetrievalTypeOK, CommandsInv
<1>2. CommandMoves(p, l) /\ OtherCommandsStay(p)
  BY <1>1, GotoMoves
<1>3. paid' = [paid EXCEPT ![cmd[p].on] = paid[cmd[p].on] + 1]
  BY DEF Pay
<1>4. RetrievalTypeOK'
  BY <1>1, <1>2, <1>3, Fields DEF RetrievalTypeOK, OtherCommandsStay, files
<1>5. cmd[p].on = "original" => /\ paid["original"] = 0 /\ paid'["original"] = 1
                                /\ \A q \in Worker \ {p} : ~Holds(q)
  BY <1>1, <1>3, HolderFacts DEF RetrievalTypeOK, RetrievalInv, OneHolds
<1>6. cmd[p].on # "original" => /\ paid'["original"] = paid["original"]
                                /\ authorization.status = "CONSUMED"
                                /\ cmd[p].seen = "PENDING"
  BY <1>1, <1>3, Fields DEF RetrievalTypeOK, CommandOK, ReplacementOK, Searching
<1>7. Frame(p)
  BY <1>1, <1>5, <1>6, HolderFacts DEF Frame, Granted, files
<1>8. FilesInv'
  <2>1. CASE cmd[p].on = "original"
    <3>1. reservation["original"] # "none" /\ paid'["replacement"] = paid["replacement"]
      BY <1>1, <1>3, <2>1, HolderFacts DEF RetrievalTypeOK
    <3> QED
      BY <1>5, <2>1, <3>1 DEF RetrievalInv, FilesInv, OriginalPaidOnce, files
  <2>2. CASE cmd[p].on # "original"
    BY <1>6, <2>2 DEF RetrievalInv, FilesInv, OriginalPaidOnce, files
  <2> QED
    BY <2>1, <2>2
<1>9. CommandOK(p)' /\ ~Holds(p)' /\ cmd'[p].at # "authorize"
  <2>1. CASE cmd[p].on = "original"
    BY <1>1, <1>2, <1>5, <2>1 DEF CommandOK, OriginalOK, CommandMoves, Holds
  <2>2. CASE cmd[p].on # "original"
    BY <1>1, <1>2, <1>6, <2>2 DEF CommandOK, ReplacementOK, CommandMoves, Holds, Granted, files
  <2> QED
    BY <2>1, <2>2
<1> QED
  BY <1>2, <1>4, <1>7, <1>8, <1>9, OneStep

LEMMA SendSyncStep == ASSUME RetrievalInv, NEW p \in Worker, SendSync(p) PROVE RetrievalInv'
<1>1. ~CanResume(cmd[p])
  BY DEF SendSync, CanResume
<1> QED
  BY <1>1, Payer, PayStep DEF SendSync

LEMMA SubmitStep == ASSUME RetrievalInv, NEW p \in Worker, Submit(p) PROVE RetrievalInv'
BY PayStep DEF Submit, Holds

LEMMA AnswerStep == ASSUME RetrievalInv, NEW p \in Worker, Answer(p) PROVE RetrievalInv'
<1>1. RetrievalTypeOK /\ cmd[p] \in Command /\ CommandOK(p)
  BY DEF RetrievalInv, RetrievalTypeOK, CommandsInv
<1>2. ASSUME Fail(p, "other") PROVE RetrievalInv'
  BY <1>1, <1>2, FailEnds, QuietEnd DEF Answer
<1>3. ASSUME Continue(p, "save") PROVE RetrievalInv'
  <2>1. CommandMoves(p, "save") /\ OtherCommandsStay(p)
    BY <1>1, <1>3, GotoMoves
  <2>2. CommandOK(p)' /\ ~Holds(p)' /\ cmd'[p].at # "authorize"
    BY <1>1, <2>1
       DEF CommandOK, OriginalOK, ReplacementOK, CommandMoves, Holds, Granted, Searching, Answer, files
  <2> QED
    BY <1>1, <2>1, <2>2, QuietStep DEF Answer, RetrievalTypeOK
<1> QED
  BY <1>2, <1>3 DEF Answer

\* A step that writes the sidecar of the search of p and goes on, or ends.
LEMMA JobStep ==
  ASSUME RetrievalInv, NEW p \in Worker, NEW j \in Job, SetJob(p, j), OtherCommandsStay(p),
         UNCHANGED <<agent, model, reservation, context, authorization, paid, commands>>,
         job[cmd[p].on] \notin {"none", "prepared"} => j \notin {"none", "prepared"},
         cmd[p].on = "original" =>
           /\ \A q \in Worker \ {p} : ~Holds(q)
           /\ reservation["original"] # "none",
         CommandOK(p)', Holds(p)' => Holds(p), cmd'[p].at # "authorize"
  PROVE  RetrievalInv'
<1>1. RetrievalTypeOK /\ cmd[p] \in Command /\ CommandOK(p)
  BY DEF RetrievalInv, RetrievalTypeOK, CommandsInv
<1>2. job' = [job EXCEPT ![cmd[p].on] = j]
  BY DEF SetJob
<1>3. RetrievalTypeOK'
  BY <1>1, <1>2, Fields DEF RetrievalTypeOK, OtherCommandsStay
<1>4. Frame(p)
  BY <1>1, <1>2, Fields, HolderFacts DEF Frame, Granted, RetrievalTypeOK
<1>5. FilesInv'
  BY <1>1, <1>2, Fields DEF RetrievalInv, FilesInv, OriginalPaidOnce, RetrievalTypeOK
<1> QED
  BY <1>3, <1>4, <1>5, OneStep

\* Once a search is paid for, nobody holds the right, and its reservation is there.
LEMMA NobodyHolds ==
  ASSUME RetrievalInv, paid["original"] # 0 \/ job["original"] \notin {"none", "prepared"}
  PROVE  (\A q \in Worker : ~Holds(q)) /\ reservation["original"] # "none"
<1>1. \A q \in Worker : CommandOK(q)
  BY DEF RetrievalInv, CommandsInv
<1> QED
  BY <1>1 DEF RetrievalInv, CommandOK, OriginalOK, Holds, FilesInv

LEMMA SearchBatchStep == ASSUME RetrievalInv, NEW p \in Worker, SearchBatch(p) PROVE RetrievalInv'
<1>1. RetrievalTypeOK /\ cmd[p] \in Command /\ CommandOK(p)
  BY DEF RetrievalInv, RetrievalTypeOK, CommandsInv
<1>2. CASE Fail(p, "other") /\ UNCHANGED job
  BY <1>1, <1>2, FailEnds, QuietEnd DEF SearchBatch, files
<1>3. CASE /\ job[cmd[p].on] \notin {"none", "prepared"}
           /\ Continue(p, "poll") /\ UNCHANGED job
  <2>1. CommandMoves(p, "poll") /\ OtherCommandsStay(p)
    BY <1>1, <1>3, GotoMoves
  <2>2. CommandOK(p)' /\ ~Holds(p)' /\ cmd'[p].at # "authorize"
    BY <1>1, <2>1
       DEF CommandOK, OriginalOK, ReplacementOK, CommandMoves, Holds, Granted, Searching, SearchBatch
  <2> QED
    BY <1>1, <1>3, <2>1, <2>2, QuietStep DEF SearchBatch, RetrievalTypeOK, files
<1>4. CASE /\ job[cmd[p].on] = "none"
           /\ SetJob(p, "prepared") /\ Continue(p, "submit")
  <2>1. CommandMoves(p, "submit") /\ OtherCommandsStay(p)
    BY <1>1, <1>4, GotoMoves
  <2>2. cmd[p].on = "original" => Holds(p)
    BY <1>4, Payer DEF SearchBatch, CanResume
  <2>3. cmd[p].on = "original" => /\ \A q \in Worker \ {p} : ~Holds(q)
                                  /\ reservation["original"] # "none"
                                  /\ paid["original"] = 0 /\ job'["original"] = "prepared"
    BY <1>1, <1>4, <2>2, HolderFacts DEF RetrievalInv, OneHolds, SetJob, RetrievalTypeOK
  <2>4. CommandOK(p)'
    <3>1. CASE cmd[p].on = "original"
      BY <1>1, <2>1, <2>3, <3>1 DEF CommandOK, OriginalOK, CommandMoves, Holds, SearchBatch
    <3>2. CASE cmd[p].on # "original"
      BY <1>1, <2>1, <3>2 DEF CommandOK, ReplacementOK, CommandMoves, Granted, Searching, SearchBatch
    <3> QED
      BY <3>1, <3>2
  <2>5. (Holds(p)' => Holds(p)) /\ cmd'[p].at # "authorize"
    BY <2>1, <2>2 DEF Holds, CommandMoves
  <2> QED
    BY <1>4, <2>1, <2>3, <2>4, <2>5, JobStep DEF SearchBatch
<1> QED
  BY <1>2, <1>3, <1>4 DEF SearchBatch

LEMMA SubmittedStep == ASSUME RetrievalInv, NEW p \in Worker, Submitted(p) PROVE RetrievalInv'
<1>1. RetrievalTypeOK /\ cmd[p] \in Command /\ CommandOK(p)
  BY DEF RetrievalInv, RetrievalTypeOK, CommandsInv
<1>2. CASE Fail(p, "other") /\ UNCHANGED job
  BY <1>1, <1>2, FailEnds, QuietEnd DEF Submitted, files
<1>3. CASE SetJob(p, "submitted") /\ Continue(p, "poll")
  <2>1. CommandMoves(p, "poll") /\ OtherCommandsStay(p)
    BY <1>1, <1>3, GotoMoves
  <2>2. cmd[p].on = "original" => paid["original"] = 1
    BY <1>1 DEF Submitted, CommandOK, OriginalOK
  <2>3. cmd[p].on = "original" => /\ \A q \in Worker \ {p} : ~Holds(q)
                                  /\ reservation["original"] # "none"
    BY <2>2, NobodyHolds
  <2>4. CommandOK(p)' /\ ~Holds(p)' /\ cmd'[p].at # "authorize"
    BY <1>1, <2>1
       DEF CommandOK, OriginalOK, ReplacementOK, CommandMoves, Holds, Granted, Searching, Submitted
  <2> QED
    BY <1>3, <2>1, <2>3, <2>4, JobStep DEF Submitted
<1> QED
  BY <1>2, <1>3 DEF Submitted

LEMMA PollStep == ASSUME RetrievalInv, NEW p \in Worker, Poll(p) PROVE RetrievalInv'
<1>1. RetrievalTypeOK /\ cmd[p] \in Command /\ CommandOK(p)
  BY DEF RetrievalInv, RetrievalTypeOK, CommandsInv
<1>2. CASE Fail(p, "other") /\ UNCHANGED job
  BY <1>1, <1>2, FailEnds, QuietEnd DEF Poll, files
<1>3. ASSUME job[cmd[p].on] \notin {"none", "prepared"}
      PROVE  cmd[p].on = "original" => /\ \A q \in Worker \ {p} : ~Holds(q)
                                       /\ reservation["original"] # "none"
  BY <1>3, NobodyHolds
<1>4. CASE /\ job[cmd[p].on] \in {"submitted", "completed"}
           /\ SetJob(p, "completed") /\ Continue(p, "save")
  <2>1. CommandMoves(p, "save") /\ OtherCommandsStay(p)
    BY <1>1, <1>4, GotoMoves
  <2>2. CommandOK(p)' /\ ~Holds(p)' /\ cmd'[p].at # "authorize"
    BY <1>1, <2>1
       DEF CommandOK, OriginalOK, ReplacementOK, CommandMoves, Holds, Granted, Searching, Poll
  <2> QED
    BY <1>3, <1>4, <2>1, <2>2, JobStep DEF Poll
<1>5. CASE /\ job[cmd[p].on] \in {"submitted", "failed"}
           /\ SetJob(p, "failed") /\ Fail(p, "batch_failed")
  <2>1. Ends(p) /\ OtherCommandsStay(p)
    BY <1>1, <1>5, FailEnds
  <2> QED
    BY <1>3, <1>5, <2>1, EndsOK, JobStep DEF Poll
<1> QED
  BY <1>2, <1>4, <1>5 DEF Poll

-----------------------------------------------------------------------------
(* What was found is saved and used.                                       *)

\* A step that writes the context, or that it is recorded, and goes on to a place
\* where nothing is paid for.
LEMMA RecordStep ==
  ASSUME RetrievalInv, NEW p \in Worker, NEW l \in {"saving", "record", "reason"},
         CommandMoves(p, l), OtherCommandsStay(p), cmd[p].at # "authorize",
         cmd[p].on = "original" => l # "record",
         UNCHANGED <<agent, model, reservation, job, paid, commands>>,
         context' \in [Identity -> File],
         authorization' \in [status : Status, model : Model, recorded : BOOLEAN],
         authorization'.status = authorization.status
  PROVE  RetrievalInv'
<1>1. RetrievalTypeOK /\ cmd[p] \in Command /\ CommandOK(p)
  BY DEF RetrievalInv, RetrievalTypeOK, CommandsInv
<1>2. RetrievalTypeOK'
  BY <1>1 DEF RetrievalTypeOK, OtherCommandsStay
<1>3. Frame(p)
  BY HolderFacts DEF Frame, Granted
<1>4. FilesInv'
  BY DEF RetrievalInv, FilesInv, OriginalPaidOnce
<1>5. CommandOK(p)' /\ ~Holds(p)' /\ cmd'[p].at # "authorize"
  BY <1>1 DEF CommandOK, OriginalOK, ReplacementOK, CommandMoves, Holds, Granted, Searching
<1> QED
  BY <1>2, <1>3, <1>4, <1>5, OneStep

LEMMA SaveStep == ASSUME RetrievalInv, NEW p \in Worker, Save(p) PROVE RetrievalInv'
<1>1. RetrievalTypeOK /\ cmd[p] \in Command /\ CommandOK(p)
  BY DEF RetrievalInv, RetrievalTypeOK, CommandsInv
<1>2. CASE Fail(p, "other") /\ UNCHANGED context
  BY <1>1, <1>2, FailEnds, QuietEnd DEF Save, files
<1>3. CASE /\ context' = [context EXCEPT ![cmd[p].on] = "empty"]
           /\ Continue(p, "saving")
  <2>1. CommandMoves(p, "saving") /\ OtherCommandsStay(p) /\ context' \in [Identity -> File]
    BY <1>1, <1>3, GotoMoves DEF RetrievalTypeOK
  <2> QED
    BY <1>1, <2>1, RecordStep DEF Save, RetrievalTypeOK
<1> QED
  BY <1>2, <1>3 DEF Save

LEMMA WriteContextStep == ASSUME RetrievalInv, NEW p \in Worker, WriteContext(p) PROVE RetrievalInv'
<1>1. RetrievalTypeOK /\ cmd[p] \in Command /\ CommandOK(p)
  BY DEF RetrievalInv, RetrievalTypeOK, CommandsInv
<1>2. CommandMoves(p, OnFound(p)) /\ OtherCommandsStay(p) /\ context' \in [Identity -> File]
  BY <1>1, GotoMoves DEF RetrievalTypeOK, WriteContext, OnFound
<1>3. OnFound(p) \in {"record", "reason"} /\ (cmd[p].on = "original" => OnFound(p) # "record")
  BY DEF OnFound
<1> QED
  BY <1>1, <1>2, <1>3, RecordStep DEF WriteContext, RetrievalTypeOK

LEMMA RecordContextStep == ASSUME RetrievalInv, NEW p \in Worker, RecordContext(p) PROVE RetrievalInv'
<1>1. RetrievalTypeOK /\ cmd[p] \in Command /\ CommandOK(p)
  BY DEF RetrievalInv, RetrievalTypeOK, CommandsInv
<1>2. CASE Fail(p, "other") /\ UNCHANGED authorization
  BY <1>1, <1>2, FailEnds, QuietEnd DEF RecordContext, files
<1>3. CASE /\ Continue(p, "reason")
           /\ authorization' = [authorization EXCEPT !.recorded = TRUE]
  <2>1. CommandMoves(p, "reason") /\ OtherCommandsStay(p)
    BY <1>1, <1>3, GotoMoves
  <2> QED
    BY <1>1, <1>3, <2>1, RecordStep DEF RecordContext, RetrievalTypeOK
<1> QED
  BY <1>2, <1>3 DEF RecordContext

LEMMA ReasonStep == ASSUME RetrievalInv, NEW p \in Worker, Reason(p) PROVE RetrievalInv'
<1>1. RetrievalTypeOK /\ cmd[p] \in Command
  BY DEF RetrievalInv, RetrievalTypeOK
<1>2. ASSUME NEW e \in {"no_endpoint", "other"}, Fail(p, e) PROVE RetrievalInv'
  BY <1>1, <1>2, FailEnds, QuietEnd DEF Reason
<1>3. CASE SaveAndEnd(p, [cmd[p].copy EXCEPT !.done = TRUE])
  <2>1. [cmd[p].copy EXCEPT !.done = TRUE] \in State
    BY <1>1, Fields DEF State
  <2> QED
    BY <1>1, <1>3, <2>1, SaveEnds, QuietEnd DEF Reason
<1> QED
  BY <1>2, <1>3 DEF Reason

LEMMA CrashStep == ASSUME RetrievalInv, NEW p \in Worker, Stop(p) PROVE RetrievalInv'
<1>1. RetrievalTypeOK /\ saved \in State
  BY DEF RetrievalInv, RetrievalTypeOK
<1> QED
  BY <1>1, SaveEnds, QuietEnd DEF Stop

-----------------------------------------------------------------------------
(* The theorems.                                                           *)

LEMMA ConfigureStep == ASSUME RetrievalInv, NEW m \in Model, Configure(m) PROVE RetrievalInv'
<1>1. RetrievalTypeOK'
  BY DEF RetrievalInv, RetrievalTypeOK, Configure, files
<1>2. FilesInv'
  BY DEF RetrievalInv, FilesInv, OriginalPaidOnce, Configure, files
<1>3. CommandsInv' /\ OneHolds' /\ OneAuthorizes'
  BY DEF RetrievalInv, CommandsInv, CommandOK, OriginalOK, ReplacementOK, Holds, CanResume, Granted,
         OneHolds, OneAuthorizes, Configure, files
<1> QED
  BY <1>1, <1>2, <1>3 DEF RetrievalInv

LEMMA StutterStep == ASSUME RetrievalInv, UNCHANGED retrieval PROVE RetrievalInv'
<1>1. RetrievalTypeOK'
  BY DEF RetrievalInv, RetrievalTypeOK, retrieval, files
<1>2. FilesInv'
  BY DEF RetrievalInv, FilesInv, OriginalPaidOnce, retrieval, files
<1>3. CommandsInv' /\ OneHolds' /\ OneAuthorizes'
  BY DEF RetrievalInv, CommandsInv, CommandOK, OriginalOK, ReplacementOK, Holds, CanResume, Granted,
         OneHolds, OneAuthorizes, retrieval, files
<1> QED
  BY <1>1, <1>2, <1>3 DEF RetrievalInv

LEMMA NextInv == RetrievalInv /\ [RetrievalNext]_retrieval => RetrievalInv'
<1> SUFFICES ASSUME RetrievalInv, [RetrievalNext]_retrieval PROVE RetrievalInv'
  OBVIOUS
<1>1. CASE UNCHANGED retrieval
  BY <1>1, StutterStep
<1>2. ASSUME NEW m \in Model, Configure(m) PROVE RetrievalInv'
  BY <1>2, ConfigureStep
<1>3. ASSUME NEW p \in Worker, Run(p) \/ Authorize(p) \/ AuthorizeAgain(p) \/ Stop(p)
      PROVE  RetrievalInv'
  BY <1>3, RunStep, AuthorizeStep, AuthorizeAgainStep, CrashStep
<1>4. ASSUME NEW p \in Worker, RetrievalStep(p) PROVE RetrievalInv'
  <2>1. CASE WriteAuthorization(p) \/ Begin(p) \/ Load(p)
    BY <2>1, WriteAuthorizationStep, BeginStep, LoadStep
  <2>2. CASE Look(p) \/ Reserve(p) \/ WriteReservation(p) \/ Reserved(p) \/ Consume(p)
    BY <2>2, LookStep, ReserveStep, WriteReservationStep, ReservedStep, ConsumeStep
  <2>3. CASE SendSync(p) \/ Answer(p) \/ SearchBatch(p) \/ Submit(p) \/ Submitted(p) \/ Poll(p)
    BY <2>3, SendSyncStep, AnswerStep, SearchBatchStep, SubmitStep, SubmittedStep, PollStep
  <2>4. CASE Save(p) \/ WriteContext(p) \/ RecordContext(p) \/ Reason(p)
    BY <2>4, SaveStep, WriteContextStep, RecordContextStep, ReasonStep
  <2> QED
    BY <1>4, <2>1, <2>2, <2>3, <2>4 DEF RetrievalStep
<1> QED
  BY <1>1, <1>2, <1>3, <1>4 DEF RetrievalNext

\* The invariant behind the others: at most one command holds the right to pay for the
\* original search, and only until it has paid; who pays for a replacement has consumed
\* the authorization behind its reservation (retrieval/coordinator.py:56-127).
THEOREM RetrievalInvariant == RetrievalSpec => []RetrievalInv
<1>1. RetrievalInit => RetrievalInv
  BY RetrievalInitInv
<1>2. RetrievalInv /\ [RetrievalNext]_retrieval => RetrievalInv'
  BY NextInv
<1> QED
  BY <1>1, <1>2, PTL DEF RetrievalSpec

\* Every variable keeps its type, for any number of processes and commands.
THEOREM RetrievalTypeCorrect == RetrievalSpec => []RetrievalTypeOK
<1>1. RetrievalInv => RetrievalTypeOK
  BY DEF RetrievalInv
<1> QED
  BY <1>1, RetrievalInvariant, PTL

\* The search of a task is paid for at most once: by rerun, recover, poll, on any model
\* and after any stop (retrieval/coordinator.py:56-95).
THEOREM SearchesArePaidOnce == RetrievalSpec => []OriginalPaidOnce
<1>1. RetrievalInv => OriginalPaidOnce
  BY DEF RetrievalInv, FilesInv
<1> QED
  BY <1>1, RetrievalInvariant, PTL

\* A replacement is paid for only behind its reservation and a consumed authorization,
\* by commands that loaded it pending (common/retrieval_reconstruction.py:193-228,
\* common/retrieval_provider_retry.py:214-250).
THEOREM ReplacementsAreAuthorized == RetrievalSpec => []ReplacementIsAuthorized
<1>1. ASSUME RetrievalInv, NEW p \in Worker, cmd[p].on = "replacement", cmd[p].at \in Searching
      PROVE  cmd[p].seen = "PENDING" /\ authorization.status = "CONSUMED"
  BY <1>1 DEF RetrievalInv, CommandsInv, CommandOK, ReplacementOK
<1>2. RetrievalInv => ReplacementIsAuthorized
  BY <1>1 DEF RetrievalInv, FilesInv, ReplacementIsAuthorized
<1> QED
  BY <1>2, RetrievalInvariant, PTL

-----------------------------------------------------------------------------
(* RevisionExchange.                                                       *)

\* The operations of a process past ReadGrant's read.
Consuming == {"claim", "writeClaim", "rewrite"}

\* A process that looks at slot i has seen the slots before it taken by other
\* requests, and one process writes the slot it created.
BudgetInv ==
  /\ SlotsInOrder
  /\ OneSlotPerRequest
  /\ \A p \in Process :
       /\ pc[p] \in {"slot", "fill"} =>
            \A k \in Slot : k < work[p].at =>
              slot[k] \in Request /\ slot[k] # work[p].request
       /\ pc[p] = "fill" => slot[work[p].at] = Torn
  /\ \A p, q \in Process :
       pc[p] = "fill" /\ pc[q] = "fill" /\ work[p].at = work[q].at => p = q

\* A request file is created behind its slot and written by its creator.
RequestInv ==
  /\ RequestHasSlot
  /\ WaitingIsWritten
  /\ \A p \in Process :
       /\ pc[p] \in {"request", "write", "save"} => Found(work[p].request)
       /\ pc[p] = "write" => request[work[p].request] = Torn
       /\ pc[p] = "save" => request[work[p].request] \notin {Absent, Torn}
  /\ \A p, q \in Process :
       pc[p] = "write" /\ pc[q] = "write" /\ work[p].request = work[q].request => p = q

\* An authorization is parsed before it is used, and consumed behind its claim.
GrantInv ==
  /\ \A r \in Request :
       grant[r] = "CONSUMED" => claim[r] \in Reservations /\ used[r] = claim[r]
  /\ \A p \in Process :
       LET r == work[p].request
       IN /\ pc[p] = "writeGrant" => grant[r] = Torn
          /\ pc[p] \in {"budget", "read", "executing"} \union Consuming =>
               grant[r] \in {"PENDING", "CONSUMED"}
          /\ pc[p] \in Consuming /\ work[p].seen = "CONSUMED" => grant[r] = "CONSUMED"
          /\ pc[p] = "writeClaim" => claim[r] = Torn
          /\ pc[p] \in {"rewrite", "executing"} => claim[r] = work[p].use
          /\ pc[p] = "executing" => grant[r] = "CONSUMED"
  /\ \A p, q \in Process :
       work[p].request = work[q].request =>
         /\ pc[p] = "writeGrant" /\ pc[q] = "writeGrant" => p = q
         /\ pc[p] = "writeClaim" /\ pc[q] = "writeClaim" => p = q

IInv == TypeOK /\ BudgetInv /\ RequestInv /\ GrantInv

-----------------------------------------------------------------------------
(* Types.                                                                  *)

\* Nothing is written, nobody works.
LEMMA InitInv == Init => IInv
<1> SUFFICES ASSUME Init PROVE IInv
  OBVIOUS
<1> USE ExchangeAssumption, FileAssumption
<1>1. TypeOK
  <2>1. NoWork \in Work /\ NoWork.at = 1 /\ "idle" \in Pc /\ "idle" \notin Revising
    BY DEF Work, NoWork, Pc, Revising
  <2> QED
    BY <2>1 DEF Init, TypeOK
<1>2. BudgetInv
  BY DEF Init, BudgetInv, SlotsInOrder, OneSlotPerRequest
<1>3. RequestInv
  BY DEF Init, RequestInv, RequestHasSlot, WaitingIsWritten
<1>4. GrantInv
  BY DEF Init, GrantInv, Consuming
<1> QED
  BY <1>1, <1>2, <1>3, <1>4 DEF IInv

\* The program counter and the operation of a process that moves.
LEMMA WorkType ==
  ASSUME TypeOK, NEW p \in Process,
         NEW l \in Pc, NEW w \in Work,
         pc' = [pc EXCEPT ![p] = l], work' = [work EXCEPT ![p] = w],
         l # "idle" => w.request \in Request,
         l \in {"slot", "fill"} => w.at \in Slot,
         l = "scan" => w.at = 1,
         l \in Revising => w.use \in Reservations
  PROVE  /\ pc' \in [Process -> Pc]
         /\ work' \in [Process -> Work]
         /\ \A q \in Process : pc'[q] # "idle" => work'[q].request \in Request
         /\ \A q \in Process : pc'[q] \in {"slot", "fill"} => work'[q].at \in Slot
         /\ \A q \in Process : pc'[q] = "scan" => work'[q].at = 1
         /\ \A q \in Process : pc'[q] \in Revising => work'[q].use \in Reservations
  BY DEF TypeOK, Revising

\* A step that only moves a process within its operation.
LEMMA MoveType ==
  ASSUME TypeOK, NEW p \in Process, NEW l \in Pc,
         pc' = [pc EXCEPT ![p] = l], UNCHANGED work,
         work[p].request \in Request,
         l \in {"slot", "fill"} => work[p].at \in Slot,
         l = "scan" => work[p].at = 1,
         l \in Revising => work[p].use \in Reservations
  PROVE  /\ pc' \in [Process -> Pc]
         /\ work' \in [Process -> Work]
         /\ \A q \in Process : pc'[q] # "idle" => work'[q].request \in Request
         /\ \A q \in Process : pc'[q] \in {"slot", "fill"} => work'[q].at \in Slot
         /\ \A q \in Process : pc'[q] = "scan" => work'[q].at = 1
         /\ \A q \in Process : pc'[q] \in Revising => work'[q].use \in Reservations
  BY DEF TypeOK, Revising

\* A step of p.
Step(p) ==
  \/ \E r \in Request : Route(p, r)
  \/ Scan(p) \/ TakeSlot(p) \/ FillSlot(p)
  \/ CreateRequest(p) \/ WriteRequest(p) \/ SaveWaiting(p)
  \/ \E r \in Request, u \in Reservations : Approve(p, r, u)
  \/ CreateGrant(p) \/ WriteGrant(p) \/ FindBudget(p)
  \/ ReadGrant(p) \/ Claim(p) \/ WriteClaim(p) \/ Rewrite(p)
  \/ Return(p) \/ Crash(p)

\* A step is a step of one process.
LEMMA NextIsStep == Next => \E p \in Process : Step(p)
BY DEF Next, Step

\* The invariant keeps the types: an authorization is parsed before its status
\* is noted.
LEMMA TypeStep == IInv /\ [Next]_vars => TypeOK'
<1> SUFFICES ASSUME IInv, [Next]_vars PROVE TypeOK'
  OBVIOUS
<1> USE ExchangeAssumption, FileAssumption DEF Revising
<1>0. TypeOK
  BY DEF IInv
<1>1. CASE UNCHANGED vars
  BY <1>0, <1>1 DEF vars, TypeOK
<1>2. CASE Next
  <2> PICK p \in Process : Step(p)
    BY <1>2, NextIsStep
  <2>0. pc[p] # "idle" => work[p].request \in Request
    BY <1>0 DEF TypeOK
  <2>1. CASE \E r \in Request : Route(p, r)
    <3> PICK r \in Request : Route(p, r)
      BY <2>1
    <3> DEFINE w == [NoWork EXCEPT !.request = r, !.build = Build(r)]
    <3>0. Build(r) \in Nat /\ built[r] + 1 \in Nat
      BY <1>0 DEF TypeOK, Build
    <3>1. w \in Work /\ w.request \in Request /\ w.at = 1
      BY <3>0 DEF Work, NoWork
    <3>2. "scan" \in Pc
      BY DEF Pc
    <3>3. pc' = [pc EXCEPT ![p] = "scan"] /\ work' = [work EXCEPT ![p] = w]
      BY DEF Route, Goto
    <3> HIDE DEF w
    <3> QED
      BY <1>0, <3>0, <3>1, <3>2, <3>3, WorkType DEF Route, TypeOK, exchange
  <2>2. CASE Scan(p)
    <3>1. PICK l \in {"unreadable", "request", "exhausted", "slot"} : pc' = [pc EXCEPT ![p] = l] /\ UNCHANGED work
      BY <2>2 DEF Scan, Goto
    <3>2. l \in Pc
      BY <3>1 DEF Pc
    <3>3. work[p].request \in Request /\ (l = "slot" => work[p].at \in Slot)
      <4>1. work[p].request \in Request /\ work[p].at = 1
        BY <1>0, <2>2 DEF Scan, TypeOK
      <4>2. l = "slot" => Limit # 0
        BY <1>0, <2>2, <3>1 DEF Scan, TypeOK, Goto
      <4> QED
        BY <4>1, <4>2 DEF Slot
    <3> QED
      BY <1>0, <2>2, <3>1, <3>2, <3>3, MoveType DEF Scan, TypeOK, exchange
  <2>3. CASE TakeSlot(p)
    <3>1. work[p].at \in Slot /\ work[p].request \in Request /\ work[p] \in Work
      BY <1>0, <2>3 DEF TakeSlot, TypeOK
    <3>2. CASE UNCHANGED work
      <4>1. PICK l \in {"fill", "unreadable", "exhausted", "request"} : pc' = [pc EXCEPT ![p] = l]
        BY <2>3, <3>2, <3>1, <1>0 DEF TakeSlot, Goto, TypeOK, Slot, Work
      <4>2. l \in Pc
        BY <4>1 DEF Pc
      <4> QED
        BY <1>0, <2>3, <3>1, <3>2, <4>1, <4>2, MoveType DEF TakeSlot, TypeOK
    <3>3. CASE ~UNCHANGED work
      <4> DEFINE w == [work[p] EXCEPT !.at = @ + 1]
      <4>1. w \in Work /\ w.request \in Request /\ w.at \in Slot
        BY <2>3, <3>1, <3>3 DEF TakeSlot, Work, Slot, Last
      <4>2. work' = [work EXCEPT ![p] = w] /\ pc' = [pc EXCEPT ![p] = "slot"]
        BY <1>0, <2>3, <3>3 DEF TakeSlot, TypeOK
      <4>3. "slot" \in Pc
        BY DEF Pc
      <4> HIDE DEF w
      <4> QED
        BY <1>0, <2>3, <3>3, <4>1, <4>2, <4>3, WorkType DEF TakeSlot, TypeOK
    <3> QED
      BY <3>2, <3>3
  <2>4. CASE FillSlot(p)
    <3>1. PICK l \in {"request"} : pc' = [pc EXCEPT ![p] = l] /\ UNCHANGED work
      BY <2>4 DEF FillSlot, Goto
    <3>2. l \in Pc
      BY <3>1 DEF Pc
    <3>3. work[p].request \in Request
      BY <1>0, <2>4 DEF FillSlot, TypeOK, Work
    <3> QED
      BY <1>0, <2>4, <3>1, <3>2, <3>3, MoveType DEF FillSlot, TypeOK, exchange
  <2>5. CASE CreateRequest(p)
    <3>1. PICK l \in {"write", "save", "unreadable", "conflict"} : pc' = [pc EXCEPT ![p] = l] /\ UNCHANGED work
      BY <2>5 DEF CreateRequest, Goto
    <3>2. l \in Pc
      BY <3>1 DEF Pc
    <3>3. work[p].request \in Request
      BY <1>0, <2>5 DEF CreateRequest, TypeOK, Work
    <3> QED
      BY <1>0, <2>5, <3>1, <3>2, <3>3, MoveType DEF CreateRequest, TypeOK, exchange
  <2>6. CASE WriteRequest(p)
    <3>1. "save" \in Pc /\ pc' = [pc EXCEPT ![p] = "save"] /\ UNCHANGED work
      BY <2>6 DEF WriteRequest, Goto, Pc
    <3>2. work[p].request \in Request /\ work[p].build \in Nat
      BY <1>0, <2>6 DEF WriteRequest, TypeOK, Work
    <3> QED
      BY <1>0, <2>6, <3>1, <3>2, MoveType DEF WriteRequest, TypeOK
  <2>7. CASE SaveWaiting(p)
    <3>1. "idle" \in Pc /\ NoWork \in Work
      BY DEF Pc, Work, NoWork
    <3>2. pc' = [pc EXCEPT ![p] = "idle"] /\ work' = [work EXCEPT ![p] = NoWork]
      BY <2>7 DEF SaveWaiting, Rest, Goto
    <3>3. work[p].request \in Request
      BY <1>0, <2>7 DEF SaveWaiting, TypeOK
    <3> QED
      BY <1>0, <2>7, <3>1, <3>2, <3>3, WorkType DEF SaveWaiting, TypeOK, exchange
  <2>8. CASE \E r \in Request, u \in Reservations : Approve(p, r, u)
    <3> PICK r \in Request, u \in Reservations : Approve(p, r, u)
      BY <2>8
    <3> DEFINE w == [NoWork EXCEPT !.request = r, !.use = u]
    <3>1. w \in Work /\ w.request \in Request /\ w.use \in Reservations
      BY DEF Work, NoWork
    <3> DEFINE l == CASE \E q \in Request : request[q] = Torn -> "unreadable"
                      [] grant[r] = Torn -> "unreadable"
                      [] grant[r] = Absent -> "grant"
                      [] OTHER -> "budget"
    <3>2. pc' = [pc EXCEPT ![p] = l] /\ l \in {"unreadable", "grant", "budget"}
      BY DEF Approve, Goto
    <3> HIDE DEF l
    <3>3. l \in Pc /\ work' = [work EXCEPT ![p] = w]
      BY <3>2 DEF Approve, Pc
    <3> HIDE DEF w
    <3> QED
      BY <1>0, <3>1, <3>2, <3>3, WorkType DEF Approve, TypeOK, exchange
  <2>9. CASE CreateGrant(p)
    <3>1. PICK l \in {"writeGrant", "unreadable", "refused"} : pc' = [pc EXCEPT ![p] = l] /\ UNCHANGED work
      BY <2>9 DEF CreateGrant, Goto
    <3>2. l \in Pc
      BY <3>1 DEF Pc
    <3>3. work[p].request \in Request
      BY <1>0, <2>9 DEF CreateGrant, TypeOK, Work
    <3> QED
      BY <1>0, <2>9, <3>1, <3>2, <3>3, MoveType DEF CreateGrant, TypeOK, exchange
  <2>10. CASE WriteGrant(p)
    <3>1. PICK l \in {"budget"} : pc' = [pc EXCEPT ![p] = l] /\ UNCHANGED work
      BY <2>10 DEF WriteGrant, Goto
    <3>2. l \in Pc
      BY <3>1 DEF Pc
    <3>3. work[p].request \in Request /\ work[p].use \in Reservations
      BY <1>0, <2>10, <3>1 DEF WriteGrant, TypeOK, Work
    <3> QED
      BY <1>0, <2>10, <3>1, <3>2, <3>3, MoveType DEF WriteGrant, TypeOK, exchange
  <2>11. CASE FindBudget(p)
    <3>1. PICK l \in {"unreadable", "read", "exhausted"} : pc' = [pc EXCEPT ![p] = l] /\ UNCHANGED work
      BY <2>11 DEF FindBudget, Goto
    <3>2. l \in Pc
      BY <3>1 DEF Pc
    <3>3. work[p].request \in Request /\ work[p].use \in Reservations
      BY <1>0, <2>11, <3>1 DEF FindBudget, TypeOK, Work
    <3> QED
      BY <1>0, <2>11, <3>1, <3>2, <3>3, MoveType DEF FindBudget, TypeOK, exchange
  <2>12. CASE ReadGrant(p)
    <3> DEFINE w == [work[p] EXCEPT !.seen = grant[work[p].request]]
    <3>1. w \in Work /\ w.request \in Request /\ w.use \in Reservations
      BY <1>0, <2>12 DEF ReadGrant, TypeOK, Work, IInv, GrantInv
    <3>2. pc' = [pc EXCEPT ![p] = "claim"] /\ work' = [work EXCEPT ![p] = w]
      BY <1>0, <2>12 DEF ReadGrant, Goto, TypeOK
    <3>3. "claim" \in Pc
      BY DEF Pc
    <3> HIDE DEF w
    <3> QED
      BY <1>0, <2>12, <3>1, <3>2, <3>3, WorkType DEF ReadGrant, TypeOK, exchange
  <2>13. CASE Claim(p)
    <3>1. PICK l \in {"writeClaim", "unreadable", "rewrite", "refused"} : pc' = [pc EXCEPT ![p] = l] /\ UNCHANGED work
      BY <2>13 DEF Claim, Goto
    <3>2. l \in Pc
      BY <3>1 DEF Pc
    <3>3. work[p].request \in Request /\ work[p].use \in Reservations
      BY <1>0, <2>13, <3>1 DEF Claim, TypeOK, Work
    <3> QED
      BY <1>0, <2>13, <3>1, <3>2, <3>3, MoveType DEF Claim, TypeOK, exchange
  <2>14. CASE WriteClaim(p)
    <3>1. PICK l \in {"rewrite"} : pc' = [pc EXCEPT ![p] = l] /\ UNCHANGED work
      BY <2>14 DEF WriteClaim, Goto
    <3>2. l \in Pc
      BY <3>1 DEF Pc
    <3>3. work[p].request \in Request /\ work[p].use \in Reservations
      BY <1>0, <2>14, <3>1 DEF WriteClaim, TypeOK, Work
    <3> QED
      BY <1>0, <2>14, <3>1, <3>2, <3>3, MoveType DEF WriteClaim, TypeOK, exchange
  <2>15. CASE Rewrite(p)
    <3>1. PICK l \in {"executing", "refused"} : pc' = [pc EXCEPT ![p] = l] /\ UNCHANGED work
      BY <2>15 DEF Rewrite, Goto
    <3>2. l \in Pc
      BY <3>1 DEF Pc
    <3>3. work[p].request \in Request /\ work[p].use \in Reservations
      BY <1>0, <2>15, <3>1 DEF Rewrite, TypeOK, Work
    <3> QED
      BY <1>0, <2>15, <3>1, <3>2, <3>3, MoveType DEF Rewrite, TypeOK, exchange
  <2>16. CASE Return(p)
    <3>1. "idle" \in Pc /\ NoWork \in Work
      BY DEF Pc, Work, NoWork
    <3>2. pc' = [pc EXCEPT ![p] = "idle"] /\ work' = [work EXCEPT ![p] = NoWork]
      BY <2>16 DEF Return, Rest, Goto
    <3>3. work[p].request \in Request
      BY <1>0, <2>16 DEF Return, TypeOK
    <3> QED
      BY <1>0, <2>16, <3>1, <3>2, <3>3, WorkType DEF Return, TypeOK, exchange
  <2>17. CASE Crash(p)
    <3>1. "idle" \in Pc /\ NoWork \in Work
      BY DEF Pc, Work, NoWork
    <3>2. pc' = [pc EXCEPT ![p] = "idle"] /\ work' = [work EXCEPT ![p] = NoWork]
      BY <2>17 DEF Crash, Rest, Goto
    <3>3. work[p].request \in Request
      BY <1>0, <2>17 DEF Crash, TypeOK
    <3> QED
      BY <1>0, <2>17, <3>1, <3>2, <3>3, WorkType DEF Crash, TypeOK, exchange
  <2> QED
    BY <2>1, <2>2, <2>3, <2>4, <2>5, <2>6, <2>7, <2>8, <2>9, <2>10, <2>11, <2>12, <2>13, <2>14, <2>15, <2>16, <2>17 DEF Step
<1> QED
  BY <1>1, <1>2

-----------------------------------------------------------------------------
(* Who moves where, and who changes which file.                            *)

\* The other processes stay where they are.
OthersStay(p) ==
  \A q \in Process \ {p} : pc'[q] = pc[q] /\ work'[q] = work[q]

\* How p arrives where the invariant speaks of it.
Arrives(p) ==
  /\ pc'[p] \in Pc
  /\ pc'[p] = "slot" => Scan(p) \/ TakeSlot(p)
  /\ pc'[p] = "fill" => TakeSlot(p)
  /\ pc'[p] = "request" => Scan(p) \/ TakeSlot(p) \/ FillSlot(p)
  /\ pc'[p] = "write" => CreateRequest(p)
  /\ pc'[p] = "save" => CreateRequest(p) \/ WriteRequest(p)
  /\ pc'[p] = "conflict" => CreateRequest(p)
  /\ pc'[p] = "writeGrant" => CreateGrant(p)
  /\ pc'[p] = "budget" =>
       WriteGrant(p) \/ \E r \in Request, u \in Reservations : Approve(p, r, u)
  /\ pc'[p] = "read" => FindBudget(p)
  /\ pc'[p] = "claim" => ReadGrant(p)
  /\ pc'[p] = "writeClaim" => Claim(p)
  /\ pc'[p] = "rewrite" => Claim(p) \/ WriteClaim(p)
  /\ pc'[p] = "executing" => Rewrite(p)

\* Which files a step of p may change, and what it leaves in its record.
Changes(p) ==
  /\ TakeSlot(p) \/ FillSlot(p) \/ UNCHANGED slot
  /\ CreateRequest(p) \/ WriteRequest(p) \/ UNCHANGED request
  /\ CreateGrant(p) \/ WriteGrant(p) \/ Rewrite(p) \/ UNCHANGED grant
  /\ Claim(p) \/ WriteClaim(p) \/ UNCHANGED claim
  /\ Rewrite(p) \/ UNCHANGED used
  /\ SaveWaiting(p) \/ UNCHANGED waiting
  /\ \/ TakeSlot(p) \/ ReadGrant(p) \/ UNCHANGED work
     \/ \E r \in Request : Route(p, r)
     \/ \E r \in Request, u \in Reservations : Approve(p, r, u)
     \/ work'[p] = NoWork

\* What a step of p says of the other processes, of p's next operation and of
\* the files.
LEMMA Moves ==
  ASSUME TypeOK, NEW p \in Process, Step(p)
  PROVE  OthersStay(p) /\ Arrives(p) /\ Changes(p)
<1>1. CASE \E r \in Request : Route(p, r)
  <2>1. OthersStay(p)
    BY <1>1 DEF Route, OthersStay, TypeOK, Goto, Rest
  <2>2. Arrives(p)
    BY <1>1 DEF Route, Arrives, TypeOK, Goto, Rest, Pc
  <2>3. Changes(p)
    BY <1>1 DEF Route, Changes, TypeOK, Rest, exchange
  <2> QED
    BY <2>1, <2>2, <2>3
<1>2. CASE Scan(p)
  <2>1. OthersStay(p)
    BY <1>2 DEF Scan, OthersStay, TypeOK, Goto, Rest
  <2>2. Arrives(p)
    BY <1>2 DEF Scan, Arrives, TypeOK, Goto, Rest, Pc
  <2>3. Changes(p)
    BY <1>2 DEF Scan, Changes, TypeOK, Rest, exchange
  <2> QED
    BY <2>1, <2>2, <2>3
<1>3. CASE TakeSlot(p)
  <2>1. OthersStay(p)
    BY <1>3 DEF TakeSlot, OthersStay, TypeOK, Goto, Rest
  <2>2. Arrives(p)
    BY <1>3 DEF TakeSlot, Arrives, TypeOK, Goto, Rest, Pc
  <2>3. Changes(p)
    BY <1>3 DEF TakeSlot, Changes, TypeOK, Rest, exchange
  <2> QED
    BY <2>1, <2>2, <2>3
<1>4. CASE FillSlot(p)
  <2>1. OthersStay(p)
    BY <1>4 DEF FillSlot, OthersStay, TypeOK, Goto, Rest
  <2>2. Arrives(p)
    BY <1>4 DEF FillSlot, Arrives, TypeOK, Goto, Rest, Pc
  <2>3. Changes(p)
    BY <1>4 DEF FillSlot, Changes, TypeOK, Rest, exchange
  <2> QED
    BY <2>1, <2>2, <2>3
<1>5. CASE CreateRequest(p)
  <2>1. OthersStay(p)
    BY <1>5 DEF CreateRequest, OthersStay, TypeOK, Goto, Rest
  <2>2. Arrives(p)
    BY <1>5 DEF CreateRequest, Arrives, TypeOK, Goto, Rest, Pc
  <2>3. Changes(p)
    BY <1>5 DEF CreateRequest, Changes, TypeOK, Rest, exchange
  <2> QED
    BY <2>1, <2>2, <2>3
<1>6. CASE WriteRequest(p)
  <2>1. OthersStay(p)
    BY <1>6 DEF WriteRequest, OthersStay, TypeOK, Goto, Rest
  <2>2. Arrives(p)
    BY <1>6 DEF WriteRequest, Arrives, TypeOK, Goto, Rest, Pc
  <2>3. Changes(p)
    BY <1>6 DEF WriteRequest, Changes, TypeOK, Rest, exchange
  <2> QED
    BY <2>1, <2>2, <2>3
<1>7. CASE SaveWaiting(p)
  <2>1. OthersStay(p)
    BY <1>7 DEF SaveWaiting, OthersStay, TypeOK, Goto, Rest
  <2>2. Arrives(p)
    BY <1>7 DEF SaveWaiting, Arrives, TypeOK, Goto, Rest, Pc
  <2>3. Changes(p)
    BY <1>7 DEF SaveWaiting, Changes, TypeOK, Rest, exchange
  <2> QED
    BY <2>1, <2>2, <2>3
<1>8. CASE \E r \in Request, u \in Reservations : Approve(p, r, u)
  <2>1. OthersStay(p)
    BY <1>8 DEF Approve, OthersStay, TypeOK, Goto, Rest
  <2>2. Arrives(p)
    BY <1>8 DEF Approve, Arrives, TypeOK, Goto, Rest, Pc
  <2>3. Changes(p)
    BY <1>8 DEF Approve, Changes, TypeOK, Rest, exchange
  <2> QED
    BY <2>1, <2>2, <2>3
<1>9. CASE CreateGrant(p)
  <2>1. OthersStay(p)
    BY <1>9 DEF CreateGrant, OthersStay, TypeOK, Goto, Rest
  <2>2. Arrives(p)
    BY <1>9 DEF CreateGrant, Arrives, TypeOK, Goto, Rest, Pc
  <2>3. Changes(p)
    BY <1>9 DEF CreateGrant, Changes, TypeOK, Rest, exchange
  <2> QED
    BY <2>1, <2>2, <2>3
<1>10. CASE WriteGrant(p)
  <2>1. OthersStay(p)
    BY <1>10 DEF WriteGrant, OthersStay, TypeOK, Goto, Rest
  <2>2. Arrives(p)
    BY <1>10 DEF WriteGrant, Arrives, TypeOK, Goto, Rest, Pc
  <2>3. Changes(p)
    BY <1>10 DEF WriteGrant, Changes, TypeOK, Rest, exchange
  <2> QED
    BY <2>1, <2>2, <2>3
<1>11. CASE FindBudget(p)
  <2>1. OthersStay(p)
    BY <1>11 DEF FindBudget, OthersStay, TypeOK, Goto, Rest
  <2>2. Arrives(p)
    BY <1>11 DEF FindBudget, Arrives, TypeOK, Goto, Rest, Pc
  <2>3. Changes(p)
    BY <1>11 DEF FindBudget, Changes, TypeOK, Rest, exchange
  <2> QED
    BY <2>1, <2>2, <2>3
<1>12. CASE ReadGrant(p)
  <2>1. OthersStay(p)
    BY <1>12 DEF ReadGrant, OthersStay, TypeOK, Goto, Rest
  <2>2. Arrives(p)
    BY <1>12 DEF ReadGrant, Arrives, TypeOK, Goto, Rest, Pc
  <2>3. Changes(p)
    BY <1>12 DEF ReadGrant, Changes, TypeOK, Rest, exchange
  <2> QED
    BY <2>1, <2>2, <2>3
<1>13. CASE Claim(p)
  <2>1. OthersStay(p)
    BY <1>13 DEF Claim, OthersStay, TypeOK, Goto, Rest
  <2>2. Arrives(p)
    BY <1>13 DEF Claim, Arrives, TypeOK, Goto, Rest, Pc
  <2>3. Changes(p)
    BY <1>13 DEF Claim, Changes, TypeOK, Rest, exchange
  <2> QED
    BY <2>1, <2>2, <2>3
<1>14. CASE WriteClaim(p)
  <2>1. OthersStay(p)
    BY <1>14 DEF WriteClaim, OthersStay, TypeOK, Goto, Rest
  <2>2. Arrives(p)
    BY <1>14 DEF WriteClaim, Arrives, TypeOK, Goto, Rest, Pc
  <2>3. Changes(p)
    BY <1>14 DEF WriteClaim, Changes, TypeOK, Rest, exchange
  <2> QED
    BY <2>1, <2>2, <2>3
<1>15. CASE Rewrite(p)
  <2>1. OthersStay(p)
    BY <1>15 DEF Rewrite, OthersStay, TypeOK, Goto, Rest
  <2>2. Arrives(p)
    BY <1>15 DEF Rewrite, Arrives, TypeOK, Goto, Rest, Pc
  <2>3. Changes(p)
    BY <1>15 DEF Rewrite, Changes, TypeOK, Rest, exchange
  <2> QED
    BY <2>1, <2>2, <2>3
<1>16. CASE Return(p)
  <2>1. OthersStay(p)
    BY <1>16 DEF Return, OthersStay, TypeOK, Goto, Rest
  <2>2. Arrives(p)
    BY <1>16 DEF Return, Arrives, TypeOK, Goto, Rest, Pc
  <2>3. Changes(p)
    BY <1>16 DEF Return, Changes, TypeOK, Rest, exchange
  <2> QED
    BY <2>1, <2>2, <2>3
<1>17. CASE Crash(p)
  <2>1. OthersStay(p)
    BY <1>17 DEF Crash, OthersStay, TypeOK, Goto, Rest
  <2>2. Arrives(p)
    BY <1>17 DEF Crash, Arrives, TypeOK, Goto, Rest, Pc
  <2>3. Changes(p)
    BY <1>17 DEF Crash, Changes, TypeOK, Rest, exchange
  <2> QED
    BY <2>1, <2>2, <2>3
<1> QED
  BY <1>1, <1>2, <1>3, <1>4, <1>5, <1>6, <1>7, <1>8, <1>9, <1>10, <1>11, <1>12, <1>13, <1>14, <1>15, <1>16, <1>17 DEF Step

-----------------------------------------------------------------------------
(* The slot directory.                                                     *)

\* Nobody steps over a slot, and who creates one has seen those before it.
LEMMA BudgetStep == TypeOK /\ BudgetInv /\ [Next]_vars => BudgetInv'
<1> SUFFICES ASSUME TypeOK, BudgetInv, [Next]_vars PROVE BudgetInv'
  OBVIOUS
<1> USE ExchangeAssumption, FileAssumption
<1>1. CASE UNCHANGED vars
  BY <1>1 DEF vars, BudgetInv, SlotsInOrder, OneSlotPerRequest
<1>2. CASE Next
  <2> PICK p \in Process : Step(p)
    BY <1>2, NextIsStep
  <2>1. OthersStay(p) /\ Arrives(p) /\ Changes(p)
    BY Moves
  <2>2. CASE UNCHANGED slot
    <3>1. pc'[p] # "fill"
      BY <2>1, <2>2 DEF Arrives, TakeSlot, Goto, TypeOK, Creates, Slot
    <3>2. pc'[p] = "slot" =>
            \A k \in Slot : k < work'[p].at => slot[k] \in Request /\ slot[k] # work'[p].request
      <4>1. CASE Scan(p)
        BY <4>1 DEF Scan, TypeOK, Slot
      <4>2. CASE TakeSlot(p) /\ pc'[p] = "slot"
        <5>1. work' = [work EXCEPT ![p].at = work[p].at + 1] /\ Occupied(work[p].at, work[p].request)
          BY <2>2, <4>2 DEF TakeSlot, Goto, TypeOK, Creates
        <5>2. work[p] \in Work /\ work[p].at \in Slot /\ pc[p] = "slot"
          BY <4>2 DEF TakeSlot, TypeOK
        <5>3. work'[p].at = work[p].at + 1 /\ work'[p].request = work[p].request
          BY <5>1, <5>2 DEF TypeOK, Work
        <5>4. slot[work[p].at] \in Request /\ slot[work[p].at] # work[p].request
          BY <5>1, <5>2 DEF TypeOK, Occupied
        <5> QED
          BY <5>2, <5>3, <5>4 DEF BudgetInv, Slot
      <4> QED
        BY <2>1, <4>1, <4>2 DEF Arrives
    <3> QED
      BY <2>1, <2>2, <3>1, <3>2 DEF BudgetInv, SlotsInOrder, OneSlotPerRequest, OthersStay
  <2>3. CASE TakeSlot(p) /\ slot' # slot
    <3> DEFINE i == work[p].at
    <3>1. /\ i \in Slot /\ slot[i] = Absent /\ slot' = [slot EXCEPT ![i] = Torn]
          /\ pc[p] = "slot" /\ pc'[p] = "fill" /\ work' = work
      BY <2>3 DEF TakeSlot, Creates, TypeOK, Goto
    <3>2. \A k \in Slot : k < i => slot[k] \in Request /\ slot[k] # work[p].request
      BY <3>1 DEF BudgetInv
    <3>3. \A k \in Slot : k > i => slot[k] = Absent
      BY <3>1 DEF BudgetInv, SlotsInOrder
    <3>4. /\ \A k \in Slot : k # i => slot'[k] = slot[k]
          /\ slot'[i] = Torn
      BY <3>1 DEF TypeOK
    <3> HIDE DEF i
    <3>5. SlotsInOrder'
      BY <3>1, <3>2, <3>3, <3>4 DEF SlotsInOrder, BudgetInv, Slot
    <3>6. OneSlotPerRequest'
      BY <3>4 DEF OneSlotPerRequest, BudgetInv
    <3>7. ASSUME NEW q \in Process, pc'[q] \in {"slot", "fill"}
          PROVE  /\ \A k \in Slot : k < work'[q].at =>
                      slot'[k] \in Request /\ slot'[k] # work'[q].request
                 /\ pc'[q] = "fill" => slot'[work'[q].at] = Torn
                 /\ pc'[q] = "fill" /\ work'[q].at = i => q = p
      <4>1. CASE q = p
        BY <3>1, <3>2, <3>4, <4>1 DEF i, Slot
      <4>2. CASE q # p
        <5>1. pc'[q] = pc[q] /\ work'[q] = work[q] /\ work[q].at \in Slot
          BY <2>1, <3>7, <4>2 DEF OthersStay, TypeOK
        <5> QED
          BY <3>1, <3>4, <3>7, <5>1 DEF BudgetInv, Slot
      <4> QED
        BY <4>1, <4>2
    <3>8. \A q, t \in Process :
            pc'[q] = "fill" /\ pc'[t] = "fill" /\ work'[q].at = work'[t].at => q = t
      BY <2>1, <3>1, <3>7 DEF BudgetInv, OthersStay, i
    <3> QED
      BY <3>5, <3>6, <3>7, <3>8 DEF BudgetInv
  <2>4. CASE FillSlot(p)
    <3> DEFINE i == work[p].at
               r == work[p].request
    <3>1. /\ i \in Slot /\ r \in Request /\ slot[i] = Torn /\ slot' = [slot EXCEPT ![i] = r]
          /\ pc[p] = "fill" /\ pc'[p] = "request" /\ work' = work
      BY <2>4 DEF FillSlot, TypeOK, Goto, BudgetInv
    <3>2. \A k \in Slot : k < i => slot[k] \in Request /\ slot[k] # r
      BY <3>1 DEF BudgetInv
    <3>3. \A k \in Slot : k > i => slot[k] = Absent
      BY <3>1 DEF BudgetInv, SlotsInOrder
    <3>4. /\ \A k \in Slot : k # i => slot'[k] = slot[k]
          /\ slot'[i] = r
      BY <3>1 DEF TypeOK
    <3>5. \A k \in Slot : k # i => slot[k] # r
      BY <3>1, <3>2, <3>3 DEF Slot
    <3>6. \A q \in Process : q # p => pc'[q] = pc[q] /\ work'[q] = work[q]
      BY <2>1 DEF OthersStay
    <3>7. \A q \in Process : q # p /\ pc[q] = "fill" => work[q].at # i
      BY <3>1 DEF BudgetInv
    <3> HIDE DEF i, r
    <3>8. SlotsInOrder'
      BY <3>1, <3>2, <3>3, <3>4 DEF SlotsInOrder, BudgetInv, Slot
    <3>9. OneSlotPerRequest'
      BY <3>1, <3>4, <3>5 DEF OneSlotPerRequest, BudgetInv
    <3>10. ASSUME NEW q \in Process, pc'[q] \in {"slot", "fill"}
           PROVE  /\ \A k \in Slot : k < work'[q].at =>
                       slot'[k] \in Request /\ slot'[k] # work'[q].request
                  /\ pc'[q] = "fill" => slot'[work'[q].at] = Torn
      <4>1. q # p /\ pc'[q] = pc[q] /\ work'[q] = work[q] /\ work[q].at \in Slot
        BY <3>1, <3>6, <3>10 DEF TypeOK
      <4>2. \A k \in Slot : k < work[q].at => slot[k] \in Request /\ slot[k] # work[q].request
        BY <3>10, <4>1 DEF BudgetInv
      <4> QED
        BY <3>1, <3>4, <3>7, <3>10, <4>1, <4>2 DEF BudgetInv
    <3>11. \A q, t \in Process :
             pc'[q] = "fill" /\ pc'[t] = "fill" /\ work'[q].at = work'[t].at => q = t
      BY <3>1, <3>6 DEF BudgetInv
    <3> QED
      BY <3>8, <3>9, <3>10, <3>11 DEF BudgetInv
  <2> QED
    BY <2>1, <2>2, <2>3, <2>4 DEF Changes
<1> QED
  BY <1>1, <1>2

\* A slot that can be parsed stays, so a request keeps the slot it has.
LEMMA SlotsKept ==
  ASSUME TypeOK, BudgetInv, NEW p \in Process, Step(p)
  PROVE  /\ \A i \in Slot : slot[i] \in Request => slot'[i] = slot[i]
         /\ \A r \in Request : Found(r) => Found(r)'
<1>1. ASSUME NEW i \in Slot, slot[i] \in Request PROVE slot'[i] = slot[i]
  <2>1. CASE TakeSlot(p)
    BY <1>1, <2>1, FileAssumption DEF TakeSlot, Creates, TypeOK
  <2>2. CASE FillSlot(p)
    BY <1>1, <2>2, FileAssumption DEF FillSlot, BudgetInv, TypeOK
  <2> QED
    BY <2>1, <2>2, Moves DEF Changes
<1> QED
  BY <1>1 DEF Found

-----------------------------------------------------------------------------
(* The request files.                                                      *)

\* A request file is created behind its slot and written by its creator.
LEMMA RequestStep == TypeOK /\ BudgetInv /\ RequestInv /\ [Next]_vars => RequestInv'
<1> SUFFICES ASSUME TypeOK, BudgetInv, RequestInv, [Next]_vars PROVE RequestInv'
  OBVIOUS
<1> USE FileAssumption
<1>1. CASE UNCHANGED vars
  BY <1>1 DEF vars, RequestInv, RequestHasSlot, WaitingIsWritten, Found
<1>2. CASE Next
  <2> PICK p \in Process : Step(p)
    BY <1>2, NextIsStep
  <2>1. OthersStay(p) /\ Arrives(p) /\ Changes(p)
    BY Moves
  <2>2. \A r \in Request : Found(r) => Found(r)'
    BY SlotsKept
  <2>3. \A r \in Request : request[r] \in Nat => request'[r] = request[r]
    <3>1. CASE CreateRequest(p)
      BY <3>1 DEF CreateRequest, Creates, TypeOK
    <3>2. CASE WriteRequest(p)
      BY <3>2 DEF WriteRequest, RequestInv, TypeOK
    <3> QED
      BY <2>1, <3>1, <3>2 DEF Changes
  <2>4. \A r \in Request : request'[r] # Absent => request[r] # Absent \/ Found(r)
    <3>1. CASE CreateRequest(p)
      BY <3>1 DEF CreateRequest, RequestInv, TypeOK
    <3>2. CASE WriteRequest(p)
      BY <3>2 DEF WriteRequest, RequestInv, TypeOK
    <3> QED
      BY <2>1, <3>1, <3>2 DEF Changes
  <2>5. RequestHasSlot'
    BY <2>2, <2>4 DEF RequestInv, RequestHasSlot, Found
  <2>6. WaitingIsWritten'
    <3>1. CASE SaveWaiting(p)
      <4>1. work[p].request \in Request /\ request[work[p].request] \notin {Absent, Torn}
        BY <3>1 DEF SaveWaiting, RequestInv, TypeOK
      <4> QED
        BY <3>1, <4>1 DEF SaveWaiting, exchange, RequestInv, WaitingIsWritten
    <3>2. CASE UNCHANGED waiting
      BY <2>3, <3>2 DEF RequestInv, WaitingIsWritten, TypeOK
    <3> QED
      BY <2>1, <3>1, <3>2 DEF Changes
  <2>7. ASSUME pc'[p] \in {"request", "write", "save"}
        PROVE  /\ Found(work[p].request)'
               /\ pc'[p] = "write" => request'[work'[p].request] = Torn
               /\ pc'[p] = "save" => request'[work'[p].request] \notin {Absent, Torn}
    <3>1. /\ Scan(p) \/ TakeSlot(p) \/ FillSlot(p) \/ CreateRequest(p) \/ WriteRequest(p)
          /\ pc'[p] = "write" => CreateRequest(p)
          /\ pc'[p] = "save" => CreateRequest(p) \/ WriteRequest(p)
      BY <2>1, <2>7 DEF Arrives
    <3>2. work'[p] = work[p] /\ work[p].request \in Request
      <4>1. CASE TakeSlot(p)
        BY <2>7, <4>1 DEF TakeSlot, Goto, TypeOK
      <4> QED
        BY <3>1, <4>1 DEF Scan, FillSlot, CreateRequest, WriteRequest, TypeOK
    <3>3. Found(work[p].request)'
      <4>1. CASE Scan(p)
        BY <2>2, <2>7, <3>2, <4>1 DEF Scan, Goto, TypeOK
      <4>2. CASE TakeSlot(p)
        <5>1. slot[work[p].at] = work[p].request /\ work[p].at \in Slot
          BY <2>7, <4>2 DEF TakeSlot, Goto, TypeOK
        <5> QED
          BY <2>2, <3>2, <5>1 DEF Found
      <4>3. CASE FillSlot(p)
        BY <4>3 DEF FillSlot, TypeOK, Found
      <4>4. CASE CreateRequest(p) \/ WriteRequest(p)
        BY <2>2, <3>2, <4>4 DEF CreateRequest, WriteRequest, RequestInv
      <4> QED
        BY <3>1, <4>1, <4>2, <4>3, <4>4
    <3>4. pc'[p] = "write" => request'[work[p].request] = Torn
      BY <3>1, <3>2 DEF CreateRequest, Goto, TypeOK
    <3>5. pc'[p] = "save" => request'[work[p].request] \notin {Absent, Torn}
      <4>1. work[p].build \in Nat
        BY DEF TypeOK, Work
      <4>2. CASE CreateRequest(p) /\ pc'[p] = "save"
        BY <3>2, <4>1, <4>2 DEF CreateRequest, SameMessage, Goto, TypeOK
      <4>3. CASE WriteRequest(p)
        BY <3>2, <4>1, <4>3 DEF WriteRequest, TypeOK
      <4> QED
        BY <3>1, <4>2, <4>3
    <3> QED
      BY <3>2, <3>3, <3>4, <3>5
  <2>8. ASSUME NEW q \in Process, q # p, pc'[q] \in {"request", "write", "save"}
        PROVE  /\ Found(work[q].request)'
               /\ pc'[q] = "write" => request'[work'[q].request] = Torn
               /\ pc'[q] = "save" => request'[work'[q].request] \notin {Absent, Torn}
    <3>1. pc'[q] = pc[q] /\ work'[q] = work[q] /\ work[q].request \in Request
      BY <2>1, <2>8 DEF OthersStay, TypeOK
    <3>2. Found(work[q].request)'
      <4>1. Found(work[q].request)
        BY <2>8, <3>1 DEF RequestInv
      <4> QED
        BY <2>2, <3>1, <4>1 DEF Found
    <3>4. pc[q] = "write" => request'[work[q].request] = Torn
      <4>1. CASE CreateRequest(p)
        BY <3>1, <4>1 DEF CreateRequest, Creates, RequestInv, TypeOK
      <4>2. CASE WriteRequest(p)
        BY <2>8, <3>1, <4>2 DEF WriteRequest, RequestInv, TypeOK
      <4> QED
        BY <2>1, <3>1, <4>1, <4>2 DEF Changes, RequestInv
    <3>5. pc[q] = "save" => request'[work[q].request] \notin {Absent, Torn}
      BY <2>3, <3>1 DEF RequestInv, TypeOK
    <3> QED
      BY <3>1, <3>2, <3>4, <3>5
  <2>9. \A q, t \in Process :
          pc'[q] = "write" /\ pc'[t] = "write" /\ work'[q].request = work'[t].request => q = t
    <3>1. ASSUME pc'[p] = "write", NEW q \in Process, q # p, pc'[q] = "write"
          PROVE  work'[q].request # work'[p].request
      <4>1. CreateRequest(p) /\ pc[q] = "write" /\ work'[q] = work[q]
        BY <2>1, <3>1 DEF Arrives, OthersStay
      <4>2. request[work[p].request] = Absent /\ work'[p] = work[p]
        BY <3>1, <4>1 DEF CreateRequest, Creates, Goto, TypeOK
      <4> QED
        BY <4>1, <4>2 DEF RequestInv
    <3>2. \A q, t \in Process : q # p /\ t # p /\ pc'[q] = "write" /\ pc'[t] = "write"
             /\ work'[q].request = work'[t].request => q = t
      BY <2>1 DEF OthersStay, RequestInv
    <3> QED
      BY <3>1, <3>2
  <2> QED
    BY <2>5, <2>6, <2>7, <2>8, <2>9 DEF RequestInv
<1> QED
  BY <1>1, <1>2

-----------------------------------------------------------------------------
(* The authorizations and their claims.                                    *)

\* What can be parsed stays, but for the one change of a pending authorization.
LEMMA GrantsKept ==
  ASSUME TypeOK, GrantInv, NEW p \in Process, Step(p), NEW r \in Request
  PROVE  /\ grant[r] \in {"PENDING", "CONSUMED"} => grant'[r] \in {"PENDING", "CONSUMED"}
         /\ grant[r] = "CONSUMED" => grant'[r] = "CONSUMED" /\ used'[r] = used[r]
         /\ claim[r] \in Reservations => claim'[r] = claim[r]
<1> USE FileAssumption
<1>0. Changes(p)
  BY Moves
<1>1. claim[r] \in Reservations => claim'[r] = claim[r]
  <2>1. CASE Claim(p)
    BY <2>1 DEF Claim, Creates, TypeOK
  <2>2. CASE WriteClaim(p)
    BY <2>2 DEF WriteClaim, GrantInv, TypeOK
  <2> QED
    BY <1>0, <2>1, <2>2 DEF Changes
<1>2. CASE CreateGrant(p)
  BY <1>1, <1>2 DEF CreateGrant, Creates, TypeOK
<1>3. CASE WriteGrant(p)
  <2>1. grant[work[p].request] = Torn /\ work[p].request \in Request
    BY <1>3 DEF WriteGrant, GrantInv, TypeOK
  <2>2. grant' = [grant EXCEPT ![work[p].request] = "PENDING"] /\ used' = used
    BY <1>3 DEF WriteGrant
  <2>3. grant[r] = "CONSUMED" => r # work[p].request
    BY <2>1
  <2> QED
    BY <1>1, <2>1, <2>2, <2>3 DEF TypeOK
<1>4. CASE Rewrite(p)
  <2>1. /\ pc[p] = "rewrite" /\ work[p].request \in Request
        /\ claim[work[p].request] = work[p].use /\ work[p].seen \in {"PENDING", "CONSUMED"}
    BY <1>4 DEF Rewrite, GrantInv, TypeOK, Work
  <2>2. grant[r] = "CONSUMED" => used[r] = claim[r]
    BY DEF GrantInv
  <2> QED
    BY <1>1, <1>4, <2>1, <2>2 DEF Rewrite, TypeOK
<1> QED
  BY <1>0, <1>1, <1>2, <1>3, <1>4 DEF Changes

\* An authorization is consumed behind its claim.
LEMMA GrantStep == TypeOK /\ TypeOK' /\ GrantInv /\ [Next]_vars => GrantInv'
<1> SUFFICES ASSUME TypeOK, TypeOK', GrantInv, [Next]_vars PROVE GrantInv'
  OBVIOUS
<1> USE FileAssumption
<1>1. CASE UNCHANGED vars
  BY <1>1 DEF vars, GrantInv, Consuming
<1>2. CASE Next
  <2> PICK p \in Process : Step(p)
    BY <1>2, NextIsStep
  <2>1. OthersStay(p) /\ Arrives(p) /\ Changes(p)
    BY Moves
  <2>2. \A r \in Request :
          /\ grant[r] \in {"PENDING", "CONSUMED"} => grant'[r] \in {"PENDING", "CONSUMED"}
          /\ grant[r] = "CONSUMED" => grant'[r] = "CONSUMED" /\ used'[r] = used[r]
          /\ claim[r] \in Reservations => claim'[r] = claim[r]
    BY GrantsKept
  <2>3. ASSUME NEW r \in Request, grant'[r] = "CONSUMED"
        PROVE  claim'[r] \in Reservations /\ used'[r] = claim'[r]
    <3>1. CASE grant[r] = "CONSUMED"
      BY <2>2, <3>1 DEF GrantInv
    <3>2. CASE grant[r] # "CONSUMED"
      <4>1. Rewrite(p) /\ r = work[p].request /\ work[p].seen = "PENDING"
        BY <2>1, <2>3, <3>2 DEF Changes, CreateGrant, WriteGrant, Rewrite, TypeOK
      <4>2. claim[r] = work[p].use /\ work[p].use \in Reservations
        BY <4>1 DEF Rewrite, GrantInv, TypeOK, Revising
      <4> QED
        BY <4>1, <4>2 DEF Rewrite, TypeOK
    <3> QED
      BY <3>1, <3>2
  <2>4. ASSUME NEW q \in Process, q # p
        PROVE  LET r == work'[q].request
               IN /\ pc'[q] = "writeGrant" => grant'[r] = Torn
                  /\ pc'[q] \in {"budget", "read", "executing"} \union Consuming =>
                       grant'[r] \in {"PENDING", "CONSUMED"}
                  /\ pc'[q] \in Consuming /\ work'[q].seen = "CONSUMED" => grant'[r] = "CONSUMED"
                  /\ pc'[q] = "writeClaim" => claim'[r] = Torn
                  /\ pc'[q] \in {"rewrite", "executing"} => claim'[r] = work'[q].use
                  /\ pc'[q] = "executing" => grant'[r] = "CONSUMED"
    <3> DEFINE r == work[q].request
    <3>1. pc'[q] = pc[q] /\ work'[q] = work[q]
      BY <2>1, <2>4 DEF OthersStay
    <3>2. pc[q] # "idle" => r \in Request
      BY DEF TypeOK
    <3>3. pc[q] = "writeGrant" => grant'[r] = Torn
      <4>1. CASE CreateGrant(p)
        BY <3>2, <4>1 DEF CreateGrant, Creates, GrantInv, TypeOK
      <4>2. CASE WriteGrant(p)
        BY <2>4, <3>2, <4>2 DEF WriteGrant, GrantInv, TypeOK
      <4>3. CASE Rewrite(p)
        <5>1. grant[work[p].request] \in {"PENDING", "CONSUMED"} /\ work[p].request \in Request
          BY <4>3 DEF Rewrite, GrantInv, Consuming, TypeOK
        <5>2. pc[q] = "writeGrant" => grant[r] = Torn /\ r # work[p].request
          BY <5>1 DEF GrantInv
        <5>3. \A s \in Request : s # work[p].request => grant'[s] = grant[s]
          BY <4>3 DEF Rewrite, TypeOK
        <5> QED
          BY <3>2, <5>2, <5>3
      <4> QED
        BY <2>1, <4>1, <4>2, <4>3 DEF Changes, GrantInv
    <3>4. pc[q] = "writeClaim" => claim'[r] = Torn
      <4>1. CASE Claim(p)
        BY <3>2, <4>1 DEF Claim, Creates, GrantInv, TypeOK
      <4>2. CASE WriteClaim(p)
        BY <2>4, <3>2, <4>2 DEF WriteClaim, GrantInv, TypeOK
      <4> QED
        BY <2>1, <4>1, <4>2 DEF Changes, GrantInv
    <3>5. pc[q] \in {"rewrite", "executing"} => claim'[r] = work[q].use
      <4>1. pc[q] \in {"rewrite", "executing"} =>
              claim[r] = work[q].use /\ work[q].use \in Reservations
        BY DEF GrantInv, TypeOK, Revising
      <4> QED
        BY <2>2, <3>2, <4>1
    <3>6. /\ pc[q] \in {"budget", "read", "executing"} \union Consuming =>
               grant'[r] \in {"PENDING", "CONSUMED"}
          /\ pc[q] \in Consuming /\ work[q].seen = "CONSUMED" => grant'[r] = "CONSUMED"
          /\ pc[q] = "executing" => grant'[r] = "CONSUMED"
      BY <2>2, <3>2 DEF GrantInv, Consuming
    <3> QED
      BY <3>1, <3>3, <3>4, <3>5, <3>6
  <2>5. /\ pc'[p] = "writeGrant" => grant'[work'[p].request] = Torn
        /\ pc'[p] = "writeClaim" => claim'[work'[p].request] = Torn
    BY <2>1 DEF Arrives, CreateGrant, Claim, Goto, TypeOK
  <2>6. pc'[p] \in {"rewrite", "executing"} => claim'[work'[p].request] = work'[p].use
    <3>1. CASE Claim(p) /\ pc'[p] = "rewrite"
      BY <3>1 DEF Claim, SameClaim, Goto, TypeOK
    <3>2. CASE WriteClaim(p)
      BY <3>2 DEF WriteClaim, TypeOK
    <3>3. CASE Rewrite(p)
      BY <3>3 DEF Rewrite, GrantInv, TypeOK
    <3> QED
      BY <2>1, <3>1, <3>2, <3>3 DEF Arrives
  <2>7. pc'[p] = "executing" => grant'[work'[p].request] = "CONSUMED"
    <3> SUFFICES ASSUME pc'[p] = "executing" PROVE grant'[work'[p].request] = "CONSUMED"
      OBVIOUS
    <3>1. Rewrite(p) /\ work[p].request \in Request /\ work' = work /\ pc[p] = "rewrite"
      BY <2>1 DEF Arrives, Rewrite, TypeOK
    <3>2. CASE work[p].seen = "PENDING"
      BY <3>1, <3>2 DEF Rewrite, TypeOK
    <3>3. CASE work[p].seen = "CONSUMED"
      BY <3>1, <3>3 DEF Rewrite, GrantInv, Consuming
    <3> QED
      BY <3>1, <3>2, <3>3 DEF TypeOK, Work
  <2>8. pc'[p] \in {"claim", "writeClaim", "rewrite"} /\ work'[p].seen = "CONSUMED" =>
          grant'[work'[p].request] = "CONSUMED"
    <3>1. CASE ReadGrant(p)
      <4>1. work[p].request \in Request /\ work'[p].request = work[p].request
              /\ work'[p].seen = grant[work[p].request]
        BY <3>1 DEF ReadGrant, TypeOK, Work
      <4> QED
        BY <3>1, <4>1 DEF ReadGrant, exchange
    <3>2. CASE Claim(p) \/ WriteClaim(p)
      BY <3>2 DEF Claim, WriteClaim, GrantInv, Consuming
    <3> QED
      BY <2>1, <3>1, <3>2 DEF Arrives
  <2>9. pc'[p] \in {"budget", "read", "claim", "writeClaim", "rewrite"} =>
          grant'[work'[p].request] \in {"PENDING", "CONSUMED"}
    <3>1. CASE WriteGrant(p)
      BY <3>1 DEF WriteGrant, TypeOK
    <3>2. CASE \E r \in Request, u \in Reservations : Approve(p, r, u)
      BY <3>2 DEF Approve, Goto, NoWork, TypeOK, exchange
    <3>3. CASE ReadGrant(p)
      <4>1. work'[p].request = work[p].request
        BY <3>3 DEF ReadGrant, TypeOK, Work
      <4> QED
        BY <3>3, <4>1 DEF ReadGrant, GrantInv, exchange
    <3>4. CASE FindBudget(p)
      BY <3>4 DEF FindBudget, exchange, GrantInv
    <3>5. CASE Claim(p) \/ WriteClaim(p)
      BY <3>5 DEF Claim, WriteClaim, GrantInv, Consuming
    <3> QED
      BY <2>1, <3>1, <3>2, <3>3, <3>4, <3>5 DEF Arrives
  <2>10. ASSUME NEW q \in Process, q # p, work'[p].request = work'[q].request
         PROVE  /\ ~(pc'[p] = "writeGrant" /\ pc'[q] = "writeGrant")
                /\ ~(pc'[p] = "writeClaim" /\ pc'[q] = "writeClaim")
    <3>1. pc'[q] = pc[q] /\ work'[q] = work[q]
      BY <2>1, <2>10 DEF OthersStay
    <3>2. CASE pc'[p] = "writeGrant" /\ pc[q] = "writeGrant"
      <4>1. CreateGrant(p) /\ grant[work[p].request] = Absent /\ work' = work
        BY <2>1, <3>2 DEF Arrives, CreateGrant, Creates, Goto, TypeOK
      <4> QED
        BY <2>10, <3>1, <3>2, <4>1 DEF GrantInv
    <3>3. CASE pc'[p] = "writeClaim" /\ pc[q] = "writeClaim"
      <4>1. Claim(p) /\ claim[work[p].request] = Absent /\ work' = work
        BY <2>1, <3>3 DEF Arrives, Claim, Creates, Goto, TypeOK
      <4> QED
        BY <2>10, <3>1, <3>3, <4>1 DEF GrantInv
    <3> QED
      BY <3>1, <3>2, <3>3
  <2>11. ASSUME NEW q \in Process, NEW t \in Process, work'[q].request = work'[t].request
         PROVE  /\ pc'[q] = "writeGrant" /\ pc'[t] = "writeGrant" => q = t
                /\ pc'[q] = "writeClaim" /\ pc'[t] = "writeClaim" => q = t
    <3>1. CASE q # p /\ t # p
      BY <2>1, <2>11, <3>1 DEF OthersStay, GrantInv
    <3> QED
      BY <2>10, <2>11, <3>1
  <2>12. \A q \in Process :
           LET r == work'[q].request
           IN /\ pc'[q] = "writeGrant" => grant'[r] = Torn
              /\ pc'[q] \in {"budget", "read", "executing"} \union Consuming =>
                   grant'[r] \in {"PENDING", "CONSUMED"}
              /\ pc'[q] \in Consuming /\ work'[q].seen = "CONSUMED" => grant'[r] = "CONSUMED"
              /\ pc'[q] = "writeClaim" => claim'[r] = Torn
              /\ pc'[q] \in {"rewrite", "executing"} => claim'[r] = work'[q].use
              /\ pc'[q] = "executing" => grant'[r] = "CONSUMED"
    BY <2>4, <2>5, <2>6, <2>7, <2>8, <2>9 DEF Consuming
  <2> QED
    BY <2>3, <2>11, <2>12 DEF GrantInv, Consuming
<1> QED
  BY <1>1, <1>2

-----------------------------------------------------------------------------
(* The theorems.                                                           *)

\* The slot directory, the outbox, the authorizations and their claims stay in
\* step, whatever the processes do and wherever they stop.
THEOREM ExchangeInvariant == Spec => []IInv
<1>1. IInv /\ [Next]_vars => IInv'
  <2> SUFFICES ASSUME IInv, [Next]_vars PROVE IInv'
    OBVIOUS
  <2>1. TypeOK'
    BY TypeStep
  <2>2. BudgetInv'
    BY BudgetStep DEF IInv
  <2>3. RequestInv'
    BY RequestStep DEF IInv
  <2>4. GrantInv'
    BY <2>1, GrantStep DEF IInv
  <2> QED
    BY <2>1, <2>2, <2>3, <2>4 DEF IInv
<1> QED
  BY <1>1, InitInv, PTL DEF Spec

\* The files and the processes stay well typed.  (RevisionExchangeRepository)
THEOREM TypeCorrect == Spec => []TypeOK
<1>1. IInv => TypeOK
  BY DEF IInv
<1> QED
  BY <1>1, ExchangeInvariant, PTL

\* Every request of the outbox holds a slot of the budget, and none holds two.
\* (RevisionBudgetStore.consume, create_request_once)
THEOREM BudgetIsCounted == Spec => []BudgetCounts
<1>1. IInv => BudgetCounts
  BY DEF IInv, BudgetInv, RequestInv, BudgetCounts
<1> QED
  BY <1>1, ExchangeInvariant, PTL

\* Slots are taken in order, each behind readable ones.  (RevisionBudgetStore.consume)
THEOREM BudgetIsOrdered == Spec => []SlotsInOrder
<1>1. IInv => SlotsInOrder
  BY DEF IInv, BudgetInv
<1> QED
  BY <1>1, ExchangeInvariant, PTL

\* What a Manager waits for can be read.  (create_request_once before save)
THEOREM WaitersHaveRequests == Spec => []WaitingIsWritten
<1>1. IInv => WaitingIsWritten
  BY DEF IInv, RequestInv
<1> QED
  BY <1>1, ExchangeInvariant, PTL

\* Two executors of a request use the same reservations.  (consume_authorization)
THEOREM ExecutorsUseOneClaim == Spec => []ExecutorsAgree
<1>1. IInv => ExecutorsAgree
  <2> SUFFICES ASSUME IInv, NEW p \in Process, pc[p] = "executing"
      PROVE  /\ grant[work[p].request] = "CONSUMED"
             /\ used[work[p].request] = work[p].use
             /\ claim[work[p].request] = work[p].use
    BY DEF ExecutorsAgree
  <2>1. work[p].request \in Request
    BY DEF IInv, TypeOK
  <2> QED
    BY <2>1 DEF IInv, GrantInv
<1> QED
  BY <1>1, ExchangeInvariant, PTL

\* No step changes a slot, a request, a claim or a consumed authorization that
\* can be parsed.  (_write_json_once_or_exact, consume_authorization)
THEOREM FilesAreWrittenOnce == Spec => WrittenOnce
<1> DEFINE Kept ==
      /\ \A i \in Slot : slot[i] \in Request => slot'[i] = slot[i]
      /\ \A r \in Request :
           /\ request[r] \in Nat => request'[r] = request[r]
           /\ claim[r] \in Reservations => claim'[r] = claim[r]
           /\ grant[r] = "CONSUMED" => grant'[r] = "CONSUMED" /\ used'[r] = used[r]
<1>1. IInv /\ [Next]_vars => [Kept]_vars
  <2> SUFFICES ASSUME IInv, Next PROVE Kept
    OBVIOUS
  <2> PICK p \in Process : Step(p)
    BY NextIsStep
  <2>1. \A r \in Request : request[r] \in Nat => request'[r] = request[r]
    <3>1. CASE CreateRequest(p)
      BY <3>1, FileAssumption DEF CreateRequest, Creates, IInv, TypeOK
    <3>2. CASE WriteRequest(p)
      BY <3>2, FileAssumption DEF WriteRequest, IInv, RequestInv, TypeOK
    <3> QED
      BY <3>1, <3>2, Moves DEF Changes, IInv
  <2>2. \A i \in Slot : slot[i] \in Request => slot'[i] = slot[i]
    BY SlotsKept DEF IInv
  <2>3. \A r \in Request :
          /\ claim[r] \in Reservations => claim'[r] = claim[r]
          /\ grant[r] = "CONSUMED" => grant'[r] = "CONSUMED" /\ used'[r] = used[r]
    BY GrantsKept DEF IInv
  <2> QED
    BY <2>1, <2>2, <2>3
<1>2. Spec => [][Kept]_vars
  BY <1>1, ExchangeInvariant, PTL DEF Spec
<1> QED
  BY <1>2 DEF WrittenOnce

================================================================================
