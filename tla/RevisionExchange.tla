--------------------------- MODULE RevisionExchange ---------------------------
(***************************************************************************)
(* The file exchange of upstream revision requests between two adjacent    *)
(* layers of one workflow: storage/revision_exchange_repository.py, with   *)
(* the calls the Managers make to it.                                      *)
(*                                                                         *)
(* The requesting layer takes a budget slot and writes a request; the      *)
(* executing layer writes an authorization, claims it for the reservations *)
(* it is going to use, marks it consumed and executes.  Every file but the *)
(* authorization is created with open("x") and written after that, so that *)
(* between the two (or for ever, when the process stops there) other       *)
(* processes find a file they cannot parse.                                *)
(***************************************************************************)
EXTENDS Integers, FiniteSets

CONSTANTS
  Process,       \* processes that run a Manager of either layer
  Request,       \* deterministic_revision_request_id of the saved reviews
  Limit,         \* RevisionBudgetPolicy.upstream_limit
  Reservations,  \* the reservation lists an execution may name
  Stamped,       \* the requests that carry the timestamp of their review
  MaxBuilds,     \* bound: how many messages are built for one request
  Absent, Torn,  \* a file that does not exist, or cannot be parsed
  Nothing        \* no request, no reservations

ASSUME ExchangeAssumption ==
  /\ Limit \in Nat
  /\ MaxBuilds \in Nat
  /\ Stamped \subseteq Request

\* The contents of files are told apart from their absence.
ASSUME FileAssumption ==
  /\ Absent # Torn
  /\ {Absent, Torn, Nothing} \cap (Request \union Reservations \union Nat) = {}
  /\ {Absent, Torn} \cap {"PENDING", "CONSUMED"} = {}

Slot == 1 .. Limit

VARIABLES
  slot,      \* [Slot -> file]: slot_<n>.json, holds a request id
  request,   \* [Request -> file]: holds the build number of the message
  grant,     \* [Request -> file]: RevisionExecutionAuthorization, its status
  used,      \* [Request -> Reservations or Nothing]: the lists in that file
  claim,     \* [Request -> file]: <request>.consume.json
  waiting,   \* requests the requesting Manager saved as WAITING_UPSTREAM_RESULT
  built,     \* [Request -> Nat]: the message that was built last
  pc,        \* [Process -> Pc]
  work       \* [Process -> Work]: the operation of the process

exchange == <<slot, request, grant, used, claim>>
vars     == <<slot, request, grant, used, claim, waiting, built, pc, work>>

Pc == {"idle", "scan", "slot", "fill", "request", "write", "save",
       "approve", "grant", "writeGrant", "budget", "read", "claim", "writeClaim",
       "rewrite", "executing",
       "exhausted", "unreadable", "conflict", "refused"}

\* request, position in the slot directory, build of the message, reservation
\* lists, and the status of the authorization as it was read
Work == [request : Request \union {Nothing}, at : Nat, build : Nat,
         use : Reservations \union {Nothing}, seen : {"PENDING", "CONSUMED"}]

NoWork == [request |-> Nothing, at |-> 1, build |-> 0, use |-> Nothing,
           seen |-> "PENDING"]

\* The operations of the executing layer, once it has a request to revise.
Revising == {"grant", "writeGrant", "budget", "read", "claim", "writeClaim",
             "rewrite", "executing"}

Init ==
  /\ slot = [i \in Slot |-> Absent]
  /\ request = [r \in Request |-> Absent]
  /\ grant = [r \in Request |-> Absent]
  /\ used = [r \in Request |-> Nothing]
  /\ claim = [r \in Request |-> Absent]
  /\ waiting = {}
  /\ built = [r \in Request |-> 0]
  /\ pc = [p \in Process |-> "idle"]
  /\ work = [p \in Process |-> NoWork]

Goto(p, l) == pc' = [pc EXCEPT ![p] = l]

\* open("x") succeeds.  (Faulty: over an empty file too.)
Creates_Empty(file) == file \in {Absent, Torn}

Creates(file) == file = Absent

-----------------------------------------------------------------------------
(* The requesting layer: _request_upstream_revision of a Manager.          *)

\* The build number stands for the timestamps of the message.  A request
\* stamped by its review is always the same message, any other is stamped by the
\* clock and is another message each time.
Build(r) == IF r \in Stamped THEN 0 ELSE built[r] + 1

\* The Manager applies the saved Quality Review, for the first time or again.
Route(p, r) ==
  /\ pc[p] = "idle"
  /\ r \notin waiting
  /\ Build(r) <= MaxBuilds
  /\ built' = [built EXCEPT ![r] = Build(r)]
  /\ work' = [work EXCEPT ![p] = [NoWork EXCEPT !.request = r, !.build = Build(r)]]
  /\ Goto(p, "scan")
  /\ UNCHANGED <<exchange, waiting>>

Unreadable == \E i \in Slot : slot[i] = Torn

\* A slot of the directory is that of the request.
Found(r) == \E i \in Slot : slot[i] = r

\* for_request: parses every slot of the directory.
Scan(p) ==
  LET r == work[p].request
  IN /\ pc[p] = "scan"
     /\ \/ Unreadable /\ Goto(p, "unreadable")
        \/ ~Unreadable /\ Found(r) /\ Goto(p, "request")
        \/ /\ ~Unreadable /\ ~Found(r)
           /\ Goto(p, IF Limit = 0 THEN "exhausted" ELSE "slot")
     /\ UNCHANGED <<exchange, waiting, built, work>>

\* The loop goes on to the next slot when this one is another request's.
\* (Faulty: without comparing the request.)
Occupied_Any(i, r) == slot[i] \notin {Absent, Torn}

Occupied(i, r) == slot[i] \notin {Absent, Torn, r}

\* range(1, limit + 1) ends.
Last(i) == i = Limit

\* One round of the loop over the slots.
TakeSlot(p) ==
  LET r == work[p].request
      i == work[p].at
  IN /\ pc[p] = "slot"
     /\ \/ /\ Creates(slot[i])
           /\ slot' = [slot EXCEPT ![i] = Torn]
           /\ Goto(p, "fill")
           /\ UNCHANGED work
        \/ /\ slot[i] = Torn
           /\ Goto(p, "unreadable")
           /\ UNCHANGED <<slot, work>>
        \/ /\ Occupied(i, r) /\ ~Last(i)
           /\ work' = [work EXCEPT ![p].at = i + 1]
           /\ UNCHANGED <<slot, pc>>
        \/ /\ Occupied(i, r) /\ Last(i)
           /\ Goto(p, "exhausted")
           /\ UNCHANGED <<slot, work>>
        \/ /\ slot[i] = r
           /\ Goto(p, "request")
           /\ UNCHANGED <<slot, work>>
     /\ UNCHANGED <<request, grant, used, claim, waiting, built>>

FillSlot(p) ==
  /\ pc[p] = "fill"
  /\ slot' = [slot EXCEPT ![work[p].at] = work[p].request]
  /\ Goto(p, "request")
  /\ UNCHANGED <<request, grant, used, claim, waiting, built, work>>

\* The request that exists is exactly this message.  (Faulty: that it exists is
\* enough.)
SameMessage_Exists(r, b) == request[r] # Absent

SameMessage(r, b) == request[r] = b

\* create_request_once, after the budget.
CreateRequest(p) ==
  LET r == work[p].request
  IN /\ pc[p] = "request"
     /\ \/ /\ Creates(request[r])
           /\ request' = [request EXCEPT ![r] = Torn]
           /\ Goto(p, "write")
        \/ /\ request[r] # Absent
           /\ Goto(p, IF SameMessage(r, work[p].build) THEN "save"
                      ELSE IF request[r] = Torn THEN "unreadable" ELSE "conflict")
           /\ UNCHANGED request
     /\ UNCHANGED <<slot, grant, used, claim, waiting, built, work>>

WriteRequest(p) ==
  /\ pc[p] = "write"
  /\ request' = [request EXCEPT ![work[p].request] = work[p].build]
  /\ Goto(p, "save")
  /\ UNCHANGED <<slot, grant, used, claim, waiting, built, work>>

Rest(p) ==
  /\ Goto(p, "idle")
  /\ work' = [work EXCEPT ![p] = NoWork]

\* The Manager saves its own state: WAITING_UPSTREAM_RESULT.
SaveWaiting(p) ==
  /\ pc[p] = "save"
  /\ waiting' = waiting \union {work[p].request}
  /\ Rest(p)
  /\ UNCHANGED <<exchange, built>>

-----------------------------------------------------------------------------
(* The executing layer: revise() and _execute_active_revision.             *)

\* An operator asks to execute r, which list_requests found.  load_authorization
\* returns what is there.
Approve(p, r, u) ==
  /\ pc[p] = "idle"
  /\ request[r] \notin {Absent, Torn}
  /\ work' = [work EXCEPT ![p] = [NoWork EXCEPT !.request = r, !.use = u]]
  /\ Goto(p, CASE \E q \in Request : request[q] = Torn -> "unreadable"
               [] grant[r] = Torn -> "unreadable"
               [] grant[r] = Absent -> "grant"
               [] OTHER -> "budget")
  /\ UNCHANGED <<exchange, waiting, built>>

\* create_authorization_once with a new created_at: no file that exists can be
\* equal to it.
CreateGrant(p) ==
  LET r == work[p].request
  IN /\ pc[p] = "grant"
     /\ \/ /\ Creates(grant[r])
           /\ grant' = [grant EXCEPT ![r] = Torn]
           /\ Goto(p, "writeGrant")
        \/ /\ grant[r] # Absent
           /\ Goto(p, IF grant[r] = Torn THEN "unreadable" ELSE "refused")
           /\ UNCHANGED grant
     /\ UNCHANGED <<slot, request, used, claim, waiting, built, work>>

WriteGrant(p) ==
  /\ pc[p] = "writeGrant"
  /\ grant' = [grant EXCEPT ![work[p].request] = "PENDING"]
  /\ Goto(p, "budget")
  /\ UNCHANGED <<slot, request, used, claim, waiting, built, work>>

\* The execution needs the slot of the requesting layer.
FindBudget(p) ==
  /\ pc[p] = "budget"
  /\ Goto(p, CASE Unreadable -> "unreadable"
               [] ~Unreadable /\ Found(work[p].request) -> "read"
               [] OTHER -> "exhausted")
  /\ UNCHANGED <<exchange, waiting, built, work>>

\* consume_authorization reads the authorization ...
ReadGrant(p) ==
  /\ pc[p] = "read"
  /\ work' = [work EXCEPT ![p].seen = grant[work[p].request]]
  /\ Goto(p, "claim")
  /\ UNCHANGED <<exchange, waiting, built>>

\* The claim that exists must name the same reservations.  (Faulty: any does.)
SameClaim_Any(r, u) == TRUE

SameClaim(r, u) == claim[r] = u

\* ... claims it ...
Claim(p) ==
  LET r == work[p].request
  IN /\ pc[p] = "claim"
     /\ \/ /\ Creates(claim[r])
           /\ claim' = [claim EXCEPT ![r] = Torn]
           /\ Goto(p, "writeClaim")
        \/ /\ claim[r] # Absent
           /\ Goto(p, CASE claim[r] = Torn -> "unreadable"
                        [] SameClaim(r, work[p].use) -> "rewrite"
                        [] OTHER -> "refused")
           /\ UNCHANGED claim
     /\ UNCHANGED <<slot, request, grant, used, waiting, built, work>>

WriteClaim(p) ==
  /\ pc[p] = "writeClaim"
  /\ claim' = [claim EXCEPT ![work[p].request] = work[p].use]
  /\ Goto(p, "rewrite")
  /\ UNCHANGED <<slot, request, grant, used, waiting, built, work>>

\* ... and replaces it atomically, unless it was read as consumed.
Rewrite(p) ==
  LET r == work[p].request
  IN /\ pc[p] = "rewrite"
     /\ \/ /\ work[p].seen = "PENDING"
           /\ grant' = [grant EXCEPT ![r] = "CONSUMED"]
           /\ used' = [used EXCEPT ![r] = work[p].use]
           /\ Goto(p, "executing")
        \/ /\ work[p].seen = "CONSUMED"
           /\ Goto(p, IF used[r] = work[p].use THEN "executing" ELSE "refused")
           /\ UNCHANGED <<grant, used>>
     /\ UNCHANGED <<slot, request, claim, waiting, built, work>>

-----------------------------------------------------------------------------
\* The execution or the error is reported and the command ends.
Return(p) ==
  /\ pc[p] \in {"executing", "exhausted", "unreadable", "conflict", "refused"}
  /\ Rest(p)
  /\ UNCHANGED <<exchange, waiting, built>>

Crash(p) ==
  /\ pc[p] # "idle"
  /\ Rest(p)
  /\ UNCHANGED <<exchange, waiting, built>>

Next ==
  \E p \in Process :
    \/ \E r \in Request : Route(p, r)
    \/ Scan(p) \/ TakeSlot(p) \/ FillSlot(p)
    \/ CreateRequest(p) \/ WriteRequest(p) \/ SaveWaiting(p)
    \/ \E r \in Request, u \in Reservations : Approve(p, r, u)
    \/ CreateGrant(p) \/ WriteGrant(p) \/ FindBudget(p)
    \/ ReadGrant(p) \/ Claim(p) \/ WriteClaim(p) \/ Rewrite(p)
    \/ Return(p) \/ Crash(p)

Spec == Init /\ [][Next]_vars

-----------------------------------------------------------------------------
(* Properties.                                                             *)

TypeOK ==
  /\ slot \in [Slot -> Request \union {Absent, Torn}]
  /\ request \in [Request -> Nat \union {Absent, Torn}]
  /\ grant \in [Request -> {"PENDING", "CONSUMED", Absent, Torn}]
  /\ used \in [Request -> Reservations \union {Nothing}]
  /\ claim \in [Request -> Reservations \union {Absent, Torn}]
  /\ waiting \subseteq Request
  /\ built \in [Request -> Nat]
  /\ pc \in [Process -> Pc]
  /\ work \in [Process -> Work]
  /\ \A p \in Process : pc[p] # "idle" => work[p].request \in Request
  /\ \A p \in Process : pc[p] \in {"slot", "fill"} => work[p].at \in Slot
  /\ \A p \in Process : pc[p] = "scan" => work[p].at = 1
  /\ \A p \in Process : pc[p] \in Revising => work[p].use \in Reservations

\* Racing or restarted Managers never take two slots for one request, so the
\* budget is what it says.  (RevisionBudgetStore.consume)
OneSlotPerRequest ==
  \A i, j \in Slot : slot[i] \in Request /\ slot[i] = slot[j] => i = j

\* A slot is taken only behind readable slots of others: a torn slot stops the
\* budget, nobody steps over it.
SlotsInOrder ==
  \A i, j \in Slot : i < j /\ slot[j] # Absent => slot[i] \in Request

\* No request reaches the outbox without a slot of its own, whatever stopped
\* before.
RequestHasSlot ==
  \A r \in Request : request[r] # Absent => \E i \in Slot : slot[i] = r

\* The budget counts: every request of the outbox holds a slot of its own and no
\* request holds two, so at most Limit are ever issued, whoever races or restarts
\* between the slot and the request file.
\* (RevisionBudgetStore.consume, create_request_once)
BudgetCounts == OneSlotPerRequest /\ RequestHasSlot

\* Whoever executes a request, executes it under the reservations that are
\* claimed and recorded as consumed: two executors name the same ones.
ExecutorsAgree ==
  \A p \in Process :
    pc[p] = "executing" =>
      LET r == work[p].request
      IN /\ grant[r] = "CONSUMED"
         /\ used[r] = work[p].use
         /\ claim[r] = work[p].use

\* What the requesting Manager waits for is readable in the outbox.
WaitingIsWritten == \A r \in waiting : request[r] \notin {Absent, Torn}

\* Files are written once: a slot, a request or a claim that can be parsed never
\* changes, also not when its request is built again with another timestamp, and a
\* consumed authorization stays consumed for the same reservations, although Rewrite
\* replaces it from what was read before.  README.md:84: what uses an identity with
\* other contents is refused.
WrittenOnce ==
  [][/\ \A i \in Slot : slot[i] \in Request => slot'[i] = slot[i]
     /\ \A r \in Request :
          /\ request[r] \in Nat => request'[r] = request[r]
          /\ claim[r] \in Reservations => claim'[r] = claim[r]
          /\ grant[r] = "CONSUMED" => grant'[r] = "CONSUMED" /\ used'[r] = used[r]]_vars

-----------------------------------------------------------------------------
(* What the code says and does not keep.                                   *)

\* Applying the same saved review again, after a stop or in a second process, is
\* never refused as another request of the same identity: README.md:84 says
\* that resuming the same request reuses the same identity.
ReissueAccepted == \A p \in Process : pc[p] # "conflict"

=============================================================================
