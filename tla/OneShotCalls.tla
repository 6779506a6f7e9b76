----------------------------- MODULE OneShotCalls -----------------------------
(***************************************************************************)
(* What the ledger of paid calls promises, without files, processes or     *)
(* transports: README.md:84 (authorizations and reservations are append-   *)
(* only or create-once), README.md:131 (a call that may have been billed   *)
(* is sent again only on an operator's one-shot authorization) and the     *)
(* comments of common/agents/base.py.                                      *)
(*                                                                         *)
(* Every identity carries a right to be sent.  The right of a repair is    *)
(* granted by an operator and spent once; the right of an original is      *)
(* spent once without a grant.  Only what is spent is sent, and at most    *)
(* Limit times.                                                            *)
(***************************************************************************)
EXTENDS Naturals

CONSTANTS
  Identity,   \* logical call identities
  Repair,     \* the identities that need the grant of an operator
  Bounded,    \* the identities the promise is made for
  Limit       \* requests one spent right is good for

VARIABLES
  right,      \* [Identity -> {"none", "granted", "spent"}]
  sent        \* [Identity -> Nat]

vars == <<right, sent>>

Init ==
  /\ right = [i \in Identity |-> "none"]
  /\ sent = [i \in Identity |-> 0]

Grant(i) ==
  /\ i \in Repair
  /\ right[i] = "none"
  /\ right' = [right EXCEPT ![i] = "granted"]
  /\ UNCHANGED sent

Spend(i) ==
  /\ right[i] = IF i \in Repair THEN "granted" ELSE "none"
  /\ right' = [right EXCEPT ![i] = "spent"]
  /\ UNCHANGED sent

Send(i) ==
  /\ i \in Bounded => right[i] = "spent" /\ sent[i] < Limit
  /\ sent' = [sent EXCEPT ![i] = @ + 1]
  /\ UNCHANGED right

Next == \E i \in Identity : Grant(i) \/ Spend(i) \/ Send(i)

Spec == Init /\ [][Next]_vars

=============================================================================
