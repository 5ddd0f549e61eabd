---------------------------- MODULE ChargeLedger ----------------------------
(***************************************************************************)
(* What a metering path of the gateway promises: an amount is set aside    *)
(* for a request at most once, at most one outcome replaces it, and the    *)
(* two totals always are the sums of what the requests set aside and of    *)
(* what they were charged.  QuotaReservation (plan quota on the Primary)   *)
(* and ReplicaMetering (balance deltas of a Replica) implement it.         *)
(***************************************************************************)
EXTENDS Naturals, FiniteSetsExt

CONSTANTS Charge, \* requests, or the deltas a Replica publishes
          Amount  \* amounts of money

VARIABLES outcome, \* outcome[c]: "none", "open", "spent" or "free"
          aside,   \* aside[c]: the amount set aside for an open charge, else 0
          held,    \* total set aside
          spent    \* total charged

Init ==
  /\ outcome = [c \in Charge |-> "none"]
  /\ aside = [c \in Charge |-> 0]
  /\ held = 0 /\ spent = 0

Open(c, a) ==
  /\ outcome[c] = "none"
  /\ outcome' = [outcome EXCEPT ![c] = "open"]
  /\ aside' = [aside EXCEPT ![c] = a]
  /\ held' = held + a
  /\ UNCHANGED spent

(* One step may charge several requests (a shipped batch); a charge may    *)
(* turn out higher than what was set aside for it.                         *)
Spend(S, x) ==
  /\ S # {} /\ \A c \in S : outcome[c] = "open"
  /\ outcome' = [c \in Charge |-> IF c \in S THEN "spent" ELSE outcome[c]]
  /\ aside' = [c \in Charge |-> IF c \in S THEN 0 ELSE aside[c]]
  /\ held' = held - MapThenSumSet(LAMBDA c : aside[c], S)
  /\ spent' = spent + MapThenSumSet(LAMBDA c : x[c], S)

Free(c) ==
  /\ outcome[c] = "open"
  /\ outcome' = [outcome EXCEPT ![c] = "free"]
  /\ aside' = [aside EXCEPT ![c] = 0]
  /\ held' = held - aside[c]
  /\ UNCHANGED spent

Next ==
  \/ \E c \in Charge : Free(c) \/ \E a \in Amount : Open(c, a)
  \/ \E S \in SUBSET Charge : \E x \in [S -> Amount] : Spend(S, x)

Spec == Init /\ [][Next]_<<outcome, aside, held, spent>>
=============================================================================
