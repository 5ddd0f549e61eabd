--------------------------- MODULE OrderLifecycle ---------------------------
(***************************************************************************)
(* The life of a Store order as state_machine.rs declares it: the pure     *)
(* functions transition_payment and transition_fulfillment.  No other code *)
(* calls them; every real transition is a conditional SQL UPDATE in        *)
(* order.rs, callbacks.rs, recovery.rs or reconciliation.rs.  The detailed *)
(* modules are checked to implement this one.                              *)
(***************************************************************************)

CONSTANTS Order,       \* orders, one per (buyer, creation idempotency key)
          LegacyClosed \* orders of payment contract version 1, all closed

VARIABLES pay,  \* pay[o]: PaymentState, "none" before the row exists
          ful   \* ful[o]: FulfillmentState

PaymentStates ==
  {"none", "unpaid", "paid", "refund_pending", "refunded", "closed"}

FulfillmentStates == {"pending", "fulfilled", "failed"}

PaymentEvents ==
  {"verified_payment", "confirmed_unpaid", "refund_reserved",
   "verified_refund", "definite_refund_rejection"}

(* The states an event may lead to: {} is Reject and {s} a Noop.           *)
TransitionPayment(s, o, event) ==
  CASE event = "verified_payment" ->
         IF s = "unpaid" \/ (s = "closed" /\ o \notin LegacyClosed)
         THEN {"paid"}
         ELSE {s} \ {"closed", "none"}
    [] event = "confirmed_unpaid" ->
         IF s = "unpaid" THEN {"closed"} ELSE {s}
    [] event = "refund_reserved" ->
         IF s \in {"paid", "refund_pending"} THEN {"refund_pending"} ELSE {}
    [] event = "verified_refund" ->
         IF s \in {"refund_pending", "refunded"} THEN {"refunded"} ELSE {}
    [] event = "definite_refund_rejection" ->
         IF s \in {"refund_pending", "paid"} THEN {"paid"} ELSE {}

TransitionFulfillment(s, event) ==
  CASE event = "succeeded" -> {"fulfilled"}
    [] event = "failed" -> IF s = "fulfilled" THEN {} ELSE {"failed"}

Init ==
  /\ pay = [o \in Order |-> IF o \in LegacyClosed THEN "closed" ELSE "none"]
  /\ ful = [o \in Order |-> "pending"]

Create(o) ==
  /\ pay[o] = "none"
  /\ pay' = [pay EXCEPT ![o] = "unpaid"]
  /\ UNCHANGED ful

PaymentStep(o, event) ==
  /\ pay[o] # "none"
  /\ \E s \in TransitionPayment(pay[o], o, event) :
       pay' = [pay EXCEPT ![o] = s]
  /\ UNCHANGED ful

(* A reward is only given to an order that is paid.                        *)
FulfillmentStep(o, event) ==
  /\ pay[o] = "paid"
  /\ \E s \in TransitionFulfillment(ful[o], event) :
       ful' = [ful EXCEPT ![o] = s]
  /\ UNCHANGED pay

Next ==
  \E o \in Order :
    \/ Create(o)
    \/ \E event \in PaymentEvents : PaymentStep(o, event)
    \/ \E event \in {"succeeded", "failed"} : FulfillmentStep(o, event)

Spec == Init /\ [][Next]_<<pay, ful>>
=============================================================================
