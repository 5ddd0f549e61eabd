----------------------------- MODULE MCRecovery -----------------------------
(***************************************************************************)
(* Small instances of Recovery.  In the one of RecoveryMoney a buyer has   *)
(* three orders: o1 tops up the balance and can meet two refunds or two    *)
(* disputes; o2 sells a plan, has a callback that disagrees with the order *)
(* besides the right one, a refund and two disputes; o3 was closed by an   *)
(* older version while its session is still open.                          *)
(***************************************************************************)
EXTENDS Recovery, TLC

CONSTANTS o1, o2, o3, a1, a2, a3, e1, e2, e3, e4, d1, u1, r1, r2, r3, x1, x2, x3, x4

AllOf(S, v) == [s \in S |-> v]

MCUserOf       == AllOf(Order, u1)
Stripe         == AllOf(Order, "stripe")
MCReward       == AllOf(Order, 2)
Callbacks      == AllOf(Event, "callback")
MCOrderOf      == [a \in Attempt |-> CASE a = a1 -> o1 [] a = a2 -> o2 [] a = a3 -> o3]
MCKind         == [o \in Order |-> IF o = o2 THEN "plan" ELSE "balance"]
MCEventAttempt == [e \in Event |-> CASE e = e1 -> a1 [] e \in {e2, e3} -> a2 [] e = e4 -> a3]
MCContract     == [e \in Event |-> e # e3]
MCRefundOrder  == [r \in Refund |-> IF r \in {r1, r2} THEN o1 ELSE o2]
MCDisputeOrder == [x \in Dispute |-> IF x \in {x1, x2} THEN o1 ELSE o2]

Flight == Cardinality(calls) + Cardinality(rcalls)

(* The order has two refunds and a dispute or a refund and two disputes.   *)
(* Two requests are under way at once, and usage is charged, only while it *)
(* has one of each; with a second of either, one request runs at a time.   *)
SecondClaimAlone ==
  LET noRefund  == claim[r2] = "none" /\ refund[r2] = "none"
      noDispute == claim[x2] = "none"
  IN  \/ noRefund /\ noDispute
      \/ (noRefund \/ noDispute) /\ Flight <= 1 /\ spent[u1] = 0

(* An order is active once it is created; the one an older version closed  *)
(* once its session ends or a request is about it.                         *)
Active(o) ==
  IF o \in LegacyClosed
  THEN \E a \in AttemptsOf(o) :
         prov[a] # "open" \/ \E c \in calls : c.op # "fulfill" /\ c.att = a
  ELSE pay[o] # "none"

(* One of the orders is active; the plan and the closed order have one     *)
(* request under way at a time and no usage.                               *)
OneOrder ==
  /\ Cardinality({o \in Order : Active(o)}) <= 1
  /\ (\E o \in Order \ {o1} : Active(o)) => Flight <= 1 /\ spent[u1] = 0
  /\ SecondClaimAlone
=============================================================================
