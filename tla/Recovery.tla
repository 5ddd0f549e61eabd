------------------------------ MODULE Recovery ------------------------------
(***************************************************************************)
(* Refunds, disputes and the recovery of an order's reward, on top of the  *)
(* payment model (store_billing/recovery.rs, refund_operations.rs and the  *)
(* refund queries of reconciliation.rs).                                   *)
(*                                                                         *)
(* A refund and every dispute of an order share one recovery row.  Each    *)
(* transaction of RecoveryStore is one action; what RefundOperations still *)
(* has to project after the provider answered is a record in rcalls.       *)
(***************************************************************************)
EXTENDS PaymentOrder

CONSTANTS Refund,       \* refund idempotency keys
          Dispute,      \* disputes and chargebacks a provider may report
          RefundOrder,  \* the order a refund is about
          DisputeOrder  \* the order a dispute is about

ASSUME RecoveryConstants ==
  /\ Refund \cap Dispute = {}
  /\ RefundOrder \in [Refund -> Order]
  /\ DisputeOrder \in [Dispute -> Order]

VARIABLES
  refund, \* store_refunds.state
  claim,  \* store_order_recovery_claims.state of a refund or a dispute
  rec,    \* store_order_reward_recoveries of an order
  disp,   \* store_orders.dispute_state
  rprov,  \* the provider's own view of a refund
  recent, \* refunds created less than 300 seconds ago
  rcalls  \* refund requests that have committed and not finished

recVars == <<refund, claim, rec, disp, rprov, recent, rcalls>>
allVars == <<payVars, recVars>>

Claim == Refund \cup Dispute

ClaimOrder == [c \in Claim |->
                 IF c \in Refund THEN RefundOrder[c] ELSE DisputeOrder[c]]

NoRecovery == [row |-> FALSE, orig |-> 0, reserved |-> 0, recovered |-> 0]

(* A provider answer that still has to be projected; id tells whether it   *)
(* carries a provider refund id that must be stored first.                 *)
CreateCall(r)          == [op |-> "create", ref |-> r]
ProjectCall(r, res, i) == [op |-> "project", ref |-> r, result |-> res, id |-> i]

FencedCall(r, res)     == [op |-> "fenced", ref |-> r, result |-> res, id |-> FALSE]

RefundCall ==
  [op : {"create"}, ref : Refund]
    \cup [op : {"project", "fenced"}, ref : Refund,
          result : {"pending", "succeeded", "failed"}, id : BOOLEAN]

(* RecTypeOK: the rows of the recovery tables, whose amounts are parsed    *)
(* with parse_nonnegative, and the refund continuations.                   *)
RecTypeOK ==
  /\ TypeOK
  /\ refund \in [Refund -> {"none", "created", "pending", "succeeded", "failed"}]
  /\ claim \in [Claim -> {"none", "open", "resolved", "consumed"}]
  /\ rec \in [Order -> [row : BOOLEAN, orig : Nat, reserved : Nat, recovered : Nat]]
  /\ disp \in [Order -> {"none", "open", "won", "lost"}]
  /\ rprov \in [Refund -> {"none", "pending", "succeeded", "failed"}]
  /\ recent \subseteq Refund
  /\ rcalls \subseteq RefundCall

RecInit ==
  /\ Init
  /\ refund = [r \in Refund |-> "none"]
  /\ claim = [c \in Claim |-> "none"]
  /\ rec = [o \in Order |-> NoRecovery]
  /\ disp = [o \in Order |-> "none"]
  /\ rprov = [r \in Refund |-> "none"]
  /\ recent = {}
  /\ rcalls = {}

-----------------------------------------------------------------------------
(* The shared recovery row.                                                *)

HasPaidAttempt(o) == \E a \in AttemptsOf(o) : att[a] = "paid"

(* The reward a recovery is about: what the fulfilment row credited.       *)
OriginalReward(o) ==
  IF Kind[o] = "balance" /\ ful[o] = "fulfilled"
  THEN ledger[o]["fulfillment"] ELSE 0

(* An existing row must be about the same reward, otherwise Conflict.      *)
EnsureRecovery(o) == rec[o].row => rec[o].orig = OriginalReward(o)

RecoveryRow(o) ==
  IF rec[o].row THEN rec[o]
  ELSE [NoRecovery EXCEPT !.row = TRUE, !.orig = OriginalReward(o)]

(* Fault: the other claims on the recovery are not counted.                *)
OtherOpenIgnored(c) == FALSE

OtherOpen(c) ==
  \E d \in Claim \ {c} : ClaimOrder[d] = ClaimOrder[c] /\ claim[d] = "open"

(* A ledger key is used once: a second insert is a Conflict that rolls the *)
(* transaction back.                                                       *)
LedgerFree(o, kind) == ledger[o][kind] = 0

ApplyBalanceDelta(o, kind, delta) ==
  /\ ledger' = [ledger EXCEPT ![o][kind] = delta]
  /\ balance' = [balance EXCEPT ![UserOf[o]] = @ + delta]

-----------------------------------------------------------------------------
(* Refunds.                                                                *)

Refundable(o) ==
  /\ HasPaidAttempt(o) /\ pay[o] = "paid"
  /\ ~(Kind[o] = "plan" /\ ful[o] = "fulfilled")
  /\ EnsureRecovery(o)
  /\ RecoveryRow(o).recovered = 0

(* The complete reward is set aside, or already is.                        *)
ReserveReward(o) ==
  LET row == RecoveryRow(o)
  IN  IF row.orig # 0 /\ row.reserved = 0
      THEN /\ balance[UserOf[o]] >= row.orig
           /\ LedgerFree(o, "reserve")
           /\ ApplyBalanceDelta(o, "reserve", -row.orig)
           /\ rec' = [rec EXCEPT ![o] = [row EXCEPT !.reserved = row.orig]]
      ELSE /\ row.orig # 0 => row.reserved = row.orig
           /\ rec' = [rec EXCEPT ![o] = row]
           /\ UNCHANGED <<ledger, balance>>

BeginRefund(r) ==
  LET o == RefundOrder[r]
  IN  /\ refund[r] = "none"
      /\ Refundable(o)
      /\ ReserveReward(o)
      /\ refund' = [refund EXCEPT ![r] = "created"]
      /\ claim' = [claim EXCEPT ![r] = "open"]
      /\ pay' = [pay EXCEPT ![o] = "refund_pending"]
      /\ recent' = recent \cup {r}
      /\ rcalls' = rcalls \cup {CreateCall(r)}
      /\ UNCHANGED <<ful, hold, userHold, lapsed, attemptVars, eventVars, spent,
                     ent, comm, calls, crashes, disp, rprov>>

RefundRoom == Cardinality(rcalls) < MaxCalls

(* What an adapter makes of a provider's view: EPay never reports a        *)
(* rejection, and an empty Stripe list is definitive.                      *)
CreateAnswers(r) ==
  {<<"pending", FALSE>>}
    \cup (IF rprov[r] = "none" /\ Adapter[RefundOrder[r]] = "stripe"
          THEN {<<"failed", FALSE>>} ELSE {})
    \cup (IF rprov[r] = "succeeded" \/
             (rprov[r] # "none" /\ Adapter[RefundOrder[r]] = "stripe")
          THEN {<<rprov[r], TRUE>>} ELSE {})

(* Fault: a refund the provider has accepted counts as paid back.          *)
QueryAnswersEager(r) ==
  IF Adapter[RefundOrder[r]] = "epay" THEN {}
  ELSE {<<"pending", FALSE>>,
        IF rprov[r] = "none" THEN <<"failed", FALSE>> ELSE <<"succeeded", TRUE>>}

QueryAnswers(r) ==
  IF Adapter[RefundOrder[r]] = "epay" THEN {}
  ELSE {<<"pending", FALSE>>,
        IF rprov[r] = "none" THEN <<"failed", FALSE>> ELSE <<rprov[r], TRUE>>}

AnswerCreate(r) ==
  /\ CreateCall(r) \in rcalls
  /\ \E ans \in CreateAnswers(r) :
       rcalls' = (rcalls \ {CreateCall(r)}) \cup {ProjectCall(r, ans[1], ans[2])}
  /\ UNCHANGED <<payVars, refund, claim, rec, disp, rprov, recent>>

QueryRefund(r) ==
  /\ refund[r] \in {"created", "pending"} /\ RefundRoom
  /\ \E ans \in QueryAnswers(r) :
       rcalls' = rcalls \cup {ProjectCall(r, ans[1], ans[2])}
  /\ UNCHANGED <<payVars, refund, claim, rec, disp, rprov, recent>>

(* Repeating the refund key: a fresh created refund is only returned.      *)
ReplayRefund(r) ==
  /\ ~(refund[r] = "created" /\ r \in recent)
  /\ QueryRefund(r)

(* The Admin query endpoint asks the provider whatever the age.            *)
AdminQueryRefund(r) == QueryRefund(r)

MarkRefundPending(c) ==
  /\ c \in rcalls /\ c.op = "project"
  /\ c.result = "pending" \/ c.id
  /\ refund' = IF refund[c.ref] = "created"
               THEN [refund EXCEPT ![c.ref] = "pending"] ELSE refund
  /\ rcalls' = IF refund[c.ref] \in {"created", "pending"} /\ c.result # "pending"
               THEN (rcalls \ {c}) \cup {ProjectCall(c.ref, c.result, FALSE)}
               ELSE rcalls \ {c}
  /\ UNCHANGED <<payVars, claim, rec, disp, rprov, recent>>

Unsettled(r) == refund[r] \in {"created", "pending"}

(* Fault: the release is paid out without its ledger row.                  *)
ReleaseUnbooked(o, row) ==
  /\ balance' = [balance EXCEPT ![UserOf[o]] = @ + row.reserved]
  /\ rec' = [rec EXCEPT ![o].reserved = 0]
  /\ UNCHANGED ledger

ReleaseReserve(o, row) ==
  /\ LedgerFree(o, "release")
  /\ ApplyBalanceDelta(o, "release", row.reserved)
  /\ rec' = [rec EXCEPT ![o].reserved = 0]

(* Fault: a late rejection is applied to a settled refund.                 *)
CanRejectSettled(r) == TRUE

CanReject(r) ==
  LET o == RefundOrder[r]
  IN  /\ Unsettled(r)
      /\ ~OtherOpen(r) /\ rec[o].recovered = 0 /\ rec[o].reserved # 0
           => LedgerFree(o, "release")

RejectRefund(r) ==
  LET o == RefundOrder[r]
  IN  /\ refund' = [refund EXCEPT ![r] = "failed"]
      /\ claim' = [claim EXCEPT ![r] = IF @ = "open" THEN "resolved" ELSE @]
      /\ IF ~OtherOpen(r) /\ rec[o].recovered = 0 /\ rec[o].reserved # 0
         THEN ReleaseReserve(o, rec[o])
         ELSE UNCHANGED <<rec, ledger, balance>>
      /\ pay' = [pay EXCEPT ![o] = IF @ = "refund_pending" THEN "paid" ELSE @]
      /\ UNCHANGED comm

CanComplete(r) ==
  LET o == RefundOrder[r]
  IN  /\ Unsettled(r)
      /\ rec[o].orig # 0 => rec[o].reserved = rec[o].orig
      /\ pay[o] = "refund_pending"

(* Fault: the commission of the order is paid all the same.                *)
KeepCommission(o) == UNCHANGED comm

RecoverReward(o) ==
  rec' = IF rec[o].recovered = 0
         THEN [rec EXCEPT ![o].reserved = 0, ![o].recovered = rec[o].orig]
         ELSE rec

ReverseCommission(o) ==
  comm' = [comm EXCEPT ![o] = IF @ = "none" THEN @ ELSE "reversed"]

CompleteRefund(r) ==
  LET o == RefundOrder[r]
  IN  /\ refund' = [refund EXCEPT ![r] = "succeeded"]
      /\ claim' = [claim EXCEPT ![r] = IF @ = "open" THEN "consumed" ELSE @]
      /\ RecoverReward(o)
      /\ pay' = [pay EXCEPT ![o] = "refunded"]
      /\ ReverseCommission(o)
      /\ UNCHANGED <<ledger, balance>>

(* A terminal answer in a transaction of its own; an error rolls it back.  *)
SettleRefund(c) ==
  /\ c \in rcalls /\ c.op = "project" /\ ~c.id /\ c.result # "pending"
  /\ rcalls' = rcalls \ {c}
  /\ \/ c.result = "succeeded" /\ CanComplete(c.ref) /\ CompleteRefund(c.ref)
     \/ c.result = "failed" /\ CanReject(c.ref) /\ RejectRefund(c.ref)
     \/ /\ ~(IF c.result = "succeeded" THEN CanComplete(c.ref) ELSE CanReject(c.ref))
        /\ UNCHANGED <<refund, claim, rec, pay, comm, ledger, balance>>
  /\ UNCHANGED <<ful, hold, userHold, lapsed, attemptVars, eventVars, spent,
                 ent, calls, crashes, disp, rprov, recent>>

(* The reconciler asks about pending refunds only; storing the answer and  *)
(* settling the refund is one fenced transaction.  Retry times and alert   *)
(* cases are not modelled.                                                 *)
ReconcileRefund(r) ==
  /\ refund[r] = "pending" /\ pay[RefundOrder[r]] = "refund_pending"
  /\ RefundRoom
  /\ \E ans \in QueryAnswers(r) :
       /\ ans[1] # "pending"
       /\ rcalls' = rcalls \cup {FencedCall(r, ans[1])}
  /\ UNCHANGED <<payVars, refund, claim, rec, disp, rprov, recent>>

SettleFenced(c) ==
  LET live == refund[c.ref] = "pending" /\ pay[RefundOrder[c.ref]] = "refund_pending"
  IN  /\ c \in rcalls /\ c.op = "fenced"
      /\ rcalls' = rcalls \ {c}
      /\ \/ live /\ c.result = "succeeded" /\ CanComplete(c.ref) /\ CompleteRefund(c.ref)
         \/ live /\ c.result = "failed" /\ CanReject(c.ref) /\ RejectRefund(c.ref)
         \/ /\ ~(live /\ IF c.result = "succeeded" THEN CanComplete(c.ref)
                                                   ELSE CanReject(c.ref))
            /\ UNCHANGED <<refund, claim, rec, pay, comm, ledger, balance>>
      /\ UNCHANGED <<ful, hold, userHold, lapsed, attemptVars, eventVars, spent,
                     ent, calls, crashes, disp, rprov, recent>>

-----------------------------------------------------------------------------
(* Disputes and chargebacks.                                               *)

SetHold(o, value) ==
  /\ hold' = [hold EXCEPT ![o] = value]
  /\ userHold' = [userHold EXCEPT ![UserOf[o]] = value]

(* As much of the reward as the user still has is set aside.               *)
ReserveAvailable(o) ==
  LET row == RecoveryRow(o)
      available == IF balance[UserOf[o]] > 0 THEN balance[UserOf[o]] ELSE 0
      part == IF row.orig < available THEN row.orig ELSE available
  IN  IF row.orig # 0 /\ row.reserved = 0 /\ row.recovered = 0 /\ part # 0
      THEN /\ LedgerFree(o, "reserve")
           /\ ApplyBalanceDelta(o, "reserve", -part)
           /\ rec' = [rec EXCEPT ![o] = [row EXCEPT !.reserved = part]]
      ELSE /\ rec' = [rec EXCEPT ![o] = row]
           /\ UNCHANGED <<ledger, balance>>

OpenClaim(d) ==
  LET o == DisputeOrder[d]
  IN  /\ claim[d] = "none"
      /\ HasPaidAttempt(o) /\ pay[o] \in Settled
      /\ EnsureRecovery(o)
      /\ ReserveAvailable(o)
      /\ claim' = [claim EXCEPT ![d] = "open"]
      /\ disp' = [disp EXCEPT ![o] = "open"]
      /\ SetHold(o, TRUE)
      /\ ent' = [ent EXCEPT ![o] = IF @ = "active" THEN "suspended" ELSE @]
      /\ UNCHANGED <<pay, ful, lapsed, attemptVars, eventVars, spent, comm,
                     calls, crashes, refund, rprov, recent, rcalls>>

(* running tells whether the suspended plan has not reached its end yet.   *)
WinClaim(d, running) ==
  LET o == DisputeOrder[d]
      release == rec[o].reserved # 0 /\ rec[o].recovered = 0
      final == balance[UserOf[o]] + (IF release THEN rec[o].reserved ELSE 0)
  IN  /\ claim[d] = "open"
      /\ claim' = [claim EXCEPT ![d] = "resolved"]
      /\ IF ~OtherOpen(d) /\ release
         THEN ReleaseReserve(o, rec[o])
         ELSE UNCHANGED <<rec, ledger, balance>>
      /\ IF ~OtherOpen(d) /\ final >= 0 /\ rec[o].recovered = 0
         THEN /\ disp' = [disp EXCEPT ![o] = "won"]
              /\ SetHold(o, FALSE)
              /\ ent' = [ent EXCEPT ![o] =
                           IF @ = "suspended" /\ running THEN "active" ELSE @]
         ELSE UNCHANGED <<disp, hold, userHold, ent>>
      /\ UNCHANGED <<pay, ful, lapsed, attemptVars, eventVars, spent, comm,
                     calls, crashes, refund, rprov, recent, rcalls>>

(* Fault: what an earlier loss or refund already took is taken again.      *)
RemainingTwice(o) == rec[o].orig - rec[o].reserved

Remaining(o) == rec[o].orig - rec[o].reserved - rec[o].recovered

LoseClaim(d) ==
  LET o == DisputeOrder[d]
      remaining == Remaining(o)
  IN  /\ claim[d] = "open"
      /\ remaining >= 0
      /\ IF remaining # 0
         THEN LedgerFree(o, "loss") /\ ApplyBalanceDelta(o, "loss", -remaining)
         ELSE UNCHANGED <<ledger, balance>>
      /\ rec' = [rec EXCEPT ![o].reserved = 0, ![o].recovered = rec[o].orig]
      /\ claim' = [claim EXCEPT ![d] = "consumed"]
      /\ disp' = [disp EXCEPT ![o] = "lost"]
      /\ SetHold(o, TRUE)
      /\ ent' = [ent EXCEPT ![o] = IF @ = "none" THEN @ ELSE "revoked"]
      /\ UNCHANGED <<pay, ful, lapsed, attemptVars, eventVars, spent, comm,
                     calls, crashes, refund, rprov, recent, rcalls>>

-----------------------------------------------------------------------------
(* The provider's side of a refund, the recency clock, a restart.          *)

RefundProviderStep(r) ==
  /\ \/ CreateCall(r) \in rcalls /\ rprov[r] = "none"
        /\ \E s \in {"pending", "succeeded", "failed"} :
             rprov' = [rprov EXCEPT ![r] = s]
     \/ rprov[r] = "pending"
        /\ \E s \in {"succeeded", "failed"} : rprov' = [rprov EXCEPT ![r] = s]
  /\ UNCHANGED <<payVars, refund, claim, rec, disp, recent, rcalls>>

RefundAges ==
  /\ \E r \in recent : recent' = recent \ {r}
  /\ UNCHANGED <<payVars, refund, claim, rec, disp, rprov, rcalls>>

Restart ==
  /\ Crash
  /\ rcalls' = {}
  /\ UNCHANGED <<refund, claim, rec, disp, rprov, recent>>

RecStep ==
  \/ \E r \in Refund :
       \/ BeginRefund(r) \/ AnswerCreate(r) \/ ReplayRefund(r)
       \/ AdminQueryRefund(r) \/ ReconcileRefund(r) \/ RefundProviderStep(r)
  \/ \E c \in rcalls : MarkRefundPending(c) \/ SettleRefund(c) \/ SettleFenced(c)
  \/ \E d \in Dispute :
       \/ OpenClaim(d) \/ LoseClaim(d)
       \/ \E running \in BOOLEAN : WinClaim(d, running)
  \/ RefundAges

RecNext ==
  \/ Step /\ UNCHANGED recVars
  \/ RecStep
  \/ Restart

RecSpec == RecInit /\ [][RecNext]_allVars

-----------------------------------------------------------------------------
(* Properties.                                                             *)

Clawback(o) == ledger[o]["reserve"] + ledger[o]["release"] + ledger[o]["loss"]

(* However refunds, disputes and chargebacks of an order interleave, what  *)
(* the recovery row says is set aside or taken is exactly what left the    *)
(* user's balance, it is never more than the reward, and the reward is     *)
(* taken at most once (SB-RC-8, SB-RC-9, SB-RC-10).                        *)
RecoveryBalanced ==
  \A o \in Order :
    /\ rec[o].reserved + rec[o].recovered = -Clawback(o)
    /\ rec[o].reserved + rec[o].recovered <= rec[o].orig
    /\ rec[o].orig \in {0, ledger[o]["fulfillment"]}

(* A refund, its claim and its order move together: the order is in        *)
(* refund_pending exactly while one refund of it is unsettled, and the     *)
(* claim is open, resolved or consumed as the refund is unsettled, failed  *)
(* or succeeded (SB-RC-8A, SB-RC-8B).                                      *)
RefundStatesAgree ==
  /\ \A o \in Order :
       pay[o] = "refund_pending" <=>
         \E r \in Refund : RefundOrder[r] = o /\ Unsettled(r)
  /\ \A r, q \in Refund :
       Unsettled(r) /\ Unsettled(q) /\ RefundOrder[r] = RefundOrder[q] => r = q
  /\ \A r \in Refund :
       claim[r] = CASE refund[r] = "none" -> "none"
                    [] refund[r] = "failed" -> "resolved"
                    [] refund[r] = "succeeded" -> "consumed"
                    [] OTHER -> "open"

(* Nobody keeps what was paid back: the credit of a refunded order has     *)
(* been taken from the buyer in full, no plan of it runs, and the sales    *)
(* commission is reversed (SB-RC-6, SB-RC-7, SC-3.4).                      *)
RefundedKeepsNothing ==
  \A o \in Order :
    pay[o] = "refunded" =>
      /\ Clawback(o) = -ledger[o]["fulfillment"]
      /\ ent[o] = "none"
      /\ comm[o] \in {"none", "reversed"}

(* An order with an open dispute is on hold and its plan does not run      *)
(* (SB-RC-13, SB-RC-13A).                                                  *)
DisputeHoldsOrder ==
  \A d \in Dispute :
    claim[d] = "open" => hold[DisputeOrder[d]] /\ ent[DisputeOrder[d]] # "active"

(* Money the provider paid back is never booked as a failed refund, whose  *)
(* reserve would go back to the buyer (SB-RC-8A, SB-RC-28).                *)
FailedMeansNotReturned ==
  \A r \in Refund : refund[r] = "failed" => rprov[r] # "succeeded"

(* A refund is booked as succeeded only when the provider paid it back.    *)
SucceededMeansReturned ==
  \A r \in Refund : refund[r] = "succeeded" => rprov[r] = "succeeded"
=============================================================================
