---------------------------- MODULE PaymentProofs ---------------------------
(***************************************************************************)
(* Payment orders and what takes their reward back, for any orders,        *)
(* attempts, events, refunds, disputes and bounds.  First of the payment   *)
(* model: type correctness, payment only on evidence, exactly-once         *)
(* crediting, the refinement of the order lifecycle, and one paid attempt  *)
(* and one EPay binding per order.                                         *)
(***************************************************************************)
EXTENDS Recovery, SumTheorems, TLAPS

(* The constructors of continuations build members of Call.                *)
LEMMA CallTypes ==
  ASSUME hold \in [Order -> BOOLEAN]
  PROVE
  /\ \A a \in Attempt : \A op \in {"checkout", "resume"} : CheckoutCall(op, a) \in Call
  /\ \A a \in Attempt : \A op \in {"close", "expire", "release"} : AnswerCall(op, a) \in Call
  /\ \A e \in Event, d \in Digest, a \in Attempt : CallbackCall(e, d, a) \in Call
  /\ QueryDigest \in Digest
  /\ \A e \in Event, a \in Attempt : \A op \in {"project", "reconcile"} :
       QueryCall(op, e, a) \in Call
  /\ \A o \in Order : FulfillCall(o) \in Call
<1>1. QueryDigest \in Digest
  BY PaymentConstants DEF QueryDigest
<1>2. \A a \in Attempt : hold[OrderOf[a]] \in BOOLEAN
  BY PaymentConstants
<1>3. \A e \in Event, a \in Attempt : \A op \in {"project", "reconcile"} :
        QueryCall(op, e, a) \in Call
  BY <1>1, <1>2 DEF Call, QueryCall
<1> QED
  BY <1>1, <1>3 DEF Call, CheckoutCall, AnswerCall, CallbackCall, FulfillCall

(* The projection of a verified event keeps the types, whoever asked for   *)
(* it: a callback, a query or the reconciler.                              *)
LEMMA ApplyTypes ==
  ASSUME TypeOK, NEW c \in calls,
         c.op \in {"callback", "project", "reconcile"}, ApplyVerifiedPayment(c)
  PROVE  TypeOK'
<1>1. c.ev \in Event /\ c.digest \in Digest /\ c.att \in Attempt
  BY DEF Call, TypeOK
<1>2. calls' \subseteq Call
  <2>1. OrderOf[c.att] \in Order
    BY <1>1, PaymentConstants
  <2>2. FulfillCall(OrderOf[c.att]) \in Call
    BY <2>1, CallTypes DEF TypeOK
  <2>3. calls' \subseteq calls \cup {FulfillCall(OrderOf[c.att])}
    BY DEF ApplyVerifiedPayment
  <2> QED
    BY <2>2, <2>3 DEF TypeOK
<1> USE PaymentConstants
    DEF TypeOK, AttemptStates, LedgerKinds, Lifecycle!PaymentStates,
        orderVars, attemptVars, eventVars, moneyVars
<1>3. CASE SeenBefore(c.ev, c.digest)
  BY <1>1, <1>2, <1>3 DEF SeenBefore, ApplyVerifiedPayment
<1>4. CASE ManualReview(c.ev, c.digest)
  <2>1. ev' \in [Event -> [st : {"none", "manual_review", "applied"}, digest : Digest]]
    BY <1>1, <1>4 DEF ManualReview
  <2> QED
    BY <1>2, <1>4, <2>1 DEF ManualReview, ApplyVerifiedPayment
<1>5. CASE ProjectPayment(c.ev, c.digest, c.att)
  <2>1. ev' \in [Event -> [st : {"none", "manual_review", "applied"}, digest : Digest]]
    BY <1>1, <1>5 DEF ProjectPayment
  <2>2. /\ att' \in [Attempt -> AttemptStates] /\ obj' \subseteq Attempt
        /\ pay' \in [Order -> Lifecycle!PaymentStates]
    BY <1>1, <1>5 DEF ProjectPayment, MarkPaid
  <2> QED
    BY <1>2, <1>5, <2>1, <2>2 DEF ProjectPayment, MarkPaid, ApplyVerifiedPayment
<1> QED
  BY <1>3, <1>4, <1>5 DEF ApplyVerifiedPayment

(* Every action keeps every row and continuation in its type.              *)
LEMMA TypeStep == TypeOK /\ [Next]_payVars => TypeOK'
<1> SUFFICES ASSUME TypeOK, [Next]_payVars PROVE TypeOK'
  OBVIOUS
<1> USE DEF TypeOK, orderVars, attemptVars, eventVars, moneyVars
<1>1. ASSUME NEW o \in Order, CreateOrder(o)
     PROVE  TypeOK'
  BY <1>1 DEF CreateOrder, Lifecycle!PaymentStates
<1>2. ASSUME NEW o \in Order, FulfillPaidOrder(o)
     PROVE  TypeOK'
  <2>1. CASE FulfillmentEligible(o) /\ Kind[o] = "balance"
    <3>1. ledger' \in [Order -> [LedgerKinds -> Int]] /\ balance' \in [User -> Int]
      <4>1. /\ ledger' = [ledger EXCEPT ![o] = [@ EXCEPT !["fulfillment"] = Reward[o]]]
            /\ balance' = [balance EXCEPT ![UserOf[o]] = @ + Reward[o]]
        BY <1>2, <2>1 DEF FulfillPaidOrder, GrantReward
      <4>2. Reward[o] \in Int /\ UserOf[o] \in User
        BY PaymentConstants
      <4>3. ledger' \in [Order -> [LedgerKinds -> Int]]
        BY <4>1, <4>2
      <4>4. balance' \in [User -> Int]
        BY <4>1, <4>2
      <4> QED
        BY <4>3, <4>4
    <3>2. comm' \in [Order -> {"none", "code", "claim", "reversed"}]
      BY <1>2, <2>1 DEF FulfillPaidOrder, GrantReward, AccrueSalesCommission
    <3> QED
      BY <1>2, <2>1, <3>1, <3>2 DEF FulfillPaidOrder, GrantReward
  <2>2. CASE FulfillmentEligible(o) /\ Kind[o] # "balance"
    BY <1>2, <2>2 DEF FulfillPaidOrder, GrantReward
  <2>3. CASE ~FulfillmentEligible(o)
    BY <1>2, <2>3 DEF FulfillPaidOrder
  <2> QED
    BY <2>1, <2>2, <2>3
<1>3. ASSUME NEW o \in Order, ReconcileFulfillment(o)
     PROVE  TypeOK'
  BY <1>3, CallTypes DEF ReconcileFulfillment
<1>4. ASSUME NEW o \in Order, ClaimCommission(o)
     PROVE  TypeOK'
  BY <1>4 DEF ClaimCommission
<1>5. ASSUME NEW a \in Attempt, CreateAttempt(a)
     PROVE  TypeOK'
  BY <1>5, CallTypes DEF CreateAttempt, AttemptStates
<1>6. ASSUME NEW a \in Attempt, ResumeCheckout(a)
     PROVE  TypeOK'
  BY <1>6, CallTypes DEF ResumeCheckout
<1>7. ASSUME NEW a \in Attempt, NEW op, PresentAttempt(op, a)
     PROVE  TypeOK'
  <2>1. CASE att' = [att EXCEPT ![a] = "presented"] /\ obj' = obj \cup {a}
    <3>1. att' \in [Attempt -> AttemptStates]
      BY <2>1 DEF AttemptStates
    <3> QED
      BY <1>7, <2>1, <3>1 DEF PresentAttempt
  <2>2. CASE UNCHANGED <<att, obj>>
    BY <1>7, <2>2 DEF PresentAttempt
  <2> QED
    BY <1>7, <2>1, <2>2 DEF PresentAttempt
<1>8. ASSUME NEW a \in Attempt, NEW op, LoseCheckout(op, a)
     PROVE  TypeOK'
  BY <1>8 DEF LoseCheckout
<1>9. ASSUME NEW a \in Attempt, NEW op, NEW f \in {"failed_configuration", "failed_rejected"},
            FailAttempt(op, a, f)
     PROVE  TypeOK'
  BY <1>9 DEF FailAttempt, AttemptStates
<1>10. ASSUME NEW a \in Attempt, NEW close, AdminQuery(a, close)
     PROVE  TypeOK'
  BY <1>10, CallTypes DEF AdminQuery, PaidAnswer
<1>11. ASSUME NEW a \in Attempt, BuyerQuery(a)
     PROVE  TypeOK'
  BY <1>11, CallTypes DEF BuyerQuery, PaidAnswer
<1>12. ASSUME NEW a \in Attempt, ReconcileQuery(a)
     PROVE  TypeOK'
  BY <1>12, CallTypes DEF ReconcileQuery, PaidAnswer
<1>13. ASSUME NEW a \in Attempt, CloseConfirmedUnpaid(a)
     PROVE  TypeOK'
  <2>1. att' \in [Attempt -> AttemptStates] /\ pay' \in [Order -> Lifecycle!PaymentStates]
    <3>1. CloseOrder(a) \/ UNCHANGED <<att, pay>>
      BY <1>13 DEF CloseConfirmedUnpaid
    <3>2. CASE CloseOrder(a)
      BY <3>2, PaymentConstants DEF CloseOrder, AttemptStates, Lifecycle!PaymentStates
    <3> QED
      BY <3>1, <3>2
  <2> QED
    BY <1>13, <2>1 DEF CloseConfirmedUnpaid
<1>14. ASSUME NEW a \in Attempt, ExpireAttempt(a)
     PROVE  TypeOK'
  <2>1. att' \in [Attempt -> AttemptStates] /\ pay' \in [Order -> Lifecycle!PaymentStates]
    <3>1. CloseOrder(a) \/ UNCHANGED <<att, pay>>
      BY <1>14 DEF ExpireAttempt
    <3>2. CASE CloseOrder(a)
      BY <3>2, PaymentConstants DEF CloseOrder, AttemptStates, Lifecycle!PaymentStates
    <3> QED
      BY <3>1, <3>2
  <2> QED
    BY <1>14, <2>1 DEF ExpireAttempt
<1>15. ASSUME NEW a \in Attempt, ReleaseUnpresentedAttempt(a)
     PROVE  TypeOK'
  BY <1>15 DEF ReleaseUnpresentedAttempt, AttemptStates
<1>16. ASSUME NEW a \in Attempt, ProviderStep(a)
     PROVE  TypeOK'
  <2>1. prov' \in [Attempt -> {"none", "open", "paid", "closed"}]
    <3>1. PICK st \in {"open", "paid", "closed"} : prov' = [prov EXCEPT ![a] = st]
      BY <1>16 DEF ProviderStep
    <3> QED
      BY <3>1
  <2> QED
    BY <1>16, <2>1 DEF ProviderStep
<1>17. ASSUME NEW e \in Event, NEW d \in Digest, ReceiveCallback(e, d)
     PROVE  TypeOK'
  <2>1. calls' \subseteq Call
    BY <1>17, CallTypes, PaymentConstants DEF ReceiveCallback, Candidates, AttemptsOf
  <2>2. /\ ev' \in [Event -> [st : {"none", "manual_review", "applied"}, digest : Digest]]
        /\ conflict' \subseteq Event
    BY <1>17 DEF ReceiveCallback, SeenBefore, ManualReview
  <2> QED
    BY <1>17, <2>1, <2>2 DEF ReceiveCallback, SeenBefore, ManualReview
<1>18. ASSUME NEW e \in Event, Reprocess(e)
     PROVE  TypeOK'
  <2>1. PICK a \in Attempt : MarkPaid(a)
    BY <1>18, PaymentConstants DEF Reprocess, Candidates, AttemptsOf
  <2>2. /\ att' \in [Attempt -> AttemptStates] /\ obj' \subseteq Attempt
        /\ pay' \in [Order -> Lifecycle!PaymentStates]
    <3>1. att' \in [Attempt -> AttemptStates]
      BY <2>1 DEF MarkPaid, AttemptStates
    <3>2. obj' \subseteq Attempt
      BY <2>1 DEF MarkPaid
    <3>3. pay' \in [Order -> Lifecycle!PaymentStates]
      BY <2>1 DEF MarkPaid, Lifecycle!PaymentStates
    <3> QED
      BY <3>1, <3>2, <3>3
  <2>3. ev' \in [Event -> [st : {"none", "manual_review", "applied"}, digest : Digest]]
    <3>1. ev' = [ev EXCEPT ![e] = [@ EXCEPT !.st = "applied"]]
      BY <1>18 DEF Reprocess
    <3>2. ev[e] \in [st : {"none", "manual_review", "applied"}, digest : Digest]
      OBVIOUS
    <3>3. [ev[e] EXCEPT !.st = "applied"]
            \in [st : {"none", "manual_review", "applied"}, digest : Digest]
      BY <3>2
    <3> QED
      BY <3>1, <3>3
  <2>4. calls' \subseteq Call
    <3>1. OrderOf[EventAttempt[e]] \in Order
      BY PaymentConstants
    <3> QED
      BY <1>18, <3>1, CallTypes DEF Reprocess
  <2> QED
    BY <1>18, <2>1, <2>2, <2>3, <2>4 DEF Reprocess, MarkPaid
<1>19. ASSUME NEW c \in calls, ApplyCallback(c)
     PROVE  TypeOK'
  BY <1>19, ApplyTypes DEF ApplyCallback
<1>20. ASSUME NEW c \in calls, ProjectQuery(c)
     PROVE  TypeOK'
  BY <1>20, ApplyTypes DEF ProjectQuery
<1>21. ASSUME ClockStep
     PROVE  TypeOK'
  BY <1>21 DEF ClockStep
<1>22. ASSUME NEW u \in User, Spend(u)
     PROVE  TypeOK'
  BY <1>22 DEF Spend
<1>23. ASSUME Crash
     PROVE  TypeOK'
  BY <1>23 DEF Crash
<1>24. ASSUME UNCHANGED payVars
     PROVE  TypeOK'
  BY <1>24 DEF payVars
<1> QED
  BY <1>1, <1>2, <1>3, <1>4, <1>5, <1>6, <1>7, <1>8, <1>9, <1>10, <1>11, <1>12, <1>13, <1>14, <1>15, <1>16, <1>17, <1>18, <1>19, <1>20, <1>21, <1>22, <1>23, <1>24 DEF Next, Step

(* The rows a database starts with, those of an older version included.    *)
LEMMA InitTypes == Init => TypeOK
<1> SUFFICES ASSUME Init PROVE TypeOK
  OBVIOUS
<1> USE DEF Init
<1>1. pay \in [Order -> Lifecycle!PaymentStates] /\ ful \in [Order -> {"pending", "fulfilled"}]
  BY DEF Lifecycle!Init, Lifecycle!PaymentStates
<1>2. /\ att \in [Attempt -> AttemptStates] /\ lapsed \subseteq Order
      /\ prov \in [Attempt -> {"none", "open", "paid", "closed"}]
      /\ obj \subseteq Attempt /\ overdue \subseteq Attempt
  BY PaymentConstants DEF AttemptStates
<1>3. ev \in [Event -> [st : {"none", "manual_review", "applied"}, digest : Digest]]
  BY CallTypes
<1> QED
  BY <1>1, <1>2, <1>3 DEF TypeOK

(* Type correctness of every reachable state.                              *)
THEOREM TypeCorrect == Spec => []TypeOK
BY InitTypes, TypeStep, PTL DEF Spec

-----------------------------------------------------------------------------
(* What a step can do to the states of an order, its events and its credit.*)

Reviewed == {"callback", "project", "reconcile"}

(* A verified event in flight is bound to an attempt of its own order.     *)
CallsMatch ==
  \A c \in calls : c.op \in Reviewed => OrderOf[c.att] = OrderOf[EventAttempt[c.ev]]

SameApplied == \A e \in Event : ev'[e].st = "applied" <=> ev[e].st = "applied"

Creates(o) ==
  /\ pay[o] = "none" /\ pay' = [pay EXCEPT ![o] = "unpaid"]
  /\ SameApplied /\ UNCHANGED <<ful, ledger>>

Pays(e, o) ==
  /\ OrderOf[EventAttempt[e]] = o /\ EventContract[e] /\ CanApply(o)
  /\ pay' = [pay EXCEPT ![o] = "paid"]
  /\ ev'[e].st = "applied"
  /\ \A f \in Event \ {e} : ev'[f] = ev[f]
  /\ UNCHANGED <<ful, ledger>>

Closes(o) ==
  /\ pay[o] = "unpaid" /\ pay' = [pay EXCEPT ![o] = "closed"]
  /\ SameApplied /\ UNCHANGED <<ful, ledger>>

Fulfills(o) ==
  /\ pay[o] = "paid" /\ ful[o] # "fulfilled"
  /\ ful' = [ful EXCEPT ![o] = "fulfilled"]
  /\ Kind[o] = "balance" => ledger[o]["fulfillment"] = 0
  /\ ledger' = IF Kind[o] = "balance"
               THEN [ledger EXCEPT ![o] = [@ EXCEPT !["fulfillment"] = Reward[o]]]
               ELSE ledger
  /\ SameApplied /\ UNCHANGED pay

Idles == SameApplied /\ UNCHANGED <<pay, ful, ledger>>

OrderStep ==
  \/ \E o \in Order : Creates(o) \/ Closes(o) \/ Fulfills(o)
  \/ \E e \in Event, o \in Order : Pays(e, o)
  \/ Idles

(* The projection of an event bound to its own order pays that order, or   *)
(* changes no order.                                                       *)
LEMMA ApplyOrderStep ==
  ASSUME TypeOK, CallsMatch, NEW c \in calls, c.op \in Reviewed,
         ApplyVerifiedPayment(c)
  PROVE  OrderStep
<1> USE DEF orderVars, attemptVars, moneyVars
<1>1. c.ev \in Event /\ c.digest \in Digest /\ c.att \in Attempt
  BY DEF TypeOK, Call, Reviewed
<1>2. UNCHANGED ledger
  BY DEF ApplyVerifiedPayment
<1>3. CASE SeenBefore(c.ev, c.digest)
  BY <1>2, <1>3 DEF SeenBefore, OrderStep, Idles, SameApplied
<1>4. CASE ManualReview(c.ev, c.digest)
  <2>1. SameApplied
    BY <1>1, <1>4 DEF ManualReview, SameApplied, TypeOK
  <2> QED
    BY <1>2, <1>4, <2>1 DEF ManualReview, OrderStep, Idles
<1>5. CASE ProjectPayment(c.ev, c.digest, c.att)
  <2> DEFINE o == OrderOf[c.att]
  <2>1. o \in Order /\ OrderOf[EventAttempt[c.ev]] = o
    BY <1>1, PaymentConstants DEF CallsMatch
  <2>2. EventContract[c.ev] /\ CanApply(o)
    BY <1>5 DEF ProjectPayment, Applicable
  <2>3. /\ ev'[c.ev].st = "applied"
        /\ \A f \in Event \ {c.ev} : ev'[f] = ev[f]
    BY <1>1, <1>5 DEF ProjectPayment, TypeOK
  <2>4. pay' = [pay EXCEPT ![o] = "paid"] /\ UNCHANGED ful
    BY <1>5 DEF ProjectPayment, MarkPaid
  <2>5. Pays(c.ev, o)
    BY <1>2, <2>1, <2>2, <2>3, <2>4 DEF Pays
  <2> QED
    BY <1>1, <2>1, <2>5 DEF OrderStep
<1> QED
  BY <1>3, <1>4, <1>5 DEF ApplyVerifiedPayment

(* Every step creates, pays, closes or fulfils one order, or leaves all    *)
(* orders, their credits and the set of applied events alone.              *)
LEMMA NextOrderStep == TypeOK /\ CallsMatch /\ [Next]_payVars => OrderStep
<1> SUFFICES ASSUME TypeOK, CallsMatch, [Next]_payVars PROVE OrderStep
  OBVIOUS
<1> USE DEF orderVars, attemptVars, eventVars, moneyVars
<1>1. ASSUME NEW o \in Order, CreateOrder(o)
      PROVE  OrderStep
  <2>1. Creates(o)
    BY <1>1 DEF CreateOrder, Creates, SameApplied
  <2> QED
    BY <2>1 DEF OrderStep
<1>2. ASSUME NEW o \in Order, FulfillPaidOrder(o)
      PROVE  OrderStep
  <2>1. CASE FulfillmentEligible(o)
    <3>1. SameApplied /\ UNCHANGED pay /\ ful' = [ful EXCEPT ![o] = "fulfilled"]
      BY <1>2, <2>1 DEF FulfillPaidOrder, SameApplied
    <3>2. /\ pay[o] = "paid" /\ ful[o] # "fulfilled"
          /\ Kind[o] = "balance" => ledger[o]["fulfillment"] = 0
      BY <2>1 DEF FulfillmentEligible
    <3>3. ledger' = IF Kind[o] = "balance"
                    THEN [ledger EXCEPT ![o] = [@ EXCEPT !["fulfillment"] = Reward[o]]]
                    ELSE ledger
      BY <1>2, <2>1 DEF FulfillPaidOrder, GrantReward
    <3>4. Fulfills(o)
      BY <3>1, <3>2, <3>3 DEF Fulfills
    <3> QED
      BY <3>4 DEF OrderStep
  <2>2. CASE ~FulfillmentEligible(o)
    BY <1>2, <2>2 DEF FulfillPaidOrder, OrderStep, Idles, SameApplied
  <2> QED
    BY <2>1, <2>2
<1>3. ASSUME NEW a \in Attempt, CloseConfirmedUnpaid(a)
      PROVE  OrderStep
  <2>1. OrderOf[a] \in Order
    BY PaymentConstants
  <2>2. Closes(OrderOf[a]) \/ Idles
    BY <1>3 DEF CloseConfirmedUnpaid, MayClose, CloseOrder, Closes, Idles, SameApplied
  <2> QED
    BY <2>1, <2>2 DEF OrderStep
<1>4. ASSUME NEW a \in Attempt, ExpireAttempt(a)
      PROVE  OrderStep
  <2>1. OrderOf[a] \in Order
    BY PaymentConstants
  <2>2. Closes(OrderOf[a]) \/ Idles
    BY <1>4 DEF ExpireAttempt, CloseOrder, Closes, Idles, SameApplied
  <2> QED
    BY <2>1, <2>2 DEF OrderStep
<1>5. ASSUME NEW e \in Event, NEW d \in Digest, ReceiveCallback(e, d)
      PROVE  OrderStep
  <2>1. UNCHANGED <<pay, ful, ledger>>
    BY <1>5 DEF ReceiveCallback, SeenBefore, ManualReview
  <2>2. SameApplied
    <3>1. \/ UNCHANGED ev
          \/ ev[e].st = "none" /\ ev' = [ev EXCEPT ![e] = [st |-> "manual_review", digest |-> d]]
      BY <1>5 DEF ReceiveCallback, SeenBefore, ManualReview
    <3> QED
      BY <3>1 DEF SameApplied, TypeOK
  <2> QED
    BY <2>1, <2>2 DEF OrderStep, Idles
<1>6. ASSUME NEW e \in Event, Reprocess(e)
      PROVE  OrderStep
  <2>1. PICK a \in Attempt : /\ OrderOf[a] = OrderOf[EventAttempt[e]]
                             /\ Applicable(e, a) /\ MarkPaid(a)
    BY <1>6, PaymentConstants DEF Reprocess, Candidates, AttemptsOf
  <2>2. OrderOf[a] \in Order
    BY PaymentConstants
  <2>3. ev'[e].st = "applied" /\ \A f \in Event \ {e} : ev'[f] = ev[f]
    BY <1>6 DEF Reprocess, TypeOK
  <2>4. Pays(e, OrderOf[a])
    BY <1>6, <2>1, <2>3 DEF Reprocess, Pays, MarkPaid, Applicable
  <2> QED
    BY <2>2, <2>4 DEF OrderStep
<1>7. ASSUME NEW c \in calls, ApplyCallback(c)
      PROVE  OrderStep
  BY <1>7, ApplyOrderStep DEF ApplyCallback, Reviewed
<1>8. ASSUME NEW c \in calls, ProjectQuery(c)
      PROVE  OrderStep
  BY <1>8, ApplyOrderStep DEF ProjectQuery, Reviewed
<1>9. ASSUME UNCHANGED <<pay, ful, ledger, ev>>
      PROVE  OrderStep
  BY <1>9 DEF OrderStep, Idles, SameApplied
<1>10. ASSUME NEW a \in Attempt,
              \/ CreateAttempt(a) \/ ResumeCheckout(a) \/ BuyerQuery(a)
              \/ ReconcileQuery(a) \/ ReleaseUnpresentedAttempt(a) \/ ProviderStep(a)
              \/ \E close \in BOOLEAN : AdminQuery(a, close)
       PROVE  UNCHANGED <<pay, ful, ledger, ev>>
  BY <1>10 DEF CreateAttempt, ResumeCheckout, BuyerQuery, ReconcileQuery,
               ReleaseUnpresentedAttempt, ProviderStep, AdminQuery
<1>11. ASSUME NEW a \in Attempt, NEW op,
              \/ PresentAttempt(op, a) \/ LoseCheckout(op, a)
              \/ \E f \in {"failed_configuration", "failed_rejected"} : FailAttempt(op, a, f)
       PROVE  UNCHANGED <<pay, ful, ledger, ev>>
  BY <1>11 DEF PresentAttempt, LoseCheckout, FailAttempt
<1>12. ASSUME \/ \E o \in Order : ReconcileFulfillment(o) \/ ClaimCommission(o)
              \/ ClockStep \/ Crash \/ \E u \in User : Spend(u)
              \/ UNCHANGED payVars
       PROVE  UNCHANGED <<pay, ful, ledger, ev>>
  BY <1>12 DEF ReconcileFulfillment, ClaimCommission, ClockStep, Crash, Spend, payVars
<1> QED
  BY <1>1, <1>2, <1>3, <1>4, <1>5, <1>6, <1>7, <1>8, <1>9, <1>10, <1>11, <1>12
  DEF Next, Step

(* Whatever is put in flight is bound to an attempt of the event's order:  *)
(* a Stripe event names the attempt, an EPay one only candidates of its    *)
(* order, a query answer is about the attempt that was asked for.          *)
LEMMA CallsMatchStep == TypeOK /\ CallsMatch /\ [Next]_payVars => CallsMatch'
<1> SUFFICES ASSUME TypeOK, CallsMatch, [Next]_payVars PROVE CallsMatch'
  OBVIOUS
<1> DEFINE Bound(c) == c.op \in Reviewed => OrderOf[c.att] = OrderOf[EventAttempt[c.ev]]
<1>1. ASSUME NEW c, calls' \subseteq calls \cup {c}, Bound(c)
      PROVE  CallsMatch'
  BY <1>1 DEF CallsMatch
<1>2. ASSUME calls' \subseteq calls
      PROVE  CallsMatch'
  BY <1>2 DEF CallsMatch
<1>3. \A o \in Order : Bound(FulfillCall(o))
  BY DEF FulfillCall, Reviewed
<1>4. \A a \in Attempt : /\ \A op \in {"checkout", "resume"} : Bound(CheckoutCall(op, a))
                         /\ \A op \in {"close", "expire", "release"} : Bound(AnswerCall(op, a))
  BY DEF CheckoutCall, AnswerCall, Reviewed
<1>5. \A e \in Event, a \in Attempt, op \in {"project", "reconcile"} :
        EventAttempt[e] = a => Bound(QueryCall(op, e, a))
  BY DEF QueryCall
<1>6. \A e \in Event, d \in Digest, a \in Attempt :
        OrderOf[EventAttempt[e]] = OrderOf[a] => Bound(CallbackCall(e, d, a))
  BY DEF CallbackCall
<1>7. ASSUME NEW o \in Order, FulfillPaidOrder(o) \/ ReconcileFulfillment(o)
      PROVE  CallsMatch'
  <2>1. calls' \subseteq calls \cup {FulfillCall(o)}
    BY <1>7 DEF FulfillPaidOrder, ReconcileFulfillment
  <2> QED
    BY <1>1, <1>3, <2>1
<1>8. ASSUME NEW a \in Attempt, CreateAttempt(a) \/ ResumeCheckout(a)
      PROVE  CallsMatch'
  <2>1. PICK op \in {"checkout", "resume"} : calls' \subseteq calls \cup {CheckoutCall(op, a)}
    BY <1>8 DEF CreateAttempt, ResumeCheckout
  <2> QED
    BY <1>1, <1>4, <2>1
<1>9. ASSUME NEW a \in Attempt,
             \/ BuyerQuery(a) \/ ReconcileQuery(a)
             \/ \E close \in BOOLEAN : AdminQuery(a, close)
      PROVE  CallsMatch'
  <2>1. \/ \E op \in {"project", "reconcile"} : PaidAnswer(op, a)
        \/ \E op \in {"close", "expire", "release"} : calls' = calls \cup {AnswerCall(op, a)}
    BY <1>9 DEF BuyerQuery, ReconcileQuery, AdminQuery
  <2>2. CASE \E op \in {"project", "reconcile"} : PaidAnswer(op, a)
    <3>1. PICK op \in {"project", "reconcile"}, e \in Event :
            EventAttempt[e] = a /\ calls' = calls \cup {QueryCall(op, e, a)}
      BY <2>2 DEF PaidAnswer
    <3> QED
      BY <1>1, <1>5, <3>1
  <2>3. CASE \E op \in {"close", "expire", "release"} : calls' = calls \cup {AnswerCall(op, a)}
    BY <1>1, <1>4, <2>3
  <2> QED
    BY <2>1, <2>2, <2>3
<1>10. ASSUME NEW e \in Event, NEW d \in Digest, ReceiveCallback(e, d)
       PROVE  CallsMatch'
  <2>1. \/ UNCHANGED calls
        \/ \E a \in Attempt : /\ OrderOf[a] = OrderOf[EventAttempt[e]]
                              /\ calls' = calls \cup {CallbackCall(e, d, a)}
    BY <1>10, PaymentConstants DEF ReceiveCallback, Candidates, AttemptsOf
  <2> QED
    BY <1>1, <1>2, <1>6, <2>1
<1>11. ASSUME NEW e \in Event, Reprocess(e)
       PROVE  CallsMatch'
  <2>1. OrderOf[EventAttempt[e]] \in Order
    BY PaymentConstants
  <2>2. calls' \subseteq calls \cup {FulfillCall(OrderOf[EventAttempt[e]])}
    BY <1>11 DEF Reprocess
  <2> QED
    BY <1>1, <1>3, <2>1, <2>2
<1>12. ASSUME NEW c \in calls, ApplyCallback(c) \/ ProjectQuery(c)
       PROVE  CallsMatch'
  <2>1. OrderOf[c.att] \in Order
    BY <1>12, PaymentConstants DEF ApplyCallback, ProjectQuery, TypeOK, Call
  <2>2. calls' \subseteq calls \cup {FulfillCall(OrderOf[c.att])}
    BY <1>12 DEF ApplyCallback, ProjectQuery, ApplyVerifiedPayment
  <2> QED
    BY <1>1, <1>3, <2>1, <2>2
<1>13. ASSUME NEW a \in Attempt,
              \/ CloseConfirmedUnpaid(a) \/ ExpireAttempt(a)
              \/ ReleaseUnpresentedAttempt(a) \/ ProviderStep(a)
       PROVE  calls' \subseteq calls
  BY <1>13 DEF CloseConfirmedUnpaid, ExpireAttempt, ReleaseUnpresentedAttempt, ProviderStep
<1>14. ASSUME NEW a \in Attempt, NEW op,
              \/ PresentAttempt(op, a) \/ LoseCheckout(op, a)
              \/ \E f \in {"failed_configuration", "failed_rejected"} : FailAttempt(op, a, f)
       PROVE  calls' \subseteq calls
  BY <1>14 DEF PresentAttempt, LoseCheckout, FailAttempt
<1>15. ASSUME \/ \E o \in Order : CreateOrder(o) \/ ClaimCommission(o)
              \/ ClockStep \/ Crash \/ \E u \in User : Spend(u)
              \/ UNCHANGED payVars
       PROVE  calls' \subseteq calls
  BY <1>15 DEF CreateOrder, ClaimCommission, ClockStep, Crash, Spend, payVars
<1> QED
  BY <1>2, <1>7, <1>8, <1>9, <1>10, <1>11, <1>12, <1>13, <1>14, <1>15 DEF Next, Step

(* The facts above hold of every reachable state and step.                 *)
LEMMA StepsAreOrderSteps == Spec => []CallsMatch /\ [][OrderStep]_payVars
<1>1. Init => CallsMatch
  BY DEF Init, CallsMatch
<1> QED
  BY <1>1, TypeCorrect, CallsMatchStep, NextOrderStep, PTL DEF Spec

-----------------------------------------------------------------------------
(* Only Pays makes an order settled or an event applied, and both at once. *)
LEMMA EvidenceKept == TypeOK /\ PaidIffEvidence /\ [OrderStep]_payVars => PaidIffEvidence'
<1> SUFFICES ASSUME TypeOK, PaidIffEvidence, [OrderStep]_payVars PROVE PaidIffEvidence'
  OBVIOUS
<1>1. ASSUME SameApplied, NEW o \in Order,
             pay' = pay \/ (/\ pay[o] \notin Settled
                           /\ \E s \in {"unpaid", "closed"} : pay' = [pay EXCEPT ![o] = s])
      PROVE  PaidIffEvidence'
  BY <1>1 DEF SameApplied, PaidIffEvidence, Settled, TypeOK
<1>2. ASSUME SameApplied, UNCHANGED pay
      PROVE  PaidIffEvidence'
  BY <1>2 DEF SameApplied, PaidIffEvidence
<1>3. ASSUME NEW e \in Event, NEW o \in Order, Pays(e, o)
      PROVE  PaidIffEvidence'
  <2> SUFFICES ASSUME NEW p \in Order
               PROVE  pay'[p] \in Settled <=>
                        \E f \in Event : /\ ev'[f].st = "applied" /\ EventContract[f]
                                         /\ OrderOf[EventAttempt[f]] = p
    BY DEF PaidIffEvidence
  <2>1. CASE p = o
    BY <1>3, <2>1 DEF Pays, Settled, TypeOK
  <2>2. CASE p # o
    <3>1. pay'[p] = pay[p]
      BY <1>3, <2>2 DEF Pays, TypeOK
    <3>2. \A f \in Event : OrderOf[EventAttempt[f]] = p => ev'[f] = ev[f]
      BY <1>3, <2>2 DEF Pays
    <3> QED
      BY <3>1, <3>2 DEF PaidIffEvidence
  <2> QED
    BY <2>1, <2>2
<1>4. ASSUME NEW o \in Order, Creates(o) \/ Closes(o) \/ Fulfills(o)
      PROVE  PaidIffEvidence'
  BY <1>1, <1>2, <1>4 DEF Creates, Closes, Fulfills, Settled
<1>5. ASSUME UNCHANGED payVars
      PROVE  PaidIffEvidence'
  BY <1>5, <1>2 DEF payVars, orderVars, eventVars, SameApplied
<1> QED
  BY <1>2, <1>3, <1>4, <1>5 DEF OrderStep, Idles

(* An order is settled exactly when verified evidence that agrees with it  *)
(* has been applied, whatever the interleaving of callbacks, queries,      *)
(* closes, expiries and restarts: the inductive step is that only Pays     *)
(* makes an order settled or an event applied, and both at once.           *)
THEOREM PaidNeedsEvidence == Spec => []PaidIffEvidence
<1>1. Init => PaidIffEvidence
  BY DEF Init, Lifecycle!Init, PaidIffEvidence, Settled
<1> QED
  BY <1>1, EvidenceKept, TypeCorrect, StepsAreOrderSteps, PTL DEF Spec

(* Only Fulfills books a credit, together with the mark of the order row.  *)
LEMMA CreditKept == TypeOK /\ CreditedExactlyOnce /\ [OrderStep]_payVars => CreditedExactlyOnce'
<1> SUFFICES ASSUME TypeOK, CreditedExactlyOnce, [OrderStep]_payVars
             PROVE  CreditedExactlyOnce'
  OBVIOUS
<1>1. CASE UNCHANGED <<ful, ledger>>
  BY <1>1 DEF CreditedExactlyOnce
<1>2. ASSUME NEW o \in Order, Fulfills(o)
      PROVE  CreditedExactlyOnce'
  <2> SUFFICES ASSUME NEW p \in Order
               PROVE  ledger'[p]["fulfillment"] =
                        IF ful'[p] = "fulfilled" /\ Kind[p] = "balance" THEN Reward[p] ELSE 0
    BY DEF CreditedExactlyOnce
  <2>1. CASE p = o /\ Kind[o] = "balance"
    BY <1>2, <2>1 DEF Fulfills, TypeOK, LedgerKinds
  <2>2. CASE p = o /\ Kind[o] # "balance"
    BY <1>2, <2>2 DEF Fulfills, TypeOK, CreditedExactlyOnce
  <2>3. CASE p # o
    BY <1>2, <2>3 DEF Fulfills, TypeOK, CreditedExactlyOnce
  <2> QED
    BY <2>1, <2>2, <2>3
<1> QED
  BY <1>1, <1>2 DEF OrderStep, Idles, Creates, Closes, Pays,
                    payVars, orderVars, moneyVars

(* A fulfilment credit is booked once, in full, and only together with the *)
(* fulfilled mark of the order row.                                        *)
THEOREM CreditOnce == Spec => []CreditedExactlyOnce
<1>1. Init => CreditedExactlyOnce
  BY DEF Init, Lifecycle!Init, CreditedExactlyOnce, LedgerKinds
<1> QED
  BY <1>1, CreditKept, TypeCorrect, StepsAreOrderSteps, PTL DEF Spec

(* Each kind of step is a transition of state_machine.rs.                  *)
LEMMA LifecycleKept == TypeOK /\ [OrderStep]_payVars => [Lifecycle!Next]_<<pay, ful>>
<1> SUFFICES ASSUME TypeOK, [OrderStep]_payVars PROVE [Lifecycle!Next]_<<pay, ful>>
  OBVIOUS
<1>1. ASSUME NEW o \in Order, Creates(o)
      PROVE  Lifecycle!Next
  BY <1>1 DEF Creates, Lifecycle!Next, Lifecycle!Create
<1>2. ASSUME NEW o \in Order, Closes(o)
      PROVE  Lifecycle!Next
  <2>1. Lifecycle!TransitionPayment(pay[o], o, "confirmed_unpaid") = {"closed"}
    BY <1>2 DEF Closes, Lifecycle!TransitionPayment
  <2>2. Lifecycle!PaymentStep(o, "confirmed_unpaid")
    BY <1>2, <2>1 DEF Closes, Lifecycle!PaymentStep
  <2> QED
    BY <2>2 DEF Lifecycle!Next, Lifecycle!PaymentEvents
<1>3. ASSUME NEW o \in Order, Fulfills(o)
      PROVE  Lifecycle!Next
  <2>1. Lifecycle!TransitionFulfillment(ful[o], "succeeded") = {"fulfilled"}
    BY DEF Lifecycle!TransitionFulfillment
  <2>2. Lifecycle!FulfillmentStep(o, "succeeded")
    BY <1>3, <2>1 DEF Fulfills, Lifecycle!FulfillmentStep
  <2> QED
    BY <2>2 DEF Lifecycle!Next
<1>4. ASSUME NEW e \in Event, NEW o \in Order, Pays(e, o)
      PROVE  Lifecycle!Next
  <2>1. "paid" \in Lifecycle!TransitionPayment(pay[o], o, "verified_payment")
    BY <1>4 DEF Pays, CanApply, Lifecycle!TransitionPayment
  <2>2. Lifecycle!PaymentStep(o, "verified_payment")
    BY <1>4, <2>1 DEF Pays, CanApply, Lifecycle!PaymentStep
  <2> QED
    BY <2>2 DEF Lifecycle!Next, Lifecycle!PaymentEvents
<1> QED
  BY <1>1, <1>2, <1>3, <1>4 DEF OrderStep, Idles, payVars, orderVars

(* The conditional updates of order.rs, callbacks.rs and reconciliation.rs *)
(* implement the transition functions of state_machine.rs.                 *)
THEOREM OrdersFollowLifecycle == Spec => LifecycleRefined
<1>1. Init => Lifecycle!Init
  BY DEF Init
<1> QED
  BY <1>1, LifecycleKept, TypeCorrect, StepsAreOrderSteps, PTL DEF Spec, LifecycleRefined, Lifecycle!Spec

-----------------------------------------------------------------------------
(* An attempt that evidence could still be bound to, or that is about to   *)
(* become one.                                                             *)
Live(a) ==
  \/ a \in obj
  \/ att[a] \in {"created", "presented"}
  \/ Adapter[OrderOf[a]] = "epay" /\ att[a] = "failed_rejected"

(* A stored provider object means that the attempt was presented; when it  *)
(* is no longer, the order has left unpaid.                                *)
ObjectPresented ==
  /\ \A a \in obj : att[a] \in {"presented", "paid", "expired"}
  /\ \A a \in obj : att[a] \in {"paid", "expired"} => pay[OrderOf[a]] \notin {"none", "unpaid"}
  /\ \A a \in Attempt : att[a] \in {"presented", "paid"} => a \in obj

(* What the rivals of an attempt come to.                                  *)
OneLive ==
  \A a, b \in Attempt :
    /\ OrderOf[a] = OrderOf[b] /\ OrderOf[a] \notin LegacyClosed
    /\ Live(a) /\ Live(b)
    => a = b

(* Orders that an older version closed, and their attempts, stay as they   *)
(* are.                                                                    *)
LegacyFrozen ==
  /\ \A o \in LegacyClosed : pay[o] = "closed"
  /\ \A a \in Attempt : OrderOf[a] \in LegacyClosed => att[a] = "expired"

AttInv == ObjectPresented /\ OneLive /\ LegacyFrozen

(* A step that changes at most the row of attempt a, from a live one or to *)
(* one without rival, keeps OneLive.                                       *)
LEMMA OneLiveKept ==
  ASSUME OneLive, NEW a \in Attempt,
         \A b \in Attempt \ {a} : Live(b)' => Live(b),
         \/ Live(a)' => Live(a)
         \/ \A b \in Attempt \ {a} : OrderOf[b] = OrderOf[a] => ~Live(b)
  PROVE  OneLive'
BY DEF OneLive

(* The attempts other than a keep what the invariant says of them when     *)
(* only the order of a moves on.                                           *)
Touches(a) ==
  /\ \A b \in Attempt \ {a} : att'[b] = att[b] /\ (b \in obj' <=> b \in obj)
  /\ \A o \in Order : \/ pay'[o] = pay[o]
                      \/ o \notin LegacyClosed /\ pay'[o] \notin {"none", "unpaid"}

(* A step on attempt a keeps the invariant if it does for the row of a.    *)
LEMMA RowStep ==
  ASSUME TypeOK, AttInv, NEW a \in Attempt, Touches(a), OrderOf[a] \notin LegacyClosed,
         obj' \subseteq Attempt,
         a \in obj' => att'[a] \in {"presented", "paid", "expired"},
         a \in obj' /\ att'[a] \in {"paid", "expired"} => pay'[OrderOf[a]] \notin {"none", "unpaid"},
         att'[a] \in {"presented", "paid"} => a \in obj',
         \/ Live(a)' => Live(a)
         \/ \A b \in Attempt \ {a} : OrderOf[b] = OrderOf[a] => ~Live(b)
  PROVE  AttInv'
<1> USE PaymentConstants
<1>1. \A b \in Attempt \ {a} : Live(b)' => Live(b)
  BY DEF Live, Touches
<1>2. OneLive'
  BY <1>1, OneLiveKept DEF AttInv
<1>3. ObjectPresented'
  <2>1. ASSUME NEW b \in obj' PROVE att'[b] \in {"presented", "paid", "expired"}
    BY <2>1 DEF AttInv, ObjectPresented, Touches
  <2>2. ASSUME NEW b \in obj', att'[b] \in {"paid", "expired"}
        PROVE  pay'[OrderOf[b]] \notin {"none", "unpaid"}
    <3>1. CASE b = a
      BY <2>2, <3>1
    <3>2. CASE b # a
      <4>1. b \in Attempt /\ b \in obj /\ att[b] \in {"paid", "expired"} /\ OrderOf[b] \in Order
        BY <2>2, <3>2 DEF Touches
      <4>2. pay[OrderOf[b]] \notin {"none", "unpaid"}
        BY <4>1 DEF AttInv, ObjectPresented
      <4> QED
        BY <4>1, <4>2 DEF Touches
    <3> QED
      BY <3>1, <3>2
  <2>3. ASSUME NEW b \in Attempt, att'[b] \in {"presented", "paid"} PROVE b \in obj'
    <3>1. CASE b = a
      BY <2>3, <3>1
    <3>2. CASE b # a
      BY <2>3, <3>2 DEF AttInv, ObjectPresented, Touches
    <3> QED
      BY <3>1, <3>2
  <2> QED
    BY <2>1, <2>2, <2>3 DEF ObjectPresented
<1>4. LegacyFrozen'
  BY DEF AttInv, LegacyFrozen, Touches
<1> QED
  BY <1>2, <1>3, <1>4 DEF AttInv

(* The rows of attempts and orders are as before.                          *)
LEMMA SameRows ==
  ASSUME AttInv, UNCHANGED <<att, obj, pay>> PROVE AttInv'
BY DEF AttInv, ObjectPresented, OneLive, Live, LegacyFrozen

(* Evidence bound to an attempt that matches it makes that one paid.       *)
LEMMA PaidRow ==
  ASSUME TypeOK, AttInv, NEW a \in Attempt, ObjectMatches(a), CanApply(OrderOf[a]), MarkPaid(a)
  PROVE  AttInv'
<1> USE PaymentConstants
<1>1. OrderOf[a] \in Order /\ OrderOf[a] \notin LegacyClosed
  BY DEF CanApply, AttInv, LegacyFrozen
<1>2. Live(a)
  BY DEF ObjectMatches, Unanswered, Live
<1>3. /\ att'[a] = "paid" /\ a \in obj' /\ obj' \subseteq Attempt
      /\ pay'[OrderOf[a]] = "paid"
  BY <1>1 DEF MarkPaid, TypeOK
<1>4. Touches(a)
  BY <1>1 DEF MarkPaid, Touches, TypeOK
<1> QED
  BY <1>1, <1>2, <1>3, <1>4, RowStep

(* Closing: the attempt expires and its order leaves unpaid.               *)
LEMMA ClosedRow ==
  ASSUME TypeOK, AttInv, NEW a \in Attempt, CloseOrder(a), UNCHANGED obj,
         pay[OrderOf[a]] = "unpaid"
  PROVE  AttInv'
<1> USE PaymentConstants
<1>1. OrderOf[a] \in Order /\ OrderOf[a] \notin LegacyClosed
  BY DEF AttInv, LegacyFrozen
<1>2. att'[a] = "expired" /\ pay'[OrderOf[a]] = "closed" /\ obj' \subseteq Attempt
  BY <1>1 DEF CloseOrder, TypeOK
<1>3. Touches(a)
  BY <1>1 DEF CloseOrder, Touches, TypeOK
<1>4. Live(a)' => Live(a)
  BY <1>2 DEF Live
<1> QED
  BY <1>1, <1>2, <1>3, <1>4, RowStep

(* The projection of a verified event pays its attempt or changes nothing. *)
LEMMA ProjectedRow ==
  ASSUME TypeOK, AttInv, NEW c \in calls, c.op \in Reviewed, ApplyVerifiedPayment(c)
  PROVE  AttInv'
<1>1. c.att \in Attempt
  BY DEF TypeOK, Call, Reviewed
<1>2. CASE SeenBefore(c.ev, c.digest)
  BY <1>2, SameRows DEF SeenBefore, orderVars, attemptVars
<1>3. CASE ManualReview(c.ev, c.digest)
  BY <1>3, SameRows DEF ManualReview, orderVars, attemptVars
<1>4. CASE ProjectPayment(c.ev, c.digest, c.att)
  BY <1>1, <1>4, PaidRow DEF ProjectPayment, Applicable
<1> QED
  BY <1>2, <1>3, <1>4 DEF ApplyVerifiedPayment

(* Every step keeps the invariant.                                         *)
LEMMA AttStep == TypeOK /\ AttInv /\ [Next]_payVars => AttInv'
<1> SUFFICES ASSUME TypeOK, AttInv, [Next]_payVars PROVE AttInv'
  OBVIOUS
<1> USE PaymentConstants DEF orderVars, attemptVars, eventVars, moneyVars
<1>1. ASSUME NEW o \in Order, CreateOrder(o) PROVE AttInv'
  <2>1. pay[o] = "none" /\ UNCHANGED <<att, obj>> /\ pay' = [pay EXCEPT ![o] = "unpaid"]
    BY <1>1 DEF CreateOrder
  <2>2. o \notin LegacyClosed
    BY <2>1 DEF AttInv, LegacyFrozen
  <2>3. ObjectPresented'
    BY <2>1 DEF AttInv, ObjectPresented, TypeOK
  <2>4. OneLive'
    BY <2>1 DEF AttInv, OneLive, Live
  <2>5. LegacyFrozen'
    BY <2>1, <2>2 DEF AttInv, LegacyFrozen, TypeOK
  <2> QED
    BY <2>3, <2>4, <2>5 DEF AttInv
<1>2. ASSUME NEW a \in Attempt, CreateAttempt(a) PROVE AttInv'
  <2>1. /\ att[a] = "none" /\ pay[OrderOf[a]] = "unpaid" /\ NoRival(OrderOf[a])
        /\ att' = [att EXCEPT ![a] = "created"] /\ UNCHANGED <<obj, pay>>
    BY <1>2 DEF CreateAttempt
  <2>2. OrderOf[a] \in Order /\ OrderOf[a] \notin LegacyClosed
    BY <2>1 DEF AttInv, LegacyFrozen
  <2>3. att'[a] = "created" /\ a \notin obj /\ obj' \subseteq Attempt
    BY <2>1 DEF AttInv, ObjectPresented, TypeOK
  <2>4. ASSUME NEW b \in Attempt \ {a}, OrderOf[b] = OrderOf[a] PROVE ~Live(b)
    <3>1. /\ att[b] \notin {"created", "presented"}
          /\ Adapter[OrderOf[a]] = "epay" => att[b] # "failed_rejected"
      BY <2>1, <2>4 DEF NoRival, AttemptsOf
    <3>2. b \notin obj
      BY <2>1, <2>4, <3>1 DEF AttInv, ObjectPresented
    <3> QED
      BY <2>4, <3>1, <3>2 DEF Live
  <2>5. Touches(a)
    BY <2>1 DEF Touches, TypeOK
  <2> QED
    BY <2>1, <2>2, <2>3, <2>4, <2>5, RowStep
<1>3. ASSUME NEW a \in Attempt, NEW op, PresentAttempt(op, a) PROVE AttInv'
  <2>1. CASE att[a] = "created" /\ pay[OrderOf[a]] = "unpaid"
    <3>1. att' = [att EXCEPT ![a] = "presented"] /\ obj' = obj \cup {a} /\ UNCHANGED pay
      BY <1>3, <2>1 DEF PresentAttempt
    <3>2. OrderOf[a] \notin LegacyClosed
      BY <2>1 DEF AttInv, LegacyFrozen
    <3>3. att'[a] = "presented" /\ a \in obj' /\ obj' \subseteq Attempt /\ Live(a)
      BY <2>1, <3>1 DEF Live, TypeOK
    <3>4. Touches(a)
      BY <3>1 DEF Touches, TypeOK
    <3> QED
      BY <3>2, <3>3, <3>4, RowStep
  <2>2. CASE ~(att[a] = "created" /\ pay[OrderOf[a]] = "unpaid")
    BY <1>3, <2>2, SameRows DEF PresentAttempt
  <2> QED
    BY <2>1, <2>2
<1>4. ASSUME NEW a \in Attempt, NEW op, NEW f \in {"failed_configuration", "failed_rejected"},
             FailAttempt(op, a, f)
      PROVE  AttInv'
  <2>1. CASE att[a] = "created"
    <3>1. att' = [att EXCEPT ![a] = f] /\ UNCHANGED <<obj, pay>>
      BY <1>4, <2>1 DEF FailAttempt
    <3>2. OrderOf[a] \notin LegacyClosed /\ a \notin obj /\ Live(a)
      BY <2>1 DEF AttInv, LegacyFrozen, ObjectPresented, Live
    <3>3. att'[a] = f /\ a \notin obj' /\ obj' \subseteq Attempt
      BY <3>1, <3>2 DEF TypeOK
    <3>4. Touches(a)
      BY <3>1 DEF Touches, TypeOK
    <3> QED
      BY <3>2, <3>3, <3>4, RowStep
  <2>2. CASE att[a] # "created"
    BY <1>4, <2>2, SameRows DEF FailAttempt
  <2> QED
    BY <2>1, <2>2
<1>5. ASSUME NEW a \in Attempt, CloseConfirmedUnpaid(a) PROVE AttInv'
  <2>1. CASE MayClose(a)
    BY <1>5, <2>1, ClosedRow DEF CloseConfirmedUnpaid, MayClose
  <2>2. CASE ~MayClose(a)
    BY <1>5, <2>2, SameRows DEF CloseConfirmedUnpaid
  <2> QED
    BY <2>1, <2>2
<1>6. ASSUME NEW a \in Attempt, ExpireAttempt(a) PROVE AttInv'
  <2>1. CASE att[a] = "presented" /\ pay[OrderOf[a]] = "unpaid" /\ a \in overdue
    BY <1>6, <2>1, ClosedRow DEF ExpireAttempt
  <2>2. CASE ~(att[a] = "presented" /\ pay[OrderOf[a]] = "unpaid" /\ a \in overdue)
    BY <1>6, <2>2, SameRows DEF ExpireAttempt
  <2> QED
    BY <2>1, <2>2
<1>7. ASSUME NEW a \in Attempt, ReleaseUnpresentedAttempt(a) PROVE AttInv'
  <2>1. CASE pay[OrderOf[a]] = "unpaid" /\ Unanswered(a)
    <3>1. att' = [att EXCEPT ![a] = "expired"] /\ UNCHANGED <<obj, pay>>
      BY <1>7, <2>1 DEF ReleaseUnpresentedAttempt
    <3>2. OrderOf[a] \notin LegacyClosed /\ a \notin obj
      BY <2>1 DEF AttInv, LegacyFrozen, ObjectPresented, Unanswered
    <3>3. att'[a] = "expired" /\ a \notin obj' /\ obj' \subseteq Attempt
      BY <3>1, <3>2 DEF TypeOK
    <3>4. Touches(a)
      BY <3>1 DEF Touches, TypeOK
    <3>5. ~Live(a)'
      BY <3>3 DEF Live
    <3> QED
      BY <3>2, <3>3, <3>4, <3>5, RowStep
  <2>2. CASE ~(pay[OrderOf[a]] = "unpaid" /\ Unanswered(a))
    BY <1>7, <2>2, SameRows DEF ReleaseUnpresentedAttempt
  <2> QED
    BY <2>1, <2>2
<1>8. ASSUME NEW e \in Event, Reprocess(e) PROVE AttInv'
  <2>1. PICK a \in Attempt : Applicable(e, a) /\ MarkPaid(a)
    BY <1>8 DEF Reprocess, Candidates, AttemptsOf
  <2> QED
    BY <2>1, PaidRow DEF Applicable
<1>9. ASSUME NEW c \in calls, ApplyCallback(c) \/ ProjectQuery(c) PROVE AttInv'
  BY <1>9, ProjectedRow DEF ApplyCallback, ProjectQuery, Reviewed
<1>10. ASSUME NEW a \in Attempt,
              \/ ResumeCheckout(a) \/ BuyerQuery(a) \/ ReconcileQuery(a) \/ ProviderStep(a)
              \/ \E close \in BOOLEAN : AdminQuery(a, close)
              \/ \E op \in {"checkout", "resume"} : LoseCheckout(op, a)
       PROVE  AttInv'
  BY <1>10, SameRows DEF ResumeCheckout, BuyerQuery, ReconcileQuery, ProviderStep,
     AdminQuery, LoseCheckout
<1>11. ASSUME NEW e \in Event, NEW d \in Digest, ReceiveCallback(e, d) PROVE AttInv'
  BY <1>11, SameRows DEF ReceiveCallback, SeenBefore, ManualReview
<1>12. ASSUME \/ \E o \in Order : \/ FulfillPaidOrder(o) \/ ReconcileFulfillment(o)
                                 \/ ClaimCommission(o)
              \/ ClockStep \/ Crash \/ \E u \in User : Spend(u)
              \/ UNCHANGED payVars
       PROVE  AttInv'
  BY <1>12, SameRows DEF FulfillPaidOrder, ReconcileFulfillment, ClaimCommission,
     ClockStep, Crash, Spend, payVars
<1> QED
  BY <1>1, <1>2, <1>3, <1>4, <1>5, <1>6, <1>7, <1>8, <1>9, <1>10, <1>11, <1>12
  DEF Next, Step

LEMMA AttStarts == Init => AttInv
<1> SUFFICES ASSUME Init PROVE AttInv
  OBVIOUS
<1> USE PaymentConstants DEF Init, Lifecycle!Init
<1>1. ObjectPresented
  BY DEF ObjectPresented
<1>2. OneLive
  BY DEF OneLive, Live
<1>3. LegacyFrozen
  BY DEF LegacyFrozen
<1> QED
  BY <1>1, <1>2, <1>3 DEF AttInv

(* AttemptsExclude: the invariant of attempts in every state: rivals are   *)
(* kept out by create_attempt, and nothing brings an attempt back.         *)
THEOREM AttemptsExclude == Spec => []AttInv
BY AttStarts, AttStep, TypeCorrect, PTL DEF Spec

(* PaidOnce: no order is paid through two of its attempts, although the    *)
(* projection in callbacks.rs does not look for a second payment.          *)
THEOREM PaidOnce == Spec => []OnePaidAttempt
<1>1. AttInv => OnePaidAttempt
  BY DEF AttInv, OnePaidAttempt, OneLive, Live, ObjectPresented, LegacyFrozen
<1> QED
  BY <1>1, AttemptsExclude, PTL

(* BoundOnce: two attempts of an EPay order never match a callback         *)
(* (load_bound_epay_attempt), provided that no order of the older version  *)
(* came with two.                                                          *)
THEOREM BoundOnce ==
  ASSUME \A a, b \in Attempt : OrderOf[a] = OrderOf[b] /\ OrderOf[a] \in LegacyClosed => a = b
  PROVE  Spec => []UniqueBinding
<1>1. AttInv => UniqueBinding
  BY DEF AttInv, UniqueBinding, Candidates, AttemptsOf, Unanswered, OneLive, Live
<1> QED
  BY <1>1, AttemptsExclude, PTL

-----------------------------------------------------------------------------
(***************************************************************************)
(* Recovery: refunds, disputes and chargebacks of an order take its reward *)
(* once and in step with the refund rows, and the order lifecycle holds    *)
(* under them.                                                             *)
(***************************************************************************)

RecoveryRows == [row : BOOLEAN, orig : Nat, reserved : Nat, recovered : Nat]
LedgerRows   == [LedgerKinds -> Int]

(* What a recovery row and the ledger rows of its order have to do with    *)
(* each other: all that left the balance is set aside or taken, out of the *)
(* reward at most, and the reward is taken as a whole.                     *)
RowOK(row, l) ==
  /\ row.reserved + row.recovered = -(l["reserve"] + l["release"] + l["loss"])
  /\ row.reserved + row.recovered <= row.orig
  /\ row.orig \in {0, l["fulfillment"]}
  /\ row.recovered \in {0, row.orig}
  /\ ~row.row => row.orig = 0

RowsOK == \A o \in Order : RowOK(rec[o], ledger[o])

(* A "succeeded" under way comes from a provider that paid back.           *)
AnswersTrue ==
  \A c \in rcalls :
    c.op # "create" /\ c.result = "succeeded" => rprov[c.ref] = "succeeded"

(* Only a fulfilled plan order has an entitlement.                         *)
PlansEntitle ==
  \A o \in Order : ent[o] # "none" => Kind[o] = "plan" /\ ful[o] = "fulfilled"

(* From the moment the refund is reserved, the recovery row is about the   *)
(* reward that was really credited, and no plan is part of it.             *)
ReturnTracked ==
  \A o \in Order :
    pay[o] \in {"refund_pending", "refunded"} =>
      /\ rec[o].row /\ rec[o].orig = ledger[o]["fulfillment"]
      /\ ~(Kind[o] = "plan" /\ ful[o] = "fulfilled")
      /\ pay[o] = "refunded" =>
           rec[o].recovered = rec[o].orig /\ comm[o] \in {"none", "reversed"}

(* The inductive invariant.                                                *)
RecoveryInv ==
  /\ RecTypeOK /\ CallsMatch /\ CreditedExactlyOnce
  /\ RowsOK /\ RefundStatesAgree /\ AnswersTrue /\ SucceededMeansReturned
  /\ PlansEntitle /\ ReturnTracked /\ DisputeHoldsOrder
-----------------------------------------------------------------------------
(* What each way of booking does to a recovery row and its ledger rows.    *)

(* A reserve is a part of an untouched reward.                             *)
LEMMA ReserveRow ==
  ASSUME NEW row \in RecoveryRows, NEW l \in LedgerRows, NEW part \in Nat,
         RowOK(row, l), l["reserve"] = 0, row.reserved = 0, row.recovered = 0,
         part <= row.orig
  PROVE  /\ [row EXCEPT !.reserved = part] \in RecoveryRows
         /\ [l EXCEPT !["reserve"] = -part] \in LedgerRows
         /\ RowOK([row EXCEPT !.reserved = part], [l EXCEPT !["reserve"] = -part])
<1> DEFINE new == [row EXCEPT !.reserved = part]
           nl == [l EXCEPT !["reserve"] = -part]
<1>1. /\ new \in RecoveryRows /\ new.row = row.row /\ new.orig = row.orig
      /\ new.reserved = part /\ new.recovered = row.recovered
  BY DEF RecoveryRows
<1>2. /\ nl \in LedgerRows /\ nl["reserve"] = -part
      /\ \A k \in LedgerKinds \ {"reserve"} : nl[k] = l[k]
  BY DEF LedgerRows, LedgerKinds
<1>3. RowOK(new, nl)
  BY <1>1, <1>2 DEF RowOK, RecoveryRows, LedgerRows, LedgerKinds
<1> QED
  BY <1>1, <1>2, <1>3

(* A release gives back all that is set aside, while nothing is taken.     *)
LEMMA ReleaseRow ==
  ASSUME NEW row \in RecoveryRows, NEW l \in LedgerRows,
         RowOK(row, l), l["release"] = 0, row.recovered = 0
  PROVE  /\ [row EXCEPT !.reserved = 0] \in RecoveryRows
         /\ [l EXCEPT !["release"] = row.reserved] \in LedgerRows
         /\ RowOK([row EXCEPT !.reserved = 0], [l EXCEPT !["release"] = row.reserved])
<1> DEFINE new == [row EXCEPT !.reserved = 0]
           nl == [l EXCEPT !["release"] = row.reserved]
<1>1. /\ new \in RecoveryRows /\ new.row = row.row /\ new.orig = row.orig
      /\ new.reserved = 0 /\ new.recovered = row.recovered
  BY DEF RecoveryRows
<1>2. /\ nl \in LedgerRows /\ nl["release"] = row.reserved
      /\ \A k \in LedgerKinds \ {"release"} : nl[k] = l[k]
  BY DEF LedgerRows, LedgerKinds, RecoveryRows
<1>3. RowOK(new, nl)
  BY <1>1, <1>2 DEF RowOK, RecoveryRows, LedgerRows, LedgerKinds
<1> QED
  BY <1>1, <1>2, <1>3

(* A refund that succeeds takes what was set aside.                        *)
LEMMA TakeRow ==
  ASSUME NEW row \in RecoveryRows, NEW l \in LedgerRows,
         RowOK(row, l), row.reserved + row.recovered = row.orig
  PROVE  /\ [row EXCEPT !.reserved = 0, !.recovered = row.orig] \in RecoveryRows
         /\ RowOK([row EXCEPT !.reserved = 0, !.recovered = row.orig], l)
<1> DEFINE new == [row EXCEPT !.reserved = 0, !.recovered = row.orig]
<1>1. /\ new \in RecoveryRows /\ new.row = row.row /\ new.orig = row.orig
      /\ new.reserved = 0 /\ new.recovered = row.orig
  BY DEF RecoveryRows
<1>2. RowOK(new, l)
  BY <1>1 DEF RowOK, RecoveryRows, LedgerRows, LedgerKinds
<1> QED
  BY <1>1, <1>2

(* A lost dispute takes what is left, however much that is.                *)
LEMMA LoseRow ==
  ASSUME NEW row \in RecoveryRows, NEW l \in LedgerRows,
         RowOK(row, l), l["loss"] = 0
  PROVE  /\ row.orig - row.reserved - row.recovered \in Int
         /\ [l EXCEPT !["loss"] = -(row.orig - row.reserved - row.recovered)] \in LedgerRows
         /\ RowOK([row EXCEPT !.reserved = 0, !.recovered = row.orig],
                  [l EXCEPT !["loss"] = -(row.orig - row.reserved - row.recovered)])
<1> DEFINE new == [row EXCEPT !.reserved = 0, !.recovered = row.orig]
           left == row.orig - row.reserved - row.recovered
           nl == [l EXCEPT !["loss"] = -left]
<1>1. /\ new \in RecoveryRows /\ new.row = row.row /\ new.orig = row.orig
      /\ new.reserved = 0 /\ new.recovered = row.orig
  BY DEF RecoveryRows
<1>2. left \in Int
  BY DEF RecoveryRows
<1>3. /\ nl \in LedgerRows /\ nl["loss"] = -left
      /\ \A k \in LedgerKinds \ {"loss"} : nl[k] = l[k]
  BY <1>2 DEF LedgerRows, LedgerKinds
<1>4. RowOK(new, nl)
  BY <1>1, <1>3 DEF RowOK, RecoveryRows, LedgerRows, LedgerKinds
<1> QED
  BY <1>1, <1>2, <1>3, <1>4

(* The credit of an order is what its fulfilment row says, and the reward  *)
(* a recovery is about is that credit.                                     *)
LEMMA RewardIsCredit ==
  ASSUME TypeOK, CreditedExactlyOnce, NEW o \in Order
  PROVE  /\ OriginalReward(o) \in Nat
         /\ OriginalReward(o) = ledger[o]["fulfillment"]
BY PaymentConstants DEF OriginalReward, CreditedExactlyOnce, TypeOK

(* The row a refund or a dispute starts from is sound when it is new, too. *)
LEMMA FirstRow ==
  ASSUME RecTypeOK, CreditedExactlyOnce, RowsOK, NEW o \in Order, EnsureRecovery(o)
  PROVE  /\ RecoveryRow(o) \in RecoveryRows
         /\ RowOK(RecoveryRow(o), ledger[o])
         /\ RecoveryRow(o).row /\ RecoveryRow(o).orig = ledger[o]["fulfillment"]
         /\ RecoveryRow(o).reserved = rec[o].reserved
         /\ RecoveryRow(o).recovered = rec[o].recovered
<1>1. rec[o] \in RecoveryRows /\ ledger[o] \in LedgerRows /\ RowOK(rec[o], ledger[o])
  BY DEF RecTypeOK, TypeOK, RecoveryRows, LedgerRows, RowsOK
<1>2. OriginalReward(o) \in Nat /\ OriginalReward(o) = ledger[o]["fulfillment"]
  BY RewardIsCredit DEF RecTypeOK
<1>3. CASE rec[o].row
  BY <1>1, <1>2, <1>3 DEF RecoveryRow, EnsureRecovery
<1>4. CASE ~rec[o].row
  <2> DEFINE new == [row |-> TRUE, orig |-> OriginalReward(o), reserved |-> 0, recovered |-> 0]
  <2>1. RecoveryRow(o) = new
    BY <1>4 DEF RecoveryRow, NoRecovery
  <2>2. rec[o].orig = 0 /\ rec[o].reserved = 0 /\ rec[o].recovered = 0
    BY <1>1, <1>4 DEF RowOK, RecoveryRows
  <2>3. new \in RecoveryRows /\ new.row
    BY <1>2 DEF RecoveryRows
  <2>4. RowOK(new, ledger[o])
    BY <1>1, <1>2, <2>2 DEF RowOK, LedgerRows, LedgerKinds
  <2> QED
    BY <1>2, <2>1, <2>2, <2>3, <2>4
<1> QED
  BY <1>3, <1>4

(* The recovery row and the ledger rows of order o move on, and a reward   *)
(* that has been taken stays taken.                                        *)
RowBooked(o) ==
  /\ \E row \in RecoveryRows, l \in LedgerRows :
       /\ rec' = [rec EXCEPT ![o] = row] /\ ledger' = [ledger EXCEPT ![o] = l]
       /\ RowOK(row, l) /\ l["fulfillment"] = ledger[o]["fulfillment"]
       /\ rec[o].row =>
            /\ row.row /\ row.orig = rec[o].orig
            /\ rec[o].recovered = rec[o].orig => row.recovered = row.orig
  /\ balance' \in [User -> Int]

(* A booked delta is one ledger row and a balance that is still a number.  *)
LEMMA DeltaBooked ==
  ASSUME TypeOK, NEW o \in Order, NEW kind \in LedgerKinds, NEW delta \in Int,
         ApplyBalanceDelta(o, kind, delta)
  PROVE  /\ ledger' = [ledger EXCEPT ![o] = [ledger[o] EXCEPT ![kind] = delta]]
         /\ balance' \in [User -> Int]
<1>1. ledger' = [ledger EXCEPT ![o] = [ledger[o] EXCEPT ![kind] = delta]]
  BY DEF ApplyBalanceDelta
<1>2. UserOf[o] \in User /\ balance[UserOf[o]] \in Int
  BY PaymentConstants DEF TypeOK
<1>3. balance' = [balance EXCEPT ![UserOf[o]] = balance[UserOf[o]] + delta]
  BY DEF ApplyBalanceDelta
<1> QED
  BY <1>1, <1>2, <1>3 DEF TypeOK

(* Both ways of reserving: the complete reward for a refund, what is left  *)
(* of it for a dispute.                                                    *)
LEMMA ReserveStep ==
  ASSUME RecTypeOK, CreditedExactlyOnce, RowsOK, NEW o \in Order, EnsureRecovery(o),
         (ReserveReward(o) /\ rec[o].recovered = 0) \/ ReserveAvailable(o)
  PROVE  RowBooked(o) /\ rec'[o].row /\ rec'[o].orig = ledger[o]["fulfillment"]
<1> DEFINE row == RecoveryRow(o)
<1>1. /\ row \in RecoveryRows /\ RowOK(row, ledger[o])
      /\ row.row /\ row.orig = ledger[o]["fulfillment"]
      /\ row.reserved = rec[o].reserved /\ row.recovered = rec[o].recovered
  BY FirstRow
<1>2. /\ ledger[o] \in LedgerRows /\ rec[o] \in RecoveryRows
      /\ rec \in [Order -> RecoveryRows] /\ ledger \in [Order -> LedgerRows]
  BY DEF RecTypeOK, TypeOK, RecoveryRows, LedgerRows
<1>3. rec[o].row => row.orig = rec[o].orig
  BY DEF RecoveryRow
<1> HIDE DEF row
<1>4. CASE rec' = [rec EXCEPT ![o] = row] /\ UNCHANGED <<ledger, balance>>
  <2>1. ledger' = [ledger EXCEPT ![o] = ledger[o]]
    BY <1>2, <1>4
  <2>2. balance' \in [User -> Int]
    BY <1>4 DEF RecTypeOK, TypeOK
  <2>3. rec'[o] = row
    BY <1>2, <1>4
  <2> QED
    BY <1>1, <1>2, <1>3, <1>4, <2>1, <2>2, <2>3 DEF RowBooked
<1>5. ASSUME NEW part \in Nat, part <= row.orig, row.reserved = 0, row.recovered = 0,
             LedgerFree(o, "reserve"), ApplyBalanceDelta(o, "reserve", -part),
             rec' = [rec EXCEPT ![o] = [row EXCEPT !.reserved = part]]
      PROVE  RowBooked(o) /\ rec'[o].row /\ rec'[o].orig = ledger[o]["fulfillment"]
  <2> DEFINE new == [row EXCEPT !.reserved = part]
             nl == [ledger[o] EXCEPT !["reserve"] = -part]
  <2>1. new \in RecoveryRows /\ nl \in LedgerRows /\ RowOK(new, nl)
    BY <1>1, <1>2, <1>5, ReserveRow DEF LedgerFree
  <2>2. new.row /\ new.orig = row.orig /\ new.recovered = row.recovered
    BY <1>1 DEF RecoveryRows
  <2>3. nl["fulfillment"] = ledger[o]["fulfillment"]
    BY <1>2 DEF LedgerRows, LedgerKinds
  <2>4. ledger' = [ledger EXCEPT ![o] = nl] /\ balance' \in [User -> Int]
    <3>1. -part \in Int /\ "reserve" \in LedgerKinds
      BY DEF LedgerKinds
    <3> QED
      BY <1>5, <3>1, DeltaBooked DEF RecTypeOK
  <2>5. rec' = [rec EXCEPT ![o] = new] /\ rec'[o] = new
    BY <1>2, <1>5
  <2> HIDE DEF new, nl
  <2>6. rec[o].row => /\ new.row /\ new.orig = rec[o].orig
                      /\ rec[o].recovered = rec[o].orig => new.recovered = new.orig
    BY <1>1, <1>3, <2>2
  <2>7. RowBooked(o)
    BY <2>1, <2>3, <2>4, <2>5, <2>6 DEF RowBooked
  <2> QED
    BY <1>1, <2>2, <2>5, <2>7
<1>6. CASE ReserveReward(o) /\ rec[o].recovered = 0
  <2>1. CASE row.orig # 0 /\ row.reserved = 0
    <3>1. row.orig \in Nat /\ row.orig <= row.orig
      BY <1>1 DEF RecoveryRows
    <3> QED
      BY <1>1, <1>5, <1>6, <2>1, <3>1 DEF ReserveReward, row
  <2>2. CASE ~(row.orig # 0 /\ row.reserved = 0)
    BY <1>4, <1>6, <2>2 DEF ReserveReward, row
  <2> QED
    BY <2>1, <2>2
<1>7. CASE ReserveAvailable(o)
  <2> DEFINE available == IF balance[UserOf[o]] > 0 THEN balance[UserOf[o]] ELSE 0
             part == IF row.orig < available THEN row.orig ELSE available
  <2>1. CASE row.orig # 0 /\ row.reserved = 0 /\ row.recovered = 0 /\ part # 0
    <3>1. balance[UserOf[o]] \in Int
      BY PaymentConstants DEF RecTypeOK, TypeOK
    <3>2. part \in Nat /\ part <= row.orig
      BY <1>1, <3>1 DEF RecoveryRows
    <3>3. /\ LedgerFree(o, "reserve") /\ ApplyBalanceDelta(o, "reserve", -part)
          /\ rec' = [rec EXCEPT ![o] = [row EXCEPT !.reserved = part]]
      BY <1>7, <2>1 DEF ReserveAvailable, row
    <3> HIDE DEF part
    <3> QED
      BY <1>5, <2>1, <3>2, <3>3
  <2>2. CASE ~(row.orig # 0 /\ row.reserved = 0 /\ row.recovered = 0 /\ part # 0)
    BY <1>4, <1>7, <2>2 DEF ReserveAvailable, row
  <2> QED
    BY <2>1, <2>2
<1> QED
  BY <1>6, <1>7

(* The rows stay.                                                          *)
LEMMA KeepStep ==
  ASSUME RecTypeOK, RowsOK, NEW o \in Order, UNCHANGED <<rec, ledger, balance>>
  PROVE  RowBooked(o)
<1>1. /\ rec \in [Order -> RecoveryRows] /\ ledger \in [Order -> LedgerRows]
      /\ balance \in [User -> Int] /\ RowOK(rec[o], ledger[o])
  BY DEF RecTypeOK, TypeOK, RecoveryRows, LedgerRows, RowsOK
<1>2. rec' = [rec EXCEPT ![o] = rec[o]] /\ ledger' = [ledger EXCEPT ![o] = ledger[o]]
  BY <1>1
<1>3. rec[o] \in RecoveryRows /\ ledger[o] \in LedgerRows /\ balance' \in [User -> Int]
  BY <1>1
<1> QED
  BY <1>1, <1>2, <1>3 DEF RowBooked

(* The reserve of a claim that came to nothing goes back.                  *)
LEMMA ReleaseStep ==
  ASSUME RecTypeOK, RowsOK, NEW o \in Order, ReleaseReserve(o, rec[o]),
         rec[o].recovered = 0, rec[o].reserved # 0
  PROVE  RowBooked(o)
<1> DEFINE new == [rec[o] EXCEPT !.reserved = 0]
           nl == [ledger[o] EXCEPT !["release"] = rec[o].reserved]
<1>1. /\ ledger[o] \in LedgerRows /\ rec[o] \in RecoveryRows
      /\ rec \in [Order -> RecoveryRows] /\ ledger \in [Order -> LedgerRows]
      /\ RowOK(rec[o], ledger[o])
  BY DEF RecTypeOK, TypeOK, RecoveryRows, LedgerRows, RowsOK
<1>2. new \in RecoveryRows /\ nl \in LedgerRows /\ RowOK(new, nl)
  BY <1>1, ReleaseRow DEF ReleaseReserve, LedgerFree
<1>3. nl["fulfillment"] = ledger[o]["fulfillment"]
  BY <1>1 DEF LedgerRows, LedgerKinds
<1>4. rec' = [rec EXCEPT ![o] = new]
  BY DEF ReleaseReserve
<1>5. ledger' = [ledger EXCEPT ![o] = nl] /\ balance' \in [User -> Int]
  <2>1. rec[o].reserved \in Int /\ "release" \in LedgerKinds
    BY <1>1 DEF LedgerKinds, RecoveryRows
  <2> QED
    BY <2>1, DeltaBooked DEF ReleaseReserve, RecTypeOK
<1>6. /\ new.row = rec[o].row /\ new.orig = rec[o].orig
      /\ rec[o].recovered # rec[o].orig
  BY <1>1 DEF RecoveryRows, RowOK
<1> HIDE DEF new, nl
<1> QED
  BY <1>2, <1>3, <1>4, <1>5, <1>6 DEF RowBooked

(* A completed refund takes the reserve.                                   *)
LEMMA TakeStep ==
  ASSUME RecTypeOK, RowsOK, NEW o \in Order, RecoverReward(o),
         UNCHANGED <<ledger, balance>>,
         rec[o].orig # 0 => rec[o].reserved = rec[o].orig
  PROVE  RowBooked(o) /\ rec'[o].recovered = rec'[o].orig
<1> DEFINE new == [rec[o] EXCEPT !.reserved = 0, !.recovered = rec[o].orig]
<1>1. /\ ledger[o] \in LedgerRows /\ rec[o] \in RecoveryRows
      /\ rec \in [Order -> RecoveryRows] /\ ledger \in [Order -> LedgerRows]
      /\ RowOK(rec[o], ledger[o])
  BY DEF RecTypeOK, TypeOK, RecoveryRows, LedgerRows, RowsOK
<1>2. rec[o].recovered = 0 /\ rec[o].reserved + rec[o].recovered = rec[o].orig
  BY <1>1 DEF RecoveryRows, RowOK
<1>3. new \in RecoveryRows /\ RowOK(new, ledger[o])
  BY <1>1, <1>2, TakeRow
<1>4. rec' = [rec EXCEPT ![o] = new]
  BY <1>2 DEF RecoverReward
<1>5. ledger' = [ledger EXCEPT ![o] = ledger[o]] /\ balance' \in [User -> Int]
  BY <1>1 DEF RecTypeOK, TypeOK
<1>6. new.row = rec[o].row /\ new.orig = rec[o].orig /\ new.recovered = new.orig
  BY <1>1 DEF RecoveryRows
<1> HIDE DEF new
<1>7. rec'[o] = new
  BY <1>1, <1>4
<1> QED
  BY <1>1, <1>3, <1>4, <1>5, <1>6, <1>7 DEF RowBooked

(* A lost dispute takes the rest of the reward, once.                      *)
LEMMA LoseStep ==
  ASSUME RecTypeOK, RowsOK, NEW d \in Dispute, LoseClaim(d)
  PROVE  RowBooked(DisputeOrder[d])
<1> DEFINE o == DisputeOrder[d]
           new == [rec[o] EXCEPT !.reserved = 0, !.recovered = rec[o].orig]
           nl == [ledger[o] EXCEPT !["loss"] = -Remaining(o)]
<1>0. o \in Order
  BY RecoveryConstants
<1>1. /\ ledger[o] \in LedgerRows /\ rec[o] \in RecoveryRows
      /\ rec \in [Order -> RecoveryRows] /\ ledger \in [Order -> LedgerRows]
      /\ RowOK(rec[o], ledger[o])
  BY <1>0 DEF RecTypeOK, TypeOK, RecoveryRows, LedgerRows, RowsOK
<1>2. rec' = [rec EXCEPT ![o] = new]
  BY DEF LoseClaim
<1>3. new.row = rec[o].row /\ new.orig = rec[o].orig /\ new.recovered = new.orig
  BY <1>1 DEF RecoveryRows
<1>4. CASE Remaining(o) = 0
  <2>1. rec[o].reserved + rec[o].recovered = rec[o].orig
    <3>1. rec[o].orig \in Nat /\ rec[o].reserved \in Nat /\ rec[o].recovered \in Nat
      BY <1>1 DEF RecoveryRows
    <3>2. rec[o].orig - rec[o].reserved - rec[o].recovered = 0
      BY <1>4 DEF Remaining
    <3> HIDE DEF o
    <3> QED
      BY <3>1, <3>2
  <2>2. new \in RecoveryRows /\ RowOK(new, ledger[o])
    BY <1>1, <2>1, TakeRow
  <2>3. UNCHANGED <<ledger, balance>>
    BY <1>4 DEF LoseClaim
  <2>4. ledger' = [ledger EXCEPT ![o] = ledger[o]] /\ balance' \in [User -> Int]
    BY <1>1, <2>3 DEF RecTypeOK, TypeOK
  <2> HIDE DEF new, o
  <2> QED
    BY <1>1, <1>2, <1>3, <2>2, <2>4 DEF RowBooked, o
<1>5. CASE Remaining(o) # 0
  <2>1. LedgerFree(o, "loss") /\ ApplyBalanceDelta(o, "loss", -Remaining(o))
    BY <1>5 DEF LoseClaim
  <2>2. RowOK(new, nl) /\ nl \in LedgerRows /\ Remaining(o) \in Int
    BY <1>1, <2>1, LoseRow DEF LedgerFree, Remaining
  <2>3. new \in RecoveryRows
    BY <1>1 DEF RecoveryRows
  <2>4. ledger' = [ledger EXCEPT ![o] = nl] /\ balance' \in [User -> Int]
    <3>1. -Remaining(o) \in Int /\ "loss" \in LedgerKinds
      BY <2>2 DEF LedgerKinds
    <3> QED
      BY <1>0, <2>1, <3>1, DeltaBooked DEF RecTypeOK
  <2>5. nl["fulfillment"] = ledger[o]["fulfillment"]
    BY <1>1 DEF LedgerRows, LedgerKinds
  <2> HIDE DEF new, nl, o
  <2> QED
    BY <1>2, <1>3, <2>2, <2>3, <2>4, <2>5 DEF RowBooked, o
<1> QED
  BY <1>4, <1>5

-----------------------------------------------------------------------------
(* What a step of the payment model means for refunds and disputes.        *)

Returning == {"refund_pending", "refunded"}

OrderFrame ==
  \A o \in Order :
    /\ pay'[o] \in Returning \/ pay[o] \in Returning =>
         pay'[o] = pay[o] /\ ful'[o] = ful[o] /\ ledger'[o] = ledger[o]
    /\ ful[o] = "fulfilled" => ful'[o] = "fulfilled"
    /\ \A k \in {"reserve", "release", "loss"} : ledger'[o][k] = ledger[o][k]
    /\ \/ ledger'[o]["fulfillment"] = ledger[o]["fulfillment"]
       \/ ledger[o]["fulfillment"] = 0

MoneyFrame ==
  /\ UNCHANGED hold
  /\ \A o \in Order :
       /\ \/ ent'[o] = ent[o]
          \/ /\ ent'[o] = "active" /\ ~hold[o]
             /\ Kind[o] = "plan" /\ ful'[o] = "fulfilled"
       /\ comm'[o] = comm[o] \/ pay[o] = "paid"

(* An order in refund is neither paid again nor closed nor fulfilled.      *)
LEMMA OrderStepFrame ==
  ASSUME TypeOK, CreditedExactlyOnce, OrderStep PROVE OrderFrame
<1>1. ASSUME UNCHANGED <<ful, ledger>>, NEW o \in Order, pay[o] \notin Returning,
             \E s \in {"unpaid", "paid", "closed"} : pay' = [pay EXCEPT ![o] = s]
      PROVE  OrderFrame
  BY <1>1 DEF OrderFrame, Returning, TypeOK
<1>2. ASSUME NEW o \in Order, Creates(o) \/ Closes(o) PROVE OrderFrame
  BY <1>1, <1>2 DEF Creates, Closes, Returning
<1>3. ASSUME NEW e \in Event, NEW o \in Order, Pays(e, o) PROVE OrderFrame
  BY <1>1, <1>3 DEF Pays, CanApply, Returning
<1>4. ASSUME NEW o \in Order, Fulfills(o) PROVE OrderFrame
  <2>1. UNCHANGED pay /\ pay[o] = "paid" /\ ful' = [ful EXCEPT ![o] = "fulfilled"]
    BY <1>4 DEF Fulfills
  <2>2. CASE Kind[o] # "balance"
    BY <1>4, <2>1, <2>2 DEF Fulfills, OrderFrame, Returning, TypeOK
  <2>3. CASE Kind[o] = "balance"
    <3>1. /\ ledger[o]["fulfillment"] = 0 /\ \A p \in Order \ {o} : ledger'[p] = ledger[p]
          /\ \A k \in {"reserve", "release", "loss"} : ledger'[o][k] = ledger[o][k]
      BY <1>4, <2>3 DEF Fulfills, TypeOK, LedgerKinds
    <3> QED
      BY <2>1, <3>1 DEF OrderFrame, Returning, TypeOK
  <2> QED
    BY <2>2, <2>3
<1>5. ASSUME Idles PROVE OrderFrame
  BY <1>5 DEF Idles, OrderFrame
<1> QED
  BY <1>2, <1>3, <1>4, <1>5 DEF OrderStep

(* Entitlements begin only off hold, commissions change only while paid.   *)
LEMMA StepMoneyFrame ==
  ASSUME TypeOK, [Next]_payVars PROVE MoneyFrame
<1> USE DEF orderVars, attemptVars, eventVars, moneyVars
<1>1. ASSUME UNCHANGED <<hold, ent, comm>> PROVE MoneyFrame
  BY <1>1 DEF MoneyFrame
<1>2. ASSUME NEW o \in Order, FulfillPaidOrder(o) PROVE MoneyFrame
  <2>1. CASE ~FulfillmentEligible(o)
    BY <1>1, <1>2, <2>1 DEF FulfillPaidOrder
  <2>2. CASE FulfillmentEligible(o) /\ Kind[o] = "balance"
    <3>1. UNCHANGED <<hold, ent>> /\ \A p \in Order \ {o} : comm'[p] = comm[p]
      BY <1>2, <2>2 DEF FulfillPaidOrder, GrantReward, AccrueSalesCommission, TypeOK
    <3> QED
      BY <2>2, <3>1 DEF FulfillmentEligible, MoneyFrame
  <2>3. CASE FulfillmentEligible(o) /\ Kind[o] # "balance"
    <3>1. /\ UNCHANGED <<hold, comm>> /\ ent' = [ent EXCEPT ![o] = "active"]
          /\ ful' = [ful EXCEPT ![o] = "fulfilled"]
      BY <1>2, <2>3 DEF FulfillPaidOrder, GrantReward
    <3>2. Kind[o] = "plan" /\ ~hold[o] /\ ful'[o] = "fulfilled" /\ ent'[o] = "active"
      BY <2>3, <3>1, PaymentConstants DEF FulfillmentEligible, TypeOK
    <3>3. \A p \in Order \ {o} : ent'[p] = ent[p]
      BY <3>1 DEF TypeOK
    <3> QED
      BY <3>1, <3>2, <3>3 DEF MoneyFrame
  <2> QED
    BY <2>1, <2>2, <2>3
<1>3. ASSUME NEW o \in Order, ClaimCommission(o) PROVE MoneyFrame
  BY <1>3 DEF ClaimCommission, MoneyFrame, TypeOK
<1>4. ASSUME NEW o \in Order, CreateOrder(o) \/ ReconcileFulfillment(o)
      PROVE  UNCHANGED <<hold, ent, comm>>
  BY <1>4 DEF CreateOrder, ReconcileFulfillment
<1>5. ASSUME NEW a \in Attempt,
             \/ CreateAttempt(a) \/ ResumeCheckout(a) \/ BuyerQuery(a) \/ ReconcileQuery(a)
             \/ CloseConfirmedUnpaid(a) \/ ExpireAttempt(a)
             \/ ReleaseUnpresentedAttempt(a) \/ ProviderStep(a)
             \/ \E close \in BOOLEAN : AdminQuery(a, close)
      PROVE  UNCHANGED <<hold, ent, comm>>
  BY <1>5 DEF CreateAttempt, ResumeCheckout, BuyerQuery, ReconcileQuery, AdminQuery,
     CloseConfirmedUnpaid, ExpireAttempt, ReleaseUnpresentedAttempt, ProviderStep
<1>6. ASSUME NEW a \in Attempt, NEW op,
             \/ PresentAttempt(op, a) \/ LoseCheckout(op, a)
             \/ \E f \in {"failed_configuration", "failed_rejected"} : FailAttempt(op, a, f)
      PROVE  UNCHANGED <<hold, ent, comm>>
  BY <1>6 DEF PresentAttempt, LoseCheckout, FailAttempt
<1>7. ASSUME NEW e \in Event, (\E d \in Digest : ReceiveCallback(e, d)) \/ Reprocess(e)
      PROVE  UNCHANGED <<hold, ent, comm>>
  BY <1>7 DEF ReceiveCallback, SeenBefore, ManualReview, Reprocess, MarkPaid
<1>8. ASSUME NEW c \in calls, ApplyCallback(c) \/ ProjectQuery(c)
      PROVE  UNCHANGED <<hold, ent, comm>>
  BY <1>8 DEF ApplyCallback, ProjectQuery, ApplyVerifiedPayment, SeenBefore, ManualReview,
     ProjectPayment, MarkPaid
<1>9. ASSUME ClockStep \/ Crash \/ (\E u \in User : Spend(u)) \/ UNCHANGED payVars
      PROVE  UNCHANGED <<hold, ent, comm>>
  BY <1>9 DEF ClockStep, Crash, Spend, payVars
<1> QED
  BY <1>1, <1>2, <1>3, <1>4, <1>5, <1>6, <1>7, <1>8, <1>9 DEF Next, Step

(* No step of the payment model, a restart included, disturbs recovery.    *)
LEMMA PaymentKeeps ==
  ASSUME RecoveryInv, [Next]_payVars,
         UNCHANGED <<refund, claim, rec, disp, rprov, recent>>, rcalls' \subseteq rcalls
  PROVE  RecoveryInv'
<1>1. TypeOK /\ CallsMatch /\ CreditedExactlyOnce
  BY DEF RecoveryInv, RecTypeOK
<1>2. TypeOK' /\ CallsMatch' /\ OrderStep
  BY <1>1, TypeStep, CallsMatchStep, NextOrderStep
<1>3. CreditedExactlyOnce'
  BY <1>1, <1>2, CreditKept
<1>4. OrderFrame /\ MoneyFrame
  BY <1>1, <1>2, OrderStepFrame, StepMoneyFrame
<1>5. RecTypeOK'
  BY <1>2 DEF RecoveryInv, RecTypeOK
<1>6. RowsOK'
  <2> SUFFICES ASSUME NEW o \in Order PROVE RowOK(rec[o], ledger[o])'
    BY DEF RowsOK
  <2>1. RowOK(rec[o], ledger[o]) /\ rec'[o] = rec[o]
    BY DEF RecoveryInv, RowsOK
  <2>2. /\ \A k \in {"reserve", "release", "loss"} : ledger'[o][k] = ledger[o][k]
        /\ \/ ledger'[o]["fulfillment"] = ledger[o]["fulfillment"]
           \/ ledger[o]["fulfillment"] = 0
    BY <1>4 DEF OrderFrame
  <2> QED
    BY <2>1, <2>2 DEF RowOK
<1>7. RefundStatesAgree'
  <2>1. \A o \in Order : pay'[o] = "refund_pending" <=> pay[o] = "refund_pending"
    BY <1>4 DEF OrderFrame, Returning
  <2> QED
    BY <2>1 DEF RecoveryInv, RefundStatesAgree, Unsettled
<1>8. AnswersTrue' /\ SucceededMeansReturned'
  BY DEF RecoveryInv, AnswersTrue, SucceededMeansReturned
<1>9. PlansEntitle'
  BY <1>4 DEF RecoveryInv, PlansEntitle, OrderFrame, MoneyFrame
<1>10. ReturnTracked'
  <2> SUFFICES ASSUME NEW o \in Order, pay'[o] \in Returning
               PROVE  /\ rec'[o].row /\ rec'[o].orig = ledger'[o]["fulfillment"]
                      /\ ~(Kind[o] = "plan" /\ ful'[o] = "fulfilled")
                      /\ pay'[o] = "refunded" =>
                           rec'[o].recovered = rec'[o].orig /\ comm'[o] \in {"none", "reversed"}
    BY DEF ReturnTracked, Returning
  <2>1. pay'[o] = pay[o] /\ ful'[o] = ful[o] /\ ledger'[o] = ledger[o] /\ comm'[o] = comm[o]
    BY <1>4 DEF OrderFrame, MoneyFrame, Returning
  <2> QED
    BY <2>1 DEF RecoveryInv, ReturnTracked, Returning
<1>11. DisputeHoldsOrder'
  <2> SUFFICES ASSUME NEW d \in Dispute, claim[d] = "open"
               PROVE  hold'[DisputeOrder[d]] /\ ent'[DisputeOrder[d]] # "active"
    BY DEF DisputeHoldsOrder
  <2>1. DisputeOrder[d] \in Order
    BY RecoveryConstants
  <2>2. hold[DisputeOrder[d]] /\ ent[DisputeOrder[d]] # "active"
    BY DEF RecoveryInv, DisputeHoldsOrder
  <2> QED
    BY <1>4, <2>1, <2>2 DEF MoneyFrame
<1> QED
  BY <1>2, <1>3, <1>5, <1>6, <1>7, <1>8, <1>9, <1>10, <1>11 DEF RecoveryInv

-----------------------------------------------------------------------------
(* What the steps of RecoveryStore keep.                                   *)

(* A step that books on one order and fulfils none.                        *)
LEMMA BookedKeeps ==
  ASSUME RecoveryInv, NEW o \in Order, RowBooked(o), UNCHANGED ful
  PROVE  /\ CreditedExactlyOnce' /\ RowsOK'
         /\ rec' \in [Order -> RecoveryRows] /\ ledger' \in [Order -> LedgerRows]
<1>1. rec \in [Order -> RecoveryRows] /\ ledger \in [Order -> LedgerRows]
  BY DEF RecoveryInv, RecTypeOK, TypeOK, RecoveryRows, LedgerRows
<1>2. PICK row \in RecoveryRows, l \in LedgerRows :
        /\ rec' = [rec EXCEPT ![o] = row] /\ ledger' = [ledger EXCEPT ![o] = l]
        /\ RowOK(row, l) /\ l["fulfillment"] = ledger[o]["fulfillment"]
  BY DEF RowBooked
<1>3. /\ rec'[o] = row /\ ledger'[o] = l
      /\ \A p \in Order \ {o} : rec'[p] = rec[p] /\ ledger'[p] = ledger[p]
      /\ rec' \in [Order -> RecoveryRows] /\ ledger' \in [Order -> LedgerRows]
  BY <1>1, <1>2
<1>4. CreditedExactlyOnce'
  BY <1>2, <1>3 DEF RecoveryInv, CreditedExactlyOnce
<1>5. RowsOK'
  BY <1>2, <1>3 DEF RecoveryInv, RowsOK
<1> QED
  BY <1>3, <1>4, <1>5

(* The row of an order in refund stays about the same reward.              *)
LEMMA TrackedKeeps ==
  ASSUME RecoveryInv, NEW o \in Order, RowBooked(o), UNCHANGED ful,
         \A p \in Order :
           pay'[p] \in Returning =>
             \/ pay'[p] = pay[p] /\ comm'[p] = comm[p]
             \/ /\ p = o /\ rec'[o].row /\ rec'[o].orig = ledger[o]["fulfillment"]
                /\ ~(Kind[o] = "plan" /\ ful[o] = "fulfilled")
                /\ pay'[o] = "refunded" =>
                     rec'[o].recovered = rec'[o].orig /\ comm'[o] \in {"none", "reversed"}
  PROVE  ReturnTracked'
<1>1. rec \in [Order -> RecoveryRows] /\ ledger \in [Order -> LedgerRows]
  BY DEF RecoveryInv, RecTypeOK, TypeOK, RecoveryRows, LedgerRows
<1>2. PICK row \in RecoveryRows, l \in LedgerRows :
        /\ rec' = [rec EXCEPT ![o] = row] /\ ledger' = [ledger EXCEPT ![o] = l]
        /\ l["fulfillment"] = ledger[o]["fulfillment"]
        /\ rec[o].row =>
             /\ row.row /\ row.orig = rec[o].orig
             /\ rec[o].recovered = rec[o].orig => row.recovered = row.orig
  BY DEF RowBooked
<1>3. /\ rec'[o] = row /\ ledger'[o] = l
      /\ \A p \in Order \ {o} : rec'[p] = rec[p] /\ ledger'[p] = ledger[p]
  BY <1>1, <1>2
<1> SUFFICES ASSUME NEW p \in Order, pay'[p] \in Returning
             PROVE  /\ rec'[p].row /\ rec'[p].orig = ledger'[p]["fulfillment"]
                    /\ ~(Kind[p] = "plan" /\ ful'[p] = "fulfilled")
                    /\ pay'[p] = "refunded" =>
                         rec'[p].recovered = rec'[p].orig /\ comm'[p] \in {"none", "reversed"}
  BY DEF ReturnTracked, Returning
<1>4. CASE pay'[p] = pay[p] /\ comm'[p] = comm[p]
  <2>1. /\ rec[p].row /\ rec[p].orig = ledger[p]["fulfillment"]
        /\ ~(Kind[p] = "plan" /\ ful[p] = "fulfilled")
        /\ pay[p] = "refunded" =>
             rec[p].recovered = rec[p].orig /\ comm[p] \in {"none", "reversed"}
    BY <1>4 DEF RecoveryInv, ReturnTracked, Returning
  <2>2. CASE p # o
    BY <1>3, <1>4, <2>1, <2>2
  <2>3. CASE p = o
    BY <1>2, <1>3, <1>4, <2>1, <2>3
  <2> QED
    BY <2>2, <2>3
<1>5. CASE ~(pay'[p] = pay[p] /\ comm'[p] = comm[p])
  BY <1>2, <1>3, <1>5
<1> QED
  BY <1>4, <1>5

(* The payment rows a step of RecoveryStore may change, and their types.   *)
LEMMA PaymentRowsKept ==
  ASSUME RecoveryInv,
         UNCHANGED <<ful, lapsed, attemptVars, eventVars, spent, calls, crashes>>,
         pay' \in [Order -> Lifecycle!PaymentStates], ledger' \in [Order -> LedgerRows],
         balance' \in [User -> Int],
         hold' \in [Order -> BOOLEAN], userHold' \in [User -> BOOLEAN],
         ent' \in [Order -> {"none", "active", "suspended", "revoked"}],
         comm' \in [Order -> {"none", "code", "claim", "reversed"}]
  PROVE  TypeOK' /\ CallsMatch'
<1>1. TypeOK
  BY DEF RecoveryInv, RecTypeOK
<1>2. TypeOK'
  BY <1>1 DEF TypeOK, attemptVars, eventVars, LedgerRows
<1>3. CallsMatch'
  BY DEF RecoveryInv, CallsMatch
<1> QED
  BY <1>2, <1>3

(* The constructors of refund continuations build members of RefundCall.   *)
LEMMA RefundCallTypes ==
  /\ \A r \in Refund : CreateCall(r) \in RefundCall
  /\ \A r \in Refund, s \in {"pending", "succeeded", "failed"}, i \in BOOLEAN :
       ProjectCall(r, s, i) \in RefundCall
  /\ \A r \in Refund, s \in {"pending", "succeeded", "failed"} :
       FencedCall(r, s) \in RefundCall
BY DEF RefundCall, CreateCall, ProjectCall, FencedCall

(* A provider's answer is one of the three, and "succeeded" only when it   *)
(* has paid back.                                                          *)
LEMMA AnswerTypes ==
  ASSUME RecTypeOK, NEW r \in Refund, NEW ans \in CreateAnswers(r) \cup QueryAnswers(r)
  PROVE  /\ ans[1] \in {"pending", "succeeded", "failed"} /\ ans[2] \in BOOLEAN
         /\ ans[1] = "succeeded" => rprov[r] = "succeeded"
<1>1. rprov[r] \in {"none", "pending", "succeeded", "failed"}
  BY DEF RecTypeOK
<1>2. \/ ans = <<"pending", FALSE>> \/ ans = <<"failed", FALSE>>
      \/ rprov[r] # "none" /\ ans = <<rprov[r], TRUE>>
  BY DEF CreateAnswers, QueryAnswers
<1>3. ASSUME NEW s, NEW i, ans = <<s, i>> PROVE ans[1] = s /\ ans[2] = i
  BY <1>3
<1>4. CASE ans = <<"pending", FALSE>> \/ ans = <<"failed", FALSE>>
  <2>1. ans[1] \in {"pending", "failed"} /\ ans[2] = FALSE
    BY <1>3, <1>4
  <2> QED
    BY <2>1
<1>5. CASE rprov[r] # "none" /\ ans = <<rprov[r], TRUE>>
  <2>1. ans[1] = rprov[r] /\ ans[2] = TRUE
    BY <1>3, <1>5
  <2> QED
    BY <1>1, <1>5, <2>1
<1> QED
  BY <1>2, <1>4, <1>5

(* Steps that only ask, answer or wait.                                    *)
LEMMA QuietKeeps ==
  ASSUME RecoveryInv, UNCHANGED <<payVars, refund, claim, rec, disp>>,
         rprov' \in [Refund -> {"none", "pending", "succeeded", "failed"}],
         recent' \subseteq Refund, rcalls' \subseteq RefundCall,
         AnswersTrue', SucceededMeansReturned'
  PROVE  RecoveryInv'
<1> USE DEF payVars, orderVars, attemptVars, eventVars, moneyVars
<1>1. RecTypeOK' /\ CallsMatch'
  BY DEF RecoveryInv, RecTypeOK, TypeOK, CallsMatch
<1>2. CreditedExactlyOnce' /\ RowsOK'
  BY DEF RecoveryInv, CreditedExactlyOnce, RowsOK, RowOK
<1>3. RefundStatesAgree'
  BY DEF RecoveryInv, RefundStatesAgree, Unsettled
<1>4. PlansEntitle' /\ ReturnTracked' /\ DisputeHoldsOrder'
  BY DEF RecoveryInv, PlansEntitle, ReturnTracked, DisputeHoldsOrder
<1> QED
  BY <1>1, <1>2, <1>3, <1>4 DEF RecoveryInv

(* Asking the provider and hearing its answer.                             *)
LEMMA AnswerKeeps ==
  ASSUME RecoveryInv, NEW r \in Refund, NEW ans \in CreateAnswers(r) \cup QueryAnswers(r),
         UNCHANGED <<payVars, refund, claim, rec, disp, rprov, recent>>,
         \/ rcalls' \subseteq rcalls \cup {ProjectCall(r, ans[1], ans[2])}
         \/ rcalls' \subseteq rcalls \cup {FencedCall(r, ans[1])}
  PROVE  RecoveryInv'
<1>1. RecTypeOK /\ AnswersTrue /\ SucceededMeansReturned
  BY DEF RecoveryInv
<1>2. /\ ans[1] \in {"pending", "succeeded", "failed"} /\ ans[2] \in BOOLEAN
      /\ ans[1] = "succeeded" => rprov[r] = "succeeded"
  BY <1>1, AnswerTypes
<1>3. PICK c \in {ProjectCall(r, ans[1], ans[2]), FencedCall(r, ans[1])} :
        rcalls' \subseteq rcalls \cup {c}
  OBVIOUS
<1>4. c \in RefundCall /\ c.ref = r /\ c.result = ans[1]
  <2>1. c \in RefundCall
    BY <1>2, RefundCallTypes
  <2>2. c.ref = r /\ c.result = ans[1]
    BY DEF ProjectCall, FencedCall
  <2> QED
    BY <2>1, <2>2
<1>5. rcalls' \subseteq RefundCall
  BY <1>1, <1>3, <1>4 DEF RecTypeOK
<1>6. AnswersTrue' /\ SucceededMeansReturned'
  BY <1>1, <1>2, <1>3, <1>4 DEF AnswersTrue, SucceededMeansReturned
<1> QED
  BY <1>1, <1>5, <1>6, QuietKeeps DEF RecTypeOK

(* The provider settles a refund once; what it has paid back it keeps so.  *)
LEMMA ProviderKeeps ==
  ASSUME RecoveryInv, NEW r \in Refund, RefundProviderStep(r)
  PROVE  RecoveryInv'
<1>1. PICK s \in {"pending", "succeeded", "failed"} : rprov' = [rprov EXCEPT ![r] = s]
  BY DEF RefundProviderStep
<1>2. rprov[r] \in {"none", "pending"}
  BY DEF RefundProviderStep
<1>3. RecTypeOK /\ AnswersTrue /\ SucceededMeansReturned
  BY DEF RecoveryInv
<1>4. /\ rprov' \in [Refund -> {"none", "pending", "succeeded", "failed"}]
      /\ \A q \in Refund : rprov[q] = "succeeded" => rprov'[q] = "succeeded"
  BY <1>1, <1>2, <1>3 DEF RecTypeOK
<1>5. \A c \in rcalls : c.ref \in Refund
  BY <1>3 DEF RecTypeOK, RefundCall
<1>6. AnswersTrue' /\ SucceededMeansReturned'
  BY <1>3, <1>4, <1>5 DEF AnswersTrue, SucceededMeansReturned, RefundProviderStep
<1> QED
  BY <1>3, <1>4, <1>6, QuietKeeps DEF RefundProviderStep, RecTypeOK

(* The claim that goes with a refund in state s.                           *)
ClaimFor(s) == CASE s = "none" -> "none"
                 [] s = "failed" -> "resolved"
                 [] s = "succeeded" -> "consumed"
                 [] OTHER -> "open"

(* Refund r moves to state s with its claim and its order, while no other  *)
(* refund of the order is unsettled.                                       *)
LEMMA RefundMoves ==
  ASSUME RecoveryInv, NEW r \in Refund,
         NEW s \in {"created", "pending", "succeeded", "failed"},
         \A q \in Refund \ {r} : RefundOrder[q] = RefundOrder[r] => ~Unsettled(q),
         refund' = [refund EXCEPT ![r] = s],
         \A q \in Refund \ {r} : claim'[q] = claim[q],
         claim'[r] = ClaimFor(s),
         \A p \in Order \ {RefundOrder[r]} : pay'[p] = pay[p],
         pay'[RefundOrder[r]] = "refund_pending" <=> s \in {"created", "pending"}
  PROVE  RefundStatesAgree'
<1>1. RefundStatesAgree /\ RecTypeOK
  BY DEF RecoveryInv
<1>2. refund'[r] = s /\ \A q \in Refund \ {r} : refund'[q] = refund[q]
  BY <1>1 DEF RecTypeOK
<1>3. Unsettled(r)' <=> s \in {"created", "pending"}
  BY <1>2 DEF Unsettled
<1>4. \A q \in Refund \ {r} : Unsettled(q)' <=> Unsettled(q)
  BY <1>2 DEF Unsettled
<1>5. ASSUME NEW o \in Order
      PROVE  pay'[o] = "refund_pending" <=>
               \E q \in Refund : RefundOrder[q] = o /\ Unsettled(q)'
  <2>1. CASE o = RefundOrder[r]
    BY <1>3, <1>4, <2>1
  <2>2. CASE o # RefundOrder[r]
    BY <1>1, <1>4, <2>2 DEF RefundStatesAgree
  <2> QED
    BY <2>1, <2>2
<1>6. ASSUME NEW p \in Refund, NEW q \in Refund, Unsettled(p)', Unsettled(q)',
             RefundOrder[p] = RefundOrder[q]
      PROVE  p = q
  BY <1>1, <1>4, <1>6 DEF RefundStatesAgree
<1>7. ASSUME NEW q \in Refund PROVE claim'[q] = ClaimFor(refund'[q])
  <2>1. CASE q = r
    BY <1>2, <2>1
  <2>2. CASE q # r
    BY <1>1, <1>2, <2>2 DEF RefundStatesAgree, ClaimFor
  <2> QED
    BY <2>1, <2>2
<1> QED
  BY <1>5, <1>6, <1>7 DEF RefundStatesAgree, ClaimFor

(* Once a refund is settled nobody settles it again: its order has one     *)
(* unsettled refund at most.                                               *)
LEMMA OnlyUnsettled ==
  ASSUME RecoveryInv, NEW r \in Refund, Unsettled(r)
  PROVE  /\ \A q \in Refund \ {r} : RefundOrder[q] = RefundOrder[r] => ~Unsettled(q)
         /\ pay[RefundOrder[r]] = "refund_pending" /\ claim[r] = "open"
         /\ RefundOrder[r] \in Order
<1>1. RefundOrder[r] \in Order
  BY RecoveryConstants
<1>2. claim[r] = "open"
  BY DEF RecoveryInv, RefundStatesAgree, Unsettled
<1> QED
  BY <1>1, <1>2 DEF RecoveryInv, RefundStatesAgree

(* A refund is reserved.                                                   *)
LEMMA BeginKeeps ==
  ASSUME RecoveryInv, NEW r \in Refund, BeginRefund(r)
  PROVE  RecoveryInv'
<1> DEFINE o == RefundOrder[r]
<1>1. RecTypeOK /\ CreditedExactlyOnce /\ RowsOK
  BY DEF RecoveryInv
<1>2. /\ refund[r] = "none" /\ Refundable(o) /\ ReserveReward(o)
      /\ refund' = [refund EXCEPT ![r] = "created"]
      /\ claim' = [claim EXCEPT ![r] = "open"]
      /\ pay' = [pay EXCEPT ![o] = "refund_pending"]
      /\ recent' = recent \cup {r} /\ rcalls' = rcalls \cup {CreateCall(r)}
      /\ UNCHANGED <<ful, hold, userHold, lapsed, attemptVars, eventVars, spent,
                     ent, comm, calls, crashes, disp, rprov>>
  BY DEF BeginRefund
<1>3. o \in Order
  BY RecoveryConstants
<1> HIDE DEF o
<1>4. pay[o] = "paid" /\ EnsureRecovery(o) /\ ~(Kind[o] = "plan" /\ ful[o] = "fulfilled")
  BY <1>2 DEF Refundable
<1>5. rec[o].recovered = 0
  BY <1>1, <1>2, <1>3, <1>4, FirstRow DEF Refundable
<1>6. RowBooked(o) /\ rec'[o].row /\ rec'[o].orig = ledger[o]["fulfillment"]
  BY <1>1, <1>2, <1>3, <1>4, <1>5, ReserveStep
<1>7. /\ CreditedExactlyOnce' /\ RowsOK'
      /\ rec' \in [Order -> RecoveryRows] /\ ledger' \in [Order -> LedgerRows]
  BY <1>2, <1>3, <1>6, BookedKeeps
<1>8. /\ pay' \in [Order -> Lifecycle!PaymentStates] /\ pay'[o] = "refund_pending"
      /\ \A p \in Order \ {o} : pay'[p] = pay[p]
  BY <1>1, <1>2, <1>3 DEF RecTypeOK, TypeOK, Lifecycle!PaymentStates
<1>9. TypeOK' /\ CallsMatch'
  <2>1. balance' \in [User -> Int]
    BY <1>6 DEF RowBooked
  <2>2. /\ hold' \in [Order -> BOOLEAN] /\ userHold' \in [User -> BOOLEAN]
        /\ ent' \in [Order -> {"none", "active", "suspended", "revoked"}]
        /\ comm' \in [Order -> {"none", "code", "claim", "reversed"}]
    BY <1>1, <1>2 DEF RecTypeOK, TypeOK
  <2> QED
    BY <1>2, <1>7, <1>8, <2>1, <2>2, PaymentRowsKept
<1>10. RecTypeOK'
  <2>1. refund' \in [Refund -> {"none", "created", "pending", "succeeded", "failed"}]
    BY <1>1, <1>2 DEF RecTypeOK
  <2>2. claim' \in [Claim -> {"none", "open", "resolved", "consumed"}]
    BY <1>1, <1>2 DEF RecTypeOK
  <2>3. recent' \subseteq Refund /\ rcalls' \subseteq RefundCall
    BY <1>1, <1>2, RefundCallTypes DEF RecTypeOK
  <2> QED
    BY <1>1, <1>2, <1>7, <1>9, <2>1, <2>2, <2>3 DEF RecTypeOK, RecoveryRows
<1>11. RefundStatesAgree'
  <2>1. \A q \in Refund \ {r} : RefundOrder[q] = RefundOrder[r] => ~Unsettled(q)
    BY <1>3, <1>4 DEF RecoveryInv, RefundStatesAgree, o
  <2>2. r \in Claim /\ claim'[r] = ClaimFor("created") /\ \A q \in Refund \ {r} : claim'[q] = claim[q]
    BY <1>1, <1>2 DEF RecTypeOK, ClaimFor, Claim
  <2>3. /\ \A p \in Order \ {RefundOrder[r]} : pay'[p] = pay[p]
        /\ pay'[RefundOrder[r]] = "refund_pending"
    BY <1>8 DEF o
  <2> QED
    BY <1>2, <2>1, <2>2, <2>3, RefundMoves
<1>12. AnswersTrue' /\ SucceededMeansReturned'
  <2>1. CreateCall(r).op = "create"
    BY DEF CreateCall
  <2>2. \A q \in Refund : refund'[q] = "succeeded" => refund[q] = "succeeded"
    BY <1>1, <1>2 DEF RecTypeOK
  <2> QED
    BY <1>2, <2>1, <2>2 DEF RecoveryInv, AnswersTrue, SucceededMeansReturned
<1>13. PlansEntitle'
  BY <1>2 DEF RecoveryInv, PlansEntitle
<1>14. ReturnTracked'
  BY <1>2, <1>3, <1>4, <1>6, <1>8, TrackedKeeps
<1>15. DisputeHoldsOrder'
  <2>1. \A d \in Dispute : claim'[d] = claim[d]
    BY <1>1, <1>2, RecoveryConstants DEF RecTypeOK, Claim
  <2> QED
    BY <1>2, <2>1 DEF RecoveryInv, DisputeHoldsOrder
<1> QED
  BY <1>7, <1>9, <1>10, <1>11, <1>12, <1>13, <1>14, <1>15 DEF RecoveryInv

(* The provider's refund id, or its "pending", is stored.                  *)
LEMMA MarkKeeps ==
  ASSUME RecoveryInv, NEW c \in rcalls, MarkRefundPending(c)
  PROVE  RecoveryInv'
<1> USE DEF payVars, orderVars, attemptVars, eventVars, moneyVars
<1>1. RecTypeOK /\ AnswersTrue /\ SucceededMeansReturned
  BY DEF RecoveryInv
<1>2. /\ c.op = "project" /\ UNCHANGED <<payVars, claim, rec, disp, rprov, recent>>
      /\ refund' = IF refund[c.ref] = "created"
                   THEN [refund EXCEPT ![c.ref] = "pending"] ELSE refund
      /\ rcalls' \subseteq rcalls \cup {ProjectCall(c.ref, c.result, FALSE)}
  BY DEF MarkRefundPending
<1>3. c.ref \in Refund /\ c.result \in {"pending", "succeeded", "failed"}
  BY <1>1, <1>2 DEF RecTypeOK, RefundCall
<1>4. rcalls' \subseteq RefundCall
  <2>1. ProjectCall(c.ref, c.result, FALSE) \in RefundCall
    BY <1>3, RefundCallTypes
  <2> QED
    BY <1>1, <1>2, <2>1 DEF RecTypeOK
<1>5. refund' \in [Refund -> {"none", "created", "pending", "succeeded", "failed"}]
  BY <1>1, <1>2 DEF RecTypeOK
<1>6. RecTypeOK' /\ CallsMatch'
  BY <1>1, <1>2, <1>4, <1>5 DEF RecoveryInv, RecTypeOK, TypeOK, CallsMatch
<1>7. AnswersTrue' /\ SucceededMeansReturned'
  <2>1. /\ ProjectCall(c.ref, c.result, FALSE).ref = c.ref
        /\ ProjectCall(c.ref, c.result, FALSE).result = c.result
    BY DEF ProjectCall
  <2>2. \A q \in Refund : refund'[q] = "succeeded" => refund[q] = "succeeded"
    BY <1>1, <1>2 DEF RecTypeOK
  <2>3. AnswersTrue'
    BY <1>1, <1>2, <2>1 DEF AnswersTrue
  <2> QED
    BY <1>1, <1>2, <2>2, <2>3 DEF SucceededMeansReturned
<1>8. RefundStatesAgree'
  <2>1. CASE refund[c.ref] = "created"
    <3>1. Unsettled(c.ref)
      BY <2>1 DEF Unsettled
    <3>2. claim'[c.ref] = ClaimFor("pending")
      BY <1>2, <1>3, <3>1, OnlyUnsettled DEF ClaimFor
    <3> QED
      BY <1>2, <1>3, <2>1, <3>1, <3>2, OnlyUnsettled, RefundMoves
  <2>2. CASE refund[c.ref] # "created"
    BY <1>2, <2>2 DEF RecoveryInv, RefundStatesAgree, Unsettled
  <2> QED
    BY <2>1, <2>2
<1>9. CreditedExactlyOnce' /\ RowsOK'
  BY <1>2 DEF RecoveryInv, CreditedExactlyOnce, RowsOK, RowOK
<1>10. PlansEntitle' /\ ReturnTracked' /\ DisputeHoldsOrder'
  BY <1>2 DEF RecoveryInv, PlansEntitle, ReturnTracked, DisputeHoldsOrder
<1> QED
  BY <1>6, <1>7, <1>8, <1>9, <1>10 DEF RecoveryInv

(* What the two transactions that settle a refund leave alone.             *)
SettleFrame ==
  /\ rcalls' \subseteq rcalls
  /\ UNCHANGED <<ful, hold, userHold, lapsed, attemptVars, eventVars, spent,
                 ent, calls, crashes, disp, rprov, recent>>

(* A refund settles, completed or rejected, with its claim and its order.  *)
LEMMA SettleKeeps ==
  ASSUME RecoveryInv, SettleFrame, NEW r \in Refund, Unsettled(r),
         NEW s \in {"succeeded", "failed"}, NEW ps \in {"paid", "refunded"},
         refund' = [refund EXCEPT ![r] = s],
         claim' = [claim EXCEPT ![r] = ClaimFor(s)],
         pay' = [pay EXCEPT ![RefundOrder[r]] = ps],
         comm' \in [Order -> {"none", "code", "claim", "reversed"}],
         \A p \in Order \ {RefundOrder[r]} : comm'[p] = comm[p],
         s = "succeeded" => rprov[r] = "succeeded",
         RowBooked(RefundOrder[r]),
         ps = "refunded" => /\ rec'[RefundOrder[r]].recovered = rec'[RefundOrder[r]].orig
                            /\ comm'[RefundOrder[r]] \in {"none", "reversed"}
  PROVE  RecoveryInv'
<1> DEFINE o == RefundOrder[r]
<1>1. RecTypeOK /\ AnswersTrue /\ SucceededMeansReturned /\ ReturnTracked
  BY DEF RecoveryInv
<1>2. /\ \A q \in Refund \ {r} : RefundOrder[q] = o => ~Unsettled(q)
      /\ pay[o] = "refund_pending" /\ claim[r] = "open" /\ o \in Order
  BY OnlyUnsettled
<1>3. /\ CreditedExactlyOnce' /\ RowsOK'
      /\ rec' \in [Order -> RecoveryRows] /\ ledger' \in [Order -> LedgerRows]
  BY <1>2, BookedKeeps DEF SettleFrame
<1>4. /\ pay' \in [Order -> Lifecycle!PaymentStates] /\ pay'[o] = ps
      /\ \A p \in Order \ {o} : pay'[p] = pay[p]
  BY <1>1, <1>2 DEF RecTypeOK, TypeOK, Lifecycle!PaymentStates
<1>5. TypeOK' /\ CallsMatch'
  <2>1. balance' \in [User -> Int]
    BY DEF RowBooked
  <2>2. /\ hold' \in [Order -> BOOLEAN] /\ userHold' \in [User -> BOOLEAN]
        /\ ent' \in [Order -> {"none", "active", "suspended", "revoked"}]
    BY <1>1 DEF RecTypeOK, TypeOK, SettleFrame
  <2> QED
    BY <1>3, <1>4, <2>1, <2>2, PaymentRowsKept DEF SettleFrame
<1>6. RecTypeOK'
  <2>1. refund' \in [Refund -> {"none", "created", "pending", "succeeded", "failed"}]
    BY <1>1 DEF RecTypeOK
  <2>2. claim' \in [Claim -> {"none", "open", "resolved", "consumed"}]
    BY <1>1 DEF RecTypeOK, ClaimFor
  <2>3. rcalls' \subseteq RefundCall
    BY <1>1 DEF RecTypeOK, SettleFrame
  <2> QED
    BY <1>1, <1>3, <1>5, <2>1, <2>2, <2>3 DEF RecTypeOK, RecoveryRows, SettleFrame
<1>7. RefundStatesAgree'
  <2>1. claim'[r] = ClaimFor(s) /\ \A q \in Refund \ {r} : claim'[q] = claim[q]
    BY <1>1 DEF RecTypeOK, Claim
  <2> QED
    BY <1>2, <1>4, <2>1, RefundMoves
<1>8. AnswersTrue' /\ SucceededMeansReturned'
  <2>1. refund'[r] = s /\ \A q \in Refund \ {r} : refund'[q] = refund[q]
    BY <1>1 DEF RecTypeOK
  <2> QED
    BY <1>1, <2>1 DEF AnswersTrue, SucceededMeansReturned, SettleFrame
<1>9. PlansEntitle'
  BY DEF RecoveryInv, PlansEntitle, SettleFrame
<1>10. ReturnTracked'
  <2>1. /\ rec[o].row /\ rec[o].orig = ledger[o]["fulfillment"]
        /\ ~(Kind[o] = "plan" /\ ful[o] = "fulfilled")
    BY <1>1, <1>2 DEF ReturnTracked
  <2>2. rec'[o].row /\ rec'[o].orig = rec[o].orig
    <3>1. rec \in [Order -> RecoveryRows]
      BY <1>1 DEF RecTypeOK, RecoveryRows
    <3> QED
      BY <1>2, <2>1, <3>1 DEF RowBooked
  <2>3. UNCHANGED ful
    BY DEF SettleFrame
  <2>4. ASSUME NEW p \in Order, pay'[p] \in Returning
        PROVE  \/ pay'[p] = pay[p] /\ comm'[p] = comm[p]
               \/ /\ p = o /\ rec'[o].row /\ rec'[o].orig = ledger[o]["fulfillment"]
                  /\ ~(Kind[o] = "plan" /\ ful[o] = "fulfilled")
                  /\ pay'[o] = "refunded" =>
                       rec'[o].recovered = rec'[o].orig /\ comm'[o] \in {"none", "reversed"}
    BY <1>4, <2>1, <2>2, <2>4
  <2> HIDE DEF o
  <2> QED
    BY <1>2, <2>3, <2>4, TrackedKeeps DEF o
<1>11. DisputeHoldsOrder'
  <2>1. \A d \in Dispute : claim'[d] = claim[d]
    BY <1>1, RecoveryConstants DEF RecTypeOK, Claim
  <2> QED
    BY <2>1 DEF RecoveryInv, DisputeHoldsOrder, SettleFrame
<1> QED
  BY <1>3, <1>5, <1>6, <1>7, <1>8, <1>9, <1>10, <1>11 DEF RecoveryInv

(* A refund the provider paid back is completed.                           *)
LEMMA CompleteKeeps ==
  ASSUME RecoveryInv, SettleFrame, NEW r \in Refund, rprov[r] = "succeeded",
         CanComplete(r), CompleteRefund(r)
  PROVE  RecoveryInv'
<1> DEFINE o == RefundOrder[r]
<1>1. Unsettled(r) /\ (rec[o].orig # 0 => rec[o].reserved = rec[o].orig)
  BY DEF CanComplete
<1>2. claim[r] = "open" /\ o \in Order /\ RecTypeOK /\ RowsOK
  BY <1>1, OnlyUnsettled DEF RecoveryInv
<1>3. /\ refund' = [refund EXCEPT ![r] = "succeeded"]
      /\ RecoverReward(o) /\ UNCHANGED <<ledger, balance>>
      /\ pay' = [pay EXCEPT ![o] = "refunded"] /\ ReverseCommission(o)
  BY DEF CompleteRefund
<1>4. claim' = [claim EXCEPT ![r] = ClaimFor("succeeded")]
  BY <1>2 DEF CompleteRefund, ClaimFor
<1>5. /\ comm' \in [Order -> {"none", "code", "claim", "reversed"}]
      /\ \A p \in Order \ {o} : comm'[p] = comm[p]
      /\ comm'[o] \in {"none", "reversed"}
  BY <1>2, <1>3 DEF ReverseCommission, RecTypeOK, TypeOK
<1>6. RowBooked(o) /\ rec'[o].recovered = rec'[o].orig
  BY <1>1, <1>2, <1>3, TakeStep
<1> QED
  BY <1>1, <1>3, <1>4, <1>5, <1>6, SettleKeeps

(* A refund the provider rejects is given up.                              *)
LEMMA RejectKeeps ==
  ASSUME RecoveryInv, SettleFrame, NEW r \in Refund, CanReject(r), RejectRefund(r)
  PROVE  RecoveryInv'
<1> DEFINE o == RefundOrder[r]
<1>1. Unsettled(r)
  BY DEF CanReject
<1>2. claim[r] = "open" /\ o \in Order /\ RecTypeOK /\ RowsOK /\ pay[o] = "refund_pending"
  BY <1>1, OnlyUnsettled DEF RecoveryInv
<1>3. refund' = [refund EXCEPT ![r] = "failed"] /\ UNCHANGED comm
  BY DEF RejectRefund
<1>4. /\ claim' = [claim EXCEPT ![r] = ClaimFor("failed")]
      /\ pay' = [pay EXCEPT ![o] = "paid"]
  BY <1>2 DEF RejectRefund, ClaimFor
<1>5. comm' \in [Order -> {"none", "code", "claim", "reversed"}]
  BY <1>2, <1>3 DEF RecTypeOK, TypeOK
<1>6. RowBooked(o)
  <2>1. CASE ~OtherOpen(r) /\ rec[o].recovered = 0 /\ rec[o].reserved # 0
    BY <1>2, <2>1, ReleaseStep DEF RejectRefund
  <2>2. CASE ~(~OtherOpen(r) /\ rec[o].recovered = 0 /\ rec[o].reserved # 0)
    BY <1>2, <2>2, KeepStep DEF RejectRefund
  <2> QED
    BY <2>1, <2>2
<1> QED
  BY <1>1, <1>3, <1>4, <1>5, <1>6, SettleKeeps

(* The transaction finds that there is nothing to settle.                  *)
LEMMA IdleKeeps ==
  ASSUME RecoveryInv, SettleFrame,
         UNCHANGED <<refund, claim, rec, pay, comm, ledger, balance>>
  PROVE  RecoveryInv'
<1>1. UNCHANGED payVars
  BY DEF SettleFrame, payVars, orderVars, moneyVars
<1>2. AnswersTrue' /\ SucceededMeansReturned'
  BY DEF RecoveryInv, AnswersTrue, SucceededMeansReturned, SettleFrame
<1> QED
  BY <1>1, <1>2, QuietKeeps DEF RecoveryInv, RecTypeOK, SettleFrame

(* Both transactions that settle a refund: on its own, or fenced.          *)
LEMMA SettlementKeeps ==
  ASSUME RecoveryInv, NEW c \in rcalls, SettleRefund(c) \/ SettleFenced(c)
  PROVE  RecoveryInv'
<1>1. RecTypeOK /\ AnswersTrue
  BY DEF RecoveryInv
<1>2. c.ref \in Refund /\ c.op # "create"
  BY <1>1 DEF RecTypeOK, RefundCall, SettleRefund, SettleFenced
<1>3. c.result = "succeeded" => rprov[c.ref] = "succeeded"
  BY <1>1, <1>2 DEF AnswersTrue
<1>4. SettleFrame
  BY DEF SettleFrame, SettleRefund, SettleFenced
<1>5. \/ c.result = "succeeded" /\ CanComplete(c.ref) /\ CompleteRefund(c.ref)
      \/ CanReject(c.ref) /\ RejectRefund(c.ref)
      \/ UNCHANGED <<refund, claim, rec, pay, comm, ledger, balance>>
  BY DEF SettleRefund, SettleFenced
<1> QED
  BY <1>2, <1>3, <1>4, <1>5, CompleteKeeps, RejectKeeps, IdleKeeps

(* A dispute opens, is won or is lost: what all three leave alone.         *)
LEMMA DisputeKeeps ==
  ASSUME RecoveryInv, NEW d \in Dispute, RowBooked(DisputeOrder[d]),
         UNCHANGED <<pay, ful, lapsed, attemptVars, eventVars, spent, comm,
                     calls, crashes, refund, rprov, recent, rcalls>>,
         NEW s \in {"open", "resolved", "consumed"}, claim' = [claim EXCEPT ![d] = s],
         disp' \in [Order -> {"none", "open", "won", "lost"}],
         hold' \in [Order -> BOOLEAN], userHold' \in [User -> BOOLEAN],
         ent' \in [Order -> {"none", "active", "suspended", "revoked"}],
         \A p \in Order : ent'[p] # "none" => ent[p] # "none",
         DisputeHoldsOrder'
  PROVE  RecoveryInv'
<1> DEFINE o == DisputeOrder[d]
<1>1. RecTypeOK /\ o \in Order
  BY RecoveryConstants DEF RecoveryInv
<1>2. /\ CreditedExactlyOnce' /\ RowsOK'
      /\ rec' \in [Order -> RecoveryRows] /\ ledger' \in [Order -> LedgerRows]
  BY <1>1, BookedKeeps
<1>3. TypeOK' /\ CallsMatch'
  <2>1. balance' \in [User -> Int]
    BY DEF RowBooked
  <2>2. /\ pay' \in [Order -> Lifecycle!PaymentStates]
        /\ comm' \in [Order -> {"none", "code", "claim", "reversed"}]
    BY <1>1 DEF RecTypeOK, TypeOK
  <2> QED
    BY <1>2, <2>1, <2>2, PaymentRowsKept
<1>4. RecTypeOK'
  <2>1. claim' \in [Claim -> {"none", "open", "resolved", "consumed"}]
    BY <1>1 DEF RecTypeOK
  <2> QED
    BY <1>1, <1>2, <1>3, <2>1 DEF RecTypeOK, RecoveryRows
<1>5. RefundStatesAgree'
  <2>1. \A r \in Refund : claim'[r] = claim[r]
    BY <1>1, RecoveryConstants DEF RecTypeOK, Claim
  <2> QED
    BY <2>1 DEF RecoveryInv, RefundStatesAgree, Unsettled
<1>6. AnswersTrue' /\ SucceededMeansReturned'
  BY DEF RecoveryInv, AnswersTrue, SucceededMeansReturned
<1>7. PlansEntitle'
  BY DEF RecoveryInv, PlansEntitle
<1>8. ReturnTracked'
  BY <1>1, TrackedKeeps
<1> QED
  BY <1>2, <1>3, <1>4, <1>5, <1>6, <1>7, <1>8 DEF RecoveryInv

(* A hold that is set is set on the order and on its buyer.                *)
LEMMA HoldSet ==
  ASSUME RecoveryInv, NEW o \in Order, NEW value \in BOOLEAN, SetHold(o, value)
  PROVE  /\ hold' \in [Order -> BOOLEAN] /\ userHold' \in [User -> BOOLEAN]
         /\ hold'[o] = value /\ \A p \in Order \ {o} : hold'[p] = hold[p]
<1>1. hold \in [Order -> BOOLEAN] /\ userHold \in [User -> BOOLEAN]
  BY DEF RecoveryInv, RecTypeOK, TypeOK
<1>2. hold' = [hold EXCEPT ![o] = value] /\ userHold' = [userHold EXCEPT ![UserOf[o]] = value]
  BY DEF SetHold
<1> QED
  BY <1>1, <1>2

(* A dispute opens: the order is held before anything else can happen.     *)
LEMMA OpenKeeps ==
  ASSUME RecoveryInv, NEW d \in Dispute, OpenClaim(d)
  PROVE  RecoveryInv'
<1> DEFINE o == DisputeOrder[d]
<1>1. /\ RecTypeOK /\ CreditedExactlyOnce /\ RowsOK /\ DisputeHoldsOrder /\ o \in Order
      /\ ent \in [Order -> {"none", "active", "suspended", "revoked"}]
  BY RecoveryConstants DEF RecoveryInv, RecTypeOK, TypeOK
<1>2. /\ EnsureRecovery(o) /\ ReserveAvailable(o) /\ SetHold(o, TRUE)
      /\ claim' = [claim EXCEPT ![d] = "open"] /\ disp' = [disp EXCEPT ![o] = "open"]
      /\ ent' = [ent EXCEPT ![o] = IF @ = "active" THEN "suspended" ELSE @]
      /\ UNCHANGED <<pay, ful, lapsed, attemptVars, eventVars, spent, comm,
                     calls, crashes, refund, rprov, recent, rcalls>>
  BY DEF OpenClaim
<1>3. RowBooked(o)
  BY <1>1, <1>2, ReserveStep
<1>4. /\ hold' \in [Order -> BOOLEAN] /\ userHold' \in [User -> BOOLEAN]
      /\ hold'[o] = TRUE /\ \A p \in Order \ {o} : hold'[p] = hold[p]
  BY <1>1, <1>2, HoldSet
<1>5. /\ ent' \in [Order -> {"none", "active", "suspended", "revoked"}]
      /\ ent'[o] # "active" /\ \A p \in Order \ {o} : ent'[p] = ent[p]
      /\ \A p \in Order : ent'[p] # "none" => ent[p] # "none"
  BY <1>1, <1>2
<1>6. disp' \in [Order -> {"none", "open", "won", "lost"}]
  BY <1>1, <1>2 DEF RecTypeOK
<1>7. DisputeHoldsOrder'
  <2> SUFFICES ASSUME NEW x \in Dispute, claim'[x] = "open"
               PROVE  hold'[DisputeOrder[x]] /\ ent'[DisputeOrder[x]] # "active"
    BY DEF DisputeHoldsOrder
  <2>1. CASE DisputeOrder[x] = o
    BY <1>4, <1>5, <2>1
  <2>2. CASE DisputeOrder[x] # o
    <3>1. claim[x] = "open" /\ DisputeOrder[x] \in Order
      BY <1>1, <1>2, <2>2, RecoveryConstants DEF RecTypeOK, Claim
    <3> QED
      BY <1>1, <1>4, <1>5, <2>2, <3>1 DEF DisputeHoldsOrder
  <2> QED
    BY <2>1, <2>2
<1> QED
  BY <1>2, <1>3, <1>4, <1>5, <1>6, <1>7, DisputeKeeps

(* A dispute is lost: the plan is revoked and the hold stays.              *)
LEMMA LoseKeeps ==
  ASSUME RecoveryInv, NEW d \in Dispute, LoseClaim(d)
  PROVE  RecoveryInv'
<1> DEFINE o == DisputeOrder[d]
<1>1. /\ RecTypeOK /\ RowsOK /\ DisputeHoldsOrder /\ o \in Order
      /\ ent \in [Order -> {"none", "active", "suspended", "revoked"}]
  BY RecoveryConstants DEF RecoveryInv, RecTypeOK, TypeOK
<1>2. /\ SetHold(o, TRUE)
      /\ claim' = [claim EXCEPT ![d] = "consumed"] /\ disp' = [disp EXCEPT ![o] = "lost"]
      /\ ent' = [ent EXCEPT ![o] = IF @ = "none" THEN @ ELSE "revoked"]
      /\ UNCHANGED <<pay, ful, lapsed, attemptVars, eventVars, spent, comm,
                     calls, crashes, refund, rprov, recent, rcalls>>
  BY DEF LoseClaim
<1>3. RowBooked(o)
  BY <1>1, LoseStep
<1>4. /\ hold' \in [Order -> BOOLEAN] /\ userHold' \in [User -> BOOLEAN]
      /\ hold'[o] = TRUE /\ \A p \in Order \ {o} : hold'[p] = hold[p]
  BY <1>1, <1>2, HoldSet
<1>5. /\ ent' \in [Order -> {"none", "active", "suspended", "revoked"}]
      /\ ent'[o] # "active" /\ \A p \in Order \ {o} : ent'[p] = ent[p]
      /\ \A p \in Order : ent'[p] # "none" => ent[p] # "none"
  BY <1>1, <1>2
<1>6. disp' \in [Order -> {"none", "open", "won", "lost"}]
  BY <1>1, <1>2 DEF RecTypeOK
<1>7. DisputeHoldsOrder'
  <2> SUFFICES ASSUME NEW x \in Dispute, claim'[x] = "open"
               PROVE  hold'[DisputeOrder[x]] /\ ent'[DisputeOrder[x]] # "active"
    BY DEF DisputeHoldsOrder
  <2>1. CASE DisputeOrder[x] = o
    BY <1>4, <1>5, <2>1
  <2>2. CASE DisputeOrder[x] # o
    <3>1. claim[x] = "open" /\ DisputeOrder[x] \in Order
      BY <1>1, <1>2, <2>2, RecoveryConstants DEF RecTypeOK, Claim
    <3> QED
      BY <1>1, <1>4, <1>5, <2>2, <3>1 DEF DisputeHoldsOrder
  <2> QED
    BY <2>1, <2>2
<1> QED
  BY <1>2, <1>3, <1>4, <1>5, <1>6, <1>7, DisputeKeeps

(* A dispute is won: the hold is lifted only with the last open claim.     *)
LEMMA WinKeeps ==
  ASSUME RecoveryInv, NEW d \in Dispute, NEW running \in BOOLEAN, WinClaim(d, running)
  PROVE  RecoveryInv'
<1> DEFINE o == DisputeOrder[d]
<1>1. /\ RecTypeOK /\ RowsOK /\ DisputeHoldsOrder /\ o \in Order
      /\ ent \in [Order -> {"none", "active", "suspended", "revoked"}]
      /\ hold \in [Order -> BOOLEAN] /\ userHold \in [User -> BOOLEAN]
  BY RecoveryConstants DEF RecoveryInv, RecTypeOK, TypeOK
<1>2. /\ claim' = [claim EXCEPT ![d] = "resolved"]
      /\ UNCHANGED <<pay, ful, lapsed, attemptVars, eventVars, spent, comm,
                     calls, crashes, refund, rprov, recent, rcalls>>
  BY DEF WinClaim
<1>3. RowBooked(o)
  <2>1. CASE ~OtherOpen(d) /\ rec[o].reserved # 0 /\ rec[o].recovered = 0
    BY <1>1, <2>1, ReleaseStep DEF WinClaim
  <2>2. CASE ~(~OtherOpen(d) /\ rec[o].reserved # 0 /\ rec[o].recovered = 0)
    BY <1>1, <2>2, KeepStep DEF WinClaim
  <2> QED
    BY <2>1, <2>2
<1>4. \A x \in Dispute : claim'[x] = "open" => claim[x] = "open" /\ x # d
  BY <1>1, <1>2 DEF RecTypeOK, Claim
<1>5. CASE UNCHANGED <<disp, hold, userHold, ent>>
  <2>1. DisputeHoldsOrder'
    BY <1>1, <1>4, <1>5 DEF DisputeHoldsOrder
  <2> QED
    BY <1>1, <1>2, <1>3, <1>5, <2>1, DisputeKeeps DEF RecTypeOK
<1>6. CASE /\ ~OtherOpen(d) /\ disp' = [disp EXCEPT ![o] = "won"] /\ SetHold(o, FALSE)
           /\ ent' = [ent EXCEPT ![o] = IF @ = "suspended" /\ running THEN "active" ELSE @]
  <2>1. /\ hold' \in [Order -> BOOLEAN] /\ userHold' \in [User -> BOOLEAN]
        /\ \A p \in Order \ {o} : hold'[p] = hold[p]
    BY <1>1, <1>6, HoldSet
  <2>2. /\ ent' \in [Order -> {"none", "active", "suspended", "revoked"}]
        /\ \A p \in Order \ {o} : ent'[p] = ent[p]
        /\ \A p \in Order : ent'[p] # "none" => ent[p] # "none"
    BY <1>1, <1>6
  <2>3. disp' \in [Order -> {"none", "open", "won", "lost"}]
    BY <1>1, <1>6 DEF RecTypeOK
  <2>4. ASSUME NEW x \in Dispute, claim'[x] = "open"
        PROVE  DisputeOrder[x] \in Order /\ DisputeOrder[x] # o
    <3>1. x \in Claim \ {d} /\ claim[x] = "open"
      BY <1>4, <2>4 DEF Claim
    <3>2. ClaimOrder[x] = DisputeOrder[x] /\ ClaimOrder[d] = o
      BY RecoveryConstants DEF ClaimOrder, Claim
    <3> QED
      BY <1>6, <3>1, <3>2, RecoveryConstants DEF OtherOpen
  <2>5. DisputeHoldsOrder'
    BY <1>1, <1>4, <2>1, <2>2, <2>4 DEF DisputeHoldsOrder
  <2> QED
    BY <1>2, <1>3, <2>1, <2>2, <2>3, <2>5, DisputeKeeps
<1> QED
  BY <1>5, <1>6 DEF WinClaim

-----------------------------------------------------------------------------
(* Every step keeps the invariant.                                         *)
LEMMA RecoveryStep == RecoveryInv /\ [RecNext]_allVars => RecoveryInv'
<1> SUFFICES ASSUME RecoveryInv, [RecNext]_allVars PROVE RecoveryInv'
  OBVIOUS
<1>1. ASSUME Step, UNCHANGED recVars PROVE RecoveryInv'
  BY <1>1, PaymentKeeps DEF Next, recVars
<1>2. ASSUME Restart PROVE RecoveryInv'
  BY <1>2, PaymentKeeps DEF Next, Restart
<1>3. ASSUME NEW r \in Refund,
             \/ AnswerCreate(r) \/ ReplayRefund(r) \/ AdminQueryRefund(r) \/ ReconcileRefund(r)
      PROVE  RecoveryInv'
  <2>1. UNCHANGED <<payVars, refund, claim, rec, disp, rprov, recent>>
    BY <1>3 DEF AnswerCreate, ReplayRefund, AdminQueryRefund, ReconcileRefund, QueryRefund
  <2>2. PICK ans \in CreateAnswers(r) \cup QueryAnswers(r) :
          \/ rcalls' \subseteq rcalls \cup {ProjectCall(r, ans[1], ans[2])}
          \/ rcalls' \subseteq rcalls \cup {FencedCall(r, ans[1])}
    <3>1. CASE AnswerCreate(r)
      BY <3>1 DEF AnswerCreate
    <3>2. CASE QueryRefund(r)
      BY <3>2 DEF QueryRefund
    <3>3. CASE ReconcileRefund(r)
      BY <3>3 DEF ReconcileRefund
    <3> QED
      BY <1>3, <3>1, <3>2, <3>3 DEF ReplayRefund, AdminQueryRefund
  <2> QED
    BY <2>1, <2>2, AnswerKeeps
<1>4. ASSUME RefundAges PROVE RecoveryInv'
  <2>1. AnswersTrue' /\ SucceededMeansReturned'
    BY <1>4 DEF RefundAges, RecoveryInv, AnswersTrue, SucceededMeansReturned
  <2> QED
    BY <1>4, <2>1, QuietKeeps DEF RefundAges, RecoveryInv, RecTypeOK
<1>5. ASSUME UNCHANGED allVars PROVE RecoveryInv'
  BY <1>5, PaymentKeeps DEF allVars, recVars
<1> QED
  BY <1>1, <1>2, <1>3, <1>4, <1>5, BeginKeeps, ProviderKeeps, MarkKeeps, SettlementKeeps,
     OpenKeeps, LoseKeeps, WinKeeps
  DEF RecNext, RecStep

(* The invariant of every reachable state.                                 *)
LEMMA RecoverySound == RecSpec => []RecoveryInv
<1>1. RecInit => RecoveryInv
  <2> SUFFICES ASSUME RecInit PROVE RecoveryInv
    OBVIOUS
  <2>1. Init
    BY DEF RecInit
  <2>2. TypeOK /\ CallsMatch /\ CreditedExactlyOnce
    <3>1. TypeOK
      BY <2>1, InitTypes
    <3>2. CallsMatch
      BY <2>1 DEF Init, CallsMatch
    <3>3. CreditedExactlyOnce
      BY <2>1 DEF Init, Lifecycle!Init, CreditedExactlyOnce, LedgerKinds
    <3> QED
      BY <3>1, <3>2, <3>3
  <2>3. RecTypeOK
    BY <2>2 DEF RecInit, RecTypeOK, NoRecovery
  <2>4. RowsOK
    BY <2>1 DEF RecInit, Init, RowsOK, RowOK, NoRecovery, LedgerKinds
  <2>5. RefundStatesAgree
    <3>1. \A o \in Order : pay[o] # "refund_pending"
      BY <2>1 DEF Init, Lifecycle!Init
    <3>2. \A r \in Refund : refund[r] = "none" /\ claim[r] = "none"
      BY DEF RecInit, Claim
    <3> QED
      BY <3>1, <3>2 DEF RefundStatesAgree, Unsettled
  <2>6. AnswersTrue /\ SucceededMeansReturned
    BY DEF RecInit, AnswersTrue, SucceededMeansReturned
  <2>7. PlansEntitle /\ ReturnTracked
    BY <2>1 DEF Init, Lifecycle!Init, PlansEntitle, ReturnTracked
  <2>8. DisputeHoldsOrder
    BY DEF RecInit, DisputeHoldsOrder, Claim
  <2> QED
    BY <2>2, <2>3, <2>4, <2>5, <2>6, <2>7, <2>8 DEF RecoveryInv
<1> QED
  BY <1>1, RecoveryStep, PTL DEF RecSpec

(* However refunds, disputes and chargebacks of an order interleave with   *)
(* each other, with payments and with restarts, recovery.rs takes from the *)
(* buyer exactly what the recovery row says and never more than the reward.*)
THEOREM RewardTakenOnce == RecSpec => []RecoveryBalanced
<1>1. RecoveryInv => RecoveryBalanced
  <2> SUFFICES ASSUME RecoveryInv, NEW o \in Order
               PROVE  /\ rec[o].reserved + rec[o].recovered = -Clawback(o)
                      /\ rec[o].reserved + rec[o].recovered <= rec[o].orig
                      /\ rec[o].orig \in {0, ledger[o]["fulfillment"]}
    BY DEF RecoveryBalanced
  <2> QED
    BY DEF RecoveryInv, RowsOK, RowOK, Clawback
<1> QED
  BY <1>1, RecoverySound, PTL

(* The state of a refund, its claim and its order never disagree, whoever  *)
(* asks the provider and in whatever order the answers are projected.      *)
THEOREM RefundsAgree == RecSpec => []RefundStatesAgree
<1>1. RecoveryInv => RefundStatesAgree
  BY DEF RecoveryInv
<1> QED
  BY <1>1, RecoverySound, PTL

(* A refunded order has returned its whole credit, runs no plan and earns  *)
(* no commission.                                                          *)
THEOREM RefundReturnsAll == RecSpec => []RefundedKeepsNothing
<1>1. RecoveryInv => RefundedKeepsNothing
  <2> SUFFICES ASSUME RecoveryInv, NEW o \in Order, pay[o] = "refunded"
               PROVE  /\ Clawback(o) = -ledger[o]["fulfillment"] /\ ent[o] = "none"
                      /\ comm[o] \in {"none", "reversed"}
    BY DEF RefundedKeepsNothing
  <2>1. /\ rec[o].orig = ledger[o]["fulfillment"] /\ rec[o].recovered = rec[o].orig
        /\ ~(Kind[o] = "plan" /\ ful[o] = "fulfilled") /\ comm[o] \in {"none", "reversed"}
    BY DEF RecoveryInv, ReturnTracked
  <2>2. ent[o] = "none"
    BY <2>1 DEF RecoveryInv, PlansEntitle
  <2>3. /\ rec[o].orig \in Nat /\ rec[o].reserved \in Nat /\ rec[o].recovered \in Nat
        /\ \A k \in LedgerKinds : ledger[o][k] \in Int
    BY DEF RecoveryInv, RecTypeOK, TypeOK
  <2>4. /\ rec[o].reserved + rec[o].recovered = -Clawback(o)
        /\ rec[o].reserved + rec[o].recovered <= rec[o].orig
        /\ Clawback(o) \in Int
    BY <2>3 DEF RecoveryInv, RowsOK, RowOK, Clawback, LedgerKinds
  <2>5. Clawback(o) = -rec[o].orig
    BY <2>1, <2>3, <2>4
  <2> QED
    BY <2>1, <2>2, <2>5
<1> QED
  BY <1>1, RecoverySound, PTL

(* While a dispute is open its order is held and no plan of it runs, also  *)
(* when another dispute of the order is won or a late payment is projected.*)
THEOREM DisputesHold == RecSpec => []DisputeHoldsOrder
<1>1. RecoveryInv => DisputeHoldsOrder
  BY DEF RecoveryInv
<1> QED
  BY <1>1, RecoverySound, PTL

(* A refund counts as succeeded only when the provider paid it back, over  *)
(* delayed, repeated and overtaking answers.                               *)
THEOREM SucceededIsReturned == RecSpec => []SucceededMeansReturned
<1>1. RecoveryInv => SucceededMeansReturned
  BY DEF RecoveryInv
<1> QED
  BY <1>1, RecoverySound, PTL

(* With refunds and disputes the rows still follow state_machine.rs.       *)
THEOREM RecoveryFollowsLifecycle == RecSpec => LifecycleRefined
<1>1. RecInit => Lifecycle!Init
  BY DEF RecInit, Init
<1>2. RecoveryInv /\ [RecNext]_allVars => [Lifecycle!Next]_<<pay, ful>>
  <2> SUFFICES ASSUME RecoveryInv, [RecNext]_allVars PROVE [Lifecycle!Next]_<<pay, ful>>
    OBVIOUS
  <2>1. TypeOK /\ CallsMatch
    BY DEF RecoveryInv, RecTypeOK
  <2>2. ASSUME [Next]_payVars PROVE [Lifecycle!Next]_<<pay, ful>>
    BY <2>1, <2>2, NextOrderStep, LifecycleKept
  <2>3. ASSUME NEW o \in Order, NEW event \in Lifecycle!PaymentEvents, NEW s,
               pay[o] # "none", s \in Lifecycle!TransitionPayment(pay[o], o, event),
               pay' = [pay EXCEPT ![o] = s], UNCHANGED ful
        PROVE  Lifecycle!Next
    BY <2>3 DEF Lifecycle!Next, Lifecycle!PaymentStep
  <2>4. ASSUME NEW r \in Refund, BeginRefund(r) PROVE Lifecycle!Next
    <3> DEFINE o == RefundOrder[r]
    <3>1. /\ o \in Order /\ pay[o] = "paid" /\ UNCHANGED ful
          /\ pay' = [pay EXCEPT ![o] = "refund_pending"]
      BY <2>4, RecoveryConstants DEF BeginRefund, Refundable
    <3>2. "refund_pending" \in Lifecycle!TransitionPayment(pay[o], o, "refund_reserved")
      BY <3>1 DEF Lifecycle!TransitionPayment
    <3> QED
      BY <2>3, <3>1, <3>2 DEF Lifecycle!PaymentEvents
  <2>5. ASSUME NEW c \in rcalls, SettleRefund(c) \/ SettleFenced(c)
        PROVE  Lifecycle!Next \/ UNCHANGED <<pay, ful>>
    <3> DEFINE r == c.ref
               o == RefundOrder[r]
    <3>1. r \in Refund /\ UNCHANGED ful
      BY <2>5 DEF RecoveryInv, RecTypeOK, RefundCall, SettleRefund, SettleFenced
    <3>2. \/ CanComplete(r) /\ CompleteRefund(r)
          \/ CanReject(r) /\ RejectRefund(r)
          \/ UNCHANGED pay
      BY <2>5 DEF SettleRefund, SettleFenced
    <3>3. CASE CanComplete(r) /\ CompleteRefund(r)
      <4>1. /\ o \in Order /\ pay[o] = "refund_pending"
            /\ pay' = [pay EXCEPT ![o] = "refunded"]
        BY <3>1, <3>3, RecoveryConstants DEF CanComplete, CompleteRefund
      <4>2. "refunded" \in Lifecycle!TransitionPayment(pay[o], o, "verified_refund")
        BY <4>1 DEF Lifecycle!TransitionPayment
      <4> QED
        BY <2>3, <3>1, <4>1, <4>2 DEF Lifecycle!PaymentEvents
    <3>4. CASE CanReject(r) /\ RejectRefund(r)
      <4>1. o \in Order /\ pay[o] = "refund_pending"
        BY <3>1, <3>4, OnlyUnsettled DEF CanReject
      <4>2. pay' = [pay EXCEPT ![o] = "paid"]
        BY <3>4, <4>1 DEF RejectRefund
      <4>3. "paid" \in Lifecycle!TransitionPayment(pay[o], o, "definite_refund_rejection")
        BY <4>1 DEF Lifecycle!TransitionPayment
      <4> QED
        BY <2>3, <3>1, <4>1, <4>2, <4>3 DEF Lifecycle!PaymentEvents
    <3> QED
      BY <3>1, <3>2, <3>3, <3>4
  <2>6. ASSUME \/ \E r \in Refund : \/ AnswerCreate(r) \/ ReplayRefund(r) \/ AdminQueryRefund(r)
                                    \/ ReconcileRefund(r) \/ RefundProviderStep(r)
               \/ \E c \in rcalls : MarkRefundPending(c)
               \/ \E d \in Dispute : \/ OpenClaim(d) \/ LoseClaim(d)
                                     \/ \E running \in BOOLEAN : WinClaim(d, running)
               \/ RefundAges \/ UNCHANGED allVars
        PROVE  UNCHANGED <<pay, ful>>
    BY <2>6 DEF AnswerCreate, ReplayRefund, AdminQueryRefund, ReconcileRefund, QueryRefund,
       RefundProviderStep, MarkRefundPending, OpenClaim, LoseClaim, WinClaim, RefundAges,
       allVars, payVars, orderVars
  <2> QED
    BY <2>2, <2>4, <2>5, <2>6 DEF RecNext, RecStep, Next, Restart
<1> QED
  BY <1>1, <1>2, RecoverySound, PTL DEF RecSpec, LifecycleRefined, Lifecycle!Spec

-----------------------------------------------------------------------------
(* Refunds and disputes leave attempts and events alone, and move only     *)
(* orders that are settled, to where they still are.                       *)
SettledMoves ==
  /\ UNCHANGED <<att, obj, ev>>
  /\ \A o \in Order : pay'[o] = pay[o] \/ (pay[o] \in Settled /\ pay'[o] \in Settled)

LEMMA RecoveryStays ==
  ASSUME RecoveryInv, [RecNext]_allVars PROVE [Next]_payVars \/ SettledMoves
<1>1. pay \in [Order -> Lifecycle!PaymentStates]
  BY DEF RecoveryInv, RecTypeOK, TypeOK
<1>2. ASSUME NEW o \in Order, NEW s \in Settled, pay[o] \in Settled,
             pay' = [pay EXCEPT ![o] = s], UNCHANGED <<att, obj, ev>>
      PROVE  SettledMoves
  BY <1>1, <1>2 DEF SettledMoves
<1>3. ASSUME NEW r \in Refund, BeginRefund(r) PROVE SettledMoves
  <2>1. /\ RefundOrder[r] \in Order /\ pay[RefundOrder[r]] = "paid"
        /\ pay' = [pay EXCEPT ![RefundOrder[r]] = "refund_pending"]
        /\ UNCHANGED <<att, obj, ev>>
    BY <1>3, RecoveryConstants DEF BeginRefund, Refundable, attemptVars, eventVars
  <2> QED
    BY <1>2, <2>1 DEF Settled
<1>4. ASSUME NEW c \in rcalls, SettleRefund(c) \/ SettleFenced(c) PROVE SettledMoves
  <2> DEFINE r == c.ref
             o == RefundOrder[r]
  <2>1. r \in Refund /\ UNCHANGED <<att, obj, ev>>
    BY <1>4 DEF RecoveryInv, RecTypeOK, RefundCall, SettleRefund, SettleFenced, attemptVars, eventVars
  <2>2. \/ CanComplete(r) /\ CompleteRefund(r)
        \/ CanReject(r) /\ RejectRefund(r)
        \/ UNCHANGED pay
    BY <1>4 DEF SettleRefund, SettleFenced
  <2>3. CASE CanComplete(r) /\ CompleteRefund(r)
    <3>1. /\ o \in Order /\ pay[o] = "refund_pending"
          /\ pay' = [pay EXCEPT ![o] = "refunded"]
      BY <2>1, <2>3, RecoveryConstants DEF CanComplete, CompleteRefund
    <3> QED
      BY <1>2, <2>1, <3>1 DEF Settled
  <2>4. CASE CanReject(r) /\ RejectRefund(r)
    <3>1. o \in Order /\ pay[o] = "refund_pending"
      BY <2>1, <2>4, OnlyUnsettled DEF CanReject
    <3>2. pay' = [pay EXCEPT ![o] = "paid"]
      BY <2>4, <3>1 DEF RejectRefund
    <3> QED
      BY <1>2, <2>1, <3>1, <3>2 DEF Settled
  <2>5. CASE UNCHANGED pay
    BY <2>1, <2>5 DEF SettledMoves
  <2> QED
    BY <2>2, <2>3, <2>4, <2>5
<1>5. ASSUME \/ \E r \in Refund : \/ AnswerCreate(r) \/ ReplayRefund(r) \/ AdminQueryRefund(r)
                                  \/ ReconcileRefund(r) \/ RefundProviderStep(r)
             \/ \E c \in rcalls : MarkRefundPending(c)
             \/ \E d \in Dispute : \/ OpenClaim(d) \/ LoseClaim(d)
                                   \/ \E running \in BOOLEAN : WinClaim(d, running)
             \/ RefundAges \/ UNCHANGED allVars
      PROVE  SettledMoves
  <2>1. UNCHANGED <<pay, att, obj, ev>>
    BY <1>5 DEF AnswerCreate, ReplayRefund, AdminQueryRefund, ReconcileRefund, QueryRefund,
       RefundProviderStep, MarkRefundPending, OpenClaim, LoseClaim, WinClaim, RefundAges,
       allVars, payVars, orderVars, attemptVars, eventVars
  <2> QED
    BY <2>1 DEF SettledMoves
<1> QED
  BY <1>3, <1>4, <1>5 DEF RecNext, RecStep, Next, Restart

(* Every step, of a payment or of a recovery, keeps what is known of       *)
(* attempts and of evidence.                                               *)
LEMMA PaymentsStand ==
  ASSUME RecoveryInv, AttInv, PaidIffEvidence, [RecNext]_allVars
  PROVE  AttInv' /\ PaidIffEvidence'
<1>1. TypeOK /\ CallsMatch
  BY DEF RecoveryInv, RecTypeOK
<1>2. CASE [Next]_payVars
  BY <1>1, <1>2, AttStep, NextOrderStep, EvidenceKept
<1>3. CASE SettledMoves
  <2>1. ASSUME NEW o \in Order PROVE pay'[o] \in Settled <=> pay[o] \in Settled
    BY <1>3 DEF SettledMoves
  <2>2. PaidIffEvidence'
    BY <1>3, <2>1 DEF SettledMoves, PaidIffEvidence
  <2>3. OneLive'
    BY <1>3 DEF SettledMoves, AttInv, OneLive, Live
  <2>4. ObjectPresented'
    <3>1. \A a \in obj : a \in Attempt /\ OrderOf[a] \in Order
      BY <1>1, PaymentConstants DEF TypeOK
    <3> QED
      BY <1>3, <3>1 DEF SettledMoves, Settled, AttInv, ObjectPresented
  <2>5. LegacyFrozen'
    BY <1>3, PaymentConstants DEF SettledMoves, Settled, AttInv, LegacyFrozen
  <2> QED
    BY <2>2, <2>3, <2>4, <2>5 DEF AttInv
<1> QED
  BY <1>2, <1>3, RecoveryStays

(* What the invariants of payments come to with recovery.                  *)
LEMMA PaymentsSound == RecSpec => [](AttInv /\ PaidIffEvidence)
<1>1. RecInit => AttInv /\ PaidIffEvidence
  BY AttStarts DEF RecInit, Init, Lifecycle!Init, PaidIffEvidence, Settled
<1>2. RecoveryInv /\ (AttInv /\ PaidIffEvidence) /\ [RecNext]_allVars => (AttInv /\ PaidIffEvidence)'
  BY PaymentsStand
<1> QED
  BY <1>1, <1>2, RecoverySound, PTL DEF RecSpec

(* A refund, a rejection of it or a chargeback neither undoes nor invents  *)
(* a payment: with recovery.rs at work an order is still settled exactly   *)
(* when one verified event that agrees with it has been applied.           *)
THEOREM EvidenceSurvivesRecovery == RecSpec => []PaidIffEvidence
BY PaymentsSound, PTL

(* The reward of an order is credited once and in full, whatever a refund  *)
(* or a dispute takes back of it afterwards.                               *)
THEOREM CreditSurvivesRecovery == RecSpec => []CreditedExactlyOnce
<1>1. RecoveryInv => CreditedExactlyOnce
  BY DEF RecoveryInv
<1> QED
  BY <1>1, RecoverySound, PTL

(* An order that goes back to paid because its refund was rejected does    *)
(* not admit a second paid attempt.                                        *)
THEOREM PaidOnceWithRefunds == RecSpec => []OnePaidAttempt
<1>1. AttInv => OnePaidAttempt
  BY DEF AttInv, OnePaidAttempt, OneLive, Live, ObjectPresented, LegacyFrozen
<1> QED
  BY <1>1, PaymentsSound, PTL

(* Neither do refunds and disputes make the attempt of an EPay order       *)
(* ambiguous; the assumption is that of BoundOnce.                         *)
THEOREM BoundOnceWithRefunds ==
  ASSUME \A a, b \in Attempt : OrderOf[a] = OrderOf[b] /\ OrderOf[a] \in LegacyClosed => a = b
  PROVE  RecSpec => []UniqueBinding
<1>1. AttInv => UniqueBinding
  BY DEF AttInv, UniqueBinding, Candidates, AttemptsOf, Unanswered, OneLive, Live
<1> QED
  BY <1>1, PaymentsSound, PTL

-----------------------------------------------------------------------------
(* Every movement of a balance has its ledger row, or is API usage.        *)

Booked(o, k, x) ==
  /\ ledger[o][k] = 0
  /\ ledger' = [ledger EXCEPT ![o] = [ledger[o] EXCEPT ![k] = x]]
  /\ balance' = [balance EXCEPT ![UserOf[o]] = balance[UserOf[o]] + x]
  /\ UNCHANGED spent

Charged(u) ==
  /\ spent' = [spent EXCEPT ![u] = spent[u] + 1]
  /\ balance' = [balance EXCEPT ![u] = balance[u] - 1]
  /\ UNCHANGED ledger

MoneyMoves ==
  \/ UNCHANGED <<ledger, balance, spent>>
  \/ \E o \in Order, k \in LedgerKinds, x \in Int : Booked(o, k, x)
  \/ \E u \in User : Charged(u)

OrdersOf(u) == {o \in Order : UserOf[o] = u}

LEMMA OverIsOf == \A S, f : SumOver(S, f) = SumOf(f, S)
BY DEF SumOver, SumOf

LEMMA Explained ==
  BalanceExplained <=>
    \A u \in User : balance[u] = SumOf(LedgerTotal, OrdersOf(u)) - spent[u]
BY OverIsOf DEF BalanceExplained, OrdersOf

LEMMA ExplainedNext ==
  BalanceExplained' <=>
    \A u \in User : balance'[u] = SumOf(LedgerTotal', OrdersOf(u)) - spent'[u]
BY OverIsOf DEF BalanceExplained, OrdersOf

LEMMA KindsFinite == IsFiniteSet(LedgerKinds)
<1>1. IsFiniteSet({}) /\ IsFiniteSet({"fulfillment"})
  BY FS_EmptySet, FS_Singleton
<1>2. IsFiniteSet({"fulfillment"} \cup {"reserve"})
  BY <1>1, FS_AddElement
<1>3. IsFiniteSet({"fulfillment"} \cup {"reserve"} \cup {"release"})
  BY <1>2, FS_AddElement
<1>4. IsFiniteSet({"fulfillment"} \cup {"reserve"} \cup {"release"} \cup {"loss"})
  BY <1>3, FS_AddElement
<1>5. {"fulfillment"} \cup {"reserve"} \cup {"release"} \cup {"loss"} = LedgerKinds
  BY DEF LedgerKinds
<1> QED
  BY <1>4, <1>5

(* The total of an order is a number, and the orders of a user are finite. *)
LEMMA TotalsKnown ==
  ASSUME TypeOK
  PROVE  /\ \A o \in Order : /\ Ints(ledger[o], LedgerKinds)
                             /\ LedgerTotal[o] = SumOf(ledger[o], LedgerKinds)
                             /\ LedgerTotal[o] \in Int
         /\ \A u : Ints(LedgerTotal, OrdersOf(u))
<1>1. \A o \in Order : Ints(ledger[o], LedgerKinds)
  BY KindsFinite DEF TypeOK, Ints
<1>2. \A o \in Order : LedgerTotal[o] = SumOf(ledger[o], LedgerKinds)
  BY OverIsOf DEF LedgerTotal
<1>3. \A o \in Order : LedgerTotal[o] \in Int
  BY <1>1, <1>2, SumInt
<1>4. \A u : IsFiniteSet(OrdersOf(u)) /\ OrdersOf(u) \subseteq Order
  BY FS_Subset, PaymentConstants DEF OrdersOf
<1> QED
  BY <1>1, <1>2, <1>3, <1>4 DEF Ints

LEMMA BookedExplained ==
  ASSUME TypeOK, BalanceExplained, NEW o \in Order, NEW k \in LedgerKinds, NEW x \in Int,
         Booked(o, k, x)
  PROVE  BalanceExplained'
<1>1. /\ ledger \in [Order -> [LedgerKinds -> Int]] /\ balance \in [User -> Int]
      /\ spent \in [User -> Nat] /\ UserOf \in [Order -> User]
  BY PaymentConstants DEF TypeOK
<1>0. PICK l, n : l = ledger[o] /\ n = ledger'[o]
  OBVIOUS
<1>2. /\ l \in [LedgerKinds -> Int] /\ l[k] = 0 /\ n[k] = x
      /\ \A j \in LedgerKinds : j # k => n[j] = l[j]
      /\ \A p \in Order : p # o => ledger'[p] = ledger[p]
  BY <1>0, <1>1 DEF Booked
<1>3. \A p \in Order : LedgerTotal'[p] = SumOf(ledger'[p], LedgerKinds)
  BY OverIsOf DEF LedgerTotal
<1>4. LedgerTotal'[o] = LedgerTotal[o] + x /\ LedgerTotal'[o] \in Int
  <2>1. Ints(l, LedgerKinds) /\ LedgerTotal[o] = SumOf(l, LedgerKinds) /\ LedgerTotal[o] \in Int
    BY <1>0, TotalsKnown
  <2>2. Ints(l, LedgerKinds) /\ n[k] \in Int /\ \A y \in LedgerKinds : y # k => n[y] = l[y]
    BY <1>2, <2>1
  <2>4. SumOf(n, LedgerKinds) = SumOf(l, LedgerKinds) + n[k] - l[k]
    BY <2>2, SumChange
  <2>3. LedgerTotal'[o] = SumOf(n, LedgerKinds)
    BY <1>0, <1>3
  <2> QED
    BY <1>2, <2>1, <2>3, <2>4
<1>5. \A p \in Order : p # o => LedgerTotal'[p] = LedgerTotal[p]
  BY <1>2, <1>3, TotalsKnown
<1> SUFFICES ASSUME NEW u \in User
             PROVE  balance'[u] = SumOf(LedgerTotal', OrdersOf(u)) - spent'[u]
  BY ExplainedNext
<1>6. /\ balance[u] = SumOf(LedgerTotal, OrdersOf(u)) - spent[u]
      /\ Ints(LedgerTotal, OrdersOf(u)) /\ OrdersOf(u) \subseteq Order
      /\ spent[u] \in Nat /\ spent'[u] = spent[u]
  BY <1>1, Explained, TotalsKnown DEF OrdersOf, Booked
<1>7. SumOf(LedgerTotal, OrdersOf(u)) \in Int
  BY <1>6, SumInt
<1>8. CASE u = UserOf[o]
  <2>1. o \in OrdersOf(u)
    BY <1>8 DEF OrdersOf
  <2>2. SumOf(LedgerTotal', OrdersOf(u))
          = SumOf(LedgerTotal, OrdersOf(u)) + LedgerTotal'[o] - LedgerTotal[o]
    BY <1>4, <1>5, <1>6, <2>1, SumChange
  <2>3. LedgerTotal[o] \in Int
    BY TotalsKnown
  <2>4. SumOf(LedgerTotal', OrdersOf(u)) = SumOf(LedgerTotal, OrdersOf(u)) + x
    BY <1>4, <1>7, <2>2, <2>3
  <2>5. balance'[u] = balance[u] + x
    BY <1>1, <1>8 DEF Booked
  <2> QED
    BY <1>6, <1>7, <2>4, <2>5
<1>9. CASE u # UserOf[o]
  <2>1. \A p \in OrdersOf(u) : LedgerTotal[p] = LedgerTotal'[p]
    BY <1>5, <1>9 DEF OrdersOf
  <2>2. SumOf(LedgerTotal, OrdersOf(u)) = SumOf(LedgerTotal', OrdersOf(u))
    BY <1>6, <2>1, SumSame
  <2>3. balance'[u] = balance[u]
    BY <1>1, <1>9 DEF Booked
  <2> QED
    BY <1>6, <2>2, <2>3
<1> QED
  BY <1>8, <1>9

LEMMA MovesExplained ==
  ASSUME TypeOK, BalanceExplained, MoneyMoves PROVE BalanceExplained'
<1>1. balance \in [User -> Int] /\ spent \in [User -> Nat]
  BY DEF TypeOK
<1>2. CASE UNCHANGED <<ledger, balance, spent>>
  <2>1. LedgerTotal' = LedgerTotal
    BY <1>2 DEF LedgerTotal
  <2> QED
    BY <1>2, <2>1, Explained, ExplainedNext
<1>3. ASSUME NEW u \in User, Charged(u) PROVE BalanceExplained'
  <2>1. LedgerTotal' = LedgerTotal
    BY <1>3 DEF LedgerTotal, Charged
  <2> SUFFICES ASSUME NEW v \in User
               PROVE  balance'[v] = SumOf(LedgerTotal', OrdersOf(v)) - spent'[v]
    BY ExplainedNext
  <2>2. /\ balance[v] = SumOf(LedgerTotal, OrdersOf(v)) - spent[v]
        /\ Ints(LedgerTotal, OrdersOf(v)) /\ spent[v] \in Nat
    BY <1>1, Explained, TotalsKnown
  <2>3. SumOf(LedgerTotal, OrdersOf(v)) \in Int
    BY <2>2, SumInt
  <2>4. CASE v = u
    <3>1. balance'[v] = balance[v] - 1 /\ spent'[v] = spent[v] + 1
      BY <1>1, <1>3, <2>4 DEF Charged
    <3> QED
      BY <2>1, <2>2, <2>3, <3>1
  <2>5. CASE v # u
    <3>1. balance'[v] = balance[v] /\ spent'[v] = spent[v]
      BY <1>1, <1>3, <2>5 DEF Charged
    <3> QED
      BY <2>1, <2>2, <3>1
  <2> QED
    BY <2>4, <2>5
<1> QED
  BY <1>2, <1>3, BookedExplained DEF MoneyMoves

LEMMA DeltaMoves ==
  ASSUME TypeOK, NEW o \in Order, NEW kind \in LedgerKinds, NEW delta \in Int,
         LedgerFree(o, kind), ApplyBalanceDelta(o, kind, delta), UNCHANGED spent
  PROVE  MoneyMoves
<1>1. ledger' = [ledger EXCEPT ![o] = [ledger[o] EXCEPT ![kind] = delta]]
  BY DeltaBooked
<1>2. balance' = [balance EXCEPT ![UserOf[o]] = balance[UserOf[o]] + delta]
  BY DEF ApplyBalanceDelta
<1>3. Booked(o, kind, delta)
  BY <1>1, <1>2 DEF Booked, LedgerFree
<1> QED
  BY <1>3 DEF MoneyMoves

LEMMA ReserveMoves ==
  ASSUME RecTypeOK, NEW o \in Order, ReserveReward(o) \/ ReserveAvailable(o),
         UNCHANGED spent
  PROVE  MoneyMoves
<1>1. TypeOK /\ "reserve" \in LedgerKinds /\ balance[UserOf[o]] \in Int
  BY PaymentConstants DEF RecTypeOK, TypeOK, LedgerKinds
<1>2. RecoveryRow(o).orig \in Int
  <2>1. rec[o].orig \in Nat /\ ledger[o]["fulfillment"] \in Int
    BY DEF RecTypeOK, TypeOK, LedgerKinds
  <2>2. OriginalReward(o) \in Int
    BY <2>1 DEF OriginalReward
  <2>3. CASE rec[o].row
    BY <2>1, <2>3 DEF RecoveryRow
  <2>4. CASE ~rec[o].row
    BY <2>2, <2>4 DEF RecoveryRow, NoRecovery
  <2> QED
    BY <2>3, <2>4
<1> DEFINE row == RecoveryRow(o)
           available == IF balance[UserOf[o]] > 0 THEN balance[UserOf[o]] ELSE 0
           part == IF row.orig < available THEN row.orig ELSE available
<1>3. -row.orig \in Int /\ -part \in Int
  BY <1>1, <1>2
<1>4. \/ LedgerFree(o, "reserve") /\ ApplyBalanceDelta(o, "reserve", -row.orig)
      \/ LedgerFree(o, "reserve") /\ ApplyBalanceDelta(o, "reserve", -part)
      \/ UNCHANGED <<ledger, balance>>
  BY DEF ReserveReward, ReserveAvailable
<1> HIDE DEF row, part
<1>5. CASE UNCHANGED <<ledger, balance>>
  BY <1>5 DEF MoneyMoves
<1> QED
  BY <1>1, <1>3, <1>4, <1>5, DeltaMoves

LEMMA ReleaseMoves ==
  ASSUME RecTypeOK, NEW o \in Order, ReleaseReserve(o, rec[o]), UNCHANGED spent
  PROVE  MoneyMoves
<1>1. TypeOK /\ "release" \in LedgerKinds /\ rec[o].reserved \in Int
  BY DEF RecTypeOK, LedgerKinds
<1>2. LedgerFree(o, "release") /\ ApplyBalanceDelta(o, "release", rec[o].reserved)
  BY DEF ReleaseReserve
<1> QED
  BY <1>1, <1>2, DeltaMoves

LEMMA LossMoves ==
  ASSUME RecTypeOK, NEW d \in Dispute, LoseClaim(d) PROVE MoneyMoves
<1> DEFINE o == DisputeOrder[d]
<1>1. TypeOK /\ "loss" \in LedgerKinds /\ o \in Order /\ UNCHANGED spent
  BY RecoveryConstants DEF RecTypeOK, LedgerKinds, LoseClaim
<1>2. -Remaining(o) \in Int
  <2>1. rec[o].orig \in Nat /\ rec[o].reserved \in Nat /\ rec[o].recovered \in Nat
    BY <1>1 DEF RecTypeOK
  <2> QED
    BY <2>1 DEF Remaining
<1>3. \/ LedgerFree(o, "loss") /\ ApplyBalanceDelta(o, "loss", -Remaining(o))
      \/ UNCHANGED <<ledger, balance>>
  BY DEF LoseClaim
<1> HIDE DEF o
<1>4. CASE UNCHANGED <<ledger, balance>>
  BY <1>1, <1>4 DEF MoneyMoves
<1> QED
  BY <1>1, <1>2, <1>3, <1>4, DeltaMoves

(* The only steps of an order that move money: its fulfilment and usage.   *)
LEMMA StepMoves == ASSUME TypeOK, Step PROVE MoneyMoves
<1>1. ASSUME NEW o \in Order, FulfillPaidOrder(o) PROVE MoneyMoves
  <2>1. CASE FulfillmentEligible(o) /\ Kind[o] = "balance"
    <3>1. /\ ledger' = [ledger EXCEPT ![o]["fulfillment"] = Reward[o]]
          /\ balance' = [balance EXCEPT ![UserOf[o]] = @ + Reward[o]]
      BY <1>1, <2>1 DEF FulfillPaidOrder, GrantReward
    <3>2. UNCHANGED spent /\ ledger[o]["fulfillment"] = 0
      BY <1>1, <2>1 DEF FulfillPaidOrder, FulfillmentEligible
    <3>3. "fulfillment" \in LedgerKinds /\ Reward[o] \in Int
      BY PaymentConstants DEF LedgerKinds
    <3> QED
      BY <3>1, <3>2, <3>3, DeltaMoves DEF ApplyBalanceDelta, LedgerFree
  <2>2. CASE ~(FulfillmentEligible(o) /\ Kind[o] = "balance")
    BY <1>1, <2>2 DEF FulfillPaidOrder, GrantReward, MoneyMoves
  <2> QED
    BY <2>1, <2>2
<1>2. ASSUME NEW u \in User, Spend(u) PROVE MoneyMoves
  <2>1. Charged(u)
    BY <1>2 DEF Spend, Charged
  <2> QED
    BY <2>1 DEF MoneyMoves
<1>3. ASSUME \/ \E o \in Order : CreateOrder(o) \/ ReconcileFulfillment(o) \/ ClaimCommission(o)
             \/ \E a \in Attempt :
                  \/ CreateAttempt(a) \/ ResumeCheckout(a)
                  \/ \E op \in {"checkout", "resume"} :
                       \/ PresentAttempt(op, a) \/ LoseCheckout(op, a)
                       \/ \E f \in {"failed_configuration", "failed_rejected"} :
                            FailAttempt(op, a, f)
             \/ ClockStep
      PROVE  UNCHANGED <<ledger, balance, spent>>
  BY <1>3 DEF CreateOrder, ReconcileFulfillment, ClaimCommission, CreateAttempt,
     ResumeCheckout, PresentAttempt, LoseCheckout, FailAttempt, ClockStep, moneyVars
<1>4. ASSUME \/ \E a \in Attempt :
                  \/ \E close \in BOOLEAN : AdminQuery(a, close)
                  \/ BuyerQuery(a) \/ ReconcileQuery(a)
                  \/ CloseConfirmedUnpaid(a) \/ ExpireAttempt(a)
                  \/ ReleaseUnpresentedAttempt(a)
                  \/ ProviderStep(a)
             \/ \E e \in Event : (\E d \in Digest : ReceiveCallback(e, d)) \/ Reprocess(e)
             \/ \E c \in calls : ApplyCallback(c) \/ ProjectQuery(c)
      PROVE  UNCHANGED <<ledger, balance, spent>>
  BY <1>4 DEF AdminQuery, BuyerQuery, ReconcileQuery, CloseConfirmedUnpaid, ExpireAttempt,
     ReleaseUnpresentedAttempt, ProviderStep, ReceiveCallback, Reprocess, ApplyCallback,
     ProjectQuery, ApplyVerifiedPayment, moneyVars
<1> QED
  BY <1>1, <1>2, <1>3, <1>4 DEF Step, MoneyMoves

LEMMA RecoveryMoves ==
  ASSUME RecTypeOK, RecNext \/ UNCHANGED allVars PROVE MoneyMoves
<1>1. ASSUME NEW r \in Refund, BeginRefund(r) PROVE MoneyMoves
  <2>1. RefundOrder[r] \in Order /\ ReserveReward(RefundOrder[r]) /\ UNCHANGED spent
    BY <1>1, RecoveryConstants DEF BeginRefund
  <2>2. PICK o \in Order : o = RefundOrder[r]
    BY <2>1
  <2> QED
    BY <2>1, <2>2, ReserveMoves
<1>2. ASSUME NEW c \in rcalls, SettleRefund(c) \/ SettleFenced(c) PROVE MoneyMoves
  <2>1. c.ref \in Refund /\ UNCHANGED spent
    BY <1>2 DEF RecTypeOK, RefundCall, SettleRefund, SettleFenced
  <2>2. PICK o \in Order : o = RefundOrder[c.ref]
    BY <2>1, RecoveryConstants
  <2>3. \/ CompleteRefund(c.ref) \/ RejectRefund(c.ref) \/ UNCHANGED <<ledger, balance>>
    BY <1>2 DEF SettleRefund, SettleFenced
  <2>4. UNCHANGED <<ledger, balance>> \/ ReleaseReserve(o, rec[o])
    BY <2>2, <2>3 DEF CompleteRefund, RejectRefund
  <2> QED
    BY <2>1, <2>4, ReleaseMoves DEF MoneyMoves
<1>3. ASSUME NEW d \in Dispute, NEW running \in BOOLEAN, WinClaim(d, running) PROVE MoneyMoves
  <2>1. PICK o \in Order : o = DisputeOrder[d]
    BY RecoveryConstants
  <2>2. UNCHANGED spent /\ (UNCHANGED <<ledger, balance>> \/ ReleaseReserve(o, rec[o]))
    BY <1>3, <2>1 DEF WinClaim
  <2> QED
    BY <2>2, ReleaseMoves DEF MoneyMoves
<1>4. ASSUME NEW d \in Dispute, OpenClaim(d) PROVE MoneyMoves
  <2>1. PICK o \in Order : o = DisputeOrder[d]
    BY RecoveryConstants
  <2>2. UNCHANGED spent /\ ReserveAvailable(o)
    BY <1>4, <2>1 DEF OpenClaim
  <2> QED
    BY <2>2, ReserveMoves
<1>5. ASSUME \/ \E r \in Refund : \/ AnswerCreate(r) \/ ReplayRefund(r) \/ AdminQueryRefund(r)
                                  \/ ReconcileRefund(r) \/ RefundProviderStep(r)
             \/ \E c \in rcalls : MarkRefundPending(c)
             \/ RefundAges \/ Restart \/ UNCHANGED allVars
      PROVE  UNCHANGED <<ledger, balance, spent>>
  BY <1>5 DEF AnswerCreate, ReplayRefund, AdminQueryRefund, ReconcileRefund, QueryRefund,
     RefundProviderStep, MarkRefundPending, RefundAges, Restart, Crash, allVars, payVars,
     moneyVars
<1>6. ASSUME Step PROVE MoneyMoves
  BY <1>6, StepMoves DEF RecTypeOK
<1> QED
  BY <1>1, <1>2, <1>3, <1>4, <1>5, <1>6, LossMoves DEF RecNext, RecStep, MoneyMoves

LEMMA NothingBookedYet == RecInit => BalanceExplained
<1> SUFFICES ASSUME RecInit, NEW u \in User
             PROVE  balance[u] = SumOf(LedgerTotal, OrdersOf(u)) - spent[u]
  BY Explained
<1>1. /\ ledger = [o \in Order |-> [k \in LedgerKinds |-> 0]]
      /\ balance[u] = 0 /\ spent[u] = 0
  BY DEF RecInit, Init
<1>2. ASSUME NEW o \in Order PROVE LedgerTotal[o] = 0
  <2>1. \A k \in LedgerKinds : ledger[o][k] = 0
    BY <1>1
  <2>2. SumOf(ledger[o], LedgerKinds) = 0
    BY <2>1, KindsFinite, SumZero
  <2> QED
    BY <2>2, OverIsOf DEF LedgerTotal
<1>3. IsFiniteSet(OrdersOf(u)) /\ \A o \in OrdersOf(u) : LedgerTotal[o] = 0
  BY <1>2, FS_Subset, PaymentConstants DEF OrdersOf
<1>4. SumOf(LedgerTotal, OrdersOf(u)) = 0
  BY <1>3, SumZero
<1> QED
  BY <1>1, <1>4

(* Over every interleaving of fulfilment, refunds, disputes, chargebacks   *)
(* and API usage, for any number of orders and users, a balance is the sum *)
(* of the ledger rows of its user's orders less what was used.             *)
THEOREM BalancesExplained == RecSpec => []BalanceExplained
<1>1. RecInit => BalanceExplained
  BY NothingBookedYet
<1>2. RecoveryInv /\ BalanceExplained /\ [RecNext]_allVars => BalanceExplained'
  <2>1. RecoveryInv => RecTypeOK /\ TypeOK
    BY DEF RecoveryInv, RecTypeOK
  <2> QED
    BY <2>1, RecoveryMoves, MovesExplained
<1> QED
  BY <1>1, <1>2, RecoverySound, PTL DEF RecSpec
=============================================================================
