-------------------------- MODULE QuotaReservation --------------------------
(***************************************************************************)
(* Plan quota on the Primary (quota.rs) of one user: a paid plan is an     *)
(* entitlement generation; a request reserves its maximum cost in one      *)
(* bucket per quota rule and later settles the actual cost or releases.    *)
(* Every function that writes runs in one transaction that locks the rows  *)
(* it reads (BEGIN IMMEDIATE, or FOR UPDATE on PostgreSQL), so it is one   *)
(* step here; what a request reads BEFORE its transaction, the clock and   *)
(* the entitlement of admit_funding, is a step of its own and may be stale *)
(* when the transaction runs.                                              *)
(***************************************************************************)
EXTENDS Integers, FiniteSets, FiniteSetsExt

CONSTANTS QuotaReq,    \* request ids
          QuotaRule,   \* quota rules of the plan
          Rolling,     \* rules whose window starts at the admission
          WindowOf,    \* window_seconds of a rule
          LimitOf,     \* quota_fen_cny of a rule
          Maximum,     \* maximum_nano_usd a request may be admitted with
          Actual,      \* actual_nano_usd a request may settle with
          RateNum,     \* rate_numerator
          RateDen,     \* rate_denominator * NANO_USD_PER_CENT
          PlanSeconds, \* duration of a plan
          MaxClock,    \* bound: instants explored
          MaxGen       \* bound: plans the user buys

ASSUME QuotaConstants ==
  /\ IsFiniteSet(QuotaReq)
  /\ QuotaRule # {} /\ Rolling \subseteq QuotaRule
  /\ WindowOf \in [QuotaRule -> Nat \ {0}]
  /\ LimitOf \in [QuotaRule -> Nat]
  /\ Maximum \subseteq Nat \ {0} /\ Actual \subseteq Nat
  /\ RateNum \in Nat \ {0} /\ RateDen \in Nat \ {0}
  /\ PlanSeconds \in Nat \ {0} /\ MaxClock \in Nat /\ MaxGen \in Nat

VARIABLES clock,   \* the clock of the Primary
          plan,    \* plan[g]: store_plan_entitlement_generations and _lifecycle
          current, \* store_plan_entitlement_current: a generation, 0 for no row
          gate,    \* the effective quota gate is passed; fixed while a process
                   \* runs, as the probed environment is
          hold,    \* an active store_balance_holds row
          block,   \* an uncleared store_quota_admission_blocks row
          call,    \* call[r]: locals of an admit_funding under way
          res,     \* res[r]: the store_quota_reservations row of a request
          bucket   \* store_quota_buckets; an absent row is a row of zeroes

quotaVars == <<clock, plan, current, gate, hold, block, call, res, bucket>>

Gen    == 1..MaxGen
Instant == 0..MaxClock

NoPlan == [st |-> "none", start |-> 0]
NoCall == [st |-> "idle", at |-> 0, max |-> 0, expect |-> 0]
NoRes == [st |-> "none", gen |-> 0, at |-> 0, max |-> 0, fen |-> 0,
          actual |-> 0, actualFen |-> 0]
Empty == [settled |-> 0, reserved |-> 0]

(* QuotaTypeOK: amounts never go below zero, a reservation names a         *)
(* generation that exists, and an admission under way expects one.         *)
QuotaTypeOK ==
  /\ clock \in Instant
  /\ plan \in [Gen -> [st : {"none", "live", "suspended", "revoked"},
                       start : Instant]]
  /\ current \in 0..MaxGen
  /\ gate \in BOOLEAN /\ hold \in BOOLEAN /\ block \in BOOLEAN
  /\ call \in [QuotaReq -> [st : {"idle", "reserve"}, at : Instant,
                            max : Maximum \cup {0}, expect : 0..MaxGen]]
  /\ res \in [QuotaReq ->
       [st : {"none", "reserved", "settled", "released", "violated"},
        gen : 0..MaxGen, at : Instant, max : Maximum \cup {0}, fen : Nat,
        actual : Actual \cup {0}, actualFen : Nat]]
  /\ bucket \in [Gen \X QuotaRule \X Instant ->
                   [settled : Nat, reserved : Nat]]
  /\ \A r \in QuotaReq :
       /\ res[r].st # "none" => res[r].gen \in 1..current
       /\ call[r].st # "idle" => call[r].expect \in 1..current

QuotaInit ==
  /\ clock = 0
  /\ plan = [g \in Gen |-> NoPlan]
  /\ current = 0
  /\ gate \in BOOLEAN
  /\ hold = FALSE /\ block = FALSE
  /\ call = [r \in QuotaReq |-> NoCall]
  /\ res = [r \in QuotaReq |-> NoRes]
  /\ bucket = [b \in Gen \X QuotaRule \X Instant |-> Empty]

-----------------------------------------------------------------------------
(* Fault: a reserve is rounded down.                                       *)
FloorProductRatio(value) == (value * RateNum) \div RateDen

(* Fen of an amount of nano USD: rounded up for a reserve, half up for a   *)
(* charge.                                                                 *)
CeilProductRatio(value) ==
  LET product == value * RateNum
  IN  product \div RateDen + (IF product % RateDen # 0 THEN 1 ELSE 0)

RoundProductRatio(value) ==
  LET product == value * RateNum
  IN  product \div RateDen
        + (IF 2 * (product % RateDen) >= RateDen THEN 1 ELSE 0)

(* quota_window: a rolling window starts at the admission, a calendar      *)
(* window (day, week, month) at the boundary before it.                    *)
WindowStart(u, at) == IF u \in Rolling THEN at ELSE at - (at % WindowOf[u])

WindowEnd(u, start) == start + WindowOf[u]

(* The bucket_id of each rule for an admission of generation g at `at`.    *)
Bindings(g, at) == {<<g, u, WindowStart(u, at)>> : u \in QuotaRule}

(* Fault: a bucket opened by a later clock is not counted.                 *)
OpenedBuckets(g, u, at) ==
  {b \in {<<g, u, s>> : s \in Instant} :
     b[3] <= at /\ WindowEnd(u, b[3]) > at}

(* active_bucket_lock_sql: every bucket of the rule that has not ended at  *)
(* `at`; one that a later clock already opened is counted too.             *)
ActiveBuckets(g, u, at) ==
  {b \in {<<g, u, s>> : s \in Instant} : WindowEnd(u, b[3]) > at}

SumOver(S, f) == MapThenSumSet(LAMBDA x : f[x], S)

UsedOf(S) == SumOver(S, [b \in S |-> bucket[b].settled + bucket[b].reserved])

Fits(g, at, fen) ==
  \A u \in QuotaRule :
    UsedOf(ActiveBuckets(g, u, at)) + fen <= LimitOf[u]

InForce(g, at) ==
  /\ plan[g].st = "live"
  /\ plan[g].start <= at
  /\ at < plan[g].start + PlanSeconds

-----------------------------------------------------------------------------
(* admit_funding before its transaction: the clock is read, then the       *)
(* current entitlement.  Without a plan in force the request is funded by  *)
(* the balance and nothing here changes, so only the other case is a step. *)
AdmitFunding(r, m) ==
  /\ call[r].st = "idle"
  /\ current # 0
  /\ InForce(current, clock)
  /\ call' = [call EXCEPT ![r] =
       [st |-> "reserve", at |-> clock, max |-> m, expect |-> current]]
  /\ UNCHANGED <<clock, plan, current, gate, hold, block, res, bucket>>

Reserved(r) ==
  LET c == call[r]
  IN  [st |-> "reserved", gen |-> current, at |-> c.at, max |-> c.max,
       fen |-> CeilProductRatio(c.max), actual |-> 0, actualFen |-> 0]

(* Fault: the block is looked up for the generation that was violated.     *)
MayReserveAfterReplacement(r) ==
  LET c == call[r]
  IN  /\ current = c.expect
      /\ res[r].st = "none"
      /\ gate /\ ~hold
      /\ ~\E q \in QuotaReq : res[q].st = "violated" /\ res[q].gen = current
      /\ InForce(current, c.at)
      /\ Fits(current, c.at, CeilProductRatio(c.max))

(* Fault: a repeated request id reserves again.                            *)
MayReserveAgain(r) ==
  LET c == call[r]
  IN  /\ current = c.expect
      /\ res[r].st # "violated"
      /\ gate /\ ~hold /\ ~block
      /\ InForce(current, c.at)
      /\ Fits(current, c.at, CeilProductRatio(c.max))

(* The checks of reserve_tx on a request id it has not seen.               *)
MayReserve(r) ==
  LET c == call[r]
  IN  /\ current = c.expect
      /\ res[r].st = "none"
      /\ gate /\ ~hold /\ ~block
      /\ InForce(current, c.at)
      /\ Fits(current, c.at, CeilProductRatio(c.max))

(* reserve_tx.  A repeated request id returns the row it made or an        *)
(* idempotency conflict, and every failed check is an error: either way    *)
(* nothing is written and the call ends.                                   *)
Reserve(r) ==
  /\ call[r].st = "reserve"
  /\ call' = [call EXCEPT ![r] = NoCall]
  /\ IF MayReserve(r)
     THEN /\ res' = [res EXCEPT ![r] = Reserved(r)]
          /\ bucket' = [b \in DOMAIN bucket |->
               IF b \in Bindings(current, call[r].at)
               THEN [bucket[b] EXCEPT !.reserved = @ + Reserved(r).fen]
               ELSE bucket[b]]
     ELSE UNCHANGED <<res, bucket>>
  /\ UNCHANGED <<clock, plan, current, gate, hold, block>>

(* Fault: a terminal is applied to the buckets of the current generation.  *)
LinksOfCurrent(r) == Bindings(current, res[r].at)

(* The buckets store_quota_reservation_buckets links to a reservation.     *)
Links(r) == Bindings(res[r].gen, res[r].at)

ReplaceAmount(r, charge) ==
  bucket' = [b \in DOMAIN bucket |->
    IF b \in Links(r)
    THEN [settled |-> bucket[b].settled + charge,
          reserved |-> bucket[b].reserved - res[r].fen]
    ELSE bucket[b]]

Exceeds(r, a) == RoundProductRatio(a) > res[r].fen

(* terminal_tx with an amount.  A charge above the reserve is applied in   *)
(* full and blocks the user.  Any other state of the row is the stored     *)
(* result or quota_terminal_conflict, and changes nothing.                 *)
Settle(r, a) ==
  /\ res[r].st = "reserved"
  /\ ReplaceAmount(r, RoundProductRatio(a))
  /\ res' = [res EXCEPT ![r] =
       [@ EXCEPT !.st = IF Exceeds(r, a) THEN "violated" ELSE "settled",
                 !.actual = a, !.actualFen = RoundProductRatio(a)]]
  /\ block' = (block \/ Exceeds(r, a))
  /\ UNCHANGED <<clock, plan, current, gate, hold, call>>

Release(r) ==
  /\ res[r].st = "reserved"
  /\ ReplaceAmount(r, 0)
  /\ res' = [res EXCEPT ![r].st = "released"]
  /\ UNCHANGED <<clock, plan, current, gate, hold, block, call>>

-----------------------------------------------------------------------------
(* replace_entitlement_tx, called by order fulfilment and by activate_plan *)
(* of a redemption with the generation read in the same transaction.       *)
ReplaceEntitlement ==
  /\ gate
  /\ current < MaxGen
  /\ current' = current + 1
  /\ plan' = [plan EXCEPT ![current + 1] = [st |-> "live", start |-> clock]]
  /\ UNCHANGED <<clock, gate, hold, block, call, res, bucket>>

(* Disputes of the order a plan was bought with (recovery.rs).             *)
DisputeOpened(g) ==
  /\ plan[g].st = "live"
  /\ hold' = TRUE
  /\ plan' = [plan EXCEPT ![g].st = "suspended"]
  /\ UNCHANGED <<clock, current, gate, block, call, res, bucket>>

DisputeWon(g) ==
  /\ plan[g].st = "suspended"
  /\ hold' = FALSE
  /\ plan' = IF plan[g].start + PlanSeconds > clock
             THEN [plan EXCEPT ![g].st = "live"] ELSE plan
  /\ UNCHANGED <<clock, current, gate, block, call, res, bucket>>

DisputeLost(g) ==
  /\ plan[g].st = "suspended"
  /\ hold' = TRUE
  /\ plan' = [plan EXCEPT ![g].st = "revoked"]
  /\ UNCHANGED <<clock, current, gate, block, call, res, bucket>>

ClockTick ==
  /\ clock < MaxClock
  /\ clock' = clock + 1
  /\ UNCHANGED <<plan, current, gate, hold, block, call, res, bucket>>

QuotaNext ==
  \/ ClockTick \/ ReplaceEntitlement
  \/ \E g \in Gen : DisputeOpened(g) \/ DisputeWon(g) \/ DisputeLost(g)
  \/ \E r \in QuotaReq :
       \/ \E m \in Maximum : AdmitFunding(r, m)
       \/ Reserve(r)
       \/ \E a \in Actual : Settle(r, a)
       \/ Release(r)

QuotaSpec == QuotaInit /\ [][QuotaNext]_quotaVars

-----------------------------------------------------------------------------
BoundTo(b, states) ==
  {r \in QuotaReq : res[r].st \in states /\ b \in Links(r)}

(* QuotaConserved: the counters of a bucket are exactly the sums over the  *)
(* reservations bound to it, whatever the order of terminals, replacement  *)
(* of the plan and expiry (SB-Q-4, SB-Q-4B; reserve_tx and terminal_tx     *)
(* write the counters as absolute values).                                 *)
QuotaConserved ==
  \A b \in DOMAIN bucket :
    /\ bucket[b].reserved =
         SumOver(BoundTo(b, {"reserved"}), [r \in QuotaReq |-> res[r].fen])
    /\ bucket[b].settled =
         SumOver(BoundTo(b, {"settled", "violated"}),
                 [r \in QuotaReq |-> res[r].actualFen])

(* WindowNeverOverspent: as long as no charge exceeded its reserve, what   *)
(* was admitted in ANY window of the length of a rolling rule, and in any  *)
(* calendar window, fits the quota of the rule, although requests reach    *)
(* the transaction in another order than they read the clock.              *)
WindowNeverOverspent ==
  ~block =>
    \A g \in Gen, u \in QuotaRule, s \in Instant :
      LET inWindow == IF u \in Rolling
                      THEN {t \in Instant : s <= t /\ t < s + WindowOf[u]}
                      ELSE {s}
      IN  UsedOf({<<g, u, t>> : t \in inWindow}) <= LimitOf[u]

(* NoReserveWhileBlocked: no step reserves for a blocked or held user, for *)
(* a suspended or revoked plan, or for a plan replaced since admit_funding *)
(* read it.                                                                *)
NoReserveWhileBlocked ==
  [][\A r \in QuotaReq :
       res'[r].st = "reserved" /\ res[r].st # "reserved" =>
         /\ ~\E q \in QuotaReq : res[q].st = "violated"
         /\ ~hold
         /\ res'[r].gen = call[r].expect
         /\ plan[res'[r].gen].st = "live"]_quotaVars

(* BoundedChargeSettles: a charge within the maximum a request was         *)
(* admitted with never exceeds the reserve, whatever the exchange rate.    *)
BoundedChargeSettles ==
  \A r \in QuotaReq : res[r].st = "violated" => res[r].actual > res[r].max

(* The abstract ledger, seen through one rule (every reservation is bound  *)
(* to one bucket of each rule): the totals are read from the buckets of    *)
(* all generations, the outcomes from the reservations.                    *)
SeenThrough == {b \in DOMAIN bucket : b[2] = CHOOSE u \in QuotaRule : TRUE}

Fen == {CeilProductRatio(m) : m \in Maximum}
         \cup {RoundProductRatio(a) : a \in Actual}

Ledger ==
  INSTANCE ChargeLedger WITH
    Charge <- QuotaReq,
    Amount <- Fen,
    outcome <- [r \in QuotaReq |->
      IF res[r].st = "none" THEN "none"
      ELSE IF res[r].st = "reserved" THEN "open"
      ELSE IF res[r].st = "released" THEN "free" ELSE "spent"],
    aside <- [r \in QuotaReq |->
      IF res[r].st = "reserved" THEN res[r].fen ELSE 0],
    held <- SumOver(SeenThrough, [b \in DOMAIN bucket |-> bucket[b].reserved]),
    spent <- SumOver(SeenThrough, [b \in DOMAIN bucket |-> bucket[b].settled])

(* QuotaLedger: the buckets are the ledger of ChargeLedger: a request is   *)
(* reserved once, settled or released once, and no terminal, replacement   *)
(* of the plan or expiry of a window creates or loses an amount.           *)
QuotaLedger == Ledger!Spec
=============================================================================
