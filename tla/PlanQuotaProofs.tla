-------------------------- MODULE PlanQuotaProofs ---------------------------
(***************************************************************************)
(* Plan quota on the Primary: types, conserved counters, no window         *)
(* overspent, no charge within the maximum above the reserve, and the      *)
(* refinement of the charge ledger, for any requests, rules, windows,      *)
(* limits, rates and plans; and the safety of plan admission between a     *)
(* Replica and its Primary, for any number of tokens, crashes and failed   *)
(* writes and for any loss, repetition and reordering of the requests.     *)
(***************************************************************************)
EXTENDS QuotaReservation, PlanAdmission, SumTheorems, FunctionTheorems

Bucket == Gen \X QuotaRule \X Instant

(* A product by a positive number keeps the order.                         *)
LEMMA ScaledOrder ==
  ASSUME NEW D \in Nat, D > 0, NEW x \in Int, NEW y \in Int, D * x < D * y
  PROVE  x < y
OBVIOUS

LEMMA Scaled ==
  ASSUME NEW D \in Nat, NEW x \in Int, NEW y \in Int, x <= y
  PROVE  x * D <= y * D
OBVIOUS

LEMMA Products ==
  ASSUME NEW D \in Nat, NEW x \in Nat
  PROVE  D * x \in Nat /\ D * (x + 1) = D * x + D
OBVIOUS

(* Quotient and remainder.                                                 *)
LEMMA Quotient ==
  ASSUME NEW p \in Nat, NEW D \in Nat, D > 0
  PROVE  /\ p \div D \in Nat /\ p % D \in Nat
         /\ p = D * (p \div D) + (p % D) /\ p % D < D
<1>1. p \div D \in Int /\ p \div D >= 0
  OBVIOUS
<1>2. p % D \in Nat /\ p % D < D
  OBVIOUS
<1>3. p = D * (p \div D) + (p % D)
  OBVIOUS
<1> QED
  BY <1>1, <1>2, <1>3

(* Amounts in fen are natural numbers, and a charge within the maximum is  *)
(* within the reserve.                                                     *)
LEMMA Rounding ==
  /\ \A v \in Nat : CeilProductRatio(v) \in Nat /\ RoundProductRatio(v) \in Nat
  /\ \A a \in Nat, m \in Nat : a <= m => RoundProductRatio(a) <= CeilProductRatio(m)
<1>1. RateDen \in Nat /\ RateDen > 0 /\ RateNum \in Nat
  BY QuotaConstants
<1>2. \A v \in Nat : v * RateNum \in Nat
  BY <1>1
<1>3. \A v \in Nat : CeilProductRatio(v) \in Nat /\ RoundProductRatio(v) \in Nat
  BY <1>1, <1>2, Quotient DEF CeilProductRatio, RoundProductRatio
<1>4. ASSUME NEW a \in Nat, NEW m \in Nat, a <= m
      PROVE  RoundProductRatio(a) <= CeilProductRatio(m)
  <2> DEFINE p == m * RateNum
             q == a * RateNum
             c == CeilProductRatio(m)
             d == q \div RateDen
             e == p \div RateDen
  <2>1. p \in Nat /\ q \in Nat /\ q <= p
    BY <1>1, <1>2, <1>4, Scaled
  <2>2. /\ d \in Nat /\ q % RateDen \in Nat /\ q = RateDen * d + (q % RateDen)
        /\ e \in Nat /\ p % RateDen \in Nat /\ p = RateDen * e + (p % RateDen)
        /\ p % RateDen < RateDen
    BY <1>1, <2>1, Quotient
  <2>3. c = e + (IF p % RateDen # 0 THEN 1 ELSE 0)
    BY DEF CeilProductRatio
  <2>4. RoundProductRatio(a) = d + (IF 2 * (q % RateDen) >= RateDen THEN 1 ELSE 0)
    BY DEF RoundProductRatio
  <2> DEFINE x == RateDen * d
             y == RateDen * c
             r == q % RateDen
             s == p % RateDen
  <2> HIDE DEF p, q, c, d, e
  <2>5. c \in Nat /\ p <= y /\ y \in Nat /\ x \in Nat
    <3>1. c \in Nat
      BY <2>2, <2>3
    <3>2. CASE s = 0
      BY <1>1, <2>2, <2>3, <3>1, <3>2, Products
    <3>3. CASE s # 0
      <4>1. c = e + 1 /\ RateDen * (e + 1) = RateDen * e + RateDen
        BY <1>1, <2>2, <2>3, <3>3, Products
      <4> QED
        BY <1>1, <2>2, <3>1, <4>1, Products
    <3> QED
      BY <3>2, <3>3
  <2>6. CASE 2 * (q % RateDen) >= RateDen
    <3>1. r > 0
      BY <1>1, <2>2, <2>6
    <3>2. q = x + r /\ r \in Nat
      BY <2>2
    <3>3. x < y
      <4> HIDE DEF x, y, r
      <4> QED
        BY <2>1, <2>5, <3>1, <3>2
    <3>4. d < c
      BY <1>1, <2>2, <2>5, <3>3, ScaledOrder
    <3> QED
      BY <2>2, <2>4, <2>5, <2>6, <3>4 DEF c
  <2>7. CASE ~(2 * (q % RateDen) >= RateDen)
    <3>1. RateDen * d < RateDen * (c + 1)
      <4>1. RateDen * (c + 1) = y + RateDen
        BY <1>1, <2>5, Products
      <4>2. q = x + r /\ r \in Nat
        BY <2>2
      <4>3. x < y + RateDen
        <5> HIDE DEF x, y, r
        <5> QED
          BY <1>1, <2>1, <2>5, <4>2
      <4> QED
        BY <4>1, <4>3
    <3>2. d < c + 1
      BY <1>1, <2>2, <2>5, <3>1, ScaledOrder
    <3> QED
      BY <2>2, <2>4, <2>5, <2>7, <3>2 DEF c
  <2> QED
    BY <2>6, <2>7
<1> QED
  BY <1>3, <1>4

-----------------------------------------------------------------------------
(* What the row of a reservation says of its amounts, and that a violation *)
(* leaves the user blocked.                                                *)
RowsPriced ==
  \A r \in QuotaReq :
    /\ res[r].st # "none" => res[r].fen = CeilProductRatio(res[r].max)
    /\ res[r].st = "violated" =>
         /\ block
         /\ res[r].actualFen = RoundProductRatio(res[r].actual)
         /\ res[r].actualFen > res[r].fen

(* The inductive invariant.                                                *)
QuotaInv == QuotaTypeOK /\ RowsPriced /\ QuotaConserved /\ WindowNeverOverspent

Fens    == [r \in QuotaReq |-> res[r].fen]
Actuals == [r \in QuotaReq |-> res[r].actualFen]
Used(S) == [b \in S |-> bucket[b].settled + bucket[b].reserved]

LEMMA OverIsOf == ASSUME NEW S, NEW f PROVE SumOver(S, f) = SumOf(f, S)
BY DEF SumOver, SumOf

(* The window of an admission starts at an instant, and is still open.     *)
LEMMA WindowStarts ==
  ASSUME NEW u \in QuotaRule, NEW at \in Instant
  PROVE  WindowStart(u, at) \in Instant /\ WindowEnd(u, WindowStart(u, at)) > at
<1> DEFINE W == WindowOf[u]
<1>1. W \in Nat /\ W > 0 /\ at \in Nat /\ at <= MaxClock /\ MaxClock \in Nat
  BY QuotaConstants DEF Instant
<1>2. /\ at \div W \in Nat /\ at % W \in Nat
      /\ at = W * (at \div W) + (at % W) /\ at % W < W
  BY <1>1, Quotient
<1>3. W * (at \div W) \in Nat
  BY <1>1, <1>2, Products
<1> DEFINE x == W * (at \div W)
           y == at % W
<1>4. WindowStart(u, at) = IF u \in Rolling THEN at ELSE at - y
  BY DEF WindowStart
<1>5. WindowEnd(u, WindowStart(u, at)) = WindowStart(u, at) + W
  BY DEF WindowEnd
<1>6. at = x + y /\ x \in Nat /\ y \in Nat /\ y < W
  BY <1>2, <1>3
<1> HIDE DEF x, y, W
<1> QED
  BY <1>1, <1>4, <1>5, <1>6 DEF Instant

LEMMA BindingsKnown ==
  ASSUME NEW g \in Gen, NEW at \in Instant
  PROVE  Bindings(g, at) \subseteq Bucket
BY WindowStarts DEF Bindings, Bucket

(* What the type invariant says of single values.                          *)
LEMMA QuotaValues ==
  ASSUME QuotaTypeOK
  PROVE  /\ DOMAIN bucket = Bucket /\ current \in Nat
         /\ \A b \in Bucket : bucket[b].settled \in Nat /\ bucket[b].reserved \in Nat
         /\ \A r \in QuotaReq :
              /\ res[r].fen \in Nat /\ res[r].actualFen \in Nat
              /\ res[r].at \in Instant /\ res[r].max \in Nat /\ res[r].actual \in Nat
              /\ res[r].st # "none" => res[r].gen \in Gen
         /\ current \in 0..MaxGen
<1>1. Maximum \subseteq Nat /\ Actual \subseteq Nat /\ MaxGen \in Nat
  BY QuotaConstants
<1>2. DOMAIN bucket = Bucket /\ bucket \in [Bucket -> [settled : Nat, reserved : Nat]]
  BY DEF QuotaTypeOK, Bucket
<1>3. current \in 0..MaxGen
  BY DEF QuotaTypeOK
<1>4. \A r \in QuotaReq : res[r].st # "none" => res[r].gen \in Gen
  BY <1>1, <1>3 DEF QuotaTypeOK, Gen
<1>5. \A r \in QuotaReq :
        /\ res[r].fen \in Nat /\ res[r].actualFen \in Nat
        /\ res[r].at \in Instant /\ res[r].max \in Nat /\ res[r].actual \in Nat
  <2>1. Maximum \cup {0} \subseteq Nat /\ Actual \cup {0} \subseteq Nat
    BY <1>1
  <2> TAKE r \in QuotaReq
  <2>2. /\ res[r].fen \in Nat /\ res[r].actualFen \in Nat /\ res[r].at \in Instant
        /\ res[r].max \in Maximum \cup {0} /\ res[r].actual \in Actual \cup {0}
    BY DEF QuotaTypeOK
  <2> QED
    BY <2>1, <2>2
<1> QED
  BY <1>1, <1>2, <1>3, <1>4, <1>5

LEMMA LinksKnown ==
  ASSUME QuotaTypeOK, NEW r \in QuotaReq, res[r].st # "none"
  PROVE  Links(r) \subseteq Bucket
BY QuotaValues, BindingsKnown DEF Links

LEMMA BoundSums ==
  ASSUME QuotaTypeOK, NEW b, NEW T
  PROVE  /\ BoundTo(b, T) \subseteq QuotaReq
         /\ Ints(Fens, BoundTo(b, T)) /\ Ints(Actuals, BoundTo(b, T))
<1>1. BoundTo(b, T) \subseteq QuotaReq
  BY DEF BoundTo
<1>2. IsFiniteSet(BoundTo(b, T))
  BY <1>1, FS_Subset, QuotaConstants
<1> QED
  BY <1>1, <1>2, QuotaValues DEF Ints, Fens, Actuals

(* QuotaConserved in terms of sums of functions.                           *)
LEMMA Conserved ==
  QuotaConserved <=>
    \A b \in DOMAIN bucket :
      /\ bucket[b].reserved = SumOf(Fens, BoundTo(b, {"reserved"}))
      /\ bucket[b].settled = SumOf(Actuals, BoundTo(b, {"settled", "violated"}))
BY OverIsOf DEF QuotaConserved, Fens, Actuals

LEMMA ConservedNext ==
  QuotaConserved' <=>
    \A b \in DOMAIN bucket' :
      /\ bucket'[b].reserved = SumOf(Fens', BoundTo(b, {"reserved"})')
      /\ bucket'[b].settled = SumOf(Actuals', BoundTo(b, {"settled", "violated"})')
BY OverIsOf DEF QuotaConserved, Fens, Actuals

-----------------------------------------------------------------------------
(* What a successful reserve_tx writes.                                    *)
LEMMA ReserveWrites ==
  ASSUME QuotaTypeOK, NEW r \in QuotaReq, Reserve(r), MayReserve(r)
  PROVE  LET B == Bindings(current, call[r].at)
             fen == CeilProductRatio(call[r].max)
         IN  /\ res[r].st = "none" /\ fen \in Nat /\ current \in Gen
             /\ call[r].at \in Instant /\ B \subseteq Bucket
             /\ ~block /\ ~hold /\ plan[current].st = "live" /\ current = call[r].expect
             /\ Fits(current, call[r].at, fen)
             /\ call[r].max \in Maximum \cup {0}
             /\ res' = [res EXCEPT ![r] =
                  [st |-> "reserved", gen |-> current, at |-> call[r].at,
                   max |-> call[r].max, fen |-> fen, actual |-> 0, actualFen |-> 0]]
             /\ bucket' = [b \in Bucket |->
                  IF b \in B THEN [settled |-> bucket[b].settled,
                                   reserved |-> bucket[b].reserved + fen]
                  ELSE bucket[b]]
<1> DEFINE B == Bindings(current, call[r].at)
           fen == CeilProductRatio(call[r].max)
<1>1. call[r].st = "reserve" /\ call[r].at \in Instant /\ call[r].max \in Maximum \cup {0}
  BY DEF Reserve, QuotaTypeOK
<1>2. call[r].max \in Nat
  <2>1. Maximum \subseteq Nat
    BY QuotaConstants
  <2>2. Maximum \cup {0} \subseteq Nat
    BY <2>1
  <2> QED
    BY <1>1, <2>2
<1>3. fen \in Nat
  BY <1>2, Rounding
<1>4. current \in Gen /\ current = call[r].expect
  <2>1. call[r].expect \in 1..current /\ current \in 0..MaxGen /\ MaxGen \in Nat
    BY <1>1, QuotaConstants DEF QuotaTypeOK
  <2> QED
    BY <2>1 DEF Gen, MayReserve
<1>5. B \subseteq Bucket
  BY <1>1, <1>4, BindingsKnown
<1>6. /\ res[r].st = "none" /\ ~block /\ ~hold /\ plan[current].st = "live"
      /\ Fits(current, call[r].at, fen)
  BY DEF MayReserve, InForce
<1>7. Reserved(r) = [st |-> "reserved", gen |-> current, at |-> call[r].at,
                     max |-> call[r].max, fen |-> fen, actual |-> 0, actualFen |-> 0]
  BY DEF Reserved
<1>8. DOMAIN bucket = Bucket
      /\ \A b \in Bucket : bucket[b] \in [settled : Nat, reserved : Nat]
  BY DEF QuotaTypeOK, Bucket
<1>9. res' = [res EXCEPT ![r] = Reserved(r)]
      /\ bucket' = [b \in DOMAIN bucket |->
               IF b \in B
               THEN [bucket[b] EXCEPT !.reserved = bucket[b].reserved + Reserved(r).fen]
               ELSE bucket[b]]
  BY DEF Reserve
<1>10. Reserved(r).fen = fen
  BY <1>7
<1>11. ASSUME NEW b \in Bucket
       PROVE  [bucket[b] EXCEPT !.reserved = bucket[b].reserved + fen]
              = [settled |-> bucket[b].settled, reserved |-> bucket[b].reserved + fen]
  BY <1>8
<1>12. bucket' = [b \in Bucket |->
                  IF b \in B THEN [settled |-> bucket[b].settled,
                                   reserved |-> bucket[b].reserved + fen]
                  ELSE bucket[b]]
  <2> HIDE DEF B, fen
  <2> QED
    BY <1>8, <1>9, <1>10, <1>11
<1> HIDE DEF B, fen
<1> QED
  BY <1>1, <1>3, <1>4, <1>5, <1>6, <1>7, <1>9, <1>12 DEF B, fen

(* A new reservation joins the sum of the buckets it is bound to.          *)
LEMMA ReserveConserves ==
  ASSUME QuotaTypeOK, QuotaConserved, NEW r \in QuotaReq, Reserve(r), MayReserve(r)
  PROVE  QuotaConserved'
<1> DEFINE B == Bindings(current, call[r].at)
           fen == CeilProductRatio(call[r].max)
<1>1. /\ res[r].st = "none" /\ fen \in Nat
      /\ res' = [res EXCEPT ![r] =
                  [st |-> "reserved", gen |-> current, at |-> call[r].at,
                   max |-> call[r].max, fen |-> fen, actual |-> 0, actualFen |-> 0]]
      /\ bucket' = [b \in Bucket |->
                  IF b \in B THEN [settled |-> bucket[b].settled,
                                   reserved |-> bucket[b].reserved + fen]
                  ELSE bucket[b]]
  BY ReserveWrites
<1>2. /\ res'[r].st = "reserved" /\ res'[r].gen = current /\ res'[r].at = call[r].at
      /\ res'[r].fen = fen
      /\ \A q \in QuotaReq : q # r => res'[q] = res[q]
  BY <1>1 DEF QuotaTypeOK
<1>3. Links(r)' = B /\ \A q \in QuotaReq : q # r => Links(q)' = Links(q)
  BY <1>2 DEF Links
<1>4. /\ Fens'[r] = fen
      /\ \A q \in QuotaReq : q # r => Fens[q] = Fens'[q] /\ Actuals[q] = Actuals'[q]
  BY <1>2 DEF Fens, Actuals
<1> HIDE DEF B, fen
<1> SUFFICES ASSUME NEW b \in Bucket
             PROVE  /\ bucket'[b].reserved = SumOf(Fens', BoundTo(b, {"reserved"})')
                    /\ bucket'[b].settled = SumOf(Actuals', BoundTo(b, {"settled", "violated"})')
  BY <1>1, ConservedNext
<1> DEFINE R == BoundTo(b, {"reserved"})
           S == BoundTo(b, {"settled", "violated"})
<1>5. /\ bucket[b].reserved = SumOf(Fens, R) /\ bucket[b].settled = SumOf(Actuals, S)
      /\ bucket[b].reserved \in Nat
  BY Conserved, QuotaValues
<1>6. Ints(Fens, R) /\ Ints(Actuals, S) /\ R \subseteq QuotaReq /\ S \subseteq QuotaReq
      /\ r \notin R /\ r \notin S
  BY <1>1, BoundSums DEF BoundTo
<1>7. S' = S
  BY <1>1, <1>2, <1>3 DEF BoundTo
<1>8. R' = IF b \in B THEN R \cup {r} ELSE R
  BY <1>1, <1>2, <1>3 DEF BoundTo
<1> HIDE DEF R, S
<1>9. SumOf(Actuals, S) = SumOf(Actuals', S')
  BY <1>4, <1>6, <1>7, SumSame
<1>10. CASE b \in B
  <2>1. SumOf(Fens', R \cup {r}) = SumOf(Fens, R) + Fens'[r]
    BY <1>1, <1>4, <1>6, SumJoin
  <2> QED
    BY <1>1, <1>4, <1>5, <1>8, <1>9, <1>10, <2>1 DEF R, S
<1>11. CASE b \notin B
  <2>1. SumOf(Fens, R) = SumOf(Fens', R)
    BY <1>4, <1>6, SumSame
  <2> QED
    BY <1>1, <1>5, <1>8, <1>9, <1>11, <2>1 DEF R, S
<1> QED
  BY <1>10, <1>11

(* What terminal_tx writes: the row ends with state st, and the charge x   *)
(* takes the place of the reserve in its buckets.                          *)
Ended(r, st, a, y, x) ==
  /\ res[r].st = "reserved"
  /\ st \in {"settled", "violated", "released"} /\ a \in Actual \cup {0}
  /\ y \in Nat /\ x \in Nat
  /\ IF st = "released" THEN x = 0 ELSE x = y /\ x = RoundProductRatio(a)
  /\ st = "settled" => x <= res[r].fen
  /\ st = "violated" => x > res[r].fen
  /\ block' = (block \/ st = "violated")
  /\ UNCHANGED <<clock, plan, current, gate, hold, call>>
  /\ res' = [res EXCEPT ![r] =
       [st |-> st, gen |-> res[r].gen, at |-> res[r].at, max |-> res[r].max,
        fen |-> res[r].fen, actual |-> a, actualFen |-> y]]
  /\ bucket' = [b \in Bucket |->
       IF b \in Links(r)
       THEN [settled |-> bucket[b].settled + x,
             reserved |-> bucket[b].reserved - res[r].fen]
       ELSE bucket[b]]

LEMMA RowEnds ==
  ASSUME NEW row, NEW s, NEW a, NEW x,
         row \in [st : {"none", "reserved", "settled", "released", "violated"},
                  gen : 0..MaxGen, at : Instant, max : Maximum \cup {0}, fen : Nat,
                  actual : Actual \cup {0}, actualFen : Nat]
  PROVE  [row EXCEPT !.st = s, !.actual = a, !.actualFen = x]
         = [st |-> s, gen |-> row.gen, at |-> row.at, max |-> row.max,
            fen |-> row.fen, actual |-> a, actualFen |-> x]
<1> DEFINE n == [row EXCEPT !.st = s, !.actual = a, !.actualFen = x]
           m == [st |-> s, gen |-> row.gen, at |-> row.at, max |-> row.max,
                 fen |-> row.fen, actual |-> a, actualFen |-> x]
<1>1. /\ n.st = s /\ n.actual = a /\ n.actualFen = x /\ n.gen = row.gen
      /\ n.at = row.at /\ n.max = row.max /\ n.fen = row.fen
  OBVIOUS
<1>2. /\ m.st = s /\ m.actual = a /\ m.actualFen = x /\ m.gen = row.gen
      /\ m.at = row.at /\ m.max = row.max /\ m.fen = row.fen
  OBVIOUS
<1>3. DOMAIN n = {"st", "gen", "at", "max", "fen", "actual", "actualFen"}
  OBVIOUS
<1>4. DOMAIN m = {"st", "gen", "at", "max", "fen", "actual", "actualFen"}
  OBVIOUS
<1>5. n = [i \in DOMAIN n |-> n[i]] /\ m = [i \in DOMAIN m |-> m[i]]
  OBVIOUS
<1> HIDE DEF n, m
<1>6. \A i \in DOMAIN n : n[i] = m[i]
  BY <1>1, <1>2, <1>3
<1>7. n = m
  BY <1>3, <1>4, <1>5, <1>6
<1> QED
  BY <1>7 DEF n, m

LEMMA Terminals ==
  ASSUME QuotaTypeOK, NEW r \in QuotaReq
  PROVE  /\ \A a \in Actual : Settle(r, a) =>
              Ended(r, IF Exceeds(r, a) THEN "violated" ELSE "settled", a,
                    RoundProductRatio(a), RoundProductRatio(a))
         /\ Release(r) => Ended(r, "released", res[r].actual, res[r].actualFen, 0)
<1>1. /\ DOMAIN bucket = Bucket /\ res[r].fen \in Nat /\ res[r].actualFen \in Nat
      /\ block \in BOOLEAN /\ res[r].actual \in Actual \cup {0}
  BY QuotaValues DEF QuotaTypeOK
<1>2. /\ res \in [QuotaReq -> [st : {"none", "reserved", "settled", "released", "violated"},
           gen : 0..MaxGen, at : Instant, max : Maximum \cup {0}, fen : Nat,
           actual : Actual \cup {0}, actualFen : Nat]]
  BY DEF QuotaTypeOK
<1>3. ASSUME NEW a \in Actual, Settle(r, a)
      PROVE  Ended(r, IF Exceeds(r, a) THEN "violated" ELSE "settled", a,
                   RoundProductRatio(a), RoundProductRatio(a))
  <2> DEFINE st == IF Exceeds(r, a) THEN "violated" ELSE "settled"
             x == RoundProductRatio(a)
  <2>1. a \in Nat
    BY QuotaConstants
  <2>2. x \in Nat
    BY <2>1, Rounding
  <2>3. /\ res[r].st = "reserved" /\ st \in {"settled", "violated"}
        /\ st = "settled" => x <= res[r].fen
        /\ st = "violated" => x > res[r].fen
        /\ block' = (block \/ st = "violated")
        /\ UNCHANGED <<clock, plan, current, gate, hold, call>>
    BY <1>1, <1>3, <2>2 DEF Settle, Exceeds
  <2>4. res' = [res EXCEPT ![r] = [res[r] EXCEPT !.st = st, !.actual = a, !.actualFen = x]]
    BY <1>3 DEF Settle
  <2>5. [res[r] EXCEPT !.st = st, !.actual = a, !.actualFen = x]
        = [st |-> st, gen |-> res[r].gen, at |-> res[r].at, max |-> res[r].max,
           fen |-> res[r].fen, actual |-> a, actualFen |-> x]
    BY <1>2, RowEnds
  <2>6. bucket' = [b \in Bucket |->
       IF b \in Links(r)
       THEN [settled |-> bucket[b].settled + x,
             reserved |-> bucket[b].reserved - res[r].fen]
       ELSE bucket[b]]
    BY <1>1, <1>3 DEF Settle, ReplaceAmount
  <2>7. x = RoundProductRatio(a) /\ st # "released"
    OBVIOUS
  <2> HIDE DEF st, x
  <2>8. Ended(r, st, a, x, x)
    BY <2>2, <2>3, <2>4, <2>5, <2>6, <2>7 DEF Ended
  <2> QED
    BY <2>8 DEF st, x
<1>4. ASSUME Release(r)
      PROVE  Ended(r, "released", res[r].actual, res[r].actualFen, 0)
  <2>1. res[r].st = "reserved" /\ block' = block
        /\ UNCHANGED <<clock, plan, current, gate, hold, call>>
    BY <1>4 DEF Release
  <2>2. res' = [res EXCEPT ![r] = [res[r] EXCEPT !.st = "released"]]
    BY <1>4 DEF Release
  <2>3. [res[r] EXCEPT !.st = "released"]
        = [st |-> "released", gen |-> res[r].gen, at |-> res[r].at, max |-> res[r].max,
           fen |-> res[r].fen, actual |-> res[r].actual, actualFen |-> res[r].actualFen]
    BY <1>2
  <2>4. bucket' = [b \in Bucket |->
       IF b \in Links(r)
       THEN [settled |-> bucket[b].settled + 0,
             reserved |-> bucket[b].reserved - res[r].fen]
       ELSE bucket[b]]
    BY <1>1, <1>4 DEF Release, ReplaceAmount
  <2>5. block' = (block \/ "released" = "violated")
    BY <1>1, <2>1
  <2> QED
    BY <1>1, <2>1, <2>2, <2>3, <2>4, <2>5 DEF Ended
<1> QED
  BY <1>3, <1>4

(* A terminal leaves the sum of the reserves of its buckets and joins, if  *)
(* it charges, the sum of their charges.                                   *)
LEMMA EndedConserves ==
  ASSUME QuotaTypeOK, QuotaConserved, NEW r \in QuotaReq, NEW st, NEW a, NEW y, NEW x,
         Ended(r, st, a, y, x)
  PROVE  /\ QuotaConserved'
         /\ \A b \in Links(r) : b \in Bucket /\ bucket[b].reserved - res[r].fen \in Nat
<1>1. /\ res[r].st = "reserved" /\ st \in {"settled", "violated", "released"}
      /\ y \in Nat /\ x \in Nat
      /\ IF st = "released" THEN x = 0 ELSE x = y
      /\ res' = [res EXCEPT ![r] =
           [st |-> st, gen |-> res[r].gen, at |-> res[r].at, max |-> res[r].max,
            fen |-> res[r].fen, actual |-> a, actualFen |-> y]]
      /\ bucket' = [b \in Bucket |->
           IF b \in Links(r)
           THEN [settled |-> bucket[b].settled + x,
                 reserved |-> bucket[b].reserved - res[r].fen]
           ELSE bucket[b]]
  BY DEF Ended
<1>2. /\ res'[r].st = st /\ res'[r].gen = res[r].gen /\ res'[r].at = res[r].at
      /\ res'[r].fen = res[r].fen /\ res'[r].actualFen = y
      /\ \A q \in QuotaReq : q # r => res'[q] = res[q]
  BY <1>1 DEF QuotaTypeOK
<1>3. \A q \in QuotaReq : Links(q)' = Links(q)
  BY <1>2 DEF Links
<1>4. /\ Fens[r] = res[r].fen /\ Actuals'[r] = y /\ res[r].fen \in Nat
      /\ \A q \in QuotaReq : Fens[q] = Fens'[q]
      /\ \A q \in QuotaReq : q # r => Actuals[q] = Actuals'[q]
  BY <1>2, QuotaValues DEF Fens, Actuals
<1>5. ASSUME NEW b \in Bucket
      PROVE  /\ bucket'[b].reserved = SumOf(Fens', BoundTo(b, {"reserved"})')
             /\ bucket'[b].settled = SumOf(Actuals', BoundTo(b, {"settled", "violated"})')
             /\ b \in Links(r) => bucket[b].reserved - res[r].fen \in Nat
  <2> DEFINE R == BoundTo(b, {"reserved"})
             S == BoundTo(b, {"settled", "violated"})
  <2>1. /\ bucket[b].reserved = SumOf(Fens, R) /\ bucket[b].settled = SumOf(Actuals, S)
        /\ bucket[b].reserved \in Nat /\ bucket[b].settled \in Nat
    BY Conserved, QuotaValues
  <2>2. Ints(Fens, R) /\ Ints(Actuals, S) /\ R \subseteq QuotaReq /\ S \subseteq QuotaReq
        /\ r \notin S
    BY <1>1, BoundSums DEF BoundTo
  <2>3. R' = R \ {r}
    BY <1>1, <1>2, <1>3 DEF BoundTo
  <2>4. S' = IF b \in Links(r) /\ st # "released" THEN S \cup {r} ELSE S
    BY <1>1, <1>2, <1>3 DEF BoundTo
  <2>5. r \in R <=> b \in Links(r)
    BY <1>1 DEF BoundTo
  <2> HIDE DEF R, S
  <2>6. CASE b \in Links(r)
    <3>1. SumOf(Fens', R \ {r}) = SumOf(Fens, R) - Fens[r]
      BY <1>4, <2>2, <2>5, <2>6, SumLeave
    <3>2. SumOf(Fens', R \ {r}) \in Nat
      <4>1. Ints(Fens', R \ {r}) /\ \A q \in R \ {r} : Fens'[q] >= 0
        <5>1. Ints(Fens, R \ {r}) /\ \A q \in R \ {r} : Fens[q] \in Nat
          BY <2>2, IntsSubset, QuotaValues DEF Fens
        <5> QED
          BY <1>4, <2>2, <5>1 DEF Ints
      <4> QED
        BY <4>1, SumNat
    <3>3. CASE st # "released"
      <4>1. SumOf(Actuals', S \cup {r}) = SumOf(Actuals, S) + Actuals'[r]
        BY <1>1, <1>4, <2>2, SumJoin
      <4> QED
        BY <1>1, <1>4, <2>1, <2>3, <2>4, <2>6, <3>1, <3>2, <3>3, <4>1 DEF R, S
    <3>4. CASE st = "released"
      <4>1. SumOf(Actuals, S) = SumOf(Actuals', S)
        BY <1>4, <2>2, SumSame
      <4>2. S' = S /\ x = 0
        BY <1>1, <2>4, <3>4
      <4>3. /\ bucket'[b].settled = bucket[b].settled
            /\ bucket'[b].reserved = bucket[b].reserved - res[r].fen
        BY <1>1, <2>1, <2>6, <4>2
      <4> QED
        BY <1>4, <2>1, <2>3, <3>1, <3>2, <4>1, <4>2, <4>3 DEF R, S
    <3> QED
      BY <3>3, <3>4
  <2>7. CASE b \notin Links(r)
    <3>1. SumOf(Fens, R) = SumOf(Fens', R) /\ SumOf(Actuals, S) = SumOf(Actuals', S)
      BY <1>4, <2>2, SumSame
    <3>2. R \ {r} = R
      BY <2>5, <2>7
    <3> QED
      BY <1>1, <2>1, <2>3, <2>4, <2>7, <3>1, <3>2 DEF R, S
  <2> QED
    BY <2>6, <2>7
<1>6. Links(r) \subseteq Bucket /\ DOMAIN bucket' = Bucket
  BY <1>1, LinksKnown
<1> QED
  BY <1>5, <1>6, ConservedNext

-----------------------------------------------------------------------------
(* Types.                                                                  *)
QRow == [st : {"none", "reserved", "settled", "released", "violated"},
         gen : 0..MaxGen, at : Instant, max : Maximum \cup {0}, fen : Nat,
         actual : Actual \cup {0}, actualFen : Nat]

LEMMA EndedTypes ==
  ASSUME QuotaTypeOK, QuotaConserved, NEW r \in QuotaReq, NEW st, NEW a, NEW y, NEW x,
         Ended(r, st, a, y, x)
  PROVE  QuotaTypeOK'
<1>1. /\ st \in {"settled", "violated", "released"} /\ y \in Nat /\ x \in Nat
      /\ a \in Actual \cup {0} /\ res[r].st = "reserved"
      /\ res' = [res EXCEPT ![r] =
           [st |-> st, gen |-> res[r].gen, at |-> res[r].at, max |-> res[r].max,
            fen |-> res[r].fen, actual |-> a, actualFen |-> y]]
      /\ bucket' = [b \in Bucket |->
           IF b \in Links(r)
           THEN [settled |-> bucket[b].settled + x,
                 reserved |-> bucket[b].reserved - res[r].fen]
           ELSE bucket[b]]
      /\ block' = (block \/ st = "violated")
      /\ UNCHANGED <<clock, plan, current, gate, hold, call>>
  BY DEF Ended
<1>2. res \in [QuotaReq -> QRow]
  BY DEF QuotaTypeOK, QRow
<1>3. [st |-> st, gen |-> res[r].gen, at |-> res[r].at, max |-> res[r].max,
       fen |-> res[r].fen, actual |-> a, actualFen |-> y] \in QRow
  BY <1>1, <1>2 DEF QRow
<1>4. res' \in [QuotaReq -> QRow]
  BY <1>1, <1>2, <1>3
<1>5. bucket' \in [Bucket -> [settled : Nat, reserved : Nat]]
  <2>1. \A b \in Bucket : bucket[b] \in [settled : Nat, reserved : Nat]
                          /\ bucket[b].settled + x \in Nat
    BY <1>1, QuotaValues DEF QuotaTypeOK, Bucket
  <2>2. \A b \in Links(r) : bucket[b].reserved - res[r].fen \in Nat
    BY EndedConserves
  <2> QED
    BY <1>1, <2>1, <2>2
<1>6. \A q \in QuotaReq : res'[q].st # "none" => res'[q].gen \in 1..current'
  BY <1>1, <1>2 DEF QuotaTypeOK
<1>7. block' \in BOOLEAN
  BY <1>1 DEF QuotaTypeOK
<1>8. /\ clock' \in Instant
      /\ plan' \in [Gen -> [st : {"none", "live", "suspended", "revoked"}, start : Instant]]
      /\ current' \in 0..MaxGen /\ gate' \in BOOLEAN /\ hold' \in BOOLEAN
      /\ call' \in [QuotaReq -> [st : {"idle", "reserve"}, at : Instant,
                                 max : Maximum \cup {0}, expect : 0..MaxGen]]
      /\ \A q \in QuotaReq : call'[q].st # "idle" => call'[q].expect \in 1..current'
  BY <1>1 DEF QuotaTypeOK
<1> QED
  BY <1>4, <1>5, <1>6, <1>7, <1>8 DEF QuotaTypeOK, QRow, Bucket

LEMMA ReserveTypes ==
  ASSUME QuotaTypeOK, NEW r \in QuotaReq, Reserve(r) PROVE QuotaTypeOK'
<1>1. UNCHANGED <<clock, plan, current, gate, hold, block>>
      /\ call' = [call EXCEPT ![r] = NoCall]
  BY DEF Reserve
<1>2. /\ call' \in [QuotaReq -> [st : {"idle", "reserve"}, at : Instant,
                                 max : Maximum \cup {0}, expect : 0..MaxGen]]
      /\ \A q \in QuotaReq : call'[q].st # "idle" => call'[q].expect \in 1..current'
  <2>1. 0 \in Instant /\ 0 \in 0..MaxGen
    BY QuotaConstants DEF Instant
  <2>2. NoCall \in [st : {"idle", "reserve"}, at : Instant,
                    max : Maximum \cup {0}, expect : 0..MaxGen] /\ NoCall.st = "idle"
    BY <2>1 DEF NoCall
  <2> QED
    BY <1>1, <2>2 DEF QuotaTypeOK
<1>3. /\ res' \in [QuotaReq -> QRow]
      /\ bucket' \in [Bucket -> [settled : Nat, reserved : Nat]]
      /\ \A q \in QuotaReq : res'[q].st # "none" => res'[q].gen \in 1..current'
  <2>1. /\ res \in [QuotaReq -> QRow] /\ bucket \in [Bucket -> [settled : Nat, reserved : Nat]]
        /\ \A q \in QuotaReq : res[q].st # "none" => res[q].gen \in 1..current
    BY DEF QuotaTypeOK, QRow, Bucket
  <2>2. CASE ~MayReserve(r)
    <3>1. res' = res /\ bucket' = bucket
      BY <2>2 DEF Reserve
    <3> QED
      BY <1>1, <2>1, <3>1
  <2>3. CASE MayReserve(r)
    <3> DEFINE B == Bindings(current, call[r].at)
               fen == CeilProductRatio(call[r].max)
               new == [st |-> "reserved", gen |-> current, at |-> call[r].at,
                       max |-> call[r].max, fen |-> fen, actual |-> 0, actualFen |-> 0]
    <3>1. /\ fen \in Nat /\ current \in Gen /\ call[r].at \in Instant
          /\ call[r].max \in Maximum \cup {0}
          /\ res' = [res EXCEPT ![r] = new]
          /\ bucket' = [b \in Bucket |->
                  IF b \in B THEN [settled |-> bucket[b].settled,
                                   reserved |-> bucket[b].reserved + fen]
                  ELSE bucket[b]]
      BY <2>3, ReserveWrites
    <3> HIDE DEF B, fen
    <3>2. current \in 0..MaxGen /\ current \in 1..current
      BY <3>1 DEF Gen
    <3>3. new \in QRow /\ new.gen \in 1..current
      BY <3>1, <3>2 DEF QRow
    <3> HIDE DEF new
    <3>4. res' \in [QuotaReq -> QRow] /\ \A q \in QuotaReq : q # r => res'[q] = res[q]
      BY <2>1, <3>1, <3>3
    <3>5. res'[r] = new
      BY <2>1, <3>1
    <3>6. bucket' \in [Bucket -> [settled : Nat, reserved : Nat]]
      BY <2>1, <3>1
    <3> QED
      BY <1>1, <2>1, <3>3, <3>4, <3>5, <3>6
  <2> QED
    BY <2>2, <2>3
<1> QED
  BY <1>1, <1>2, <1>3 DEF QuotaTypeOK, QRow, Bucket

-----------------------------------------------------------------------------
(* Windows.                                                                *)
InWindow(u, s) ==
  IF u \in Rolling THEN {t \in Instant : s <= t /\ t < s + WindowOf[u]} ELSE {s}

Win(g, u, s) == {<<g, u, t>> : t \in InWindow(u, s)}

(* The buckets of a rule are finitely many: a bucket of the rule is named  *)
(* by its generation and the start of its window.                          *)
LEMMA RuleFinite ==
  ASSUME NEW u, NEW S, S \subseteq {b \in Bucket : b[2] = u} PROVE IsFiniteSet(S)
<1> DEFINE T == Gen \X Instant
           f == [b \in S |-> <<b[1], b[3]>>]
<1>1. IsFiniteSet(T)
  <2>1. IsFiniteSet(Gen) /\ IsFiniteSet(Instant)
    <3>1. MaxGen \in Int /\ MaxClock \in Int /\ 0 \in Int /\ 1 \in Int
      BY QuotaConstants
    <3>2. IsFiniteSet(1..MaxGen) /\ IsFiniteSet(0..MaxClock)
      BY <3>1, FS_Interval
    <3> QED
      BY <3>2 DEF Gen, Instant
  <2> QED
    BY <2>1, FS_Product
<1>2. \A b \in S : b[1] \in Gen /\ b[3] \in Instant /\ b = <<b[1], u, b[3]>>
  BY DEF Bucket
<1>3. f \in [S -> T]
  BY <1>2
<1>4. \A a, b \in S : f[a] = f[b] => a = b
  BY <1>2
<1> HIDE DEF f, T
<1>5. f \in Injection(S, T)
  BY <1>3, <1>4, Fun_IsInj
<1> QED
  BY <1>1, <1>5, FS_Injection

LEMMA Columns ==
  ASSUME NEW g \in Gen, NEW u \in QuotaRule, NEW S, S \subseteq {<<g, u, t>> : t \in Instant}
  PROVE  IsFiniteSet(S) /\ S \subseteq Bucket
<1>1. S \subseteq {b \in Bucket : b[2] = u}
  BY DEF Bucket
<1> QED
  BY <1>1, RuleFinite

LEMMA WinColumn ==
  ASSUME NEW g, NEW u \in QuotaRule, NEW s \in Instant
  PROVE  Win(g, u, s) \subseteq {<<g, u, t>> : t \in Instant}
BY DEF Win, InWindow

LEMMA UsedSums ==
  ASSUME QuotaTypeOK, NEW S, S \subseteq Bucket, IsFiniteSet(S)
  PROVE  /\ Ints(Used(S), S) /\ UsedOf(S) = SumOf(Used(S), S)
         /\ \A b \in S : Used(S)[b] \in Nat
<1>1. \A b \in S : Used(S)[b] \in Nat
  BY QuotaValues DEF Used
<1>2. UsedOf(S) = SumOf(Used(S), S)
  BY OverIsOf DEF UsedOf, Used
<1> QED
  BY <1>1, <1>2 DEF Ints

LEMMA UsedNext == ASSUME NEW S PROVE UsedOf(S)' = SumOf(Used(S)', S)
BY OverIsOf DEF UsedOf, Used

LEMMA Windows ==
  WindowNeverOverspent <=>
    (~block => \A g \in Gen, u \in QuotaRule, s \in Instant :
                 UsedOf(Win(g, u, s)) <= LimitOf[u])
BY DEF WindowNeverOverspent, Win, InWindow

LEMMA WindowsNext ==
  WindowNeverOverspent' <=>
    (~block' => \A g \in Gen, u \in QuotaRule, s \in Instant :
                  UsedOf(Win(g, u, s))' <= LimitOf[u])
BY DEF WindowNeverOverspent, Win, InWindow

(* A terminal within the reserve never adds to a window.                   *)
LEMMA EndedWindows ==
  ASSUME QuotaInv, NEW r \in QuotaReq, NEW st, NEW a, NEW y, NEW x, Ended(r, st, a, y, x)
  PROVE  WindowNeverOverspent'
<1> SUFFICES ASSUME ~block', NEW g \in Gen, NEW u \in QuotaRule, NEW s \in Instant
             PROVE  UsedOf(Win(g, u, s))' <= LimitOf[u]
  BY WindowsNext
<1> DEFINE S == Win(g, u, s)
<1>1. S' = S
  BY DEF Win, InWindow
<1>2. IsFiniteSet(S) /\ S \subseteq Bucket
  BY WinColumn, Columns
<1>3. QuotaTypeOK /\ QuotaTypeOK' /\ st # "violated" /\ ~block
  BY EndedTypes DEF QuotaInv, Ended
<1>4. UsedOf(S) <= LimitOf[u] /\ LimitOf[u] \in Nat
  BY <1>3, Windows, QuotaConstants DEF QuotaInv
<1> HIDE DEF S
<1>5. Ints(Used(S), S) /\ UsedOf(S) = SumOf(Used(S), S) /\ \A b \in S : Used(S)[b] \in Nat
  BY <1>2, <1>3, UsedSums
<1>6. \A b \in S : Used(S)'[b] \in Int /\ Used(S)'[b] <= Used(S)[b]
  <2>1. x \in Nat /\ res[r].fen \in Nat /\ x <= res[r].fen
    BY <1>3, QuotaValues DEF Ended
  <2>2. \A b \in Bucket : bucket[b].settled \in Nat /\ bucket[b].reserved \in Nat
    BY <1>3, QuotaValues
  <2>3. bucket' = [b \in Bucket |->
       IF b \in Links(r)
       THEN [settled |-> bucket[b].settled + x,
             reserved |-> bucket[b].reserved - res[r].fen]
       ELSE bucket[b]]
    BY DEF Ended
  <2> SUFFICES ASSUME NEW b \in S
               PROVE  Used(S)'[b] \in Int /\ Used(S)'[b] <= Used(S)[b]
    OBVIOUS
  <2>4. /\ Used(S)'[b] = bucket'[b].settled + bucket'[b].reserved
        /\ Used(S)[b] = bucket[b].settled + bucket[b].reserved /\ b \in Bucket
    BY <1>2 DEF Used
  <2>5. CASE b \in Links(r)
    <3>1. /\ bucket'[b].settled = bucket[b].settled + x
          /\ bucket'[b].reserved = bucket[b].reserved - res[r].fen
      BY <2>3, <2>4, <2>5
    <3> QED
      BY <2>1, <2>2, <2>4, <3>1
  <2>6. CASE b \notin Links(r)
    <3>1. bucket'[b] = bucket[b]
      BY <2>3, <2>4, <2>6
    <3> QED
      BY <2>2, <2>4, <3>1
  <2> QED
    BY <2>5, <2>6
<1>7. Ints(Used(S)', S)
  BY <1>2, <1>6 DEF Ints
<1>8. SumOf(Used(S)', S) <= SumOf(Used(S), S)
  BY <1>5, <1>6, <1>7, SumAtMost
<1>9. SumOf(Used(S)', S) \in Int /\ SumOf(Used(S), S) \in Int
  BY <1>5, <1>7, SumInt
<1>10. UsedOf(S)' = SumOf(Used(S)', S)
  <2>1. UsedOf(S)' = SumOf(Used(S)', S')
    BY OverIsOf DEF UsedOf, Used
  <2> QED
    BY <1>1, <2>1 DEF S
<1> QED
  BY <1>4, <1>5, <1>8, <1>9, <1>10 DEF S

(* A window that holds the new bucket holds only buckets the check counted.*)
LEMMA WindowIsActive ==
  ASSUME NEW g \in Gen, NEW u \in QuotaRule, NEW s \in Instant, NEW at \in Instant,
         WindowStart(u, at) \in InWindow(u, s)
  PROVE  Win(g, u, s) \subseteq ActiveBuckets(g, u, at)
<1> SUFFICES ASSUME NEW t \in InWindow(u, s)
             PROVE  <<g, u, t>> \in ActiveBuckets(g, u, at)
  BY DEF Win
<1>1. WindowOf[u] \in Nat /\ at \in Nat /\ s \in Nat /\ Instant \subseteq Nat
  BY QuotaConstants DEF Instant
<1>2. t \in Instant /\ t + WindowOf[u] > at
  <2>1. CASE u \in Rolling
    BY <1>1, <2>1 DEF InWindow, WindowStart
  <2>2. CASE u \notin Rolling
    <3>1. t = s /\ WindowStart(u, at) = s
      BY <2>2 DEF InWindow
    <3> QED
      BY <3>1, WindowStarts DEF WindowEnd
  <2> QED
    BY <2>1, <2>2
<1> QED
  BY <1>2 DEF ActiveBuckets, WindowEnd

(* A reservation joins a window only if the window had room for it.        *)
LEMMA ReserveWindows ==
  ASSUME QuotaInv, NEW r \in QuotaReq, Reserve(r), MayReserve(r)
  PROVE  WindowNeverOverspent'
<1> SUFFICES ASSUME ~block', NEW g \in Gen, NEW u \in QuotaRule, NEW s \in Instant
             PROVE  UsedOf(Win(g, u, s))' <= LimitOf[u]
  BY WindowsNext
<1> DEFINE S == Win(g, u, s)
           at == call[r].at
           B == Bindings(current, at)
           fen == CeilProductRatio(call[r].max)
           b0 == <<current, u, WindowStart(u, at)>>
           A == ActiveBuckets(current, u, at)
<1>1. QuotaTypeOK /\ QuotaTypeOK' /\ ~block
  BY ReserveTypes DEF QuotaInv, Reserve
<1>2. /\ fen \in Nat /\ current \in Gen /\ at \in Instant /\ B \subseteq Bucket
      /\ Fits(current, at, fen)
      /\ bucket' = [b \in Bucket |->
           IF b \in B THEN [settled |-> bucket[b].settled,
                            reserved |-> bucket[b].reserved + fen]
           ELSE bucket[b]]
  BY <1>1, ReserveWrites
<1>3. S' = S /\ IsFiniteSet(S) /\ S \subseteq Bucket /\ \A b \in S : b[2] = u
  <2>1. S' = S /\ \A b \in S : b[2] = u
    BY DEF Win, InWindow
  <2> QED
    BY <2>1, WinColumn, Columns
<1>4. UsedOf(S) <= LimitOf[u] /\ LimitOf[u] \in Nat
  BY <1>1, Windows, QuotaConstants DEF QuotaInv
<1>5. \A b \in S : b \in B <=> b = b0
  <2>1. \A v \in QuotaRule : <<current, v, WindowStart(v, at)>>[2] = v
    OBVIOUS
  <2> QED
    BY <1>3, <2>1 DEF Bindings
<1>6. b0 \in S => WindowStart(u, at) \in InWindow(u, s) /\ g = current
  BY DEF Win
<1>7. UsedOf(A) + fen <= LimitOf[u]
  BY <1>2 DEF Fits
<1>8. IsFiniteSet(A) /\ A \subseteq Bucket
  <2>1. A \subseteq {<<current, u, t>> : t \in Instant}
    BY DEF ActiveBuckets
  <2> HIDE DEF A
  <2> QED
    BY <1>2, <2>1, Columns
<1>9. b0 \in S => S \subseteq A
  BY <1>2, <1>6, WindowIsActive
<1> HIDE DEF S, B, fen, b0, A, at
<1>10. UsedOf(S)' = SumOf(Used(S)', S)
  <2>1. UsedOf(S)' = SumOf(Used(S)', S')
    BY OverIsOf DEF UsedOf, Used
  <2> QED
    BY <1>3, <2>1
<1>11. Ints(Used(S), S) /\ UsedOf(S) = SumOf(Used(S), S)
  BY <1>1, <1>3, UsedSums
<1>12. \A b \in S : Used(S)'[b] = IF b = b0 THEN Used(S)[b] + fen ELSE Used(S)[b]
  <2> SUFFICES ASSUME NEW b \in S
               PROVE  Used(S)'[b] = IF b = b0 THEN Used(S)[b] + fen ELSE Used(S)[b]
    OBVIOUS
  <2>1. /\ Used(S)'[b] = bucket'[b].settled + bucket'[b].reserved
        /\ Used(S)[b] = bucket[b].settled + bucket[b].reserved /\ b \in Bucket
    BY <1>3 DEF Used
  <2>2. bucket[b].settled \in Nat /\ bucket[b].reserved \in Nat
    BY <1>1, <2>1, QuotaValues
  <2>3. CASE b = b0
    <3>1. bucket'[b].settled = bucket[b].settled
          /\ bucket'[b].reserved = bucket[b].reserved + fen
      BY <1>2, <1>5, <2>1, <2>3
    <3> QED
      BY <1>2, <2>1, <2>2, <2>3, <3>1
  <2>4. CASE b # b0
    <3>1. bucket'[b] = bucket[b]
      BY <1>2, <1>5, <2>1, <2>4
    <3> QED
      BY <2>1, <2>4, <3>1
  <2> QED
    BY <2>3, <2>4
<1>13. CASE b0 \notin S
  <2>1. SumOf(Used(S), S) = SumOf(Used(S)', S)
    <3>1. \A b \in S : Used(S)[b] = Used(S)'[b]
      BY <1>12, <1>13
    <3> QED
      BY <1>11, <3>1, SumSame
  <2> QED
    BY <1>4, <1>10, <1>11, <2>1 DEF S
<1>14. CASE b0 \in S
  <2>1. Used(S)[b0] \in Int /\ Used(S)'[b0] = Used(S)[b0] + fen
        /\ \A b \in S : b # b0 => Used(S)'[b] = Used(S)[b]
    BY <1>11, <1>12, <1>14 DEF Ints
  <2>2. SumOf(Used(S)', S) = SumOf(Used(S), S) + Used(S)'[b0] - Used(S)[b0]
    <3>1. Used(S)'[b0] \in Int
      BY <1>2, <2>1
    <3> DEFINE f == Used(S)
               h == Used(S)'
    <3>2. Ints(f, S) /\ h[b0] \in Int /\ \A b \in S : b # b0 => h[b] = f[b]
      BY <1>11, <2>1, <3>1
    <3> HIDE DEF f, h
    <3>3. SumOf(h, S) = SumOf(f, S) + h[b0] - f[b0]
      BY <1>14, <3>2, SumChange
    <3> QED
      BY <3>3 DEF f, h
  <2>3. Ints(Used(A), A) /\ UsedOf(A) = SumOf(Used(A), A) /\ \A b \in A : Used(A)[b] \in Nat
    BY <1>1, <1>8, UsedSums
  <2>4. SumOf(Used(A), S) <= SumOf(Used(A), A)
    <3>1. S \subseteq A /\ \A b \in A : Used(A)[b] >= 0
      BY <1>9, <1>14, <2>3
    <3> QED
      BY <2>3, <3>1, SumMono
  <2>5. SumOf(Used(S), S) = SumOf(Used(A), S)
    <3>1. \A b \in S : Used(S)[b] = Used(A)[b]
      BY <1>9, <1>14 DEF Used
    <3> QED
      BY <1>11, <3>1, SumSame
  <2>6. SumOf(Used(S), S) \in Int /\ SumOf(Used(A), A) \in Int
    BY <1>11, <2>3, SumInt
  <2>7. SumOf(Used(S)', S) = SumOf(Used(S), S) + fen
    BY <1>2, <2>1, <2>2, <2>6
  <2>8. SumOf(Used(S), S) + fen <= LimitOf[u]
    <3>1. SumOf(Used(A), A) + fen <= LimitOf[u] /\ SumOf(Used(S), S) <= SumOf(Used(A), A)
      BY <1>7, <2>3, <2>4, <2>5
    <3> QED
      BY <1>2, <1>4, <2>6, <3>1
  <2> QED
    BY <1>10, <2>7, <2>8 DEF S
<1> QED
  BY <1>13, <1>14

-----------------------------------------------------------------------------
(* Steps that leave the reservations and the buckets alone.                *)
LEMMA RowsKept ==
  ASSUME QuotaInv, UNCHANGED <<block, res, bucket>>
  PROVE  RowsPriced' /\ QuotaConserved' /\ WindowNeverOverspent'
<1>1. Fens' = Fens /\ Actuals' = Actuals /\ \A b, T : BoundTo(b, T)' = BoundTo(b, T)
  BY DEF Fens, Actuals, BoundTo, Links
<1>2. QuotaConserved'
  BY <1>1, Conserved, ConservedNext DEF QuotaInv
<1>3. RowsPriced'
  BY DEF QuotaInv, RowsPriced
<1>4. \A g \in Gen, u \in QuotaRule, s \in Instant :
        UsedOf(Win(g, u, s))' = UsedOf(Win(g, u, s))
  <2> TAKE g \in Gen, u \in QuotaRule, s \in Instant
  <2> DEFINE S == Win(g, u, s)
  <2>1. S' = S
    BY DEF Win, InWindow
  <2> HIDE DEF S
  <2>2. UsedOf(S) = SumOf(Used(S), S) /\ UsedOf(S)' = SumOf(Used(S)', S')
    BY OverIsOf DEF UsedOf, Used
  <2>3. Used(S)' = Used(S)
    BY <2>1 DEF Used
  <2> QED
    BY <2>1, <2>2, <2>3 DEF S
<1>5. WindowNeverOverspent'
  BY <1>4, Windows, WindowsNext DEF QuotaInv
<1> QED
  BY <1>2, <1>3, <1>5

PlanRow == [st : {"none", "live", "suspended", "revoked"}, start : Instant]
CallRow == [st : {"idle", "reserve"}, at : Instant, max : Maximum \cup {0},
            expect : 0..MaxGen]

(* The rest of the types, when the rows are kept.                          *)
LEMMA TypesKept ==
  ASSUME QuotaTypeOK, UNCHANGED <<block, res, bucket, gate>>, hold' \in BOOLEAN,
         clock' \in Instant, plan' \in [Gen -> PlanRow], current' \in 0..MaxGen,
         current <= current', call' \in [QuotaReq -> CallRow],
         \A r \in QuotaReq : call'[r].st # "idle" => call'[r].expect \in 1..current'
  PROVE  QuotaTypeOK'
<1>1. current \in 0..MaxGen /\ \A r \in QuotaReq : res[r].st # "none" => res[r].gen \in 1..current
  BY DEF QuotaTypeOK
<1>2. \A r \in QuotaReq : res'[r].st # "none" => res'[r].gen \in 1..current'
  BY <1>1
<1>3. /\ block' \in BOOLEAN /\ gate' \in BOOLEAN
      /\ res' \in [QuotaReq -> QRow] /\ bucket' \in [Bucket -> [settled : Nat, reserved : Nat]]
  BY DEF QuotaTypeOK, QRow, Bucket
<1> QED
  BY <1>2, <1>3 DEF QuotaTypeOK, PlanRow, CallRow, QRow, Bucket

LEMMA PlanChange ==
  ASSUME NEW p, p \in [Gen -> PlanRow], NEW g \in Gen,
         NEW s \in {"none", "live", "suspended", "revoked"}
  PROVE  [p EXCEPT ![g].st = s] \in [Gen -> PlanRow]
<1>1. [p[g] EXCEPT !.st = s] \in PlanRow
  BY DEF PlanRow
<1>2. [p EXCEPT ![g].st = s] = [p EXCEPT ![g] = [p[g] EXCEPT !.st = s]]
  OBVIOUS
<1> QED
  BY <1>1, <1>2

(* The other actions keep the types and the rows.                          *)
LEMMA OtherSteps ==
  ASSUME QuotaTypeOK,
         \/ ClockTick \/ ReplaceEntitlement
         \/ \E g \in Gen : DisputeOpened(g) \/ DisputeWon(g) \/ DisputeLost(g)
         \/ \E r \in QuotaReq, m \in Maximum : AdmitFunding(r, m)
  PROVE  QuotaTypeOK' /\ UNCHANGED <<block, res, bucket>>
<1>1. /\ plan \in [Gen -> PlanRow] /\ call \in [QuotaReq -> CallRow]
      /\ clock \in Instant /\ current \in 0..MaxGen /\ current \in Nat
      /\ gate \in BOOLEAN /\ hold \in BOOLEAN /\ MaxGen \in Nat /\ MaxClock \in Nat
      /\ \A r \in QuotaReq : call[r].st # "idle" => call[r].expect \in 1..current
  BY QuotaConstants DEF QuotaTypeOK, PlanRow, CallRow
<1>2. CASE ClockTick
  <2>1. /\ clock' \in Instant
        /\ UNCHANGED <<plan, current, gate, hold, block, call, res, bucket>>
    BY <1>1, <1>2 DEF ClockTick, Instant
  <2> QED
    BY <1>1, <2>1, TypesKept
<1>3. CASE ReplaceEntitlement
  <2>1. /\ current' = current + 1 /\ current' \in Gen /\ current' \in 0..MaxGen
        /\ UNCHANGED <<clock, gate, hold, block, call, res, bucket>>
    BY <1>1, <1>3 DEF ReplaceEntitlement, Gen
  <2>2. plan' \in [Gen -> PlanRow]
    <3>1. [st |-> "live", start |-> clock] \in PlanRow
      BY <1>1 DEF PlanRow
    <3> QED
      BY <1>1, <1>3, <3>1 DEF ReplaceEntitlement
  <2>3. \A r \in QuotaReq : call'[r].st # "idle" => call'[r].expect \in 1..current'
    BY <1>1, <2>1
  <2> QED
    BY <1>1, <2>1, <2>2, <2>3, TypesKept
<1>4. ASSUME NEW g \in Gen, DisputeOpened(g) \/ DisputeWon(g) \/ DisputeLost(g)
      PROVE  QuotaTypeOK' /\ UNCHANGED <<block, res, bucket>>
  <2>1. UNCHANGED <<clock, current, gate, block, call, res, bucket>> /\ hold' \in BOOLEAN
    BY <1>4 DEF DisputeOpened, DisputeWon, DisputeLost
  <2>2. plan' \in [Gen -> PlanRow]
    <3>1. CASE DisputeOpened(g)
      BY <1>1, <3>1, PlanChange DEF DisputeOpened
    <3>2. CASE DisputeLost(g)
      BY <1>1, <3>2, PlanChange DEF DisputeLost
    <3>3. CASE DisputeWon(g)
      <4>1. plan' = plan \/ plan' = [plan EXCEPT ![g].st = "live"]
        BY <3>3 DEF DisputeWon
      <4>2. [plan EXCEPT ![g].st = "live"] \in [Gen -> PlanRow]
        BY <1>1, PlanChange
      <4> QED
        BY <1>1, <4>1, <4>2
    <3> QED
      BY <1>4, <3>1, <3>2, <3>3
  <2> QED
    BY <1>1, <2>1, <2>2, TypesKept
<1>5. ASSUME NEW r \in QuotaReq, NEW m \in Maximum, AdmitFunding(r, m)
      PROVE  QuotaTypeOK' /\ UNCHANGED <<block, res, bucket>>
  <2> DEFINE new == [st |-> "reserve", at |-> clock, max |-> m, expect |-> current]
  <2>1. /\ call' = [call EXCEPT ![r] = new] /\ current # 0
        /\ UNCHANGED <<clock, plan, current, gate, hold, block, res, bucket>>
    BY <1>5 DEF AdmitFunding
  <2>2. new \in CallRow /\ new.expect \in 1..current
    BY <1>1, <2>1 DEF CallRow
  <2> HIDE DEF new
  <2>3. /\ call' \in [QuotaReq -> CallRow]
        /\ \A q \in QuotaReq : call'[q].st # "idle" => call'[q].expect \in 1..current'
    BY <1>1, <2>1, <2>2
  <2> QED
    BY <1>1, <2>1, <2>3, TypesKept
<1> QED
  BY <1>2, <1>3, <1>4, <1>5

LEMMA EndedKeepsInv ==
  ASSUME QuotaInv, NEW r \in QuotaReq, NEW st, NEW a, NEW y, NEW x, Ended(r, st, a, y, x)
  PROVE  QuotaInv'
<1>1. QuotaTypeOK' /\ QuotaConserved' /\ WindowNeverOverspent'
  BY EndedTypes, EndedConserves, EndedWindows DEF QuotaInv
<1>2. RowsPriced'
  <2> SUFFICES ASSUME NEW q \in QuotaReq
               PROVE  /\ res'[q].st # "none" => res'[q].fen = CeilProductRatio(res'[q].max)
                      /\ res'[q].st = "violated" =>
                           /\ block'
                           /\ res'[q].actualFen = RoundProductRatio(res'[q].actual)
                           /\ res'[q].actualFen > res'[q].fen
    BY DEF RowsPriced
  <2>1. CASE q # r
    <3>1. res'[q] = res[q] /\ (block => block')
      BY <2>1 DEF Ended, QuotaInv, QuotaTypeOK
    <3> QED
      BY <3>1 DEF QuotaInv, RowsPriced
  <2>2. CASE q = r
    <3>1. /\ res'[r].st = st /\ res'[r].max = res[r].max /\ res'[r].fen = res[r].fen
          /\ res'[r].actual = a /\ res'[r].actualFen = y
      BY DEF Ended, QuotaInv, QuotaTypeOK
    <3>2. res[r].fen = CeilProductRatio(res[r].max)
      BY DEF Ended, QuotaInv, RowsPriced
    <3>3. st = "violated" => block' /\ y = RoundProductRatio(a) /\ y > res[r].fen
      BY DEF Ended
    <3> QED
      BY <2>2, <3>1, <3>2, <3>3
  <2> QED
    BY <2>1, <2>2
<1> QED
  BY <1>1, <1>2 DEF QuotaInv

LEMMA ReserveKeepsInv ==
  ASSUME QuotaInv, NEW r \in QuotaReq, Reserve(r) PROVE QuotaInv'
<1>1. QuotaTypeOK'
  BY ReserveTypes DEF QuotaInv
<1>2. CASE ~MayReserve(r)
  <2>1. UNCHANGED <<block, res, bucket>>
    BY <1>2 DEF Reserve
  <2> QED
    BY <1>1, <2>1, RowsKept DEF QuotaInv
<1>3. CASE MayReserve(r)
  <2> DEFINE fen == CeilProductRatio(call[r].max)
  <2>1. res' = [res EXCEPT ![r] =
                  [st |-> "reserved", gen |-> current, at |-> call[r].at,
                   max |-> call[r].max, fen |-> fen, actual |-> 0, actualFen |-> 0]]
        /\ block' = block
    BY <1>3, ReserveWrites DEF QuotaInv, Reserve
  <2>2. /\ res'[r].st = "reserved" /\ res'[r].fen = CeilProductRatio(res'[r].max)
        /\ \A q \in QuotaReq : q # r => res'[q] = res[q]
    BY <2>1 DEF QuotaInv, QuotaTypeOK
  <2>3. RowsPriced'
    BY <2>1, <2>2 DEF QuotaInv, RowsPriced
  <2> QED
    BY <1>1, <1>3, <2>3, ReserveConserves, ReserveWindows DEF QuotaInv
<1> QED
  BY <1>2, <1>3

LEMMA QuotaStarts == QuotaInit => QuotaInv
<1> SUFFICES ASSUME QuotaInit PROVE QuotaInv
  OBVIOUS
<1>1. 0 \in Instant /\ 0 \in 0..MaxGen
  BY QuotaConstants DEF Instant
<1>2. QuotaTypeOK
  <2>1. NoPlan \in PlanRow
    BY <1>1 DEF NoPlan, PlanRow
  <2>2. NoCall \in CallRow /\ NoCall.st = "idle"
    BY <1>1 DEF NoCall, CallRow
  <2>3. NoRes \in QRow /\ NoRes.st = "none"
    BY <1>1 DEF NoRes, QRow
  <2>4. Empty \in [settled : Nat, reserved : Nat]
    BY DEF Empty
  <2> QED
    BY <1>1, <2>1, <2>2, <2>3, <2>4 DEF QuotaInit, QuotaTypeOK, PlanRow, CallRow, QRow
<1>3. RowsPriced
  BY DEF QuotaInit, NoRes, RowsPriced
<1>4. \A b \in DOMAIN bucket : bucket[b].settled = 0 /\ bucket[b].reserved = 0
  BY DEF QuotaInit, Empty
<1>5. QuotaConserved
  <2>1. \A b : /\ BoundTo(b, {"reserved"}) = {}
              /\ BoundTo(b, {"settled", "violated"}) = {}
    BY DEF QuotaInit, NoRes, BoundTo
  <2> QED
    BY <1>4, <2>1, SumEmpty, Conserved
<1>6. WindowNeverOverspent
  <2> SUFFICES ASSUME NEW g \in Gen, NEW u \in QuotaRule, NEW s \in Instant
               PROVE  UsedOf(Win(g, u, s)) <= LimitOf[u]
    BY Windows
  <2> DEFINE S == Win(g, u, s)
  <2>1. IsFiniteSet(S) /\ S \subseteq Bucket
    BY WinColumn, Columns
  <2> HIDE DEF S
  <2>2. \A b \in S : Used(S)[b] = 0
    BY <1>2, <1>4, <2>1, QuotaValues DEF Used
  <2>3. UsedOf(S) = 0
    BY <1>2, <2>1, <2>2, UsedSums, SumZero
  <2> QED
    BY <2>3, QuotaConstants DEF S
<1> QED
  BY <1>2, <1>3, <1>5, <1>6 DEF QuotaInv

LEMMA QuotaStep == QuotaInv /\ [QuotaNext]_quotaVars => QuotaInv'
<1> SUFFICES ASSUME QuotaInv, [QuotaNext]_quotaVars PROVE QuotaInv'
  OBVIOUS
<1>1. ASSUME NEW r \in QuotaReq, Reserve(r) PROVE QuotaInv'
  BY <1>1, ReserveKeepsInv
<1>2. ASSUME NEW r \in QuotaReq, NEW a \in Actual, Settle(r, a) PROVE QuotaInv'
  BY <1>2, Terminals, EndedKeepsInv DEF QuotaInv
<1>3. ASSUME NEW r \in QuotaReq, Release(r) PROVE QuotaInv'
  BY <1>3, Terminals, EndedKeepsInv DEF QuotaInv
<1>4. ASSUME \/ ClockTick \/ ReplaceEntitlement
             \/ \E g \in Gen : DisputeOpened(g) \/ DisputeWon(g) \/ DisputeLost(g)
             \/ \E r \in QuotaReq, m \in Maximum : AdmitFunding(r, m)
      PROVE  QuotaInv'
  <2>1. QuotaTypeOK' /\ UNCHANGED <<block, res, bucket>>
    BY <1>4, OtherSteps DEF QuotaInv
  <2> QED
    BY <2>1, RowsKept DEF QuotaInv
<1>5. CASE UNCHANGED quotaVars
  <2>1. QuotaTypeOK' /\ UNCHANGED <<block, res, bucket>>
    BY <1>5 DEF quotaVars, QuotaInv, QuotaTypeOK
  <2> QED
    BY <2>1, RowsKept DEF QuotaInv
<1> QED
  BY <1>1, <1>2, <1>3, <1>4, <1>5 DEF QuotaNext

LEMMA QuotaHolds == QuotaSpec => []QuotaInv
BY QuotaStarts, QuotaStep, PTL DEF QuotaSpec

(* Types of the tables quota.rs writes; amounts never go below zero.       *)
THEOREM QuotaTypes == QuotaSpec => []QuotaTypeOK
<1>1. QuotaInv => QuotaTypeOK
  BY DEF QuotaInv
<1> QED
  BY <1>1, QuotaHolds, PTL

(* reserve_tx and terminal_tx keep the counters of every bucket equal to   *)
(* the sums over the reservations bound to it.                             *)
THEOREM CountersConserved == QuotaSpec => []QuotaConserved
<1>1. QuotaInv => QuotaConserved
  BY DEF QuotaInv
<1> QED
  BY <1>1, QuotaHolds, PTL

(* As long as no charge exceeded its reserve, no window of a rule holds    *)
(* more than its quota, in whatever order requests reach reserve_tx.       *)
THEOREM WindowsHold == QuotaSpec => []WindowNeverOverspent
<1>1. QuotaInv => WindowNeverOverspent
  BY DEF QuotaInv
<1> QED
  BY <1>1, QuotaHolds, PTL

(* terminal_tx records a violation only of a charge above the maximum the  *)
(* request was admitted with, whatever the exchange rate and its rounding. *)
THEOREM ChargesFit == QuotaSpec => []BoundedChargeSettles
<1>1. QuotaInv => BoundedChargeSettles
  <2> SUFFICES ASSUME QuotaInv, NEW r \in QuotaReq, res[r].st = "violated"
               PROVE  res[r].actual > res[r].max
    BY DEF BoundedChargeSettles
  <2>1. /\ RoundProductRatio(res[r].actual) > CeilProductRatio(res[r].max)
        /\ res[r].actual \in Nat /\ res[r].max \in Nat
    BY QuotaValues DEF QuotaInv, RowsPriced
  <2>2. res[r].actual <= res[r].max =>
          RoundProductRatio(res[r].actual) <= CeilProductRatio(res[r].max)
    BY <2>1, Rounding
  <2>3. /\ RoundProductRatio(res[r].actual) \in Nat /\ CeilProductRatio(res[r].max) \in Nat
    BY <2>1, Rounding
  <2> QED
    BY <2>1, <2>2, <2>3
<1> QED
  BY <1>1, QuotaHolds, PTL

(* reserve_tx reserves nothing for a blocked or held user, for a plan that *)
(* is suspended or revoked, or for one replaced since admit_funding.       *)
THEOREM BlockedReservesNothing == QuotaSpec => NoReserveWhileBlocked
<1> DEFINE Refused ==
      \A r \in QuotaReq :
        res'[r].st = "reserved" /\ res[r].st # "reserved" =>
          /\ ~\E q \in QuotaReq : res[q].st = "violated"
          /\ ~hold
          /\ res'[r].gen = call[r].expect
          /\ plan[res'[r].gen].st = "live"
<1>1. QuotaInv /\ [QuotaNext]_quotaVars => [Refused]_quotaVars
  <2> SUFFICES ASSUME QuotaInv, QuotaNext, NEW r \in QuotaReq,
                      res'[r].st = "reserved", res[r].st # "reserved"
               PROVE  /\ ~\E q \in QuotaReq : res[q].st = "violated"
                      /\ ~hold
                      /\ res'[r].gen = call[r].expect
                      /\ plan[res'[r].gen].st = "live"
    OBVIOUS
  <2>1. res' # res
    OBVIOUS
  <2>2. ASSUME NEW q \in QuotaReq, NEW st, NEW a, NEW y, NEW x, Ended(q, st, a, y, x)
        PROVE  FALSE
    <3>1. res'[q].st = st /\ (r # q => res'[r] = res[r]) /\ st # "reserved"
      BY <2>2 DEF Ended, QuotaInv, QuotaTypeOK
    <3> QED
      BY <3>1
  <2>3. PICK q \in QuotaReq : Reserve(q)
    <3>1. ~(ClockTick \/ ReplaceEntitlement
            \/ (\E g \in Gen : DisputeOpened(g) \/ DisputeWon(g) \/ DisputeLost(g))
            \/ (\E q \in QuotaReq, m \in Maximum : AdmitFunding(q, m)))
      BY <2>1, OtherSteps DEF QuotaInv
    <3>2. \A q \in QuotaReq : ~Release(q) /\ \A a \in Actual : ~Settle(q, a)
      BY <2>2, Terminals DEF QuotaInv
    <3> QED
      BY <3>1, <3>2 DEF QuotaNext
  <2>4. MayReserve(q)
    BY <2>1, <2>3 DEF Reserve
  <2>5. /\ ~block /\ ~hold /\ plan[current].st = "live" /\ current = call[q].expect
        /\ res' = [res EXCEPT ![q] =
                  [st |-> "reserved", gen |-> current, at |-> call[q].at,
                   max |-> call[q].max, fen |-> CeilProductRatio(call[q].max),
                   actual |-> 0, actualFen |-> 0]]
    BY <2>3, <2>4, ReserveWrites DEF QuotaInv
  <2>6. (r # q => res'[r] = res[r]) /\ res'[q].gen = current
    BY <2>5 DEF QuotaInv, QuotaTypeOK
  <2> QED
    BY <2>5, <2>6 DEF QuotaInv, RowsPriced
<1> QED
  BY <1>1, QuotaHolds, PTL DEF QuotaSpec, NoReserveWhileBlocked

-----------------------------------------------------------------------------
(* The refinement of the charge ledger, through the buckets of one rule.   *)
TheRule == CHOOSE u \in QuotaRule : TRUE
Column  == {b \in Bucket : b[2] = TheRule}

Reserves == [b \in DOMAIN bucket |-> bucket[b].reserved]
Charges  == [b \in DOMAIN bucket |-> bucket[b].settled]

LOutcome ==
  [r \in QuotaReq |->
     IF res[r].st = "none" THEN "none"
     ELSE IF res[r].st = "reserved" THEN "open"
     ELSE IF res[r].st = "released" THEN "free" ELSE "spent"]
LAside == [r \in QuotaReq |-> IF res[r].st = "reserved" THEN res[r].fen ELSE 0]
LHeld  == SumOver(SeenThrough, Reserves)
LSpent == SumOver(SeenThrough, Charges)

LedgerNext == [Ledger!Next]_<<LOutcome, LAside, LHeld, LSpent>>

(* An admission under way asks for one of the maxima.                      *)
AskedMax == \A r \in QuotaReq : call[r].st # "idle" => call[r].max \in Maximum

LEMMA AskedStarts == QuotaInit => AskedMax
BY DEF QuotaInit, AskedMax, NoCall

LEMMA AskedStep == QuotaInv /\ AskedMax /\ [QuotaNext]_quotaVars => AskedMax'
<1> SUFFICES ASSUME QuotaInv, AskedMax, [QuotaNext]_quotaVars PROVE AskedMax'
  OBVIOUS
<1>1. CASE call' = call
  BY <1>1 DEF AskedMax
<1>2. ASSUME NEW r \in QuotaReq, Reserve(r) PROVE AskedMax'
  BY <1>2 DEF Reserve, AskedMax, NoCall, QuotaInv, QuotaTypeOK
<1>3. ASSUME NEW r \in QuotaReq, NEW m \in Maximum, AdmitFunding(r, m) PROVE AskedMax'
  BY <1>3 DEF AdmitFunding, AskedMax, QuotaInv, QuotaTypeOK
<1>4. \/ call' = call
      \/ \E r \in QuotaReq : Reserve(r) \/ \E m \in Maximum : AdmitFunding(r, m)
  BY DEF QuotaNext, quotaVars, ClockTick, ReplaceEntitlement, DisputeOpened, DisputeWon,
         DisputeLost, Settle, Release
<1> QED
  BY <1>1, <1>2, <1>3, <1>4

LEMMA ColumnSums ==
  ASSUME QuotaTypeOK
  PROVE  /\ SeenThrough = Column /\ IsFiniteSet(Column)
         /\ LHeld = SumOf(Reserves, Column) /\ LSpent = SumOf(Charges, Column)
         /\ Ints(Reserves, Column) /\ Ints(Charges, Column)
         /\ DOMAIN Reserves = Bucket /\ DOMAIN Charges = Bucket
<1>1. SeenThrough = Column
  BY QuotaValues DEF SeenThrough, Column, TheRule
<1>2. IsFiniteSet(Column)
  BY RuleFinite DEF Column
<1>3. LHeld = SumOf(Reserves, Column) /\ LSpent = SumOf(Charges, Column)
  BY <1>1, OverIsOf DEF LHeld, LSpent
<1>4. Ints(Reserves, Column) /\ Ints(Charges, Column)
  BY <1>2, QuotaValues DEF Ints, Reserves, Charges, Column
<1> QED
  BY <1>1, <1>2, <1>3, <1>4, QuotaValues DEF Reserves, Charges

LEMMA ColumnSumsNext ==
  ASSUME QuotaTypeOK'
  PROVE  LHeld' = SumOf(Reserves', Column) /\ LSpent' = SumOf(Charges', Column)
<1>1. DOMAIN bucket' = Bucket
  BY DEF QuotaTypeOK, Bucket
<1>2. SeenThrough' = Column
  BY <1>1 DEF SeenThrough, Column, TheRule
<1> QED
  BY <1>2, OverIsOf DEF LHeld, LSpent

(* The bindings of an admission meet the column of a rule in one bucket.   *)
LEMMA ColumnChange ==
  ASSUME NEW g \in Gen, NEW at \in Instant, NEW f, NEW h, NEW d \in Int,
         Ints(f, Column),
         \A b \in Column : h[b] = IF b \in Bindings(g, at) THEN f[b] + d ELSE f[b]
  PROVE  SumOf(h, Column) = SumOf(f, Column) + d
<1> DEFINE b1 == <<g, TheRule, WindowStart(TheRule, at)>>
<1>1. TheRule \in QuotaRule
  BY QuotaConstants DEF TheRule
<1>2. b1 \in Column /\ b1 \in Bindings(g, at)
  BY <1>1, WindowStarts DEF Column, Bucket, Bindings
<1>3. \A b \in Column : b \in Bindings(g, at) => b = b1
  BY DEF Column, Bindings
<1> HIDE DEF b1
<1>4. h[b1] = f[b1] + d /\ f[b1] \in Int /\ h[b1] \in Int
  BY <1>2 DEF Ints
<1>5. \A b \in Column : b # b1 => h[b] = f[b]
  BY <1>3
<1>6. SumOf(h, Column) = SumOf(f, Column) + h[b1] - f[b1]
  BY <1>2, <1>4, <1>5, SumChange
<1>7. SumOf(f, Column) \in Int
  BY SumInt
<1> QED
  BY <1>4, <1>6, <1>7

LEMMA LedgerSums ==
  ASSUME NEW f, NEW V
  PROVE  Ledger!MapThenSumSet(LAMBDA c : f[c], V) = SumOf(f, V)
BY SumDef DEF Ledger!MapThenSumSet, Ledger!MapThenFoldSet, Adds, Pick

LEMMA SumOne == ASSUME NEW f, NEW x, f[x] \in Int PROVE SumOf(f, {x}) = f[x]
<1>1. Ints(f, {}) /\ SumOf(f, {}) = 0
  BY FS_EmptySet, SumEmpty DEF Ints
<1>2. SumOf(f, {} \cup {x}) = f[x] + SumOf(f, {})
  BY <1>1, SumAdd
<1>3. {} \cup {x} = {x}
  OBVIOUS
<1> QED
  BY <1>1, <1>2, <1>3

LEMMA Updated ==
  ASSUME NEW S, NEW f, NEW h, NEW r \in S, NEW v,
         f = [q \in S |-> f[q]], h = [q \in S |-> h[q]],
         h[r] = v, \A q \in S : q # r => h[q] = f[q]
  PROVE  h = [f EXCEPT ![r] = v]
OBVIOUS

(* The outcomes, request by request.                                       *)
LEMMA OutcomeOf ==
  /\ LOutcome = [q \in QuotaReq |-> LOutcome[q]]
  /\ LAside = [q \in QuotaReq |-> LAside[q]]
  /\ \A q \in QuotaReq :
       /\ res[q].st = "none" => LOutcome[q] = "none" /\ LAside[q] = 0
       /\ res[q].st = "reserved" => LOutcome[q] = "open" /\ LAside[q] = res[q].fen
       /\ res[q].st \in {"settled", "violated"} => LOutcome[q] = "spent" /\ LAside[q] = 0
       /\ res[q].st = "released" => LOutcome[q] = "free" /\ LAside[q] = 0
BY DEF LOutcome, LAside

LEMMA OutcomeNext ==
  /\ LOutcome' = [q \in QuotaReq |-> LOutcome'[q]]
  /\ LAside' = [q \in QuotaReq |-> LAside'[q]]
  /\ \A q \in QuotaReq :
       /\ res'[q] = res[q] => LOutcome'[q] = LOutcome[q] /\ LAside'[q] = LAside[q]
       /\ res'[q].st = "reserved" => LOutcome'[q] = "open" /\ LAside'[q] = res'[q].fen
       /\ res'[q].st \in {"settled", "violated"} => LOutcome'[q] = "spent" /\ LAside'[q] = 0
       /\ res'[q].st = "released" => LOutcome'[q] = "free" /\ LAside'[q] = 0
BY DEF LOutcome, LAside

(* reserve_tx opens a charge.                                              *)
LEMMA ReserveOpens ==
  ASSUME QuotaInv, AskedMax, NEW r \in QuotaReq, Reserve(r), MayReserve(r)
  PROVE  LedgerNext
<1> DEFINE B == Bindings(current, call[r].at)
           fen == CeilProductRatio(call[r].max)
<1>1. QuotaTypeOK /\ QuotaTypeOK'
  BY ReserveTypes DEF QuotaInv
<1>2. /\ res[r].st = "none" /\ fen \in Nat /\ current \in Gen /\ call[r].at \in Instant
      /\ res' = [res EXCEPT ![r] =
                  [st |-> "reserved", gen |-> current, at |-> call[r].at,
                   max |-> call[r].max, fen |-> fen, actual |-> 0, actualFen |-> 0]]
      /\ bucket' = [b \in Bucket |->
                  IF b \in B THEN [settled |-> bucket[b].settled,
                                   reserved |-> bucket[b].reserved + fen]
                  ELSE bucket[b]]
  BY <1>1, ReserveWrites
<1>3. fen \in Fen
  BY DEF Reserve, AskedMax, Fen
<1> HIDE DEF fen
<1>4. /\ res'[r].st = "reserved" /\ res'[r].fen = fen
      /\ \A q \in QuotaReq : q # r => res'[q] = res[q]
  BY <1>1, <1>2 DEF QuotaTypeOK
<1>5. LOutcome[r] = "none" /\ LOutcome' = [LOutcome EXCEPT ![r] = "open"]
  <2>1. LOutcome[r] = "none" /\ LOutcome'[r] = "open"
        /\ \A q \in QuotaReq : q # r => LOutcome'[q] = LOutcome[q]
    BY <1>2, <1>4, OutcomeOf, OutcomeNext
  <2> QED
    BY <2>1, OutcomeOf, OutcomeNext, Updated
<1>6. LAside' = [LAside EXCEPT ![r] = fen]
  <2>1. LAside'[r] = fen /\ \A q \in QuotaReq : q # r => LAside'[q] = LAside[q]
    BY <1>4, OutcomeNext
  <2> QED
    BY <2>1, OutcomeOf, OutcomeNext, Updated
<1>7. \A b \in Column :
        /\ Reserves'[b] = IF b \in B THEN Reserves[b] + fen ELSE Reserves[b]
        /\ Charges'[b] = Charges[b]
  <2>1. Column \subseteq Bucket /\ DOMAIN bucket = Bucket /\ DOMAIN bucket' = Bucket
    BY <1>1, <1>2, QuotaValues DEF Column
  <2> HIDE DEF B
  <2> QED
    BY <1>2, <2>1 DEF Reserves, Charges
<1>8. /\ LHeld = SumOf(Reserves, Column) /\ LHeld' = SumOf(Reserves', Column)
      /\ LSpent = SumOf(Charges, Column) /\ LSpent' = SumOf(Charges', Column)
      /\ Ints(Reserves, Column) /\ Ints(Charges, Column)
  BY <1>1, ColumnSums, ColumnSumsNext
<1>9. LHeld' = LHeld + fen
  <2>1. SumOf(Reserves', Column) = SumOf(Reserves, Column) + fen
    BY <1>2, <1>7, <1>8, ColumnChange
  <2> QED
    BY <1>8, <2>1
<1>10. LSpent' = LSpent
  BY <1>7, <1>8, SumSame
<1>11. PICK v \in Fen : v = fen
  BY <1>3
<1>12. Ledger!Open(r, v)
  BY <1>5, <1>6, <1>9, <1>10, <1>11
     DEF Ledger!Open, LOutcome, LAside, LHeld, LSpent, Reserves, Charges
<1> QED
  BY <1>12 DEF LedgerNext, Ledger!Next

(* What a terminal does to the totals.                                     *)
LEMMA EndedTotals ==
  ASSUME QuotaInv, NEW r \in QuotaReq, NEW st, NEW a, NEW y, NEW x, Ended(r, st, a, y, x)
  PROVE  /\ LHeld' = LHeld - res[r].fen /\ LSpent' = LSpent + x
         /\ LHeld \in Int /\ LSpent \in Int
         /\ LOutcome[r] = "open" /\ LAside[r] = res[r].fen /\ res[r].fen \in Nat
         /\ LOutcome' = [LOutcome EXCEPT ![r] = IF st = "released" THEN "free" ELSE "spent"]
         /\ LAside' = [LAside EXCEPT ![r] = 0]
<1>1. QuotaTypeOK /\ QuotaTypeOK'
  BY EndedTypes DEF QuotaInv
<1>2. /\ res[r].st = "reserved" /\ st \in {"settled", "violated", "released"} /\ x \in Nat
      /\ bucket' = [b \in Bucket |->
           IF b \in Links(r)
           THEN [settled |-> bucket[b].settled + x,
                 reserved |-> bucket[b].reserved - res[r].fen]
           ELSE bucket[b]]
  BY DEF Ended
<1>3. res'[r].st = st /\ \A q \in QuotaReq : q # r => res'[q] = res[q]
  BY <1>1 DEF Ended, QuotaTypeOK
<1>4. res[r].gen \in Gen /\ res[r].at \in Instant /\ res[r].fen \in Nat
  BY <1>1, <1>2, QuotaValues
<1>5. Links(r) = Bindings(res[r].gen, res[r].at)
  BY DEF Links
<1>6. /\ LHeld = SumOf(Reserves, Column) /\ LHeld' = SumOf(Reserves', Column)
      /\ LSpent = SumOf(Charges, Column) /\ LSpent' = SumOf(Charges', Column)
      /\ Ints(Reserves, Column) /\ Ints(Charges, Column)
  BY <1>1, ColumnSums, ColumnSumsNext
<1> DEFINE d == 0 - res[r].fen
<1>7. \A b \in Column :
        /\ Reserves'[b] = IF b \in Links(r) THEN Reserves[b] + d ELSE Reserves[b]
        /\ Charges'[b] = IF b \in Links(r) THEN Charges[b] + x ELSE Charges[b]
  <2>1. Column \subseteq Bucket /\ DOMAIN bucket = Bucket /\ DOMAIN bucket' = Bucket
    BY <1>1, <1>2, QuotaValues DEF Column
  <2> SUFFICES ASSUME NEW b \in Column
               PROVE
               /\ Reserves'[b] = IF b \in Links(r) THEN Reserves[b] + d ELSE Reserves[b]
               /\ Charges'[b] = IF b \in Links(r) THEN Charges[b] + x ELSE Charges[b]
    OBVIOUS
  <2>2. /\ Reserves[b] = bucket[b].reserved /\ Charges[b] = bucket[b].settled
        /\ Reserves'[b] = bucket'[b].reserved /\ Charges'[b] = bucket'[b].settled
    BY <2>1 DEF Reserves, Charges
  <2>3. Reserves[b] \in Nat
    BY <1>1, <2>1, <2>2, QuotaValues
  <2>4. CASE b \in Links(r)
    <3>1. bucket'[b].settled = bucket[b].settled + x
          /\ bucket'[b].reserved = bucket[b].reserved - res[r].fen
      BY <1>2, <2>1, <2>4
    <3> QED
      BY <1>4, <2>2, <2>3, <2>4, <3>1
  <2>5. CASE b \notin Links(r)
    <3>1. bucket'[b] = bucket[b]
      BY <1>2, <2>1, <2>5
    <3> QED
      BY <2>2, <2>5, <3>1
  <2> QED
    BY <2>4, <2>5
<1>8. d \in Int
  BY <1>4
<1> HIDE DEF d
<1>9. SumOf(Reserves', Column) = SumOf(Reserves, Column) + d
  BY <1>4, <1>5, <1>6, <1>7, <1>8, ColumnChange
<1>10. SumOf(Charges', Column) = SumOf(Charges, Column) + x
  BY <1>2, <1>4, <1>5, <1>6, <1>7, ColumnChange
<1>11. LHeld \in Int /\ LSpent \in Int
  BY <1>6, SumInt
<1>12. LHeld' = LHeld - res[r].fen /\ LSpent' = LSpent + x
  BY <1>4, <1>6, <1>9, <1>10, <1>11 DEF d
<1>13. LOutcome[r] = "open" /\ LAside[r] = res[r].fen
  BY <1>2, OutcomeOf
<1>14. /\ LOutcome'[r] = IF st = "released" THEN "free" ELSE "spent"
       /\ LAside'[r] = 0
       /\ \A q \in QuotaReq : q # r => LOutcome'[q] = LOutcome[q] /\ LAside'[q] = LAside[q]
  BY <1>2, <1>3, OutcomeNext
<1>15. LOutcome' = [LOutcome EXCEPT ![r] = IF st = "released" THEN "free" ELSE "spent"]
  BY <1>14, OutcomeOf, OutcomeNext, Updated
<1>16. LAside' = [LAside EXCEPT ![r] = 0]
  BY <1>14, OutcomeOf, OutcomeNext, Updated
<1> QED
  BY <1>4, <1>11, <1>12, <1>13, <1>15, <1>16

(* terminal_tx with an amount spends, without one it frees.                *)
LEMMA SettleSpends ==
  ASSUME QuotaInv, NEW r \in QuotaReq, NEW a \in Actual, Settle(r, a) PROVE LedgerNext
<1> DEFINE x == RoundProductRatio(a)
           st == IF Exceeds(r, a) THEN "violated" ELSE "settled"
           S == {r}
           p == [c \in S |-> x]
<1>1. Ended(r, st, a, x, x)
  BY Terminals DEF QuotaInv
<1>2. x \in Nat /\ x \in Fen
  BY <1>1 DEF Ended, Fen
<1>3. st # "released"
  OBVIOUS
<1> HIDE DEF st, x
<1>4. /\ LHeld' = LHeld - res[r].fen /\ LSpent' = LSpent + x
      /\ LOutcome[r] = "open" /\ LAside[r] = res[r].fen /\ res[r].fen \in Nat
      /\ LOutcome' = [LOutcome EXCEPT ![r] = "spent"]
      /\ LAside' = [LAside EXCEPT ![r] = 0]
  BY <1>1, <1>3, EndedTotals
<1>5. SumOf(LAside, S) = res[r].fen
  <2>1. LAside[r] \in Int
    BY <1>4
  <2>2. SumOf(LAside, {r}) = LAside[r]
    BY <2>1, SumOne
  <2> QED
    BY <1>4, <2>2
<1>6. SumOf(p, S) = x
  <2>1. p[r] = x
    OBVIOUS
  <2> HIDE DEF p
  <2> QED
    BY <1>2, <2>1, SumOne
<1>7. p \in [S -> Fen] /\ S \subseteq QuotaReq /\ S # {} /\ \A c \in S : LOutcome[c] = "open"
  BY <1>2, <1>4
<1>8. LOutcome' = [c \in QuotaReq |-> IF c \in S THEN "spent" ELSE LOutcome[c]]
  BY <1>4, OutcomeOf
<1>9. LAside' = [c \in QuotaReq |-> IF c \in S THEN 0 ELSE LAside[c]]
  BY <1>4, OutcomeOf
<1> HIDE DEF S, p
<1>10. /\ LHeld' = LHeld - Ledger!MapThenSumSet(LAMBDA c : LAside[c], S)
       /\ LSpent' = LSpent + Ledger!MapThenSumSet(LAMBDA c : p[c], S)
  BY <1>4, <1>5, <1>6, LedgerSums
<1>11. Ledger!Spend(S, p)
  BY <1>7, <1>8, <1>9, <1>10
     DEF Ledger!Spend, LOutcome, LAside, LHeld, LSpent, Reserves, Charges
<1> QED
  BY <1>7, <1>11 DEF LedgerNext, Ledger!Next

LEMMA ReleaseFrees ==
  ASSUME QuotaInv, NEW r \in QuotaReq, Release(r) PROVE LedgerNext
<1>1. Ended(r, "released", res[r].actual, res[r].actualFen, 0)
  BY Terminals DEF QuotaInv
<1>2. \E a, y : Ended(r, "released", a, y, 0)
  <2>1. PICK a : a = res[r].actual
    OBVIOUS
  <2>2. PICK y : y = res[r].actualFen
    OBVIOUS
  <2>3. Ended(r, "released", a, y, 0)
    BY <1>1, <2>1, <2>2 DEF Ended
  <2> QED
    BY <2>3
<1>3. /\ LHeld' = LHeld - LAside[r] /\ LSpent' = LSpent
      /\ LOutcome[r] = "open"
      /\ LOutcome' = [LOutcome EXCEPT ![r] = "free"]
      /\ LAside' = [LAside EXCEPT ![r] = 0]
  BY <1>2, EndedTotals
<1>4. Ledger!Free(r)
  BY <1>3 DEF Ledger!Free, LOutcome, LAside, LHeld, LSpent, Reserves, Charges
<1> QED
  BY <1>4 DEF LedgerNext, Ledger!Next

LEMMA QuotaLedgerStep ==
  QuotaInv /\ AskedMax /\ [QuotaNext]_quotaVars => LedgerNext
<1> SUFFICES ASSUME QuotaInv, AskedMax, [QuotaNext]_quotaVars PROVE LedgerNext
  OBVIOUS
<1>1. ASSUME UNCHANGED <<res, bucket>> PROVE LedgerNext
  <2>1. LOutcome' = LOutcome /\ LAside' = LAside /\ LHeld' = LHeld /\ LSpent' = LSpent
    <3>1. LOutcome' = LOutcome /\ LAside' = LAside
      BY <1>1 DEF LOutcome, LAside
    <3>2. SeenThrough' = SeenThrough /\ Reserves' = Reserves /\ Charges' = Charges
      BY <1>1 DEF SeenThrough, Reserves, Charges
    <3>3. /\ LHeld = SumOf(Reserves, SeenThrough) /\ LHeld' = SumOf(Reserves', SeenThrough')
          /\ LSpent = SumOf(Charges, SeenThrough) /\ LSpent' = SumOf(Charges', SeenThrough')
      BY OverIsOf DEF LHeld, LSpent
    <3> QED
      BY <3>1, <3>2, <3>3
  <2> QED
    BY <2>1 DEF LedgerNext
<1>2. ASSUME NEW r \in QuotaReq, Reserve(r) PROVE LedgerNext
  <2>1. CASE MayReserve(r)
    BY <1>2, <2>1, ReserveOpens
  <2>2. CASE ~MayReserve(r)
    BY <1>1, <1>2, <2>2 DEF Reserve
  <2> QED
    BY <2>1, <2>2
<1>3. ASSUME NEW r \in QuotaReq, NEW a \in Actual, Settle(r, a) PROVE LedgerNext
  BY <1>3, SettleSpends
<1>4. ASSUME NEW r \in QuotaReq, Release(r) PROVE LedgerNext
  BY <1>4, ReleaseFrees
<1>5. ASSUME \/ ClockTick \/ ReplaceEntitlement
             \/ \E g \in Gen : DisputeOpened(g) \/ DisputeWon(g) \/ DisputeLost(g)
             \/ \E r \in QuotaReq, m \in Maximum : AdmitFunding(r, m)
             \/ UNCHANGED quotaVars
      PROVE  LedgerNext
  <2>1. UNCHANGED <<res, bucket>>
    BY <1>5 DEF quotaVars, ClockTick, ReplaceEntitlement, DisputeOpened, DisputeWon,
                DisputeLost, AdmitFunding
  <2> QED
    BY <1>1, <2>1
<1> QED
  BY <1>2, <1>3, <1>4, <1>5 DEF QuotaNext

LEMMA QuotaLedgerStarts == QuotaInit => Ledger!Init
<1> SUFFICES ASSUME QuotaInit PROVE Ledger!Init
  OBVIOUS
<1>1. QuotaTypeOK
  BY QuotaStarts DEF QuotaInv
<1>2. \A r \in QuotaReq : res[r].st = "none"
  BY DEF QuotaInit, NoRes
<1>3. LOutcome = [r \in QuotaReq |-> "none"] /\ LAside = [r \in QuotaReq |-> 0]
  BY <1>2 DEF LOutcome, LAside
<1>4. \A b \in Column : Reserves[b] = 0 /\ Charges[b] = 0
  BY <1>1, QuotaValues DEF QuotaInit, Empty, Column, Reserves, Charges
<1>5. LHeld = 0 /\ LSpent = 0
  BY <1>1, <1>4, ColumnSums, SumZero
<1> QED
  BY <1>3, <1>5 DEF Ledger!Init, LOutcome, LAside, LHeld, LSpent, Reserves, Charges

(* The buckets of quota.rs implement the ledger of ChargeLedger: a request *)
(* is reserved once and ends once, and no terminal, replacement of the     *)
(* plan or expiry of a window creates or loses an amount.                  *)
THEOREM QuotaImplementsLedger == QuotaSpec => QuotaLedger
<1>1. QuotaInit => Ledger!Init /\ AskedMax
  BY QuotaLedgerStarts, AskedStarts
<1>2. QuotaInv /\ AskedMax /\ [QuotaNext]_quotaVars => AskedMax'
  BY AskedStep
<1>3. QuotaInv /\ AskedMax /\ [QuotaNext]_quotaVars =>
        [Ledger!Next]_<<LOutcome, LAside, LHeld, LSpent>>
  BY QuotaLedgerStep DEF LedgerNext
<1> QED
  BY <1>1, <1>2, <1>3, QuotaHolds, PTL
     DEF QuotaSpec, QuotaLedger, Ledger!Spec, LOutcome, LAside, LHeld, LSpent, Reserves, Charges

-----------------------------------------------------------------------------
TokenRow  == [st : {"none", "issued", "late"}, confirmed : BOOLEAN,
              receipt : {"settlement", "release", "none"}]
MarkerRow == [st : {"none", "claimed", "confirmed", "routed", "release_pending"},
              acked : BOOLEAN]
TermRow   == [kind : {"settlement", "release", "none"},
              by : {"none", "owner", "handler", "loop", "start"}]
OwnerState == {"idle", "claim", "confirm1", "confirm2", "persist", "abort",
               "abort_spool", "handoff", "sent", "ready", "routed", "lost", "done"}
Activated  == {"handoff", "sent", "ready"}
RelState   == {"idle", "mark", "spool"}
ShipRow    == [st : {"idle", "publish", "wait", "ack"}, todo : SUBSET Token,
               batch : SUBSET Posted]
Requests   == {Confirm(k) : k \in Token} \cup {Batch(b) : b \in SUBSET Posted}

Rows ==
  /\ token \in [Token -> TokenRow] /\ marker \in [Token -> MarkerRow]
  /\ term \in [Token -> TermRow] /\ owner \in [Token -> OwnerState]
  /\ active \subseteq Token /\ faults \subseteq Token
  /\ rel \in [Token -> RelState] /\ ship \in ShipRow /\ net \subseteq Requests
  /\ past \in [Token -> SUBSET {"sent", "gave_up"}]
  /\ crashes \in 0..MaxCrash

(* How far a request can be, given what its claim says.                    *)
Progress(k) ==
  /\ owner[k] \notin {"idle", "done"} => token[k].st # "none"
  /\ owner[k] \in {"confirm1", "confirm2", "persist", "abort"} => marker[k].st = "claimed"
  /\ owner[k] = "abort_spool" => marker[k].st = "release_pending"
  /\ owner[k] \in Activated => marker[k].st = "confirmed"
  /\ owner[k] = "routed" => marker[k].st = "routed"
  /\ owner[k] \in {"confirm1", "confirm2", "persist", "abort", "routed"} \cup Activated
       => term[k] = NoTerm /\ ~marker[k].acked /\ rel[k] = "idle"
  /\ rel[k] # "idle" => marker[k].st # "none"
  /\ rel[k] = "spool" => marker[k].st = "release_pending"
  /\ marker[k].acked => marker[k].st # "none"
  /\ marker[k].st # "none" => token[k].st # "none"
  /\ term[k] # NoTerm => marker[k].st # "none" /\ term[k].kind # "none"

(* What a receipt of the Primary says about the claim of the Replica: a    *)
(* receipt without a terminal on disk and without an acknowledgement is    *)
(* the reaper's, and then the token was never confirmed.                   *)
Receipts(k) ==
  /\ owner[k] \in {"persist", "routed"} \cup Activated => token[k].confirmed
  /\ marker[k].st \in {"confirmed", "routed"} => token[k].confirmed
  /\ term[k].kind = "settlement" => token[k].confirmed
  /\ marker[k].acked => token[k].receipt # "none"
  /\ term[k] # NoTerm => token[k].receipt \in {term[k].kind}
                           \cup (IF marker[k].acked THEN {} ELSE {"none"})
  /\ term[k] = NoTerm /\ ~marker[k].acked /\ token[k].receipt # "none"
       => token[k].receipt = "release" /\ ~token[k].confirmed

(* A dispatched request that its handler did not give up is on no path to  *)
(* a release.                                                              *)
Dispatched(k) ==
  "sent" \in past[k] =>
    /\ token[k].confirmed
    /\ "gave_up" \notin past[k] =>
         /\ marker[k].st = "routed" /\ rel[k] = "idle"
         /\ term[k].kind # "release" /\ token[k].receipt # "release"

Row(k) == Progress(k) /\ Receipts(k) /\ Dispatched(k)

(* A posted terminal is still on disk, or has been acknowledged.           *)
WasSpooled(t) ==
  \/ term[t.k].kind = t.kind
  \/ marker[t.k].acked /\ token[t.k].receipt = t.kind

Shipped ==
  /\ \A b \in SUBSET Posted : Batch(b) \in net => \A t \in b : WasSpooled(t)
  /\ \A t \in ship.batch : WasSpooled(t)
  /\ ship.st = "ack" => \A t \in ship.batch : token[t.k].receipt = t.kind
  /\ \A k \in ship.todo : marker[k].st = "release_pending"

(* The inductive invariant.                                                *)
AdmInv == Rows /\ (\A k \in Token : Row(k)) /\ Shipped

(* A Primary and a Replica without tokens satisfy the invariant.           *)
LEMMA AdmInitInv == AdmInit => AdmInv
<1> SUFFICES ASSUME AdmInit PROVE AdmInv
  OBVIOUS
<1> USE DEF AdmInit, NoToken, NoMarker, NoTerm, IdleShip
<1>1. Rows
  BY AdmissionConstants DEF Rows, TokenRow, MarkerRow, TermRow, OwnerState, RelState, ShipRow
<1>2. \A k \in Token : Row(k)
  BY DEF Row, Progress, Activated, Receipts, Dispatched
<1>3. Shipped
  BY DEF Shipped
<1> QED
  BY <1>1, <1>2, <1>3 DEF AdmInv

(* A step that concerns one token leaves the rows of the others.           *)
LEMMA OtherRows ==
  ASSUME AdmInv, NEW k \in Token,
         \A q \in Token \ {k} :
           /\ token'[q] = token[q] /\ marker'[q] = marker[q] /\ term'[q] = term[q]
           /\ owner'[q] = owner[q] /\ rel'[q] = rel[q] /\ past'[q] = past[q],
         Rows', Row(k)', Shipped'
  PROVE  AdmInv'
BY DEF AdmInv, Row, Progress, Receipts, Dispatched

(* What was spooled stays spooled or acknowledged, and a step that posts   *)
(* nothing and acknowledges nothing keeps Shipped.                         *)
LEMMA ShippedStays ==
  ASSUME AdmInv, ship' \in ShipRow,
         \A b \in SUBSET Posted : Batch(b) \in net' => Batch(b) \in net,
         ship'.batch \subseteq ship.batch, ship'.st = "ack" => ship.st = "ack",
         ship'.todo \subseteq ship.todo,
         \A k \in Token :
           /\ term[k].kind # "none" => term'[k].kind = term[k].kind
           /\ marker[k].acked => marker'[k].acked
           /\ token[k].receipt # "none" => token'[k].receipt = token[k].receipt
           /\ marker[k].st = "release_pending" => marker'[k].st = "release_pending"
  PROVE  Shipped'
<1>1. \A t \in Posted : WasSpooled(t) => WasSpooled(t)'
  BY DEF WasSpooled, Posted, Kinds, AdmInv, Rows, TokenRow, MarkerRow, TermRow
<1>2. ship.batch \subseteq Posted /\ ship.todo \subseteq Token
  BY DEF AdmInv, Rows, ShipRow
<1>3. ship'.st = "ack" => \A t \in ship'.batch : token'[t.k].receipt = t.kind
  BY <1>2 DEF AdmInv, Shipped, Posted, Kinds
<1> QED
  BY <1>1, <1>2, <1>3 DEF AdmInv, Shipped

(* Steps of the Primary other than the application of a batch.             *)
LEMMA PrimaryStep ==
  ASSUME AdmInv, NEW k \in Token,
         \/ \E a \in BOOLEAN : Issue(k, a)
         \/ Expire(k) \/ Reap(k)
         \/ \E onTime, a, rep \in BOOLEAN : ConfirmArrives(k, onTime, a, rep)
  PROVE  AdmInv'
<1>0. Rows /\ Row(k)
  BY DEF AdmInv
<1> USE DEF Rows
<1>1. ASSUME NEW a \in BOOLEAN, Issue(k, a) PROVE AdmInv'
  <2>1. /\ token' \in [Token -> TokenRow] /\ owner' \in [Token -> OwnerState]
        /\ token'[k].st # "none"
        /\ token'[k].confirmed = token[k].confirmed /\ token'[k].receipt = token[k].receipt
        /\ owner'[k] \in {"claim", "done"}
        /\ \A q \in Token \ {k} : token'[q] = token[q] /\ owner'[q] = owner[q]
    BY <1>0, <1>1 DEF Issue, TokenRow, OwnerState
  <2>2. Row(k)'
    BY <1>0, <1>1, <2>1 DEF Issue, Row, Progress, Activated, Receipts, Dispatched
  <2>3. Shipped'
    BY <1>0, <1>1, <2>1, ShippedStays DEF Issue
  <2> QED
    BY <1>0, <1>1, <2>1, <2>2, <2>3, OtherRows DEF Issue
<1>2. CASE Expire(k)
  <2>1. /\ token' \in [Token -> TokenRow]
        /\ token'[k].st # "none"
        /\ token'[k].confirmed = token[k].confirmed /\ token'[k].receipt = token[k].receipt
        /\ \A q \in Token \ {k} : token'[q] = token[q]
    BY <1>0, <1>2 DEF Expire, TokenRow
  <2>2. Row(k)'
    BY <1>0, <1>2, <2>1 DEF Expire, Row, Progress, Receipts, Dispatched
  <2>3. Shipped'
    BY <1>0, <1>2, <2>1, ShippedStays DEF Expire
  <2> QED
    BY <1>0, <1>2, <2>1, <2>2, <2>3, OtherRows DEF Expire
<1>3. CASE Reap(k)
  <2>1. /\ token' \in [Token -> TokenRow]
        /\ ~token[k].confirmed /\ token[k].receipt = "none"
        /\ token'[k].st = token[k].st
        /\ token'[k].confirmed = token[k].confirmed /\ token'[k].receipt = "release"
        /\ \A q \in Token \ {k} : token'[q] = token[q]
    BY <1>0, <1>3 DEF Reap, Reapable, TokenRow
  <2>2. Row(k)'
    BY <1>0, <1>3, <2>1 DEF Reap, Row, Progress, Receipts, Dispatched, TermRow
  <2>3. Shipped'
    BY <1>0, <1>3, <2>1, ShippedStays DEF Reap
  <2> QED
    BY <1>0, <1>3, <2>1, <2>2, <2>3, OtherRows DEF Reap
<1>4. ASSUME NEW onTime \in BOOLEAN, NEW a \in BOOLEAN, NEW rep \in BOOLEAN,
             ConfirmArrives(k, onTime, a, rep)
      PROVE  AdmInv'
  <2>1. /\ token' \in [Token -> TokenRow] /\ owner' \in [Token -> OwnerState]
        /\ token'[k].st = token[k].st /\ token'[k].receipt = token[k].receipt
        /\ \/ token'[k].confirmed /\ token[k].receipt = "none"
           \/ token'[k].confirmed = token[k].confirmed
        /\ token[k].confirmed => token'[k].confirmed
        /\ \A q \in Token \ {k} : token'[q] = token[q] /\ owner'[q] = owner[q]
    <3>1. /\ owner' \in [Token -> OwnerState]
          /\ \A q \in Token \ {k} : owner'[q] = owner[q]
      BY <1>0, <1>4 DEF ConfirmArrives, OwnerState
    <3>2. CASE Confirmable(k, onTime)
      <4>1. token' = [token EXCEPT ![k].confirmed = TRUE] /\ token[k].receipt = "none"
        BY <1>4, <3>2 DEF ConfirmArrives, Confirmable
      <4>2. token' = [token EXCEPT ![k] = [@ EXCEPT !.confirmed = TRUE]] /\ token[k] \in TokenRow
        BY <1>0, <4>1
      <4>3. [token[k] EXCEPT !.confirmed = TRUE] \in TokenRow
        BY <4>2 DEF TokenRow
      <4>4. /\ token'[k].st = token[k].st /\ token'[k].receipt = token[k].receipt
            /\ token'[k].confirmed
        BY <1>0, <4>2 DEF TokenRow
      <4>5. token' \in [Token -> TokenRow] /\ \A q \in Token \ {k} : token'[q] = token[q]
        BY <1>0, <4>2, <4>3
      <4> QED
        BY <3>1, <4>1, <4>4, <4>5
    <3>3. CASE ~Confirmable(k, onTime)
      BY <1>0, <1>4, <3>1, <3>3 DEF ConfirmArrives
    <3> QED
      BY <3>2, <3>3
  <2>2. \/ owner'[k] = owner[k]
        \/ owner[k] \in {"confirm1", "confirm2"} /\ owner'[k] = "abort"
        \/ owner[k] \in {"confirm1", "confirm2"} /\ owner'[k] = "persist" /\ token'[k].confirmed
    BY <1>0, <1>4 DEF ConfirmArrives, TokenRow
  <2>3. Row(k)'
    BY <1>0, <1>4, <2>1, <2>2 DEF ConfirmArrives, Row, Progress, Activated, Receipts, Dispatched
  <2>4. net' \subseteq net
    BY <1>4 DEF ConfirmArrives
  <2>5. Shipped'
    BY <1>0, <1>4, <2>1, <2>4, ShippedStays DEF ConfirmArrives
  <2> QED
    BY <1>0, <1>4, <2>1, <2>3, <2>4, <2>5, OtherRows DEF ConfirmArrives
<1> QED
  BY <1>1, <1>2, <1>3, <1>4

(* Steps of the Replica's requests and releases.                           *)
LEMMA RequestStep ==
  ASSUME AdmInv, NEW k \in Token,
         \/ OwnerStep(k) \/ ClaimWriteFails(k)
         \/ HandlerStep(k) \/ ReleaseStep(k) \/ ReleaseCancelled(k)
  PROVE  AdmInv'
<1>0. Rows /\ Row(k)
  BY DEF AdmInv
<1> USE DEF Rows, Activated
<1>1. ASSUME NEW kind \in Kinds, NEW who \in {"owner", "handler", "loop", "start"},
             SpoolTerminal(k, kind, who)
      PROVE  /\ term' \in [Token -> TermRow]
             /\ \A q \in Token \ {k} : term'[q] = term[q]
             /\ \/ term'[k] = term[k] /\ (term[k] # NoTerm \/ marker[k].acked \/ marker[k].st = "none")
                \/ /\ term[k] = NoTerm /\ ~marker[k].acked /\ marker[k].st # "none"
                   /\ term'[k].kind = kind /\ term'[k] # NoTerm
  BY <1>0, <1>1 DEF SpoolTerminal, MaySpool, TermRow, Kinds, NoTerm
<1>2. ASSUME NEW v \in BOOLEAN, Claim(k, v) PROVE AdmInv'
  <2>1. CASE v /\ marker[k].st = "none"
    <3>1. /\ marker' \in [Token -> MarkerRow] /\ owner' \in [Token -> OwnerState]
          /\ marker'[k].st = "claimed" /\ marker'[k].acked = marker[k].acked
          /\ owner'[k] = "confirm1"
          /\ \A q \in Token \ {k} : marker'[q] = marker[q] /\ owner'[q] = owner[q]
      <4>1. /\ marker' = [marker EXCEPT ![k].st = "claimed"]
            /\ owner' = [owner EXCEPT ![k] = "confirm1"]
        BY <1>2, <2>1 DEF Claim
      <4> QED
        BY <1>0, <4>1 DEF MarkerRow, OwnerState
    <3>2. Row(k)'
      BY <1>0, <1>2, <2>1, <3>1 DEF Claim, Row, Progress, Receipts, Dispatched
    <3>3. /\ net' \subseteq Requests
          /\ \A b \in SUBSET Posted : Batch(b) \in net' => Batch(b) \in net
      BY <1>0, <1>2, <2>1 DEF Claim, Requests, Batch, Confirm
    <3>4. Shipped'
      BY <1>0, <1>2, <2>1, <3>1, <3>3, ShippedStays DEF Claim
    <3> QED
      BY <1>0, <1>2, <2>1, <3>1, <3>2, <3>3, <3>4, OtherRows DEF Claim
  <2>2. CASE ~(v /\ marker[k].st = "none")
    <3>1. /\ owner' \in [Token -> OwnerState] /\ owner'[k] = "done"
          /\ \A q \in Token \ {k} : owner'[q] = owner[q]
          /\ UNCHANGED <<marker, net>>
      BY <1>0, <1>2, <2>2 DEF Claim, OwnerState
    <3>2. Row(k)'
      BY <1>0, <1>2, <3>1 DEF Claim, Row, Progress, Receipts, Dispatched
    <3>3. Shipped'
      BY <1>0, <1>2, <3>1, ShippedStays DEF Claim
    <3> QED
      BY <1>0, <1>2, <3>1, <3>2, <3>3, OtherRows DEF Claim
  <2> QED
    BY <2>1, <2>2
<1>3. CASE ConfirmTimeout(k)
  <2>1. /\ owner' \in [Token -> OwnerState]
        /\ owner[k] \in {"confirm1", "confirm2"} /\ owner'[k] \in {"confirm2", "abort"}
        /\ \A q \in Token \ {k} : owner'[q] = owner[q]
    BY <1>0, <1>3 DEF ConfirmTimeout, OwnerState
  <2>2. /\ net' \subseteq Requests
        /\ \A b \in SUBSET Posted : Batch(b) \in net' => Batch(b) \in net
    BY <1>0, <1>3 DEF ConfirmTimeout, Requests, Batch, Confirm
  <2>3. Row(k)'
    BY <1>0, <1>3, <2>1 DEF ConfirmTimeout, Row, Progress, Receipts, Dispatched
  <2>4. Shipped'
    BY <1>0, <1>3, <2>2, ShippedStays DEF ConfirmTimeout
  <2> QED
    BY <1>0, <1>3, <2>1, <2>2, <2>3, <2>4, OtherRows DEF ConfirmTimeout
<1>4. CASE MarkConfirmed(k)
  <2>1. /\ marker' \in [Token -> MarkerRow] /\ owner' \in [Token -> OwnerState]
        /\ marker'[k].st = "confirmed" /\ marker'[k].acked = marker[k].acked
        /\ owner'[k] = "handoff"
        /\ \A q \in Token \ {k} : marker'[q] = marker[q] /\ owner'[q] = owner[q]
    BY <1>0, <1>4 DEF MarkConfirmed, MarkerRow, OwnerState
  <2>2. Row(k)'
    BY <1>0, <1>4, <2>1 DEF MarkConfirmed, Row, Progress, Receipts, Dispatched
  <2>3. marker[k].st = "release_pending" => marker'[k].st = "release_pending"
    BY <1>0, <1>4, <2>1 DEF MarkConfirmed, Row, Progress
  <2>4. Shipped'
    BY <1>0, <1>4, <2>1, <2>3, ShippedStays DEF MarkConfirmed
  <2> QED
    BY <1>0, <1>4, <2>1, <2>2, <2>4, OtherRows DEF MarkConfirmed
<1>5. CASE AbortMark(k)
  <2>1. /\ marker' \in [Token -> MarkerRow] /\ owner' \in [Token -> OwnerState]
        /\ marker'[k].st = "release_pending" /\ marker'[k].acked = marker[k].acked
        /\ owner'[k] = "abort_spool"
        /\ \A q \in Token \ {k} : marker'[q] = marker[q] /\ owner'[q] = owner[q]
    BY <1>0, <1>5 DEF AbortMark, MarkerRow, OwnerState
  <2>2. Row(k)'
    BY <1>0, <1>5, <2>1 DEF AbortMark, Row, Progress, Receipts, Dispatched
  <2>3. marker[k].st = "release_pending" => marker'[k].st = "release_pending"
    BY <1>0, <1>5, <2>1 DEF AbortMark, Row, Progress
  <2>4. Shipped'
    BY <1>0, <1>5, <2>1, <2>3, ShippedStays DEF AbortMark
  <2> QED
    BY <1>0, <1>5, <2>1, <2>2, <2>4, OtherRows DEF AbortMark
<1>6. CASE MarkRouted(k)
  <2>1. /\ marker' \in [Token -> MarkerRow] /\ owner' \in [Token -> OwnerState]
        /\ past' \in [Token -> SUBSET {"sent", "gave_up"}]
        /\ marker'[k].st = "routed" /\ marker'[k].acked = marker[k].acked
        /\ owner'[k] = "routed" /\ past'[k] = past[k] \cup {"sent"}
        /\ \A q \in Token \ {k} : marker'[q] = marker[q] /\ owner'[q] = owner[q] /\ past'[q] = past[q]
    <3>1. /\ marker' = [marker EXCEPT ![k] = [marker[k] EXCEPT !.st = "routed"]]
          /\ owner' = [owner EXCEPT ![k] = "routed"]
          /\ past' = [past EXCEPT ![k] = @ \cup {"sent"}]
      BY <1>6 DEF MarkRouted, DispatchMarker
    <3>2. /\ marker' \in [Token -> MarkerRow]
          /\ marker'[k].st = "routed" /\ marker'[k].acked = marker[k].acked
          /\ \A q \in Token \ {k} : marker'[q] = marker[q]
      BY <1>0, <3>1 DEF MarkerRow
    <3>3. /\ past' \in [Token -> SUBSET {"sent", "gave_up"}]
          /\ past'[k] = past[k] \cup {"sent"}
          /\ \A q \in Token \ {k} : past'[q] = past[q]
      BY <1>0, <3>1
    <3> QED
      BY <1>0, <3>1, <3>2, <3>3 DEF OwnerState
  <2>2. Row(k)'
    <3>1. /\ owner[k] = "ready" /\ rel[k] = "idle" /\ term[k] = NoTerm
          /\ ~marker[k].acked /\ token[k].confirmed /\ token[k].st # "none"
      BY <1>0, <1>6 DEF MarkRouted, Row, Progress, Receipts
    <3>2. token[k].receipt = "none"
      BY <1>0, <3>1 DEF Row, Receipts
    <3>3. UNCHANGED <<token, term, rel>>
      BY <1>6 DEF MarkRouted
    <3>4. Progress(k)' /\ Receipts(k)'
      BY <2>1, <3>1, <3>2, <3>3 DEF Progress, Receipts, NoTerm
    <3>5. Dispatched(k)'
      BY <2>1, <3>1, <3>2, <3>3 DEF Dispatched, NoTerm
    <3> QED
      BY <3>4, <3>5 DEF Row
  <2>3. marker[k].st = "release_pending" => marker'[k].st = "release_pending"
    BY <1>0, <1>6, <2>1 DEF MarkRouted, Row, Progress
  <2>4. Shipped'
    BY <1>0, <1>6, <2>1, <2>3, ShippedStays DEF MarkRouted
  <2> QED
    BY <1>0, <1>6, <2>1, <2>2, <2>4, OtherRows DEF MarkRouted
<1>7. CASE ReleaseMark(k)
  <2>1. /\ marker' \in [Token -> MarkerRow] /\ rel' \in [Token -> RelState]
        /\ marker'[k].st = "release_pending" /\ marker'[k].acked = marker[k].acked
        /\ rel'[k] = "spool"
        /\ \A q \in Token \ {k} : marker'[q] = marker[q] /\ rel'[q] = rel[q]
    BY <1>0, <1>7 DEF ReleaseMark, MarkerRow, RelState
  <2>2. Row(k)'
    BY <1>0, <1>7, <2>1 DEF ReleaseMark, Row, Progress, Receipts, Dispatched
  <2>3. marker[k].st = "release_pending" => marker'[k].st = "release_pending"
    BY <1>0, <1>7, <2>1 DEF ReleaseMark, Row, Progress
  <2>4. Shipped'
    BY <1>0, <1>7, <2>1, <2>3, ShippedStays DEF ReleaseMark
  <2> QED
    BY <1>0, <1>7, <2>1, <2>2, <2>4, OtherRows DEF ReleaseMark
<1>8. CASE ClaimWriteFails(k)
  <2>1. /\ owner' \in [Token -> OwnerState]
        /\ \/ owner[k] = "persist" /\ owner'[k] = "abort"
           \/ owner'[k] = "done"
        /\ \A q \in Token \ {k} : owner'[q] = owner[q]
    BY <1>0, <1>8 DEF ClaimWriteFails, OwnerState
  <2>2. Row(k)'
    BY <1>0, <1>8, <2>1 DEF ClaimWriteFails, Row, Progress, Receipts, Dispatched
  <2>3. Shipped'
    BY <1>0, <1>8, <2>1, ShippedStays DEF ClaimWriteFails
  <2> QED
    BY <1>0, <1>8, <2>1, <2>2, <2>3, OtherRows DEF ClaimWriteFails
<1>9. CASE StartRelease(k)
  <2>1. /\ owner' \in [Token -> OwnerState] /\ rel' \in [Token -> RelState]
        /\ past' \in [Token -> SUBSET {"sent", "gave_up"}]
        /\ owner'[k] = "done" /\ rel'[k] = "mark" /\ past'[k] = past[k] \cup {"gave_up"}
        /\ \A q \in Token \ {k} : owner'[q] = owner[q] /\ rel'[q] = rel[q] /\ past'[q] = past[q]
    BY <1>0, <1>9 DEF StartRelease, OwnerState, RelState
  <2>2. Row(k)'
    BY <1>0, <1>9, <2>1 DEF StartRelease, Row, Progress, Receipts, Dispatched
  <2>3. Shipped'
    BY <1>0, <1>9, <2>1, ShippedStays DEF StartRelease
  <2> QED
    BY <1>0, <1>9, <2>1, <2>2, <2>3, OtherRows DEF StartRelease
<1>10. CASE ReleaseCancelled(k)
  <2>1. /\ rel' \in [Token -> RelState]
        /\ rel'[k] = "mark"
        /\ \A q \in Token \ {k} : rel'[q] = rel[q]
    BY <1>0, <1>10 DEF ReleaseCancelled, RelState
  <2>2. Row(k)'
    BY <1>0, <1>10, <2>1 DEF ReleaseCancelled, Row, Progress, Receipts, Dispatched
  <2>3. Shipped'
    BY <1>0, <1>10, <2>1, ShippedStays DEF ReleaseCancelled
  <2> QED
    BY <1>0, <1>10, <2>1, <2>2, <2>3, OtherRows DEF ReleaseCancelled
<1>11. CASE AbortSpool(k)
  <2>1. /\ owner' \in [Token -> OwnerState]
        /\ owner'[k] = "done"
        /\ \A q \in Token \ {k} : owner'[q] = owner[q]
    BY <1>0, <1>11 DEF AbortSpool, OwnerState
  <2>2. SpoolTerminal(k, "release", "owner")
    BY <1>11 DEF AbortSpool
  <2>3. /\ term' \in [Token -> TermRow]
        /\ \A q \in Token \ {k} : term'[q] = term[q]
        /\ \/ term'[k] = term[k] /\ (term[k] # NoTerm \/ marker[k].acked \/ marker[k].st = "none")
           \/ /\ term[k] = NoTerm /\ ~marker[k].acked /\ marker[k].st # "none"
              /\ term'[k].kind = "release" /\ term'[k] # NoTerm
    BY <1>1, <2>2 DEF Kinds
  <2>4. Row(k)'
    BY <1>0, <1>11, <2>1, <2>3 DEF AbortSpool, Row, Progress, Receipts, Dispatched, NoTerm, TermRow, TokenRow
  <2>5. Shipped'
    BY <1>0, <1>11, <2>3, ShippedStays DEF AbortSpool, NoTerm
  <2> QED
    BY <1>0, <1>11, <2>1, <2>3, <2>4, <2>5, OtherRows DEF AbortSpool
<1>12. CASE SettleRequest(k)
  <2>1. /\ owner' \in [Token -> OwnerState] /\ active' \subseteq Token
        /\ owner'[k] = "done"
        /\ \A q \in Token \ {k} : owner'[q] = owner[q]
    BY <1>0, <1>12 DEF SettleRequest, OwnerState
  <2>2. SpoolTerminal(k, "settlement", "handler")
    BY <1>12 DEF SettleRequest
  <2>3. /\ term' \in [Token -> TermRow]
        /\ \A q \in Token \ {k} : term'[q] = term[q]
        /\ \/ term'[k] = term[k] /\ (term[k] # NoTerm \/ marker[k].acked \/ marker[k].st = "none")
           \/ /\ term[k] = NoTerm /\ ~marker[k].acked /\ marker[k].st # "none"
              /\ term'[k].kind = "settlement" /\ term'[k] # NoTerm
    BY <1>1, <2>2 DEF Kinds
  <2>4. Row(k)'
    BY <1>0, <1>12, <2>1, <2>3 DEF SettleRequest, Row, Progress, Receipts, Dispatched, NoTerm, TermRow, TokenRow
  <2>5. Shipped'
    BY <1>0, <1>12, <2>3, ShippedStays DEF SettleRequest, NoTerm
  <2> QED
    BY <1>0, <1>12, <2>1, <2>3, <2>4, <2>5, OtherRows DEF SettleRequest
<1>13. CASE ReleaseSpool(k)
  <2>1. /\ rel' \in [Token -> RelState] /\ active' \subseteq Token
        /\ rel'[k] = "idle"
        /\ \A q \in Token \ {k} : rel'[q] = rel[q]
    BY <1>0, <1>13 DEF ReleaseSpool, RelState
  <2>2. SpoolTerminal(k, "release", "handler")
    BY <1>13 DEF ReleaseSpool
  <2>3. /\ term' \in [Token -> TermRow]
        /\ \A q \in Token \ {k} : term'[q] = term[q]
        /\ \/ term'[k] = term[k] /\ (term[k] # NoTerm \/ marker[k].acked \/ marker[k].st = "none")
           \/ /\ term[k] = NoTerm /\ ~marker[k].acked /\ marker[k].st # "none"
              /\ term'[k].kind = "release" /\ term'[k] # NoTerm
    BY <1>1, <2>2 DEF Kinds
  <2>4. Row(k)'
    BY <1>0, <1>13, <2>1, <2>3 DEF ReleaseSpool, Row, Progress, Receipts, Dispatched, NoTerm, TermRow, TokenRow
  <2>5. Shipped'
    BY <1>0, <1>13, <2>3, ShippedStays DEF ReleaseSpool, NoTerm
  <2> QED
    BY <1>0, <1>13, <2>1, <2>3, <2>4, <2>5, OtherRows DEF ReleaseSpool
<1>14. CASE HandOff(k) \/ BuildScope(k) \/ HandlerDropped(k)
  <2>1. /\ owner' \in [Token -> OwnerState]
        /\ owner[k] \in Activated /\ owner'[k] \in Activated \cup {"lost"}
        /\ \A q \in Token \ {k} : owner'[q] = owner[q]
        /\ UNCHANGED <<token, marker, term, active, rel, ship, net, past, crashes, faults>>
    BY <1>0, <1>14 DEF HandOff, BuildScope, HandlerDropped, OwnerState
  <2>2. Row(k)'
    BY <1>0, <2>1 DEF Row, Progress, Receipts, Dispatched
  <2>3. Shipped'
    BY <1>0, <2>1, ShippedStays
  <2> QED
    BY <1>0, <2>1, <2>2, <2>3, OtherRows
<1> QED
  BY <1>2, <1>3, <1>4, <1>5, <1>6, <1>7, <1>8, <1>9, <1>10, <1>11, <1>12, <1>13, <1>14
  DEF OwnerStep, HandlerStep, ReleaseStep

(* A batch the Primary accepts gives every token in it the receipt of the  *)
(* terminal the Replica spooled, and changes no receipt.                   *)
LEMMA BatchReceipts ==
  ASSUME AdmInv, NEW m \in net, NEW a \in BOOLEAN, NEW rep \in BOOLEAN,
         BatchArrives(m, a, rep)
  PROVE  /\ m.b \in SUBSET Posted /\ m = Batch(m.b)
         /\ token' \in [Token -> TokenRow]
         /\ \A k \in Token :
              /\ token'[k].st = token[k].st /\ token'[k].confirmed = token[k].confirmed
              /\ \/ token'[k].receipt = token[k].receipt
                 \/ /\ token[k].receipt = "none" /\ term[k].kind # "none"
                    /\ token'[k].receipt = term[k].kind
         /\ (\A t \in m.b : Acceptable(t)) => \A t \in m.b : token'[t.k].receipt = t.kind
<1>0. /\ token \in [Token -> TokenRow] /\ term \in [Token -> TermRow] /\ net \subseteq Requests
      /\ \A k \in Token : Row(k)
  BY DEF AdmInv, Rows
<1>1. m.b \in SUBSET Posted /\ m = Batch(m.b)
  BY <1>0 DEF BatchArrives, Requests, Batch, Confirm
<1>2. \A t \in m.b : t.k \in Token /\ t.kind \in Kinds /\ WasSpooled(t)
  BY <1>1 DEF AdmInv, Shipped, Posted
<1>3. CASE ~(\A t \in m.b : Acceptable(t))
  <2>1. token' = [k \in Token |-> token[k]]
    BY <1>3 DEF BatchArrives
  <2>2. token' = token
    BY <1>0, <2>1
  <2> QED
    BY <1>0, <1>1, <1>3, <2>2
<1>4. CASE \A t \in m.b : Acceptable(t)
  <2>1. token' = [k \in Token |->
          IF \E t \in m.b : t.k = k
          THEN [token[k] EXCEPT !.receipt = (CHOOSE t \in m.b : t.k = k).kind]
          ELSE token[k]]
    BY <1>4 DEF BatchArrives
  <2>2. \A t \in m.b : \A u \in m.b : t.k = u.k => t.kind = u.kind
    BY <1>0, <1>2 DEF WasSpooled, Row, Progress, Receipts, Kinds, NoTerm
  <2>3. \A t \in m.b : \/ token[t.k].receipt = t.kind
                       \/ token[t.k].receipt = "none" /\ term[t.k].kind = t.kind
    BY <1>2, <1>4 DEF Acceptable, WasSpooled, Kinds
  <2>4. ASSUME NEW k \in Token
        PROVE  /\ token'[k] \in TokenRow
               /\ token'[k].st = token[k].st /\ token'[k].confirmed = token[k].confirmed
               /\ \/ token'[k].receipt = token[k].receipt
                  \/ /\ token[k].receipt = "none" /\ term[k].kind # "none"
                     /\ token'[k].receipt = term[k].kind
               /\ \A t \in m.b : t.k = k => token'[k].receipt = t.kind
    <3>1. CASE \E t \in m.b : t.k = k
      <4>1. PICK u \in m.b : u.k = k /\ u = CHOOSE t \in m.b : t.k = k
        BY <3>1
      <4>2. token'[k] = [token[k] EXCEPT !.receipt = u.kind]
        BY <2>1, <3>1, <4>1
      <4>3. u.kind \in Kinds
        BY <1>2
      <4>4. /\ token'[k] \in TokenRow /\ token'[k].receipt = u.kind
            /\ token'[k].st = token[k].st /\ token'[k].confirmed = token[k].confirmed
        BY <1>0, <4>2, <4>3 DEF TokenRow, Kinds
      <4> QED
        BY <2>2, <2>3, <4>1, <4>3, <4>4 DEF Kinds
    <3>2. CASE ~ \E t \in m.b : t.k = k
      BY <1>0, <2>1, <3>2
    <3> QED
      BY <3>1, <3>2
  <2>5. token' \in [Token -> TokenRow]
    BY <2>1, <2>4
  <2> QED
    BY <1>1, <1>2, <2>4, <2>5
<1> QED
  BY <1>3, <1>4

(* A batch that arrives at the Primary, applied or refused, first or       *)
(* repeated, keeps the invariant: what it holds was spooled, so it still   *)
(* meets a row that accepts it or already has its receipt.                 *)
LEMMA BatchStep ==
  ASSUME AdmInv, NEW m \in net, NEW a \in BOOLEAN, NEW rep \in BOOLEAN,
         BatchArrives(m, a, rep)
  PROVE  AdmInv'
<1>0. Rows /\ \A k \in Token : Row(k)
  BY DEF AdmInv
<1>1. UNCHANGED <<marker, term, owner, active, rel, past, crashes, faults>> /\ net' \subseteq net
  BY DEF BatchArrives
<1>2. \/ ship' = ship
      \/ ship' = IdleShip
      \/ /\ ship.batch = m.b /\ \A t \in m.b : Acceptable(t)
         /\ ship' = [ship EXCEPT !.st = "ack"]
  BY DEF BatchArrives
<1>3. ship' \in ShipRow /\ ship'.batch \subseteq ship.batch /\ ship'.todo \subseteq ship.todo
  BY <1>0, <1>2 DEF Rows, ShipRow, IdleShip
<1>4. Rows'
  BY <1>0, <1>1, <1>3, BatchReceipts DEF Rows
<1>5. \A k \in Token : Row(k)'
  <2> TAKE k \in Token
  <2>1. Progress(k)'
    BY <1>0, <1>1, BatchReceipts DEF Row, Progress
  <2>2. Receipts(k)'
    BY <1>0, <1>1, BatchReceipts DEF Rows, TokenRow, TermRow, Row, Receipts, NoTerm
  <2>3. Dispatched(k)'
    BY <1>0, <1>1, BatchReceipts DEF Row, Dispatched
  <2> QED
    BY <2>1, <2>2, <2>3 DEF Row
<1>6. Shipped'
  <2>1. \A t \in Posted : WasSpooled(t) => WasSpooled(t)'
    BY <1>1, BatchReceipts DEF WasSpooled, Posted, Kinds
  <2>2. ship.batch \subseteq Posted
    BY <1>0 DEF Rows, ShipRow
  <2>3. ship'.st = "ack" => \A t \in ship'.batch : token'[t.k].receipt = t.kind
    <3>1. CASE ship' = ship
      BY <2>2, <3>1, BatchReceipts DEF AdmInv, Shipped, Posted, Kinds
    <3>2. CASE ship' = IdleShip
      BY <3>2 DEF IdleShip
    <3>3. CASE ship.batch = m.b /\ (\A t \in m.b : Acceptable(t))
                 /\ ship' = [ship EXCEPT !.st = "ack"]
      BY <1>0, <3>3, BatchReceipts DEF Rows, ShipRow
    <3> QED
      BY <1>2, <3>1, <3>2, <3>3
  <2> QED
    BY <1>1, <1>3, <2>1, <2>2, <2>3 DEF AdmInv, Shipped
<1> QED
  BY <1>4, <1>5, <1>6 DEF AdmInv

(* Steps of the ship loop, and lost requests.                              *)
LEMMA ShipKeeps ==
  ASSUME AdmInv, ShipStep \/ \E m \in net : Lost(m)
  PROVE  AdmInv'
<1>0. Rows /\ \A k \in Token : Row(k)
  BY DEF AdmInv
<1>1. ASSUME UNCHANGED <<token, marker, term, owner, rel, past>>, Rows', Shipped'
      PROVE  AdmInv'
  BY <1>0, <1>1 DEF AdmInv, Row, Progress, Receipts, Dispatched
<1> USE DEF Rows
<1>2. ASSUME NEW m \in net, Lost(m) PROVE AdmInv'
  <2>1. Shipped'
    BY <1>0, <1>2, ShippedStays DEF Lost
  <2> QED
    BY <1>0, <1>1, <1>2, <2>1 DEF Lost
<1>3. CASE PublishLoad
  <2>1. /\ ship' \in ShipRow /\ ship'.batch = ship.batch /\ ship'.st = "publish"
        /\ \A k \in ship'.todo : marker[k].st = "release_pending"
    BY <1>0, <1>3 DEF PublishLoad, ShipRow
  <2>2. Shipped'
    BY <1>0, <1>3, <2>1 DEF PublishLoad, AdmInv, Shipped, WasSpooled
  <2> QED
    BY <1>0, <1>1, <1>3, <2>1, <2>2 DEF PublishLoad
<1>4. CASE Post
  <2>1. CASE Spooled = {}
    <3>1. ship' = IdleShip /\ net' = net
      BY <1>4, <2>1 DEF Post
    <3>2. ship' \in ShipRow
      BY <3>1 DEF IdleShip, ShipRow
    <3>3. Shipped'
      BY <1>0, <1>4, <3>1, <3>2, ShippedStays DEF Post, IdleShip
    <3> QED
      BY <1>0, <1>1, <1>4, <3>1, <3>2, <3>3 DEF Post
  <2>2. CASE Spooled # {}
    <3>1. ship' = [ship EXCEPT !.st = "wait", !.batch = Spooled] /\ net' = net \cup {Batch(Spooled)}
      BY <1>4, <2>2 DEF Post
    <3>2. Spooled \in SUBSET Posted /\ \A t \in Spooled : WasSpooled(t)
      BY DEF Spooled, WasSpooled
    <3>3. /\ ship' \in ShipRow /\ ship'.st = "wait" /\ ship'.batch = Spooled
          /\ ship'.todo = ship.todo
      BY <1>0, <3>1, <3>2 DEF ShipRow
    <3>4. net' \subseteq Requests
      BY <1>0, <3>1, <3>2 DEF Requests
    <3>5. \A b \in SUBSET Posted : Batch(b) \in net' => Batch(b) \in net \/ b = Spooled
      BY <3>1 DEF Batch
    <3>6. Shipped'
      BY <1>4, <3>2, <3>3, <3>5 DEF Post, AdmInv, Shipped, WasSpooled
    <3> QED
      BY <1>0, <1>1, <1>4, <3>3, <3>4, <3>6 DEF Post
  <2> QED
    BY <2>1, <2>2
<1>5. CASE ShipTimeout
  <2>1. ship' \in ShipRow
    BY <1>5 DEF ShipTimeout, IdleShip, ShipRow
  <2>2. Shipped'
    BY <1>0, <1>5, <2>1, ShippedStays DEF ShipTimeout, IdleShip
  <2> QED
    BY <1>0, <1>1, <1>5, <2>1, <2>2 DEF ShipTimeout
<1>6. ASSUME NEW k \in Token, PublishRelease(k) PROVE AdmInv'
  <2>1. /\ ship' \in ShipRow /\ ship'.batch \subseteq ship.batch
        /\ ship'.todo \subseteq ship.todo /\ ship'.st # "ack"
    BY <1>0, <1>6 DEF PublishRelease, ShipRow, IdleShip
  <2>2. marker[k].st = "release_pending"
    BY <1>6 DEF PublishRelease, AdmInv, Shipped
  <2>3. /\ term' \in [Token -> TermRow]
        /\ \A q \in Token \ {k} : term'[q] = term[q]
        /\ \/ term'[k] = term[k]
           \/ /\ term[k] = NoTerm /\ ~marker[k].acked
              /\ term'[k].kind = "release" /\ term'[k] # NoTerm
    BY <1>0, <1>6 DEF PublishRelease, SpoolTerminal, MaySpool, TermRow, NoTerm
  <2>4. Row(k)'
    BY <1>0, <1>6, <2>2, <2>3
    DEF PublishRelease, Row, Progress, Receipts, Dispatched, NoTerm, TermRow, TokenRow
  <2>5. Shipped'
    BY <1>0, <1>6, <2>1, <2>3, ShippedStays DEF PublishRelease, NoTerm
  <2> QED
    BY <1>0, <1>6, <2>1, <2>3, <2>4, <2>5, OtherRows DEF PublishRelease
<1>7. ASSUME NEW t \in ship.batch, AckTerminal(t) PROVE AdmInv'
  <2>0. t.k \in Token /\ t.kind \in Kinds /\ token[t.k].receipt = t.kind
    BY <1>0, <1>7 DEF ShipRow, Posted, AckTerminal, AdmInv, Shipped
  <2>1. /\ ship' \in ShipRow /\ ship'.batch \subseteq ship.batch
        /\ ship'.todo \subseteq ship.todo /\ ship.st = "ack"
    BY <1>0, <1>7 DEF AckTerminal, ShipRow, IdleShip
  <2>2. CASE term[t.k].kind = t.kind
    <3>1. /\ marker' \in [Token -> MarkerRow] /\ term' \in [Token -> TermRow]
          /\ marker'[t.k].st = marker[t.k].st /\ marker'[t.k].acked = TRUE
          /\ term'[t.k] = NoTerm
          /\ \A q \in Token \ {t.k} : marker'[q] = marker[q] /\ term'[q] = term[q]
      <4>1. /\ marker' = [marker EXCEPT ![t.k].acked = TRUE]
            /\ term' = [term EXCEPT ![t.k] = NoTerm]
        BY <1>7, <2>2 DEF AckTerminal
      <4>2. /\ marker' \in [Token -> MarkerRow]
            /\ marker'[t.k].st = marker[t.k].st /\ marker'[t.k].acked = TRUE
            /\ \A q \in Token \ {t.k} : marker'[q] = marker[q]
        BY <1>0, <2>0, <4>1 DEF MarkerRow
      <4> QED
        BY <1>0, <2>0, <4>1, <4>2 DEF TermRow, NoTerm
    <3>2. Row(t.k)'
      BY <1>0, <1>7, <2>0, <2>2, <3>1
      DEF AckTerminal, Row, Progress, Receipts, Dispatched, NoTerm, Kinds
    <3>3. \A u \in Posted : WasSpooled(u) => WasSpooled(u)'
      BY <1>7, <2>0, <2>2, <3>1 DEF AckTerminal, WasSpooled, Posted, Kinds
    <3>4. Shipped'
      BY <1>0, <1>7, <2>1, <3>1, <3>3 DEF AckTerminal, AdmInv, Shipped, ShipRow
    <3> QED
      BY <1>0, <1>7, <2>0, <2>1, <3>1, <3>2, <3>4, OtherRows DEF AckTerminal
  <2>3. CASE term[t.k].kind # t.kind
    <3>1. UNCHANGED <<marker, term>>
      BY <1>7, <2>3 DEF AckTerminal
    <3>2. Shipped'
      BY <1>0, <1>7, <2>1, <3>1, ShippedStays DEF AckTerminal
    <3> QED
      BY <1>0, <1>1, <1>7, <2>1, <3>1, <3>2 DEF AckTerminal
  <2> QED
    BY <2>2, <2>3
<1> QED
  BY <1>2, <1>3, <1>4, <1>5, <1>6, <1>7 DEF ShipStep

(* The Replica crashes and recovers its claims: a dispatched request is    *)
(* settled, any other released.                                            *)
LEMMA CrashStep ==
  ASSUME AdmInv, NEW half, Crash(half)
  PROVE  AdmInv'
<1>0. Rows /\ \A k \in Token : Row(k)
  BY DEF AdmInv
<1>1. \A t \in half : t \in ship.batch /\ ship.st = "ack" /\ term[t.k].kind = t.kind
  BY DEF Crash
<1>2. \A t \in half : t.k \in Token /\ t.kind \in Kinds /\ token[t.k].receipt = t.kind
  BY <1>0, <1>1 DEF Rows, ShipRow, Posted, AdmInv, Shipped
<1>3. ASSUME NEW k \in Token
      PROVE  /\ marker'[k] \in MarkerRow /\ marker'[k].st = marker[k].st
             /\ marker[k].acked => marker'[k].acked
             /\ \/ marker'[k].acked = marker[k].acked
                \/ term[k].kind # "none" /\ token[k].receipt = term[k].kind
  <2>1. CASE \E t \in half : t.k = k
    <3>1. marker'[k] = [marker[k] EXCEPT !.acked = TRUE]
      BY <2>1 DEF Crash
    <3>2. term[k].kind # "none" /\ token[k].receipt = term[k].kind
      BY <1>1, <1>2, <2>1 DEF Kinds
    <3>3. marker[k] \in MarkerRow
      BY <1>0 DEF Rows
    <3> QED
      BY <3>1, <3>2, <3>3 DEF MarkerRow
  <2>2. CASE ~ \E t \in half : t.k = k
    BY <1>0, <2>2 DEF Crash, Rows
  <2> QED
    BY <2>1, <2>2
<1>4. ASSUME NEW k \in Token
      PROVE  /\ term'[k] \in TermRow
             /\ \/ /\ term'[k] = term[k]
                   /\ term[k] # NoTerm \/ marker[k].acked \/ marker[k].st = "none"
                \/ /\ marker[k].st # "none" /\ ~marker[k].acked /\ term[k] = NoTerm
                   /\ term'[k].kind = IF marker[k].st = "routed" THEN "settlement" ELSE "release"
                   /\ term'[k] # NoTerm
  <2>1. term'[k] = StartupTerm(k)
    BY DEF Crash
  <2> QED
    BY <1>0, <2>1 DEF StartupTerm, MaySpool, Rows, TermRow, NoTerm
<1>5. /\ \A k \in Token : owner'[k] \in {"idle", "done"} /\ rel'[k] = "idle"
      /\ owner' \in [Token -> OwnerState] /\ rel' \in [Token -> RelState]
      /\ ship' = IdleShip /\ ship' \in ShipRow /\ active' = {} /\ crashes' \in 0..MaxCrash
      /\ UNCHANGED <<token, net, past, faults>>
  BY <1>0, AdmissionConstants DEF Crash, Rows, OwnerState, RelState, IdleShip, ShipRow
<1>6. Rows'
  <2>1. marker' \in [Token -> MarkerRow]
    BY <1>3 DEF Crash
  <2>2. term' \in [Token -> TermRow]
    BY <1>4 DEF Crash
  <2> QED
    BY <1>0, <1>5, <2>1, <2>2 DEF Rows
<1>7. ASSUME NEW k \in Token PROVE Row(k)'
  <2>1. Progress(k)'
    BY <1>0, <1>3, <1>4, <1>5 DEF Row, Progress, Activated, NoTerm
  <2>2. Receipts(k)'
    <3>1. Receipts(k) /\ Progress(k)
      BY <1>0 DEF Row
    <3>2. token[k] \in TokenRow /\ marker[k] \in MarkerRow /\ term[k] \in TermRow
      BY <1>0 DEF Rows
    <3>3. CASE term'[k] = term[k]
      BY <1>3, <1>4, <1>5, <3>1, <3>2, <3>3
      DEF Receipts, Progress, Activated, NoTerm, MarkerRow, TermRow, TokenRow
    <3>4. CASE term'[k] # term[k]
      BY <1>3, <1>4, <1>5, <3>1, <3>2, <3>4
      DEF Receipts, Progress, Activated, NoTerm, MarkerRow, TermRow, TokenRow
    <3> QED
      BY <3>3, <3>4
  <2>3. Dispatched(k)'
    BY <1>0, <1>3, <1>4, <1>5 DEF Row, Dispatched
  <2> QED
    BY <2>1, <2>2, <2>3 DEF Row
<1>8. Shipped'
  <2>1. \A k \in Token : term[k].kind # "none" => term'[k].kind = term[k].kind
    BY <1>4 DEF NoTerm
  <2> QED
    BY <1>3, <1>5, <2>1, ShippedStays DEF IdleShip
<1> QED
  BY <1>6, <1>7, <1>8 DEF AdmInv

(* Every step keeps the invariant.                                         *)
LEMMA AdmStep == AdmInv /\ [AdmNext]_admVars => AdmInv'
<1> SUFFICES ASSUME AdmInv, [AdmNext]_admVars PROVE AdmInv'
  OBVIOUS
<1>1. CASE UNCHANGED admVars
  BY <1>1 DEF admVars, AdmInv, Rows, Row, Progress, Receipts, Dispatched, Shipped, WasSpooled
<1>2. CASE AdmNext
  BY <1>2, PrimaryStep, RequestStep, BatchStep, ShipKeeps, CrashStep DEF AdmNext
<1> QED
  BY <1>1, <1>2

(* Rows, files and tasks keep their types; a terminal belongs to a claim   *)
(* and a claim to an issued token.                                         *)
THEOREM AdmissionTypes == AdmSpec => []AdmTypeOK
<1>1. AdmInv => AdmTypeOK
  BY DEF AdmInv, Rows, Row, Progress, AdmTypeOK, TokenRow, MarkerRow, TermRow, OwnerState,
         RelState, ShipRow, Requests, Kinds
<1> QED
  BY <1>1, AdmInitInv, AdmStep, PTL DEF AdmSpec

(* The quota of a dispatched request is held until its terminal is         *)
(* spooled, whatever the reaper does (recover_unconfirmed_tx).             *)
THEOREM QuotaHeld == AdmSpec => []DispatchedKeepsQuota
<1>1. AdmInv => DispatchedKeepsQuota
  BY DEF AdmInv, Rows, TokenRow, Row, Progress, Receipts, DispatchedKeepsQuota
<1> QED
  BY <1>1, AdmInitInv, AdmStep, PTL DEF AdmSpec

(* The Primary refuses no terminal of a claim on disk, so none blocks the  *)
(* batches that carry it (apply_terminal_tx).                              *)
THEOREM NoPoisonedTerminal == AdmSpec => []SpooledIsAcceptable
<1>1. AdmInv => SpooledIsAcceptable
  BY DEF AdmInv, Rows, TokenRow, TermRow, Row, Progress, Receipts, SpooledIsAcceptable, Acceptable
<1> QED
  BY <1>1, AdmInitInv, AdmStep, PTL DEF AdmSpec

(* No claim is acknowledged before its receipt is stored                   *)
(* (acknowledge_terminal after apply_metering_batch_tx).                   *)
THEOREM NoEarlyAck == AdmSpec => []AckedIsReceived
<1>1. AdmInv => AckedIsReceived
  BY DEF AdmInv, Row, Receipts, AckedIsReceived
<1> QED
  BY <1>1, AdmInitInv, AdmStep, PTL DEF AdmSpec

(* A dispatched request is released only when its handler gave it up.      *)
THEOREM CrashForgivesNothing == AdmSpec => []SentIsNotForgiven
<1>1. AdmInv => SentIsNotForgiven
  BY DEF AdmInv, Row, Dispatched, SentIsNotForgiven
<1> QED
  BY <1>1, AdmInitInv, AdmStep, PTL DEF AdmSpec

(* A receipt never changes, whatever arrives late, twice or out of order.  *)
THEOREM ReceiptsAreFinal == AdmSpec => ReceiptIsFinal
<1> DEFINE Final == \A k \in Token :
                      token[k].receipt # "none" => token'[k].receipt = token[k].receipt
<1>1. AdmInv /\ AdmNext => Final
  <2> SUFFICES ASSUME AdmInv, AdmNext PROVE Final
    OBVIOUS
  <2>0. token \in [Token -> TokenRow]
    BY DEF AdmInv, Rows
  <2>1. ASSUME NEW k \in Token, NEW a \in BOOLEAN, Issue(k, a) PROVE Final
    BY <2>0, <2>1 DEF Issue, TokenRow
  <2>2. ASSUME NEW k \in Token, Expire(k) PROVE Final
    BY <2>0, <2>2 DEF Expire, TokenRow
  <2>3. ASSUME NEW k \in Token, Reap(k) PROVE Final
    BY <2>0, <2>3 DEF Reap, Reapable, TokenRow
  <2>4. ASSUME NEW k \in Token, NEW onTime \in BOOLEAN, NEW a \in BOOLEAN,
               NEW rep \in BOOLEAN, ConfirmArrives(k, onTime, a, rep)
        PROVE  Final
    BY <2>0, <2>4 DEF ConfirmArrives, TokenRow
  <2>5. ASSUME NEW m \in net, NEW a \in BOOLEAN, NEW rep \in BOOLEAN, BatchArrives(m, a, rep)
        PROVE  Final
    BY <2>5, BatchReceipts
  <2>6. ASSUME NEW k \in Token,
               \/ OwnerStep(k) \/ ClaimWriteFails(k) \/ HandlerStep(k)
               \/ ReleaseStep(k) \/ ReleaseCancelled(k)
        PROVE  token' = token
    BY <2>6 DEF OwnerStep, Claim, ConfirmTimeout, MarkConfirmed, HandOff, AbortMark, AbortSpool,
                ClaimWriteFails, HandlerStep, BuildScope, HandlerDropped, MarkRouted, SettleRequest, StartRelease, ReleaseStep,
                ReleaseMark, ReleaseSpool, ReleaseCancelled
  <2>7. ASSUME ShipStep \/ (\E m \in net : Lost(m)) \/ \E half : Crash(half)
        PROVE  token' = token
    BY <2>7 DEF ShipStep, PublishLoad, Post, ShipTimeout, PublishRelease, AckTerminal, Lost, Crash
  <2> QED
    BY <2>1, <2>2, <2>3, <2>4, <2>5, <2>6, <2>7 DEF AdmNext
<1>2. AdmInv /\ [AdmNext]_admVars => [Final]_admVars
  BY <1>1
<1> QED
  BY <1>2, AdmInitInv, AdmStep, PTL DEF AdmSpec, ReceiptIsFinal
=============================================================================
