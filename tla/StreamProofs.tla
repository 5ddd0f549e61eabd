---------------------------- MODULE StreamProofs ----------------------------
(***************************************************************************)
(* The translation of a streamed answer: whatever the upstream sends, the  *)
(* client reads a well-formed Messages stream.                             *)
(***************************************************************************)
EXTENDS StreamTranslation, SequenceTheorems, FiniteSetTheorems, TLAPS

(* A sequence, of whatever values.                                         *)
IsSeq(s) == s \in Seq({s[k] : k \in DOMAIN s})

LEMMA SeqDomain ==
  ASSUME NEW s, IsSeq(s)
  PROVE  Len(s) \in Nat /\ DOMAIN s = 1 .. Len(s)
BY DEF IsSeq

LEMMA SeqMade ==
  ASSUME NEW s, NEW n \in Nat, DOMAIN s = 1 .. n, s = [k \in DOMAIN s |-> s[k]]
  PROVE  IsSeq(s) /\ Len(s) = n
<1> DEFINE V == {s[k] : k \in DOMAIN s}
<1>1. s \in [1 .. n -> V]
  OBVIOUS
<1>2. s \in Seq(V)
  BY <1>1, SeqDef
<1>3. DOMAIN s = 1 .. Len(s) /\ Len(s) \in Nat
  BY <1>2
<1>4. Len(s) = n
  BY <1>3
<1> QED
  BY <1>2, <1>4 DEF IsSeq

LEMMA SeqUpdated ==
  ASSUME NEW s, IsSeq(s), NEW b, NEW x
  PROVE  IsSeq([s EXCEPT ![b] = x]) /\ Len([s EXCEPT ![b] = x]) = Len(s)
<1>1. Len(s) \in Nat /\ DOMAIN s = 1 .. Len(s)
  BY SeqDomain
<1>2. PICK t : t = [s EXCEPT ![b] = x]
  OBVIOUS
<1>3. DOMAIN t = 1 .. Len(s) /\ t = [k \in DOMAIN t |-> t[k]]
  BY <1>1, <1>2
<1> QED
  BY ONLY <1>1, <1>2, <1>3, SeqMade

LEMMA SeqSame == ASSUME NEW s, IsSeq(s), NEW b PROVE s = [s EXCEPT ![b] = s[b]]
<1>1. PICK V : V = {s[k] : k \in DOMAIN s}
  OBVIOUS
<1>2. s \in [1 .. Len(s) -> V]
  BY <1>1, LenProperties DEF IsSeq
<1> QED
  BY <1>2

LEMMA SeqAppended ==
  ASSUME NEW s, IsSeq(s), NEW x
  PROVE  IsSeq(Append(s, x)) /\ Len(Append(s, x)) = Len(s) + 1
<1> DEFINE V == {s[k] : k \in DOMAIN s} \union {x}
<1>1. s \in Seq(V) /\ x \in V
  BY DEF IsSeq
<1>2. Append(s, x) \in Seq(V) /\ Len(Append(s, x)) = Len(s) + 1
  BY <1>1
<1>3. PICK t : t = Append(s, x)
  OBVIOUS
<1>4. Len(t) \in Nat /\ DOMAIN t = 1 .. Len(t) /\ t = [k \in DOMAIN t |-> t[k]]
  <2>1. t \in Seq(V)
    BY <1>2, <1>3
  <2>2. Len(t) \in Nat /\ t \in [1 .. Len(t) -> V]
    BY ONLY <2>1, LenProperties
  <2> HIDE DEF V
  <2> QED
    BY ONLY <2>2
<1> QED
  BY <1>2, <1>3, <1>4, SeqMade

-----------------------------------------------------------------------------
(* A client that has read n blocks, of which `at' is open.                 *)
ClientAt(c, st, at, n) ==
  /\ DOMAIN c = {"st", "open", "blocks"}
  /\ c.st = st /\ c.open = at
  /\ IsSeq(c.blocks) /\ Len(c.blocks) = n

LEMMA ClientStarts ==
  ASSUME NEW c, ClientAt(c, "new", 0, 0)
  PROVE  ClientAt(OnMessageStart(c), "body", 0, 0)
BY DEF ClientAt, OnMessageStart

LEMMA ClientOpens ==
  ASSUME NEW n \in Nat, NEW c, ClientAt(c, "body", 0, n), NEW kind, NEW data
  PROVE  ClientAt(OnBlockStart(c, n + 1, kind, data), "body", n + 1, n + 1)
<1> DEFINE x == [kind |-> kind, text |-> <<>>, sig |-> data]
<1>1. IsSeq(Append(c.blocks, x)) /\ Len(Append(c.blocks, x)) = n + 1
  BY SeqAppended DEF ClientAt
<1>2. OnBlockStart(c, n + 1, kind, data)
        = [c EXCEPT !.open = n + 1, !.blocks = Append(c.blocks, x)]
  BY DEF ClientAt, OnBlockStart
<1> HIDE DEF x
<1> QED
  BY <1>1, <1>2 DEF ClientAt

LEMMA ClientReads ==
  ASSUME NEW n, NEW b, NEW c, ClientAt(c, "body", b, n), NEW field, NEW frags
  PROVE  ClientAt(OnBlockDelta(c, b, field, frags), "body", b, n)
<1>1. PICK x : OnBlockDelta(c, b, field, frags) = [c EXCEPT !.blocks = [c.blocks EXCEPT ![b] = x]]
  BY DEF ClientAt, OnBlockDelta
<1>2. IsSeq([c.blocks EXCEPT ![b] = x]) /\ Len([c.blocks EXCEPT ![b] = x]) = n
  BY SeqUpdated DEF ClientAt
<1> QED
  BY <1>1, <1>2 DEF ClientAt

LEMMA ClientCloses ==
  ASSUME NEW n, NEW b, NEW c, ClientAt(c, "body", b, n)
  PROVE  ClientAt(OnBlockStop(c, b), "body", 0, n)
BY DEF ClientAt, OnBlockStop

-----------------------------------------------------------------------------
EncFields == {"sent", "wanted", "live", "pending", "next", "blocks", "open", "absorbed",
              "surfaces", "over", "direct", "client"}

IsEnc(e) == DOMAIN e = EncFields /\ e = [k \in DOMAIN e |-> e[k]]

SetClient(e, c) == [e EXCEPT !.client = c]

LEMMA ClientKept == ASSUME NEW e, IsEnc(e) PROVE SetClient(e, e.client) = e
BY DEF IsEnc, EncFields, SetClient

LEMMA ClientSet ==
  ASSUME NEW e, IsEnc(e), NEW c
  PROVE  /\ IsEnc(SetClient(e, c)) /\ SetClient(e, c).client = c
         /\ \A k \in EncFields \ {"client"} : SetClient(e, c)[k] = e[k]
         /\ \A d : SetClient(SetClient(e, c), d) = SetClient(e, d)
<1>1. IsEnc(SetClient(e, c)) /\ SetClient(e, c).client = c
  BY DEF IsEnc, EncFields, SetClient
<1>2. \A k \in EncFields \ {"client"} : SetClient(e, c)[k] = e[k]
  BY DEF IsEnc, EncFields, SetClient
<1>3. \A d : SetClient(SetClient(e, c), d) = SetClient(e, d)
  BY DEF IsEnc, EncFields, SetClient
<1> QED
  BY <1>1, <1>2, <1>3

LEMMA SendReads ==
  ASSUME NEW n, NEW b, NEW e, IsEnc(e), ClientAt(e.client, "body", b, n), NEW field, NEW frags
  PROVE  \E c : SendDelta(e, b, field, frags) = SetClient(e, c) /\ ClientAt(c, "body", b, n)
<1>1. CASE frags = <<>>
  BY <1>1, ClientKept DEF SendDelta
<1>2. CASE frags # <<>>
  BY <1>2, ClientReads DEF SendDelta, SetClient
<1> QED
  BY <1>1, <1>2

(* The deltas of an open block leave the encoder alone.                    *)
LEMMA DeltaReads ==
  ASSUME NEW n, NEW b, NEW e, IsEnc(e), ClientAt(e.client, "body", b, n), NEW p, NEW d
  PROVE  \E c : LiveDelta(e, b, p, d) = SetClient(e, c) /\ ClientAt(c, "body", b, n)
<1>1. CASE p.kind = "redacted"
  BY <1>1, ClientKept DEF LiveDelta
<1>2. CASE p.kind # "redacted"
  <2>1. PICK shown : LiveDelta(e, b, p, d) = SendDelta(SendDelta(e, b, "text", shown), b, "sig", d.sig)
    BY <1>2 DEF LiveDelta
  <2>2. PICK c : SendDelta(e, b, "text", shown) = SetClient(e, c) /\ ClientAt(c, "body", b, n)
    BY SendReads
  <2>3. PICK r : r = SetClient(e, c)
    OBVIOUS
  <2>4. IsEnc(r) /\ ClientAt(r.client, "body", b, n)
    BY <2>2, <2>3, ClientSet
  <2>5. PICK z : SendDelta(r, b, "sig", d.sig) = SetClient(r, z) /\ ClientAt(z, "body", b, n)
    BY ONLY <2>4, SendReads
  <2> QED
    BY <2>1, <2>2, <2>3, <2>5, ClientSet
<1> QED
  BY <1>1, <1>2

LEMMA SuffixReads ==
  ASSUME NEW n, NEW b, NEW e, IsEnc(e), ClientAt(e.client, "body", b, n), NEW p, NEW m
  PROVE  \E c : TerminalSuffix(e, b, p, m) = SetClient(e, c) /\ ClientAt(c, "body", b, n)
<1>1. TerminalSuffix(e, b, p, m) = e \/ \E d : TerminalSuffix(e, b, p, m) = LiveDelta(e, b, p, d)
  BY DEF TerminalSuffix
<1>2. CASE TerminalSuffix(e, b, p, m) = e
  BY <1>2, ClientKept
<1>3. ASSUME NEW d, TerminalSuffix(e, b, p, m) = LiveDelta(e, b, p, d)
      PROVE  \E c : LiveDelta(e, b, p, d) = SetClient(e, c) /\ ClientAt(c, "body", b, n)
  BY DeltaReads
<1> QED
  BY <1>1, <1>2, <1>3

(* A whole block leaves the client between two blocks.                     *)
LEMMA BlockReads ==
  ASSUME NEW e, IsEnc(e), e.blocks \in Nat, ClientAt(e.client, "body", 0, e.blocks), NEW p
  PROVE  \E c : /\ EmitBlock(e, p) = [SetClient(e, c) EXCEPT !.blocks = e.blocks + 1]
                /\ ClientAt(c, "body", 0, e.blocks + 1)
<1> DEFINE b == e.blocks + 1
           o == OnBlockStart(e.client, b, p.kind, StartPayload(p))
<1>1. PICK s : s = [e EXCEPT !.blocks = b, !.client = o]
  OBVIOUS
<1>2. ClientAt(o, "body", b, b)
  BY ClientOpens
<1> HIDE DEF o
<1>3. IsEnc(s) /\ s.client = o
  BY <1>1 DEF IsEnc, EncFields
<1>4. PICK c : LiveDelta(s, b, p, PlainDelta(p.text, p.sig)) = SetClient(s, c) /\ ClientAt(c, "body", b, b)
  BY <1>2, <1>3, DeltaReads
<1>5. EmitBlock(e, p) = [SetClient(s, c) EXCEPT !.client = OnBlockStop(@, b)]
  BY <1>1, <1>4 DEF EmitBlock, o
<1>6. EmitBlock(e, p) = SetClient(s, OnBlockStop(c, b))
  <2>1. EmitBlock(e, p) = SetClient(SetClient(s, c), OnBlockStop(SetClient(s, c).client, b))
    BY <1>5 DEF SetClient
  <2> QED
    BY <1>3, <2>1, ClientSet
<1>7. SetClient(s, OnBlockStop(c, b)) = [SetClient(e, OnBlockStop(c, b)) EXCEPT !.blocks = b]
  <2>1. PICK z : z = OnBlockStop(c, b)
    OBVIOUS
  <2>2. [[e EXCEPT !.blocks = b, !.client = o] EXCEPT !.client = z]
          = [[e EXCEPT !.client = z] EXCEPT !.blocks = b]
    BY DEF IsEnc, EncFields
  <2> QED
    BY <1>1, <2>1, <2>2 DEF SetClient
<1>8. ClientAt(OnBlockStop(c, b), "body", 0, b)
  BY <1>4, ClientCloses
<1> QED
  BY <1>6, <1>7, <1>8

-----------------------------------------------------------------------------
(* The block the client has open while `open' is set.                      *)
OpenBlock(e) == IF e.open = 0 THEN 0 ELSE e.live[e.open].block

(* The encoder while it reads the events of m nodes: the open node is the  *)
(* one whose turn it is, it is the only one that has a block, and its      *)
(* block is the one the client has open.                                   *)
Counters(e) == e.next \in Nat /\ e.open \in Nat /\ e.blocks \in Nat

Places(e, m) ==
  /\ DOMAIN e.live \subseteq 1 .. m /\ DOMAIN e.pending \subseteq 1 .. m
  /\ e.absorbed \subseteq 1 .. m
  /\ DOMAIN e.live \intersect DOMAIN e.pending = {}
  /\ DOMAIN e.live \intersect e.absorbed = {}

LiveBlocks(e) ==
  /\ \A i \in DOMAIN e.live : /\ DOMAIN e.live[i] = {"payload", "block"}
                              /\ e.live[i].block # 0 => i = e.open
  /\ e.open # 0 => e.open = e.next /\ e.open \in DOMAIN e.live /\ e.live[e.open].block # 0

InStep(e) ==
  /\ ClientAt(e.client, IF e.sent THEN "body" ELSE "new", OpenBlock(e), e.blocks)
  /\ ~e.sent => e.blocks = 0 /\ DOMAIN e.live = {} /\ DOMAIN e.pending = {}

EncInv(e, m) == IsEnc(e) /\ e.sent \in BOOLEAN /\ Counters(e) /\ Places(e, m) /\ LiveBlocks(e) /\ InStep(e)

(* Between two blocks.                                                     *)
Idle(e) == e.sent = TRUE /\ e.blocks \in Nat /\ ClientAt(e.client, "body", 0, e.blocks)

LEMMA StartsNext ==
  ASSUME NEW m \in Nat, NEW e, EncInv(e, m)
  PROVE  EncInv(TryStartNextLiveBlock(e), m) /\ TryStartNextLiveBlock(e).sent = e.sent
<1>1. CASE e.open # 0 \/ e.next \notin DOMAIN e.live
  BY <1>1 DEF TryStartNextLiveBlock
<1>2. CASE e.open = 0 /\ e.next \in DOMAIN e.live
  <2>1. PICK i, b : i = e.next /\ b = e.blocks + 1
    OBVIOUS
  <2>2. PICK L : L = [e.live EXCEPT ![i] = [e.live[i] EXCEPT !.block = b]]
    OBVIOUS
  <2>3. PICK o : o = OnBlockStart(e.client, b, e.live[i].payload.kind, StartPayload(e.live[i].payload))
    OBVIOUS
  <2>4. e.live[i].block = 0 /\ DOMAIN e.live[i] = {"payload", "block"} /\ i # 0 /\ i \in Nat
    BY <1>2, <2>1 DEF EncInv, LiveBlocks, Counters, Places
  <2>5. IsEnc(e) /\ e.sent = TRUE /\ e.blocks \in Nat /\ b # 0 /\ b \in Nat
    BY <1>2, <2>1 DEF EncInv, InStep, Counters
  <2>6. ClientAt(o, "body", b, b)
    <3>1. ClientAt(e.client, "body", 0, e.blocks)
      BY <1>2, <2>5 DEF EncInv, InStep, OpenBlock
    <3> QED
      BY <2>1, <2>3, <2>5, <3>1, ClientOpens
  <2>7. /\ DOMAIN L = DOMAIN e.live /\ L[i].block = b /\ DOMAIN L[i] = {"payload", "block"}
        /\ \A j \in DOMAIN e.live : j # i => L[j] = e.live[j]
    BY <1>2, <2>1, <2>2, <2>4
  <2>8. PICK u : u = e.surfaces \union {Surface(e.live[i].payload.kind)}
    OBVIOUS
  <2>9. PICK v : v = [e EXCEPT !.blocks = b, !.live = L, !.client = o]
    OBVIOUS
  <2>10. LiveBlockStart(e, i) = v
    BY <2>1, <2>2, <2>3, <2>4, <2>9 DEF LiveBlockStart
  <2>11. /\ IsEnc(v) /\ v.client = o /\ v.sent = TRUE /\ v.next = i /\ v.blocks = b /\ v.live = L
         /\ v.pending = e.pending /\ v.absorbed = e.absorbed /\ v.surfaces = e.surfaces
    BY <2>1, <2>5, <2>9 DEF IsEnc, EncFields
  <2>12. PICK s : s = [v EXCEPT !.surfaces = u, !.open = i]
    OBVIOUS
  <2>13. TryStartNextLiveBlock(e) = AccumulatedDeltas(s, i)
    BY <1>2, <2>1, <2>8, <2>10, <2>11, <2>12 DEF TryStartNextLiveBlock
  <2>14. /\ IsEnc(s) /\ s.client = o /\ s.sent = TRUE /\ s.open = i /\ s.next = i /\ s.blocks = b
         /\ s.live = L /\ s.pending = e.pending /\ s.absorbed = e.absorbed
    BY <2>11, <2>12 DEF IsEnc, EncFields
  <2>15. PICK c : AccumulatedDeltas(s, i) = SetClient(s, c) /\ ClientAt(c, "body", b, b)
    <3>1. PICK p, d : AccumulatedDeltas(s, i) = LiveDelta(s, b, p, d)
      BY <2>7, <2>14 DEF AccumulatedDeltas
    <3>2. IsEnc(s) /\ ClientAt(s.client, "body", b, b)
      BY <2>6, <2>14
    <3>3. \E c : LiveDelta(s, b, p, d) = SetClient(s, c) /\ ClientAt(c, "body", b, b)
      BY ONLY <3>2, DeltaReads
    <3> QED
      BY <3>1, <3>3
  <2>16. PICK r : r = SetClient(s, c)
    OBVIOUS
  <2>17. /\ IsEnc(r) /\ r.client = c /\ r.sent = TRUE /\ r.open = i /\ r.next = i /\ r.blocks = b
         /\ r.live = L /\ r.pending = e.pending /\ r.absorbed = e.absorbed
    BY <2>14, <2>16, ClientSet DEF EncFields
  <2>18. Counters(r)
    BY <2>4, <2>5, <2>17 DEF Counters
  <2>19. Places(r, m)
    BY <2>7, <2>17 DEF Places, EncInv
  <2>20. LiveBlocks(r)
    <3>1. \A j \in DOMAIN e.live : DOMAIN e.live[j] = {"payload", "block"} /\ e.live[j].block = 0
      BY <1>2, <2>4 DEF EncInv, LiveBlocks, Places
    <3>2. ASSUME NEW j \in DOMAIN L
          PROVE  DOMAIN L[j] = {"payload", "block"} /\ (L[j].block # 0 => j = i)
      <4>1. CASE j = i
        BY <2>7, <4>1
      <4>2. CASE j # i
        BY <2>7, <3>1, <4>2
      <4> QED
        BY <4>1, <4>2
    <3>3. i \in DOMAIN L /\ L[i].block # 0
      BY <1>2, <2>1, <2>5, <2>7
    <3> QED
      BY ONLY <2>17, <3>2, <3>3 DEF LiveBlocks
  <2>21. InStep(r)
    BY <2>4, <2>7, <2>15, <2>17 DEF InStep, OpenBlock
  <2> QED
    BY <2>5, <2>13, <2>15, <2>16, <2>17, <2>18, <2>19, <2>20, <2>21 DEF EncInv
<1> QED
  BY <1>1, <1>2

-----------------------------------------------------------------------------
(* Buffered blocks are written one after the other: p is the encoder       *)
(* before the loop.                                                        *)
EmitStep(p, a, i) == EmitPending(a, i)

EmitGood(p, T, a) ==
  /\ IsEnc(a) /\ Idle(a) /\ a.next \in Nat
  /\ a.live = p.live /\ a.open = p.open /\ a.absorbed = p.absorbed
  /\ DOMAIN a.pending = DOMAIN p.pending \ T

Emit == INSTANCE FoldTheorems WITH Op <- EmitStep, Good <- EmitGood

LEMMA EmitLoop ==
  ASSUME NEW e, NEW S
  PROVE  FoldAscending(EmitPending, e, S) = Emit!Loop(e, e, S)
BY DEF FoldAscending, Emit!Loop, MapThenFoldSet, Emit!MapThenFoldSet, Max, Emit!Max, EmitStep

LEMMA EmitKeeps ==
  ASSUME NEW p, NEW T, NEW a, EmitGood(p, T, a), NEW i \in Nat
  PROVE  EmitGood(p, T \union {i}, EmitPending(a, i))
<1>1. IsEnc(a) /\ a.blocks \in Nat /\ ClientAt(a.client, "body", 0, a.blocks) /\ a.sent = TRUE
  BY DEF EmitGood, Idle
<1>2. PICK c : /\ EmitBlock(a, a.pending[i]) = [SetClient(a, c) EXCEPT !.blocks = a.blocks + 1]
               /\ ClientAt(c, "body", 0, a.blocks + 1)
  BY <1>1, BlockReads
<1>3. PICK v : v = [SetClient(a, c) EXCEPT !.blocks = a.blocks + 1]
  OBVIOUS
<1>4. /\ IsEnc(v) /\ v.client = c /\ v.sent = TRUE /\ v.blocks = a.blocks + 1 /\ v.live = a.live
      /\ v.pending = a.pending /\ v.absorbed = a.absorbed /\ v.open = a.open
  BY <1>1, <1>3 DEF IsEnc, EncFields, SetClient
<1>5. PICK u, w : u = Without(a.pending, i) /\ w = v.surfaces \union {Surface(a.pending[i].kind)}
  OBVIOUS
<1>6. PICK r : r = [v EXCEPT !.pending = u, !.next = i + 1, !.surfaces = w]
  OBVIOUS
<1>7. EmitPending(a, i) = r
  BY <1>2, <1>3, <1>4, <1>5, <1>6 DEF EmitPending
<1>8. /\ IsEnc(r) /\ r.client = c /\ r.sent = TRUE /\ r.blocks = a.blocks + 1 /\ r.live = a.live
      /\ r.pending = u /\ r.absorbed = a.absorbed /\ r.open = a.open /\ r.next = i + 1
  BY <1>4, <1>6 DEF IsEnc, EncFields
<1>9. DOMAIN u = DOMAIN a.pending \ {i}
  BY <1>5 DEF Without, Restrict
<1>10. Idle(r) /\ r.next \in Nat
  BY <1>1, <1>2, <1>8 DEF Idle
<1> QED
  BY <1>7, <1>8, <1>9, <1>10 DEF EmitGood

LEMMA EmitAll ==
  ASSUME NEW m \in Nat, NEW S, S \subseteq 0 .. m, NEW e, IsEnc(e), Idle(e), e.next \in Nat
  PROVE  EmitGood(e, S, FoldAscending(EmitPending, e, S))
<1>1. EmitGood(e, {}, e)
  BY DEF EmitGood
<1>2. \A T \in SUBSET S : \A x \in S \ T : \A a :
        EmitGood(e, T, a) /\ (\A y \in T : y < x) => EmitGood(e, T \union {x}, EmitStep(e, a, x))
  BY EmitKeeps DEF EmitStep
<1>3. EmitGood(e, S, Emit!Loop(e, e, S))
  BY <1>1, <1>2, Emit!LoopInvariant
<1> QED
  BY <1>3, EmitLoop

LEMMA EmitNone ==
  ASSUME NEW e
  PROVE  FoldAscending(EmitPending, e, {}) = e
<1>1. Emit!Loop(e, e, 1 .. 0) = e
  BY Emit!LoopTo
<1>2. 1 .. 0 = {}
  OBVIOUS
<1> QED
  BY <1>1, <1>2, EmitLoop

(* Blocks that are due are written while no node is open.                  *)
LEMMA FlushKeeps ==
  ASSUME NEW m \in Nat, NEW e, EncInv(e, m)
  PROVE  EncInv(FlushReady(e), m) /\ FlushReady(e).sent = e.sent
<1>1. PICK S : S = {i \in DOMAIN e.pending : e.next <= i /\ e.next .. i \subseteq DOMAIN e.pending}
  OBVIOUS
<1>2. FlushReady(e) = FoldAscending(EmitPending, e, S)
  BY <1>1 DEF FlushReady
<1>3. S \subseteq DOMAIN e.pending /\ S \subseteq 0 .. m
  BY <1>1 DEF EncInv, Places
<1>4. CASE S = {}
  BY <1>2, <1>4, EmitNone
<1>5. CASE S # {}
  <2>1. PICK i \in S : TRUE
    BY <1>5
  <2>2. e.next \in DOMAIN e.pending
    <3>1. e.next \in Nat /\ i \in Nat /\ e.next <= i /\ e.next .. i \subseteq DOMAIN e.pending
      BY <1>1, <1>3, <2>1 DEF EncInv, Counters
    <3> QED
      BY <3>1
  <2>3. e.open = 0
    BY <2>2 DEF EncInv, LiveBlocks, Places
  <2>4. e.sent = TRUE
    BY <2>2 DEF EncInv, InStep
  <2>5. IsEnc(e) /\ Idle(e) /\ e.next \in Nat
    BY <2>3, <2>4 DEF EncInv, InStep, OpenBlock, Idle, Counters
  <2>6. PICK r : r = FoldAscending(EmitPending, e, S)
    OBVIOUS
  <2>7. EmitGood(e, S, r)
    BY <1>3, <2>5, <2>6, EmitAll
  <2>8. Counters(r) /\ r.sent = TRUE /\ IsEnc(r)
    BY <2>3, <2>7 DEF EmitGood, Idle, Counters
  <2>9. Places(r, m)
    BY <2>7 DEF EmitGood, EncInv, Places
  <2>10. LiveBlocks(r)
    BY <2>3, <2>7 DEF EmitGood, EncInv, LiveBlocks
  <2>11. InStep(r)
    BY <2>3, <2>7, <2>8 DEF EmitGood, Idle, InStep, OpenBlock
  <2> QED
    BY <1>2, <2>4, <2>6, <2>8, <2>9, <2>10, <2>11 DEF EncInv
<1> QED
  BY <1>4, <1>5

-----------------------------------------------------------------------------
(* The handlers of the events of a node.                                   *)
LEMMA StartMessage ==
  ASSUME NEW m \in Nat, NEW e, EncInv(e, m)
  PROVE  /\ EncInv(EnsureMessageStart(e), m) /\ EnsureMessageStart(e).sent = TRUE
         /\ \A k \in EncFields \ {"sent", "client"} : EnsureMessageStart(e)[k] = e[k]
<1>1. CASE e.sent
  BY <1>1 DEF EnsureMessageStart, EncInv
<1>2. CASE ~e.sent
  <2>1. PICK c : c = OnMessageStart(e.client)
    OBVIOUS
  <2>2. e.open = 0 /\ e.blocks = 0 /\ IsEnc(e)
    BY <1>2 DEF EncInv, InStep, LiveBlocks
  <2>3. ClientAt(c, "body", 0, 0)
    BY <1>2, <2>1, <2>2, ClientStarts DEF EncInv, InStep, OpenBlock
  <2>4. PICK r : r = [e EXCEPT !.sent = TRUE, !.client = c]
    OBVIOUS
  <2>5. EnsureMessageStart(e) = r
    BY <1>2, <2>1, <2>4 DEF EnsureMessageStart
  <2>6. IsEnc(r) /\ r.sent = TRUE /\ r.client = c /\ \A k \in EncFields \ {"sent", "client"} : r[k] = e[k]
    BY <2>2, <2>4 DEF IsEnc, EncFields
  <2>7. /\ r.open = e.open /\ r.blocks = e.blocks /\ r.live = e.live /\ r.pending = e.pending
        /\ r.next = e.next /\ r.absorbed = e.absorbed
    BY <2>6 DEF EncFields
  <2>8. Counters(r) /\ Places(r, m) /\ LiveBlocks(r)
    BY <2>7 DEF EncInv, Counters, Places, LiveBlocks
  <2>9. InStep(r)
    BY <2>2, <2>3, <2>6, <2>7 DEF InStep, OpenBlock
  <2> QED
    BY <2>5, <2>6, <2>8, <2>9 DEF EncInv
<1> QED
  BY <1>1, <1>2 DEF EncInv

LEMMA MoreNodes ==
  ASSUME NEW m \in Nat, NEW e, EncInv(e, m)
  PROVE  EncInv(e, m + 1)
BY DEF EncInv, Places

(* A header has no block exactly when its node is not shown.               *)
LEMMA HeaderShown ==
  ASSUME NEW n
  PROVE  BlockFromNodeHeader(n) = NoBlock <=> n.kind \notin Shown
BY DEF BlockFromNodeHeader, NoBlock, Shown, Reasoning

LEMMA NodeShown ==
  ASSUME NEW n, BlockFromNode(n) # NoBlock
  PROVE  n.kind \in Shown
BY DEF BlockFromNode

(* A node whose block is not yet open has started.                         *)
Begun(e, i, p) ==
  [EnsureMessageStart(e) EXCEPT !.wanted = TRUE, !.live = With(@, i, [payload |-> p, block |-> 0])]

Begins(s, e, m, i, p) == m \in Nat /\ i = m + 1 /\ s = Begun(e, i, p)

BegunAs(s, e, i, p) ==
  /\ s.next = e.next /\ s.open = e.open /\ s.blocks = e.blocks
  /\ s.pending = e.pending /\ s.absorbed = e.absorbed /\ s.direct = e.direct /\ s.surfaces = e.surfaces
  /\ s.client.blocks = e.client.blocks
  /\ DOMAIN s.live = DOMAIN e.live \union {i} /\ s.live[i].payload = p
  /\ \A j \in DOMAIN e.live : s.live[j] = e.live[j]

LEMMA BegunKeeps ==
  ASSUME NEW m, NEW e, EncInv(e, m), NEW i, NEW p, NEW s, Begins(s, e, m, i, p)
  PROVE  EncInv(s, m + 1) /\ s.sent = TRUE /\ BegunAs(s, e, i, p)
<1>0. m \in Nat /\ i = m + 1 /\ s = Begun(e, i, p)
  BY DEF Begins
<1>1. PICK v : v = EnsureMessageStart(e)
  OBVIOUS
<1>2. /\ EncInv(v, m) /\ v.sent = TRUE /\ IsEnc(v) /\ i \in Nat /\ i # 0
      /\ v.next = e.next /\ v.open = e.open /\ v.blocks = e.blocks /\ v.live = e.live
      /\ v.pending = e.pending /\ v.absorbed = e.absorbed /\ v.direct = e.direct /\ v.surfaces = e.surfaces
  <2>1. EncInv(v, m) /\ v.sent = TRUE /\ \A k \in EncFields \ {"sent", "client"} : v[k] = e[k]
    BY <1>0, <1>1, StartMessage
  <2>2. /\ v.next = e.next /\ v.open = e.open /\ v.blocks = e.blocks /\ v.live = e.live
        /\ v.pending = e.pending /\ v.absorbed = e.absorbed /\ v.direct = e.direct /\ v.surfaces = e.surfaces
    BY <2>1 DEF EncFields
  <2> QED
    BY <1>0, <1>1, <2>1, <2>2 DEF EncInv
<1>3. v.client.blocks = e.client.blocks
  <2>1. CASE e.sent
    BY <1>1, <2>1 DEF EnsureMessageStart
  <2>2. CASE ~e.sent
    <3>1. ClientAt(e.client, "new", OpenBlock(e), e.blocks)
      BY <2>2 DEF EncInv, InStep
    <3>2. v.client = OnMessageStart(e.client)
      BY <1>1, <2>2 DEF EnsureMessageStart, EncInv, IsEnc, EncFields
    <3> QED
      BY <3>1, <3>2 DEF OnMessageStart, ClientAt
  <2> QED
    BY <2>1, <2>2
<1>4. PICK L : L = With(v.live, i, [payload |-> p, block |-> 0])
  OBVIOUS
<1>5. s = [v EXCEPT !.wanted = TRUE, !.live = L]
  BY <1>0, <1>1, <1>4 DEF Begun
<1>6. /\ IsEnc(s) /\ s.client = v.client /\ s.sent = TRUE /\ s.next = v.next /\ s.blocks = v.blocks
      /\ s.live = L /\ s.pending = v.pending /\ s.absorbed = v.absorbed /\ s.open = v.open
      /\ s.direct = v.direct /\ s.surfaces = v.surfaces
  BY <1>2, <1>5 DEF IsEnc, EncFields
<1>7. DOMAIN v.live \subseteq 1 .. m /\ i \notin DOMAIN v.live /\ i \in 1 .. (m + 1)
  BY <1>0, <1>2 DEF EncInv, Places
<1>8. /\ DOMAIN L = DOMAIN v.live \union {i} /\ L[i] = [payload |-> p, block |-> 0]
      /\ \A j \in DOMAIN v.live : L[j] = v.live[j]
  BY <1>4, <1>7 DEF With
<1>9. Counters(s)
  BY <1>2, <1>6 DEF EncInv, Counters
<1>10. Places(s, m + 1)
  BY <1>0, <1>2, <1>6, <1>7, <1>8 DEF EncInv, Places
<1>11. LiveBlocks(s)
  <2>1. ASSUME NEW j \in DOMAIN L
        PROVE  DOMAIN L[j] = {"payload", "block"} /\ (L[j].block # 0 => j = v.open)
    BY <1>2, <1>8 DEF EncInv, LiveBlocks
  <2>2. v.open # 0 => v.open = v.next /\ v.open \in DOMAIN L /\ L[v.open].block # 0
    BY <1>2, <1>8 DEF EncInv, LiveBlocks
  <2> QED
    BY ONLY <1>6, <2>1, <2>2 DEF LiveBlocks
<1>12. InStep(s)
  <2>1. OpenBlock(s) = OpenBlock(v)
    BY <1>2, <1>6, <1>8 DEF OpenBlock, EncInv, LiveBlocks
  <2> QED
    BY <1>2, <1>6, <2>1 DEF EncInv, InStep
<1>13. EncInv(s, m + 1)
  BY <1>6, <1>9, <1>10, <1>11, <1>12 DEF EncInv
<1> QED
  BY <1>0, <1>2, <1>3, <1>6, <1>8, <1>13 DEF BegunAs

LEMMA StartKeeps ==
  ASSUME NEW m \in Nat, NEW e, EncInv(e, m), NEW n
  PROVE  /\ EncInv(OnNodeStart(e, m + 1, n), m + 1)
         /\ e.sent \/ n.kind \in Shown => OnNodeStart(e, m + 1, n).sent = TRUE
<1>1. CASE n.kind \notin Shown
  <2>1. OnNodeStart(e, m + 1, n) = e
    BY <1>1, HeaderShown DEF OnNodeStart
  <2> QED
    BY <1>1, <2>1, MoreNodes DEF EncInv
<1>2. CASE n.kind \in Shown
  <2>1. PICK i, p : i = m + 1 /\ p = BlockFromNodeHeader(n)
    OBVIOUS
  <2>2. PICK s : s = Begun(e, i, p)
    OBVIOUS
  <2>3. EncInv(s, m + 1) /\ s.sent = TRUE
    <3>1. Begins(s, e, m, i, p)
      BY <2>1, <2>2 DEF Begins
    <3> QED
      BY <3>1, BegunKeeps
  <2>4. PICK z : z = TryStartNextLiveBlock(s)
    OBVIOUS
  <2>5. EncInv(z, m + 1) /\ z.sent = TRUE
    BY <2>3, <2>4, StartsNext
  <2>6. PICK w : w = [z EXCEPT !.direct = @ \union {i}]
    OBVIOUS
  <2>7. EncInv(w, m + 1) /\ w.sent = TRUE
    <3>1. /\ IsEnc(w) /\ w.client = z.client /\ w.sent = z.sent /\ w.next = z.next /\ w.blocks = z.blocks
          /\ w.live = z.live /\ w.pending = z.pending /\ w.absorbed = z.absorbed /\ w.open = z.open
      BY <2>5, <2>6 DEF EncInv, IsEnc, EncFields
    <3> QED
      BY <2>5, <3>1 DEF EncInv, Counters, Places, LiveBlocks, InStep, OpenBlock
  <2>8. OnNodeStart(e, i, n) = s \/ OnNodeStart(e, i, n) = w
    BY <1>2, <2>1, <2>2, <2>4, <2>6, HeaderShown DEF OnNodeStart, Begun
  <2> QED
    BY <2>1, <2>3, <2>7, <2>8
<1> QED
  BY <1>1, <1>2

(* An encoder that differs in nothing EncInv looks at.                     *)
LEMMA SameState ==
  ASSUME NEW m, NEW e, EncInv(e, m), NEW r, IsEnc(r), r.sent = e.sent, r.client = e.client,
         r.next = e.next, r.blocks = e.blocks, r.live = e.live, r.pending = e.pending,
         r.absorbed = e.absorbed, r.open = e.open
  PROVE  EncInv(r, m)
BY DEF EncInv, Counters, Places, LiveBlocks, InStep, OpenBlock

(* The client may read what e has sent; r has the nodes L and the client c.  *)
ClientIn(c, e) == ClientAt(c, IF e.sent THEN "body" ELSE "new", OpenBlock(e), e.blocks)

SameBlocks(L, K) ==
  /\ DOMAIN L = DOMAIN K
  /\ \A j \in DOMAIN K : L[j].block = K[j].block /\ DOMAIN L[j] = {"payload", "block"}

Reads(r, e, L, c) ==
  /\ IsEnc(r) /\ r.client = c /\ r.sent = e.sent /\ r.next = e.next /\ r.blocks = e.blocks
  /\ r.live = L /\ r.pending = e.pending /\ r.absorbed = e.absorbed /\ r.open = e.open

(* What a node collects changes neither its block nor the other nodes.     *)
LEMMA PayloadKeeps ==
  ASSUME NEW m, NEW e, EncInv(e, m), NEW L, SameBlocks(L, e.live), NEW c, ClientIn(c, e),
         NEW r, Reads(r, e, L, c)
  PROVE  EncInv(r, m) /\ r.sent = e.sent
<1>1. IsEnc(r) /\ Counters(r) /\ Places(r, m) /\ r.sent \in BOOLEAN /\ r.sent = e.sent
  BY DEF EncInv, Counters, Places, Reads, SameBlocks
<1>2. LiveBlocks(r)
  <2>1. \A j \in DOMAIN e.live : e.live[j].block # 0 => j = e.open
    BY DEF EncInv, LiveBlocks
  <2>2. e.open # 0 => e.open = e.next /\ e.open \in DOMAIN e.live /\ e.live[e.open].block # 0
    BY DEF EncInv, LiveBlocks
  <2>3. \A j \in DOMAIN L : DOMAIN L[j] = {"payload", "block"} /\ (L[j].block # 0 => j = e.open)
    BY <2>1 DEF SameBlocks
  <2>4. e.open # 0 => e.open = e.next /\ e.open \in DOMAIN L /\ L[e.open].block # 0
    BY <2>2 DEF SameBlocks
  <2>5. r.live = L /\ r.open = e.open /\ r.next = e.next
    BY DEF Reads
  <2> QED
    BY ONLY <2>3, <2>4, <2>5 DEF LiveBlocks
<1>3. OpenBlock(r) = OpenBlock(e)
  BY DEF EncInv, LiveBlocks, OpenBlock, Reads, SameBlocks
<1>4. InStep(r)
  BY <1>3 DEF EncInv, InStep, Reads, SameBlocks, ClientIn
<1> QED
  BY <1>1, <1>2, <1>4 DEF EncInv

LEMMA PayloadSet ==
  ASSUME NEW m, NEW e, EncInv(e, m), NEW i, i \in DOMAIN e.live, NEW p
  PROVE  SameBlocks([e.live EXCEPT ![i] = [e.live[i] EXCEPT !.payload = p]], e.live)
<1>1. PICK L : L = [e.live EXCEPT ![i] = [e.live[i] EXCEPT !.payload = p]]
  OBVIOUS
<1>2. \A j \in DOMAIN e.live : DOMAIN e.live[j] = {"payload", "block"}
  BY DEF EncInv, LiveBlocks
<1>3. DOMAIN L = DOMAIN e.live
  BY <1>1
<1>4. ASSUME NEW j \in DOMAIN e.live
      PROVE  L[j].block = e.live[j].block /\ DOMAIN L[j] = {"payload", "block"}
  <2>1. CASE j = i
    <3>1. L[j] = [e.live[i] EXCEPT !.payload = p]
      BY <1>1, <2>1
    <3> QED
      BY <1>2, <2>1, <3>1
  <2>2. CASE j # i
    BY <1>1, <1>2, <2>2
  <2> QED
    BY <2>1, <2>2
<1> QED
  BY <1>1, <1>3, <1>4 DEF SameBlocks

LEMMA DeltaKeeps ==
  ASSUME NEW m \in Nat, NEW e, EncInv(e, m), NEW i, NEW d
  PROVE  EncInv(OnNodeDelta(e, i, d), m) /\ OnNodeDelta(e, i, d).sent = e.sent
<1>1. CASE i \notin DOMAIN e.live
  BY <1>1 DEF OnNodeDelta
<1>2. CASE i \in DOMAIN e.live /\ e.live[i].block # 0
  <2>1. i = e.open /\ OpenBlock(e) = e.live[i].block /\ IsEnc(e) /\ e.sent = TRUE
    BY <1>2 DEF EncInv, LiveBlocks, OpenBlock, InStep, Places
  <2>2. PICK b, l, k : b = e.live[i].block /\ l = e.live[i].payload /\ k = e.blocks
    OBVIOUS
  <2>3. IsEnc(e) /\ ClientAt(e.client, "body", b, k)
    BY <2>1, <2>2 DEF EncInv, InStep
  <2>4. PICK c : LiveDelta(e, b, l, d) = SetClient(e, c) /\ ClientAt(c, "body", b, k)
    BY ONLY <2>3, DeltaReads
  <2>5. PICK p : p = EmittedDelta(l, d)
    OBVIOUS
  <2>6. PICK L : L = [e.live EXCEPT ![i] = [e.live[i] EXCEPT !.payload = p]]
    OBVIOUS
  <2>7. SameBlocks(L, e.live)
    BY <1>2, <2>6, PayloadSet
  <2>8. PICK r : r = [SetClient(e, c) EXCEPT !.live = L]
    OBVIOUS
  <2>9. Reads(r, e, L, c)
    BY <2>3, <2>8 DEF Reads, IsEnc, EncFields, SetClient
  <2>10. OnNodeDelta(e, i, d) = r
    <3>1. SetClient(e, c).live = e.live
      BY <2>3, ClientSet DEF EncFields
    <3>2. PICK v : v = SetClient(e, c)
      OBVIOUS
    <3> QED
      BY <1>2, <2>2, <2>4, <2>5, <2>6, <2>8, <3>1, <3>2 DEF OnNodeDelta
  <2>11. ClientIn(c, e)
    BY <2>1, <2>2, <2>4 DEF ClientIn
  <2> QED
    BY <2>7, <2>9, <2>10, <2>11, PayloadKeeps
<1>3. CASE i \in DOMAIN e.live /\ e.live[i].block = 0
  <2>1. PICK p : p = BufferedDelta(e.live[i].payload, d)
    OBVIOUS
  <2>2. PICK L : L = [e.live EXCEPT ![i] = [e.live[i] EXCEPT !.payload = p]]
    OBVIOUS
  <2>3. SameBlocks(L, e.live)
    BY <1>3, <2>2, PayloadSet
  <2>4. PICK r : r = [e EXCEPT !.live = L]
    OBVIOUS
  <2>5. OnNodeDelta(e, i, d) = r
    BY <1>3, <2>1, <2>2, <2>4 DEF OnNodeDelta
  <2>6. Reads(r, e, L, e.client)
    BY <2>4 DEF Reads, EncInv, IsEnc, EncFields
  <2>7. ClientIn(e.client, e)
    BY DEF EncInv, InStep, ClientIn
  <2> QED
    BY <2>3, <2>5, <2>6, <2>7, PayloadKeeps
<1> QED
  BY <1>1, <1>2, <1>3

LEMMA Restricted ==
  ASSUME NEW f, NEW i
  PROVE  /\ DOMAIN Without(f, i) = DOMAIN f \ {i}
         /\ \A j \in DOMAIN f \ {i} : Without(f, i)[j] = f[j]
BY DEF Without, Restrict

(* The open node has ended, and K is what is left of the others.           *)
Closed(r, e, K, m) ==
  /\ IsEnc(r) /\ r.sent = TRUE /\ r.blocks = e.blocks /\ r.pending = e.pending
  /\ r.open = 0 /\ r.next \in Nat /\ ClientAt(r.client, "body", 0, e.blocks)
  /\ r.live = K /\ DOMAIN K \subseteq DOMAIN e.live \ {e.open}
  /\ \A j \in DOMAIN K : K[j] = e.live[j]
  /\ r.absorbed \subseteq 1 .. m /\ r.absorbed \intersect DOMAIN K = {}

LEMMA CloseKeeps ==
  ASSUME NEW m, NEW e, EncInv(e, m), NEW K, NEW r, Closed(r, e, K, m)
  PROVE  EncInv(r, m)
<1>1. IsEnc(r) /\ Counters(r) /\ r.sent \in BOOLEAN
  <2>1. IsEnc(r) /\ r.sent = TRUE /\ r.blocks = e.blocks /\ r.open = 0 /\ r.next \in Nat
    BY DEF Closed
  <2>2. e.blocks \in Nat
    BY DEF EncInv, Counters
  <2>3. Counters(r)
    BY ONLY <2>1, <2>2 DEF Counters
  <2>4. r.sent \in BOOLEAN
    BY ONLY <2>1
  <2> QED
    BY ONLY <2>1, <2>3, <2>4
<1>2. Places(r, m)
  BY DEF EncInv, Places, Closed
<1>3. LiveBlocks(r)
  <2>1. \A j \in DOMAIN K : DOMAIN K[j] = {"payload", "block"} /\ K[j].block = 0
    <3>1. \A j \in DOMAIN e.live : DOMAIN e.live[j] = {"payload", "block"} /\ (e.live[j].block # 0 => j = e.open)
      BY DEF EncInv, LiveBlocks
    <3>2. DOMAIN K \subseteq DOMAIN e.live \ {e.open} /\ \A j \in DOMAIN K : K[j] = e.live[j]
      BY DEF Closed
    <3> QED
      BY ONLY <3>1, <3>2
  <2>2. r.live = K /\ r.open = 0
    BY DEF Closed
  <2> QED
    BY ONLY <2>1, <2>2 DEF LiveBlocks
<1>4. InStep(r)
  BY DEF InStep, OpenBlock, Closed
<1> QED
  BY <1>1, <1>2, <1>3, <1>4 DEF EncInv

LEMMA LiveDoneKeeps ==
  ASSUME NEW m \in Nat, NEW e, EncInv(e, m), NEW i, i \in DOMAIN e.live, e.live[i].block # 0, NEW n
  PROVE  EncInv(LiveNodeDone(e, i, n), m) /\ LiveNodeDone(e, i, n).sent = TRUE
<1>1. i = e.open /\ OpenBlock(e) = e.live[i].block /\ IsEnc(e) /\ e.sent = TRUE /\ i \in Nat /\ e.next \in Nat
  BY DEF EncInv, LiveBlocks, OpenBlock, InStep, Places, Counters
<1>2. PICK b, l, k : b = e.live[i].block /\ l = e.live[i].payload /\ k = e.blocks
  OBVIOUS
<1>3. ClientAt(e.client, "body", b, k)
  BY <1>1, <1>2 DEF EncInv, InStep
<1>4. PICK u : u = [e EXCEPT !.live = Without(@, i)]
  OBVIOUS
<1>5. /\ IsEnc(u) /\ u.client = e.client /\ u.live = Without(e.live, i) /\ u.sent = TRUE /\ u.blocks = e.blocks
      /\ u.pending = e.pending /\ u.open = i /\ u.next = e.next /\ u.absorbed = e.absorbed
  BY <1>1, <1>4 DEF IsEnc, EncFields
<1>6. PICK s : s = TerminalSuffix(u, b, l, n)
  OBVIOUS
<1>7. PICK c : s = SetClient(u, c) /\ ClientAt(c, "body", b, k)
  <2>1. IsEnc(u) /\ ClientAt(u.client, "body", b, k)
    BY <1>3, <1>5
  <2>2. \E c : TerminalSuffix(u, b, l, n) = SetClient(u, c) /\ ClientAt(c, "body", b, k)
    BY ONLY <2>1, SuffixReads
  <2> QED
    BY <1>6, <2>2
<1>8. /\ IsEnc(s) /\ s.client = c /\ s.live = Without(e.live, i) /\ s.sent = TRUE /\ s.blocks = e.blocks
      /\ s.pending = e.pending /\ s.open = i /\ s.next = e.next /\ s.absorbed = e.absorbed
  BY <1>5, <1>7 DEF IsEnc, EncFields, SetClient
<1> DEFINE absorbs == i + 1 \in DOMAIN e.live /\ CanAbsorb(l, e.live[i + 1].payload)
<1>9. PICK a : a = IF absorbs
                   THEN [SendDelta(s, b, "sig", e.live[i + 1].payload.sig) EXCEPT
                           !.live = Without(@, i + 1), !.absorbed = @ \union {i + 1}]
                   ELSE s
  OBVIOUS
<1>10. PICK d, K : /\ IsEnc(a) /\ a.client = d /\ ClientAt(d, "body", b, k) /\ a.live = K /\ a.sent = TRUE
                   /\ a.blocks = e.blocks /\ a.pending = e.pending /\ a.open = i
                   /\ DOMAIN K \subseteq DOMAIN e.live \ {i} /\ (\A j \in DOMAIN K : K[j] = e.live[j])
                   /\ a.absorbed \subseteq 1 .. m /\ a.absorbed \intersect DOMAIN K = {}
  <2>1. PICK L : L = Without(e.live, i)
    OBVIOUS
  <2>2. DOMAIN L = DOMAIN e.live \ {i} /\ \A j \in DOMAIN L : L[j] = e.live[j]
    BY <2>1, Restricted
  <2>3. DOMAIN e.live \subseteq 1 .. m /\ e.absorbed \subseteq 1 .. m /\ DOMAIN e.live \intersect e.absorbed = {}
    BY DEF EncInv, Places
  <2>4. CASE ~absorbs
    BY <1>7, <1>8, <1>9, <2>1, <2>2, <2>3, <2>4
  <2>5. CASE absorbs
    <3>1. PICK g : g = e.live[i + 1].payload.sig
      OBVIOUS
    <3>2. IsEnc(s) /\ ClientAt(s.client, "body", b, k)
      BY <1>7, <1>8
    <3>3. PICK d : SendDelta(s, b, "sig", g) = SetClient(s, d) /\ ClientAt(d, "body", b, k)
      BY ONLY <3>2, SendReads
    <3>4. PICK v : v = SetClient(s, d)
      OBVIOUS
    <3>5. /\ IsEnc(v) /\ v.client = d /\ v.live = L /\ v.sent = TRUE /\ v.blocks = e.blocks
          /\ v.pending = e.pending /\ v.open = i /\ v.absorbed = e.absorbed
      BY <1>8, <2>1, <3>4 DEF IsEnc, EncFields, SetClient
    <3>6. PICK K : K = Without(L, i + 1)
      OBVIOUS
    <3>7. DOMAIN K = DOMAIN L \ {i + 1} /\ \A j \in DOMAIN K : K[j] = L[j]
      BY <3>6, Restricted
    <3>8. a = [v EXCEPT !.live = K, !.absorbed = e.absorbed \union {i + 1}]
      BY <1>9, <2>5, <3>1, <3>3, <3>4, <3>5, <3>6
    <3>9. /\ IsEnc(a) /\ a.client = d /\ a.live = K /\ a.sent = TRUE /\ a.blocks = e.blocks
          /\ a.pending = e.pending /\ a.open = i /\ a.absorbed = e.absorbed \union {i + 1}
      BY <3>5, <3>8 DEF IsEnc, EncFields
    <3>10. DOMAIN K \subseteq DOMAIN e.live \ {i} /\ (\A j \in DOMAIN K : K[j] = e.live[j])
      BY <2>2, <3>7
    <3>11. a.absorbed \subseteq 1 .. m /\ a.absorbed \intersect DOMAIN K = {}
      BY <2>2, <2>3, <2>5, <3>7, <3>9
    <3> QED
      BY <3>3, <3>9, <3>10, <3>11
  <2> QED
    BY <2>4, <2>5
<1>11. PICK nx : nx = IF absorbs /\ (IF i = e.next THEN i + 1 ELSE e.next) = i + 1 THEN i + 2
                      ELSE IF i = e.next THEN i + 1 ELSE e.next
  OBVIOUS
<1>12. nx \in Nat
  BY <1>1, <1>11
<1>13. PICK z : z = [a EXCEPT !.client = OnBlockStop(@, b), !.open = IF @ = i THEN 0 ELSE @, !.next = nx]
  OBVIOUS
<1>14. LiveNodeDone(e, i, n) = TryStartNextLiveBlock(FlushReady(z))
  BY <1>2, <1>4, <1>6, <1>9, <1>11, <1>13 DEF LiveNodeDone
<1> HIDE DEF absorbs
<1>15. Closed(z, e, K, m)
  <2>1. /\ IsEnc(z) /\ z.client = OnBlockStop(d, b) /\ z.live = K /\ z.sent = TRUE /\ z.blocks = e.blocks
        /\ z.pending = e.pending /\ z.open = 0 /\ z.next = nx /\ z.absorbed = a.absorbed
    BY <1>10, <1>13 DEF IsEnc, EncFields
  <2>2. ClientAt(z.client, "body", 0, e.blocks)
    BY <1>2, <1>10, <2>1, ClientCloses
  <2> QED
    BY <1>1, <1>10, <1>12, <2>1, <2>2 DEF Closed
<1>16. EncInv(z, m) /\ z.sent = TRUE
  BY <1>15, CloseKeeps DEF Closed
<1>17. EncInv(FlushReady(z), m) /\ FlushReady(z).sent = TRUE
  BY <1>16, FlushKeeps
<1> QED
  BY <1>14, <1>17, StartsNext

(* A node that had no block has ended: it is not the open one.             *)
LEMMA BufferedDoneKeeps ==
  ASSUME NEW m \in Nat, NEW e, EncInv(e, m), NEW i \in 1 .. m, i \in DOMAIN e.live => e.live[i].block = 0,
         NEW n, n.kind \in Shown => e.sent
  PROVE  EncInv(BufferedNodeDone(e, i, n), m) /\ BufferedNodeDone(e, i, n).sent = e.sent
<1>1. PICK p, K : p = (IF i \in DOMAIN e.live THEN e.live[i].payload ELSE BlockFromNode(n)) /\ K = Without(e.live, i)
  OBVIOUS
<1>2. PICK s : s = [e EXCEPT !.live = K]
  OBVIOUS
<1>3. /\ IsEnc(s) /\ s.client = e.client /\ s.live = K /\ s.sent = e.sent /\ s.blocks = e.blocks
      /\ s.pending = e.pending /\ s.open = e.open /\ s.next = e.next /\ s.absorbed = e.absorbed
  BY <1>2 DEF EncInv, IsEnc, EncFields
<1>4. DOMAIN K = DOMAIN e.live \ {i} /\ \A j \in DOMAIN K : K[j] = e.live[j]
  BY ONLY <1>1 DEF Without, Restrict
<1>5. e.open # i /\ (e.open # 0 => e.open \in DOMAIN K /\ K[e.open] = e.live[e.open])
  BY <1>4 DEF EncInv, LiveBlocks
<1>6. \A j \in DOMAIN K : DOMAIN K[j] = {"payload", "block"} /\ (K[j].block # 0 => j = e.open)
  BY <1>4 DEF EncInv, LiveBlocks
<1>7. e.open # 0 => e.open = e.next /\ e.open \in DOMAIN K /\ K[e.open].block # 0
  BY <1>5 DEF EncInv, LiveBlocks
<1>9. ASSUME NEW r, IsEnc(r), r.client = e.client, r.live = K, r.sent = e.sent, r.blocks = e.blocks,
             r.open = e.open, r.next \in Nat, e.open # 0 => r.next = e.next, r.absorbed = e.absorbed,
             DOMAIN r.pending \subseteq DOMAIN e.pending \union {i},
             ~e.sent => DOMAIN r.pending = {}
      PROVE  EncInv(r, m) /\ r.sent = e.sent
  <2>1. Counters(r) /\ r.sent \in BOOLEAN
    BY <1>9 DEF EncInv, Counters
  <2>2. Places(r, m)
    BY <1>4, <1>9 DEF EncInv, Places
  <2>3. LiveBlocks(r)
    BY ONLY <1>6, <1>7, <1>9 DEF LiveBlocks
  <2>4. OpenBlock(r) = OpenBlock(e)
    BY <1>5, <1>9 DEF OpenBlock
  <2>5. InStep(r)
    BY <1>4, <1>9, <2>4 DEF EncInv, InStep
  <2> QED
    BY <1>9, <2>1, <2>2, <2>3, <2>5 DEF EncInv
<1>10. e.next \in Nat /\ (~e.sent => DOMAIN e.pending = {})
  BY DEF EncInv, Counters, InStep
<1>11. CASE p = NoBlock
  <2>1. BufferedNodeDone(e, i, n) = MarkNodeWithoutBlock(s, i)
    BY <1>1, <1>2, <1>11 DEF BufferedNodeDone
  <2>2. CASE i # s.next
    <3>1. EncInv(s, m) /\ s.sent = e.sent
      BY <1>3, <1>9, <1>10
    <3> QED
      BY <2>1, <2>2, <3>1 DEF MarkNodeWithoutBlock
  <2>3. CASE i = s.next
    <3>1. PICK r : r = [s EXCEPT !.next = i + 1]
      OBVIOUS
    <3>2. /\ IsEnc(r) /\ r.client = e.client /\ r.live = K /\ r.sent = e.sent /\ r.blocks = e.blocks
          /\ r.pending = e.pending /\ r.open = e.open /\ r.next = i + 1 /\ r.absorbed = e.absorbed
      BY <1>3, <3>1 DEF IsEnc, EncFields
    <3>3. e.open = 0 /\ r.next \in Nat
      BY <1>3, <1>5, <1>7, <2>3, <3>2
    <3>4. EncInv(r, m) /\ r.sent = e.sent
      BY <1>9, <1>10, <3>2, <3>3
    <3>5. MarkNodeWithoutBlock(s, i) = FlushReady(r)
      BY <2>3, <3>1 DEF MarkNodeWithoutBlock
    <3> QED
      BY <2>1, <3>4, <3>5, FlushKeeps
  <2> QED
    BY <2>2, <2>3
<1>12. CASE p # NoBlock
  <2>1. e.sent
    <3>1. CASE i \in DOMAIN e.live
      BY <3>1 DEF EncInv, InStep
    <3>2. CASE i \notin DOMAIN e.live
      BY <1>1, <1>12, <3>2, NodeShown
    <3> QED
      BY <3>1, <3>2
  <2>2. PICK P : P = With(e.pending, i, MergeTerminal(p, n))
    OBVIOUS
  <2>3. DOMAIN P = DOMAIN e.pending \union {i}
    BY <2>2 DEF With
  <2>4. PICK r : r = [s EXCEPT !.pending = P]
    OBVIOUS
  <2>5. /\ IsEnc(r) /\ r.client = e.client /\ r.live = K /\ r.sent = e.sent /\ r.blocks = e.blocks
        /\ r.pending = P /\ r.open = e.open /\ r.next = e.next /\ r.absorbed = e.absorbed
    BY <1>3, <2>4 DEF IsEnc, EncFields
  <2>6. EncInv(r, m) /\ r.sent = e.sent
    BY <1>9, <1>10, <2>1, <2>3, <2>5
  <2>7. BufferedNodeDone(e, i, n) = TryStartNextLiveBlock(FlushReady(r))
    BY <1>1, <1>2, <1>3, <1>12, <2>2, <2>4 DEF BufferedNodeDone
  <2>8. EncInv(FlushReady(r), m) /\ FlushReady(r).sent = e.sent
    BY <2>6, FlushKeeps
  <2> QED
    BY <2>7, <2>8, StartsNext
<1> QED
  BY <1>11, <1>12

LEMMA DoneKeeps ==
  ASSUME NEW m \in Nat, NEW e, EncInv(e, m), NEW i \in 1 .. m, NEW n, n.kind \in Shown => e.sent
  PROVE  EncInv(OnNodeDone(e, i, n), m) /\ OnNodeDone(e, i, n).sent = e.sent
<1>1. CASE i \in e.absorbed
  <2>1. PICK K, A : K = Without(e.live, i) /\ A = e.absorbed \ {i}
    OBVIOUS
  <2>2. PICK r : r = [e EXCEPT !.absorbed = A, !.live = K]
    OBVIOUS
  <2>3. /\ IsEnc(r) /\ r.client = e.client /\ r.live = K /\ r.sent = e.sent /\ r.blocks = e.blocks
        /\ r.pending = e.pending /\ r.open = e.open /\ r.next = e.next /\ r.absorbed = A
    BY <2>2 DEF EncInv, IsEnc, EncFields
  <2>4. DOMAIN K = DOMAIN e.live /\ \A j \in DOMAIN e.live : K[j] = e.live[j]
    <3>1. i \notin DOMAIN e.live
      BY <1>1 DEF EncInv, Places
    <3> QED
      BY ONLY <2>1, <3>1 DEF Without, Restrict
  <2>5. Counters(r) /\ r.sent \in BOOLEAN /\ Places(r, m)
    BY <2>1, <2>3, <2>4 DEF EncInv, Counters, Places
  <2>6. LiveBlocks(r)
    <3>1. \A j \in DOMAIN K : DOMAIN K[j] = {"payload", "block"} /\ (K[j].block # 0 => j = e.open)
      BY <2>4 DEF EncInv, LiveBlocks
    <3>2. e.open # 0 => e.open = e.next /\ e.open \in DOMAIN K /\ K[e.open].block # 0
      BY <2>4 DEF EncInv, LiveBlocks
    <3> QED
      BY ONLY <2>3, <3>1, <3>2 DEF LiveBlocks
  <2>7. InStep(r)
    <3>1. OpenBlock(r) = OpenBlock(e)
      BY <2>3, <2>4 DEF OpenBlock, EncInv, LiveBlocks
    <3> QED
      BY <2>3, <2>4, <3>1 DEF EncInv, InStep
  <2>8. OnNodeDone(e, i, n) = r
    BY <1>1, <2>1, <2>2 DEF OnNodeDone
  <2> QED
    BY <2>3, <2>5, <2>6, <2>7, <2>8 DEF EncInv
<1>2. CASE i \notin e.absorbed /\ i \in DOMAIN e.live /\ e.live[i].block # 0
  <2>1. OnNodeDone(e, i, n) = LiveNodeDone(e, i, n)
    BY <1>2 DEF OnNodeDone
  <2>2. e.sent = TRUE
    BY <1>2 DEF EncInv, InStep
  <2> QED
    BY <1>2, <2>1, <2>2, LiveDoneKeeps
<1>3. CASE i \notin e.absorbed /\ (i \in DOMAIN e.live => e.live[i].block = 0)
  <2>1. OnNodeDone(e, i, n) = BufferedNodeDone(e, i, n)
    BY <1>3 DEF OnNodeDone
  <2> QED
    BY <1>3, <2>1, BufferedDoneKeeps
<1> QED
  BY <1>1, <1>2, <1>3

-----------------------------------------------------------------------------
(* The end of the answer.  First the nodes that never ended: p has the     *)
(* encoder before the loop and the nodes of the answer.                    *)
RemStep(p, a, i) == RemainingNode(p.out, a, i)

RemGood(p, T, a) ==
  /\ IsEnc(a) /\ a.sent = TRUE /\ a.next \in Nat /\ a.blocks = p.enc.blocks
  /\ DOMAIN a.live = DOMAIN p.enc.live \ T
  /\ \A j \in DOMAIN a.live : a.live[j] = p.enc.live[j]
  /\ DOMAIN a.pending \subseteq DOMAIN p.enc.pending \union T
  /\ ClientAt(a.client, "body", IF p.enc.open \in T THEN 0 ELSE OpenBlock(p.enc), p.enc.blocks)

Rem == INSTANCE FoldTheorems WITH Op <- RemStep, Good <- RemGood

LEMMA RemLoop ==
  ASSUME NEW p
  PROVE  RemainingLiveNodeBlocks(p.enc, p.out) = Rem!Loop(p, p.enc, DOMAIN p.enc.live)
BY DEF RemainingLiveNodeBlocks, FoldAscending, Rem!Loop, MapThenFoldSet, Rem!MapThenFoldSet, Max, Rem!Max, RemStep

LEMMA RemKeeps ==
  ASSUME NEW m \in Nat, NEW p, EncInv(p.enc, m), NEW T, NEW i, i \in DOMAIN p.enc.live \ T,
         NEW a, RemGood(p, T, a)
  PROVE  RemGood(p, T \union {i}, RemainingNode(p.out, a, i))
<1>1. PICK e, out : e = p.enc /\ out = p.out
  OBVIOUS
<1>2. PICK l, k, K, n : /\ l = a.live[i] /\ k = e.blocks /\ K = Without(a.live, i)
                        /\ n = IF i \in DOMAIN out THEN out[i] ELSE NoNode
  OBVIOUS
<1>3. EncInv(e, m) /\ i \in DOMAIN e.live /\ i \notin T
  BY <1>1
<1>4. /\ IsEnc(a) /\ a.sent = TRUE /\ a.next \in Nat /\ a.blocks = k
      /\ DOMAIN a.live = DOMAIN e.live \ T /\ (\A j \in DOMAIN a.live : a.live[j] = e.live[j])
      /\ DOMAIN a.pending \subseteq DOMAIN e.pending \union T
      /\ ClientAt(a.client, "body", IF e.open \in T THEN 0 ELSE OpenBlock(e), k)
  BY <1>1, <1>2 DEF RemGood
<1>5. l = e.live[i]
  BY <1>2, <1>3, <1>4
<1>6. DOMAIN K = DOMAIN e.live \ (T \union {i}) /\ \A j \in DOMAIN K : K[j] = e.live[j]
  BY ONLY <1>2, <1>4 DEF Without, Restrict
<1>7. PICK s : s = [a EXCEPT !.live = K]
  OBVIOUS
<1>8. /\ IsEnc(s) /\ s.sent = TRUE /\ s.next = a.next /\ s.blocks = k /\ s.live = K
      /\ s.pending = a.pending /\ s.client = a.client
  BY <1>4, <1>7 DEF IsEnc, EncFields
<1>9. CASE l.block # 0
  <2>1. PICK b : b = l.block
    OBVIOUS
  <2>2. i = e.open /\ OpenBlock(e) = b
    BY <1>3, <1>5, <1>9, <2>1 DEF EncInv, LiveBlocks, OpenBlock, Places
  <2>3. IsEnc(s) /\ ClientAt(s.client, "body", b, k)
    BY <1>3, <1>4, <1>8, <2>2
  <2>4. PICK q : q = l.payload
    OBVIOUS
  <2>5. PICK c : TerminalSuffix(s, b, q, n) = SetClient(s, c) /\ ClientAt(c, "body", b, k)
    BY ONLY <2>3, SuffixReads
  <2>6. PICK v : v = SetClient(s, c)
    OBVIOUS
  <2>7. IsEnc(v) /\ v.client = c
    BY <2>3, <2>6, ClientSet
  <2>8. PICK r : r = [v EXCEPT !.client = OnBlockStop(c, b)]
    OBVIOUS
  <2>9. RemainingNode(out, a, i) = r
    BY <1>2, <1>7, <1>9, <2>1, <2>4, <2>5, <2>6, <2>7, <2>8 DEF RemainingNode
  <2>10. /\ IsEnc(r) /\ r.sent = TRUE /\ r.next = a.next /\ r.blocks = k /\ r.live = K
         /\ r.pending = a.pending /\ r.client = OnBlockStop(c, b)
    BY <1>8, <2>6, <2>8 DEF IsEnc, EncFields, SetClient
  <2>11. ClientAt(r.client, "body", 0, k)
    BY <2>5, <2>10, ClientCloses
  <2> QED
    BY <1>1, <1>2, <1>4, <1>6, <2>2, <2>9, <2>10, <2>11 DEF RemGood
<1>10. CASE l.block = 0
  <2>1. i # e.open
    BY <1>3, <1>5, <1>10 DEF EncInv, LiveBlocks, Places
  <2>2. PICK P : P = With(a.pending, i, MergeTerminal(l.payload, n))
    OBVIOUS
  <2>3. DOMAIN P = DOMAIN a.pending \union {i}
    BY <2>2 DEF With
  <2>4. PICK r : r = [s EXCEPT !.pending = P]
    OBVIOUS
  <2>5. RemainingNode(out, a, i) = r
    BY <1>2, <1>7, <1>8, <1>10, <2>2, <2>4 DEF RemainingNode
  <2>6. /\ IsEnc(r) /\ r.sent = TRUE /\ r.next = a.next /\ r.blocks = k /\ r.live = K
        /\ r.pending = P /\ r.client = a.client
    BY <1>8, <2>4 DEF IsEnc, EncFields
  <2>7. ClientAt(r.client, "body", IF e.open \in T \union {i} THEN 0 ELSE OpenBlock(e), k)
    BY <1>4, <2>1, <2>6
  <2> QED
    BY <1>1, <1>2, <1>4, <1>6, <2>3, <2>5, <2>6, <2>7 DEF RemGood
<1> QED
  BY <1>9, <1>10

LEMMA RemAll ==
  ASSUME NEW m \in Nat, NEW p, EncInv(p.enc, m), p.enc.sent = TRUE
  PROVE  RemGood(p, DOMAIN p.enc.live, RemainingLiveNodeBlocks(p.enc, p.out))
<1>1. PICK S : S = DOMAIN p.enc.live
  OBVIOUS
<1>2. S \subseteq 0 .. m
  BY <1>1 DEF EncInv, Places
<1>3. RemGood(p, {}, p.enc)
  BY DEF RemGood, EncInv, InStep, Counters
<1>4. \A T \in SUBSET S : \A x \in S \ T : \A a :
        RemGood(p, T, a) /\ (\A y \in T : y < x) => RemGood(p, T \union {x}, RemStep(p, a, x))
  BY <1>1, RemKeeps DEF RemStep
<1>5. RemGood(p, S, Rem!Loop(p, p.enc, S))
  BY <1>2, <1>3, <1>4, Rem!LoopInvariant
<1> QED
  BY <1>1, <1>5, RemLoop

(* Then the nodes of a surface of which nothing was sent.                  *)
FallStep(p, a, i) ==
  LET q == BlockFromNode(p.out[i])
  IN  IF q = NoBlock \/ Surface(q.kind) \in p.enc.surfaces THEN a ELSE EmitBlock(a, q)

FallGood(p, T, a) == IsEnc(a) /\ Idle(a)

Fall == INSTANCE FoldTheorems WITH Op <- FallStep, Good <- FallGood

LEMMA FallLoop ==
  ASSUME NEW p
  PROVE  Fallback(p.enc, p.out) = Fall!Loop(p, p.enc, DOMAIN p.out)
BY DEF Fallback, FoldLeft, Fall!Loop, MapThenFoldSet, Fall!MapThenFoldSet, Max, Fall!Max, FallStep

LEMMA EmitIdle ==
  ASSUME NEW a, IsEnc(a), Idle(a), NEW q
  PROVE  IsEnc(EmitBlock(a, q)) /\ Idle(EmitBlock(a, q))
<1>1. PICK c : /\ EmitBlock(a, q) = [SetClient(a, c) EXCEPT !.blocks = a.blocks + 1]
               /\ ClientAt(c, "body", 0, a.blocks + 1)
  BY BlockReads DEF Idle
<1>2. PICK r : r = [SetClient(a, c) EXCEPT !.blocks = a.blocks + 1]
  OBVIOUS
<1>3. IsEnc(r) /\ r.client = c /\ r.sent = TRUE /\ r.blocks = a.blocks + 1
  BY <1>2 DEF IsEnc, EncFields, SetClient, Idle
<1>4. r.blocks \in Nat
  BY <1>3 DEF Idle
<1>5. Idle(r)
  BY <1>1, <1>3, <1>4 DEF Idle
<1> QED
  BY <1>1, <1>2, <1>3, <1>5

LEMMA FallAll ==
  ASSUME NEW p, NEW k \in Nat, DOMAIN p.out = 1 .. k, IsEnc(p.enc), Idle(p.enc)
  PROVE  IsEnc(Fallback(p.enc, p.out)) /\ Idle(Fallback(p.enc, p.out))
<1>1. PICK S : S = DOMAIN p.out
  OBVIOUS
<1>2. S \subseteq 0 .. k
  BY <1>1
<1>3. FallGood(p, {}, p.enc)
  BY DEF FallGood
<1>4. ASSUME NEW T \in SUBSET S, NEW x \in S \ T, NEW a, FallGood(p, T, a)
      PROVE  FallGood(p, T \union {x}, FallStep(p, a, x))
  <2>1. PICK q : q = BlockFromNode(p.out[x])
    OBVIOUS
  <2>2. FallStep(p, a, x) = a \/ FallStep(p, a, x) = EmitBlock(a, q)
    BY <2>1 DEF FallStep
  <2> QED
    BY <1>4, <2>2, EmitIdle DEF FallGood
<1>5. \A T \in SUBSET S : \A x \in S \ T : \A a :
        FallGood(p, T, a) /\ (\A y \in T : y < x) => FallGood(p, T \union {x}, FallStep(p, a, x))
  BY <1>4
<1>6. FallGood(p, S, Fall!Loop(p, p.enc, S))
  BY <1>2, <1>3, <1>5, Fall!LoopInvariant
<1> QED
  BY <1>1, <1>6, FallLoop DEF FallGood

(* The answer ends with message_stop, or nothing has been sent of it.      *)
LEMMA FinishStops ==
  ASSUME NEW m \in Nat, NEW e, EncInv(e, m), NEW k \in Nat, NEW out, DOMAIN out = 1 .. k
  PROVE  \/ OnResponseDone(e, out) = e /\ ~e.sent
         \/ OnResponseDone(e, out).client.st = "stopped"
<1> DEFINE wanted == \/ e.wanted \/ DOMAIN e.pending # {} \/ DOMAIN e.live # {}
                     \/ \E j \in DOMAIN out : BlockFromNode(out[j]) # NoBlock
<1>1. CASE ~wanted /\ ~e.sent
  BY <1>1 DEF OnResponseDone
<1>2. CASE wanted \/ e.sent
  <2>1. PICK v : v = EnsureMessageStart(e)
    OBVIOUS
  <2>2. PICK u : u = [v EXCEPT !.wanted = wanted]
    OBVIOUS
  <2>3. EncInv(v, m) /\ v.sent = TRUE /\ \A j \in EncFields \ {"sent", "client"} : v[j] = e[j]
    BY <2>1, StartMessage
  <2>4. /\ IsEnc(u) /\ u.client = v.client /\ u.live = v.live /\ u.sent = TRUE /\ u.blocks = v.blocks
        /\ u.pending = v.pending /\ u.open = v.open /\ u.next = v.next /\ u.absorbed = v.absorbed
    <3> HIDE DEF wanted
    <3> QED
      BY <2>2, <2>3 DEF EncInv, IsEnc, EncFields
  <2>5. EncInv(u, m) /\ u.live = e.live
    <3>1. EncInv(u, m)
      BY <2>3, <2>4, SameState
    <3>2. v.live = e.live
      BY <2>3 DEF EncFields
    <3> QED
      BY <2>4, <3>1, <3>2
  <2>6. PICK p : p = [out |-> out, enc |-> u]
    OBVIOUS
  <2>7. p.out = out /\ p.enc = u
    BY <2>6
  <2>8. PICK r : r = RemainingLiveNodeBlocks(u, out)
    OBVIOUS
  <2>9. RemGood(p, DOMAIN p.enc.live, r)
    BY <2>4, <2>5, <2>7, <2>8, RemAll
  <2>10. IsEnc(r) /\ Idle(r) /\ r.next \in Nat /\ DOMAIN r.pending \subseteq 0 .. m
    <3>1. u.open # 0 => u.open \in DOMAIN u.live
      BY <2>5 DEF EncInv, LiveBlocks
    <3>2. ClientAt(r.client, "body", 0, u.blocks)
      BY <2>7, <2>9, <3>1 DEF RemGood, OpenBlock
    <3>3. DOMAIN r.pending \subseteq DOMAIN u.pending \union DOMAIN u.live
      BY <2>7, <2>9 DEF RemGood
    <3>4. DOMAIN u.pending \subseteq 1 .. m /\ DOMAIN u.live \subseteq 1 .. m /\ u.blocks \in Nat
      BY <2>5 DEF EncInv, Places, Counters
    <3> QED
      BY <2>7, <2>9, <3>2, <3>3, <3>4 DEF RemGood, Idle
  <2>11. PICK w : w = FlushAllRemaining(r)
    OBVIOUS
  <2>12. IsEnc(w) /\ Idle(w)
    <3>1. w = FoldAscending(EmitPending, r, DOMAIN r.pending)
      BY <2>11 DEF FlushAllRemaining
    <3>2. EmitGood(r, DOMAIN r.pending, w)
      BY <2>10, <3>1, EmitAll
    <3> QED
      BY <3>2 DEF EmitGood
  <2>13. PICK q : q = [out |-> out, enc |-> w]
    OBVIOUS
  <2>14. q.out = out /\ q.enc = w
    BY <2>13
  <2>15. PICK f : f = Fallback(w, out)
    OBVIOUS
  <2>16. IsEnc(f) /\ Idle(f)
    BY <2>12, <2>14, <2>15, FallAll
  <2>17. PICK z : z = [f EXCEPT !.client = OnMessageStop(f.client), !.over = TRUE]
    OBVIOUS
  <2>18. z.client = OnMessageStop(f.client)
    BY <2>16, <2>17 DEF IsEnc, EncFields
  <2>19. OnMessageStop(f.client).st = "stopped"
    BY <2>16 DEF Idle, ClientAt, OnMessageStop
  <2>20. OnResponseDone(e, out) = z
    BY <1>2, <2>1, <2>2, <2>8, <2>11, <2>15, <2>17 DEF OnResponseDone
  <2> QED
    BY <2>18, <2>19, <2>20
<1> QED
  BY <1>1, <1>2

-----------------------------------------------------------------------------
(* Events on their way through the envelope stage to the encoder.          *)
IsNode(n) == DOMAIN n = {"kind", "text", "summary", "sig", "detail"}

IsEv(v) == DOMAIN v = {"ev", "i", "node", "marked", "out"} /\ IsNode(v.node)

EventStep(p, a, i) == EncodeEvent(a, p[i])

Anything(p, T, a) == TRUE

Event == INSTANCE FoldTheorems WITH Op <- EventStep, Good <- Anything

LEMMA EventLoop ==
  ASSUME NEW e, NEW p
  PROVE  EncodeAll(e, p) = Event!Loop(p, e, DOMAIN p)
BY DEF EncodeAll, FoldLeft, Event!Loop, MapThenFoldSet, Event!MapThenFoldSet, Max, Event!Max, EventStep

LEMMA EventsNone == ASSUME NEW e, NEW q, DOMAIN q = 1 .. 0 PROVE EncodeAll(e, q) = e
BY EventLoop, Event!LoopShort

LEMMA EventsOne ==
  ASSUME NEW e, NEW q, DOMAIN q = 1 .. 1 PROVE EncodeAll(e, q) = EncodeEvent(e, q[1])
BY EventLoop, Event!LoopShort DEF EventStep

LEMMA EventsTwo ==
  ASSUME NEW e, NEW q, DOMAIN q = 1 .. 2
  PROVE  EncodeAll(e, q) = EncodeEvent(EncodeEvent(e, q[1]), q[2])
BY EventLoop, Event!LoopShort DEF EventStep

(* An event of a node that has started.                                    *)
NodeEvent(e, v, m) ==
  /\ v.ev \in {"delta", "done"} /\ v.i \in 1 .. m
  /\ v.ev = "done" /\ v.node.kind \in Shown => e.sent

LEMMA EventKeeps ==
  ASSUME NEW m \in Nat, NEW e, EncInv(e, m), NEW v, NodeEvent(e, v, m)
  PROVE  EncInv(EncodeEvent(e, v), m) /\ EncodeEvent(e, v).sent = e.sent
<1>1. CASE v.ev = "delta"
  <2>1. EncodeEvent(e, v) = OnNodeDelta(e, v.i, DeltaOf(v))
    BY <1>1 DEF EncodeEvent
  <2> QED
    BY <2>1, DeltaKeeps
<1>2. CASE v.ev = "done"
  <2>1. EncodeEvent(e, v) = OnNodeDone(e, v.i, v.node)
    BY <1>2 DEF EncodeEvent
  <2> QED
    BY <1>2, <2>1, DoneKeeps DEF NodeEvent
<1> QED
  BY <1>1, <1>2 DEF NodeEvent

(* What the envelope stage makes of an event is about the same node.       *)
LEMMA Wrapped ==
  ASSUME NEW h, NEW v, IsEv(v)
  PROVE  \/ WrapEvent(h, v).out = << >> /\ v.ev = "delta"
         \/ \E w : /\ WrapEvent(h, v).out = <<w>>
                   /\ w.ev = v.ev /\ w.i = v.i /\ w.node.kind = v.node.kind /\ DOMAIN w.out = DOMAIN v.out
         \/ \E w, z : /\ WrapEvent(h, v).out = <<w, z>> /\ v.ev = "done" /\ w.ev = "delta" /\ z.ev = "done"
                      /\ w.i = v.i /\ w.node.kind = v.node.kind /\ z.i = v.i /\ z.node.kind = v.node.kind
<1>1. CASE ~sealed
  BY <1>1 DEF WrapEvent
<1>2. CASE sealed /\ IsFragment(v)
  <2>1. WrapEvent(h, v).out = IF TerminalText(v.node) = <<>> THEN <<>> ELSE <<[v EXCEPT !.node.sig = <<>>]>>
    BY <1>2 DEF WrapEvent, HoldFragment
  <2>2. PICK w : w = [v EXCEPT !.node.sig = <<>>]
    OBVIOUS
  <2>3. w.ev = v.ev /\ w.i = v.i /\ w.node.kind = v.node.kind /\ w.out = v.out
    BY <2>2 DEF IsEv, IsNode
  <2>4. v.ev = "delta"
    BY <1>2 DEF IsFragment
  <2> QED
    BY <2>1, <2>2, <2>3, <2>4
<1>3. CASE sealed /\ ~IsFragment(v) /\ v.ev = "done" /\ v.i \in DOMAIN h
  <2>1. PICK g : g = [v.node EXCEPT !.sig = IF @ # <<>> THEN @ ELSE h[v.i]]
    OBVIOUS
  <2>2. PICK n : n = SealedNode(g)
    OBVIOUS
  <2>3. n.kind = v.node.kind
    BY <2>1, <2>2 DEF SealedNode, IsEv, IsNode
  <2>4. WrapEvent(h, v).out = <<Ev("delta", v.i, [Header(n) EXCEPT !.sig = n.sig], FALSE), NodeDoneEv(v.i, n)>>
    BY <1>3, <2>1, <2>2 DEF WrapEvent, ReleaseFragments
  <2>5. PICK w, z : w = Ev("delta", v.i, [Header(n) EXCEPT !.sig = n.sig], FALSE) /\ z = NodeDoneEv(v.i, n)
    OBVIOUS
  <2>6. w.ev = "delta" /\ w.i = v.i /\ w.node.kind = n.kind
    BY <2>5 DEF Ev, Header, NoNode
  <2>7. z.ev = "done" /\ z.i = v.i /\ z.node.kind = n.kind
    BY <2>5 DEF NodeDoneEv, Ev
  <2> QED
    BY <1>3, <2>3, <2>4, <2>5, <2>6, <2>7
<1>4. CASE sealed /\ ~IsFragment(v) /\ ~(v.ev = "done" /\ v.i \in DOMAIN h)
  <2>1. PICK n, o : n = SealedNode(v.node) /\ o = [k \in DOMAIN v.out |-> SealedNode(v.out[k])]
    OBVIOUS
  <2>2. PICK w : w = [v EXCEPT !.node = n, !.out = o]
    OBVIOUS
  <2>3. WrapEvent(h, v).out = <<w>>
    BY <1>4, <2>1, <2>2 DEF WrapEvent, SealEvent
  <2>4. w.ev = v.ev /\ w.i = v.i /\ w.node = n /\ w.out = o
    BY <2>2 DEF IsEv
  <2>5. n.kind = v.node.kind /\ DOMAIN o = DOMAIN v.out
    BY <2>1 DEF SealedNode, IsEv, IsNode
  <2> QED
    BY <2>3, <2>4, <2>5
<1> QED
  BY <1>1, <1>2, <1>3, <1>4

LEMMA Passed ==
  ASSUME NEW s, NEW v, IsEv(v)
  PROVE  \/ PassOn(s, v).enc = s.enc /\ v.ev = "delta"
         \/ \E w : /\ PassOn(s, v).enc = EncodeEvent(s.enc, w)
                   /\ w.ev = v.ev /\ w.i = v.i /\ w.node.kind = v.node.kind /\ DOMAIN w.out = DOMAIN v.out
         \/ \E w, z : /\ PassOn(s, v).enc = EncodeEvent(EncodeEvent(s.enc, w), z)
                      /\ v.ev = "done" /\ w.ev = "delta" /\ z.ev = "done"
                      /\ w.i = v.i /\ w.node.kind = v.node.kind /\ z.i = v.i /\ z.node.kind = v.node.kind
<1>1. PICK e, o : e = s.enc /\ o = WrapEvent(s.held, v).out
  OBVIOUS
<1>2. PassOn(s, v).enc = EncodeAll(e, o)
  BY <1>1 DEF PassOn
<1>3. PICK h : h = s.held
  OBVIOUS
<1>4. \/ o = << >> /\ v.ev = "delta"
      \/ \E w : /\ o = <<w>>
                /\ w.ev = v.ev /\ w.i = v.i /\ w.node.kind = v.node.kind /\ DOMAIN w.out = DOMAIN v.out
      \/ \E w, z : /\ o = <<w, z>> /\ v.ev = "done" /\ w.ev = "delta" /\ z.ev = "done"
                   /\ w.i = v.i /\ w.node.kind = v.node.kind /\ z.i = v.i /\ z.node.kind = v.node.kind
  BY <1>1, <1>3, Wrapped
<1>5. CASE o = << >> /\ v.ev = "delta"
  <2>1. DOMAIN o = 1 .. 0
    BY <1>5
  <2> QED
    BY <1>1, <1>2, <1>5, <2>1, EventsNone
<1>6. ASSUME NEW w, o = <<w>>, w.ev = v.ev, w.i = v.i, w.node.kind = v.node.kind, DOMAIN w.out = DOMAIN v.out
      PROVE  \E u : /\ PassOn(s, v).enc = EncodeEvent(s.enc, u)
                    /\ u.ev = v.ev /\ u.i = v.i /\ u.node.kind = v.node.kind /\ DOMAIN u.out = DOMAIN v.out
  <2>1. DOMAIN o = 1 .. 1 /\ o[1] = w
    BY <1>6
  <2>2. PassOn(s, v).enc = EncodeEvent(s.enc, w)
    BY <1>1, <1>2, <2>1, EventsOne
  <2> QED
    BY <1>6, <2>2
<1>7. ASSUME NEW w, NEW z, o = <<w, z>>, v.ev = "done", w.ev = "delta", z.ev = "done",
             w.i = v.i, w.node.kind = v.node.kind, z.i = v.i, z.node.kind = v.node.kind
      PROVE  \E u, x : /\ PassOn(s, v).enc = EncodeEvent(EncodeEvent(s.enc, u), x)
                       /\ v.ev = "done" /\ u.ev = "delta" /\ x.ev = "done"
                       /\ u.i = v.i /\ u.node.kind = v.node.kind /\ x.i = v.i /\ x.node.kind = v.node.kind
  <2>1. DOMAIN o = 1 .. 2 /\ o[1] = w /\ o[2] = z
    BY <1>7
  <2>2. PassOn(s, v).enc = EncodeEvent(EncodeEvent(s.enc, w), z)
    BY <1>1, <1>2, <2>1, EventsTwo
  <2> QED
    BY <1>7, <2>2
<1> QED
  BY <1>4, <1>5, <1>6, <1>7

LEMMA PassKeeps ==
  ASSUME NEW m \in Nat, NEW s, EncInv(s.enc, m), NEW v, IsEv(v), NodeEvent(s.enc, v, m)
  PROVE  EncInv(PassOn(s, v).enc, m) /\ PassOn(s, v).enc.sent = s.enc.sent
<1>1. PICK e : e = s.enc
  OBVIOUS
<1>2. EncInv(e, m) /\ NodeEvent(e, v, m)
  BY <1>1
<1>3. CASE PassOn(s, v).enc = s.enc
  BY <1>3
<1>4. ASSUME NEW w, PassOn(s, v).enc = EncodeEvent(s.enc, w),
             w.ev = v.ev, w.i = v.i, w.node.kind = v.node.kind
      PROVE  EncInv(PassOn(s, v).enc, m) /\ PassOn(s, v).enc.sent = s.enc.sent
  <2>1. NodeEvent(e, w, m)
    BY <1>2, <1>4 DEF NodeEvent
  <2> QED
    BY <1>1, <1>2, <1>4, <2>1, EventKeeps
<1>5. ASSUME NEW w, NEW z, PassOn(s, v).enc = EncodeEvent(EncodeEvent(s.enc, w), z),
             v.ev = "done", w.ev = "delta", z.ev = "done",
             w.i = v.i, w.node.kind = v.node.kind, z.i = v.i, z.node.kind = v.node.kind
      PROVE  EncInv(PassOn(s, v).enc, m) /\ PassOn(s, v).enc.sent = s.enc.sent
  <2>1. NodeEvent(e, w, m)
    BY <1>2, <1>5 DEF NodeEvent
  <2>2. PICK f : f = EncodeEvent(e, w)
    OBVIOUS
  <2>3. EncInv(f, m) /\ f.sent = e.sent
    BY <1>2, <2>1, <2>2, EventKeeps
  <2>4. NodeEvent(f, z, m)
    BY <1>2, <1>5, <2>3 DEF NodeEvent
  <2>5. EncInv(EncodeEvent(f, z), m) /\ EncodeEvent(f, z).sent = f.sent
    BY <2>3, <2>4, EventKeeps
  <2> QED
    BY <1>1, <1>5, <2>2, <2>3, <2>5
<1> QED
  BY <1>3, <1>4, <1>5, Passed

LEMMA PassStart ==
  ASSUME NEW m \in Nat, NEW s, EncInv(s.enc, m), NEW v, IsEv(v), v.ev = "start", v.i = m + 1
  PROVE  /\ EncInv(PassOn(s, v).enc, m + 1)
         /\ s.enc.sent \/ v.node.kind \in Shown => PassOn(s, v).enc.sent = TRUE
<1>1. PICK w : /\ PassOn(s, v).enc = EncodeEvent(s.enc, w)
               /\ w.ev = v.ev /\ w.i = v.i /\ w.node.kind = v.node.kind
  BY Passed
<1>2. PICK e, n : e = s.enc /\ n = w.node
  OBVIOUS
<1>3. PassOn(s, v).enc = OnNodeStart(e, m + 1, n)
  BY <1>1, <1>2 DEF EncodeEvent
<1>4. EncInv(e, m)
  BY <1>2
<1> QED
  BY <1>1, <1>2, <1>3, <1>4, StartKeeps

LEMMA PassFinish ==
  ASSUME NEW m \in Nat, NEW s, EncInv(s.enc, m), NEW v, IsEv(v), v.ev = "finish",
         NEW k \in Nat, DOMAIN v.out = 1 .. k
  PROVE  \/ PassOn(s, v).enc = s.enc /\ ~s.enc.sent
         \/ PassOn(s, v).enc.client.st = "stopped"
<1>1. PICK w : /\ PassOn(s, v).enc = EncodeEvent(s.enc, w)
               /\ w.ev = v.ev /\ DOMAIN w.out = DOMAIN v.out
  BY Passed
<1>2. PICK e, o : e = s.enc /\ o = w.out
  OBVIOUS
<1>3. PassOn(s, v).enc = OnResponseDone(e, o)
  BY <1>1, <1>2 DEF EncodeEvent
<1>4. EncInv(e, m) /\ DOMAIN o = 1 .. k
  BY <1>1, <1>2
<1> QED
  BY <1>2, <1>3, <1>4, FinishStops

LEMMA ErrorRead ==
  ASSUME NEW m \in Nat, NEW e, EncInv(e, m)
  PROVE  /\ OnError(e.client).st = "error"
         /\ OnStreamError(e).client.st = "error"
<1>1. \A c : \A st, at, n : ClientAt(c, st, at, n) /\ st \in {"new", "body"} => OnError(c).st = "error"
  BY DEF ClientAt, OnError
<1>2. PICK c : c = OnError(EnsureMessageStart(e).client)
  OBVIOUS
<1>3. OnStreamError(e).client = c
  BY <1>2 DEF OnStreamError, Returned, NewEncoder
<1>4. EncInv(EnsureMessageStart(e), m)
  BY StartMessage
<1> QED
  BY <1>1, <1>2, <1>3, <1>4 DEF EncInv, InStep

LEMMA PassError ==
  ASSUME NEW m \in Nat, NEW s, EncInv(s.enc, m), NEW v, IsEv(v), v.ev = "error"
  PROVE  PassOn(s, v).enc.client.st = "error"
<1>1. PICK w : PassOn(s, v).enc = EncodeEvent(s.enc, w) /\ w.ev = v.ev
  BY Passed
<1>2. PassOn(s, v).enc = OnStreamError(s.enc)
  BY <1>1 DEF EncodeEvent
<1> QED
  BY <1>2, ErrorRead

-----------------------------------------------------------------------------
(* The events of one frame, one after the other.                           *)
PassStep(p, s, i) == PassOn(s, p.ev[i])

PassGood(p, T, s) == EncInv(s.enc, p.m) /\ s.enc.sent = p.sent

Pass == INSTANCE FoldTheorems WITH Op <- PassStep, Good <- PassGood

LEMMA PassLoop ==
  ASSUME NEW s, NEW p
  PROVE  PassAll(s, p.ev) = Pass!Loop(p, s, DOMAIN p.ev)
BY DEF PassAll, FoldLeft, Pass!Loop, MapThenFoldSet, Pass!MapThenFoldSet, Max, Pass!Max, PassStep

LEMMA PassFew ==
  ASSUME NEW s, NEW q
  PROVE  /\ DOMAIN q = 1 .. 1 => PassAll(s, q) = PassOn(s, q[1])
         /\ DOMAIN q = 1 .. 2 => PassAll(s, q) = PassOn(PassOn(s, q[1]), q[2])
<1>1. PICK p : p = [ev |-> q]
  OBVIOUS
<1>2. p.ev = q
  BY <1>1
<1>3. DOMAIN q = 1 .. 1 => PassAll(s, q) = PassOn(s, q[1])
  BY <1>2, PassLoop, Pass!LoopShort DEF PassStep
<1>4. DOMAIN q = 1 .. 2 => PassAll(s, q) = PassOn(PassOn(s, q[1]), q[2])
  BY <1>2, PassLoop, Pass!LoopShort DEF PassStep
<1> QED
  BY <1>3, <1>4

LEMMA PassMany ==
  ASSUME NEW m \in Nat, NEW s, EncInv(s.enc, m), NEW n \in Nat, NEW q, DOMAIN q = 1 .. (n + 1),
         \A i \in 1 .. n : IsEv(q[i]) /\ NodeEvent(s.enc, q[i], m)
  PROVE  \E t : /\ PassAll(s, q) = PassOn(t, q[n + 1])
                /\ EncInv(t.enc, m) /\ t.enc.sent = s.enc.sent
<1>1. PICK p : p = [ev |-> q, m |-> m, sent |-> s.enc.sent]
  OBVIOUS
<1>2. p.ev = q /\ p.m = m /\ p.sent = s.enc.sent
  BY <1>1
<1>3. PICK t : t = Pass!Loop(p, s, 1 .. n)
  OBVIOUS
<1>4. PassAll(s, q) = PassOn(t, q[n + 1])
  <2>1. PassAll(s, q) = Pass!Loop(p, s, 1 .. (n + 1))
    BY <1>2, PassLoop
  <2>2. Pass!Loop(p, s, 1 .. (n + 1)) = PassStep(p, Pass!Loop(p, s, 1 .. n), n + 1)
    BY Pass!LoopTo
  <2> QED
    BY <1>2, <1>3, <2>1, <2>2 DEF PassStep
<1>5. PassGood(p, {}, s)
  BY <1>2 DEF PassGood
<1>6. ASSUME NEW T, NEW x \in 1 .. n, NEW a, PassGood(p, T, a)
      PROVE  PassGood(p, T \union {x}, PassStep(p, a, x))
  <2>1. PICK v : v = q[x]
    OBVIOUS
  <2>2. EncInv(a.enc, m) /\ a.enc.sent = s.enc.sent /\ IsEv(v)
    BY <1>2, <1>6, <2>1 DEF PassGood
  <2>3. NodeEvent(a.enc, v, m)
    BY <2>1, <2>2 DEF NodeEvent
  <2>4. EncInv(PassOn(a, v).enc, m) /\ PassOn(a, v).enc.sent = a.enc.sent
    BY <2>2, <2>3, PassKeeps
  <2> QED
    BY <1>2, <2>1, <2>2, <2>4 DEF PassGood, PassStep
<1>7. PICK S : S = 1 .. n
  OBVIOUS
<1>8. S \subseteq 0 .. n
  BY <1>7
<1>9. \A T \in SUBSET S : \A x \in S \ T : \A a :
        PassGood(p, T, a) /\ (\A y \in T : y < x) => PassGood(p, T \union {x}, PassStep(p, a, x))
  BY <1>6, <1>7
<1>10. PassGood(p, S, Pass!Loop(p, s, S))
  BY <1>5, <1>8, <1>9, Pass!LoopInvariant
<1>11. EncInv(t.enc, m) /\ t.enc.sent = s.enc.sent
  BY <1>2, <1>3, <1>7, <1>10 DEF PassGood
<1> QED
  BY <1>4, <1>11

-----------------------------------------------------------------------------
(* The nodes of the decoder.                                               *)
NodesOk(ns) == IsSeq(ns) /\ \A i \in DOMAIN ns : IsNode(ns[i])

ShownIn(ns) == {i \in DOMAIN ns : ns[i].kind \in Shown}

LEMMA NodeAdded ==
  ASSUME NEW ns, NodesOk(ns), NEW n, IsNode(n)
  PROVE  /\ NodesOk(Append(ns, n)) /\ Len(Append(ns, n)) = Len(ns) + 1 /\ Len(ns) \in Nat
         /\ ShownIn(Append(ns, n)) # {} <=> (ShownIn(ns) # {} \/ n.kind \in Shown)
         /\ Append(ns, n)[Len(ns) + 1] = n
<1>1. PICK t : t = Append(ns, n)
  OBVIOUS
<1>2. IsSeq(t) /\ Len(t) = Len(ns) + 1
  BY <1>1, SeqAppended DEF NodesOk
<1>3. Len(ns) \in Nat /\ DOMAIN ns = 1 .. Len(ns) /\ DOMAIN t = 1 .. (Len(ns) + 1)
  BY <1>2, SeqDomain DEF NodesOk
<1>4. t[Len(ns) + 1] = n /\ \A i \in 1 .. Len(ns) : t[i] = ns[i]
  <2>1. ns \in Seq({ns[k] : k \in DOMAIN ns} \union {n}) /\ n \in {ns[k] : k \in DOMAIN ns} \union {n}
    BY DEF NodesOk, IsSeq
  <2> QED
    BY <1>1, <2>1, AppendProperties
<1>5. NodesOk(t)
  <2>1. \A i \in DOMAIN t : IsNode(t[i])
    BY <1>3, <1>4 DEF NodesOk
  <2> QED
    BY <1>2, <2>1 DEF NodesOk
<1>6. ShownIn(t) # {} <=> (ShownIn(ns) # {} \/ n.kind \in Shown)
  BY <1>3, <1>4 DEF ShownIn
<1> QED
  BY <1>1, <1>2, <1>3, <1>4, <1>5, <1>6

LEMMA NodeChanged ==
  ASSUME NEW ns, NodesOk(ns), NEW i, i \in DOMAIN ns, NEW n, IsNode(n), n.kind = ns[i].kind
  PROVE  /\ NodesOk([ns EXCEPT ![i] = n]) /\ Len([ns EXCEPT ![i] = n]) = Len(ns)
         /\ ShownIn([ns EXCEPT ![i] = n]) = ShownIn(ns)
<1>1. PICK t : t = [ns EXCEPT ![i] = n]
  OBVIOUS
<1>2. IsSeq(t) /\ Len(t) = Len(ns)
  BY <1>1, SeqUpdated DEF NodesOk
<1>3. DOMAIN t = DOMAIN ns /\ t[i] = n /\ \A j \in DOMAIN ns : j # i => t[j] = ns[j]
  BY <1>1
<1>4. \A j \in DOMAIN ns : IsNode(t[j]) /\ t[j].kind = ns[j].kind
  BY <1>3 DEF NodesOk
<1>5. ShownIn(t) = ShownIn(ns)
  BY <1>3, <1>4 DEF ShownIn
<1> QED
  BY <1>1, <1>2, <1>3, <1>4, <1>5 DEF NodesOk

-----------------------------------------------------------------------------
(* The decoder knows nodes it has started, and the encoder has begun the   *)
(* message when one of them is shown.                                      *)
DecOk(d) ==
  /\ DOMAIN d = {"st", "nodes", "frags", "textAt", "reasonAt", "active", "completed"}
  /\ NodesOk(d.nodes)
  /\ d.textAt \in 0 .. Len(d.nodes) /\ d.reasonAt \in 0 .. Len(d.nodes)
  /\ d.active \subseteq 1 .. Len(d.nodes) /\ d.completed \subseteq 1 .. Len(d.nodes)

Ahead(d, e) == EncInv(e, Len(d.nodes)) /\ (ShownIn(d.nodes) # {} => e.sent)

StreamInv ==
  /\ DecOk(dec)
  /\ dec.st = "reading" => Ahead(dec, enc)
  /\ dec.st # "reading" => \/ enc.client.st \in {"stopped", "error"}
                           \/ ShownIn(dec.nodes) = {} /\ enc.client.st = "new"

LEMMA StreamInvHolds == StreamInv => StreamWellFormed
<1> SUFFICES ASSUME StreamInv PROVE StreamWellFormed
  OBVIOUS
<1>1. Visible = ShownIn(dec.nodes)
  BY DEF Visible, ShownIn
<1>2. CASE dec.st = "reading"
  BY <1>2 DEF StreamInv, Ahead, EncInv, InStep, ClientAt, StreamWellFormed, client
<1>3. CASE dec.st # "reading"
  BY <1>1, <1>3 DEF StreamInv, StreamWellFormed, client
<1> QED
  BY <1>2, <1>3

(* A frame that starts node n, one that adds to it, and one that does both. *)
LEMMA FrameStarts ==
  ASSUME NEW m \in Nat, NEW s, EncInv(s.enc, m), NEW q, DOMAIN q = 1 .. 1,
         IsEv(q[1]), q[1].ev = "start", q[1].i = m + 1
  PROVE  /\ EncInv(PassAll(s, q).enc, m + 1)
         /\ s.enc.sent \/ q[1].node.kind \in Shown => PassAll(s, q).enc.sent = TRUE
<1>1. PICK v : v = q[1]
  OBVIOUS
<1>2. EncInv(PassOn(s, v).enc, m + 1) /\ (s.enc.sent \/ v.node.kind \in Shown => PassOn(s, v).enc.sent = TRUE)
  BY <1>1, PassStart
<1>3. PassAll(s, q) = PassOn(s, v)
  BY <1>1, PassFew
<1> QED
  BY <1>1, <1>2, <1>3

LEMMA FrameAdds ==
  ASSUME NEW m \in Nat, NEW s, EncInv(s.enc, m), NEW q, DOMAIN q = 1 .. 1,
         IsEv(q[1]), NodeEvent(s.enc, q[1], m)
  PROVE  EncInv(PassAll(s, q).enc, m) /\ PassAll(s, q).enc.sent = s.enc.sent
BY PassFew, PassKeeps

LEMMA FrameStartsAndAdds ==
  ASSUME NEW m \in Nat, NEW s, EncInv(s.enc, m), NEW q, DOMAIN q = 1 .. 2,
         IsEv(q[1]), q[1].ev = "start", q[1].i = m + 1,
         IsEv(q[2]), q[2].ev = "delta", q[2].i = m + 1
  PROVE  /\ EncInv(PassAll(s, q).enc, m + 1)
         /\ s.enc.sent \/ q[1].node.kind \in Shown => PassAll(s, q).enc.sent = TRUE
<1>1. PICK v, w, t : v = q[1] /\ w = q[2] /\ t = PassOn(s, v)
  OBVIOUS
<1>2. EncInv(t.enc, m + 1) /\ (s.enc.sent \/ v.node.kind \in Shown => t.enc.sent = TRUE)
  BY <1>1, PassStart
<1>3. IsEv(w) /\ NodeEvent(t.enc, w, m + 1) /\ m + 1 \in Nat
  BY <1>1 DEF NodeEvent
<1>4. EncInv(PassOn(t, w).enc, m + 1) /\ PassOn(t, w).enc.sent = t.enc.sent
  BY <1>2, <1>3, PassKeeps
<1>5. PassAll(s, q) = PassOn(t, w)
  BY <1>1, PassFew
<1> QED
  BY <1>1, <1>2, <1>4, <1>5

(* What a reading step has to show.                                        *)
LEMMA ReadKeeps ==
  ASSUME NEW d, NEW events, Decode(d, events), DecOk(d), d.st = "reading",
         Ahead(d, PassAll([held |-> held, enc |-> enc], events).enc)
  PROVE  StreamInv'
<1>1. dec' = d /\ enc' = PassAll([held |-> held, enc |-> enc], events).enc
  BY DEF Decode
<1>2. DecOk(dec') /\ dec'.st = "reading" /\ Ahead(dec', enc')
  BY <1>1
<1> QED
  BY <1>2 DEF StreamInv

LEMMA EndKeeps ==
  ASSUME NEW d, NEW events, Decode(d, events), DecOk(d), d.st # "reading",
         LET e == PassAll([held |-> held, enc |-> enc], events).enc
         IN  e.client.st \in {"stopped", "error"} \/ (ShownIn(d.nodes) = {} /\ e.client.st = "new")
  PROVE  StreamInv'
<1>1. dec' = d /\ enc' = PassAll([held |-> held, enc |-> enc], events).enc
  BY DEF Decode
<1> QED
  BY <1>1 DEF StreamInv

(* The events the decoders send.                                           *)
LEMMA EventForms ==
  ASSUME NEW k, NEW i, NEW n, IsNode(n), NEW marked, NEW v, v = Ev(k, i, n, marked)
  PROVE  IsEv(v) /\ v.ev = k /\ v.i = i /\ v.node = n
BY DEF Ev, IsEv

LEMMA StartForm ==
  ASSUME NEW i, NEW n, NEW v, v = NodeStartEv(i, n)
  PROVE  IsEv(v) /\ v.ev = "start" /\ v.i = i /\ v.node.kind = n.kind
<1>1. PICK h : h = Header(n)
  OBVIOUS
<1>2. IsNode(h) /\ h.kind = n.kind
  BY <1>1 DEF Header, NoNode, IsNode
<1>3. PICK f : f = FALSE
  OBVIOUS
<1>4. v = Ev("start", i, h, f)
  BY <1>1, <1>3 DEF NodeStartEv
<1> QED
  BY <1>2, <1>4, EventForms

LEMMA DeltaForm ==
  ASSUME NEW i, NEW n, NEW field, NEW frag, NEW marked, NEW v, v = NodeDeltaEv(i, n, field, frag, marked)
  PROVE  IsEv(v) /\ v.ev = "delta" /\ v.i = i
<1>1. PICK h : h = Header(n)
  OBVIOUS
<1>2. PICK g : g = [h EXCEPT ![field] = <<frag>>]
  OBVIOUS
<1>3. IsNode(g)
  BY <1>1, <1>2 DEF Header, NoNode, IsNode
<1>4. v = Ev("delta", i, g, marked)
  BY <1>1, <1>2 DEF NodeDeltaEv
<1> QED
  BY <1>3, <1>4, EventForms

LEMMA DoneForm ==
  ASSUME NEW i, NEW n, IsNode(n), NEW v, v = NodeDoneEv(i, n)
  PROVE  IsEv(v) /\ v.ev = "done" /\ v.i = i /\ v.node = n
<1>1. PICK f : f = FALSE
  OBVIOUS
<1>2. v = Ev("done", i, n, f)
  BY <1>1 DEF NodeDoneEv
<1> QED
  BY <1>2, EventForms

LEMMA NewNodes ==
  ASSUME NEW kind, NEW detail
  PROVE  IsNode(NewNode(kind, detail)) /\ NewNode(kind, detail).kind = kind
BY DEF NewNode, NoNode, IsNode

(* A frame that starts node n of the answer.                               *)
LEMMA StartFrame ==
  ASSUME StreamInv, dec.st = "reading", NEW n, IsNode(n), NEW d, d.nodes = Append(dec.nodes, n),
         NEW v, IsEv(v), v.ev = "start", v.i = Size + 1, v.node.kind = n.kind
  PROVE  Ahead(d, PassAll([held |-> held, enc |-> enc], <<v>>).enc)
<1>1. PICK m, s, q : m = Size /\ s = [held |-> held, enc |-> enc] /\ q = <<v>>
  OBVIOUS
<1>2. s.enc = enc /\ DOMAIN q = 1 .. 1 /\ q[1] = v
  BY <1>1
<1>3. NodesOk(dec.nodes) /\ EncInv(enc, m) /\ (ShownIn(dec.nodes) # {} => enc.sent)
  BY <1>1 DEF StreamInv, DecOk, Ahead, Size
<1>4. m \in Nat /\ Len(d.nodes) = m + 1 /\ (ShownIn(d.nodes) # {} <=> (ShownIn(dec.nodes) # {} \/ n.kind \in Shown))
  BY <1>1, <1>3, NodeAdded DEF Size
<1>5. /\ EncInv(PassAll(s, q).enc, m + 1)
      /\ s.enc.sent \/ v.node.kind \in Shown => PassAll(s, q).enc.sent = TRUE
  BY <1>1, <1>2, <1>3, <1>4, FrameStarts
<1> QED
  BY <1>1, <1>2, <1>3, <1>4, <1>5 DEF Ahead

(* A frame about a node that has started, which keeps its kind.            *)
LEMMA NodeFrame ==
  ASSUME StreamInv, dec.st = "reading", NEW d, Len(d.nodes) = Size, ShownIn(d.nodes) = ShownIn(dec.nodes),
         NEW v, IsEv(v), v.ev \in {"delta", "done"}, v.i \in 1 .. Size,
         v.ev = "done" => v.node.kind = dec.nodes[v.i].kind
  PROVE  Ahead(d, PassAll([held |-> held, enc |-> enc], <<v>>).enc)
<1>1. PICK m, s, q : m = Size /\ s = [held |-> held, enc |-> enc] /\ q = <<v>>
  OBVIOUS
<1>2. s.enc = enc /\ DOMAIN q = 1 .. 1 /\ q[1] = v
  BY <1>1
<1>3. NodesOk(dec.nodes) /\ EncInv(enc, m) /\ (ShownIn(dec.nodes) # {} => enc.sent)
  BY <1>1 DEF StreamInv, DecOk, Ahead, Size
<1>4. m \in Nat /\ DOMAIN dec.nodes = 1 .. m
  BY <1>1, <1>3, SeqDomain DEF Size, NodesOk
<1>5. NodeEvent(enc, v, m)
  BY <1>1, <1>3, <1>4 DEF NodeEvent, ShownIn
<1>6. EncInv(PassAll(s, q).enc, m) /\ PassAll(s, q).enc.sent = s.enc.sent
  BY <1>1, <1>2, <1>3, <1>4, <1>5, FrameAdds
<1> QED
  BY <1>1, <1>2, <1>3, <1>6 DEF Ahead

LEMMA StartDeltaFrame ==
  ASSUME StreamInv, dec.st = "reading", NEW n, IsNode(n), NEW d, NodesOk(d.nodes), Len(d.nodes) = Size + 1,
         ShownIn(d.nodes) # {} => ShownIn(dec.nodes) # {} \/ n.kind \in Shown,
         NEW v, IsEv(v), v.ev = "start", v.i = Size + 1, v.node.kind = n.kind,
         NEW w, IsEv(w), w.ev = "delta", w.i = Size + 1
  PROVE  Ahead(d, PassAll([held |-> held, enc |-> enc], <<v, w>>).enc)
<1>1. PICK m, s, q : m = Size /\ s = [held |-> held, enc |-> enc] /\ q = <<v, w>>
  OBVIOUS
<1>2. s.enc = enc /\ DOMAIN q = 1 .. 2 /\ q[1] = v /\ q[2] = w
  BY <1>1
<1>3. NodesOk(dec.nodes) /\ EncInv(enc, m) /\ (ShownIn(dec.nodes) # {} => enc.sent)
  BY <1>1 DEF StreamInv, DecOk, Ahead, Size
<1>4. m \in Nat
  BY <1>1, <1>3, SeqDomain DEF Size, NodesOk
<1>5. /\ EncInv(PassAll(s, q).enc, m + 1)
      /\ s.enc.sent \/ v.node.kind \in Shown => PassAll(s, q).enc.sent = TRUE
  BY <1>1, <1>2, <1>3, <1>4, FrameStartsAndAdds
<1> QED
  BY <1>1, <1>2, <1>3, <1>5 DEF Ahead

-----------------------------------------------------------------------------
(* The reading steps of the Chat decoder.                                  *)
LEMMA Fields ==
  ASSUME NEW n, IsNode(n), NEW field, NEW x, NEW g, g = [n EXCEPT ![field] = x], field # "kind"
  PROVE  IsNode(g) /\ g.kind = n.kind
BY DEF IsNode

LEMMA Joined ==
  ASSUME NEW v, NEW w
  PROVE  <<v>> \o <<w>> = <<v, w>> /\ << >> \o <<w>> = <<w>>
<1>1. <<v>> \in Seq({v, w}) /\ <<w>> \in Seq({v, w}) /\ <<v, w>> \in Seq({v, w})
  OBVIOUS
<1>2. Len(<<v>>) = 1 /\ Len(<<w>>) = 1 /\ Len(<<v, w>>) = 2
  OBVIOUS
<1>3. <<v>> \o <<w>> = <<v, w>>
  <2>1. <<v>> \o <<w>> \in Seq({v, w}) /\ Len(<<v>> \o <<w>>) = 2
    BY <1>1, <1>2, ConcatProperties
  <2>2. \A j \in 1 .. 2 : (<<v>> \o <<w>>)[j] = <<v, w>>[j]
    BY <1>1, <1>2, ConcatProperties
  <2> QED
    BY <1>1, <1>2, <2>1, <2>2, SeqEqual
<1>4. << >> \o <<w>> = <<w>>
  BY <1>1, ConcatEmptySeq
<1> QED
  BY <1>3, <1>4

LEMMA FragmentKeeps ==
  ASSUME StreamInv, dec.st = "reading", NEW i, i \in 1 .. (Size + 1),
         NEW n, IsNode(n),
         NEW field, field # "kind",
         NEW d, DOMAIN d = DOMAIN dec, d.st = "reading", d.nodes = dec.nodes,
         d.active = dec.active, d.completed = dec.completed,
         d.textAt \in {dec.textAt, i}, d.reasonAt \in {dec.reasonAt, i},
         ChatFragment(i, n, field, d)
  PROVE  StreamInv'
<1>1. PICK m, old : m = Size /\ old = dec.nodes
  OBVIOUS
<1>2. PICK ns : ns = IF i > m THEN Append(old, n) ELSE old
  OBVIOUS
<1>0. PICK x : x = Append(ns[i][field], Fragment)
  OBVIOUS
<1>3. PICK g : g = [ns[i] EXCEPT ![field] = x]
  OBVIOUS
<1>4. PICK t : t = [ns EXCEPT ![i] = g]
  OBVIOUS
<1>5. PICK u : u = [d EXCEPT !.nodes = t, !.frags = @ + 1]
  OBVIOUS
<1>6. PICK v, w : v = NodeStartEv(i, n) /\ w = NodeDeltaEv(i, n, field, Fragment, FALSE)
  OBVIOUS
<1>7. PICK q : q = IF i > m THEN <<v, w>> ELSE <<w>>
  OBVIOUS
<1>8. Decode(u, q)
  <2>1. Decode([d EXCEPT !.nodes = [ns EXCEPT ![i][field] = Append(@, Fragment)], !.frags = @ + 1],
               (IF i > m THEN <<v>> ELSE <<>>) \o <<w>>)
    BY <1>1, <1>2, <1>6 DEF ChatFragment
  <2>2. [ns EXCEPT ![i][field] = Append(@, Fragment)] = t
    BY <1>0, <1>3, <1>4
  <2>3. (IF i > m THEN <<v>> ELSE <<>>) \o <<w>> = q
    <3>1. <<v>> \o <<w>> = <<v, w>> /\ << >> \o <<w>> = <<w>>
      BY Joined
    <3> QED
      BY <1>7, <3>1
  <2> QED
    BY <1>5, <2>1, <2>2, <2>3
<1>9. NodesOk(old) /\ m = Len(old) /\ m \in Nat /\ DOMAIN old = 1 .. m /\ DecOk(dec)
  BY <1>1, SeqDomain DEF StreamInv, DecOk, NodesOk, Size
<1>10. IsEv(v) /\ v.ev = "start" /\ v.i = i /\ v.node.kind = n.kind
  BY <1>6, StartForm
<1>11. IsEv(w) /\ w.ev = "delta" /\ w.i = i
  <2>1. PICK y, f : y = Fragment /\ f = FALSE
    OBVIOUS
  <2>2. w = NodeDeltaEv(i, n, field, y, f)
    BY <1>6, <2>1
  <2> QED
    BY <2>2, DeltaForm
<1>12. u.nodes = t /\ u.st = "reading" /\ DOMAIN u = DOMAIN dec /\ u.active = dec.active
       /\ u.completed = dec.completed /\ u.textAt \in {dec.textAt, i} /\ u.reasonAt \in {dec.reasonAt, i}
  BY <1>5, <1>9 DEF DecOk
<1>13. CASE i > m
  <2>1. i = m + 1 /\ ns = Append(old, n)
    BY <1>1, <1>2, <1>9, <1>13
  <2>2. NodesOk(ns) /\ Len(ns) = m + 1 /\ ns[i] = n /\ (ShownIn(ns) # {} <=> (ShownIn(old) # {} \/ n.kind \in Shown))
    BY <1>9, <2>1, NodeAdded
  <2>3. DOMAIN ns = 1 .. (m + 1)
    BY <1>9, <2>2, SeqDomain DEF NodesOk
  <2>4. IsNode(g) /\ g.kind = n.kind
    <3>1. g = [n EXCEPT ![field] = x]
      BY <1>3, <2>2
    <3>2. IsNode(n) /\ field # "kind"
      OBVIOUS
    <3> QED
      BY ONLY <3>1, <3>2 DEF IsNode
  <2>5. NodesOk(t) /\ Len(t) = Len(ns) /\ ShownIn(t) = ShownIn(ns)
    <3>1. i \in DOMAIN ns /\ g.kind = ns[i].kind
      BY <1>9, <2>1, <2>2, <2>3, <2>4
    <3> QED
      BY ONLY <1>4, <2>2, <2>4, <3>1, NodeChanged
  <2>6. DecOk(u)
    BY <1>1, <1>9, <1>12, <2>1, <2>2, <2>5 DEF DecOk
  <2>7. Ahead(u, PassAll([held |-> held, enc |-> enc], <<v, w>>).enc)
    <3>1. NodesOk(u.nodes) /\ Len(u.nodes) = Size + 1 /\ i = Size + 1
      BY <1>1, <1>12, <2>1, <2>2, <2>5
    <3>2. ShownIn(u.nodes) # {} => ShownIn(dec.nodes) # {} \/ n.kind \in Shown
      BY <1>1, <1>12, <2>2, <2>5
    <3> QED
      BY <1>10, <1>11, <3>1, <3>2, StartDeltaFrame
  <2>8. q = <<v, w>>
    BY <1>7, <1>13
  <2>9. u.st = "reading" /\ Decode(u, q) /\ Ahead(u, PassAll([held |-> held, enc |-> enc], q).enc)
    BY <1>8, <1>12, <2>7, <2>8
  <2> QED
    BY <2>6, <2>9, ReadKeeps
<1>14. CASE i <= m
  <2>1. i \in 1 .. m /\ ns = old
    BY <1>1, <1>2, <1>9, <1>14
  <2>2. IsNode(old[i])
    BY <1>1, <1>9, <1>14, <2>1 DEF NodesOk
  <2>4. IsNode(g) /\ g.kind = old[i].kind
    BY <1>3, <2>1, <2>2, Fields
  <2>5. NodesOk(t) /\ Len(t) = Len(old) /\ ShownIn(t) = ShownIn(old)
    BY <1>4, <1>9, <2>1, <2>2, <2>4, NodeChanged
  <2>6. DecOk(u)
    BY <1>1, <1>9, <1>12, <2>1, <2>5 DEF DecOk
  <2>7. Ahead(u, PassAll([held |-> held, enc |-> enc], <<w>>).enc)
    <3>1. Len(u.nodes) = Size /\ ShownIn(u.nodes) = ShownIn(dec.nodes) /\ w.i \in 1 .. Size
      BY <1>1, <1>9, <1>11, <1>12, <2>1, <2>5
    <3>2. w.ev \in {"delta", "done"} /\ (w.ev = "done" => w.node.kind = dec.nodes[w.i].kind)
      BY <1>11
    <3> QED
      BY <1>11, <3>1, <3>2, NodeFrame
  <2>8. q = <<w>>
    BY <1>1, <1>7, <1>9, <1>14
  <2>9. u.st = "reading" /\ Decode(u, q) /\ Ahead(u, PassAll([held |-> held, enc |-> enc], q).enc)
    BY <1>8, <1>12, <2>7, <2>8
  <2> QED
    BY <2>6, <2>9, ReadKeeps
<1> QED
  BY <1>1, <1>9, <1>13, <1>14

LEMMA ReadingFacts ==
  ASSUME StreamInv, NEW p, Reading(p)
  PROVE  /\ dec.st = "reading" /\ DecOk(dec) /\ NodesOk(dec.nodes) /\ Size \in Nat
         /\ DOMAIN dec.nodes = 1 .. Size /\ Size = Len(dec.nodes) /\ EncInv(enc, Size)
BY SeqDomain DEF StreamInv, DecOk, NodesOk, Size, Ahead, Reading

LEMMA TextKeeps == ASSUME StreamInv, TextDelta PROVE StreamInv'
<1>1. PICK i : i = Slot(dec.textAt)
  OBVIOUS
<1>2. PICK n, d : n = NewNode("text", "") /\ d = [dec EXCEPT !.textAt = i]
  OBVIOUS
<1>3. Reading("chat") /\ ChatFragment(i, n, "text", d)
  BY <1>1, <1>2 DEF TextDelta
<1>4. DecOk(dec) /\ Size \in Nat /\ Size = Len(dec.nodes) /\ dec.st = "reading"
  BY <1>3, ReadingFacts
<1>5. i \in 1 .. (Size + 1)
  BY <1>1, <1>4 DEF DecOk, Slot
<1>6. /\ DOMAIN d = DOMAIN dec /\ d.st = "reading" /\ d.nodes = dec.nodes
      /\ d.active = dec.active /\ d.completed = dec.completed
      /\ d.textAt \in {dec.textAt, i} /\ d.reasonAt \in {dec.reasonAt, i}
  BY <1>2, <1>4 DEF DecOk
<1>7. IsNode(n)
  BY <1>2, NewNodes
<1> QED
  BY <1>3, <1>4, <1>5, <1>6, <1>7, FragmentKeeps

LEMMA ReasoningKeeps ==
  ASSUME StreamInv, NEW field \in {"text", "summary", "sig"}, ReasoningDelta(field) PROVE StreamInv'
<1>1. PICK i : i = Slot(dec.reasonAt)
  OBVIOUS
<1>2. PICK n, d : n = NewNode("thinking", "") /\ d = [dec EXCEPT !.reasonAt = i]
  OBVIOUS
<1>3. Reading("chat") /\ ChatFragment(i, n, field, d)
  BY <1>1, <1>2 DEF ReasoningDelta
<1>4. DecOk(dec) /\ Size \in Nat /\ Size = Len(dec.nodes) /\ dec.st = "reading"
  BY <1>3, ReadingFacts
<1>5. i \in 1 .. (Size + 1)
  BY <1>1, <1>4 DEF DecOk, Slot
<1>6. /\ DOMAIN d = DOMAIN dec /\ d.st = "reading" /\ d.nodes = dec.nodes
      /\ d.active = dec.active /\ d.completed = dec.completed
      /\ d.textAt \in {dec.textAt, i} /\ d.reasonAt \in {dec.reasonAt, i}
  BY <1>2, <1>4 DEF DecOk
<1>7. IsNode(n) /\ field # "kind"
  BY <1>2, NewNodes
<1> QED
  BY <1>3, <1>4, <1>5, <1>6, <1>7, FragmentKeeps

(* A fragment that moves no slot.                                          *)
LEMMA SlotlessKeeps ==
  ASSUME StreamInv, Reading("chat"), NEW i \in 1 .. (Size + 1), NEW n, IsNode(n),
         NEW field, field # "kind", ChatFragment(i, n, field, dec)
  PROVE  StreamInv'
<1>1. dec.textAt \in {dec.textAt, i} /\ dec.reasonAt \in {dec.reasonAt, i}
  OBVIOUS
<1> QED
  BY <1>1, ReadingFacts, FragmentKeeps

LEMMA DetailKeeps ==
  ASSUME StreamInv, NEW type \in {"text", "summary", "encrypted"}, ReasoningDetail(type) PROVE StreamInv'
<1>1. PICK i, n, field : i = Size + 1 /\ n = NewNode("thinking", type) /\ field = DetailField[type]
  OBVIOUS
<1>2. Reading("chat") /\ ChatFragment(i, n, field, dec)
  BY <1>1 DEF ReasoningDetail
<1>3. i \in 1 .. (Size + 1)
  BY <1>1, <1>2, ReadingFacts
<1>4. IsNode(n)
  BY <1>1, NewNodes
<1>5. field # "kind"
  BY <1>1 DEF DetailField
<1> QED
  BY <1>2, <1>3, <1>4, <1>5, SlotlessKeeps

(* A frame that starts a node and says nothing of it.                      *)
LEMMA StartedKeeps ==
  ASSUME StreamInv, NEW p, Reading(p), NEW n, IsNode(n), NEW v, v = NodeStartEv(Size + 1, n),
         NEW d, DOMAIN d = DOMAIN dec, d.st = "reading", d.nodes = Append(dec.nodes, n),
         d.textAt = dec.textAt, d.reasonAt = dec.reasonAt, d.completed = dec.completed,
         d.active \subseteq dec.active \union {Size + 1}, Decode(d, <<v>>)
  PROVE  StreamInv'
<1>1. DecOk(dec) /\ NodesOk(dec.nodes) /\ Size \in Nat /\ Size = Len(dec.nodes) /\ dec.st = "reading"
  BY ReadingFacts
<1>2. IsEv(v) /\ v.ev = "start" /\ v.i = Size + 1 /\ v.node.kind = n.kind
  <2>1. PICK i : i = Size + 1
    OBVIOUS
  <2> QED
    BY <2>1, StartForm
<1>3. Ahead(d, PassAll([held |-> held, enc |-> enc], <<v>>).enc)
  BY <1>1, <1>2, StartFrame
<1>4. NodesOk(d.nodes) /\ Len(d.nodes) = Size + 1
  BY <1>1, NodeAdded
<1>5. DecOk(d)
  BY <1>1, <1>4 DEF DecOk
<1> QED
  BY <1>3, <1>5, ReadKeeps

LEMMA PlainStartKeeps ==
  ASSUME StreamInv, Reading("chat"), NEW n, IsNode(n),
         Decode([dec EXCEPT !.nodes = Append(@, n)], <<NodeStartEv(Size + 1, n)>>)
  PROVE  StreamInv'
<1>1. PICK d, v : d = [dec EXCEPT !.nodes = Append(@, n)] /\ v = NodeStartEv(Size + 1, n)
  OBVIOUS
<1>2. DecOk(dec) /\ dec.st = "reading"
  BY ReadingFacts
<1>3. /\ DOMAIN d = DOMAIN dec /\ d.st = "reading" /\ d.nodes = Append(dec.nodes, n)
      /\ d.textAt = dec.textAt /\ d.reasonAt = dec.reasonAt /\ d.completed = dec.completed
      /\ d.active = dec.active
  BY <1>1, <1>2 DEF DecOk
<1>4. d.active \subseteq dec.active \union {Size + 1}
  BY <1>3
<1>5. Decode(d, <<v>>)
  BY <1>1
<1> QED
  BY <1>1, <1>3, <1>4, <1>5, StartedKeeps

LEMMA ToolCallKeeps == ASSUME StreamInv, ToolCallDelta PROVE StreamInv'
<1>1. PICK n : n = NewNode("tool", "")
  OBVIOUS
<1>2. IsNode(n) /\ Reading("chat")
  BY <1>1, NewNodes DEF ToolCallDelta
<1>3. ASSUME NEW i \in DOMAIN dec.nodes \union {Size + 1}, ChatFragment(i, n, "text", dec)
      PROVE  StreamInv'
  <2>1. i \in 1 .. (Size + 1)
    BY <1>2, ReadingFacts
  <2> QED
    BY <1>2, <1>3, <2>1, SlotlessKeeps
<1>4. CASE Decode([dec EXCEPT !.nodes = Append(@, n)], <<NodeStartEv(Size + 1, n)>>)
  BY <1>2, <1>4, PlainStartKeeps
<1> QED
  BY <1>1, <1>3, <1>4 DEF ToolCallDelta

LEMMA ItemKeeps == ASSUME StreamInv, ProviderItemBlock PROVE StreamInv'
<1>1. PICK n : n = NewNode("other", "")
  OBVIOUS
<1>2. IsNode(n) /\ Reading("chat") /\ Decode([dec EXCEPT !.nodes = Append(@, n)], <<NodeStartEv(Size + 1, n)>>)
  BY <1>1, NewNodes DEF ProviderItemBlock
<1> QED
  BY <1>2, PlainStartKeeps


-----------------------------------------------------------------------------
(* The reading steps of the Messages decoder.                              *)
LEMMA BlockStartKeeps ==
  ASSUME StreamInv, NEW kind \in Shown, ContentBlockStart(kind) PROVE StreamInv'
<1>1. PICK n : n = [NewNode(kind, "") EXCEPT !.text = IF kind = "tool" THEN <<EmptyInput>> ELSE @,
                                             !.sig  = IF kind = "redacted" THEN <<Fragment>> ELSE @]
  OBVIOUS
<1>2. PICK i : i = Size + 1
  OBVIOUS
<1>3. PICK d : d = [dec EXCEPT !.nodes = Append(@, n), !.active = @ \union {i},
                               !.frags = IF kind = "redacted" THEN @ + 1 ELSE @]
  OBVIOUS
<1>4. PICK v : v = NodeStartEv(i, n)
  OBVIOUS
<1>5. Reading("messages") /\ Decode(d, <<v>>)
  BY <1>1, <1>2, <1>3, <1>4 DEF ContentBlockStart
<1>6. IsNode(n)
  BY <1>1, NewNodes DEF IsNode
<1>7. DecOk(dec) /\ dec.st = "reading"
  BY <1>5, ReadingFacts
<1>8. /\ DOMAIN d = DOMAIN dec /\ d.st = "reading" /\ d.nodes = Append(dec.nodes, n)
      /\ d.textAt = dec.textAt /\ d.reasonAt = dec.reasonAt /\ d.completed = dec.completed
      /\ d.active = dec.active \union {i}
  BY <1>3, <1>7 DEF DecOk
<1>9. d.active \subseteq dec.active \union {Size + 1} /\ v = NodeStartEv(Size + 1, n)
  BY <1>2, <1>4, <1>8
<1> QED
  BY <1>5, <1>6, <1>8, <1>9, StartedKeeps

(* A frame about a started node that changes it or ends it.                *)
LEMMA TouchedKeeps ==
  ASSUME StreamInv, Reading("messages"), NEW i \in 1 .. Size, NEW n, IsNode(n), n.kind = dec.nodes[i].kind,
         NEW v, IsEv(v), v.ev \in {"delta", "done"}, v.i = i, v.ev = "done" => v.node.kind = dec.nodes[i].kind,
         NEW d, DOMAIN d = DOMAIN dec, d.st = "reading", d.nodes = [dec.nodes EXCEPT ![i] = n],
         d.textAt = dec.textAt, d.reasonAt = dec.reasonAt,
         d.active \subseteq dec.active, d.completed \subseteq dec.completed \union {i}, Decode(d, <<v>>)
  PROVE  StreamInv'
<1>1. /\ DecOk(dec) /\ NodesOk(dec.nodes) /\ Size \in Nat /\ Size = Len(dec.nodes) /\ dec.st = "reading"
      /\ i \in DOMAIN dec.nodes
  BY ReadingFacts
<1>2. PICK old : old = dec.nodes
  OBVIOUS
<1>3. NodesOk(old) /\ i \in DOMAIN old /\ n.kind = old[i].kind /\ d.nodes = [old EXCEPT ![i] = n]
  BY <1>1, <1>2
<1>4. NodesOk(d.nodes) /\ Len(d.nodes) = Len(old) /\ ShownIn(d.nodes) = ShownIn(old)
  BY <1>3, NodeChanged
<1>5. DecOk(d)
  BY <1>1, <1>2, <1>4 DEF DecOk
<1>6. Len(d.nodes) = Size /\ ShownIn(d.nodes) = ShownIn(dec.nodes) /\ v.i \in 1 .. Size
      /\ (v.ev = "done" => v.node.kind = dec.nodes[v.i].kind)
  BY <1>1, <1>2, <1>4
<1>7. Ahead(d, PassAll([held |-> held, enc |-> enc], <<v>>).enc)
  BY <1>1, <1>6, NodeFrame
<1> QED
  BY <1>5, <1>7, ReadKeeps

LEMMA BlockDeltaKeeps ==
  ASSUME StreamInv, NEW i \in dec.active, NEW field \in {"text", "summary", "sig"}, ContentBlockDelta(i, field)
  PROVE  StreamInv'
<1>1. PICK b : b = dec.nodes[i]
  OBVIOUS
<1>2. PICK n : n = WithDelta(b, field)
  OBVIOUS
<1>3. PICK d : d = [dec EXCEPT !.nodes = [dec.nodes EXCEPT ![i] = n], !.frags = @ + 1]
  OBVIOUS
<1>4. PICK v : v = NodeDeltaEv(i, b, field, Fragment, field = "summary")
  OBVIOUS
<1>5. Reading("messages") /\ Decode(d, <<v>>)
  <2>1. Reading("messages") /\ Decode([dec EXCEPT !.nodes[i] = n, !.frags = @ + 1], <<v>>)
    BY <1>1, <1>2, <1>4 DEF ContentBlockDelta
  <2>2. [dec EXCEPT !.nodes[i] = n, !.frags = @ + 1] = d
    BY <1>3
  <2> QED
    BY <2>1, <2>2
<1>6. DecOk(dec) /\ dec.st = "reading" /\ Size = Len(dec.nodes) /\ DOMAIN dec.nodes = 1 .. Size
  BY <1>5, ReadingFacts
<1>7. i \in 1 .. Size /\ IsNode(b)
  BY <1>1, <1>6 DEF DecOk, NodesOk
<1>8. IsNode(n) /\ n.kind = dec.nodes[i].kind
  <2>1. PICK x : x = IF b[field] = <<EmptyInput>> THEN <<Fragment>> ELSE Append(b[field], Fragment)
    OBVIOUS
  <2>2. n = [b EXCEPT ![field] = x]
    BY <1>2, <2>1 DEF WithDelta
  <2>3. IsNode(n) /\ n.kind = b.kind
    BY <1>7, <2>2 DEF IsNode
  <2> QED
    BY <1>1, <2>3
<1>9. IsEv(v) /\ v.ev = "delta" /\ v.i = i
  <2>1. PICK x, f : x = Fragment /\ f = (field = "summary")
    OBVIOUS
  <2>2. v = NodeDeltaEv(i, b, field, x, f)
    BY <1>4, <2>1
  <2> QED
    BY <2>2, DeltaForm
<1>10. /\ DOMAIN d = DOMAIN dec /\ d.st = "reading" /\ d.nodes = [dec.nodes EXCEPT ![i] = n]
       /\ d.textAt = dec.textAt /\ d.reasonAt = dec.reasonAt
       /\ d.active = dec.active /\ d.completed = dec.completed
  BY <1>3, <1>6 DEF DecOk
<1>11. d.active \subseteq dec.active /\ d.completed \subseteq dec.completed \union {i}
  BY <1>10
<1>12. v.ev \in {"delta", "done"} /\ (v.ev = "done" => v.node.kind = dec.nodes[i].kind)
  BY <1>9
<1> QED
  BY <1>5, <1>7, <1>8, <1>9, <1>10, <1>11, <1>12, TouchedKeeps

LEMMA BlockStopKeeps ==
  ASSUME StreamInv, NEW i \in dec.active, ContentBlockStop(i) PROVE StreamInv'
<1>1. PICK n : n = dec.nodes[i]
  OBVIOUS
<1>2. PICK d : d = [dec EXCEPT !.active = @ \ {i}, !.completed = @ \union {i}]
  OBVIOUS
<1>3. PICK v : v = NodeDoneEv(i, n)
  OBVIOUS
<1>4. Reading("messages") /\ Decode(d, <<v>>)
  BY <1>1, <1>2, <1>3 DEF ContentBlockStop
<1>5. DecOk(dec) /\ dec.st = "reading" /\ Size = Len(dec.nodes) /\ DOMAIN dec.nodes = 1 .. Size
  BY <1>4, ReadingFacts
<1>6. i \in 1 .. Size /\ IsNode(n) /\ n.kind = dec.nodes[i].kind
  BY <1>1, <1>5 DEF DecOk, NodesOk
<1>7. IsEv(v) /\ v.ev = "done" /\ v.i = i /\ v.node = n
  BY <1>3, <1>6, DoneForm
<1>8. /\ DOMAIN d = DOMAIN dec /\ d.st = "reading" /\ d.nodes = dec.nodes
      /\ d.textAt = dec.textAt /\ d.reasonAt = dec.reasonAt
      /\ d.active = dec.active \ {i} /\ d.completed = dec.completed \union {i}
  BY <1>2, <1>5 DEF DecOk
<1>9. d.nodes = [dec.nodes EXCEPT ![i] = n]
  <2>1. IsSeq(dec.nodes)
    BY <1>5 DEF DecOk, NodesOk
  <2> QED
    BY <1>1, <1>6, <1>8, <2>1, SeqSame
<1>10. d.active \subseteq dec.active /\ d.completed \subseteq dec.completed \union {i}
  BY <1>8
<1>11. v.ev \in {"delta", "done"} /\ (v.ev = "done" => v.node.kind = dec.nodes[i].kind)
  BY <1>6, <1>7
<1> QED
  BY <1>4, <1>6, <1>7, <1>8, <1>9, <1>10, <1>11, TouchedKeeps

-----------------------------------------------------------------------------
(* The steps that end an answer.                                           *)
LEMMA FinishForm ==
  ASSUME NEW out, NEW v, v = ResponseDoneEv(out)
  PROVE  IsEv(v) /\ v.ev = "finish" /\ v.out = out
<1>1. PICK w : w = Ev("finish", 0, NoNode, FALSE)
  OBVIOUS
<1>2. /\ DOMAIN w = {"ev", "i", "node", "marked", "out"} /\ w.ev = "finish" /\ IsNode(w.node)
  BY <1>1 DEF Ev, NoNode, IsNode
<1>3. v = [w EXCEPT !.out = out]
  BY <1>1 DEF ResponseDoneEv
<1> QED
  BY <1>2, <1>3 DEF IsEv

LEMMA ErrorForm == \E v : v = ErrorEv /\ IsEv(v) /\ v.ev = "error"
<1>1. PICK f, n : f = FALSE /\ n = NoNode
  OBVIOUS
<1>2. PICK v : v = Ev("error", 0, n, f)
  OBVIOUS
<1>3. IsNode(n)
  BY <1>1 DEF NoNode, IsNode
<1>4. IsEv(v) /\ v.ev = "error"
  BY <1>2, <1>3, EventForms
<1>5. v = ErrorEv
  BY <1>1, <1>2 DEF ErrorEv
<1> QED
  BY <1>4, <1>5

(* The last event of an answer that ends, after whatever went before it.   *)
LEMMA EndsKeeps ==
  ASSUME NEW m \in Nat, NEW t, EncInv(t.enc, m), ShownIn(dec.nodes) # {} => t.enc.sent,
         NEW k \in Nat, NEW v, IsEv(v), v.ev = "finish", DOMAIN v.out = 1 .. k,
         NEW d, DecOk(d), d.st = "ended", d.nodes = dec.nodes,
         NEW q, PassAll([held |-> held, enc |-> enc], q) = PassOn(t, v), Decode(d, q)
  PROVE  StreamInv'
<1>1. PICK e : e = PassAll([held |-> held, enc |-> enc], q).enc
  OBVIOUS
<1>2. e = PassOn(t, v).enc
  BY <1>1
<1>3. CASE e.client.st = "stopped"
  BY <1>1, <1>3, EndKeeps
<1>4. CASE e = t.enc /\ ~t.enc.sent
  <2>1. e.client.st = "new"
    BY <1>4 DEF EncInv, InStep, ClientAt
  <2>2. ShownIn(d.nodes) = {}
    BY <1>4
  <2> QED
    BY <1>1, <2>1, <2>2, EndKeeps
<1> QED
  BY <1>2, <1>3, <1>4, PassFinish

LEMMA ChatFinishKeeps == ASSUME StreamInv, ChatFinish PROVE StreamInv'
<1>1. PICK m, ns : m = Size /\ ns = dec.nodes
  OBVIOUS
<1>2. PICK ds : ds = [i \in DOMAIN ns |-> NodeDoneEv(i, ns[i])]
  OBVIOUS
<1>3. PICK v : v = ResponseDoneEv(ns)
  OBVIOUS
<1>4. PICK d, q : d = [dec EXCEPT !.st = "ended", !.completed = DOMAIN ns] /\ q = ds \o <<v>>
  OBVIOUS
<1>5. Reading("chat") /\ Decode(d, q)
  BY <1>1, <1>2, <1>3, <1>4 DEF ChatFinish
<1>6. DecOk(dec) /\ dec.st = "reading" /\ NodesOk(ns) /\ m \in Nat /\ DOMAIN ns = 1 .. m /\ m = Len(ns) /\ EncInv(enc, m)
  BY <1>1, <1>5, ReadingFacts
<1>7. ShownIn(ns) # {} => enc.sent
  BY <1>1, <1>6 DEF StreamInv, Ahead
<1>8. IsEv(v) /\ v.ev = "finish" /\ DOMAIN v.out = 1 .. m
  BY <1>3, <1>6, FinishForm
<1>9. DOMAIN q = 1 .. (m + 1) /\ q[m + 1] = v /\ \A i \in 1 .. m : q[i] = ds[i]
  <2>1. PICK V : V = {ds[i] : i \in 1 .. m} \union {v}
    OBVIOUS
  <2>2. ds \in [1 .. m -> V] /\ v \in V
    BY <1>2, <1>6, <2>1
  <2>3. ds \in Seq(V) /\ <<v>> \in Seq(V)
    BY <1>6, <2>2, SeqDef
  <2>4. Len(ds) = m /\ Len(<<v>>) = 1
    BY <1>6, <2>2, <2>3, LenProperties
  <2>5. q \in Seq(V) /\ Len(q) = m + 1
    BY <1>4, <2>3, <2>4, ConcatProperties
  <2>6. \A i \in 1 .. (m + 1) : q[i] = IF i <= m THEN ds[i] ELSE <<v>>[i - m]
    BY <1>4, <2>3, <2>4, ConcatProperties
  <2>7. q[m + 1] = v
    BY <1>6, <2>6
  <2> QED
    BY <1>6, <2>5, <2>6, <2>7, LenProperties
<1>10. PICK s : s = [held |-> held, enc |-> enc]
  OBVIOUS
<1>11. s.enc = enc
  BY <1>10
<1>12. ASSUME NEW i \in 1 .. m PROVE IsEv(q[i]) /\ NodeEvent(s.enc, q[i], m)
  <2>1. PICK n, w : n = ns[i] /\ w = q[i]
    OBVIOUS
  <2>2. w = NodeDoneEv(i, n) /\ IsNode(n)
    BY <1>2, <1>6, <1>9, <2>1 DEF NodesOk
  <2>3. IsEv(w) /\ w.ev = "done" /\ w.i = i /\ w.node = n
    BY <2>2, DoneForm
  <2>4. NodeEvent(enc, w, m)
    BY <1>6, <1>7, <2>1, <2>3 DEF NodeEvent, ShownIn
  <2> QED
    BY <1>11, <2>1, <2>3, <2>4
<1>13. PICK t : PassAll(s, q) = PassOn(t, q[m + 1]) /\ EncInv(t.enc, m) /\ t.enc.sent = s.enc.sent
  BY <1>6, <1>9, <1>11, <1>12, PassMany
<1>14. /\ DOMAIN d = DOMAIN dec /\ d.st = "ended" /\ d.nodes = dec.nodes
       /\ d.textAt = dec.textAt /\ d.reasonAt = dec.reasonAt
       /\ d.active = dec.active /\ d.completed = 1 .. m
  BY <1>4, <1>6 DEF DecOk
<1>15. DecOk(d)
  BY <1>1, <1>6, <1>14 DEF DecOk
<1>16. PassAll([held |-> held, enc |-> enc], q) = PassOn(t, v) /\ (ShownIn(dec.nodes) # {} => t.enc.sent)
  BY <1>1, <1>7, <1>9, <1>10, <1>11, <1>13
<1> QED
  BY <1>5, <1>6, <1>8, <1>13, <1>14, <1>15, <1>16, EndsKeeps

OrderStep(p, a, i) == Append(a, p[i])

OrderGood(p, T, a) == IsSeq(a)

Ordered == INSTANCE FoldTheorems WITH Op <- OrderStep, Good <- OrderGood

LEMMA OrderLoop ==
  ASSUME NEW f, NEW S
  PROVE  InOrder(f, S) = Ordered!Loop(f, << >>, S)
BY DEF InOrder, FoldAscending, Ordered!Loop, MapThenFoldSet, Ordered!MapThenFoldSet, Max, Ordered!Max, OrderStep

LEMMA OrderedIsSeq ==
  ASSUME NEW f, NEW n \in Nat, NEW S, S \subseteq 0 .. n
  PROVE  IsSeq(InOrder(f, S))
<1>1. PICK b : b = << >>
  OBVIOUS
<1>2. OrderGood(f, {}, b)
  BY <1>1 DEF OrderGood, IsSeq
<1>3. \A T \in SUBSET S : \A x \in S \ T : \A a :
        OrderGood(f, T, a) /\ (\A y \in T : y < x) => OrderGood(f, T \union {x}, OrderStep(f, a, x))
  BY SeqAppended DEF OrderGood, OrderStep
<1>4. OrderGood(f, S, Ordered!Loop(f, b, S))
  BY <1>2, <1>3, Ordered!LoopInvariant
<1> QED
  BY <1>1, <1>4, OrderLoop DEF OrderGood

LEMMA MessageStopKeeps == ASSUME StreamInv, MessageStop PROVE StreamInv'
<1>1. PICK m, o : m = Size /\ o = OrderedCompletedNodes
  OBVIOUS
<1>2. PICK v : v = ResponseDoneEv(o)
  OBVIOUS
<1>3. PICK d, q : d = [dec EXCEPT !.st = "ended"] /\ q = <<v>>
  OBVIOUS
<1>4. Reading("messages") /\ Decode(d, q)
  BY <1>1, <1>2, <1>3 DEF MessageStop
<1>5. DecOk(dec) /\ dec.st = "reading" /\ m \in Nat /\ m = Len(dec.nodes) /\ EncInv(enc, m)
  BY <1>1, <1>4, ReadingFacts
<1>6. ShownIn(dec.nodes) # {} => enc.sent
  BY <1>5 DEF StreamInv, Ahead
<1>7. dec.completed \subseteq 0 .. m
  BY <1>5 DEF DecOk
<1>8. IsSeq(o)
  BY <1>1, <1>5, <1>7, OrderedIsSeq DEF OrderedCompletedNodes
<1>9. Len(o) \in Nat /\ DOMAIN o = 1 .. Len(o)
  BY <1>8, SeqDomain
<1>10. IsEv(v) /\ v.ev = "finish" /\ DOMAIN v.out = 1 .. Len(o)
  BY <1>2, <1>9, FinishForm
<1>11. PICK t : t = [held |-> held, enc |-> enc]
  OBVIOUS
<1>12. t.enc = enc /\ DOMAIN q = 1 .. 1 /\ q[1] = v
  BY <1>3, <1>11
<1>13. PassAll([held |-> held, enc |-> enc], q) = PassOn(t, v)
  BY <1>11, <1>12, PassFew
<1>14. /\ DOMAIN d = DOMAIN dec /\ d.st = "ended" /\ d.nodes = dec.nodes
       /\ d.textAt = dec.textAt /\ d.reasonAt = dec.reasonAt
       /\ d.active = dec.active /\ d.completed = dec.completed
  BY <1>3, <1>5 DEF DecOk
<1>15. DecOk(d)
  BY <1>5, <1>14 DEF DecOk
<1>16. EncInv(t.enc, m) /\ (ShownIn(dec.nodes) # {} => t.enc.sent)
  BY <1>5, <1>6, <1>12
<1> QED
  BY <1>4, <1>5, <1>9, <1>10, <1>13, <1>14, <1>15, <1>16, EndsKeeps

LEMMA NewDecoderOk ==
  /\ DecOk(NewDecoder) /\ NewDecoder.st = "reading" /\ NewDecoder.nodes = << >>
  /\ DecOk([NewDecoder EXCEPT !.st = "failed"]) /\ [NewDecoder EXCEPT !.st = "failed"].st = "failed"
<1>1. PICK b : b = << >>
  OBVIOUS
<1>2. NodesOk(b) /\ Len(b) = 0
  BY <1>1 DEF NodesOk, IsSeq
<1>3. \A d : d.nodes = b /\ d.textAt = 0 /\ d.reasonAt = 0 /\ d.active = {} /\ d.completed = {}
             /\ DOMAIN d = {"st", "nodes", "frags", "textAt", "reasonAt", "active", "completed"} => DecOk(d)
  BY <1>2 DEF DecOk
<1>4. DecOk(NewDecoder) /\ NewDecoder.st = "reading" /\ NewDecoder.nodes = << >>
  BY <1>1, <1>3 DEF NewDecoder
<1>5. DecOk([NewDecoder EXCEPT !.st = "failed"]) /\ [NewDecoder EXCEPT !.st = "failed"].st = "failed"
  BY <1>1, <1>3 DEF NewDecoder
<1> QED
  BY <1>4, <1>5

LEMMA UpstreamErrorKeeps == ASSUME StreamInv, UpstreamError PROVE StreamInv'
<1>1. PICK v : v = ErrorEv /\ IsEv(v) /\ v.ev = "error"
  BY ErrorForm
<1>2. PICK d, q, p : d = [NewDecoder EXCEPT !.st = "failed"] /\ q = <<v>> /\ Reading(p) /\ Decode(d, q)
  BY <1>1 DEF UpstreamError
<1>3. Size \in Nat /\ EncInv(enc, Size)
  BY <1>2, ReadingFacts
<1>4. PICK m, s : m = Size /\ s = [held |-> held, enc |-> enc]
  OBVIOUS
<1>5. m \in Nat /\ EncInv(s.enc, m) /\ DOMAIN q = 1 .. 1 /\ q[1] = v
  BY <1>2, <1>3, <1>4
<1>6. PassAll(s, q) = PassOn(s, v)
  BY <1>5, PassFew
<1>7. PassAll(s, q).enc.client.st = "error"
  BY <1>1, <1>5, <1>6, PassError
<1>8. DecOk(d) /\ d.st # "reading"
  BY <1>2, NewDecoderOk
<1> QED
  BY <1>2, <1>4, <1>7, <1>8, EndKeeps

LEMMA IdleKeeps == ASSUME StreamInv, IdleTimeout PROVE StreamInv'
<1>1. PICK d, p : d = [NewDecoder EXCEPT !.st = "failed"] /\ Reading(p) /\ dec' = d
  BY DEF IdleTimeout
<1>2. Size \in Nat /\ EncInv(enc, Size)
  BY <1>1, ReadingFacts
<1>3. PICK c : c = OnError(enc.client)
  OBVIOUS
<1>4. c.st = "error"
  BY <1>2, <1>3, ErrorRead
<1>5. enc'.client = c
  BY <1>3 DEF IdleTimeout, Returned, NewEncoder
<1>6. DecOk(d) /\ d.st # "reading"
  BY <1>1, NewDecoderOk
<1> QED
  BY <1>1, <1>4, <1>5, <1>6 DEF StreamInv

-----------------------------------------------------------------------------
LEMMA StreamStarts == StreamInit => StreamInv
<1> SUFFICES ASSUME StreamInit PROVE StreamInv
  OBVIOUS
<1>1. PICK e, d, b : e = NewEncoder /\ d = NewDecoder /\ b = << >>
  OBVIOUS
<1>2. DecOk(d) /\ d.st = "reading" /\ d.nodes = b
  BY <1>1, NewDecoderOk
<1>3. Len(b) = 0 /\ DOMAIN b = {} /\ IsSeq(b)
  BY <1>1 DEF IsSeq
<1>4. ShownIn(d.nodes) = {}
  BY <1>2, <1>3 DEF ShownIn
<1>5. /\ IsEnc(e) /\ e.sent = FALSE /\ e.live = b /\ e.pending = b /\ e.next = 1 /\ e.blocks = 0 /\ e.open = 0
      /\ e.absorbed = {} /\ e.client = NewClient
  BY <1>1 DEF NewEncoder, IsEnc, EncFields
<1>6. ClientAt(e.client, "new", 0, 0)
  BY <1>1, <1>3, <1>5 DEF ClientAt, NewClient
<1>7. Counters(e) /\ Places(e, 0) /\ LiveBlocks(e)
  BY <1>3, <1>5 DEF Counters, Places, LiveBlocks
<1>8. InStep(e)
  BY <1>3, <1>5, <1>6 DEF InStep, OpenBlock
<1>9. EncInv(e, 0)
  BY <1>5, <1>7, <1>8 DEF EncInv
<1>10. Ahead(d, e)
  BY <1>2, <1>3, <1>4, <1>9 DEF Ahead
<1>11. dec = d /\ enc = e
  BY <1>1 DEF StreamInit
<1> QED
  BY <1>2, <1>10, <1>11 DEF StreamInv

LEMMA StreamSteps == StreamInv /\ [StreamNext]_streamVars => StreamInv'
<1> SUFFICES ASSUME StreamInv, [StreamNext]_streamVars PROVE StreamInv'
  OBVIOUS
<1>1. CASE ChatRead
  BY <1>1, TextKeeps, ToolCallKeeps, ItemKeeps, ChatFinishKeeps, ReasoningKeeps, DetailKeeps DEF ChatRead
<1>2. CASE MessagesRead
  BY <1>2, BlockStartKeeps, BlockStopKeeps, BlockDeltaKeeps, MessageStopKeeps DEF MessagesRead
<1>3. CASE UpstreamError
  BY <1>3, UpstreamErrorKeeps
<1>4. CASE IdleTimeout
  BY <1>4, IdleKeeps
<1>5. CASE UNCHANGED streamVars
  <2>1. dec' = dec /\ enc' = enc
    BY <1>5 DEF streamVars
  <2> QED
    BY <2>1 DEF StreamInv
<1> QED
  BY <1>1, <1>2, <1>3, <1>4, <1>5 DEF StreamNext

(* Whatever an upstream sends, in whatever order, for any number of nodes, *)
(* fragments and open blocks, and whether or not signatures are sealed:    *)
(* the encoder never sends an event the Messages protocol does not allow   *)
(* at that point (StreamWellFormed), and an answer that has ended has told *)
(* the client so unless there was nothing to show.                         *)
THEOREM StreamTranslated == StreamSpec => []StreamWellFormed
<1>1. StreamSpec => []StreamInv
  BY StreamStarts, StreamSteps, PTL DEF StreamSpec
<1> QED
  BY <1>1, StreamInvHolds, PTL

-----------------------------------------------------------------------------
(***************************************************************************)
(* What the encoder keeps of each node of an answer, and that no event     *)
(* makes it lose any of it: the operators of the two codecs, one by one,   *)
(* for the proof in DeliveryProofs.                                        *)
(***************************************************************************)

-----------------------------------------------------------------------------
(* Sequences of fragments.                                                 *)
LEMMA SeqNone == IsSeq(<< >>) /\ Len(<< >>) = 0 /\ DOMAIN << >> = {}
BY DEF IsSeq

LEMMA SeqOne == ASSUME NEW x PROVE IsSeq(<<x>>) /\ Len(<<x>>) = 1 /\ <<x>>[1] = x /\ <<x>> # << >>
BY DEF IsSeq

LEMMA SeqEmpty == ASSUME NEW s, IsSeq(s) PROVE Len(s) \in Nat /\ (s = << >> <=> Len(s) = 0)
<1>1. s \in Seq({s[k] : k \in DOMAIN s})
  BY DEF IsSeq
<1> QED
  BY <1>1, EmptySeq, LenProperties

LEMMA SeqJoined ==
  ASSUME NEW s, IsSeq(s), NEW t, IsSeq(t)
  PROVE  /\ IsSeq(s \o t) /\ Len(s \o t) = Len(s) + Len(t) /\ Len(s) \in Nat /\ Len(t) \in Nat
         /\ \A k \in 1 .. (Len(s) + Len(t)) : (s \o t)[k] = IF k <= Len(s) THEN s[k] ELSE t[k - Len(s)]
<1>1. PICK V : V = {s[k] : k \in DOMAIN s} \union {t[k] : k \in DOMAIN t}
  OBVIOUS
<1>2. s \in Seq(V) /\ t \in Seq(V)
  BY <1>1 DEF IsSeq
<1>3. PICK u : u = s \o t
  OBVIOUS
<1>4. /\ u \in Seq(V) /\ Len(u) = Len(s) + Len(t)
      /\ \A k \in 1 .. (Len(s) + Len(t)) : u[k] = IF k <= Len(s) THEN s[k] ELSE t[k - Len(s)]
  BY ONLY <1>2, <1>3, ConcatProperties
<1>5. u \in [1 .. Len(u) -> V] /\ Len(u) \in Nat
  BY ONLY <1>4, LenProperties
<1>6. DOMAIN u = 1 .. Len(u) /\ u = [k \in DOMAIN u |-> u[k]]
  BY ONLY <1>5
<1>7. IsSeq(u)
  BY <1>5, <1>6, SeqMade
<1> QED
  BY <1>3, <1>4, <1>7, SeqDomain

LEMMA JoinNone == ASSUME NEW s, IsSeq(s) PROVE s \o << >> = s /\ << >> \o s = s
<1>1. PICK V : V = {s[k] : k \in DOMAIN s}
  OBVIOUS
<1>2. s \in Seq(V)
  BY <1>1 DEF IsSeq
<1> QED
  BY ONLY <1>2, ConcatEmptySeq

LEMMA AppendJoins == ASSUME NEW s, IsSeq(s), NEW x PROVE Append(s, x) = s \o <<x>>
<1>1. PICK V : V = {s[k] : k \in DOMAIN s} \union {x}
  OBVIOUS
<1>2. s \in Seq(V) /\ x \in V
  BY <1>1 DEF IsSeq
<1> QED
  BY ONLY <1>2, AppendIsConcat

LEMMA SeqSameAs ==
  ASSUME NEW s, IsSeq(s), NEW t, IsSeq(t), Len(s) = Len(t), \A k \in 1 .. Len(s) : s[k] = t[k]
  PROVE  s = t
<1>1. PICK V : V = {s[k] : k \in DOMAIN s} \union {t[k] : k \in DOMAIN t}
  OBVIOUS
<1>2. s \in Seq(V) /\ t \in Seq(V)
  BY <1>1 DEF IsSeq
<1>3. Len(s) = Len(t) /\ \A k \in 1 .. Len(s) : s[k] = t[k]
  OBVIOUS
<1> QED
  BY ONLY <1>2, <1>3, SeqEqual

LEMMA PrefixIff ==
  ASSUME NEW s, IsSeq(s), NEW t, IsSeq(t)
  PROVE  IsPrefix(s, t) <=> Len(s) <= Len(t) /\ \A k \in 1 .. Len(s) : s[k] = t[k]
<1>1. PICK V : V = {s[k] : k \in DOMAIN s} \union {t[k] : k \in DOMAIN t}
  OBVIOUS
<1>2. s \in Seq(V) /\ t \in Seq(V) /\ Len(s) \in Nat /\ Len(t) \in Nat
  BY <1>1, SeqDomain DEF IsSeq
<1>3. CASE Len(s) <= Len(t)
  <2>1. PICK a, b, n : a = SubSeq(s, 1, Len(s)) /\ b = SubSeq(t, 1, Len(s)) /\ n = Len(s)
    OBVIOUS
  <2>2. /\ a \in Seq(V) /\ Len(a) = n /\ \A k \in 1 .. n : a[k] = s[k]
        /\ b \in Seq(V) /\ Len(b) = n /\ \A k \in 1 .. n : b[k] = t[k]
    BY <1>2, <1>3, <2>1, SubSeqProperties
  <2>3. a = b <=> \A k \in 1 .. n : a[k] = b[k]
    BY <2>2, SeqEqual
  <2> QED
    BY <1>3, <2>1, <2>2, <2>3 DEF IsPrefix
<1> QED
  BY <1>3 DEF IsPrefix

LEMMA PrefixSelf == ASSUME NEW s, IsSeq(s) PROVE IsPrefix(s, s)
<1>1. Len(s) \in Nat
  BY SeqDomain
<1>2. Len(s) <= Len(s) /\ \A k \in 1 .. Len(s) : s[k] = s[k]
  BY <1>1
<1> QED
  BY <1>2, PrefixIff

LEMMA JoinJoined ==
  ASSUME NEW s, IsSeq(s), NEW t, IsSeq(t), NEW u, IsSeq(u)
  PROVE  (s \o t) \o u = s \o (t \o u)
<1>1. PICK V : V = {s[k] : k \in DOMAIN s} \union {t[k] : k \in DOMAIN t} \union {u[k] : k \in DOMAIN u}
  OBVIOUS
<1>2. s \in Seq(V) /\ t \in Seq(V) /\ u \in Seq(V)
  BY <1>1 DEF IsSeq
<1> QED
  BY ONLY <1>2, ConcatAssociative

(* The rest of a sequence.                                                 *)
LEMMA RestOf ==
  ASSUME NEW s, IsSeq(s), NEW k \in 1 .. (Len(s) + 1)
  PROVE  /\ IsSeq(SubSeq(s, k, Len(s))) /\ Len(SubSeq(s, k, Len(s))) = Len(s) - k + 1
         /\ \A j \in 1 .. (Len(s) - k + 1) : SubSeq(s, k, Len(s))[j] = s[k + j - 1]
<1>1. PICK V, n, r : V = {s[j] : j \in DOMAIN s} /\ n = Len(s) /\ r = SubSeq(s, k, Len(s))
  OBVIOUS
<1>2. n \in Nat /\ DOMAIN s = 1 .. n /\ k \in 1 .. (n + 1)
  BY <1>1, SeqDomain
<1>3. \A j \in k .. n : s[j] \in V
  BY <1>1, <1>2
<1>4. /\ r \in Seq(V) /\ Len(r) = (IF k <= n THEN n - k + 1 ELSE 0)
      /\ \A j \in 1 .. (n - k + 1) : r[j] = s[k + j - 1]
  <2>1. k \in Int /\ n \in Int
    BY <1>2
  <2> QED
    BY <1>1, <1>3, <2>1, SubSeqProperties
<1>5. Len(r) = n - k + 1
  BY <1>2, <1>4
<1>6. r \in [1 .. Len(r) -> V] /\ Len(r) \in Nat
  BY ONLY <1>4, LenProperties
<1>7. DOMAIN r = 1 .. Len(r) /\ r = [j \in DOMAIN r |-> r[j]]
  BY ONLY <1>6
<1>8. IsSeq(r)
  BY <1>6, <1>7, SeqMade
<1> QED
  BY <1>1, <1>4, <1>5, <1>8

LEMMA RestGrows ==
  ASSUME NEW s, IsSeq(s), NEW d, IsSeq(d), NEW k, k \in 1 .. (Len(s) + 1)
  PROVE  SubSeq(s, k, Len(s)) \o d = SubSeq(s \o d, k, Len(s \o d))
<1>1. PICK n, l, w, r, a, b : /\ n = Len(s) /\ l = Len(d) /\ w = s \o d /\ r = SubSeq(s, k, Len(s))
                              /\ a = r \o d /\ b = SubSeq(w, k, Len(w))
  OBVIOUS
<1>2. /\ IsSeq(w) /\ Len(w) = n + l /\ n \in Nat /\ l \in Nat
      /\ \A j \in 1 .. (n + l) : w[j] = IF j <= n THEN s[j] ELSE d[j - n]
  BY <1>1, SeqJoined
<1>3. k \in 1 .. (n + 1) /\ k \in 1 .. (Len(w) + 1)
  BY <1>1, <1>2
<1>4. IsSeq(r) /\ Len(r) = n - k + 1 /\ \A j \in 1 .. (n - k + 1) : r[j] = s[k + j - 1]
  <2>1. IsSeq(s) /\ k \in 1 .. (Len(s) + 1) /\ r = SubSeq(s, k, Len(s))
    BY <1>1
  <2>2. /\ IsSeq(r) /\ Len(r) = Len(s) - k + 1
        /\ \A j \in 1 .. (Len(s) - k + 1) : r[j] = s[k + j - 1]
    BY ONLY <2>1, RestOf
  <2> QED
    BY <1>1, <2>2
<1>5. /\ IsSeq(b) /\ Len(b) = n + l - k + 1
      /\ \A j \in 1 .. (n + l - k + 1) : b[j] = w[k + j - 1]
  <2>1. IsSeq(w) /\ k \in 1 .. (Len(w) + 1) /\ b = SubSeq(w, k, Len(w))
    BY <1>1, <1>2, <1>3
  <2>2. /\ IsSeq(b) /\ Len(b) = Len(w) - k + 1
        /\ \A j \in 1 .. (Len(w) - k + 1) : b[j] = w[k + j - 1]
    BY ONLY <2>1, RestOf
  <2> QED
    BY <1>2, <2>2
<1>6. /\ IsSeq(a) /\ Len(a) = Len(r) + l
      /\ \A j \in 1 .. (Len(r) + l) : a[j] = IF j <= Len(r) THEN r[j] ELSE d[j - Len(r)]
  BY <1>1, <1>4, SeqJoined
<1>7. Len(a) = Len(b)
  BY <1>2, <1>3, <1>4, <1>5, <1>6
<1>8. ASSUME NEW j \in 1 .. Len(a) PROVE a[j] = b[j]
  <2>1. j \in 1 .. (n + l - k + 1) /\ k + j - 1 \in 1 .. (n + l) /\ j \in 1 .. (Len(r) + l)
    BY <1>2, <1>3, <1>4, <1>6
  <2>2. b[j] = w[k + j - 1]
    BY <1>5, <2>1
  <2>3. CASE j <= n - k + 1
    <3>1. a[j] = r[j] /\ r[j] = s[k + j - 1] /\ k + j - 1 <= n
      BY <1>2, <1>3, <1>4, <1>6, <2>1, <2>3
    <3> QED
      BY <1>2, <2>1, <2>2, <3>1
  <2>4. CASE ~(j <= n - k + 1)
    <3>1. a[j] = d[j - (n - k + 1)] /\ ~(k + j - 1 <= n) /\ (k + j - 1) - n = j - (n - k + 1)
      BY <1>2, <1>3, <1>4, <1>6, <2>1, <2>4
    <3>2. w[k + j - 1] = d[(k + j - 1) - n]
      BY <1>2, <2>1, <3>1
    <3> QED
      BY <2>2, <3>1, <3>2
  <2> QED
    BY <2>3, <2>4
<1>9. a = b
  BY <1>5, <1>6, <1>7, <1>8, SeqSameAs
<1> QED
  BY <1>1, <1>9

(* What a prefix lacks completes it.                                       *)
LEMMA PrefixCompleted ==
  ASSUME NEW s, IsSeq(s), NEW t, IsSeq(t), IsPrefix(s, t)
  PROVE  s \o SubSeq(t, Len(s) + 1, Len(t)) = t
<1>1. PICK n, m, k, r, a : n = Len(s) /\ m = Len(t) /\ k = n + 1 /\ r = SubSeq(t, k, m) /\ a = s \o r
  OBVIOUS
<1>2. n \in Nat /\ m \in Nat /\ n <= m /\ \A j \in 1 .. n : s[j] = t[j]
  BY <1>1, SeqDomain, PrefixIff
<1>3. IsSeq(r) /\ Len(r) = m - k + 1 /\ \A j \in 1 .. (m - k + 1) : r[j] = t[k + j - 1]
  <2>1. IsSeq(t) /\ k \in 1 .. (Len(t) + 1) /\ r = SubSeq(t, k, Len(t))
    BY <1>1, <1>2
  <2>2. /\ IsSeq(r) /\ Len(r) = Len(t) - k + 1
        /\ \A j \in 1 .. (Len(t) - k + 1) : r[j] = t[k + j - 1]
    BY ONLY <2>1, RestOf
  <2> QED
    BY <1>1, <2>2
<1>4. /\ IsSeq(a) /\ Len(a) = n + Len(r)
      /\ \A j \in 1 .. (n + Len(r)) : a[j] = IF j <= n THEN s[j] ELSE r[j - n]
  <2>1. IsSeq(s) /\ IsSeq(r) /\ a = s \o r /\ n = Len(s)
    BY <1>1, <1>3
  <2> QED
    BY ONLY <2>1, SeqJoined
<1>5. Len(a) = m
  BY <1>1, <1>2, <1>3, <1>4
<1>6. ASSUME NEW j \in 1 .. Len(a) PROVE a[j] = t[j]
  <2>1. CASE j <= n
    BY <1>2, <1>4, <1>6, <2>1
  <2>2. CASE ~(j <= n)
    <3>1. j - n \in 1 .. (m - k + 1) /\ k + (j - n) - 1 = j /\ a[j] = r[j - n]
      BY <1>1, <1>2, <1>3, <1>4, <1>5, <1>6, <2>2
    <3> QED
      BY <1>3, <3>1
  <2> QED
    BY <2>1, <2>2
<1>7. a = t
  BY <1>1, <1>4, <1>5, <1>6, SeqSameAs
<1> QED
  BY <1>1, <1>7

(* The end of a node adds nothing to what is at least as long, and all of  *)
(* it to nothing.                                                          *)
LEMMA NoSuffix ==
  ASSUME NEW s, IsSeq(s), NEW t, IsSeq(t)
  PROVE  /\ Len(t) <= Len(s) => TextSuffix(s, t) = << >>
         /\ s = << >> => TextSuffix(s, t) = t
         /\ IsSeq(TextSuffix(s, t))
<1>1. Len(s) \in Nat /\ Len(t) \in Nat
  BY SeqDomain
<1>2. Len(t) <= Len(s) => TextSuffix(s, t) = << >>
  BY <1>1 DEF TextSuffix
<1>3. ASSUME s = << >> PROVE TextSuffix(s, t) = t
  <2>1. CASE t = << >>
    BY <1>2, <1>3, <2>1
  <2>2. CASE t # << >>
    <3>1. Len(s) = 0 /\ Len(t) > 0
      BY <1>1, <1>3, <2>2, SeqEmpty
    <3>2. IsPrefix(s, t)
      BY <3>1, PrefixIff
    <3>3. TextSuffix(s, t) = SubSeq(t, 1, Len(t))
      BY <3>1, <3>2 DEF TextSuffix
    <3>4. SubSeq(t, 1, Len(t)) = t
      <4>1. PICK V : V = {t[k] : k \in DOMAIN t}
        OBVIOUS
      <4>2. t \in Seq(V)
        BY <4>1 DEF IsSeq
      <4> QED
        BY ONLY <4>2, SubSeqFull
    <3> QED
      BY <3>3, <3>4
  <2> QED
    BY <2>1, <2>2
<1>4. IsSeq(TextSuffix(s, t))
  <2>1. CASE TextSuffix(s, t) = << >>
    BY <2>1, SeqNone
  <2>2. CASE TextSuffix(s, t) # << >>
    <3>1. PICK V, u : V = {t[k] : k \in DOMAIN t} /\ u = SubSeq(t, Len(s) + 1, Len(t))
      OBVIOUS
    <3>2. TextSuffix(s, t) = u /\ Len(t) > Len(s)
      BY <2>2, <3>1 DEF TextSuffix
    <3>3. t \in Seq(V)
      BY <3>1 DEF IsSeq
    <3>4. u \in Seq(V)
      BY <1>1, <3>1, <3>2, <3>3, SubSeqProperties
    <3>5. u \in [1 .. Len(u) -> V] /\ Len(u) \in Nat
      BY ONLY <3>4, LenProperties
    <3>6. DOMAIN u = 1 .. Len(u) /\ u = [k \in DOMAIN u |-> u[k]]
      BY ONLY <3>5
    <3> QED
      BY <3>2, <3>5, <3>6, SeqMade
  <2> QED
    BY <2>1, <2>2
<1> QED
  BY <1>2, <1>3, <1>4

-----------------------------------------------------------------------------
(* Reasoning that is buffered: the first chunk of the summary, if it came  *)
(* before any text, and the text.                                          *)
FirstChunk(s) == IF s = << >> THEN << >> ELSE <<s[1]>>

BufText(n, t) == t = FirstChunk(n.summary) \o n.text \/ (n.text # << >> /\ t = n.text)

LEMMA FrontSeq == ASSUME NEW s PROVE IsSeq(FirstChunk(s)) /\ (FirstChunk(s) = << >> <=> s = << >>)
<1>1. CASE s = << >>
  BY <1>1, SeqNone DEF FirstChunk
<1>2. CASE s # << >>
  <2>1. PICK a : a = s[1]
    OBVIOUS
  <2>2. FirstChunk(s) = <<a>> /\ IsSeq(<<a>>) /\ <<a>> # << >>
    BY <1>2, <2>1, SeqOne DEF FirstChunk
  <2> QED
    BY <1>2, <2>2
<1> QED
  BY <1>1, <1>2

LEMMA FrontGrows ==
  ASSUME NEW s, IsSeq(s), NEW d, IsSeq(d)
  PROVE  /\ s # << >> => FirstChunk(s \o d) = FirstChunk(s)
         /\ s = << >> => FirstChunk(s \o d) = FirstChunk(d)
         /\ Len(d) <= 1 => FirstChunk(d) = d
<1>1. ASSUME s # << >> PROVE FirstChunk(s \o d) = FirstChunk(s)
  <2>1. PICK w, n, l : w = s \o d /\ n = Len(s) /\ l = Len(d)
    OBVIOUS
  <2>2. /\ IsSeq(w) /\ Len(w) = n + l /\ n \in Nat /\ l \in Nat /\ n # 0
        /\ \A j \in 1 .. (n + l) : w[j] = IF j <= n THEN s[j] ELSE d[j - n]
    BY <1>1, <2>1, SeqJoined, SeqEmpty
  <2>3. w[1] = s[1] /\ Len(w) # 0
    BY <2>2
  <2>4. w # << >>
    BY <2>2, <2>3, SeqEmpty
  <2> QED
    BY <1>1, <2>1, <2>3, <2>4 DEF FirstChunk
<1>2. s = << >> => FirstChunk(s \o d) = FirstChunk(d)
  BY JoinNone
<1>3. ASSUME Len(d) <= 1 PROVE FirstChunk(d) = d
  <2>1. CASE d = << >>
    BY <2>1 DEF FirstChunk
  <2>2. CASE d # << >>
    <3>1. PICK a, b : a = d[1] /\ b = <<a>>
      OBVIOUS
    <3>2. IsSeq(b) /\ Len(b) = 1 /\ b[1] = a
      BY <3>1, SeqOne
    <3>3. Len(d) = 1
      <4>1. Len(d) # 0
        BY <2>2, SeqEmpty
      <4>2. PICK l : l = Len(d) /\ l \in Nat /\ l # 0 /\ l <= 1
        BY <1>3, <4>1, SeqDomain
      <4> QED
        BY <4>2
    <3>4. d = b
      BY <3>1, <3>2, <3>3, SeqSameAs
    <3> QED
      BY <2>2, <3>1, <3>4 DEF FirstChunk
  <2> QED
    BY <2>1, <2>2
<1> QED
  BY <1>1, <1>2, <1>3

(* Its first chunk is what a summary lacks nothing but a run of; so it     *)
(* stays when both grow, and when its end is added.                        *)
LEMMA RunSame == ASSUME NEW s, IsSeq(s) PROVE LacksRun(s, s) /\ LacksRun(FirstChunk(s), s)
<1>1. LacksRun(s, s)
  BY DEF LacksRun
<1>2. CASE s = << >>
  BY <1>1, <1>2 DEF FirstChunk
<1>3. CASE s # << >>
  <2>1. PICK k, n, a, r : k = Len(s) + 1 /\ n = Len(s) /\ a = <<s[1]>> /\ r = SubSeq(s, k, n)
    OBVIOUS
  <2>2. n \in Nat /\ n # 0 /\ k \in 2 .. (n + 1) /\ k \in Int /\ n \in Int /\ n < k
    BY <1>3, <2>1, SeqEmpty
  <2>3. r = << >>
    BY <2>1, <2>2, SubSeqEmpty
  <2>4. FirstChunk(s) = a /\ IsSeq(a)
    BY <1>3, <2>1, SeqOne DEF FirstChunk
  <2>5. a \o r = a
    BY <2>3, <2>4, JoinNone
  <2> QED
    BY <1>1, <2>1, <2>2, <2>4, <2>5 DEF LacksRun
<1> QED
  BY <1>2, <1>3

LEMMA RunGrows ==
  ASSUME NEW s, IsSeq(s), NEW t, LacksRun(t, s), NEW d, IsSeq(d)
  PROVE  LacksRun(t \o d, s \o d)
<1>1. CASE t = s
  BY <1>1 DEF LacksRun
<1>2. ASSUME NEW k \in 2 .. (Len(s) + 1), t = <<s[1]>> \o SubSeq(s, k, Len(s))
      PROVE  LacksRun(t \o d, s \o d)
  <2>1. PICK a, r, w, n, l : a = <<s[1]>> /\ r = SubSeq(s, k, Len(s)) /\ w = s \o d /\ n = Len(s) /\ l = Len(d)
    OBVIOUS
  <2>2. /\ IsSeq(w) /\ Len(w) = n + l /\ n \in Nat /\ l \in Nat
        /\ \A j \in 1 .. (n + l) : w[j] = IF j <= n THEN s[j] ELSE d[j - n]
    BY <2>1, SeqJoined
  <2>3. k \in 1 .. (n + 1) /\ k \in 2 .. (Len(w) + 1) /\ w[1] = s[1]
    BY <1>2, <2>1, <2>2
  <2>4. IsSeq(r) /\ r \o d = SubSeq(w, k, Len(w))
    BY <2>1, <2>3, RestOf, RestGrows
  <2>5. (a \o r) \o d = a \o (r \o d)
    <3>1. IsSeq(a)
      BY <2>1, SeqOne
    <3>2. IsSeq(a) /\ IsSeq(r) /\ IsSeq(d)
      BY <2>4, <3>1
    <3> QED
      BY ONLY <3>2, JoinJoined
  <2>6. t \o d = <<w[1]>> \o SubSeq(w, k, Len(w))
    BY <1>2, <2>1, <2>3, <2>4, <2>5
  <2> QED
    BY <2>1, <2>3, <2>6 DEF LacksRun
<1> QED
  BY <1>1, <1>2 DEF LacksRun

LEMMA RunEnds ==
  ASSUME NEW s, IsSeq(s), NEW t, IsSeq(t), LacksRun(t, s)
  PROVE  LacksRun(t \o TextSuffix(t, s), s)
<1>1. CASE Len(s) > Len(t) /\ IsPrefix(t, s)
  <2>1. t \o TextSuffix(t, s) = s
    BY <1>1, PrefixCompleted DEF TextSuffix
  <2> QED
    BY <2>1, RunSame
<1>2. CASE ~(Len(s) > Len(t) /\ IsPrefix(t, s))
  <2>1. TextSuffix(t, s) = << >>
    BY <1>2 DEF TextSuffix
  <2> QED
    BY <2>1, JoinNone
<1> QED
  BY <1>1, <1>2

LEMMA BufThinks ==
  ASSUME NEW n, IsSeq(n.text), IsSeq(n.summary), NEW t, BufText(n, t)
  PROVE  BufferedThinking(n, t) /\ Len(n.text) <= Len(t) /\ (n.text = << >> => t = FirstChunk(n.summary))
<1>1. PICK f, u, o : f = FirstChunk(n.summary) /\ u = n.text /\ o = << >>
  OBVIOUS
<1>2. IsSeq(f) /\ IsSeq(u) /\ IsSeq(f \o u) /\ Len(f \o u) = Len(f) + Len(u) /\ Len(f) \in Nat /\ Len(u) \in Nat
  <2>1. IsSeq(f) /\ IsSeq(u)
    BY <1>1, FrontSeq
  <2>2. IsSeq(f \o u) /\ Len(f \o u) = Len(f) + Len(u) /\ Len(f) \in Nat /\ Len(u) \in Nat
    BY ONLY <2>1, SeqJoined
  <2> QED
    BY <2>1, <2>2
<1>3. Len(u) <= Len(t)
  <2>1. PICK l, m : l = Len(f) /\ m = Len(u) /\ l \in Nat /\ m \in Nat
    BY <1>2
  <2>2. Len(f \o u) = l + m /\ (t = f \o u \/ t = u)
    BY <1>1, <1>2, <2>1 DEF BufText
  <2> QED
    BY <2>1, <2>2
<1>4. CASE u = o
  <2>1. t = f
    BY <1>1, <1>2, <1>4, JoinNone DEF BufText
  <2>2. LacksRun(f, n.summary)
    BY <1>1, RunSame
  <2> QED
    BY <1>1, <1>3, <1>4, <2>1, <2>2 DEF BufferedThinking
<1>5. CASE u # o /\ n.summary = o
  <2>1. t = u
    BY <1>1, <1>2, <1>5, JoinNone DEF BufText, FirstChunk
  <2> QED
    BY <1>1, <1>3, <1>5, <2>1 DEF BufferedThinking
<1>6. CASE u # o /\ n.summary # o
  BY <1>1, <1>3, <1>6 DEF BufferedThinking, BufText, FirstChunk
<1> QED
  BY <1>4, <1>5, <1>6

(* A delta adds text or one chunk of the summary.                          *)
LEMMA BufTextGrows ==
  ASSUME NEW q, IsSeq(q.text), IsSeq(q.summary), NEW d, IsSeq(d.text), IsSeq(d.summary),
         NEW r, r.text = q.text \o d.text, r.summary = q.summary \o d.summary,
         d.text = << >> \/ d.summary = << >>, Len(d.summary) <= 1, NEW t, BufText(q, t),
         NEW w, w = IF d.text # << >> THEN t \o d.text ELSE IF t = << >> THEN d.summary ELSE t
  PROVE  BufText(r, w)
<1>1. PICK o, f, u, v, c : o = << >> /\ f = FirstChunk(q.summary) /\ u = q.text /\ v = d.text /\ c = d.summary
  OBVIOUS
<1>2. IsSeq(f) /\ (f = o <=> q.summary = o) /\ IsSeq(u) /\ IsSeq(v) /\ IsSeq(c)
  BY <1>1, FrontSeq
<1>3. t = f \o u \/ (u # o /\ t = u)
  BY <1>1 DEF BufText
<1>4. CASE v # o
  <2>1. r.summary = q.summary /\ r.text = u \o v /\ w = t \o v
    BY <1>1, <1>4, JoinNone
  <2>2. CASE t = f \o u
    <3>1. (f \o u) \o v = f \o (u \o v)
      <4>1. IsSeq(f) /\ IsSeq(u) /\ IsSeq(v)
        BY <1>2
      <4> QED
        BY ONLY <4>1, JoinJoined
    <3> QED
      BY <1>1, <2>1, <2>2, <3>1 DEF BufText
  <2>3. CASE u # o /\ t = u
    <3>1. Len(u \o v) = Len(u) + Len(v) /\ Len(u) \in Nat /\ Len(v) \in Nat /\ Len(v) # 0 /\ IsSeq(u \o v)
      <4>1. IsSeq(u) /\ IsSeq(v) /\ v # << >>
        BY <1>1, <1>2, <1>4
      <4>2. Len(v) # 0
        BY ONLY <4>1, SeqEmpty
      <4> QED
        BY ONLY <4>1, <4>2, SeqJoined, SeqDomain
    <3>2. u \o v # o
      BY <1>1, <3>1, SeqNone
    <3> QED
      BY <1>1, <2>1, <2>3, <3>2 DEF BufText
  <2> QED
    BY <1>3, <2>2, <2>3
<1>5. CASE v = o
  <2>1. r.text = u /\ w = IF t = o THEN c ELSE t
    BY <1>1, <1>2, <1>5, JoinNone
  <2>2. /\ q.summary # o => FirstChunk(r.summary) = f
        /\ q.summary = o => FirstChunk(r.summary) = c
    BY <1>1, FrontGrows
  <2>3. CASE t = f \o u /\ q.summary = o
    <3>1. t = u
      BY <1>1, <1>2, <2>3, JoinNone
    <3>2. CASE u = o
      <4>1. c \o o = c
        BY <1>1, <1>2, JoinNone
      <4> QED
        BY <1>1, <2>1, <2>2, <2>3, <3>1, <3>2, <4>1 DEF BufText
    <3>3. CASE u # o
      BY <1>1, <2>1, <3>1, <3>3 DEF BufText
    <3> QED
      BY <3>2, <3>3
  <2>4. CASE t = f \o u /\ q.summary # o
    <3>1. Len(f \o u) = Len(f) + Len(u) /\ Len(f) \in Nat /\ Len(u) \in Nat /\ Len(f) # 0 /\ IsSeq(f \o u)
      BY <1>1, <1>2, <2>4, SeqJoined, SeqEmpty
    <3>2. t # o
      BY <1>1, <2>4, <3>1, SeqNone
    <3> QED
      BY <1>1, <2>1, <2>2, <2>4, <3>2 DEF BufText
  <2>5. CASE u # o /\ t = u
    BY <1>1, <2>1, <2>5 DEF BufText
  <2> QED
    BY <1>3, <2>3, <2>4, <2>5
<1> QED
  BY <1>4, <1>5

-----------------------------------------------------------------------------
(* The elements of a set of numbers, in their order.                       *)
Nums(S) == InOrder([i \in Nat |-> i], S)

Within(S, n) == n \in Nat /\ S \subseteq 0 .. n

Above(S, x) == \A y \in S : y < x

FromGood(p, T, a) == IsSeq(a) /\ \A k \in 1 .. Len(a) : \E i \in T : a[k] = p[i]

From == INSTANCE FoldTheorems WITH Op <- OrderStep, Good <- FromGood

LEMMA FromLoop ==
  ASSUME NEW f, NEW S
  PROVE  InOrder(f, S) = From!Loop(f, << >>, S)
BY DEF InOrder, FoldAscending, From!Loop, MapThenFoldSet, From!MapThenFoldSet, Max, From!Max, OrderStep

LEMMA AppendedAt ==
  ASSUME NEW s, IsSeq(s), NEW x
  PROVE  /\ IsSeq(Append(s, x)) /\ Len(Append(s, x)) = Len(s) + 1 /\ Len(s) \in Nat
         /\ Append(s, x)[Len(s) + 1] = x
         /\ \A k \in 1 .. Len(s) : Append(s, x)[k] = s[k]
<1>1. PICK V : V = {s[k] : k \in DOMAIN s} \union {x}
  OBVIOUS
<1>2. s \in Seq(V) /\ x \in V
  BY <1>1 DEF IsSeq
<1>3. /\ \A k \in 1 .. Len(s) : Append(s, x)[k] = s[k]
      /\ Append(s, x)[Len(s) + 1] = x
  BY ONLY <1>2, AppendProperties
<1> QED
  BY <1>3, SeqAppended, SeqDomain

LEMMA OrderFrom ==
  ASSUME NEW f, NEW n, NEW S, Within(S, n)
  PROVE  /\ IsSeq(InOrder(f, S))
         /\ \A k \in 1 .. Len(InOrder(f, S)) : \E i \in S : InOrder(f, S)[k] = f[i]
<1>1. FromGood(f, {}, << >>)
  <2>1. IsSeq(<< >>) /\ Len(<< >>) = 0
    BY SeqNone
  <2> QED
    BY <2>1 DEF FromGood
<1>2. ASSUME NEW T \in SUBSET S, NEW x \in S \ T, NEW a, FromGood(f, T, a)
      PROVE  FromGood(f, T \union {x}, OrderStep(f, a, x))
  <2>1. PICK b, y : b = Append(a, f[x]) /\ y = f[x]
    OBVIOUS
  <2>2. IsSeq(a) /\ \A k \in 1 .. Len(a) : \E i \in T : a[k] = f[i]
    BY <1>2 DEF FromGood
  <2>3. /\ IsSeq(b) /\ Len(b) = Len(a) + 1 /\ Len(a) \in Nat /\ b[Len(a) + 1] = y
        /\ \A k \in 1 .. Len(a) : b[k] = a[k]
    BY <2>1, <2>2, AppendedAt
  <2>4. ASSUME NEW k \in 1 .. Len(b) PROVE \E i \in T \union {x} : b[k] = f[i]
    <3>1. k \in 1 .. Len(a) \/ k = Len(a) + 1
      BY <2>3
    <3> QED
      BY <2>1, <2>2, <2>3, <3>1
  <2> QED
    BY <2>1, <2>3, <2>4 DEF FromGood, OrderStep
<1>3. FromGood(f, S, From!Loop(f, << >>, S))
  <2>1. n \in Nat /\ S \subseteq 0 .. n
    BY DEF Within
  <2> QED
    BY <1>1, <1>2, <2>1, From!LoopInvariant
<1> QED
  BY <1>3, FromLoop DEF FromGood

LEMMA NumsNext ==
  ASSUME NEW n, NEW S, Within(S, n), NEW x, x \in 0 .. n, Above(S, x)
  PROVE  Nums({}) = << >> /\ Nums(S \union {x}) = Append(Nums(S), x)
<1>1. PICK f : f = [i \in Nat |-> i]
  OBVIOUS
<1>2. PICK b : b = << >>
  OBVIOUS
<1>3. n \in Nat /\ S \subseteq 0 .. n /\ x \in 0 .. n /\ \A y \in S : y < x
  BY DEF Within, Above
<1>4. From!Loop(f, b, {}) = b /\ From!Loop(f, b, S \union {x}) = OrderStep(f, From!Loop(f, b, S), x)
  <2>1. From!Follows(S, x, n)
    BY <1>3 DEF From!Follows
  <2> QED
    BY ONLY <2>1, From!LoopNext
<1>5. f[x] = x
  BY <1>1, <1>3
<1> QED
  BY <1>1, <1>2, <1>4, <1>5, FromLoop DEF Nums, OrderStep

LEMMA NumsNone == Nums({}) = << >>
<1>1. PICK n, S : n = 0 /\ S = {}
  OBVIOUS
<1>2. Within(S, n) /\ n \in 0 .. n /\ Above(S, n)
  BY <1>1 DEF Within, Above
<1> QED
  BY ONLY <1>2, NumsNext

LEMMA NumsIn ==
  ASSUME NEW n, NEW S, Within(S, n)
  PROVE  /\ IsSeq(Nums(S)) /\ Len(Nums(S)) \in Nat
         /\ \A k \in 1 .. Len(Nums(S)) : Nums(S)[k] \in S
<1>1. PICK f : f = [i \in Nat |-> i]
  OBVIOUS
<1>2. /\ IsSeq(InOrder(f, S))
      /\ \A k \in 1 .. Len(InOrder(f, S)) : \E i \in S : InOrder(f, S)[k] = f[i]
  <2>1. Within(S, n)
    OBVIOUS
  <2> QED
    BY ONLY <2>1, OrderFrom
<1>3. \A i \in S : f[i] = i
  BY <1>1 DEF Within
<1> QED
  BY <1>1, <1>2, <1>3, SeqDomain DEF Nums

HeadGood(p, T, a) == a = Nums(T)

Heads == INSTANCE FoldTheorems WITH Op <- OrderStep, Good <- HeadGood

LEMMA HeadLoop ==
  ASSUME NEW f, NEW S
  PROVE  InOrder(f, S) = Heads!Loop(f, << >>, S)
BY DEF InOrder, FoldAscending, Heads!Loop, MapThenFoldSet, Heads!MapThenFoldSet, Max, Heads!Max, OrderStep

LEMMA HeadsNums ==
  ASSUME NEW f, NEW n, NEW S, Within(S, n), \A i \in S : f[i] = i
  PROVE  InOrder(f, S) = Nums(S)
<1>1. HeadGood(f, {}, << >>)
  BY NumsNone DEF HeadGood
<1>2. ASSUME NEW T \in SUBSET S, NEW x \in S \ T, NEW a, HeadGood(f, T, a), Above(T, x)
      PROVE  HeadGood(f, T \union {x}, OrderStep(f, a, x))
  <2>1. Within(T, n) /\ x \in 0 .. n /\ f[x] = x /\ a = Nums(T)
    BY <1>2 DEF HeadGood, Within
  <2>2. Nums(T \union {x}) = Append(Nums(T), x)
    BY <1>2, <2>1, NumsNext
  <2> QED
    BY <2>1, <2>2 DEF HeadGood, OrderStep
<1>3. HeadGood(f, S, Heads!Loop(f, << >>, S))
  <2>1. n \in Nat /\ S \subseteq 0 .. n
    BY DEF Within
  <2> QED
    BY <1>1, <1>2, <2>1, Heads!LoopInvariant DEF Above
<1> QED
  BY <1>3, HeadLoop DEF HeadGood

-----------------------------------------------------------------------------
(* What is in the last block of the client; the blocks before it are those *)
(* of B.                                                                   *)
IsBlock(y) == DOMAIN y = {"kind", "text", "sig"} /\ IsSeq(y.text) /\ IsSeq(y.sig)

Holds(c, B, n, k, t, s) ==
  /\ n \in Nat /\ n # 0
  /\ \A j \in 1 .. (n - 1) : c.blocks[j] = B[j]
  /\ IsBlock(c.blocks[n])
  /\ c.blocks[n].kind = k /\ c.blocks[n].text = t /\ c.blocks[n].sig = s

Tip(c, B, n, k, t, s) == ClientAt(c, "body", n, n) /\ Holds(c, B, n, k, t, s)

Shut(c, B, n, k, t, s) == ClientAt(c, "body", 0, n) /\ Holds(c, B, n, k, t, s)

LEMMA TipOpens ==
  ASSUME NEW n \in Nat, NEW c, ClientAt(c, "body", 0, n), NEW kind, NEW data, IsSeq(data)
  PROVE  Tip(OnBlockStart(c, n + 1, kind, data), c.blocks, n + 1, kind, << >>, data)
<1>1. PICK y, z : y = [kind |-> kind, text |-> z, sig |-> data] /\ z = << >>
  OBVIOUS
<1>2. PICK o : o = OnBlockStart(c, n + 1, kind, data)
  OBVIOUS
<1>3. ClientAt(o, "body", n + 1, n + 1)
  BY <1>2, ClientOpens
<1>4. IsSeq(c.blocks) /\ Len(c.blocks) = n
  BY DEF ClientAt
<1>5. o.blocks = Append(c.blocks, y)
  BY <1>1, <1>2 DEF ClientAt, OnBlockStart
<1>6. o.blocks[n + 1] = y /\ \A j \in 1 .. n : o.blocks[j] = c.blocks[j]
  BY ONLY <1>4, <1>5, AppendedAt
<1>7. IsSeq(z)
  BY <1>1, SeqNone
<1>8. IsBlock(y) /\ y.kind = kind /\ y.text = z /\ y.sig = data
  BY <1>1, <1>7 DEF IsBlock
<1>9. (n + 1) - 1 = n /\ n + 1 # 0 /\ n + 1 \in Nat
  OBVIOUS
<1> QED
  BY <1>1, <1>2, <1>3, <1>6, <1>8, <1>9 DEF Tip, Holds

LEMMA TipReads ==
  ASSUME NEW c, NEW B, NEW n, NEW k, NEW t, NEW s, Tip(c, B, n, k, t, s), NEW f, IsSeq(f)
  PROVE  /\ Tip(OnBlockDelta(c, n, "text", f), B, n, k, t \o f, s)
         /\ Tip(OnBlockDelta(c, n, "sig", f), B, n, k, t, s \o f)
<1>1. PICK y : y = c.blocks[n]
  OBVIOUS
<1>2. /\ n \in Nat /\ n # 0 /\ ClientAt(c, "body", n, n) /\ IsBlock(y) /\ y.kind = k /\ y.text = t /\ y.sig = s
      /\ \A j \in 1 .. (n - 1) : c.blocks[j] = B[j]
  BY <1>1 DEF Tip, Holds
<1>3. IsSeq(t \o f) /\ IsSeq(s \o f)
  BY <1>2, SeqJoined DEF IsBlock
<1>4. ASSUME NEW g, NEW z, IsBlock(z), g = [c EXCEPT !.blocks = [c.blocks EXCEPT ![n] = z]], ClientAt(g, "body", n, n)
      PROVE  Tip(g, B, n, k, z.text, z.sig) \/ z.kind # k
  <2>1. g.blocks = [c.blocks EXCEPT ![n] = z] /\ DOMAIN c.blocks = 1 .. n
    BY <1>2, <1>4, SeqDomain DEF ClientAt
  <2>2. g.blocks[n] = z /\ \A j \in 1 .. (n - 1) : g.blocks[j] = B[j]
    BY <1>2, <2>1
  <2> QED
    BY <1>2, <1>4, <2>2 DEF Tip, Holds
<1>5. PICK a, z : a = OnBlockDelta(c, n, "text", f) /\ z = [y EXCEPT !.text = y.text \o f]
  OBVIOUS
<1>6. a = [c EXCEPT !.blocks = [c.blocks EXCEPT ![n] = z]] /\ ClientAt(a, "body", n, n)
  <2>1. ClientAt(a, "body", n, n)
    BY <1>2, <1>5, ClientReads
  <2> QED
    BY <1>1, <1>2, <1>5, <2>1 DEF OnBlockDelta, ClientAt
<1>7. IsBlock(z) /\ z.kind = k /\ z.text = t \o f /\ z.sig = s
  BY <1>2, <1>3, <1>5 DEF IsBlock
<1>8. Tip(a, B, n, k, t \o f, s)
  BY <1>4, <1>6, <1>7
<1>9. PICK b, x : b = OnBlockDelta(c, n, "sig", f) /\ x = [y EXCEPT !.sig = y.sig \o f]
  OBVIOUS
<1>10. b = [c EXCEPT !.blocks = [c.blocks EXCEPT ![n] = x]] /\ ClientAt(b, "body", n, n)
  <2>1. ClientAt(b, "body", n, n)
    BY <1>2, <1>9, ClientReads
  <2> QED
    BY <1>1, <1>2, <1>9, <2>1 DEF OnBlockDelta, ClientAt
<1>11. IsBlock(x) /\ x.kind = k /\ x.text = t /\ x.sig = s \o f
  BY <1>2, <1>3, <1>9 DEF IsBlock
<1>12. Tip(b, B, n, k, t, s \o f)
  BY <1>4, <1>10, <1>11
<1> QED
  BY <1>5, <1>8, <1>9, <1>12

LEMMA TipCloses ==
  ASSUME NEW c, NEW B, NEW n, NEW k, NEW t, NEW s, Tip(c, B, n, k, t, s)
  PROVE  Shut(OnBlockStop(c, n), B, n, k, t, s)
<1>1. ClientAt(c, "body", n, n) /\ Holds(c, B, n, k, t, s)
  BY DEF Tip
<1>2. PICK a : a = OnBlockStop(c, n)
  OBVIOUS
<1>3. ClientAt(a, "body", 0, n)
  BY <1>1, <1>2, ClientCloses
<1>4. a.blocks = c.blocks
  BY <1>1, <1>2 DEF OnBlockStop, ClientAt
<1> QED
  BY <1>1, <1>2, <1>3, <1>4 DEF Shut, Holds

LEMMA TipSeqs ==
  ASSUME NEW c, NEW B, NEW n, NEW k, NEW t, NEW s, Tip(c, B, n, k, t, s)
  PROVE  IsSeq(t) /\ IsSeq(s) /\ n \in Nat /\ n # 0
BY DEF Tip, Holds, IsBlock

LEMMA TipSends ==
  ASSUME NEW e, IsEnc(e), NEW B, NEW n, NEW k, NEW t, NEW s, Tip(e.client, B, n, k, t, s), NEW f, IsSeq(f)
  PROVE  /\ \E c : SendDelta(e, n, "text", f) = SetClient(e, c) /\ Tip(c, B, n, k, t \o f, s)
         /\ \E c : SendDelta(e, n, "sig", f) = SetClient(e, c) /\ Tip(c, B, n, k, t, s \o f)
<1>1. PICK z : z = e.client
  OBVIOUS
<1>2. CASE f = << >>
  <2>1. t \o f = t /\ s \o f = s
    BY <1>2, JoinNone, TipSeqs
  <2>2. SetClient(e, z) = e
    BY <1>1, ClientKept
  <2>3. SendDelta(e, n, "text", f) = SetClient(e, z) /\ SendDelta(e, n, "sig", f) = SetClient(e, z)
    BY <1>2, <2>2 DEF SendDelta
  <2> QED
    BY <1>1, <2>1, <2>3
<1>3. CASE f # << >>
  <2>1. PICK a, b : a = OnBlockDelta(z, n, "text", f) /\ b = OnBlockDelta(z, n, "sig", f)
    OBVIOUS
  <2>2. Tip(z, B, n, k, t, s) /\ IsSeq(f)
    BY <1>1
  <2>3. Tip(a, B, n, k, t \o f, s) /\ Tip(b, B, n, k, t, s \o f)
    BY ONLY <2>1, <2>2, TipReads
  <2>4. SendDelta(e, n, "text", f) = SetClient(e, a) /\ SendDelta(e, n, "sig", f) = SetClient(e, b)
    BY <1>1, <1>3, <2>1 DEF SendDelta, SetClient
  <2> QED
    BY <2>3, <2>4
<1> QED
  BY <1>2, <1>3

(* What a delta shows.                                                     *)
ShownOf(d) == IF d.text # << >> THEN d.text ELSE IF d.marked THEN d.summary ELSE << >>

IsDelta(d) == IsSeq(d.text) /\ IsSeq(d.summary) /\ IsSeq(d.sig)

LEMMA ShownSeq == ASSUME NEW d, IsDelta(d) PROVE IsSeq(ShownOf(d))
BY SeqNone DEF IsDelta, ShownOf

(* Node delta d takes text t and signature s of the last block to u and v. *)
Adds(p, d, t, s, u, v) ==
  p.kind # "redacted" /\ IsDelta(d) /\ u = t \o ShownOf(d) /\ v = s \o d.sig

EncTip(e, B, n, k, t, s) == IsEnc(e) /\ Tip(e.client, B, n, k, t, s)

LEMMA TipLive ==
  ASSUME NEW e, NEW B, NEW n, NEW k, NEW t, NEW s, EncTip(e, B, n, k, t, s),
         NEW p, NEW d, NEW u, NEW v, Adds(p, d, t, s, u, v)
  PROVE  \E c : LiveDelta(e, n, p, d) = SetClient(e, c) /\ Tip(c, B, n, k, u, v)
<1>1. PICK h, g : h = ShownOf(d) /\ g = d.sig
  OBVIOUS
<1>2. IsSeq(h) /\ IsSeq(g) /\ IsEnc(e) /\ Tip(e.client, B, n, k, t, s) /\ u = t \o h /\ v = s \o g
  BY <1>1, ShownSeq DEF IsDelta, Adds, EncTip
<1>3. LiveDelta(e, n, p, d) = SendDelta(SendDelta(e, n, "text", h), n, "sig", g)
  BY <1>1 DEF LiveDelta, ShownOf, Adds
<1>4. PICK c : SendDelta(e, n, "text", h) = SetClient(e, c) /\ Tip(c, B, n, k, u, s)
  BY <1>2, TipSends
<1>5. PICK r : r = SetClient(e, c)
  OBVIOUS
<1>6. IsEnc(r) /\ Tip(r.client, B, n, k, u, s)
  BY <1>2, <1>4, <1>5, ClientSet
<1>7. PICK z : SendDelta(r, n, "sig", g) = SetClient(r, z) /\ Tip(z, B, n, k, u, v)
  BY ONLY <1>2, <1>6, TipSends
<1>8. SetClient(r, z) = SetClient(e, z)
  BY <1>2, <1>5, ClientSet
<1> QED
  BY <1>3, <1>4, <1>5, <1>7, <1>8

-----------------------------------------------------------------------------
(* What the encoder has kept of an answer: x has the nodes as the decoder  *)
(* has them, those started directly, the upstream and whether signatures   *)
(* are sealed.  Of a node the signature s has been passed on so far.       *)
Plain == {"text", "tool", "item"}

Streamed(n) == IF n.text = <<EmptyInput>> THEN << >> ELSE n.text

Main(x, n) == IF x.src = "messages" THEN n.summary ELSE n.text

Seal(x, n) == IF x.seal THEN Envelope(n.sig) ELSE n.sig

Pair(ns, i) == {i, i + 1} \subseteq ShownIn(ns) /\ ns[i].detail = "text" /\ ns[i + 1].detail = "encrypted"

Pairs(ns) == {i \in ShownIn(ns) : Pair(ns, i) /\ (i > 1 => i - 1 \in ShownIn(ns))}

IsPay(p) == DOMAIN p = {"kind", "text", "sig", "detail"} /\ IsSeq(p.text) /\ IsSeq(p.sig)

NodeFit(n) ==
  /\ n.kind \in Shown /\ IsSeq(n.text) /\ IsSeq(n.summary) /\ IsSeq(n.sig)
  /\ n.kind \in Plain => n.summary = << >>
  /\ n.kind = "item" => n.text # <<EmptyInput>>

Fresh(n) == n.kind = "thinking" => n.text = << >> /\ n.summary = << >>

BufOk(n, s, p) ==
  /\ IsPay(p) /\ p.kind = n.kind /\ p.detail = n.detail
  /\ n.kind \in Plain => p.text = Streamed(n)
  /\ n.kind = "thinking" => /\ BufText(n, p.text) /\ p.sig = s
                            /\ n.text = << >> /\ n.summary = << >> => p.text = << >>

LiveOk(x, i, s, p, y) ==
  LET n == x.ns[i]
  IN  /\ IsPay(p) /\ IsBlock(y) /\ p.kind = n.kind /\ p.detail = n.detail /\ y.kind = n.kind
      /\ n.kind \in Plain => p.text = Streamed(n) /\ y.text = Streamed(n)
      /\ n.kind = "thinking" =>
           /\ p.sig = s /\ y.sig = s
           /\ i \in x.dir => y.text = Main(x, n) /\ Len(p.text) = Len(n.text) + Len(n.summary)
           /\ i \notin x.dir => /\ BufferedThinking(n, y.text) /\ Len(n.text) <= Len(p.text)
                                /\ n.text = << >> => p.text = y.text

PendOk(x, i, p) ==
  LET n == x.ns[i]
  IN  /\ IsPay(p) /\ p.kind = n.kind /\ i \notin x.dir
      /\ n.kind \in Plain => p.text = n.text
      /\ n.kind = "thinking" => BufferedThinking(n, p.text) /\ p.sig = Seal(x, n)

Final(x, i, y) ==
  LET n == x.ns[i]
  IN  /\ y.kind = n.kind
      /\ n.kind \in Plain => y.text = n.text
      /\ n.kind = "thinking" =>
           /\ i \in x.dir => y.text = Main(x, n)
           /\ i \notin x.dir => BufferedThinking(n, y.text)
           /\ y.sig = Seal(x, IF i \in Pairs(x.ns) THEN x.ns[i + 1] ELSE n)

(* The blocks of B are those of the nodes of E.                            *)
Told(x, E, B, n) == n = Len(Nums(E)) /\ \A k \in 1 .. n : Final(x, Nums(E)[k], B[k])

LEMMA ToldSame ==
  ASSUME NEW x, NEW E, NEW B, NEW n, Told(x, E, B, n), NEW C, \A k \in 1 .. n : C[k] = B[k]
  PROVE  Told(x, E, C, n)
BY DEF Told

LEMMA ToldNone ==
  ASSUME NEW x, NEW B PROVE Told(x, {}, B, 0)
BY NumsNone, SeqNone DEF Told

LEMMA ToldMore ==
  ASSUME NEW x, NEW E, NEW B, NEW n, Told(x, E, B, n), NEW m, Within(E, m), NEW i, i \in 0 .. m, Above(E, i),
         NEW C, \A k \in 1 .. n : C[k] = B[k], Final(x, i, C[n + 1])
  PROVE  Told(x, E \union {i}, C, n + 1)
<1>1. PICK q, u : q = Nums(E) /\ u = Nums(E \union {i})
  OBVIOUS
<1>2. n = Len(q) /\ \A k \in 1 .. n : Final(x, q[k], B[k])
  BY <1>1 DEF Told
<1>3. IsSeq(q) /\ u = Append(q, i)
  BY <1>1, NumsIn, NumsNext
<1>4. /\ Len(u) = n + 1 /\ n \in Nat /\ u[n + 1] = i
      /\ \A k \in 1 .. n : u[k] = q[k]
  BY ONLY <1>2, <1>3, AppendedAt
<1>5. ASSUME NEW k \in 1 .. (n + 1) PROVE Final(x, u[k], C[k])
  <2>1. k \in 1 .. n \/ k = n + 1
    BY <1>4
  <2> QED
    BY <1>2, <1>4, <2>1
<1> QED
  BY <1>1, <1>4, <1>5 DEF Told

LEMMA ToldFor ==
  ASSUME NEW x, NEW E, NEW B, NEW n, Told(x, E, B, n), NEW m, Within(E, m),
         NEW z, \A i \in E : \A y : Final(x, i, y) => Final(z, i, y)
  PROVE  Told(z, E, B, n)
<1>1. \A k \in 1 .. Len(Nums(E)) : Nums(E)[k] \in E
  BY NumsIn
<1> QED
  BY <1>1 DEF Told

-----------------------------------------------------------------------------
(* All that is kept: E are the nodes whose blocks are closed.              *)
Bufs(e, x, g) == \A i \in DOMAIN e.live : i # e.open => BufOk(x.ns[i], g[i], e.live[i].payload)

Opened(e, x, g) ==
  e.open # 0 => /\ e.live[e.open].block = e.blocks
                /\ LiveOk(x, e.open, g[e.open], e.live[e.open].payload, e.client.blocks[e.blocks])

Pends(e, x) == \A i \in DOMAIN e.pending : PendOk(x, i, e.pending[i])

Surfaced(e, x, E) == \A i \in E : Surface(x.ns[i].kind) \in e.surfaces

Kept(e, x, g, E) ==
  /\ Bufs(e, x, g) /\ Opened(e, x, g) /\ Pends(e, x)
  /\ Told(x, E, e.client.blocks, IF e.open = 0 THEN e.blocks ELSE e.blocks - 1)
  /\ Surfaced(e, x, E) /\ (e.open # 0 => Surface(x.ns[e.open].kind) \in e.surfaces)

(* The first delta of a block is all that was kept of its node.            *)
LEMMA BlockFills ==
  ASSUME NEW e, IsEnc(e), NEW p, IsPay(p), NEW B, NEW b, Tip(e.client, B, b, p.kind, << >>, StartPayload(p))
  PROVE  \E c, t, s : /\ LiveDelta(e, b, p, PlainDelta(p.text, p.sig)) = SetClient(e, c)
                      /\ Tip(c, B, b, p.kind, t, s)
                      /\ p.kind # "redacted" => t = p.text /\ s = p.sig
<1>1. PICK d, z, a : d = PlainDelta(p.text, p.sig) /\ z = << >> /\ a = StartPayload(p)
  OBVIOUS
<1>2. d.text = p.text /\ d.summary = z /\ d.sig = p.sig /\ d.marked = FALSE
  BY <1>1 DEF PlainDelta
<1>3. IsDelta(d) /\ IsSeq(z)
  BY <1>1, <1>2, SeqNone DEF IsDelta, IsPay
<1>4. ShownOf(d) = p.text
  BY <1>1, <1>2 DEF ShownOf
<1>5. Tip(e.client, B, b, p.kind, z, a)
  BY <1>1
<1>6. CASE p.kind = "redacted"
  <2>1. LiveDelta(e, b, p, d) = e
    BY <1>6 DEF LiveDelta
  <2>2. SetClient(e, e.client) = e
    BY ClientKept
  <2> QED
    BY <1>1, <1>5, <1>6, <2>1, <2>2
<1>7. CASE p.kind # "redacted"
  <2>1. PICK k, h, f : k = p.kind /\ h = p.text /\ f = p.sig
    OBVIOUS
  <2>2. a = z
    BY <1>1, <1>7 DEF StartPayload
  <2>3. z \o h = h /\ z \o f = f
    BY <1>1, <2>1, JoinNone DEF IsPay
  <2>4. EncTip(e, B, b, k, z, a)
    BY <1>5, <2>1 DEF EncTip
  <2>5. Adds(p, d, z, a, h, f)
    BY <1>2, <1>3, <1>4, <1>7, <2>1, <2>2, <2>3 DEF Adds
  <2>6. PICK c : LiveDelta(e, b, p, d) = SetClient(e, c) /\ Tip(c, B, b, k, h, f)
    BY ONLY <2>4, <2>5, TipLive
  <2> QED
    BY <1>1, <2>1, <2>6
<1> QED
  BY <1>6, <1>7

LEMMA LiveFromBuf ==
  ASSUME NEW x, NEW i, NEW s, NEW p, NEW n, n = x.ns[i], BufOk(n, s, p), NodeFit(n), i \notin x.dir \/ Fresh(n),
         NEW y, IsBlock(y), y.kind = p.kind, p.kind # "redacted" => y.text = p.text /\ y.sig = p.sig
  PROVE  LiveOk(x, i, s, p, y)
<1>1. /\ IsPay(p) /\ p.kind = n.kind /\ p.detail = n.detail
      /\ IsSeq(p.text) /\ IsSeq(n.text) /\ IsSeq(n.summary)
  BY DEF BufOk, IsPay, NodeFit
<1>2. ASSUME n.kind \in Plain PROVE p.text = Streamed(n) /\ y.text = Streamed(n)
  BY <1>1, <1>2 DEF BufOk, Plain
<1>3. ASSUME n.kind = "thinking" PROVE p.sig = s /\ y.sig = s /\ y.text = p.text /\ BufText(n, p.text)
  BY <1>1, <1>3 DEF BufOk
<1>4. ASSUME n.kind = "thinking", i \in x.dir
      PROVE  y.text = Main(x, n) /\ Len(p.text) = Len(n.text) + Len(n.summary)
  <2>1. n.text = << >> /\ n.summary = << >>
    BY <1>4 DEF Fresh
  <2>2. p.text = << >>
    BY <1>4, <2>1 DEF BufOk
  <2>3. PICK z : z = << >> /\ Len(z) = 0
    BY SeqNone
  <2> QED
    BY <1>3, <1>4, <2>1, <2>2, <2>3 DEF Main
<1>5. ASSUME n.kind = "thinking" PROVE BufferedThinking(n, p.text) /\ Len(n.text) <= Len(p.text)
  BY <1>1, <1>3, <1>5, BufThinks
<1> QED
  BY <1>1, <1>2, <1>3, <1>4, <1>5 DEF LiveOk

-----------------------------------------------------------------------------
(* The next node's block is opened with what was kept of it.               *)
Startable(x, i) == NodeFit(x.ns[i]) /\ (i \notin x.dir \/ Fresh(x.ns[i]))

Kin(r, e) ==
  /\ r.pending = e.pending /\ r.absorbed = e.absorbed /\ r.direct = e.direct
  /\ r.next = e.next /\ DOMAIN r.live = DOMAIN e.live

LEMMA StartsShown ==
  ASSUME NEW m \in Nat, NEW e, EncInv(e, m), e.open = 0, e.next \in DOMAIN e.live,
         NEW x, NEW g, NEW E, Kept(e, x, g, E), Startable(x, e.next)
  PROVE  /\ Kept(TryStartNextLiveBlock(e), x, g, E)
         /\ TryStartNextLiveBlock(e).open = e.next
         /\ Kin(TryStartNextLiveBlock(e), e)
<1>1. PICK i, b, n : i = e.next /\ b = n + 1 /\ n = e.blocks
  OBVIOUS
<1>2. PICK p, B : p = e.live[i].payload /\ B = e.client.blocks
  OBVIOUS
<1>3. PICK L : L = [e.live EXCEPT ![i] = [e.live[i] EXCEPT !.block = b]]
  OBVIOUS
<1>4. PICK o : o = OnBlockStart(e.client, b, p.kind, StartPayload(p))
  OBVIOUS
<1>5. e.live[i].block = 0 /\ DOMAIN e.live[i] = {"payload", "block"} /\ i # 0 /\ i \in Nat /\ i \in DOMAIN e.live
  BY <1>1 DEF EncInv, LiveBlocks, Counters, Places
<1>6. IsEnc(e) /\ e.sent = TRUE /\ n \in Nat /\ b # 0 /\ b \in Nat /\ b - 1 = n
  BY <1>1 DEF EncInv, InStep, Counters
<1>7. BufOk(x.ns[i], g[i], p)
  BY <1>1, <1>2, <1>5 DEF Kept, Bufs
<1>8. IsPay(p) /\ IsSeq(StartPayload(p))
  BY <1>7, SeqNone DEF BufOk, IsPay, StartPayload
<1>9. Tip(o, B, b, p.kind, << >>, StartPayload(p))
  <2>1. ClientAt(e.client, "body", 0, n)
    BY <1>1, <1>6 DEF EncInv, InStep, OpenBlock
  <2> QED
    BY <1>1, <1>2, <1>4, <1>6, <1>8, <2>1, TipOpens
<1>10. /\ DOMAIN L = DOMAIN e.live /\ L[i].block = b /\ L[i].payload = p
       /\ \A j \in DOMAIN e.live : j # i => L[j] = e.live[j]
  BY <1>2, <1>3, <1>5
<1>11. PICK u : u = e.surfaces \union {Surface(p.kind)}
  OBVIOUS
<1>12. PICK v : v = [e EXCEPT !.blocks = b, !.live = L, !.client = o]
  OBVIOUS
<1>13. LiveBlockStart(e, i) = v
  BY <1>1, <1>2, <1>3, <1>4, <1>5, <1>12 DEF LiveBlockStart
<1>14. /\ IsEnc(v) /\ v.client = o /\ v.next = i /\ v.blocks = b /\ v.live = L /\ v.direct = e.direct
       /\ v.pending = e.pending /\ v.absorbed = e.absorbed /\ v.surfaces = e.surfaces
  BY <1>1, <1>6, <1>12 DEF IsEnc, EncFields
<1>15. PICK s : s = [v EXCEPT !.surfaces = u, !.open = i]
  OBVIOUS
<1>16. TryStartNextLiveBlock(e) = AccumulatedDeltas(s, i)
  BY <1>1, <1>2, <1>11, <1>13, <1>14, <1>15 DEF TryStartNextLiveBlock
<1>17. /\ IsEnc(s) /\ s.client = o /\ s.open = i /\ s.next = i /\ s.blocks = b /\ s.direct = e.direct
       /\ s.live = L /\ s.pending = e.pending /\ s.absorbed = e.absorbed /\ s.surfaces = u
  BY <1>14, <1>15 DEF IsEnc, EncFields
<1>18. AccumulatedDeltas(s, i) = LiveDelta(s, b, p, PlainDelta(p.text, p.sig))
  BY <1>10, <1>17 DEF AccumulatedDeltas
<1>19. PICK c, t, h : /\ LiveDelta(s, b, p, PlainDelta(p.text, p.sig)) = SetClient(s, c)
                      /\ Tip(c, B, b, p.kind, t, h)
                      /\ p.kind # "redacted" => t = p.text /\ h = p.sig
  <2>1. IsEnc(s) /\ IsPay(p) /\ Tip(s.client, B, b, p.kind, << >>, StartPayload(p))
    BY <1>8, <1>9, <1>17
  <2> QED
    BY ONLY <2>1, BlockFills
<1>20. PICK r, y : r = SetClient(s, c) /\ y = c.blocks[b]
  OBVIOUS
<1>21. /\ IsEnc(r) /\ r.client = c /\ r.open = i /\ r.next = i /\ r.blocks = b /\ r.direct = e.direct
       /\ r.live = L /\ r.pending = e.pending /\ r.absorbed = e.absorbed /\ r.surfaces = u
  BY <1>17, <1>20, ClientSet DEF EncFields
<1>22. /\ IsBlock(y) /\ y.kind = p.kind /\ y.text = t /\ y.sig = h
       /\ \A j \in 1 .. n : c.blocks[j] = B[j]
  BY <1>6, <1>19, <1>20 DEF Tip, Holds
<1>23. LiveOk(x, i, g[i], p, y)
  <2>1. PICK q, w : q = x.ns[i] /\ w = g[i]
    OBVIOUS
  <2>2. q = x.ns[i] /\ BufOk(q, w, p) /\ NodeFit(q) /\ (i \notin x.dir \/ Fresh(q))
    BY <1>1, <1>7, <2>1 DEF Startable
  <2>3. IsBlock(y) /\ y.kind = p.kind /\ (p.kind # "redacted" => y.text = p.text /\ y.sig = p.sig)
    BY <1>19, <1>22
  <2>4. LiveOk(x, i, w, p, y)
    BY ONLY <2>2, <2>3, LiveFromBuf
  <2> QED
    BY <2>1, <2>4
<1>24. Bufs(r, x, g)
  <2>1. \A j \in DOMAIN e.live : BufOk(x.ns[j], g[j], e.live[j].payload)
    BY <1>5 DEF Kept, Bufs, EncInv, Places
  <2> QED
    BY <1>10, <1>21, <2>1 DEF Bufs
<1>25. Opened(r, x, g)
  BY <1>10, <1>20, <1>21, <1>23 DEF Opened
<1>26. Pends(r, x)
  BY <1>21 DEF Kept, Pends
<1>27. Told(x, E, c.blocks, n)
  <2>1. Told(x, E, B, n)
    BY <1>1, <1>2 DEF Kept
  <2> QED
    BY <1>22, <2>1, ToldSame
<1>28. Surfaced(r, x, E) /\ Surface(x.ns[i].kind) \in r.surfaces
  <2>1. x.ns[i].kind = p.kind
    BY <1>7 DEF BufOk
  <2> QED
    BY <1>11, <1>21, <2>1 DEF Kept, Surfaced
<1>29. Kept(r, x, g, E)
  BY <1>5, <1>6, <1>21, <1>24, <1>25, <1>26, <1>27, <1>28 DEF Kept
<1>30. Kin(r, e)
  BY <1>1, <1>10, <1>21 DEF Kin
<1> QED
  BY <1>1, <1>16, <1>18, <1>19, <1>20, <1>21, <1>29, <1>30

-----------------------------------------------------------------------------
(* A node that has ended is told at once.                                  *)
LEMMA FinalFromPend ==
  ASSUME NEW x, NEW i, NEW p, PendOk(x, i, p), i \notin Pairs(x.ns),
         NEW y, y.kind = p.kind, p.kind # "redacted" => y.text = p.text /\ y.sig = p.sig
  PROVE  Final(x, i, y)
BY DEF PendOk, Final, Plain

Emitted(r, a, i) ==
  /\ IsEnc(r) /\ Idle(r) /\ r.open = 0 /\ r.live = a.live /\ r.absorbed = a.absorbed /\ r.direct = a.direct
  /\ r.next = i + 1 /\ DOMAIN r.pending = DOMAIN a.pending \ {i}

Tellable(a, x, E, m, i) ==
  /\ IsEnc(a) /\ Idle(a) /\ a.open = 0 /\ i \in DOMAIN a.pending /\ i \notin Pairs(x.ns)
  /\ Within(E, m) /\ i \in 0 .. m /\ Above(E, i)

LEMMA EmitShown ==
  ASSUME NEW a, NEW x, NEW g, NEW E, Kept(a, x, g, E), NEW m, NEW i, Tellable(a, x, E, m, i)
  PROVE  Kept(EmitPending(a, i), x, g, E \union {i}) /\ Emitted(EmitPending(a, i), a, i)
<1>1. PICK n, b, p, B : n = a.blocks /\ b = n + 1 /\ p = a.pending[i] /\ B = a.client.blocks
  OBVIOUS
<1>2. /\ IsEnc(a) /\ a.sent = TRUE /\ n \in Nat /\ ClientAt(a.client, "body", 0, n) /\ a.open = 0 /\ i \in DOMAIN a.pending
      /\ b - 1 = n /\ b \in Nat
  BY <1>1 DEF Tellable, Idle
<1>3. PendOk(x, i, p)
  BY <1>1, <1>2 DEF Kept, Pends
<1>4. IsPay(p) /\ IsSeq(StartPayload(p)) /\ p.kind = x.ns[i].kind
  BY <1>3, SeqNone DEF PendOk, IsPay, StartPayload
<1>5. PICK o : o = OnBlockStart(a.client, b, p.kind, StartPayload(p))
  OBVIOUS
<1>6. Tip(o, B, b, p.kind, << >>, StartPayload(p))
  BY <1>1, <1>2, <1>4, <1>5, TipOpens
<1>7. PICK s : s = [a EXCEPT !.blocks = b, !.client = o]
  OBVIOUS
<1>8. /\ IsEnc(s) /\ s.client = o /\ s.open = 0 /\ s.blocks = b /\ s.direct = a.direct /\ s.sent = TRUE
      /\ s.live = a.live /\ s.pending = a.pending /\ s.absorbed = a.absorbed /\ s.surfaces = a.surfaces
  BY <1>2, <1>7 DEF IsEnc, EncFields
<1>9. PICK c, t, h : /\ LiveDelta(s, b, p, PlainDelta(p.text, p.sig)) = SetClient(s, c)
                     /\ Tip(c, B, b, p.kind, t, h)
                     /\ p.kind # "redacted" => t = p.text /\ h = p.sig
  <2>1. IsEnc(s) /\ IsPay(p) /\ Tip(s.client, B, b, p.kind, << >>, StartPayload(p))
    BY <1>4, <1>6, <1>8
  <2> QED
    BY ONLY <2>1, BlockFills
<1>10. PICK d, z : d = SetClient(s, c) /\ z = OnBlockStop(c, b)
  OBVIOUS
<1>11. /\ IsEnc(d) /\ d.client = c /\ d.open = 0 /\ d.blocks = b /\ d.direct = a.direct /\ d.sent = TRUE
       /\ d.live = a.live /\ d.pending = a.pending /\ d.absorbed = a.absorbed /\ d.surfaces = a.surfaces
  BY <1>8, <1>10, ClientSet DEF EncFields
<1>12. PICK w : w = [d EXCEPT !.client = z]
  OBVIOUS
<1>13. EmitBlock(a, p) = w
  BY <1>1, <1>5, <1>7, <1>9, <1>10, <1>11, <1>12 DEF EmitBlock
<1>14. /\ IsEnc(w) /\ w.client = z /\ w.open = 0 /\ w.blocks = b /\ w.direct = a.direct /\ w.sent = TRUE
       /\ w.live = a.live /\ w.pending = a.pending /\ w.absorbed = a.absorbed /\ w.surfaces = a.surfaces
  BY <1>11, <1>12 DEF IsEnc, EncFields
<1>15. PICK P, U : P = Without(a.pending, i) /\ U = a.surfaces \union {Surface(p.kind)}
  OBVIOUS
<1>16. PICK r : r = [w EXCEPT !.pending = P, !.next = i + 1, !.surfaces = U]
  OBVIOUS
<1>17. EmitPending(a, i) = r
  BY <1>1, <1>13, <1>14, <1>15, <1>16 DEF EmitPending
<1>18. /\ IsEnc(r) /\ r.client = z /\ r.open = 0 /\ r.blocks = b /\ r.direct = a.direct /\ r.sent = TRUE
       /\ r.live = a.live /\ r.pending = P /\ r.absorbed = a.absorbed /\ r.surfaces = U /\ r.next = i + 1
  BY <1>14, <1>16 DEF IsEnc, EncFields
<1>19. DOMAIN P = DOMAIN a.pending \ {i} /\ \A j \in DOMAIN P : P[j] = a.pending[j]
  BY <1>15, Restricted
<1>20. Shut(z, B, b, p.kind, t, h)
  BY <1>9, <1>10, TipCloses
<1>21. PICK y : y = z.blocks[b]
  OBVIOUS
<1>22. /\ ClientAt(z, "body", 0, b) /\ y.kind = p.kind /\ y.text = t /\ y.sig = h
       /\ \A j \in 1 .. n : z.blocks[j] = B[j]
  BY <1>2, <1>20, <1>21 DEF Shut, Holds
<1>23. Final(x, i, y)
  <2>1. /\ PendOk(x, i, p) /\ i \notin Pairs(x.ns) /\ y.kind = p.kind
        /\ p.kind # "redacted" => y.text = p.text /\ y.sig = p.sig
    BY <1>3, <1>9, <1>22 DEF Tellable
  <2> QED
    BY ONLY <2>1, FinalFromPend
<1>24. Told(x, E \union {i}, z.blocks, b)
  <2>1. PICK C : C = z.blocks
    OBVIOUS
  <2>2. Told(x, E, B, n) /\ Within(E, m) /\ i \in 0 .. m /\ Above(E, i)
    BY <1>1, <1>2 DEF Kept, Tellable
  <2>3. (\A k \in 1 .. n : C[k] = B[k]) /\ Final(x, i, C[n + 1])
    BY <1>1, <1>21, <1>22, <1>23, <2>1
  <2>4. Told(x, E \union {i}, C, n + 1)
    BY ONLY <2>2, <2>3, ToldMore
  <2> QED
    BY <1>1, <2>1, <2>4
<1>25. Bufs(r, x, g) /\ Opened(r, x, g) /\ Pends(r, x)
  BY <1>2, <1>18, <1>19 DEF Kept, Bufs, Opened, Pends
<1>26. Surfaced(r, x, E \union {i})
  BY <1>4, <1>15, <1>18 DEF Kept, Surfaced
<1>27. Kept(r, x, g, E \union {i})
  BY <1>18, <1>24, <1>25, <1>26 DEF Kept
<1>28. Emitted(r, a, i)
  BY <1>2, <1>18, <1>19, <1>22 DEF Emitted, Idle
<1> QED
  BY <1>17, <1>27, <1>28

-----------------------------------------------------------------------------
(* The nodes that have ended and whose turn it is are told in their order. *)
Ready(e) == {i \in DOMAIN e.pending : e.next <= i /\ e.next .. i \subseteq DOMAIN e.pending}

RunFrom(p, T) == \A j \in T : \A k \in Ready(p.enc) : k < j => k \in T

Run(p, T, a) ==
  /\ IsEnc(a) /\ Idle(a) /\ a.open = 0 /\ a.live = p.enc.live
  /\ a.absorbed = p.enc.absorbed /\ a.direct = p.enc.direct
  /\ DOMAIN a.pending = DOMAIN p.enc.pending \ T
  /\ a.next \in Nat /\ p.enc.next <= a.next /\ T = p.enc.next .. (a.next - 1)

RunGood(p, T, a) == RunFrom(p, T) => Run(p, T, a) /\ Kept(a, p.x, p.g, p.told \union T)

Runs == INSTANCE FoldTheorems WITH Op <- EmitStep, Good <- RunGood

LEMMA RunLoop ==
  ASSUME NEW e, NEW p
  PROVE  FlushReady(e) = Runs!Loop(p, e, Ready(e))
BY DEF FlushReady, Ready, FoldAscending, Runs!Loop, MapThenFoldSet, Runs!MapThenFoldSet, Max, Runs!Max, EmitStep

Flushable(e, x, E, m) ==
  /\ m \in Nat /\ IsEnc(e) /\ Idle(e) /\ e.open = 0 /\ e.next \in Nat /\ DOMAIN e.pending \subseteq 1 .. m
  /\ Within(E, m) /\ Above(E, e.next) /\ Ready(e) \intersect Pairs(x.ns) = {}

LEMMA RunKeeps ==
  ASSUME NEW p, NEW m, Flushable(p.enc, p.x, p.told, m),
         NEW T, T \in SUBSET Ready(p.enc), NEW i, i \in Ready(p.enc) \ T, NEW a, RunGood(p, T, a), Above(T, i)
  PROVE  RunGood(p, T \union {i}, EmitPending(a, i))
<1>1. PICK e, x, g, E : e = p.enc /\ x = p.x /\ g = p.g /\ E = p.told
  OBVIOUS
<1> SUFFICES ASSUME RunFrom(p, T \union {i})
             PROVE  Run(p, T \union {i}, EmitPending(a, i)) /\ Kept(EmitPending(a, i), x, g, E \union (T \union {i}))
  BY <1>1 DEF RunGood
<1>2. /\ m \in Nat /\ IsEnc(e) /\ Idle(e) /\ e.open = 0 /\ e.next \in Nat /\ DOMAIN e.pending \subseteq 1 .. m
      /\ Within(E, m) /\ Above(E, e.next) /\ Ready(e) \intersect Pairs(x.ns) = {}
  BY <1>1 DEF Flushable
<1>3. T \subseteq Ready(e) /\ i \in Ready(e) /\ i \notin T /\ (\A y \in T : y < i)
  BY <1>1 DEF Above
<1>4. /\ i \in DOMAIN e.pending /\ e.next <= i /\ e.next .. i \subseteq DOMAIN e.pending /\ i \in 1 .. m
      /\ \A k \in Ready(e) : k \in Nat
  BY <1>2, <1>3 DEF Ready
<1>5. RunFrom(p, T)
  <2>1. ASSUME NEW j \in T, NEW k \in Ready(e), k < j PROVE k \in T
    <3>1. k \in T \union {i}
      BY <1>1, <2>1 DEF RunFrom
    <3>2. j < i /\ k \in Nat /\ j \in Nat /\ i \in Nat
      BY <1>3, <1>4, <2>1
    <3>3. k # i
      BY <2>1, <3>2
    <3> QED
      BY <3>1, <3>3
  <2> QED
    BY <1>1, <2>1 DEF RunFrom
<1>6. Run(p, T, a) /\ Kept(a, x, g, E \union T)
  BY <1>1, <1>5 DEF RunGood
<1>7. /\ IsEnc(a) /\ Idle(a) /\ a.open = 0 /\ a.live = e.live
      /\ a.absorbed = e.absorbed /\ a.direct = e.direct
      /\ DOMAIN a.pending = DOMAIN e.pending \ T
      /\ a.next \in Nat /\ e.next <= a.next /\ T = e.next .. (a.next - 1)
  BY <1>1, <1>6 DEF Run
<1>8. i = a.next
  <2>1. i >= a.next
    BY <1>2, <1>3, <1>4, <1>7
  <2>2. ASSUME i > a.next PROVE FALSE
    <3>1. a.next \in DOMAIN e.pending /\ e.next .. a.next \subseteq DOMAIN e.pending
      BY <1>2, <1>4, <1>7, <2>2
    <3>2. a.next \in Ready(e)
      BY <1>7, <3>1 DEF Ready
    <3>3. a.next \in T \union {i}
      BY <1>1, <2>2, <3>2 DEF RunFrom
    <3>4. a.next \notin T /\ a.next # i
      BY <1>2, <1>4, <1>7, <2>2
    <3> QED
      BY <3>3, <3>4
  <2> QED
    BY <1>4, <1>7, <2>1, <2>2
<1>9. PICK F : F = E \union T
  OBVIOUS
<1>10. Within(F, m) /\ Above(F, i)
  <2>1. T \subseteq 1 .. m
    BY <1>2, <1>3 DEF Ready
  <2>2. \A j \in E : j \in Nat /\ j < i
    BY <1>2, <1>4 DEF Within, Above
  <2> QED
    BY <1>2, <1>3, <1>9, <2>1, <2>2 DEF Within, Above
<1>11. Tellable(a, x, F, m, i)
  BY <1>2, <1>3, <1>4, <1>7, <1>10 DEF Tellable
<1>12. PICK r : r = EmitPending(a, i)
  OBVIOUS
<1>13. Kept(r, x, g, F \union {i}) /\ Emitted(r, a, i)
  <2>1. Kept(a, x, g, F)
    BY <1>6, <1>9
  <2> QED
    BY ONLY <1>11, <1>12, <2>1, EmitShown
<1>14. F \union {i} = E \union (T \union {i})
  BY <1>9
<1>15. T \union {i} = e.next .. ((i + 1) - 1) /\ i + 1 \in Nat /\ e.next <= i + 1
  BY <1>2, <1>4, <1>7, <1>8
<1>16. Run(p, T \union {i}, r)
  BY <1>1, <1>7, <1>13, <1>15 DEF Run, Emitted
<1> QED
  BY <1>12, <1>13, <1>14, <1>16

Flushed(r, e) ==
  /\ IsEnc(r) /\ Idle(r) /\ r.open = 0 /\ r.live = e.live /\ r.absorbed = e.absorbed /\ r.direct = e.direct
  /\ DOMAIN r.pending = DOMAIN e.pending \ (e.next .. (r.next - 1))
  /\ r.next \in Nat /\ e.next <= r.next /\ e.next .. (r.next - 1) \subseteq DOMAIN e.pending
  /\ r.next \notin DOMAIN e.pending

LEMMA FlushShown ==
  ASSUME NEW e, NEW x, NEW g, NEW E, Kept(e, x, g, E), NEW m, Flushable(e, x, E, m)
  PROVE  /\ Kept(FlushReady(e), x, g, E \union (e.next .. (FlushReady(e).next - 1)))
         /\ Flushed(FlushReady(e), e)
<1>1. PICK p : p = [enc |-> e, x |-> x, g |-> g, told |-> E]
  OBVIOUS
<1>2. p.enc = e /\ p.x = x /\ p.g = g /\ p.told = E
  BY <1>1
<1>3. PICK S, r : S = Ready(e) /\ r = FlushReady(e)
  OBVIOUS
<1>4. m \in Nat /\ S \subseteq 0 .. m /\ e.next \in Nat
  BY <1>3 DEF Flushable, Ready
<1>5. RunGood(p, {}, e)
  <2>1. e.next .. (e.next - 1) = {} /\ e.next <= e.next
    BY <1>4
  <2>2. E \union {} = E
    OBVIOUS
  <2> QED
    BY <1>2, <2>1, <2>2 DEF RunGood, Run, Flushable
<1>6. ASSUME NEW T \in SUBSET S, NEW i \in S \ T, NEW a, RunGood(p, T, a), \A y \in T : y < i
      PROVE  RunGood(p, T \union {i}, EmitStep(p, a, i))
  <2>1. Flushable(p.enc, p.x, p.told, m)
    BY <1>2
  <2>2. T \in SUBSET Ready(p.enc) /\ i \in Ready(p.enc) \ T /\ Above(T, i) /\ RunGood(p, T, a)
    BY <1>2, <1>3, <1>6 DEF Above
  <2>3. RunGood(p, T \union {i}, EmitPending(a, i))
    BY ONLY <2>1, <2>2, RunKeeps
  <2> QED
    BY <2>3 DEF EmitStep
<1>7. RunGood(p, S, Runs!Loop(p, e, S))
  BY <1>4, <1>5, <1>6, Runs!LoopInvariant
<1>8. RunGood(p, S, r)
  BY <1>3, <1>7, RunLoop
<1>9. RunFrom(p, S)
  BY <1>2, <1>3 DEF RunFrom
<1>10. Run(p, S, r) /\ Kept(r, x, g, E \union S)
  BY <1>2, <1>8, <1>9 DEF RunGood
<1>11. /\ IsEnc(r) /\ Idle(r) /\ r.open = 0 /\ r.live = e.live /\ r.absorbed = e.absorbed /\ r.direct = e.direct
       /\ DOMAIN r.pending = DOMAIN e.pending \ S
       /\ r.next \in Nat /\ e.next <= r.next /\ S = e.next .. (r.next - 1)
  BY <1>2, <1>10 DEF Run
<1>12. S \subseteq DOMAIN e.pending
  BY <1>3 DEF Ready
<1>13. r.next \notin DOMAIN e.pending
  <2> SUFFICES ASSUME r.next \in DOMAIN e.pending PROVE FALSE
    OBVIOUS
  <2>1. e.next .. r.next \subseteq DOMAIN e.pending
    BY <1>4, <1>11, <1>12
  <2>2. r.next \in S
    BY <1>3, <1>11, <2>1 DEF Ready
  <2> QED
    BY <1>11, <2>2
<1>14. Flushed(r, e)
  BY <1>11, <1>12, <1>13 DEF Flushed
<1> QED
  BY <1>3, <1>10, <1>11, <1>14

-----------------------------------------------------------------------------
(* The end of a node, with its signature as it is passed on.               *)
Ending(x, i, n) ==
  LET q == x.ns[i]
  IN  n.kind = q.kind /\ n.text = q.text /\ n.summary = q.summary /\ n.sig = Seal(x, q) /\ IsSeq(n.sig)

Ended(x, i, t, h) ==
  LET q == x.ns[i]
  IN  /\ q.kind \in Plain => t = q.text
      /\ q.kind = "thinking" =>
           /\ i \in x.dir => t = Main(x, q)
           /\ i \notin x.dir => BufferedThinking(q, t)
           /\ h = Seal(x, q)

Live(x, i, s, p, y) == LiveOk(x, i, s, p, y) /\ NodeFit(x.ns[i]) /\ (x.ns[i].kind = "thinking" => s = Seal(x, x.ns[i]))

LEMMA EndsText ==
  ASSUME NEW x, NEW i, NEW s, NEW p, NEW y, Live(x, i, s, p, y), NEW n, Ending(x, i, n),
         NEW a, a = TextSuffix(p.text, TerminalText(n)), NEW b, b = TextSuffix(p.sig, n.sig)
  PROVE  IsSeq(a) /\ IsSeq(b) /\ Ended(x, i, y.text \o a, y.sig \o b)
<1>1. PICK q, z, T : q = x.ns[i] /\ z = << >> /\ T = TerminalText(n)
  OBVIOUS
<1>2. LiveOk(x, i, s, p, y) /\ NodeFit(q) /\ (q.kind = "thinking" => s = Seal(x, q))
  BY <1>1 DEF Live
<1>3. /\ IsSeq(p.text) /\ IsSeq(p.sig) /\ IsSeq(y.text) /\ IsSeq(y.sig) /\ IsSeq(q.text) /\ IsSeq(q.summary)
      /\ IsSeq(z) /\ IsSeq(n.sig)
  BY <1>1, <1>2, SeqNone DEF LiveOk, IsPay, IsBlock, NodeFit, Ending
<1>4. T = IF q.text # z THEN q.text ELSE q.summary
  BY <1>1 DEF TerminalText, Ending
<1>5. IsSeq(T)
  BY <1>3, <1>4
<1>6. IsSeq(a) /\ IsSeq(b)
  BY <1>1, <1>3, <1>5, NoSuffix
<1>7. y.text \o z = y.text /\ y.sig \o z = y.sig
  BY <1>1, <1>3, JoinNone
<1>8. /\ Len(z) = 0 /\ Len(p.text) \in Nat /\ Len(q.text) \in Nat /\ Len(q.summary) \in Nat /\ Len(p.sig) \in Nat
      /\ Len(T) \in Nat
  BY <1>1, <1>3, <1>5, SeqNone, SeqDomain
<1>9. Len(T) <= Len(p.text) => a = z
  BY <1>1, <1>3, <1>5, NoSuffix
<1>10. ASSUME q.kind \in Plain PROVE y.text \o a = q.text
  <2>1. T = q.text
    BY <1>1, <1>2, <1>4, <1>10 DEF NodeFit
  <2>2. p.text = Streamed(q) /\ y.text = Streamed(q)
    BY <1>1, <1>2, <1>10 DEF LiveOk
  <2>3. CASE q.text = <<EmptyInput>>
    <3>1. p.text = z /\ y.text = z
      BY <1>1, <2>2, <2>3 DEF Streamed
    <3>2. a = T
      BY <1>1, <1>3, <1>5, <3>1, NoSuffix
    <3>3. z \o T = T
      BY <1>1, <1>5, JoinNone
    <3> QED
      BY <2>1, <3>1, <3>2, <3>3
  <2>4. CASE q.text # <<EmptyInput>>
    <3>1. p.text = q.text /\ y.text = q.text
      BY <2>2, <2>4 DEF Streamed
    <3>2. a = z
      BY <1>8, <1>9, <2>1, <3>1
    <3> QED
      BY <1>7, <3>1, <3>2
  <2> QED
    BY <2>3, <2>4
<1>11. ASSUME q.kind = "thinking"
       PROVE  /\ i \in x.dir => y.text \o a = Main(x, q)
              /\ i \notin x.dir => BufferedThinking(q, y.text \o a)
              /\ y.sig \o b = Seal(x, q)
  <2>1. p.sig = s /\ y.sig = s /\ s = Seal(x, q) /\ n.sig = s
    BY <1>1, <1>2, <1>11 DEF LiveOk, Ending
  <2>2. b = z
    BY <1>1, <1>3, <1>8, <2>1, NoSuffix
  <2>3. ASSUME i \in x.dir PROVE y.text \o a = Main(x, q)
    <3>1. y.text = Main(x, q) /\ Len(p.text) = Len(q.text) + Len(q.summary)
      BY <1>1, <1>2, <1>11, <2>3 DEF LiveOk
    <3>2. Len(T) <= Len(p.text)
      <4>1. Len(T) = Len(q.text) \/ Len(T) = Len(q.summary)
        BY <1>4
      <4>2. PICK k1, k2, k3, k4 : k1 = Len(T) /\ k2 = Len(q.text) /\ k3 = Len(q.summary) /\ k4 = Len(p.text)
        OBVIOUS
      <4>3. k1 \in Nat /\ k2 \in Nat /\ k3 \in Nat /\ k4 = k2 + k3 /\ (k1 = k2 \/ k1 = k3)
        BY <1>8, <3>1, <4>1, <4>2
      <4>4. k1 <= k4
        BY ONLY <4>3
      <4> QED
        BY <4>2, <4>4
    <3> QED
      BY <1>7, <1>9, <3>1, <3>2
  <2>4. ASSUME i \notin x.dir PROVE BufferedThinking(q, y.text \o a)
    <3>1. /\ BufferedThinking(q, y.text) /\ Len(q.text) <= Len(p.text)
          /\ q.text = z => p.text = y.text
      BY <1>1, <1>2, <1>11, <2>4 DEF LiveOk
    <3>2. CASE q.text = z
      <4>1. PICK w, h : w = y.text /\ h = q.summary
        OBVIOUS
      <4>2. IsSeq(w) /\ IsSeq(h) /\ LacksRun(w, h) /\ a = TextSuffix(w, h)
        BY <1>1, <1>3, <1>4, <3>1, <3>2, <4>1 DEF BufferedThinking
      <4>3. LacksRun(w \o a, h)
        BY <4>2, RunEnds
      <4> QED
        BY <1>1, <3>2, <4>1, <4>3 DEF BufferedThinking
    <3>3. CASE q.text # z
      <4>1. a = z
        BY <1>4, <1>9, <3>1, <3>3
      <4> QED
        BY <1>7, <3>1, <4>1
    <3> QED
      BY <3>2, <3>3
  <2> QED
    BY <1>7, <2>1, <2>2, <2>3, <2>4
<1> QED
  BY <1>1, <1>6, <1>10, <1>11 DEF Ended

LEMMA EndsStill ==
  ASSUME NEW x, NEW i, NEW s, NEW p, NEW y, Live(x, i, s, p, y),
         p.kind = "redacted" \/ (p.kind = "item" /\ p.text = << >>)
  PROVE  Ended(x, i, y.text, y.sig)
<1>1. PICK q : q = x.ns[i]
  OBVIOUS
<1>2. LiveOk(x, i, s, p, y) /\ NodeFit(q) /\ q.kind = p.kind
  BY <1>1 DEF Live, LiveOk
<1>3. CASE p.kind = "redacted"
  BY <1>1, <1>2, <1>3 DEF Ended, Plain
<1>4. CASE p.kind = "item" /\ p.text = << >>
  <2>1. q.text # <<EmptyInput>> /\ y.text = Streamed(q)
    BY <1>1, <1>2, <1>4 DEF LiveOk, NodeFit, Plain
  <2> QED
    BY <1>1, <1>2, <1>4, <2>1 DEF Ended, Streamed
<1> QED
  BY <1>3, <1>4

LEMMA EndsBlock ==
  ASSUME NEW x, NEW i, NEW s, NEW p, NEW y, Live(x, i, s, p, y), NEW n, Ending(x, i, n),
         NEW u, NEW B, NEW b, EncTip(u, B, b, y.kind, y.text, y.sig)
  PROVE  \E c, t, h : /\ TerminalSuffix(u, b, p, n) = SetClient(u, c)
                      /\ Tip(c, B, b, y.kind, t, h) /\ Ended(x, i, t, h)
<1>1. SameSurface(p, n)
  BY DEF SameSurface, Live, LiveOk, Ending
<1>2. IsEnc(u) /\ Tip(u.client, B, b, y.kind, y.text, y.sig) /\ SetClient(u, u.client) = u
  BY ClientKept DEF EncTip
<1>3. PICK f, g : f = TextSuffix(p.text, TerminalText(n)) /\ g = TextSuffix(p.sig, n.sig)
  OBVIOUS
<1>4. PICK d : d = PlainDelta(f, g)
  OBVIOUS
<1>5. CASE p.kind = "redacted" \/ (p.kind = "item" /\ p.text = << >>)
  <2>1. Ended(x, i, y.text, y.sig)
    BY <1>5, EndsStill
  <2>2. TerminalSuffix(u, b, p, n) = u
    BY <1>1, <1>5 DEF TerminalSuffix, LiveDelta
  <2> QED
    BY <1>2, <2>1, <2>2
<1>6. CASE p.kind # "redacted" /\ ~(p.kind = "item" /\ p.text = << >>)
  <2>1. TerminalSuffix(u, b, p, n) = LiveDelta(u, b, p, d)
    BY <1>1, <1>3, <1>4, <1>6 DEF TerminalSuffix
  <2>2. IsSeq(f) /\ IsSeq(g) /\ Ended(x, i, y.text \o f, y.sig \o g)
    BY <1>3, EndsText
  <2>3. PICK k, t, h, t2, h2 : k = y.kind /\ t = y.text /\ h = y.sig /\ t2 = t \o f /\ h2 = h \o g
    OBVIOUS
  <2>4. d.text = f /\ d.summary = << >> /\ d.sig = g /\ d.marked = FALSE
    BY <1>4 DEF PlainDelta
  <2>5. Adds(p, d, t, h, t2, h2)
    <3>1. IsDelta(d)
      BY <2>2, <2>4, SeqNone DEF IsDelta
    <3>2. ShownOf(d) = f
      BY <2>4 DEF ShownOf
    <3> QED
      BY <1>6, <2>3, <2>4, <3>1, <3>2 DEF Adds
  <2>6. EncTip(u, B, b, k, t, h)
    BY <2>3
  <2>7. PICK c : LiveDelta(u, b, p, d) = SetClient(u, c) /\ Tip(c, B, b, k, t2, h2)
    BY ONLY <2>5, <2>6, TipLive
  <2> QED
    BY <2>1, <2>2, <2>3, <2>7
<1> QED
  BY <1>5, <1>6

-----------------------------------------------------------------------------
(* The open block is closed, with the signature of the next node in it     *)
(* when the two are a pair.                                                *)
Absorbs(e, i) == i + 1 \in DOMAIN e.live /\ CanAbsorb(e.live[i].payload, e.live[i + 1].payload)

AbsorbOk(e, x, i) ==
  /\ Absorbs(e, i) <=> i \in Pairs(x.ns)
  /\ i \in Pairs(x.ns) => /\ Seal(x, x.ns[i]) = << >>
                          /\ e.live[i + 1].payload.sig = Seal(x, x.ns[i + 1])
                          /\ IsSeq(Seal(x, x.ns[i + 1]))

Taken(x, i) == IF i \in Pairs(x.ns) THEN {i + 1} ELSE {}

Shuts(z, e, x, i) ==
  /\ z.open = 0 /\ z.pending = e.pending /\ z.direct = e.direct
  /\ DOMAIN z.live = (DOMAIN e.live \ {i}) \ Taken(x, i)
  /\ z.absorbed = e.absorbed \union Taken(x, i)
  /\ z.next = IF i \in Pairs(x.ns) THEN i + 2 ELSE i + 1

Closable(e, x, g, E, m, i, n) ==
  /\ e.open = i /\ i # 0 /\ NodeFit(x.ns[i]) /\ (x.ns[i].kind = "thinking" => g[i] = Seal(x, x.ns[i]))
  /\ Ending(x, i, n) /\ AbsorbOk(e, x, i) /\ Within(E, m) /\ Above(E, i)

LEMMA FinalFromEnd ==
  ASSUME NEW x, NEW i, NEW t, NEW h, Ended(x, i, t, h), NEW y, y.kind = x.ns[i].kind, y.text = t,
         y.sig = (IF i \in Pairs(x.ns) THEN Seal(x, x.ns[i + 1]) ELSE h)
  PROVE  Final(x, i, y)
BY DEF Ended, Final

LEMMA LiveClosed ==
  ASSUME NEW m \in Nat, NEW e, EncInv(e, m), NEW x, NEW g, NEW E, Kept(e, x, g, E),
         NEW i, NEW n, Closable(e, x, g, E, m, i, n)
  PROVE  \E z : /\ LiveNodeDone(e, i, n) = TryStartNextLiveBlock(FlushReady(z))
                /\ Kept(z, x, g, E \union {i}) /\ EncInv(z, m) /\ z.sent = TRUE /\ Shuts(z, e, x, i)
<1>1. /\ i = e.open /\ i = e.next /\ IsEnc(e) /\ e.sent = TRUE /\ i \in Nat /\ i \in DOMAIN e.live /\ i # 0
      /\ e.live[i].block = e.blocks /\ e.blocks \in Nat /\ e.blocks # 0 /\ i \in 1 .. m
  BY DEF EncInv, LiveBlocks, InStep, Places, Counters, Kept, Opened, Closable
<1>2. PICK b, p, k, y, B : b = e.blocks /\ p = e.live[i].payload /\ y = e.client.blocks[b] /\ k = y.kind /\ B = e.client.blocks
  OBVIOUS
<1>3. LiveOk(x, i, g[i], p, y)
  BY <1>1, <1>2 DEF Kept, Opened
<1>4. Live(x, i, g[i], p, y) /\ k = x.ns[i].kind /\ IsBlock(y)
  BY <1>2, <1>3 DEF Live, LiveOk, Closable
<1>5. ClientAt(e.client, "body", b, b)
  BY <1>1, <1>2 DEF EncInv, InStep, OpenBlock
<1>6. PICK L : L = Without(e.live, i)
  OBVIOUS
<1>7. DOMAIN L = DOMAIN e.live \ {i} /\ \A j \in DOMAIN L : L[j] = e.live[j]
  BY <1>6, Restricted
<1>8. PICK u : u = [e EXCEPT !.live = L]
  OBVIOUS
<1>9. /\ IsEnc(u) /\ u.client = e.client /\ u.live = L /\ u.sent = TRUE /\ u.blocks = b /\ u.pending = e.pending
      /\ u.open = i /\ u.next = i /\ u.absorbed = e.absorbed /\ u.direct = e.direct /\ u.surfaces = e.surfaces
  BY <1>1, <1>2, <1>8 DEF IsEnc, EncFields
<1>10. EncTip(u, B, b, y.kind, y.text, y.sig)
  BY <1>1, <1>2, <1>4, <1>5, <1>9 DEF EncTip, Tip, Holds
<1>11. PICK c, t, h : /\ TerminalSuffix(u, b, p, n) = SetClient(u, c)
                      /\ Tip(c, B, b, k, t, h) /\ Ended(x, i, t, h)
  <2>1. PICK s : s = g[i]
    OBVIOUS
  <2>2. Live(x, i, s, p, y) /\ Ending(x, i, n)
    BY <1>4, <2>1 DEF Closable
  <2>3. \E c, t, h : /\ TerminalSuffix(u, b, p, n) = SetClient(u, c)
                     /\ Tip(c, B, b, y.kind, t, h) /\ Ended(x, i, t, h)
    BY ONLY <1>10, <2>2, EndsBlock
  <2> QED
    BY <1>2, <2>3
<1>12. PICK s : s = SetClient(u, c)
  OBVIOUS
<1>13. /\ IsEnc(s) /\ s.client = c /\ s.live = L /\ s.sent = TRUE /\ s.blocks = b /\ s.pending = e.pending
       /\ s.open = i /\ s.next = i /\ s.absorbed = e.absorbed /\ s.direct = e.direct /\ s.surfaces = e.surfaces
  BY <1>9, <1>12, ClientSet DEF EncFields
<1> DEFINE absorbs == i + 1 \in DOMAIN e.live /\ CanAbsorb(p, e.live[i + 1].payload)
<1>14. absorbs <=> i \in Pairs(x.ns)
  BY <1>2 DEF Closable, AbsorbOk, Absorbs
<1>15. PICK a : a = IF absorbs
                    THEN [SendDelta(s, b, "sig", e.live[i + 1].payload.sig) EXCEPT
                            !.live = Without(@, i + 1), !.absorbed = @ \union {i + 1}]
                    ELSE s
  OBVIOUS
<1>16. PICK nx : nx = IF absorbs THEN i + 2 ELSE i + 1
  OBVIOUS
<1>17. PICK z : z = [a EXCEPT !.client = OnBlockStop(@, b), !.open = IF @ = i THEN 0 ELSE @, !.next = nx]
  OBVIOUS
<1>18. LiveNodeDone(e, i, n) = TryStartNextLiveBlock(FlushReady(z))
  <2>1. nx = IF absorbs /\ (IF i = e.next THEN i + 1 ELSE e.next) = i + 1 THEN i + 2
             ELSE IF i = e.next THEN i + 1 ELSE e.next
    BY <1>1, <1>16
  <2>2. e.live[i].block = b
    BY <1>1, <1>2
  <2>3. s = TerminalSuffix([e EXCEPT !.live = Without(@, i)], b, p, n)
    BY <1>6, <1>8, <1>11, <1>12
  <2> QED
    BY <1>2, <1>15, <1>17, <2>1, <2>2, <2>3 DEF LiveNodeDone
<1> HIDE DEF absorbs
<1>19. PICK d, K, f :
         /\ IsEnc(a) /\ a.client = d /\ a.live = K /\ a.sent = TRUE /\ a.blocks = b /\ a.pending = e.pending
         /\ a.open = i /\ a.absorbed = e.absorbed \union Taken(x, i) /\ a.direct = e.direct /\ a.surfaces = e.surfaces
         /\ DOMAIN K = (DOMAIN e.live \ {i}) \ Taken(x, i) /\ (\A j \in DOMAIN K : K[j] = e.live[j])
         /\ Tip(d, B, b, k, t, f) /\ f = (IF i \in Pairs(x.ns) THEN Seal(x, x.ns[i + 1]) ELSE h)
  <2>1. CASE ~absorbs
    <3>1. Taken(x, i) = {} /\ i \notin Pairs(x.ns)
      BY <1>14, <2>1 DEF Taken
    <3>2. a = s
      BY <1>15, <2>1
    <3> QED
      BY <1>7, <1>11, <1>13, <3>1, <3>2
  <2>2. CASE absorbs
    <3>1. Taken(x, i) = {i + 1} /\ i \in Pairs(x.ns)
      BY <1>14, <2>2 DEF Taken
    <3>2. PICK f : f = e.live[i + 1].payload.sig
      OBVIOUS
    <3>3. f = Seal(x, x.ns[i + 1]) /\ IsSeq(f) /\ (x.ns[i].kind = "thinking" => h = << >>) /\ x.ns[i].kind = "thinking"
      <4>1. x.ns[i].kind = "thinking"
        <5>1. p.kind = "thinking"
          BY <2>2 DEF absorbs, CanAbsorb
        <5> QED
          BY <1>3, <5>1 DEF LiveOk
      <4> QED
        BY <1>11, <3>1, <3>2, <4>1 DEF Closable, AbsorbOk, Ended
    <3>4. IsEnc(s) /\ Tip(s.client, B, b, k, t, h) /\ IsSeq(f)
      BY <1>11, <1>13, <3>3
    <3>5. PICK d : SendDelta(s, b, "sig", f) = SetClient(s, d) /\ Tip(d, B, b, k, t, h \o f)
      BY ONLY <3>4, TipSends
    <3>6. h \o f = f
      BY <3>3, JoinNone
    <3>7. PICK v, K : v = SetClient(s, d) /\ K = Without(L, i + 1)
      OBVIOUS
    <3>8. /\ IsEnc(v) /\ v.client = d /\ v.live = L /\ v.sent = TRUE /\ v.blocks = b /\ v.pending = e.pending
          /\ v.open = i /\ v.absorbed = e.absorbed /\ v.direct = e.direct /\ v.surfaces = e.surfaces
      BY <1>13, <3>7, ClientSet DEF EncFields
    <3>9. DOMAIN K = DOMAIN L \ {i + 1} /\ \A j \in DOMAIN K : K[j] = L[j]
      BY <3>7, Restricted
    <3>10. a = [v EXCEPT !.live = K, !.absorbed = e.absorbed \union {i + 1}]
      BY <1>15, <2>2, <3>2, <3>5, <3>7, <3>8
    <3>11. /\ IsEnc(a) /\ a.client = d /\ a.live = K /\ a.sent = TRUE /\ a.blocks = b /\ a.pending = e.pending
           /\ a.open = i /\ a.absorbed = e.absorbed \union {i + 1} /\ a.direct = e.direct /\ a.surfaces = e.surfaces
      BY <3>8, <3>10 DEF IsEnc, EncFields
    <3>12. DOMAIN K = (DOMAIN e.live \ {i}) \ {i + 1} /\ \A j \in DOMAIN K : K[j] = e.live[j]
      BY <1>7, <3>9
    <3> QED
      BY <3>1, <3>3, <3>5, <3>6, <3>11, <3>12
  <2> QED
    BY <2>1, <2>2
<1>20. PICK w : w = OnBlockStop(d, b)
  OBVIOUS
<1>21. /\ IsEnc(z) /\ z.client = w /\ z.live = K /\ z.sent = TRUE /\ z.blocks = b /\ z.pending = e.pending /\ z.next = nx
       /\ z.open = 0 /\ z.absorbed = e.absorbed \union Taken(x, i) /\ z.direct = e.direct /\ z.surfaces = e.surfaces
  BY <1>17, <1>19, <1>20 DEF IsEnc, EncFields
<1>22. Shut(w, B, b, k, t, f)
  BY <1>19, <1>20, TipCloses
<1>23. /\ ClientAt(w, "body", 0, b) /\ w.blocks[b].kind = k /\ w.blocks[b].text = t /\ w.blocks[b].sig = f
       /\ \A j \in 1 .. (b - 1) : w.blocks[j] = B[j]
  BY <1>22 DEF Shut, Holds
<1>24. EncInv(z, m)
  <2>1. Taken(x, i) \subseteq DOMAIN e.live
    BY <1>14 DEF Taken, absorbs
  <2>2. DOMAIN e.live \subseteq 1 .. m /\ e.absorbed \subseteq 1 .. m /\ DOMAIN e.live \intersect e.absorbed = {}
    BY DEF EncInv, Places
  <2>3. nx \in Nat
    BY <1>1, <1>16
  <2>4. Closed(z, e, K, m)
    BY <1>1, <1>2, <1>19, <1>21, <1>23, <2>1, <2>2, <2>3 DEF Closed
  <2> QED
    BY <2>4, CloseKeeps
<1>25. Shuts(z, e, x, i)
  BY <1>14, <1>16, <1>19, <1>21 DEF Shuts
<1>26. Told(x, E \union {i}, w.blocks, b)
  <2>1. PICK C, j : C = w.blocks /\ j = b - 1
    OBVIOUS
  <2>2. Told(x, E, B, j) /\ Within(E, m) /\ i \in 0 .. m /\ Above(E, i)
    BY <1>1, <1>2, <2>1 DEF Kept, Closable
  <2>3. j + 1 = b
    BY <1>1, <1>2, <2>1
  <2>4. PICK v : v = C[b]
    OBVIOUS
  <2>5. /\ Ended(x, i, t, h) /\ v.kind = x.ns[i].kind /\ v.text = t
        /\ v.sig = (IF i \in Pairs(x.ns) THEN Seal(x, x.ns[i + 1]) ELSE h)
    BY <1>4, <1>11, <1>19, <1>23, <2>1, <2>4
  <2>6. Final(x, i, v)
    BY ONLY <2>5, FinalFromEnd
  <2>7. (\A q \in 1 .. j : C[q] = B[q]) /\ Final(x, i, C[j + 1])
    BY <1>23, <2>1, <2>3, <2>4, <2>6
  <2>8. Told(x, E \union {i}, C, j + 1)
    BY ONLY <2>2, <2>7, ToldMore
  <2> QED
    BY <2>1, <2>3, <2>8
<1>27. Bufs(z, x, g) /\ Opened(z, x, g) /\ Pends(z, x)
  BY <1>1, <1>19, <1>21 DEF Kept, Bufs, Opened, Pends
<1>28. Surfaced(z, x, E \union {i})
  BY <1>1, <1>21 DEF Kept, Surfaced
<1>29. Kept(z, x, g, E \union {i})
  BY <1>21, <1>26, <1>27, <1>28 DEF Kept
<1> QED
  BY <1>18, <1>21, <1>24, <1>25, <1>29

-----------------------------------------------------------------------------
(* A node without a block has ended: what it says of itself is kept.       *)
LEMMA PendFromBuf ==
  ASSUME NEW x, NEW i, NEW s, NEW p, NEW q, q = x.ns[i], BufOk(q, s, p), NodeFit(q),
         q.kind = "thinking" => s = Seal(x, q), i \notin x.dir, NEW n, Ending(x, i, n)
  PROVE  PendOk(x, i, MergeTerminal(p, n)) /\ MergeTerminal(p, n).kind = p.kind
<1>1. /\ IsPay(p) /\ p.kind = q.kind /\ p.kind = n.kind /\ n.text = q.text /\ n.summary = q.summary /\ n.sig = Seal(x, q)
      /\ IsSeq(p.text) /\ IsSeq(p.sig) /\ IsSeq(n.text) /\ IsSeq(n.summary) /\ IsSeq(n.sig)
  BY DEF BufOk, Ending, NodeFit, IsPay
<1>2. SameSurface(p, n)
  BY <1>1 DEF SameSurface
<1>3. PICK r : r = MergeTerminal(p, n)
  OBVIOUS
<1>4. /\ DOMAIN r = {"kind", "text", "sig", "detail"} /\ r.kind = p.kind
      /\ r.text = (IF n.text # << >> /\ Extends(p, n) THEN n.text ELSE IF p.text = << >> THEN n.summary ELSE p.text)
      /\ r.sig = (IF n.sig # << >> THEN n.sig ELSE p.sig)
  BY <1>1, <1>2, <1>3 DEF MergeTerminal, IsPay
<1>5. IsPay(r)
  BY <1>1, <1>4 DEF IsPay
<1>6. ASSUME q.kind \in Plain PROVE r.text = q.text
  <2>1. p.text = Streamed(q) /\ q.summary = << >>
    BY <1>6 DEF BufOk, NodeFit
  <2>2. CASE q.text = << >>
    <3>1. q.text # <<EmptyInput>>
      BY <2>2, SeqOne
    <3>2. p.text = << >>
      BY <2>1, <2>2, <3>1 DEF Streamed
    <3> QED
      BY <1>1, <1>4, <2>1, <2>2, <3>2
  <2>3. CASE q.text # << >>
    <3>1. Extends(p, n)
      <4>1. CASE p.kind # "item"
        BY <4>1 DEF Extends
      <4>2. CASE p.kind = "item"
        <5>1. p.text = n.text
          BY <1>1, <2>1, <4>2 DEF NodeFit, Streamed
        <5>2. IsPrefix(n.text, n.text)
          BY <1>1, PrefixSelf
        <5> QED
          BY <5>1, <5>2 DEF Extends
      <4> QED
        BY <4>1, <4>2
    <3> QED
      BY <1>1, <1>4, <2>3, <3>1
  <2> QED
    BY <2>2, <2>3
<1>7. ASSUME q.kind = "thinking" PROVE BufferedThinking(q, r.text) /\ r.sig = Seal(x, q)
  <2>1. p.sig = Seal(x, q) /\ BufText(q, p.text)
    BY <1>7 DEF BufOk
  <2>2. r.sig = Seal(x, q)
    BY <1>1, <1>4, <2>1
  <2>3. Extends(p, n)
    BY <1>1, <1>7 DEF Extends
  <2>4. CASE q.text # << >>
    <3>1. r.text = q.text
      BY <1>1, <1>4, <2>3, <2>4
    <3> QED
      BY <2>2, <2>4, <3>1 DEF BufferedThinking
  <2>5. CASE q.text = << >>
    <3>1. p.text = FirstChunk(q.summary)
      BY <1>1, <2>1, <2>5, BufThinks
    <3>2. r.text = q.summary \/ r.text = FirstChunk(q.summary)
      BY <1>1, <1>4, <2>5, <3>1
    <3>3. LacksRun(q.summary, q.summary) /\ LacksRun(FirstChunk(q.summary), q.summary)
      BY <1>1, RunSame
    <3> QED
      BY <2>2, <2>5, <3>2, <3>3 DEF BufferedThinking
  <2> QED
    BY <2>4, <2>5
<1> QED
  BY <1>1, <1>3, <1>4, <1>5, <1>6, <1>7 DEF PendOk

Waits(z, e, i) ==
  /\ z.open = e.open /\ z.next = e.next /\ z.absorbed = e.absorbed /\ z.direct = e.direct
  /\ DOMAIN z.live = DOMAIN e.live \ {i} /\ DOMAIN z.pending = DOMAIN e.pending \union {i}

Bufferable(e, x, g, i, n) ==
  /\ i \in DOMAIN e.live /\ i # e.open /\ i \notin x.dir /\ NodeFit(x.ns[i])
  /\ (x.ns[i].kind = "thinking" => g[i] = Seal(x, x.ns[i])) /\ Ending(x, i, n)

LEMMA BufferedEnds ==
  ASSUME NEW m \in Nat, NEW e, EncInv(e, m), NEW x, NEW g, NEW E, Kept(e, x, g, E),
         NEW i, NEW n, Bufferable(e, x, g, i, n)
  PROVE  \E z : /\ BufferedNodeDone(e, i, n) = TryStartNextLiveBlock(FlushReady(z))
                /\ Kept(z, x, g, E) /\ EncInv(z, m) /\ z.sent = TRUE /\ Waits(z, e, i)
<1>1. /\ i \in DOMAIN e.live /\ i # e.open /\ IsEnc(e) /\ e.sent = TRUE /\ i \in 1 .. m /\ e.live[i].block = 0
  BY DEF EncInv, LiveBlocks, InStep, Places, Bufferable
<1>2. PICK p, K, q, h : p = e.live[i].payload /\ K = Without(e.live, i) /\ q = x.ns[i] /\ h = g[i]
  OBVIOUS
<1>3. DOMAIN K = DOMAIN e.live \ {i} /\ \A j \in DOMAIN K : K[j] = e.live[j]
  BY <1>2, Restricted
<1>4. BufOk(q, h, p) /\ q = x.ns[i] /\ NodeFit(q) /\ (q.kind = "thinking" => h = Seal(x, q)) /\ i \notin x.dir /\ Ending(x, i, n)
  BY <1>1, <1>2 DEF Kept, Bufs, Bufferable
<1>5. PICK w, P : w = MergeTerminal(p, n) /\ P = With(e.pending, i, w)
  OBVIOUS
<1>6. PendOk(x, i, w)
  BY ONLY <1>4, <1>5, PendFromBuf
<1>7. p # NoBlock
  <2>1. p.kind \in Shown
    BY <1>4 DEF BufOk, NodeFit
  <2>2. NoBlock.kind \notin Shown
    BY DEF NoBlock, Shown, Reasoning
  <2> QED
    BY <2>1, <2>2
<1>8. PICK s : s = [e EXCEPT !.live = K]
  OBVIOUS
<1>9. /\ IsEnc(s) /\ s.client = e.client /\ s.live = K /\ s.sent = TRUE /\ s.blocks = e.blocks /\ s.pending = e.pending
      /\ s.open = e.open /\ s.next = e.next /\ s.absorbed = e.absorbed /\ s.direct = e.direct /\ s.surfaces = e.surfaces
  BY <1>1, <1>8 DEF IsEnc, EncFields
<1>10. PICK z : z = [s EXCEPT !.pending = P]
  OBVIOUS
<1>11. /\ IsEnc(z) /\ z.client = e.client /\ z.live = K /\ z.sent = TRUE /\ z.blocks = e.blocks /\ z.pending = P
       /\ z.open = e.open /\ z.next = e.next /\ z.absorbed = e.absorbed /\ z.direct = e.direct /\ z.surfaces = e.surfaces
  BY <1>9, <1>10 DEF IsEnc, EncFields
<1>12. BufferedNodeDone(e, i, n) = TryStartNextLiveBlock(FlushReady(z))
  BY <1>1, <1>2, <1>5, <1>7, <1>8, <1>9, <1>10 DEF BufferedNodeDone
<1>13. DOMAIN P = DOMAIN e.pending \union {i} /\ P[i] = w /\ \A j \in DOMAIN e.pending : j # i => P[j] = e.pending[j]
  BY <1>5 DEF With
<1>14. EncInv(z, m)
  <2>1. Counters(z)
    BY <1>11 DEF EncInv, Counters
  <2>2. Places(z, m)
    BY <1>1, <1>3, <1>11, <1>13 DEF EncInv, Places
  <2>3. e.open # 0 => e.open = e.next /\ e.open \in DOMAIN K /\ K[e.open] = e.live[e.open] /\ e.live[e.open].block # 0
    BY <1>1, <1>3 DEF EncInv, LiveBlocks
  <2>4. \A j \in DOMAIN K : DOMAIN K[j] = {"payload", "block"} /\ (K[j].block # 0 => j = e.open)
    BY <1>3 DEF EncInv, LiveBlocks
  <2>5. LiveBlocks(z)
    BY ONLY <1>11, <2>3, <2>4 DEF LiveBlocks
  <2>6. OpenBlock(z) = OpenBlock(e)
    BY <1>11, <2>3 DEF OpenBlock
  <2>7. InStep(z)
    BY <1>1, <1>11, <2>6 DEF EncInv, InStep
  <2> QED
    BY <1>11, <2>1, <2>2, <2>5, <2>7 DEF EncInv
<1>15. Bufs(z, x, g)
  BY <1>3, <1>11 DEF Kept, Bufs
<1>16. Opened(z, x, g)
  <2>1. e.open # 0 => K[e.open] = e.live[e.open]
    BY <1>1, <1>3 DEF EncInv, LiveBlocks
  <2> QED
    BY <1>11, <2>1 DEF Kept, Opened
<1>17. Pends(z, x)
  BY <1>6, <1>11, <1>13 DEF Kept, Pends
<1>18. Kept(z, x, g, E)
  BY <1>11, <1>15, <1>16, <1>17 DEF Kept, Surfaced
<1>19. Waits(z, e, i)
  BY <1>3, <1>11, <1>13 DEF Waits
<1> QED
  BY <1>11, <1>12, <1>14, <1>18, <1>19

(* A node that is not shown has ended.                                     *)
LEMMA FlushNothing ==
  ASSUME NEW e, DOMAIN e.pending = {} PROVE FlushReady(e) = e
<1>1. {i \in DOMAIN e.pending : e.next <= i /\ e.next .. i \subseteq DOMAIN e.pending} = {}
  OBVIOUS
<1> QED
  BY <1>1, EmitNone DEF FlushReady

LEMMA BlankEnds ==
  ASSUME NEW m \in Nat, NEW e, EncInv(e, m), NEW x, NEW g, NEW E, Kept(e, x, g, E), NEW i, i = e.next, i \in 1 .. m,
         i \notin DOMAIN e.live, DOMAIN e.pending = {}, NEW n, n.kind \notin Shown
  PROVE  /\ Kept(BufferedNodeDone(e, i, n), x, g, E)
         /\ BufferedNodeDone(e, i, n).next = i + 1 /\ BufferedNodeDone(e, i, n).open = 0
         /\ DOMAIN BufferedNodeDone(e, i, n).live = DOMAIN e.live /\ DOMAIN BufferedNodeDone(e, i, n).pending = {}
         /\ BufferedNodeDone(e, i, n).absorbed = e.absorbed /\ BufferedNodeDone(e, i, n).direct = e.direct
<1>1. IsEnc(e) /\ e.open = 0
  BY DEF EncInv, LiveBlocks
<1>2. BlockFromNode(n) = NoBlock
  BY DEF BlockFromNode
<1>3. PICK K : K = Without(e.live, i)
  OBVIOUS
<1>4. DOMAIN K = DOMAIN e.live /\ \A j \in DOMAIN K : K[j] = e.live[j]
  <2>1. PICK L : L = e.live
    OBVIOUS
  <2>2. DOMAIN K = DOMAIN L \ {i} /\ \A j \in DOMAIN L \ {i} : K[j] = L[j]
    BY ONLY <1>3, <2>1, Restricted
  <2> QED
    BY <2>1, <2>2
<1>5. PICK s : s = [e EXCEPT !.live = K]
  OBVIOUS
<1>6. /\ IsEnc(s) /\ s.client = e.client /\ s.live = K /\ s.blocks = e.blocks /\ s.pending = e.pending
      /\ s.open = 0 /\ s.next = i /\ s.absorbed = e.absorbed /\ s.direct = e.direct /\ s.surfaces = e.surfaces
  BY <1>1, <1>5 DEF IsEnc, EncFields
<1>7. PICK z : z = [s EXCEPT !.next = i + 1]
  OBVIOUS
<1>8. /\ IsEnc(z) /\ z.client = e.client /\ z.live = K /\ z.blocks = e.blocks /\ z.pending = e.pending
      /\ z.open = 0 /\ z.next = i + 1 /\ z.absorbed = e.absorbed /\ z.direct = e.direct /\ z.surfaces = e.surfaces
  BY <1>6, <1>7 DEF IsEnc, EncFields
<1>9. FlushReady(z) = z
  <2>1. DOMAIN z.pending = {}
    BY <1>8
  <2> QED
    BY ONLY <2>1, FlushNothing
<1>10. BufferedNodeDone(e, i, n) = z
  BY <1>2, <1>3, <1>5, <1>6, <1>7, <1>9 DEF BufferedNodeDone, MarkNodeWithoutBlock
<1>11. Kept(z, x, g, E)
  BY <1>1, <1>4, <1>8 DEF Kept, Bufs, Opened, Pends, Surfaced
<1> QED
  BY <1>4, <1>8, <1>10, <1>11

-----------------------------------------------------------------------------
(* A delta d takes node i from what it is in x to what it is in z, and the *)
(* signature passed on from s to v.                                        *)
GrowsPlain(q, r, d) == Streamed(r) = Streamed(q) \o d.text /\ d.summary = << >> /\ IsSeq(Streamed(q))

Silent(d) == d.text = << >> /\ d.summary = << >>

GrowsThinking(x, q, r, d) ==
  /\ IsSeq(q.text) /\ IsSeq(q.summary) /\ IsSeq(r.text) /\ IsSeq(r.summary)
  /\ Main(x, r) = Main(x, q) \o ShownOf(d) /\ r.text = q.text \o d.text
  /\ r.summary = q.summary \o d.summary /\ Len(d.summary) <= 1
  /\ d.text = << >> \/ d.summary = << >>
  /\ x.src = "messages" => Silent(d) \/ (r.text = << >> /\ ShownOf(d) = d.summary)
  /\ r.text = << >> /\ r.summary = << >> => /\ d.text = << >> /\ d.summary = << >>
                                            /\ q.text = << >> /\ q.summary = << >>

Grows(x, q, r, d, s, v) ==
  /\ r.kind = q.kind /\ r.detail = q.detail /\ IsDelta(d) /\ v = s \o d.sig
  /\ q.kind # "redacted"
  /\ q.kind \in Plain => GrowsPlain(q, r, d)
  /\ q.kind = "thinking" => GrowsThinking(x, q, r, d)

(* A delta that a node reads once its block is open: a block that waited   *)
(* has text or summaries to come from a Messages upstream only.            *)
Follows(x, i, d) == i \in x.dir \/ x.src = "messages" \/ Silent(d)

LEMMA BufGrows ==
  ASSUME NEW x, NEW q, NEW r, NEW d, NEW s, NEW v, Grows(x, q, r, d, s, v), NEW p, BufOk(q, s, p)
  PROVE  BufOk(r, v, BufferedDelta(p, d))
<1>1. PICK w, o : w = BufferedDelta(p, d) /\ o = << >>
  OBVIOUS
<1>2. IsPay(p) /\ IsSeq(p.text) /\ IsSeq(p.sig) /\ IsSeq(d.text) /\ IsSeq(d.summary) /\ IsSeq(d.sig) /\ p.kind = q.kind
      /\ p.detail = q.detail /\ r.kind = q.kind /\ r.detail = q.detail
  BY DEF Grows, BufOk, IsPay, IsDelta
<1>3. /\ DOMAIN w = {"kind", "text", "sig", "detail"} /\ w.kind = p.kind /\ w.detail = p.detail /\ w.sig = p.sig \o d.sig
      /\ w.text = (IF d.text # o THEN p.text \o d.text ELSE IF p.text = o THEN d.summary ELSE p.text)
  BY <1>1, <1>2 DEF BufferedDelta, IsPay
<1>4. IsSeq(w.sig) /\ IsSeq(p.text \o d.text)
  BY <1>2, <1>3, SeqJoined
<1>5. IsPay(w)
  BY <1>2, <1>3, <1>4 DEF IsPay
<1>6. p.text \o o = p.text
  BY <1>1, <1>2, JoinNone
<1>7. ASSUME q.kind \in Plain PROVE w.text = Streamed(r)
  <2>1. p.text = Streamed(q) /\ Streamed(r) = Streamed(q) \o d.text /\ d.summary = o
    BY <1>1, <1>7 DEF BufOk, Grows, GrowsPlain
  <2>2. CASE d.text # o
    BY <1>3, <2>1, <2>2
  <2>3. CASE d.text = o
    BY <1>3, <1>6, <2>1, <2>3
  <2> QED
    BY <2>2, <2>3
<1>8. ASSUME q.kind = "thinking"
      PROVE  BufText(r, w.text) /\ w.sig = v /\ (r.text = o /\ r.summary = o => w.text = o)
  <2>1. BufText(q, p.text) /\ p.sig = s /\ (q.text = o /\ q.summary = o => p.text = o)
    BY <1>1, <1>8 DEF BufOk
  <2>2. /\ IsSeq(q.text) /\ IsSeq(q.summary) /\ r.text = q.text \o d.text /\ r.summary = q.summary \o d.summary
        /\ r.text = o /\ r.summary = o => d.text = o /\ d.summary = o /\ q.text = o /\ q.summary = o
    BY <1>1, <1>8 DEF Grows, GrowsThinking
  <2>3. w.sig = v
    BY <1>3, <2>1 DEF Grows
  <2>4. Len(d.summary) <= 1 /\ (d.text = << >> \/ d.summary = << >>)
    BY <1>8 DEF Grows, GrowsThinking
  <2>5. PICK a, c : a = w.text /\ c = p.text
    OBVIOUS
  <2>6. BufText(q, c) /\ a = IF d.text # << >> THEN c \o d.text ELSE IF c = << >> THEN d.summary ELSE c
    BY <1>1, <1>3, <2>1, <2>5
  <2>7. BufText(r, a)
    BY <1>2, <2>2, <2>4, <2>6, BufTextGrows
  <2> QED
    BY <1>1, <1>3, <2>1, <2>2, <2>3, <2>5, <2>7
<1> QED
  BY <1>1, <1>2, <1>3, <1>5, <1>7, <1>8 DEF BufOk

LEMMA LiveGrows ==
  ASSUME NEW x, NEW z, z.src = x.src, z.dir = x.dir, NEW i, NEW q, q = x.ns[i], NEW r, r = z.ns[i],
         NEW d, Follows(x, i, d), NEW s, NEW v, Grows(x, q, r, d, s, v), NEW p, NEW y, LiveOk(x, i, s, p, y),
         NEW u, IsBlock(u), u.kind = y.kind, u.text = y.text \o ShownOf(d), u.sig = y.sig \o d.sig
  PROVE  LiveOk(z, i, v, EmittedDelta(p, d), u)
<1>1. PICK w, o, T, D : w = EmittedDelta(p, d) /\ o = << >> /\ T = TerminalText(d) /\ D = ShownOf(d)
  OBVIOUS
<1>2. IsPay(p) /\ IsSeq(p.text) /\ IsSeq(p.sig) /\ IsSeq(d.text) /\ IsSeq(d.summary) /\ IsSeq(d.sig) /\ p.kind = q.kind
      /\ p.detail = q.detail /\ r.kind = q.kind /\ r.detail = q.detail /\ y.kind = q.kind /\ IsSeq(y.text)
  BY DEF Grows, LiveOk, IsPay, IsDelta, IsBlock
<1>3. T = IF d.text # o THEN d.text ELSE d.summary
  BY <1>1 DEF TerminalText
<1>4. IsSeq(T) /\ IsSeq(D)
  BY <1>1, <1>2, <1>3, ShownSeq DEF Grows
<1>5. /\ DOMAIN w = {"kind", "text", "sig", "detail"} /\ w.kind = p.kind /\ w.detail = p.detail
      /\ w.sig = p.sig \o d.sig /\ w.text = p.text \o T
  BY <1>1, <1>2 DEF EmittedDelta, IsPay
<1>6. IsSeq(w.sig) /\ IsSeq(w.text) /\ Len(w.text) = Len(p.text) + Len(T)
  BY <1>2, <1>4, <1>5, SeqJoined
<1>7. IsPay(w)
  BY <1>5, <1>6 DEF IsPay
<1>8. ASSUME q.kind \in Plain PROVE w.text = Streamed(r) /\ u.text = Streamed(r)
  <2>1. p.text = Streamed(q) /\ y.text = Streamed(q) /\ Streamed(r) = Streamed(q) \o d.text /\ d.summary = o
    BY <1>1, <1>8 DEF LiveOk, Grows, GrowsPlain
  <2>2. T = d.text /\ D = d.text
    BY <1>1, <1>3, <2>1 DEF ShownOf
  <2> QED
    BY <1>1, <1>5, <2>1, <2>2
<1>9. ASSUME q.kind = "thinking"
      PROVE  /\ w.sig = v /\ u.sig = v
             /\ i \in x.dir => u.text = Main(z, r) /\ Len(w.text) = Len(r.text) + Len(r.summary)
             /\ i \notin x.dir => /\ BufferedThinking(r, u.text) /\ Len(r.text) <= Len(w.text)
                                  /\ r.text = << >> => w.text = u.text
  <2>1. p.sig = s /\ y.sig = s
    BY <1>9 DEF LiveOk
  <2>2. w.sig = v /\ u.sig = v
    BY <1>5, <2>1 DEF Grows
  <2>3. /\ IsSeq(q.text) /\ IsSeq(q.summary) /\ IsSeq(r.text) /\ IsSeq(r.summary)
        /\ Main(x, r) = Main(x, q) \o D /\ r.text = q.text \o d.text
        /\ r.summary = q.summary \o d.summary
        /\ d.text = o \/ d.summary = o
        /\ x.src = "messages" => Silent(d) \/ (r.text = o /\ D = d.summary)
    BY <1>1, <1>9 DEF Grows, GrowsThinking
  <2>4. PICK kp, kt, qt, qs, dt, ds, rt, rs, wt :
          /\ kp = Len(p.text) /\ kt = Len(T) /\ qt = Len(q.text) /\ qs = Len(q.summary) /\ dt = Len(d.text)
          /\ ds = Len(d.summary) /\ rt = Len(r.text) /\ rs = Len(r.summary) /\ wt = Len(w.text)
    OBVIOUS
  <2>5. /\ kp \in Nat /\ kt \in Nat /\ qt \in Nat /\ qs \in Nat /\ dt \in Nat /\ ds \in Nat /\ rs = qs + ds
        /\ wt = kp + kt
    <3>1. kp \in Nat /\ kt \in Nat /\ qt \in Nat /\ qs \in Nat /\ dt \in Nat /\ ds \in Nat
      BY <1>2, <1>4, <2>3, <2>4, SeqDomain
    <3>2. PICK h, c : h = q.summary /\ c = d.summary
      OBVIOUS
    <3>3. IsSeq(h) /\ IsSeq(c) /\ r.summary = h \o c /\ qs = Len(h) /\ ds = Len(c)
      BY <1>2, <2>3, <2>4, <3>2
    <3>4. rs = qs + ds
      BY <2>4, <3>3, SeqJoined
    <3> QED
      BY <1>6, <2>4, <3>1, <3>4
  <2>6. rt = qt + dt
    BY <1>2, <2>3, <2>4, SeqJoined
  <2>7. kt = dt + ds
    <3>1. Len(o) = 0
      BY <1>1, SeqNone
    <3>2. CASE d.text # o
      <4>1. kt = dt /\ ds = 0
        BY <1>3, <2>3, <2>4, <3>1, <3>2
      <4> QED
        BY <2>5, <4>1
    <3>3. CASE d.text = o
      <4>1. kt = ds /\ dt = 0
        BY <1>3, <2>4, <3>1, <3>3
      <4> QED
        BY <2>5, <4>1
    <3> QED
      BY <3>2, <3>3
  <2>8. ASSUME i \in x.dir PROVE u.text = Main(z, r) /\ Len(w.text) = Len(r.text) + Len(r.summary)
    <3>1. y.text = Main(x, q) /\ kp = qt + qs
      BY <1>9, <2>4, <2>8 DEF LiveOk
    <3>2. u.text = Main(x, r)
      BY <1>1, <2>3, <3>1
    <3>3. Main(x, r) = Main(z, r)
      BY DEF Main
    <3>4. wt = rt + rs
      BY <2>5, <2>6, <2>7, <3>1
    <3> QED
      BY <2>4, <3>2, <3>3, <3>4
  <2>9. ASSUME i \notin x.dir
        PROVE  /\ BufferedThinking(r, u.text) /\ Len(r.text) <= Len(w.text)
               /\ r.text = << >> => w.text = u.text
    <3>1. BufferedThinking(q, y.text) /\ qt <= kp /\ (q.text = o => p.text = y.text)
      BY <1>1, <1>9, <2>4, <2>9 DEF LiveOk
    <3>2. rt <= wt
      BY <2>5, <2>6, <2>7, <3>1
    <3>3. u.text = y.text \o D /\ w.text = p.text \o T
      BY <1>1, <1>5
    <3>4. CASE Silent(d)
      <4>1. d.text = o /\ d.summary = o /\ T = o /\ D = o
        BY <1>1, <1>3, <3>4 DEF Silent, ShownOf
      <4>2. r.text = q.text /\ r.summary = q.summary /\ u.text = y.text /\ w.text = p.text
        BY <1>1, <1>2, <2>3, <3>3, <4>1, JoinNone
      <4> QED
        BY <1>1, <2>4, <3>1, <3>2, <4>2 DEF BufferedThinking
    <3>5. CASE ~Silent(d)
      <4>1. r.text = o /\ D = d.summary
        BY <2>3, <2>9, <3>5 DEF Follows
      <4>2. Len(o) = 0 /\ qt = 0 /\ dt = 0
        <5>1. Len(o) = 0 /\ rt = 0
          BY <1>1, <2>4, <4>1, SeqNone
        <5>2. qt = 0 /\ dt = 0
          BY ONLY <2>5, <2>6, <5>1
        <5> QED
          BY <5>1, <5>2
      <4>3. q.text = o /\ d.text = o
        BY <1>1, <1>2, <2>3, <2>4, <4>2, SeqEmpty
      <4>4. T = d.summary /\ LacksRun(y.text, q.summary)
        BY <1>1, <1>3, <3>1, <4>3 DEF BufferedThinking
      <4>5. PICK a, h, c : a = y.text /\ h = q.summary /\ c = d.summary
        OBVIOUS
      <4>6. LacksRun(a \o c, h \o c)
        BY <1>2, <2>3, <4>4, <4>5, RunGrows
      <4>7. BufferedThinking(r, u.text)
        BY <1>1, <2>3, <3>3, <4>1, <4>5, <4>6 DEF BufferedThinking
      <4> QED
        BY <2>4, <3>1, <3>2, <3>3, <4>1, <4>3, <4>4, <4>7
    <3> QED
      BY <3>4, <3>5
  <2> QED
    BY <2>2, <2>8, <2>9
<1> QED
  BY <1>1, <1>2, <1>5, <1>7, <1>8, <1>9 DEF LiveOk

-----------------------------------------------------------------------------
(* From x to z only node i changes, and nothing that was told is undone.   *)
Changes(x, z, g, h, m, i) ==
  /\ z.src = x.src /\ z.dir = x.dir /\ z.seal = x.seal
  /\ \A j \in 1 .. m : j # i => z.ns[j] = x.ns[j] /\ h[j] = g[j]

Stays(x, z, E, m) ==
  /\ Within(E, m)
  /\ \A j \in E : z.ns[j].kind = x.ns[j].kind /\ \A y : Final(x, j, y) => Final(z, j, y)

LEMMA PendStays ==
  ASSUME NEW x, NEW z, NEW j, j \in z.dir <=> j \in x.dir, z.seal = x.seal, z.ns[j] = x.ns[j], NEW p, PendOk(x, j, p)
  PROVE  PendOk(z, j, p)
BY DEF PendOk, Seal

LEMMA LiveStays ==
  ASSUME NEW x, NEW z, NEW j, z.src = x.src, j \in z.dir <=> j \in x.dir, z.ns[j] = x.ns[j], NEW s, NEW p, NEW y, LiveOk(x, j, s, p, y)
  PROVE  LiveOk(z, j, s, p, y)
BY DEF LiveOk, Main

LEMMA DeltaShown ==
  ASSUME NEW m \in Nat, NEW e, EncInv(e, m), NEW x, NEW g, NEW E, Kept(e, x, g, E), NEW i, i \in DOMAIN e.live,
         NEW z, NEW h, Changes(x, z, g, h, m, i), Stays(x, z, E, m),
         NEW d, Grows(x, x.ns[i], z.ns[i], d, g[i], h[i]), i = e.open => Follows(x, i, d)
  PROVE  /\ Kept(OnNodeDelta(e, i, d), z, h, E)
         /\ Kin(OnNodeDelta(e, i, d), e) /\ OnNodeDelta(e, i, d).open = e.open
<1>1. /\ IsEnc(e) /\ e.sent = TRUE /\ i \in 1 .. m /\ DOMAIN e.live[i] = {"payload", "block"}
      /\ DOMAIN e.live \subseteq 1 .. m /\ DOMAIN e.pending \subseteq 1 .. m /\ i \notin DOMAIN e.pending
      /\ e.blocks \in Nat /\ i # 0
  BY DEF EncInv, LiveBlocks, InStep, Places, Counters
<1>2. e.live[i].block # 0 <=> i = e.open
  BY <1>1 DEF EncInv, LiveBlocks
<1>3. z.src = x.src /\ z.dir = x.dir /\ z.seal = x.seal /\ \A j \in 1 .. m : j # i => z.ns[j] = x.ns[j] /\ h[j] = g[j]
  BY DEF Changes
<1>4. PICK q, w, s, v, l : q = x.ns[i] /\ w = z.ns[i] /\ s = g[i] /\ v = h[i] /\ l = e.live[i].payload
  OBVIOUS
<1>5. Grows(x, q, w, d, s, v) /\ w.kind = q.kind
  BY <1>4 DEF Grows
<1>6. \A j \in DOMAIN e.pending : PendOk(z, j, e.pending[j])
  <2>1. \A j \in DOMAIN e.pending : z.ns[j] = x.ns[j]
    BY <1>1, <1>3
  <2>2. \A j \in DOMAIN e.pending : PendOk(x, j, e.pending[j])
    BY DEF Kept, Pends
  <2> QED
    BY <1>3, <2>1, <2>2, PendStays
<1>7. ASSUME NEW B, NEW n, Told(x, E, B, n) PROVE Told(z, E, B, n)
  <2>1. Told(x, E, B, n) /\ Within(E, m) /\ \A j \in E : \A y : Final(x, j, y) => Final(z, j, y)
    BY <1>7 DEF Stays
  <2> QED
    BY ONLY <2>1, ToldFor
<1>8. Surfaced(e, z, E)
  BY DEF Kept, Surfaced, Stays
<1>9. CASE i # e.open
  <2>1. PICK p : p = BufferedDelta(l, d)
    OBVIOUS
  <2>2. PICK L : L = [e.live EXCEPT ![i] = [e.live[i] EXCEPT !.payload = p]]
    OBVIOUS
  <2>3. DOMAIN L = DOMAIN e.live /\ L[i].payload = p /\ \A j \in DOMAIN e.live : j # i => L[j] = e.live[j]
    BY <1>1, <2>2
  <2>4. PICK r : r = [e EXCEPT !.live = L]
    OBVIOUS
  <2>5. OnNodeDelta(e, i, d) = r
    BY <1>2, <1>4, <1>9, <2>1, <2>2, <2>4 DEF OnNodeDelta
  <2>6. /\ IsEnc(r) /\ r.client = e.client /\ r.live = L /\ r.blocks = e.blocks /\ r.pending = e.pending
        /\ r.open = e.open /\ r.next = e.next /\ r.absorbed = e.absorbed /\ r.direct = e.direct /\ r.surfaces = e.surfaces
    BY <1>1, <2>4 DEF IsEnc, EncFields
  <2>7. BufOk(w, v, p)
    <3>1. BufOk(q, s, l)
      BY <1>4, <1>9 DEF Kept, Bufs
    <3> QED
      BY ONLY <1>5, <2>1, <3>1, BufGrows
  <2>8. Bufs(r, z, h)
    <3>1. \A j \in DOMAIN e.live : j # e.open => BufOk(x.ns[j], g[j], e.live[j].payload)
      BY DEF Kept, Bufs
    <3>2. ASSUME NEW j \in DOMAIN L, j # e.open PROVE BufOk(z.ns[j], h[j], L[j].payload)
      <4>1. CASE j = i
        BY <1>4, <2>3, <2>7, <4>1
      <4>2. CASE j # i
        BY <1>1, <1>3, <2>3, <3>1, <3>2, <4>2
      <4> QED
        BY <4>1, <4>2
    <3> QED
      BY <2>6, <3>2 DEF Bufs
  <2>9. ASSUME e.open # 0
        PROVE  /\ L[e.open] = e.live[e.open] /\ z.ns[e.open] = x.ns[e.open] /\ h[e.open] = g[e.open]
               /\ LiveOk(z, e.open, g[e.open], e.live[e.open].payload, e.client.blocks[e.blocks])
               /\ e.live[e.open].block = e.blocks
    <3>1. e.open \in DOMAIN e.live
      BY <2>9 DEF EncInv, LiveBlocks
    <3>2. L[e.open] = e.live[e.open] /\ z.ns[e.open] = x.ns[e.open] /\ h[e.open] = g[e.open]
      BY <1>1, <1>3, <1>9, <2>3, <3>1
    <3>3. PICK j, a, b, y : j = e.open /\ a = g[j] /\ b = e.live[j].payload /\ y = e.client.blocks[e.blocks]
      OBVIOUS
    <3>4. LiveOk(x, j, a, b, y)
      BY <2>9, <3>3 DEF Kept, Opened
    <3>5. LiveOk(z, j, a, b, y)
      BY <1>3, <3>2, <3>3, <3>4, LiveStays
    <3> QED
      BY <2>9, <3>2, <3>3, <3>5 DEF Kept, Opened
  <2>10. Opened(r, z, h)
    BY <2>6, <2>9 DEF Opened
  <2>11. Pends(r, z) /\ Surfaced(r, z, E)
    BY <1>6, <1>8, <2>6 DEF Pends, Surfaced
  <2>12. e.open # 0 => Surface(z.ns[e.open].kind) \in e.surfaces
    BY <2>9 DEF Kept
  <2>13. Kept(r, z, h, E)
    BY <1>7, <2>6, <2>8, <2>10, <2>11, <2>12 DEF Kept
  <2> QED
    BY <2>3, <2>5, <2>6, <2>13 DEF Kin
<1>10. CASE i = e.open
  <2>1. PICK b, y, B, k, t, f : /\ b = e.blocks /\ B = e.client.blocks /\ y = B[b] /\ k = y.kind /\ t = y.text /\ f = y.sig
    OBVIOUS
  <2>2. LiveOk(x, i, s, l, y) /\ e.live[i].block = b
    BY <1>1, <1>4, <1>10, <2>1 DEF Kept, Opened
  <2>3. b # 0 /\ ClientAt(e.client, "body", b, b) /\ IsBlock(y) /\ l.kind = q.kind
    <3>1. b # 0 /\ OpenBlock(e) = b
      BY <1>1, <1>2, <1>10, <2>2 DEF OpenBlock
    <3> QED
      BY <1>1, <1>4, <2>1, <2>2, <3>1 DEF EncInv, InStep, LiveOk
  <2>4. EncTip(e, B, b, k, t, f)
    BY <1>1, <2>1, <2>3 DEF EncTip, Tip, Holds
  <2>5. PICK t2, f2 : t2 = t \o ShownOf(d) /\ f2 = f \o d.sig
    OBVIOUS
  <2>6. Adds(l, d, t, f, t2, f2)
    BY <1>5, <2>3, <2>5 DEF Adds, Grows
  <2>7. PICK c : LiveDelta(e, b, l, d) = SetClient(e, c) /\ Tip(c, B, b, k, t2, f2)
    BY ONLY <2>4, <2>6, TipLive
  <2>8. PICK u, p : u = c.blocks[b] /\ p = EmittedDelta(l, d)
    OBVIOUS
  <2>9. /\ IsBlock(u) /\ u.kind = y.kind /\ u.text = y.text \o ShownOf(d) /\ u.sig = y.sig \o d.sig
        /\ \A j \in 1 .. (b - 1) : c.blocks[j] = B[j]
    BY <2>1, <2>5, <2>7, <2>8 DEF Tip, Holds
  <2>10. LiveOk(z, i, v, p, u)
    <3>1. z.src = x.src /\ z.dir = x.dir /\ q = x.ns[i] /\ w = z.ns[i] /\ Follows(x, i, d)
      BY <1>3, <1>4, <1>10
    <3>2. IsBlock(u) /\ u.kind = y.kind /\ u.text = y.text \o ShownOf(d) /\ u.sig = y.sig \o d.sig
      BY <2>9
    <3> QED
      BY ONLY <1>5, <2>2, <2>8, <3>1, <3>2, LiveGrows
  <2>11. PICK L : L = [e.live EXCEPT ![i] = [e.live[i] EXCEPT !.payload = p]]
    OBVIOUS
  <2>12. /\ DOMAIN L = DOMAIN e.live /\ L[i].payload = p /\ L[i].block = b
         /\ \A j \in DOMAIN e.live : j # i => L[j] = e.live[j]
    BY <1>1, <2>2, <2>11
  <2>13. PICK o, r : o = SetClient(e, c) /\ r = [o EXCEPT !.live = L]
    OBVIOUS
  <2>14. /\ IsEnc(o) /\ o.client = c /\ o.live = e.live /\ o.blocks = e.blocks /\ o.pending = e.pending
         /\ o.open = e.open /\ o.next = e.next /\ o.absorbed = e.absorbed /\ o.direct = e.direct /\ o.surfaces = e.surfaces
    BY <1>1, <2>13, ClientSet DEF EncFields
  <2>15. /\ IsEnc(r) /\ r.client = c /\ r.live = L /\ r.blocks = e.blocks /\ r.pending = e.pending
         /\ r.open = e.open /\ r.next = e.next /\ r.absorbed = e.absorbed /\ r.direct = e.direct /\ r.surfaces = e.surfaces
    BY <2>13, <2>14 DEF IsEnc, EncFields
  <2>16. OnNodeDelta(e, i, d) = r
    BY <1>4, <2>2, <2>3, <2>7, <2>8, <2>11, <2>13, <2>14 DEF OnNodeDelta
  <2>17. Bufs(r, z, h)
    <3>1. \A j \in DOMAIN e.live : j # e.open => BufOk(x.ns[j], g[j], e.live[j].payload)
      BY DEF Kept, Bufs
    <3>2. ASSUME NEW j \in DOMAIN L, j # e.open PROVE BufOk(z.ns[j], h[j], L[j].payload)
      BY <1>1, <1>3, <1>10, <2>12, <3>1, <3>2
    <3> QED
      BY <2>15, <3>2 DEF Bufs
  <2>18. Opened(r, z, h)
    BY <1>4, <1>10, <2>1, <2>8, <2>10, <2>12, <2>15 DEF Opened
  <2>19. Pends(r, z) /\ Surfaced(r, z, E)
    BY <1>6, <1>8, <2>15 DEF Pends, Surfaced
  <2>20. Surface(z.ns[e.open].kind) \in e.surfaces
    BY <1>1, <1>4, <1>5, <1>10 DEF Kept
  <2>21. Told(z, E, c.blocks, b - 1)
    <3>1. Told(x, E, B, b - 1)
      BY <1>1, <1>10, <2>1 DEF Kept
    <3>2. PICK C, n : C = c.blocks /\ n = b - 1
      OBVIOUS
    <3>3. Told(z, E, B, n) /\ \A j \in 1 .. n : C[j] = B[j]
      BY <1>7, <2>9, <3>1, <3>2
    <3>4. Told(z, E, C, n)
      BY ONLY <3>3, ToldSame
    <3> QED
      BY <3>2, <3>4
  <2>22. Kept(r, z, h, E)
    BY <1>1, <1>10, <2>1, <2>15, <2>17, <2>18, <2>19, <2>20, <2>21 DEF Kept
  <2> QED
    BY <2>12, <2>15, <2>16, <2>22 DEF Kin
<1> QED
  BY <1>9, <1>10

-----------------------------------------------------------------------------
(* Node m + 1 is new, and nothing has been said of it yet.                 *)
NewIn(w, v) ==
  /\ NodeFit(w) /\ (w.kind \in Plain => Streamed(w) = << >>)
  /\ w.kind = "thinking" => w.text = << >> /\ w.summary = << >> /\ v = << >>

Joins(x, z, g, h, m) ==
  /\ z.src = x.src /\ z.seal = x.seal
  /\ \A j \in 1 .. m : z.ns[j] = x.ns[j] /\ h[j] = g[j] /\ (j \in z.dir <=> j \in x.dir)

LEMMA BufStarts ==
  ASSUME NEW w, NEW v, NewIn(w, v), NEW n, n.kind = w.kind, n.detail = w.detail
  PROVE  BufOk(w, v, BlockFromNodeHeader(n))
<1>1. PICK p, o : p = BlockFromNodeHeader(n) /\ o = << >>
  OBVIOUS
<1>2. n.kind \in Shown
  BY DEF NewIn, NodeFit
<1>3. DOMAIN p = {"kind", "text", "sig", "detail"} /\ p.kind = w.kind /\ p.detail = w.detail /\ p.text = o /\ p.sig = o
  BY <1>1, <1>2 DEF BlockFromNodeHeader, NoBlock
<1>4. IsPay(p)
  BY <1>1, <1>3, SeqNone DEF IsPay
<1>5. w.text = o /\ w.summary = o => BufText(w, o)
  BY <1>1, SeqNone, JoinNone DEF BufText, FirstChunk
<1> QED
  BY <1>1, <1>3, <1>4, <1>5 DEF BufOk, NewIn

(* The node starts: its block is opened when its turn has come.            *)
AtOnce(e, i) == i = e.next /\ e.open = 0

Starts(r, e, i) ==
  /\ r.pending = e.pending /\ r.absorbed = e.absorbed /\ r.next = e.next
  /\ DOMAIN r.live = DOMAIN e.live \union {i}
  /\ r.open = IF AtOnce(e, i) THEN i ELSE e.open
  /\ r.direct = IF AtOnce(e, i) THEN e.direct \union {i} ELSE e.direct

LEMMA BegunShown ==
  ASSUME NEW m \in Nat, NEW e, EncInv(e, m), NEW x, NEW g, NEW E, Kept(e, x, g, E),
         NEW z, NEW h, Joins(x, z, g, h, m), Stays(x, z, E, m), NEW i, i = m + 1,
         NEW p, BufOk(z.ns[i], h[i], p), NEW s, s = Begun(e, i, p)
  PROVE  Kept(s, z, h, E)
<1>1. /\ EncInv(s, m + 1) /\ s.sent = TRUE /\ s.next = e.next /\ s.open = e.open /\ s.blocks = e.blocks
      /\ s.pending = e.pending /\ s.absorbed = e.absorbed /\ s.direct = e.direct /\ s.surfaces = e.surfaces
      /\ s.client.blocks = e.client.blocks
      /\ DOMAIN s.live = DOMAIN e.live \union {i} /\ s.live[i].payload = p
      /\ \A j \in DOMAIN e.live : s.live[j] = e.live[j]
  <2>1. EncInv(e, m) /\ Begins(s, e, m, i, p)
    BY DEF Begins
  <2>2. EncInv(s, m + 1) /\ s.sent = TRUE /\ BegunAs(s, e, i, p)
    BY ONLY <2>1, BegunKeeps
  <2> QED
    BY <2>2 DEF BegunAs
<1>2. DOMAIN e.live \subseteq 1 .. m /\ DOMAIN e.pending \subseteq 1 .. m
  BY DEF EncInv, Places
<1>3. z.src = x.src /\ z.seal = x.seal
      /\ \A j \in 1 .. m : z.ns[j] = x.ns[j] /\ h[j] = g[j] /\ (j \in z.dir <=> j \in x.dir)
  BY DEF Joins
<1>4. \A j \in DOMAIN e.pending : PendOk(z, j, e.pending[j])
  <2>1. \A j \in DOMAIN e.pending : z.ns[j] = x.ns[j] /\ (j \in z.dir <=> j \in x.dir)
    BY <1>2, <1>3
  <2>2. \A j \in DOMAIN e.pending : PendOk(x, j, e.pending[j])
    BY DEF Kept, Pends
  <2> QED
    BY <1>3, <2>1, <2>2, PendStays
<1>5. PICK n, B : n = (IF e.open = 0 THEN e.blocks ELSE e.blocks - 1) /\ B = e.client.blocks
  OBVIOUS
<1>6. Told(z, E, B, n)
  <2>1. Told(x, E, B, n) /\ Within(E, m) /\ \A j \in E : \A y : Final(x, j, y) => Final(z, j, y)
    BY <1>5 DEF Kept, Stays
  <2> QED
    BY ONLY <2>1, ToldFor
<1>7. Surfaced(s, z, E)
  BY <1>1 DEF Kept, Surfaced, Stays
<1>8. ASSUME e.open # 0
      PROVE  /\ e.open \in DOMAIN e.live /\ z.ns[e.open] = x.ns[e.open] /\ h[e.open] = g[e.open]
             /\ LiveOk(z, e.open, g[e.open], e.live[e.open].payload, e.client.blocks[e.blocks])
             /\ e.live[e.open].block = e.blocks
  <2>1. e.open \in DOMAIN e.live
    BY <1>8 DEF EncInv, LiveBlocks
  <2>2. PICK j, a, b, y : j = e.open /\ a = g[j] /\ b = e.live[j].payload /\ y = e.client.blocks[e.blocks]
    OBVIOUS
  <2>3. z.ns[j] = x.ns[j] /\ h[j] = g[j] /\ (j \in z.dir <=> j \in x.dir)
    BY <1>2, <1>3, <2>1, <2>2
  <2>4. LiveOk(x, j, a, b, y)
    BY <1>8, <2>2 DEF Kept, Opened
  <2>5. LiveOk(z, j, a, b, y)
    BY <1>3, <2>3, <2>4, LiveStays
  <2> QED
    BY <1>8, <2>1, <2>2, <2>3, <2>5 DEF Kept, Opened
<1>9. Opened(s, z, h)
  BY <1>1, <1>8 DEF Opened
<1>10. Bufs(s, z, h)
  <2>1. \A j \in DOMAIN e.live : j # e.open => BufOk(x.ns[j], g[j], e.live[j].payload)
    BY DEF Kept, Bufs
  <2>2. ASSUME NEW j \in DOMAIN s.live, j # e.open PROVE BufOk(z.ns[j], h[j], s.live[j].payload)
    <3>1. CASE j = i
      BY <1>1, <3>1
    <3>2. CASE j # i
      BY <1>1, <1>2, <1>3, <2>1, <2>2, <3>2
    <3> QED
      BY <3>1, <3>2
  <2> QED
    BY <1>1, <2>2 DEF Bufs
<1>11. Pends(s, z)
  BY <1>1, <1>4 DEF Pends
<1>12. e.open # 0 => Surface(z.ns[e.open].kind) \in e.surfaces
  BY <1>8 DEF Kept
<1> QED
  BY <1>1, <1>5, <1>6, <1>7, <1>9, <1>10, <1>11, <1>12 DEF Kept

LEMMA StartShown ==
  ASSUME NEW m \in Nat, NEW e, EncInv(e, m), NEW x, NEW g, NEW E, Kept(e, x, g, E),
         NEW z, NEW h, Joins(x, z, g, h, m), Stays(x, z, E, m), NEW i, i = m + 1, NewIn(z.ns[i], h[i]),
         NEW n, n.kind = z.ns[i].kind, n.detail = z.ns[i].detail
  PROVE  Kept(OnNodeStart(e, i, n), z, h, E) /\ Starts(OnNodeStart(e, i, n), e, i)
<1>1. PICK p, s : p = BlockFromNodeHeader(n) /\ s = Begun(e, i, p)
  OBVIOUS
<1>2. /\ EncInv(s, m + 1) /\ s.next = e.next /\ s.open = e.open
      /\ s.pending = e.pending /\ s.absorbed = e.absorbed /\ s.direct = e.direct
      /\ DOMAIN s.live = DOMAIN e.live \union {i}
  <2>1. EncInv(e, m) /\ Begins(s, e, m, i, p)
    BY <1>1 DEF Begins
  <2>2. EncInv(s, m + 1) /\ s.sent = TRUE /\ BegunAs(s, e, i, p)
    BY ONLY <2>1, BegunKeeps
  <2> QED
    BY <2>2 DEF BegunAs
<1>3. NodeFit(z.ns[i]) /\ Fresh(z.ns[i]) /\ n.kind \in Shown
  BY DEF NewIn, NodeFit, Fresh
<1>4. Kept(s, z, h, E)
  <2>1. BufOk(z.ns[i], h[i], p)
    BY <1>1, BufStarts
  <2> QED
    BY <1>1, <2>1, BegunShown
<1>5. p # NoBlock
  BY <1>1, <1>3, HeaderShown
<1>6. CASE ~AtOnce(e, i)
  <2>1. OnNodeStart(e, i, n) = s
    BY <1>1, <1>5, <1>6 DEF OnNodeStart, Begun, AtOnce
  <2> QED
    BY <1>2, <1>4, <1>6, <2>1 DEF Starts
<1>7. CASE AtOnce(e, i)
  <2>1. PICK r, w : r = TryStartNextLiveBlock(s) /\ w = [r EXCEPT !.direct = @ \union {i}]
    OBVIOUS
  <2>2. OnNodeStart(e, i, n) = w
    BY <1>1, <1>5, <1>7, <2>1 DEF OnNodeStart, Begun, AtOnce
  <2>3. s.open = 0 /\ s.next = i /\ s.next \in DOMAIN s.live /\ Startable(z, s.next) /\ m + 1 \in Nat
    BY <1>2, <1>3, <1>7 DEF AtOnce, Startable
  <2>4. Kept(r, z, h, E) /\ r.open = s.next /\ Kin(r, s)
    <3>1. PICK k : k = m + 1
      OBVIOUS
    <3>2. k \in Nat /\ EncInv(s, k)
      BY <1>2, <2>3, <3>1
    <3> QED
      BY <1>4, <2>1, <2>3, <3>2, StartsShown
  <2>5. EncInv(r, m + 1)
    BY <1>2, <2>1, <2>3, StartsNext
  <2>6. /\ IsEnc(w) /\ w.client = r.client /\ w.next = r.next /\ w.blocks = r.blocks /\ w.direct = r.direct \union {i}
        /\ w.live = r.live /\ w.pending = r.pending /\ w.absorbed = r.absorbed /\ w.open = r.open /\ w.surfaces = r.surfaces
    BY <2>1, <2>5 DEF EncInv, IsEnc, EncFields
  <2>7. Kept(w, z, h, E)
    BY <2>4, <2>6 DEF Kept, Bufs, Opened, Pends, Surfaced
  <2> QED
    BY <1>2, <1>7, <2>2, <2>3, <2>4, <2>6, <2>7 DEF Starts, Kin
<1> QED
  BY <1>6, <1>7

-----------------------------------------------------------------------------
(* The end of an answer adds nothing when every node has been told.        *)
QuietGood(p, T, a) == a = p.enc

Quiet == INSTANCE FoldTheorems WITH Op <- FallStep, Good <- QuietGood

LEMMA QuietLoop ==
  ASSUME NEW p
  PROVE  Fallback(p.enc, p.out) = Quiet!Loop(p, p.enc, DOMAIN p.out)
BY DEF Fallback, FoldLeft, Quiet!Loop, MapThenFoldSet, Quiet!MapThenFoldSet, Max, Quiet!Max, FallStep

AllTold(e, out) ==
  \A k \in DOMAIN out : BlockFromNode(out[k]) = NoBlock \/ Surface(BlockFromNode(out[k]).kind) \in e.surfaces

LEMMA QuietAll ==
  ASSUME NEW p, NEW k \in Nat, DOMAIN p.out = 1 .. k, AllTold(p.enc, p.out)
  PROVE  Fallback(p.enc, p.out) = p.enc
<1>1. PICK S : S = DOMAIN p.out
  OBVIOUS
<1>2. S \subseteq 0 .. k
  BY <1>1
<1>3. QuietGood(p, {}, p.enc)
  BY DEF QuietGood
<1>4. \A T \in SUBSET S : \A x \in S \ T : \A a :
        QuietGood(p, T, a) /\ (\A y \in T : y < x) => QuietGood(p, T \union {x}, FallStep(p, a, x))
  BY <1>1 DEF QuietGood, FallStep, AllTold
<1>5. QuietGood(p, S, Quiet!Loop(p, p.enc, S))
  BY <1>2, <1>3, <1>4, Quiet!LoopInvariant
<1> QED
  BY <1>1, <1>5, QuietLoop DEF QuietGood

LEMMA FinishQuiet ==
  ASSUME NEW m \in Nat, NEW e, EncInv(e, m), DOMAIN e.live = {}, DOMAIN e.pending = {},
         NEW k \in Nat, NEW out, DOMAIN out = 1 .. k, AllTold(e, out)
  PROVE  /\ OnResponseDone(e, out).client.blocks = e.client.blocks
         /\ OnResponseDone(e, out).direct = e.direct
<1> DEFINE wanted == \/ e.wanted \/ DOMAIN e.pending # {} \/ DOMAIN e.live # {}
                     \/ \E j \in DOMAIN out : BlockFromNode(out[j]) # NoBlock
<1>1. CASE ~wanted /\ ~e.sent
  BY <1>1 DEF OnResponseDone
<1>2. CASE wanted \/ e.sent
  <2>1. PICK v : v = EnsureMessageStart(e)
    OBVIOUS
  <2>2. PICK u : u = [v EXCEPT !.wanted = wanted]
    OBVIOUS
  <2>3. EncInv(v, m) /\ v.sent = TRUE /\ \A j \in EncFields \ {"sent", "client"} : v[j] = e[j]
    BY <2>1, StartMessage
  <2>4. /\ IsEnc(u) /\ u.client = v.client /\ u.live = v.live
        /\ u.pending = v.pending /\ u.direct = v.direct /\ u.surfaces = v.surfaces
    <3> HIDE DEF wanted
    <3> QED
      BY <2>2, <2>3 DEF EncInv, IsEnc, EncFields
  <2>5. DOMAIN u.live = {} /\ DOMAIN u.pending = {} /\ u.direct = e.direct /\ u.surfaces = e.surfaces
    <3>1. v.live = e.live /\ v.pending = e.pending /\ v.direct = e.direct /\ v.surfaces = e.surfaces
      BY <2>3 DEF EncFields
    <3> QED
      BY <2>4, <3>1
  <2>6. ClientAt(v.client, "body", 0, v.blocks) /\ v.client.blocks = e.client.blocks
    <3>1. v.open = 0
      <4>1. v.live = e.live
        BY <2>3 DEF EncFields
      <4> QED
        BY <2>3, <4>1 DEF EncInv, LiveBlocks
    <3>2. v.client.blocks = e.client.blocks
      <4>1. CASE e.sent
        BY <2>1, <4>1 DEF EnsureMessageStart
      <4>2. CASE ~e.sent
        <5>1. ClientAt(e.client, "new", OpenBlock(e), e.blocks)
          BY <4>2 DEF EncInv, InStep
        <5>2. v.client = OnMessageStart(e.client)
          BY <2>1, <4>2 DEF EnsureMessageStart, EncInv, IsEnc, EncFields
        <5> QED
          BY <5>1, <5>2 DEF OnMessageStart, ClientAt
      <4> QED
        BY <4>1, <4>2
    <3> QED
      BY <2>3, <3>1, <3>2 DEF EncInv, InStep, OpenBlock
  <2>7. PICK p : p = [out |-> out, enc |-> u]
    OBVIOUS
  <2>8. p.out = out /\ p.enc = u
    BY <2>7
  <2>9. PICK r, w, f : r = RemainingLiveNodeBlocks(u, out) /\ w = FlushAllRemaining(r) /\ f = Fallback(w, out)
    OBVIOUS
  <2>10. r = u
    <3>1. RemainingLiveNodeBlocks(u, out) = Rem!Loop(p, u, DOMAIN u.live)
      BY <2>8, RemLoop
    <3>2. Rem!Loop(p, u, 1 .. 0) = u
      BY Rem!LoopTo
    <3>3. 1 .. 0 = {}
      OBVIOUS
    <3> QED
      BY <2>5, <2>9, <3>1, <3>2, <3>3
  <2>11. w = u
    <3>1. FlushAllRemaining(u) = u
      BY <2>5, EmitNone DEF FlushAllRemaining
    <3> QED
      BY <2>9, <2>10, <3>1
  <2>12. f = u
    <3>1. AllTold(u, out)
      BY <2>5 DEF AllTold
    <3>2. Fallback(u, out) = u
      BY <2>8, <3>1, QuietAll
    <3> QED
      BY <2>9, <2>11, <3>2
  <2>13. PICK z : z = [f EXCEPT !.client = OnMessageStop(f.client), !.over = TRUE]
    OBVIOUS
  <2>14. z.client = OnMessageStop(u.client) /\ z.direct = u.direct
    BY <2>4, <2>12, <2>13 DEF IsEnc, EncFields
  <2>15. OnMessageStop(u.client).blocks = u.client.blocks
    BY <2>4, <2>6 DEF ClientAt, OnMessageStop
  <2>16. OnResponseDone(e, out) = z
    BY <1>2, <2>1, <2>2, <2>9, <2>13 DEF OnResponseDone
  <2> QED
    BY <2>4, <2>5, <2>6, <2>14, <2>15, <2>16
<1> QED
  BY <1>1, <1>2

-----------------------------------------------------------------------------
(* What the envelope stage makes of each event, and what that makes of the *)
(* encoder.                                                                *)
LEMMA PassesOne ==
  ASSUME NEW s, NEW v, NEW o, NEW w, o = WrapEvent(s.held, v), o.out = <<w>>
  PROVE  PassOn(s, v).held = o.held /\ PassOn(s, v).enc = EncodeEvent(s.enc, w)
<1>1. PICK e, q : e = s.enc /\ q = o.out
  OBVIOUS
<1>2. DOMAIN q = 1 .. 1 /\ q[1] = w
  BY <1>1
<1>3. EncodeAll(e, q) = EncodeEvent(e, q[1])
  BY ONLY <1>2, EventsOne
<1> QED
  BY <1>1, <1>2, <1>3 DEF PassOn

LEMMA NoEnvelope == Envelope(<< >>) = << >>
BY DEF Envelope

LEMMA AnEnvelope ==
  ASSUME NEW f, f # << >> PROVE Envelope(f) # << >> /\ IsSeq(Envelope(f)) /\ Envelope(f) = <<<<0, f>>>>
BY SeqOne DEF Envelope

LEMMA PassesOther ==
  ASSUME NEW s, NEW v, IsEv(v), sealed => ~IsFragment(v) /\ ~(v.ev = "done" /\ v.i \in DOMAIN s.held)
  PROVE  \E w : /\ PassOn(s, v).enc = EncodeEvent(s.enc, w)
                /\ v.ev \notin {"finish", "error"} => PassOn(s, v).held = s.held
                /\ w.ev = v.ev /\ w.i = v.i /\ w.marked = v.marked
                /\ w.node.kind = v.node.kind /\ w.node.detail = v.node.detail
                /\ w.node.text = v.node.text /\ w.node.summary = v.node.summary
                /\ w.node.sig = (IF sealed THEN Envelope(v.node.sig) ELSE v.node.sig)
                /\ DOMAIN w.out = DOMAIN v.out
                /\ \A k \in DOMAIN v.out : IsNode(v.out[k]) => w.out[k].kind = v.out[k].kind
<1>1. PICK o : o = WrapEvent(s.held, v)
  OBVIOUS
<1>2. CASE ~sealed
  <2>1. o.out = <<v>> /\ o.held = s.held
    BY <1>1, <1>2 DEF WrapEvent
  <2>2. PassOn(s, v).held = o.held /\ PassOn(s, v).enc = EncodeEvent(s.enc, v)
    BY <1>1, <2>1, PassesOne
  <2> QED
    BY <1>2, <2>1, <2>2
<1>3. CASE sealed
  <2>1. PICK n, q : n = SealedNode(v.node) /\ q = [k \in DOMAIN v.out |-> SealedNode(v.out[k])]
    OBVIOUS
  <2>2. PICK w : w = [v EXCEPT !.node = n, !.out = q]
    OBVIOUS
  <2>3. o.out = <<w>> /\ (v.ev \notin {"finish", "error"} => o.held = s.held)
    BY <1>1, <1>3, <2>1, <2>2 DEF WrapEvent, SealEvent
  <2>4. w.ev = v.ev /\ w.i = v.i /\ w.node = n /\ w.out = q /\ w.marked = v.marked
    BY <2>2 DEF IsEv
  <2>5. /\ n.kind = v.node.kind /\ n.detail = v.node.detail /\ n.text = v.node.text /\ n.summary = v.node.summary
        /\ n.sig = Envelope(v.node.sig)
    BY <2>1 DEF SealedNode, IsEv, IsNode
  <2>6. DOMAIN q = DOMAIN v.out /\ \A k \in DOMAIN v.out : IsNode(v.out[k]) => q[k].kind = v.out[k].kind
    BY <2>1 DEF SealedNode, IsNode
  <2>7. PassOn(s, v).held = o.held /\ PassOn(s, v).enc = EncodeEvent(s.enc, w)
    BY <1>1, <2>3, PassesOne
  <2> QED
    BY <1>3, <2>3, <2>4, <2>5, <2>6, <2>7
<1> QED
  BY <1>2, <1>3

LEMMA PassesStart ==
  ASSUME NEW s, NEW v, IsEv(v), v.ev = "start"
  PROVE  \E n : /\ PassOn(s, v).enc = OnNodeStart(s.enc, v.i, n) /\ PassOn(s, v).held = s.held
                /\ n.kind = v.node.kind /\ n.detail = v.node.detail
<1>1. ~IsFragment(v)
  BY DEF IsFragment
<1>2. PICK w : /\ PassOn(s, v).enc = EncodeEvent(s.enc, w) /\ PassOn(s, v).held = s.held
               /\ w.ev = v.ev /\ w.i = v.i /\ w.node.kind = v.node.kind /\ w.node.detail = v.node.detail
  BY <1>1, PassesOther
<1>3. EncodeEvent(s.enc, w) = OnNodeStart(s.enc, w.i, w.node)
  BY <1>2 DEF EncodeEvent
<1> QED
  BY <1>2, <1>3

(* The delta d says text t, summary m and signature g.                     *)
Says(d, t, m, g, marked) == d.text = t /\ d.summary = m /\ d.sig = g /\ d.marked = marked

LEMMA PassesDelta ==
  ASSUME NEW s, NEW v, IsEv(v), v.ev = "delta", sealed => ~IsFragment(v)
  PROVE  \E d : /\ PassOn(s, v).enc = OnNodeDelta(s.enc, v.i, d) /\ PassOn(s, v).held = s.held
                /\ Says(d, v.node.text, v.node.summary,
                        IF sealed THEN Envelope(v.node.sig) ELSE v.node.sig, v.marked)
<1>1. PICK w : /\ PassOn(s, v).enc = EncodeEvent(s.enc, w) /\ PassOn(s, v).held = s.held
               /\ w.ev = v.ev /\ w.i = v.i /\ w.marked = v.marked
               /\ w.node.text = v.node.text /\ w.node.summary = v.node.summary
               /\ w.node.sig = (IF sealed THEN Envelope(v.node.sig) ELSE v.node.sig)
  BY PassesOther
<1>2. PICK d : d = DeltaOf(w)
  OBVIOUS
<1>3. d.text = w.node.text /\ d.summary = w.node.summary /\ d.sig = w.node.sig /\ d.marked = w.marked
  BY <1>2 DEF DeltaOf
<1>4. EncodeEvent(s.enc, w) = OnNodeDelta(s.enc, w.i, d)
  BY <1>1, <1>2 DEF EncodeEvent
<1> QED
  BY <1>1, <1>3, <1>4 DEF Says

LEMMA PassesHeld ==
  ASSUME NEW s, NEW v, IsEv(v), sealed, IsFragment(v), TerminalText(v.node) = << >>
  PROVE  /\ PassOn(s, v).enc = s.enc
         /\ PassOn(s, v).held = With(s.held, v.i, HeldOf(s.held, v.i) \o v.node.sig)
<1>1. PICK o, h : h = s.held /\ o = WrapEvent(h, v)
  OBVIOUS
<1>2. o.out = << >> /\ o.held = With(h, v.i, HeldOf(h, v.i) \o v.node.sig)
  BY <1>1 DEF WrapEvent, HoldFragment
<1>3. PICK e, q : e = s.enc /\ q = o.out
  OBVIOUS
<1>4. DOMAIN q = 1 .. 0
  BY <1>2, <1>3
<1>5. EncodeAll(e, q) = e
  BY ONLY <1>4, EventsNone
<1> QED
  BY <1>1, <1>2, <1>3, <1>5 DEF PassOn

EndsAs(n, q) ==
  /\ n.kind = q.kind /\ n.text = q.text /\ n.summary = q.summary /\ n.detail = q.detail
  /\ n.sig = IF sealed THEN Envelope(q.sig) ELSE q.sig

LEMMA PassesDone ==
  ASSUME NEW s, NEW v, IsEv(v), v.ev = "done", ~(sealed /\ v.i \in DOMAIN s.held)
  PROVE  \E n : /\ PassOn(s, v).enc = OnNodeDone(s.enc, v.i, n) /\ PassOn(s, v).held = s.held
                /\ EndsAs(n, v.node)
<1>1. ~IsFragment(v)
  BY DEF IsFragment
<1>2. PICK w : /\ PassOn(s, v).enc = EncodeEvent(s.enc, w) /\ PassOn(s, v).held = s.held
               /\ w.ev = v.ev /\ w.i = v.i /\ w.node.kind = v.node.kind /\ w.node.detail = v.node.detail
               /\ w.node.text = v.node.text /\ w.node.summary = v.node.summary
               /\ w.node.sig = (IF sealed THEN Envelope(v.node.sig) ELSE v.node.sig)
  BY <1>1, PassesOther
<1>3. EncodeEvent(s.enc, w) = OnNodeDone(s.enc, w.i, w.node)
  BY <1>2 DEF EncodeEvent
<1> QED
  BY <1>2, <1>3 DEF EndsAs

LEMMA PassesRelease ==
  ASSUME NEW s, NEW v, IsEv(v), v.ev = "done", sealed, v.i \in DOMAIN s.held, v.node.sig # << >>
  PROVE  \E d, n : /\ PassOn(s, v).enc = OnNodeDone(OnNodeDelta(s.enc, v.i, d), v.i, n)
                   /\ PassOn(s, v).held = Without(s.held, v.i)
                   /\ EndsAs(n, v.node) /\ Says(d, << >>, << >>, Envelope(v.node.sig), FALSE)
<1>1. PICK h, i, b : h = s.held /\ i = v.i /\ b = v.node
  OBVIOUS
<1>2. PICK u, n : u = [b EXCEPT !.sig = IF b.sig # << >> THEN b.sig ELSE h[i]] /\ n = SealedNode(u)
  OBVIOUS
<1>3. /\ u.kind = b.kind /\ u.text = b.text /\ u.summary = b.summary /\ u.detail = b.detail /\ u.sig = b.sig
      /\ DOMAIN u = DOMAIN b
  BY <1>1, <1>2 DEF IsEv, IsNode
<1>4. ~IsFragment(v)
  BY DEF IsFragment
<1>5. PICK w, z : w = Ev("delta", i, [Header(n) EXCEPT !.sig = n.sig], FALSE) /\ z = NodeDoneEv(i, n)
  OBVIOUS
<1>6. WrapEvent(h, v) = ReleaseFragments(h, v)
  BY <1>1, <1>4 DEF WrapEvent
<1>7. ReleaseFragments(h, v).held = Without(h, i) /\ ReleaseFragments(h, v).out = <<w, z>>
  BY <1>1, <1>2, <1>3, <1>5 DEF ReleaseFragments
<1>8. PICK e, q : e = s.enc /\ q = ReleaseFragments(h, v).out
  OBVIOUS
<1>9. DOMAIN q = 1 .. 2 /\ q[1] = w /\ q[2] = z
  BY <1>7, <1>8
<1>10. EncodeAll(e, q) = EncodeEvent(EncodeEvent(e, q[1]), q[2])
  BY ONLY <1>9, EventsTwo
<1>11. PassOn(s, v).enc = EncodeEvent(EncodeEvent(e, w), z) /\ PassOn(s, v).held = Without(h, i)
  BY <1>1, <1>6, <1>7, <1>8, <1>9, <1>10 DEF PassOn
<1>12. PICK k : k = [Header(n) EXCEPT !.sig = n.sig]
  OBVIOUS
<1>13. k.text = << >> /\ k.summary = << >> /\ k.sig = n.sig
  BY <1>12 DEF Header, NoNode
<1>14. w.ev = "delta" /\ w.i = i /\ w.node = k /\ w.marked = FALSE
  BY <1>5, <1>12 DEF Ev
<1>15. z.ev = "done" /\ z.i = i /\ z.node = n
  BY <1>5 DEF NodeDoneEv, Ev
<1>16. PICK d : d = DeltaOf(w)
  OBVIOUS
<1>17. Says(d, << >>, << >>, n.sig, FALSE)
  BY <1>13, <1>14, <1>16 DEF DeltaOf, Says
<1>18. EncodeEvent(e, w) = OnNodeDelta(e, i, d)
  BY <1>14, <1>16 DEF EncodeEvent
<1>19. \A f : EncodeEvent(f, z) = OnNodeDone(f, i, n)
  BY <1>15 DEF EncodeEvent
<1>20. EndsAs(n, b) /\ n.sig = Envelope(b.sig)
  BY <1>1, <1>2, <1>3 DEF SealedNode, IsEv, IsNode, EndsAs
<1> QED
  BY <1>1, <1>8, <1>11, <1>17, <1>18, <1>19, <1>20

LEMMA PassesFinish ==
  ASSUME NEW s, NEW v, IsEv(v), v.ev = "finish", \A k \in DOMAIN v.out : IsNode(v.out[k])
  PROVE  \E o : /\ PassOn(s, v).enc = OnResponseDone(s.enc, o) /\ DOMAIN o = DOMAIN v.out
                /\ \A k \in DOMAIN o : o[k].kind = v.out[k].kind
<1>1. ~IsFragment(v)
  BY DEF IsFragment
<1>2. PICK w : /\ PassOn(s, v).enc = EncodeEvent(s.enc, w) /\ w.ev = v.ev
               /\ DOMAIN w.out = DOMAIN v.out /\ \A k \in DOMAIN v.out : IsNode(v.out[k]) => w.out[k].kind = v.out[k].kind
  BY <1>1, PassesOther
<1>3. EncodeEvent(s.enc, w) = OnResponseDone(s.enc, w.out)
  BY <1>2 DEF EncodeEvent
<1> QED
  BY <1>2, <1>3

-----------------------------------------------------------------------------
(* Nothing is lost when an answer changes in what was not kept of it.      *)
Alike(r, q) == r.kind = q.kind /\ r.text = q.text /\ r.summary = q.summary /\ r.detail = q.detail

Still(e, x, z, g, h) ==
  /\ z.src = x.src /\ z.seal = x.seal
  /\ \A j \in DOMAIN e.live : Alike(z.ns[j], x.ns[j]) /\ h[j] = g[j] /\ (j \in z.dir <=> j \in x.dir)
  /\ \A j \in DOMAIN e.pending : z.ns[j] = x.ns[j] /\ (j \in z.dir <=> j \in x.dir)

LEMMA BufAlike ==
  ASSUME NEW q, NEW r, Alike(r, q), NEW s, NEW p, BufOk(q, s, p) PROVE BufOk(r, s, p)
BY DEF BufOk, Alike, Streamed, BufText

LEMMA LiveAlike ==
  ASSUME NEW x, NEW z, NEW j, z.src = x.src, j \in z.dir <=> j \in x.dir, Alike(z.ns[j], x.ns[j]),
         NEW s, NEW p, NEW y, LiveOk(x, j, s, p, y)
  PROVE  LiveOk(z, j, s, p, y)
BY DEF LiveOk, Main, Alike, Streamed, BufferedThinking

LEMMA KeptStill ==
  ASSUME NEW m \in Nat, NEW e, EncInv(e, m), NEW x, NEW g, NEW E, Kept(e, x, g, E),
         NEW z, NEW h, Still(e, x, z, g, h), Stays(x, z, E, m)
  PROVE  Kept(e, z, h, E)
<1>1. e.open # 0 => e.open \in DOMAIN e.live
  BY DEF EncInv, LiveBlocks
<1>2. Bufs(e, z, h)
  <2>1. ASSUME NEW i \in DOMAIN e.live, i # e.open PROVE BufOk(z.ns[i], h[i], e.live[i].payload)
    <3>1. PICK q, r, s, p : q = x.ns[i] /\ r = z.ns[i] /\ s = g[i] /\ p = e.live[i].payload
      OBVIOUS
    <3>2. BufOk(q, s, p) /\ Alike(r, q) /\ h[i] = s
      BY <2>1, <3>1 DEF Kept, Bufs, Still
    <3> QED
      BY <3>1, <3>2, BufAlike
  <2> QED
    BY <2>1 DEF Bufs
<1>3. Opened(e, z, h)
  <2> SUFFICES ASSUME e.open # 0
               PROVE  /\ e.live[e.open].block = e.blocks
                      /\ LiveOk(z, e.open, h[e.open], e.live[e.open].payload, e.client.blocks[e.blocks])
    BY DEF Opened
  <2>1. PICK j, s, p, y : j = e.open /\ s = g[j] /\ p = e.live[j].payload /\ y = e.client.blocks[e.blocks]
    OBVIOUS
  <2>2. LiveOk(x, j, s, p, y) /\ e.live[e.open].block = e.blocks
    BY <2>1 DEF Kept, Opened
  <2>3. z.src = x.src /\ (j \in z.dir <=> j \in x.dir) /\ Alike(z.ns[j], x.ns[j]) /\ h[j] = s
    BY <1>1, <2>1 DEF Still
  <2>4. LiveOk(z, j, s, p, y)
    BY <2>2, <2>3, LiveAlike
  <2> QED
    BY <2>1, <2>2, <2>3, <2>4
<1>4. Pends(e, z)
  <2>1. \A j \in DOMAIN e.pending : PendOk(x, j, e.pending[j])
    BY DEF Kept, Pends
  <2>2. \A j \in DOMAIN e.pending : z.ns[j] = x.ns[j] /\ (j \in z.dir <=> j \in x.dir)
    BY DEF Still
  <2>3. z.seal = x.seal
    BY DEF Still
  <2> QED
    BY <2>1, <2>2, <2>3, PendStays DEF Pends
<1>5. PICK n, B : n = (IF e.open = 0 THEN e.blocks ELSE e.blocks - 1) /\ B = e.client.blocks
  OBVIOUS
<1>6. Told(z, E, B, n)
  <2>1. Told(x, E, B, n) /\ Within(E, m) /\ \A j \in E : \A y : Final(x, j, y) => Final(z, j, y)
    BY <1>5 DEF Kept, Stays
  <2> QED
    BY ONLY <2>1, ToldFor
<1>7. Surfaced(e, z, E)
  BY DEF Kept, Surfaced, Stays
<1>8. e.open # 0 => Surface(z.ns[e.open].kind) \in e.surfaces
  BY <1>1 DEF Kept, Still, Alike
<1> QED
  BY <1>2, <1>3, <1>4, <1>5, <1>6, <1>7, <1>8 DEF Kept

-----------------------------------------------------------------------------
(* The signature of a node that has been passed on while the node is read. *)
Given(x, n) ==
  IF n.kind # "thinking" THEN << >>
  ELSE IF ~x.seal THEN n.sig
  ELSE IF x.src = "chat" /\ n.detail = "encrypted" THEN Envelope(n.sig) ELSE << >>

Sigs(x) == [i \in DOMAIN x.ns |-> Given(x, x.ns[i])]

(* What is held of node i is the rest.                                     *)
HeldFor(x, h, i) ==
  LET n == x.ns[i]
  IN  /\ i \in DOMAIN h => x.seal = TRUE /\ n.kind = "thinking" /\ n.sig # << >> /\ Given(x, n) = << >>
      /\ i \notin DOMAIN h /\ n.kind = "thinking" => Given(x, n) = Seal(x, n)

LessHeld(k, h, i) == \A j : j # i => (j \in DOMAIN k <=> j \in DOMAIN h)

(* The end of a node: what was held of its signature goes first.           *)
Released(f, k, e, g, x, m, i) ==
  /\ Kin(f, e) /\ f.open = e.open
  /\ (x.ns[i].kind = "thinking" => k[i] = Seal(x, x.ns[i]))
  /\ \A j \in 1 .. m : j # i => k[j] = g[j]

NodeEnd(x, s, m, i, v) ==
  /\ x.src = source /\ x.seal = sealed /\ NodeFit(x.ns[i]) /\ IsNode(x.ns[i]) /\ HeldFor(x, s.held, i)
  /\ IsEv(v) /\ v.ev = "done" /\ v.i = i /\ v.node = x.ns[i] /\ i \in DOMAIN s.enc.live

LEMMA EndsSealed ==
  ASSUME NEW x, x.seal = sealed, NEW i, NodeFit(x.ns[i]), NEW n, EndsAs(n, x.ns[i])
  PROVE  Ending(x, i, n)
<1>1. PICK q, a : q = x.ns[i] /\ a = q.sig
  OBVIOUS
<1>2. IsSeq(a)
  BY <1>1 DEF NodeFit
<1>3. IsSeq(Envelope(a))
  <2>1. CASE a = << >>
    BY <2>1, SeqNone, NoEnvelope
  <2>2. CASE a # << >>
    BY <2>2, AnEnvelope
  <2> QED
    BY <2>1, <2>2
<1> QED
  BY <1>1, <1>2, <1>3 DEF Ending, EndsAs, Seal

LEMMA NodeEnds ==
  ASSUME NEW m \in Nat, NEW s, EncInv(s.enc, m), NEW x, NEW g, NEW E, Kept(s.enc, x, g, E), Within(E, m),
         NEW i, NEW v, NodeEnd(x, s, m, i, v), g[i] = Given(x, x.ns[i])
  PROVE  \E f, n, k : /\ PassOn(s, v).enc = OnNodeDone(f, i, n) /\ EncInv(f, m) /\ Kept(f, x, k, E)
                      /\ Released(f, k, s.enc, g, x, m, i) /\ Ending(x, i, n)
                      /\ LessHeld(PassOn(s, v).held, s.held, i)
<1>1. PICK e, q : e = s.enc /\ q = x.ns[i]
  OBVIOUS
<1>2. /\ x.src = source /\ x.seal = sealed /\ NodeFit(q) /\ IsNode(q) /\ HeldFor(x, s.held, i)
      /\ IsEv(v) /\ v.ev = "done" /\ v.i = i /\ v.node = q /\ i \in DOMAIN e.live
  BY <1>1 DEF NodeEnd
<1>3. \A n : EndsAs(n, q) => Ending(x, i, n)
  BY <1>1, <1>2, EndsSealed
<1>4. CASE ~(sealed /\ i \in DOMAIN s.held)
  <2>1. PICK n : PassOn(s, v).enc = OnNodeDone(s.enc, i, n) /\ PassOn(s, v).held = s.held /\ EndsAs(n, q)
    BY <1>2, <1>4, PassesDone
  <2>2. q.kind = "thinking" => g[i] = Seal(x, q)
    BY <1>1, <1>2, <1>4 DEF HeldFor
  <2>3. Released(e, g, e, g, x, m, i)
    BY <1>1, <2>2 DEF Released, Kin
  <2> QED
    BY <1>1, <1>3, <2>1, <2>3 DEF LessHeld
<1>5. CASE sealed /\ i \in DOMAIN s.held
  <2>1. q.kind = "thinking" /\ q.sig # << >> /\ g[i] = << >>
    BY <1>1, <1>2, <1>5 DEF HeldFor
  <2>2. PICK d, n : /\ PassOn(s, v).enc = OnNodeDone(OnNodeDelta(s.enc, i, d), i, n)
                    /\ PassOn(s, v).held = Without(s.held, i)
                    /\ EndsAs(n, q) /\ Says(d, << >>, << >>, Envelope(q.sig), FALSE)
    BY <1>2, <1>5, <2>1, PassesRelease
  <2>3. PICK a, b : a = Envelope(q.sig) /\ b = << >>
    OBVIOUS
  <2>4. IsSeq(a) /\ IsSeq(b) /\ a = Seal(x, q) /\ Len(b) = 0
    BY <1>2, <1>5, <2>1, <2>3, AnEnvelope, SeqNone DEF Seal
  <2>5. i \in 1 .. m
    BY <1>1, <1>2 DEF EncInv, Places
  <2>6. PICK k : k = [j \in 1 .. m |-> IF j = i THEN a ELSE g[j]]
    OBVIOUS
  <2>7. k[i] = a /\ \A j \in 1 .. m : j # i => k[j] = g[j]
    BY <2>5, <2>6
  <2>8. Changes(x, x, g, k, m, i) /\ Stays(x, x, E, m)
    BY <2>7 DEF Changes, Stays
  <2>9. Grows(x, q, q, d, g[i], k[i])
    <3>1. IsDelta(d) /\ ShownOf(d) = b /\ d.text = b /\ d.summary = b /\ d.sig = a
      BY <2>2, <2>3, <2>4 DEF Says, IsDelta, ShownOf
    <3>2. b \o a = a
      BY <2>3, <2>4, JoinNone
    <3>3. IsSeq(q.text) /\ IsSeq(q.summary) /\ IsSeq(Main(x, q))
      BY <1>2 DEF NodeFit, Main
    <3>4. q.text \o b = q.text /\ Main(x, q) \o b = Main(x, q) /\ q.summary \o b = q.summary
      BY <2>3, <3>3, JoinNone
    <3>5. GrowsThinking(x, q, q, d)
      BY <2>3, <2>4, <3>1, <3>3, <3>4 DEF GrowsThinking, Silent
    <3>6. q.kind \notin Plain /\ q.kind # "redacted"
      BY <2>1 DEF Plain
    <3> QED
      BY <2>1, <2>3, <2>7, <3>1, <3>2, <3>5, <3>6 DEF Grows
  <2>10. PICK f : f = OnNodeDelta(e, i, d)
    OBVIOUS
  <2>11. Kept(f, x, k, E) /\ Kin(f, e) /\ f.open = e.open
    <3>1. EncInv(e, m) /\ Kept(e, x, g, E) /\ i \in DOMAIN e.live /\ Grows(x, x.ns[i], x.ns[i], d, g[i], k[i])
      BY <1>1, <1>2, <2>9
    <3>2. Follows(x, i, d)
      BY <2>2 DEF Follows, Silent, Says
    <3> QED
      BY <2>8, <2>10, <3>1, <3>2, DeltaShown
  <2>12. EncInv(f, m)
    BY <1>1, <2>5, <2>10, DeltaKeeps
  <2>13. Released(f, k, e, g, x, m, i)
    BY <1>1, <2>4, <2>7, <2>11 DEF Released
  <2>14. LessHeld(PassOn(s, v).held, s.held, i)
    <3>1. DOMAIN Without(s.held, i) = DOMAIN s.held \ {i}
      BY Restricted
    <3> QED
      BY <2>2, <3>1 DEF LessHeld
  <2> QED
    BY <1>1, <1>3, <2>2, <2>10, <2>11, <2>12, <2>13, <2>14
<1> QED
  BY <1>4, <1>5

-----------------------------------------------------------------------------
(* A fragment f for one field of node q makes it node r.  The first one of *)
(* a tool may replace its empty input.                                     *)
Grew(q, r, field, f) ==
  /\ r.kind = q.kind /\ r.detail = q.detail
  /\ \/ field = "text" /\ r.text = q.text \o <<f>> /\ q.text # <<EmptyInput>>
     \/ field = "text" /\ r.text = <<f>> /\ q.text = <<EmptyInput>>
     \/ field # "text" /\ r.text = q.text
  /\ \/ field = "summary" /\ r.summary = q.summary \o <<f>>
     \/ field # "summary" /\ r.summary = q.summary
  /\ \/ field = "sig" /\ r.sig = q.sig \o <<f>>
     \/ field # "sig" /\ r.sig = q.sig

Part(field, name, f) == IF field = name THEN <<f>> ELSE << >>

MayGrow(x, q, field, f) ==
  /\ field \in {"text", "summary", "sig"} /\ f # EmptyInput
  /\ NodeFit(q) /\ q.kind # "redacted" /\ (q.kind \in Plain => field = "text")
  /\ q.text = <<EmptyInput>> => q.kind \in Plain
  /\ x.src = "messages" /\ q.kind = "thinking" => field # "text" /\ q.text = << >>
  /\ x.src = "chat" /\ q.detail = "encrypted" /\ field = "sig" => q.sig = << >>

LEMMA PartSeq == ASSUME NEW field, NEW name, NEW f PROVE IsSeq(Part(field, name, f))
BY SeqNone, SeqOne DEF Part

LEMMA MoreIsSome ==
  ASSUME NEW s, IsSeq(s), NEW f
  PROVE  /\ IsSeq(s \o <<f>>) /\ s \o <<f>> # << >> /\ Len(s \o <<f>>) = Len(s) + 1
         /\ f # EmptyInput => s \o <<f>> # <<EmptyInput>>
<1>1. PICK a, t, z : a = <<f>> /\ t = Append(s, f) /\ z = <<EmptyInput>>
  OBVIOUS
<1>2. t = s \o a /\ IsSeq(t) /\ Len(t) = Len(s) + 1 /\ t[Len(s) + 1] = f /\ Len(s) \in Nat
  BY <1>1, AppendJoins, AppendedAt, SeqAppended, SeqDomain
<1>3. t # << >>
  BY <1>2, SeqEmpty
<1>4. ASSUME t = z PROVE f = EmptyInput
  <2>1. Len(z) = 1 /\ z[1] = EmptyInput
    BY <1>1, SeqOne
  <2>2. Len(s) = 0
    <3>1. PICK k : k = Len(s)
      OBVIOUS
    <3>2. k \in Nat /\ k + 1 = 1
      BY <1>2, <1>4, <2>1, <3>1
    <3>3. k = 0
      BY ONLY <3>2
    <3> QED
      BY <3>1, <3>3
  <2> QED
    BY <1>2, <1>4, <2>1, <2>2
<1> QED
  BY <1>1, <1>2, <1>3, <1>4

LEMMA GrewFits ==
  ASSUME NEW x, NEW q, NEW r, NEW field, NEW f, MayGrow(x, q, field, f), Grew(q, r, field, f)
  PROVE  /\ NodeFit(r)
         /\ r.text = <<EmptyInput>> => q.text = <<EmptyInput>> /\ q.kind \in Plain
<1>1. IsSeq(q.text) /\ IsSeq(q.summary) /\ IsSeq(q.sig) /\ q.kind \in Shown /\ f # EmptyInput
  BY DEF MayGrow, NodeFit
<1>2. IsSeq(<<f>>) /\ <<f>> # <<EmptyInput>>
  <2>1. PICK a, b : a = <<f>> /\ b = <<EmptyInput>>
    OBVIOUS
  <2>2. a[1] = f /\ b[1] = EmptyInput /\ IsSeq(a)
    BY <2>1, SeqOne
  <2> QED
    BY <1>1, <2>1, <2>2
<1>3. IsSeq(q.text \o <<f>>) /\ IsSeq(q.summary \o <<f>>) /\ IsSeq(q.sig \o <<f>>) /\ q.text \o <<f>> # <<EmptyInput>>
  BY <1>1, MoreIsSome
<1>4. IsSeq(r.text) /\ IsSeq(r.summary) /\ IsSeq(r.sig)
  BY <1>1, <1>2, <1>3 DEF Grew
<1>5. r.text = <<EmptyInput>> => q.text = <<EmptyInput>> /\ q.kind \in Plain
  BY <1>2, <1>3 DEF Grew, MayGrow
<1>6. q.kind \in Plain => r.summary = << >>
  BY DEF Grew, MayGrow, NodeFit
<1>7. r.kind = "item" => r.text # <<EmptyInput>>
  BY <1>5 DEF Grew, MayGrow, NodeFit
<1> QED
  BY <1>1, <1>4, <1>5, <1>6, <1>7 DEF NodeFit, Grew

LEMMA GrewGrows ==
  ASSUME NEW x, NEW q, NEW r, NEW field, NEW f, MayGrow(x, q, field, f), Grew(q, r, field, f),
         NEW d, NEW a, NEW b, IsSeq(a), b <=> (x.src = "messages" /\ field = "summary"),
         Says(d, Part(field, "text", f), Part(field, "summary", f), a, b),
         NEW s, NEW v, v = s \o a, x.src \in {"chat", "messages"}
  PROVE  Grows(x, q, r, d, s, v)
<1>1. PICK o, u : o = << >> /\ u = <<f>>
  OBVIOUS
<1>2. IsSeq(o) /\ Len(o) = 0 /\ IsSeq(u) /\ Len(u) = 1 /\ u # o
  BY <1>1, SeqNone, SeqOne
<1>3. IsSeq(q.text) /\ IsSeq(q.summary) /\ q.kind \in Shown
  BY DEF MayGrow, NodeFit
<1>4. NodeFit(r) /\ (r.text = <<EmptyInput>> => q.text = <<EmptyInput>> /\ q.kind \in Plain)
  BY GrewFits
<1>5. d.text = (IF field = "text" THEN u ELSE o) /\ d.summary = (IF field = "summary" THEN u ELSE o) /\ d.sig = a /\ d.marked = b
  BY <1>1 DEF Says, Part
<1>6. IsDelta(d)
  BY <1>2, <1>5 DEF IsDelta
<1>7. q.text \o o = q.text /\ q.summary \o o = q.summary /\ o \o u = u
  BY <1>1, <1>2, <1>3, JoinNone
<1>8. ASSUME q.kind \in Plain PROVE GrowsPlain(q, r, d)
  <2>1. field = "text" /\ d.text = u /\ d.summary = o
    BY <1>5, <1>8 DEF MayGrow
  <2>2. IsSeq(Streamed(q))
    BY <1>1, <1>2, <1>3 DEF Streamed
  <2>3. CASE q.text = <<EmptyInput>>
    <3>1. Streamed(q) = o /\ r.text = u
      BY <1>1, <2>1, <2>3 DEF Streamed, Grew
    <3>2. u # <<EmptyInput>>
      <4>1. PICK c : c = <<EmptyInput>>
        OBVIOUS
      <4>2. c[1] = EmptyInput /\ u[1] = f /\ f # EmptyInput
        BY <1>1, <4>1, SeqOne DEF MayGrow
      <4> QED
        BY <4>1, <4>2
    <3>3. Streamed(r) = u
      BY <3>1, <3>2 DEF Streamed
    <3> QED
      BY <1>1, <1>7, <2>1, <2>2, <3>1, <3>3 DEF GrowsPlain
  <2>4. CASE q.text # <<EmptyInput>>
    <3>1. Streamed(q) = q.text /\ r.text = q.text \o u
      BY <1>1, <2>1, <2>4 DEF Streamed, Grew
    <3>2. Streamed(r) = r.text
      BY <1>4, <2>4 DEF Streamed
    <3> QED
      BY <1>1, <2>1, <2>2, <3>1, <3>2 DEF GrowsPlain
  <2> QED
    BY <2>3, <2>4
<1>9. ASSUME q.kind = "thinking" PROVE GrowsThinking(x, q, r, d)
  <2>1. IsSeq(r.text) /\ IsSeq(r.summary)
    BY <1>4 DEF NodeFit
  <2>2. q.text # <<EmptyInput>>
    BY <1>9 DEF MayGrow, Plain
  <2>3. r.text = q.text \o d.text /\ r.summary = q.summary \o d.summary
    <3>1. r.text = (IF field = "text" THEN q.text \o u ELSE q.text)
      BY <1>1, <2>2 DEF Grew
    <3>2. r.summary = (IF field = "summary" THEN q.summary \o u ELSE q.summary)
      BY <1>1 DEF Grew
    <3> QED
      BY <1>5, <1>7, <3>1, <3>2
  <2>4. Len(d.summary) <= 1
    <3>1. Len(u) = 1 /\ Len(o) = 0
      BY <1>1, SeqNone, SeqOne
    <3>2. d.summary = u \/ d.summary = o
      BY <1>5
    <3>3. Len(d.summary) = 1 \/ Len(d.summary) = 0
      BY <3>1, <3>2
    <3>4. PICK l : l = Len(d.summary) /\ (l = 1 \/ l = 0)
      BY <3>3
    <3>5. l <= 1
      BY ONLY <3>4
    <3> QED
      BY <3>4, <3>5
  <2>5. d.text = o \/ d.summary = o
    BY <1>5
  <2>6. CASE x.src = "chat"
    <3>1. ShownOf(d) = d.text
      BY <1>1, <1>5, <2>6 DEF ShownOf
    <3>2. Main(x, r) = Main(x, q) \o ShownOf(d)
      BY <2>3, <2>6, <3>1 DEF Main
    <3>3. r.text = o /\ r.summary = o => d.text = o /\ d.summary = o /\ q.text = o /\ q.summary = o
      <4>1. q.text \o u # o /\ q.summary \o u # o
        BY <1>1, <1>3, MoreIsSome
      <4> QED
        BY <1>5, <1>7, <2>3, <4>1
    <3> QED
      BY <1>1, <1>3, <2>1, <2>3, <2>4, <2>5, <2>6, <3>1, <3>2, <3>3 DEF GrowsThinking
  <2>7. CASE x.src = "messages"
    <3>1. field # "text" /\ q.text = o /\ d.text = o
      BY <1>1, <1>5, <1>9, <2>7 DEF MayGrow
    <3>2. ShownOf(d) = d.summary
      BY <1>1, <1>5, <2>7, <3>1 DEF ShownOf
    <3>3. Main(x, r) = Main(x, q) \o ShownOf(d)
      BY <2>3, <2>7, <3>2 DEF Main
    <3>4. r.text = o
      BY <1>7, <2>3, <3>1
    <3>5. r.summary = o => d.summary = o /\ q.summary = o
      <4>1. q.summary \o u # o
        BY <1>1, <1>3, MoreIsSome
      <4> QED
        BY <1>5, <1>7, <2>3, <4>1
    <3> QED
      BY <1>1, <1>3, <2>1, <2>3, <2>4, <2>5, <3>1, <3>2, <3>3, <3>4, <3>5 DEF GrowsThinking
  <2> QED
    BY <2>6, <2>7
<1> QED
  BY <1>5, <1>6, <1>8, <1>9 DEF Grows, Grew, MayGrow

-----------------------------------------------------------------------------
(* The event of a fragment.                                                *)
IsFrag(v, i, n, field, f, b) ==
  /\ IsEv(v) /\ v.ev = "delta" /\ v.i = i /\ v.marked = b /\ v.node.detail = n.detail
  /\ v.node.text = Part(field, "text", f) /\ v.node.summary = Part(field, "summary", f)
  /\ v.node.sig = Part(field, "sig", f)

LEMMA FragForm ==
  ASSUME NEW i, NEW n, NEW field \in {"text", "summary", "sig"}, NEW f, NEW b, NEW v, v = NodeDeltaEv(i, n, field, f, b)
  PROVE  IsFrag(v, i, n, field, f, b)
<1>1. PICK h, u : h = Header(n) /\ u = <<f>>
  OBVIOUS
<1>2. PICK g : g = [h EXCEPT ![field] = u]
  OBVIOUS
<1>3. /\ IsNode(h) /\ h.kind = n.kind /\ h.detail = n.detail
      /\ h.text = << >> /\ h.summary = << >> /\ h.sig = << >>
  BY <1>1 DEF Header, NoNode, IsNode
<1>4. /\ IsNode(g) /\ g.detail = n.detail
      /\ g.text = Part(field, "text", f) /\ g.summary = Part(field, "summary", f) /\ g.sig = Part(field, "sig", f)
  BY <1>1, <1>2, <1>3 DEF IsNode, Part
<1>5. v = Ev("delta", i, g, b)
  BY <1>1, <1>2 DEF NodeDeltaEv
<1>6. IsEv(v) /\ v.ev = "delta" /\ v.i = i /\ v.node = g /\ v.marked = b
  BY <1>4, <1>5 DEF Ev, IsEv
<1> QED
  BY <1>4, <1>6 DEF IsFrag

(* The signature that is passed on, and what is held of it.                *)
LEMMA GivenGrows ==
  ASSUME NEW x, NEW z, z.src = x.src, z.seal = x.seal, x.seal \in BOOLEAN,
         NEW q, NEW r, NEW field, NEW f, MayGrow(x, q, field, f), Grew(q, r, field, f),
         NEW h, q.kind = "thinking" /\ field = "sig" /\ x.seal => x.src = "chat" /\ q.detail = "encrypted",
         NEW a, a = (IF x.seal THEN Envelope(Part(field, "sig", f)) ELSE Part(field, "sig", f))
  PROVE  IsSeq(a) /\ Given(z, r) = Given(x, q) \o a
<1>1. PICK o, u : o = << >> /\ u = <<f>>
  OBVIOUS
<1>2. IsSeq(o) /\ IsSeq(u) /\ u # o /\ IsSeq(q.sig) /\ o \o o = o
  BY <1>1, SeqNone, SeqOne, JoinNone DEF MayGrow, NodeFit
<1>3. Envelope(o) = o /\ IsSeq(Envelope(u)) /\ o \o Envelope(u) = Envelope(u)
  <2>1. IsSeq(Envelope(u))
    BY <1>1, <1>2, AnEnvelope
  <2> QED
    BY <1>1, <2>1, NoEnvelope, JoinNone
<1>4. a = (IF field # "sig" THEN o ELSE IF x.seal THEN Envelope(u) ELSE u)
  BY <1>1, <1>3 DEF Part
<1>5. IsSeq(a)
  BY <1>2, <1>3, <1>4
<1>6. r.kind = q.kind /\ r.detail = q.detail /\ r.sig = (IF field = "sig" THEN q.sig \o u ELSE q.sig)
  BY <1>1 DEF Grew
<1>7. CASE q.kind # "thinking"
  <2>1. field = "text" \/ q.kind \notin Plain
    BY DEF MayGrow
  <2>2. q.kind \in Plain
    BY <1>7 DEF MayGrow, NodeFit, Plain, Shown, Reasoning
  <2>3. a = o /\ Given(z, r) = o /\ Given(x, q) = o
    BY <1>1, <1>4, <1>6, <1>7, <2>1, <2>2 DEF Given
  <2> QED
    BY <1>2, <1>5, <2>3
<1>8. CASE q.kind = "thinking" /\ ~x.seal
  <2>1. Given(z, r) = r.sig /\ Given(x, q) = q.sig
    BY <1>6, <1>8 DEF Given
  <2>2. q.sig \o o = q.sig
    BY <1>1, <1>2, JoinNone
  <2> QED
    BY <1>4, <1>5, <1>6, <1>8, <2>1, <2>2
<1>9. CASE q.kind = "thinking" /\ x.seal /\ field # "sig"
  <2>1. Given(z, r) = Given(x, q)
    BY <1>6, <1>9 DEF Given
  <2>2. IsSeq(Given(x, q))
    <3>1. IsSeq(Envelope(q.sig))
      <4>1. CASE q.sig = o
        BY <1>2, <1>3, <4>1
      <4>2. CASE q.sig # o
        BY <1>1, <4>2, AnEnvelope
      <4> QED
        BY <4>1, <4>2
    <3> QED
      BY <1>1, <1>2, <3>1 DEF Given
  <2>3. Given(x, q) \o o = Given(x, q)
    BY <1>1, <2>2, JoinNone
  <2> QED
    BY <1>4, <1>5, <1>9, <2>1, <2>3
<1>10. CASE q.kind = "thinking" /\ x.seal /\ field = "sig"
  <2>1. x.src = "chat" /\ q.detail = "encrypted"
    BY <1>10
  <2>2. q.sig = o
    BY <1>1, <1>10, <2>1 DEF MayGrow
  <2>3. o \o u = u
    BY <1>1, <1>2, JoinNone
  <2>4. Given(x, q) = o /\ Given(z, r) = Envelope(u)
    BY <1>3, <1>6, <1>10, <2>1, <2>2, <2>3 DEF Given
  <2> QED
    BY <1>3, <1>4, <1>5, <1>10, <2>4
<1> QED
  BY <1>7, <1>8, <1>9, <1>10

IsAt(x, i, q) == q = x.ns[i]

HoldsBack(x, q, field) ==
  q.kind = "thinking" /\ field = "sig" /\ x.seal /\ ~(x.src = "chat" /\ q.detail = "encrypted")

LEMMA HeldGrows ==
  ASSUME NEW x, NEW z, z.src = x.src, z.seal = x.seal, x.seal \in BOOLEAN, NEW i, NEW q, IsAt(x, i, q), NEW r, IsAt(z, i, r),
         NEW field, NEW f, MayGrow(x, q, field, f), Grew(q, r, field, f), NEW h, HeldFor(x, h, i)
  PROVE  /\ ~HoldsBack(x, q, field) => HeldFor(z, h, i)
         /\ HoldsBack(x, q, field) => Given(z, r) = Given(x, q) /\ \A k : HeldFor(z, With(h, i, k), i)
<1>0. q = x.ns[i] /\ r = z.ns[i]
  BY DEF IsAt
<1>1. /\ r.kind = q.kind /\ r.detail = q.detail /\ (field # "sig" => r.sig = q.sig)
      /\ (field = "sig" => r.sig = q.sig \o <<f>>) /\ IsSeq(q.sig)
  BY DEF Grew, MayGrow, NodeFit
<1>2. field = "sig" => r.sig # << >>
  BY <1>1, MoreIsSome
<1>3. ASSUME HoldsBack(x, q, field)
      PROVE  /\ Given(z, r) = Given(x, q) /\ Given(z, r) = << >>
             /\ \A k : HeldFor(z, With(h, i, k), i)
  <2>1. Given(z, r) = << >> /\ Given(x, q) = << >>
    BY <1>1, <1>3 DEF Given, HoldsBack
  <2>2. \A k : i \in DOMAIN With(h, i, k)
    BY DEF With
  <2> QED
    BY <1>0, <1>1, <1>2, <1>3, <2>1, <2>2 DEF HeldFor, HoldsBack
<1>4. ASSUME ~HoldsBack(x, q, field)
      PROVE  HeldFor(z, h, i)
  <2>1. CASE field # "sig" \/ q.kind # "thinking"
    <3>1. Given(z, r) = Given(x, q) /\ (q.kind = "thinking" => Seal(z, r) = Seal(x, q) /\ r.sig = q.sig)
      BY <1>1, <2>1 DEF Given, Seal
    <3> QED
      BY <1>0, <1>1, <3>1 DEF HeldFor
  <2>2. CASE field = "sig" /\ q.kind = "thinking" /\ ~x.seal
    BY <1>0, <1>1, <2>2 DEF HeldFor, Given, Seal
  <2>3. CASE field = "sig" /\ q.kind = "thinking" /\ x.src = "chat" /\ q.detail = "encrypted" /\ x.seal
    <3>1. q.sig = << >>
      BY <2>3 DEF MayGrow
    <3>2. i \notin DOMAIN h
      BY <1>0, <3>1 DEF HeldFor
    <3>3. Given(z, r) = Seal(z, r)
      BY <1>1, <2>3 DEF Given, Seal
    <3> QED
      BY <1>0, <3>2, <3>3 DEF HeldFor
  <2> QED
    BY <1>4, <2>1, <2>2, <2>3 DEF HoldsBack
<1> QED
  BY <1>3, <1>4

-----------------------------------------------------------------------------
(* A fragment of a node on its way to the client.                          *)
Fragments(x, z, s, E, m, i, field, f, b) ==
  /\ x.src = source /\ x.src \in {"chat", "messages"} /\ x.seal = sealed /\ x.seal \in BOOLEAN
  /\ Changes(x, z, Sigs(x), Sigs(z), m, i) /\ Stays(x, z, E, m) /\ DOMAIN x.ns = 1 .. m /\ DOMAIN z.ns = 1 .. m
  /\ i \in DOMAIN s.enc.live /\ HeldFor(x, s.held, i) /\ (i = s.enc.open => i \in x.dir \/ x.src = "messages")
  /\ MayGrow(x, x.ns[i], field, f) /\ Grew(x.ns[i], z.ns[i], field, f)
  /\ b <=> (x.src = "messages" /\ field = "summary")

FragmentRead(t, s, z, i) ==
  /\ Kin(t.enc, s.enc) /\ t.enc.open = s.enc.open
  /\ HeldFor(z, t.held, i) /\ LessHeld(t.held, s.held, i)

LEMMA FragmentShown ==
  ASSUME NEW m \in Nat, NEW s, EncInv(s.enc, m), NEW x, NEW E, Kept(s.enc, x, Sigs(x), E),
         NEW z, NEW i, NEW field, NEW f, NEW b, Fragments(x, z, s, E, m, i, field, f, b),
         NEW n, n.detail = x.ns[i].detail, NEW v, IsFrag(v, i, n, field, f, b)
  PROVE  Kept(PassOn(s, v).enc, z, Sigs(z), E) /\ FragmentRead(PassOn(s, v), s, z, i)
<1>1. PICK e, q, r, g, h : e = s.enc /\ q = x.ns[i] /\ r = z.ns[i] /\ g = Sigs(x) /\ h = Sigs(z)
  OBVIOUS
<1>2. /\ x.src = source /\ x.src \in {"chat", "messages"} /\ x.seal = sealed /\ x.seal \in BOOLEAN
      /\ z.src = x.src /\ z.seal = x.seal /\ z.dir = x.dir
      /\ i \in DOMAIN e.live /\ MayGrow(x, q, field, f) /\ Grew(q, r, field, f) /\ HeldFor(x, s.held, i)
      /\ Changes(x, z, g, h, m, i) /\ Stays(x, z, E, m) /\ DOMAIN x.ns = 1 .. m /\ DOMAIN z.ns = 1 .. m
  BY <1>1 DEF Fragments, Changes
<1>3. i \in 1 .. m /\ g[i] = Given(x, q) /\ h[i] = Given(z, r)
  <2>1. i \in 1 .. m
    BY <1>1, <1>2 DEF EncInv, Places
  <2> QED
    BY <1>1, <1>2, <2>1 DEF Sigs
<1>4. /\ IsEv(v) /\ v.ev = "delta" /\ v.i = i /\ v.marked = b /\ v.node.detail = q.detail
      /\ v.node.text = Part(field, "text", f) /\ v.node.summary = Part(field, "summary", f)
      /\ v.node.sig = Part(field, "sig", f)
  BY <1>1 DEF IsFrag
<1>5. v.node.sig # << >> <=> field = "sig"
  BY <1>4, SeqOne DEF Part
<1>6. /\ ~HoldsBack(x, q, field) => HeldFor(z, s.held, i)
      /\ HoldsBack(x, q, field) => Given(z, r) = Given(x, q) /\ \A k : HeldFor(z, With(s.held, i, k), i)
  <2>1. PICK k : k = s.held
    OBVIOUS
  <2>2. /\ z.src = x.src /\ z.seal = x.seal /\ x.seal \in BOOLEAN /\ HeldFor(x, k, i) /\ IsAt(x, i, q) /\ IsAt(z, i, r)
        /\ MayGrow(x, q, field, f) /\ Grew(q, r, field, f)
    BY <1>1, <1>2, <2>1 DEF IsAt
  <2>3. /\ ~HoldsBack(x, q, field) => HeldFor(z, k, i)
        /\ HoldsBack(x, q, field) => Given(z, r) = Given(x, q) /\ \A j : HeldFor(z, With(k, i, j), i)
    BY ONLY <2>2, HeldGrows
  <2> QED
    BY <2>1, <2>3
<1>7. field = "sig" => q.kind = "thinking"
  BY <1>2 DEF MayGrow, NodeFit, Plain, Shown, Reasoning
<1>8. IsFragment(v) /\ sealed <=> HoldsBack(x, q, field)
  BY <1>2, <1>4, <1>5, <1>7 DEF IsFragment, HoldsBack
<1>9. CASE HoldsBack(x, q, field)
  <2>1. TerminalText(v.node) = << >> /\ sealed /\ IsFragment(v)
    BY <1>4, <1>8, <1>9 DEF TerminalText, Part, HoldsBack
  <2>2. PICK k : PassOn(s, v).enc = s.enc /\ PassOn(s, v).held = With(s.held, i, k)
    BY <1>4, <2>1, PassesHeld
  <2>3. Still(e, x, z, g, h)
    <3>1. DOMAIN e.live \subseteq 1 .. m /\ DOMAIN e.pending \subseteq 1 .. m /\ i \notin DOMAIN e.pending
      BY <1>1, <1>2 DEF EncInv, Places
    <3>2. Alike(r, q)
      BY <1>2, <1>9 DEF Alike, Grew, HoldsBack
    <3>3. h[i] = g[i]
      BY <1>3, <1>6, <1>9
    <3>4. \A j \in 1 .. m : j # i => z.ns[j] = x.ns[j] /\ h[j] = g[j]
      BY <1>2 DEF Changes
    <3>5. \A a : Alike(a, a)
      BY DEF Alike
    <3> QED
      BY <1>1, <1>2, <3>1, <3>2, <3>3, <3>4, <3>5 DEF Still
  <2>4. Kept(e, z, h, E)
    BY <1>1, <1>2, <2>3, KeptStill
  <2>5. LessHeld(With(s.held, i, k), s.held, i)
    BY DEF With, LessHeld
  <2> QED
    BY <1>1, <1>6, <1>9, <2>2, <2>4, <2>5 DEF FragmentRead, Kin
<1>10. CASE ~HoldsBack(x, q, field)
  <2>1. PICK d : /\ PassOn(s, v).enc = OnNodeDelta(s.enc, i, d) /\ PassOn(s, v).held = s.held
                 /\ Says(d, v.node.text, v.node.summary,
                         IF sealed THEN Envelope(v.node.sig) ELSE v.node.sig, v.marked)
    BY <1>4, <1>8, <1>10, PassesDelta
  <2>2. PICK a : a = IF x.seal THEN Envelope(Part(field, "sig", f)) ELSE Part(field, "sig", f)
    OBVIOUS
  <2>3. Says(d, Part(field, "text", f), Part(field, "summary", f), a, b)
    BY <1>2, <1>4, <2>1, <2>2
  <2>4. IsSeq(a) /\ Given(z, r) = Given(x, q) \o a
    <3>1. z.src = x.src /\ z.seal = x.seal /\ x.seal \in BOOLEAN /\ MayGrow(x, q, field, f) /\ Grew(q, r, field, f)
      BY <1>2
    <3>2. q.kind = "thinking" /\ field = "sig" /\ x.seal => x.src = "chat" /\ q.detail = "encrypted"
      BY <1>10 DEF HoldsBack
    <3> QED
      BY ONLY <2>2, <3>1, <3>2, GivenGrows
  <2>5. PICK y, w : y = g[i] /\ w = h[i]
    OBVIOUS
  <2>6. Grows(x, q, r, d, y, w)
    <3>1. w = y \o a /\ (b <=> (x.src = "messages" /\ field = "summary"))
      BY <1>3, <2>4, <2>5 DEF Fragments
    <3>2. MayGrow(x, q, field, f) /\ Grew(q, r, field, f) /\ IsSeq(a) /\ x.src \in {"chat", "messages"}
      BY <1>2, <2>4
    <3> QED
      BY ONLY <2>3, <3>1, <3>2, GrewGrows
  <2>7. Kept(OnNodeDelta(e, i, d), z, h, E) /\ Kin(OnNodeDelta(e, i, d), e) /\ OnNodeDelta(e, i, d).open = e.open
    <3>1. EncInv(e, m) /\ Kept(e, x, g, E) /\ i \in DOMAIN e.live /\ Grows(x, x.ns[i], z.ns[i], d, g[i], h[i])
      BY <1>1, <1>2, <2>5, <2>6
    <3>2. Changes(x, z, g, h, m, i) /\ Stays(x, z, E, m) /\ (i = e.open => Follows(x, i, d))
      BY <1>1, <1>2 DEF Fragments, Follows
    <3> QED
      BY <3>1, <3>2, DeltaShown
  <2> QED
    BY <1>1, <1>6, <1>10, <2>1, <2>7 DEF FragmentRead, LessHeld
<1> QED
  BY <1>9, <1>10
=============================================================================
