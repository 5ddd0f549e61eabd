--------------------------- MODULE DeliveryProofs ---------------------------
(***************************************************************************)
(* The translation of a streamed answer loses nothing: a client that has   *)
(* read message_stop has one block for every visible node, with its text,  *)
(* arguments, reasoning and signature whole and once, for any number of    *)
(* nodes, fragments and open blocks.                                       *)
(***************************************************************************)
EXTENDS StreamProofs

-----------------------------------------------------------------------------
(* The blocks that are closed stay what they are.                          *)
LEMMA StaysNone == ASSUME NEW x, NEW z, NEW m \in Nat PROVE Stays(x, z, {}, m)
BY DEF Stays, Within

Settled(x, z, E, m) ==
  /\ Within(E, m) /\ Pairs(x.ns) = {} /\ Pairs(z.ns) = {} /\ z.src = x.src /\ z.seal = x.seal
  /\ \A j \in E : z.ns[j] = x.ns[j] /\ (j \in z.dir <=> j \in x.dir)

LEMMA StaysSettled ==
  ASSUME NEW x, NEW z, NEW E, NEW m, Settled(x, z, E, m) PROVE Stays(x, z, E, m)
<1>1. /\ Within(E, m) /\ Pairs(x.ns) = {} /\ Pairs(z.ns) = {} /\ z.src = x.src /\ z.seal = x.seal
      /\ \A j \in E : z.ns[j] = x.ns[j] /\ (j \in z.dir <=> j \in x.dir)
  BY DEF Settled
<1>2. ASSUME NEW j \in E, NEW y, Final(x, j, y) PROVE Final(z, j, y)
  BY <1>1, <1>2 DEF Final, Main, Seal
<1> QED
  BY <1>1, <1>2 DEF Stays

(* Messages has no pairs of details.                                       *)
LEMMA NoPairs == ASSUME NEW ns, \A i \in DOMAIN ns : ns[i].detail = "" PROVE Pairs(ns) = {}
BY DEF Pairs, Pair, ShownIn

-----------------------------------------------------------------------------
(* A node that is new on its way to the client.                            *)
IsStart(v, i, n) ==
  IsEv(v) /\ v.ev = "start" /\ v.i = i /\ v.node.kind = n.kind /\ v.node.detail = n.detail

LEMMA StartEvent ==
  ASSUME NEW i, NEW n, NEW v, v = NodeStartEv(i, n)
  PROVE  IsStart(v, i, n)
<1>1. PICK h : h = Header(n)
  OBVIOUS
<1>2. IsNode(h) /\ h.kind = n.kind /\ h.detail = n.detail
  BY <1>1 DEF Header, NoNode, IsNode
<1>3. v = Ev("start", i, h, FALSE)
  BY <1>1 DEF NodeStartEv
<1>4. IsEv(v) /\ v.ev = "start" /\ v.i = i /\ v.node = h
  BY <1>2, <1>3 DEF Ev, IsEv
<1> QED
  BY <1>2, <1>4 DEF IsStart

Adding(x, z, m, i, n) ==
  /\ i = m + 1 /\ z.src = x.src /\ z.seal = x.seal /\ DOMAIN x.ns = 1 .. m /\ DOMAIN z.ns = 1 .. i
  /\ z.ns[i] = n /\ \A j \in 1 .. m : z.ns[j] = x.ns[j]

DirAfter(e, i, n) == IF n.kind \in Shown /\ AtOnce(e, i) THEN e.direct \union {i} ELSE e.direct

Began(t, s, i, n) ==
  /\ t.held = s.held /\ t.enc.direct = DirAfter(s.enc, i, n)
  /\ n.kind \in Shown => Starts(t.enc, s.enc, i)
  /\ n.kind \notin Shown => t.enc = s.enc

LEMMA StartPasses ==
  ASSUME NEW m \in Nat, NEW s, EncInv(s.enc, m), NEW x, NEW E, Kept(s.enc, x, Sigs(x), E), x.dir = s.enc.direct,
         NEW v, NEW n, NEW i, IsStart(v, i, n), n.kind \in Shown => NewIn(n, Given(x, n)),
         NEW z, Adding(x, z, m, i, n), z.dir = DirAfter(s.enc, i, n), Stays(x, z, E, m)
  PROVE  Kept(PassOn(s, v).enc, z, Sigs(z), E) /\ Began(PassOn(s, v), s, i, n)
<1>1. PICK e, g, h, t : e = s.enc /\ g = Sigs(x) /\ h = Sigs(z) /\ t = PassOn(s, v)
  OBVIOUS
<1>2. /\ i = m + 1 /\ z.src = x.src /\ z.seal = x.seal /\ DOMAIN x.ns = 1 .. m /\ DOMAIN z.ns = 1 .. i
      /\ z.ns[i] = n /\ \A j \in 1 .. m : z.ns[j] = x.ns[j]
  BY DEF Adding
<1>3. i \in 1 .. i /\ 1 .. m \subseteq 1 .. i /\ \A j \in 1 .. m : j # i
  BY <1>2
<1>4. h[i] = Given(x, n) /\ \A j \in 1 .. m : h[j] = g[j]
  <2>1. \A q : Given(z, q) = Given(x, q)
    BY <1>2 DEF Given
  <2> QED
    BY <1>1, <1>2, <1>3, <2>1 DEF Sigs
<1>5. PICK w : t.enc = OnNodeStart(e, i, w) /\ t.held = s.held /\ w.kind = n.kind /\ w.detail = n.detail
  <2>1. IsEv(v) /\ v.ev = "start" /\ v.i = i /\ v.node.kind = n.kind /\ v.node.detail = n.detail
    BY DEF IsStart
  <2> QED
    BY <1>1, <2>1, PassesStart
<1>6. DOMAIN e.live \subseteq 1 .. m /\ DOMAIN e.pending \subseteq 1 .. m
  BY <1>1 DEF EncInv, Places
<1>7. \A j \in 1 .. m : j \in z.dir <=> j \in x.dir
  BY <1>1, <1>3 DEF DirAfter
<1>8. CASE n.kind \in Shown
  <2>1. Joins(x, z, g, h, m)
    BY <1>2, <1>4, <1>7 DEF Joins
  <2>2. NewIn(z.ns[i], h[i])
    BY <1>2, <1>4, <1>8
  <2>3. Kept(OnNodeStart(e, i, w), z, h, E) /\ Starts(OnNodeStart(e, i, w), e, i)
    <3>1. EncInv(e, m) /\ Kept(e, x, g, E) /\ w.kind = z.ns[i].kind /\ w.detail = z.ns[i].detail
      BY <1>1, <1>2, <1>5
    <3> QED
      BY <1>2, <2>1, <2>2, <3>1, StartShown
  <2> QED
    BY <1>1, <1>5, <1>8, <2>3 DEF Began, Starts, DirAfter
<1>9. CASE n.kind \notin Shown
  <2>1. t.enc = e
    BY <1>5, <1>9, HeaderShown DEF OnNodeStart
  <2>2. Still(e, x, z, g, h)
    <3>1. \A j \in 1 .. m : Alike(z.ns[j], x.ns[j])
      BY <1>2 DEF Alike
    <3> QED
      BY <1>2, <1>4, <1>6, <1>7, <3>1 DEF Still
  <2>3. Kept(e, z, h, E)
    BY <1>1, <2>2, KeptStill
  <2> QED
    BY <1>1, <1>5, <1>9, <2>1, <2>3 DEF Began, DirAfter
<1> QED
  BY <1>8, <1>9

-----------------------------------------------------------------------------
(* A Messages upstream: `done' are the nodes that have ended.  The open    *)
(* node is the first that has not, and those that ended behind it wait.    *)
MsgNode(n) ==
  /\ IsNode(n) /\ NodeFit(n) /\ n.detail = ""
  /\ n.text = <<EmptyInput>> => n.kind = "tool"
  /\ n.kind = "thinking" => n.text = << >>
  /\ n.summary # <<EmptyInput>> /\ n.sig # <<EmptyInput>>

MsgOrder(e, done, m) ==
  /\ e.next \in 1 .. (m + 1) /\ e.absorbed = {} /\ e.open = IF e.next = m + 1 THEN 0 ELSE e.next
  /\ done \subseteq 1 .. m /\ e.next \notin done /\ 1 .. (e.next - 1) \subseteq done
  /\ DOMAIN e.live = (1 .. m) \ done /\ DOMAIN e.pending = {i \in done : i > e.next}
  /\ e.direct \subseteq 1 .. e.next

MsgNodes(x, m) ==
  /\ x.src = "messages" /\ x.seal \in BOOLEAN /\ DOMAIN x.ns = 1 .. m
  /\ \A i \in 1 .. m : MsgNode(x.ns[i])

MsgHeld(x, done, h, m) == DOMAIN h \subseteq 1 .. m /\ \A i \in (1 .. m) \ done : HeldFor(x, h, i)

MsgInv(x, done, h, e, m) ==
  /\ MsgNodes(x, m) /\ MsgHeld(x, done, h, m) /\ x.dir = e.direct
  /\ MsgOrder(e, done, m) /\ Kept(e, x, Sigs(x), 1 .. (e.next - 1))

LEMMA Before ==
  ASSUME NEW m \in Nat, NEW n, n \in 1 .. (m + 1) PROVE Within(1 .. (n - 1), m) /\ Above(1 .. (n - 1), n)
BY DEF Within, Above

LEMMA MsgNoPairs == ASSUME NEW x, NEW m, MsgNodes(x, m) PROVE Pairs(x.ns) = {}
<1>1. \A i \in DOMAIN x.ns : x.ns[i].detail = ""
  BY DEF MsgNodes, MsgNode
<1> QED
  BY <1>1, NoPairs

LEMMA HeldOther ==
  ASSUME NEW x, NEW z, z.src = x.src, z.seal = x.seal, NEW j, z.ns[j] = x.ns[j],
         NEW h, HeldFor(x, h, j), NEW k, j \in DOMAIN k <=> j \in DOMAIN h
  PROVE  HeldFor(z, k, j)
<1>1. \A n : Given(z, n) = Given(x, n) /\ Seal(z, n) = Seal(x, n)
  BY DEF Given, Seal
<1> QED
  BY <1>1 DEF HeldFor

(* Nothing is held of a node that is new.                                  *)
LEMMA HeldNew ==
  ASSUME NEW z, NEW i, NEW n, IsAt(z, i, n), n.kind = "thinking" => n.sig = << >>, NEW h, i \notin DOMAIN h
  PROVE  HeldFor(z, h, i)
<1>1. n.kind = "thinking" => Given(z, n) = Seal(z, n)
  BY NoEnvelope DEF Given, Seal
<1> QED
  BY <1>1 DEF HeldFor, IsAt

LEMMA GivenNone == ASSUME NEW x, NEW n, n.sig = << >> PROVE Given(x, n) = << >>
BY NoEnvelope DEF Given

-----------------------------------------------------------------------------
(* A block starts.                                                         *)
LEMMA MsgOrderStarts ==
  ASSUME NEW m \in Nat, NEW e, NEW done, MsgOrder(e, done, m), NEW i, i = m + 1, NEW r, Starts(r, e, i)
  PROVE  MsgOrder(r, done, i) /\ r.next = e.next
<1>1. PICK k : k = e.next
  OBVIOUS
<1>2. /\ k \in 1 .. (m + 1) /\ e.absorbed = {} /\ e.open = IF k = m + 1 THEN 0 ELSE k
      /\ done \subseteq 1 .. m /\ k \notin done /\ 1 .. (k - 1) \subseteq done
      /\ DOMAIN e.live = (1 .. m) \ done /\ DOMAIN e.pending = {j \in done : j > k}
      /\ e.direct \subseteq 1 .. k
  BY <1>1 DEF MsgOrder
<1>3. AtOnce(e, i) <=> i = k
  BY <1>1, <1>2 DEF AtOnce
<1>4. /\ r.pending = e.pending /\ r.absorbed = e.absorbed /\ r.next = k
      /\ DOMAIN r.live = DOMAIN e.live \union {i}
      /\ r.open = (IF i = k THEN i ELSE e.open)
      /\ r.direct = (IF i = k THEN e.direct \union {i} ELSE e.direct)
  BY <1>1, <1>3 DEF Starts
<1>5. /\ k \in 1 .. (i + 1) /\ i \notin done /\ done \subseteq 1 .. i /\ (1 .. m) \union {i} = 1 .. i /\ i \in Nat
      /\ k # i + 1 /\ k # 0 /\ k \in 1 .. k
  BY <1>2
<1>6. r.open = k
  BY <1>2, <1>4
<1>7. DOMAIN r.live = (1 .. i) \ done
  BY ONLY <1>2, <1>4, <1>5
<1>8. r.direct \subseteq 1 .. k
  BY <1>2, <1>4, <1>5
<1> QED
  BY <1>1, <1>2, <1>4, <1>5, <1>6, <1>7, <1>8 DEF MsgOrder

LEMMA MsgStarts ==
  ASSUME NEW m \in Nat, NEW s, EncInv(s.enc, m), NEW x, NEW done, MsgInv(x, done, s.held, s.enc, m),
         NEW v, NEW n, NEW i, IsStart(v, i, n), MsgNode(n), NewIn(n, Given(x, n)), n.kind = "thinking" => n.sig = << >>,
         NEW z, Adding(x, z, m, i, n), z.dir = DirAfter(s.enc, i, n)
  PROVE  MsgInv(z, done, PassOn(s, v).held, PassOn(s, v).enc, i)
<1>1. PICK e, E : e = s.enc /\ E = 1 .. (e.next - 1)
  OBVIOUS
<1>2. MsgNodes(x, m) /\ MsgHeld(x, done, s.held, m) /\ x.dir = e.direct /\ MsgOrder(e, done, m) /\ Kept(e, x, Sigs(x), E)
  BY <1>1 DEF MsgInv
<1>3. /\ i = m + 1 /\ z.src = x.src /\ z.seal = x.seal /\ DOMAIN x.ns = 1 .. m /\ DOMAIN z.ns = 1 .. i
      /\ z.ns[i] = n /\ \A j \in 1 .. m : z.ns[j] = x.ns[j]
  BY DEF Adding
<1>4. /\ i \in Nat /\ 1 .. i = (1 .. m) \union {i} /\ i \notin 1 .. m /\ done \subseteq 1 .. m
      /\ e.next \in 1 .. (m + 1)
  BY <1>2, <1>3 DEF MsgOrder
<1>5. MsgNodes(z, i)
  BY <1>2, <1>3, <1>4 DEF MsgNodes
<1>6. Stays(x, z, E, m)
  <2>1. Within(E, m)
    BY <1>1, <1>4, Before
  <2>2. \A j \in E : z.ns[j] = x.ns[j] /\ (j \in z.dir <=> j \in x.dir)
    <3>1. E \subseteq 1 .. m
      BY <1>1, <1>4
    <3>2. \A j \in 1 .. m : j \in z.dir <=> j \in x.dir
      BY <1>1, <1>2, <1>4 DEF DirAfter
    <3> QED
      BY <1>3, <3>1, <3>2
  <2>3. Settled(x, z, E, m)
    BY <1>2, <1>3, <1>5, <2>1, <2>2, MsgNoPairs DEF Settled
  <2> QED
    BY <2>3, StaysSettled
<1>7. PICK t : t = PassOn(s, v)
  OBVIOUS
<1>8. Kept(t.enc, z, Sigs(z), E) /\ Began(t, s, i, n)
  <2>1. EncInv(s.enc, m) /\ Kept(s.enc, x, Sigs(x), E) /\ x.dir = s.enc.direct /\ (n.kind \in Shown => NewIn(n, Given(x, n)))
    BY <1>1, <1>2
  <2>2. IsStart(v, i, n) /\ Adding(x, z, m, i, n) /\ z.dir = DirAfter(s.enc, i, n) /\ Stays(x, z, E, m) /\ m \in Nat
    BY <1>6
  <2>3. Kept(PassOn(s, v).enc, z, Sigs(z), E) /\ Began(PassOn(s, v), s, i, n)
    BY ONLY <2>1, <2>2, StartPasses
  <2> QED
    BY <1>7, <2>3
<1>9. t.held = s.held /\ t.enc.direct = z.dir /\ Starts(t.enc, e, i)
  <2>1. n.kind \in Shown
    BY DEF MsgNode, NodeFit
  <2> QED
    BY <1>1, <1>8, <2>1 DEF Began
<1>10. MsgOrder(t.enc, done, i) /\ t.enc.next = e.next
  BY <1>2, <1>3, <1>9, MsgOrderStarts
<1>11. MsgHeld(z, done, t.held, i)
  <2>1. DOMAIN s.held \subseteq 1 .. m /\ \A j \in (1 .. m) \ done : HeldFor(x, s.held, j)
    BY <1>2 DEF MsgHeld
  <2>2. HeldFor(z, s.held, i)
    <3>1. IsAt(z, i, n) /\ i \notin DOMAIN s.held /\ (n.kind = "thinking" => n.sig = << >>)
      BY <1>3, <1>4, <2>1 DEF IsAt
    <3> QED
      BY ONLY <3>1, HeldNew
  <2>3. ASSUME NEW j \in (1 .. m) \ done PROVE HeldFor(z, s.held, j)
    BY <1>3, <2>1, HeldOther
  <2> QED
    BY <1>4, <1>9, <2>1, <2>2, <2>3 DEF MsgHeld
<1> QED
  BY <1>1, <1>5, <1>7, <1>8, <1>9, <1>10, <1>11 DEF MsgInv

-----------------------------------------------------------------------------
(* A block reads a fragment.                                               *)
LEMMA MsgOrderKin ==
  ASSUME NEW m, NEW e, NEW done, MsgOrder(e, done, m), NEW r, Kin(r, e), r.open = e.open
  PROVE  MsgOrder(r, done, m)
BY DEF MsgOrder, Kin

Changing(x, z, m, i) ==
  /\ z.src = x.src /\ z.seal = x.seal /\ z.dir = x.dir /\ DOMAIN x.ns = 1 .. m /\ DOMAIN z.ns = 1 .. m
  /\ \A j \in 1 .. m : j # i => z.ns[j] = x.ns[j]

LEMMA ChangesSigs ==
  ASSUME NEW x, NEW z, NEW m, NEW i, Changing(x, z, m, i) PROVE Changes(x, z, Sigs(x), Sigs(z), m, i)
<1>1. /\ z.src = x.src /\ z.seal = x.seal /\ z.dir = x.dir /\ DOMAIN x.ns = 1 .. m /\ DOMAIN z.ns = 1 .. m
      /\ \A j \in 1 .. m : j # i => z.ns[j] = x.ns[j]
  BY DEF Changing
<1>2. \A n : Given(z, n) = Given(x, n)
  BY <1>1 DEF Given
<1> QED
  BY <1>1, <1>2 DEF Changes, Sigs

MsgGrows(x, z, done, i, field, f, b) ==
  /\ i \in DOMAIN x.ns \ done /\ MsgNode(z.ns[i]) /\ MayGrow(x, x.ns[i], field, f) /\ Grew(x.ns[i], z.ns[i], field, f)
  /\ b <=> field = "summary"

LEMMA MsgReads ==
  ASSUME NEW m \in Nat, NEW s, EncInv(s.enc, m), NEW x, NEW done, MsgInv(x, done, s.held, s.enc, m),
         x.src = source, x.seal = sealed, NEW z, NEW i, Changing(x, z, m, i),
         NEW field, NEW f, NEW b, MsgGrows(x, z, done, i, field, f, b), NEW n, n.detail = x.ns[i].detail,
         NEW v, IsFrag(v, i, n, field, f, b)
  PROVE  MsgInv(z, done, PassOn(s, v).held, PassOn(s, v).enc, m)
<1>1. PICK e, E : e = s.enc /\ E = 1 .. (e.next - 1)
  OBVIOUS
<1>2. MsgNodes(x, m) /\ MsgHeld(x, done, s.held, m) /\ x.dir = e.direct /\ MsgOrder(e, done, m) /\ Kept(e, x, Sigs(x), E)
  BY <1>1 DEF MsgInv
<1>3. /\ z.src = x.src /\ z.seal = x.seal /\ z.dir = x.dir /\ DOMAIN x.ns = 1 .. m /\ DOMAIN z.ns = 1 .. m
      /\ \A j \in 1 .. m : j # i => z.ns[j] = x.ns[j]
  BY DEF Changing
<1>4. i \in 1 .. m /\ i \notin done /\ i \in DOMAIN e.live /\ HeldFor(x, s.held, i) /\ E \subseteq done /\ E \subseteq 1 .. m
  <2>1. i \in (1 .. m) \ done
    BY <1>3 DEF MsgGrows
  <2> QED
    BY <1>1, <1>2, <2>1 DEF MsgOrder, MsgHeld
<1>5. MsgNodes(z, m)
  BY <1>2, <1>3, <1>4 DEF MsgNodes, MsgGrows
<1>6. Stays(x, z, E, m)
  <2>1. Within(E, m)
    <3>1. e.next \in 1 .. (m + 1)
      BY <1>2 DEF MsgOrder
    <3> QED
      BY <1>1, <3>1, Before
  <2>2. \A j \in E : z.ns[j] = x.ns[j] /\ (j \in z.dir <=> j \in x.dir)
    BY <1>3, <1>4
  <2>3. Settled(x, z, E, m)
    BY <1>2, <1>3, <1>5, <2>1, <2>2, MsgNoPairs DEF Settled
  <2> QED
    BY <2>3, StaysSettled
<1>7. PICK t : t = PassOn(s, v)
  OBVIOUS
<1>8. Kept(t.enc, z, Sigs(z), E) /\ FragmentRead(t, s, z, i)
  <2>1. Changes(x, z, Sigs(x), Sigs(z), m, i)
    BY ChangesSigs
  <2>2. b <=> (x.src = "messages" /\ field = "summary")
    BY <1>2 DEF MsgGrows, MsgNodes
  <2>3. /\ x.src = source /\ x.src \in {"chat", "messages"} /\ x.seal = sealed /\ x.seal \in BOOLEAN
        /\ MayGrow(x, x.ns[i], field, f) /\ Grew(x.ns[i], z.ns[i], field, f)
    BY <1>2 DEF MsgGrows, MsgNodes
  <2>4. Fragments(x, z, s, E, m, i, field, f, b)
    <3>1. x.src = "messages"
      BY <1>2 DEF MsgNodes
    <3> QED
      BY <1>1, <1>3, <1>4, <1>6, <2>1, <2>2, <2>3, <3>1 DEF Fragments
  <2>5. /\ m \in Nat /\ EncInv(s.enc, m) /\ Kept(s.enc, x, Sigs(x), E) /\ n.detail = x.ns[i].detail
        /\ IsFrag(v, i, n, field, f, b)
    BY <1>1, <1>2
  <2>6. Kept(PassOn(s, v).enc, z, Sigs(z), E) /\ FragmentRead(PassOn(s, v), s, z, i)
    BY ONLY <2>4, <2>5, FragmentShown
  <2> QED
    BY <1>7, <2>6
<1>9. Kin(t.enc, e) /\ t.enc.open = e.open /\ HeldFor(z, t.held, i) /\ LessHeld(t.held, s.held, i)
  BY <1>1, <1>8 DEF FragmentRead
<1>10. MsgOrder(t.enc, done, m) /\ t.enc.next = e.next /\ t.enc.direct = e.direct
  BY <1>2, <1>9, MsgOrderKin DEF Kin
<1>11. MsgHeld(z, done, t.held, m)
  <2>1. DOMAIN s.held \subseteq 1 .. m /\ \A j \in (1 .. m) \ done : HeldFor(x, s.held, j)
    BY <1>2 DEF MsgHeld
  <2>2. \A j : j # i => (j \in DOMAIN t.held <=> j \in DOMAIN s.held)
    BY <1>9 DEF LessHeld
  <2>3. DOMAIN t.held \subseteq 1 .. m
    BY <1>4, <2>1, <2>2
  <2>4. ASSUME NEW j \in (1 .. m) \ done PROVE HeldFor(z, t.held, j)
    BY <1>3, <1>9, <2>1, <2>2, HeldOther
  <2> QED
    BY <2>3, <2>4 DEF MsgHeld
<1> QED
  BY <1>1, <1>2, <1>3, <1>5, <1>7, <1>8, <1>10, <1>11 DEF MsgInv

-----------------------------------------------------------------------------
(* A block ends.                                                           *)
LEMMA FlushIdle ==
  ASSUME NEW m, NEW e, EncInv(e, m), e.next \notin DOMAIN e.pending PROVE FlushReady(e) = e
<1>1. PICK S : S = {i \in DOMAIN e.pending : e.next <= i /\ e.next .. i \subseteq DOMAIN e.pending}
  OBVIOUS
<1>2. S = {}
  <2> SUFFICES ASSUME NEW i \in S PROVE FALSE
    OBVIOUS
  <2>1. i \in DOMAIN e.pending /\ e.next <= i /\ e.next .. i \subseteq DOMAIN e.pending
    BY <1>1
  <2>2. i \in Nat /\ e.next \in Nat
    BY <2>1 DEF EncInv, Places, Counters
  <2>3. e.next \in e.next .. i
    BY <2>1, <2>2
  <2> QED
    BY <2>1, <2>3
<1>3. FlushReady(e) = FoldAscending(EmitPending, e, S)
  BY <1>1 DEF FlushReady
<1> QED
  BY <1>2, <1>3, EmitNone

(* The node that is open and has ended is not the first of a pair.         *)
LEMMA MsgAbsorbs ==
  ASSUME NEW m, NEW x, MsgNodes(x, m), NEW e, NEW g, NEW E, Kept(e, x, g, E), NEW i, i = e.open, i \in 1 .. m
  PROVE  AbsorbOk(e, x, i)
<1>1. Pairs(x.ns) = {}
  BY MsgNoPairs
<1>2. x.ns[i].detail = "" /\ i # 0
  <2>1. i # 0
    OBVIOUS
  <2>2. MsgNode(x.ns[i])
    BY DEF MsgNodes
  <2> QED
    BY <2>1, <2>2 DEF MsgNode
<1>3. e.live[i].payload.detail = x.ns[i].detail
  BY <1>2 DEF Kept, Opened, LiveOk
<1>4. ~Absorbs(e, i)
  BY <1>2, <1>3 DEF Absorbs, CanAbsorb
<1> QED
  BY <1>1, <1>4 DEF AbsorbOk

(* It was the open one: those that waited for it are told, and the next    *)
(* one that has not ended is opened.                                       *)
MsgNext(r, done, m, i) ==
  /\ r.next \in Nat /\ i < r.next /\ r.next <= m + 1 /\ r.next \notin done /\ 1 .. (r.next - 1) \subseteq done \union {i}
  /\ r.open = 0 /\ r.absorbed = {} /\ DOMAIN r.live = (1 .. m) \ (done \union {i})
  /\ DOMAIN r.pending = {j \in done : j > r.next} /\ r.direct \subseteq 1 .. i

LEMMA MsgFlushed ==
  ASSUME NEW m \in Nat, NEW f, NEW done, MsgOrder(f, done, m), NEW i, i = f.open, i \in 1 .. m,
         NEW z, z.open = 0, z.pending = f.pending, z.direct = f.direct, DOMAIN z.live = DOMAIN f.live \ {i},
         z.absorbed = f.absorbed, z.next = i + 1, NEW r, Flushed(r, z)
  PROVE  MsgNext(r, done, m, i) /\ (1 .. i) \union ((i + 1) .. (r.next - 1)) = 1 .. (r.next - 1)
<1>1. PICK k : k = r.next
  OBVIOUS
<1>2. /\ i = f.next /\ f.absorbed = {}
      /\ done \subseteq 1 .. m /\ i \notin done /\ 1 .. (i - 1) \subseteq done
      /\ DOMAIN f.live = (1 .. m) \ done /\ DOMAIN f.pending = {j \in done : j > i}
      /\ f.direct \subseteq 1 .. i
  <2>1. f.next = i
    BY DEF MsgOrder
  <2> QED
    BY <2>1 DEF MsgOrder
<1>3. /\ r.open = 0 /\ r.live = z.live /\ r.absorbed = {} /\ r.direct = f.direct
      /\ DOMAIN r.pending = {j \in done : j > i} \ ((i + 1) .. (k - 1))
      /\ k \in Nat /\ i + 1 <= k /\ (i + 1) .. (k - 1) \subseteq {j \in done : j > i} /\ k \notin {j \in done : j > i}
  BY <1>1, <1>2 DEF Flushed
<1>4. k \notin done /\ i < k /\ i \in Nat
  BY <1>3
<1>5. (1 .. i) \union ((i + 1) .. (k - 1)) = 1 .. (k - 1)
  BY <1>3, <1>4
<1>6. k <= m + 1
  <2>1. CASE k = i + 1
    BY <2>1
  <2>2. CASE k # i + 1
    <3>1. k - 1 \in (i + 1) .. (k - 1)
      BY <1>3, <1>4, <2>2
    <3>2. k - 1 \in 1 .. m
      BY <1>2, <1>3, <3>1
    <3> QED
      BY <1>3, <3>2
  <2> QED
    BY <2>1, <2>2
<1>7. 1 .. (k - 1) \subseteq done \union {i}
  <2>1. 1 .. i \subseteq done \union {i}
    BY <1>2
  <2> QED
    BY <1>3, <1>5, <2>1
<1>8. {j \in done : j > i} \ ((i + 1) .. (k - 1)) = {j \in done : j > k}
  <2>1. ASSUME NEW j \in done PROVE (j > i /\ j \notin (i + 1) .. (k - 1)) <=> j > k
    <3>1. j \in Nat /\ j # k
      BY <1>2, <1>4
    <3> QED
      BY ONLY <1>3, <1>4, <3>1
  <2> QED
    BY <2>1
<1>9. DOMAIN r.live = (1 .. m) \ (done \union {i})
  BY <1>2, <1>3
<1> QED
  BY <1>1, <1>2, <1>3, <1>4, <1>5, <1>6, <1>7, <1>8, <1>9 DEF MsgNext

-----------------------------------------------------------------------------
LEMMA MsgOpens ==
  ASSUME NEW m \in Nat, NEW r, EncInv(r, m), NEW x, NEW k, Kept(r, x, k, 1 .. (r.next - 1)), MsgNodes(x, m),
         x.dir = r.direct, NEW done, done \subseteq 1 .. m, NEW i, i \in (1 .. m) \ done, MsgNext(r, done, m, i),
         NEW t, t = TryStartNextLiveBlock(r)
  PROVE  MsgOrder(t, done \union {i}, m) /\ Kept(t, x, k, 1 .. (t.next - 1)) /\ t.direct = r.direct
<1>1. PICK n, D : n = r.next /\ D = done \union {i}
  OBVIOUS
<1>2. /\ n \in Nat /\ i < n /\ n <= m + 1 /\ n \notin done /\ 1 .. (n - 1) \subseteq D
      /\ r.open = 0 /\ r.absorbed = {} /\ DOMAIN r.live = (1 .. m) \ D
      /\ DOMAIN r.pending = {j \in done : j > n} /\ r.direct \subseteq 1 .. i
  BY <1>1 DEF MsgNext
<1>3. D \subseteq 1 .. m /\ n \notin D /\ n \in 1 .. (m + 1) /\ 1 .. i \subseteq 1 .. n
  <2>1. i \in 1 .. m
    OBVIOUS
  <2>2. n \in 1 .. (m + 1) /\ 1 .. i \subseteq 1 .. n /\ n # i
    BY ONLY <1>2, <2>1, m \in Nat
  <2>3. D \subseteq 1 .. m /\ n \notin D
    BY <1>1, <1>2, <2>1, <2>2
  <2> QED
    BY <2>2, <2>3
<1>4. {j \in D : j > n} = {j \in done : j > n}
  BY <1>1, <1>2
<1>5. CASE n = m + 1
  <2>1. n \notin DOMAIN r.live
    BY <1>2, <1>5
  <2>2. t = r
    BY <1>1, <2>1 DEF TryStartNextLiveBlock
  <2> QED
    BY <1>1, <1>2, <1>3, <1>4, <1>5, <2>2 DEF MsgOrder
<1>6. CASE n # m + 1
  <2>1. n \in 1 .. m /\ n \in DOMAIN r.live /\ n \notin x.dir
    BY <1>2, <1>3, <1>6
  <2>2. Startable(x, n)
    BY <2>1 DEF Startable, MsgNodes, MsgNode
  <2>3. Kept(t, x, k, 1 .. (n - 1)) /\ t.open = n /\ Kin(t, r)
    <3>1. r.open = 0 /\ r.next \in DOMAIN r.live /\ Startable(x, r.next)
      BY <1>1, <1>2, <2>1, <2>2
    <3> QED
      BY <1>1, <3>1, StartsShown
  <2>4. t.next = n /\ t.direct = r.direct /\ DOMAIN t.live = DOMAIN r.live /\ t.pending = r.pending /\ t.absorbed = {}
    BY <1>1, <1>2, <2>3 DEF Kin
  <2>5. t.direct \subseteq 1 .. n
    BY <1>2, <1>3, <2>4
  <2> QED
    BY <1>1, <1>2, <1>3, <1>4, <1>6, <2>3, <2>4, <2>5 DEF MsgOrder
<1> QED
  BY <1>5, <1>6

MsgEndable(f, x, k, done, m, i, n) ==
  /\ MsgOrder(f, done, m) /\ MsgNodes(x, m) /\ x.dir = f.direct /\ i \in (1 .. m) \ done
  /\ (x.ns[i].kind = "thinking" => k[i] = Seal(x, x.ns[i])) /\ Ending(x, i, n)

Turn(f, i) == i = f.open

LEMMA MsgOpenEnds ==
  ASSUME NEW m \in Nat, NEW f, EncInv(f, m), NEW x, NEW k, Kept(f, x, k, 1 .. (f.next - 1)),
         NEW done, NEW i, NEW n, MsgEndable(f, x, k, done, m, i, n), Turn(f, i), NEW t, t = OnNodeDone(f, i, n)
  PROVE  MsgOrder(t, done \union {i}, m) /\ Kept(t, x, k, 1 .. (t.next - 1)) /\ t.direct = x.dir
<1>0. i = f.open
  BY DEF Turn
<1>1. /\ MsgOrder(f, done, m) /\ MsgNodes(x, m) /\ x.dir = f.direct /\ i \in 1 .. m /\ i \notin done
      /\ (x.ns[i].kind = "thinking" => k[i] = Seal(x, x.ns[i])) /\ Ending(x, i, n)
  BY DEF MsgEndable
<1>2. i = f.next /\ done \subseteq 1 .. m /\ f.absorbed = {} /\ i # 0 /\ i \in DOMAIN f.live
  <2>1. i # 0
    BY <1>1
  <2> QED
    BY <1>0, <1>1, <2>1 DEF MsgOrder
<1>3. PICK E : E = 1 .. (i - 1)
  OBVIOUS
<1>4. Within(E, m) /\ Above(E, i) /\ E \union {i} = 1 .. i
  BY <1>1, <1>3 DEF Within, Above
<1>5. Closable(f, x, k, E, m, i, n)
  <2>1. NodeFit(x.ns[i])
    BY <1>1 DEF MsgNodes, MsgNode
  <2>2. AbsorbOk(f, x, i)
    BY <1>0, <1>1, MsgAbsorbs
  <2> QED
    BY <1>0, <1>1, <1>2, <1>4, <2>1, <2>2 DEF Closable
<1>6. t = LiveNodeDone(f, i, n)
  <2>1. f.live[i].block # 0
    BY <1>0, <1>2 DEF EncInv, LiveBlocks
  <2> QED
    BY <1>2, <2>1 DEF OnNodeDone
<1>7. PICK z : /\ LiveNodeDone(f, i, n) = TryStartNextLiveBlock(FlushReady(z))
               /\ Kept(z, x, k, E \union {i}) /\ EncInv(z, m) /\ z.sent = TRUE /\ Shuts(z, f, x, i)
  <2>1. EncInv(f, m) /\ Kept(f, x, k, E) /\ Closable(f, x, k, E, m, i, n) /\ m \in Nat
    BY <1>2, <1>3, <1>5
  <2> QED
    BY ONLY <2>1, LiveClosed
<1>8. /\ z.open = 0 /\ z.pending = f.pending /\ z.direct = f.direct /\ DOMAIN z.live = DOMAIN f.live \ {i}
      /\ z.absorbed = f.absorbed /\ z.next = i + 1
  <2>1. Pairs(x.ns) = {}
    BY <1>1, MsgNoPairs
  <2>2. Taken(x, i) = {}
    BY <2>1 DEF Taken
  <2> QED
    BY <1>7, <2>1, <2>2 DEF Shuts
<1>9. PICK r : r = FlushReady(z)
  OBVIOUS
<1>10. Kept(r, x, k, (1 .. i) \union ((i + 1) .. (r.next - 1))) /\ Flushed(r, z)
  <2>1. PICK F : F = 1 .. i
    OBVIOUS
  <2>2. Flushable(z, x, F, m)
    <3>1. IsEnc(z) /\ Idle(z) /\ DOMAIN z.pending \subseteq 1 .. m /\ z.next \in Nat
      BY <1>7, <1>8 DEF EncInv, InStep, OpenBlock, Counters, Idle, Places
    <3>2. Within(F, m) /\ Above(F, z.next)
      BY <1>1, <1>8, <2>1 DEF Within, Above
    <3>3. Pairs(x.ns) = {}
      BY <1>1, MsgNoPairs
    <3> QED
      BY <1>8, <3>1, <3>2, <3>3 DEF Flushable
  <2>3. Kept(z, x, k, F)
    BY <1>4, <1>7, <2>1
  <2>4. Kept(FlushReady(z), x, k, F \union (z.next .. (FlushReady(z).next - 1))) /\ Flushed(FlushReady(z), z)
    BY ONLY <2>2, <2>3, FlushShown
  <2> QED
    BY <1>8, <1>9, <2>1, <2>4
<1>11. MsgNext(r, done, m, i) /\ (1 .. i) \union ((i + 1) .. (r.next - 1)) = 1 .. (r.next - 1)
  <2>1. m \in Nat /\ MsgOrder(f, done, m) /\ i = f.open /\ i \in 1 .. m /\ Flushed(r, z)
    BY <1>0, <1>1, <1>10
  <2> QED
    BY ONLY <1>8, <2>1, MsgFlushed
<1>12. EncInv(r, m) /\ r.direct = x.dir
  <2>1. EncInv(r, m)
    BY <1>7, <1>9, FlushKeeps
  <2> QED
    BY <1>1, <1>8, <1>10, <2>1 DEF Flushed
<1>13. t = TryStartNextLiveBlock(r)
  BY <1>6, <1>7, <1>9
<1>14. MsgOrder(t, done \union {i}, m) /\ Kept(t, x, k, 1 .. (t.next - 1)) /\ t.direct = r.direct
  <2>1. m \in Nat /\ EncInv(r, m) /\ Kept(r, x, k, 1 .. (r.next - 1)) /\ MsgNodes(x, m) /\ x.dir = r.direct
    BY <1>1, <1>10, <1>11, <1>12
  <2>2. done \subseteq 1 .. m /\ i \in (1 .. m) \ done /\ MsgNext(r, done, m, i)
    BY <1>1, <1>2, <1>11
  <2> QED
    BY ONLY <1>13, <2>1, <2>2, MsgOpens
<1> QED
  BY <1>12, <1>14

LEMMA MsgBufferedEnds ==
  ASSUME NEW m \in Nat, NEW f, EncInv(f, m), NEW x, NEW k, Kept(f, x, k, 1 .. (f.next - 1)),
         NEW done, NEW i, NEW n, MsgEndable(f, x, k, done, m, i, n), i # f.open, NEW t, t = OnNodeDone(f, i, n)
  PROVE  MsgOrder(t, done \union {i}, m) /\ Kept(t, x, k, 1 .. (t.next - 1)) /\ t.direct = x.dir
<1>1. /\ MsgOrder(f, done, m) /\ MsgNodes(x, m) /\ x.dir = f.direct /\ i \in 1 .. m /\ i \notin done
      /\ (x.ns[i].kind = "thinking" => k[i] = Seal(x, x.ns[i])) /\ Ending(x, i, n)
  BY DEF MsgEndable
<1>2. PICK o : o = f.next
  OBVIOUS
<1>3. /\ o \in 1 .. (m + 1) /\ f.absorbed = {} /\ f.open = (IF o = m + 1 THEN 0 ELSE o)
      /\ done \subseteq 1 .. m /\ o \notin done /\ 1 .. (o - 1) \subseteq done
      /\ DOMAIN f.live = (1 .. m) \ done /\ DOMAIN f.pending = {j \in done : j > o}
      /\ f.direct \subseteq 1 .. o
  BY <1>1, <1>2 DEF MsgOrder
<1>4. f.open = o /\ o # m + 1 /\ o < i /\ o # 0 /\ i \notin f.direct
  <2>1. ~(i \in 1 .. (o - 1))
    BY <1>1, <1>3
  <2>2. o <= i
    BY <1>1, <1>3, <2>1
  <2>3. o # m + 1
    BY <1>1, <2>2
  <2>4. f.open = o /\ o # i
    BY <1>3, <2>3
  <2>5. o < i /\ i \notin 1 .. o /\ o # 0
    BY <1>1, <1>3, <2>2, <2>4
  <2> QED
    BY <1>3, <2>3, <2>4, <2>5
<1>5. Bufferable(f, x, k, i, n)
  <2>1. NodeFit(x.ns[i])
    BY <1>1 DEF MsgNodes, MsgNode
  <2> QED
    BY <1>1, <1>3, <1>4, <2>1 DEF Bufferable
<1>6. t = BufferedNodeDone(f, i, n)
  <2>1. f.live[i].block = 0
    BY <1>1, <1>3 DEF EncInv, LiveBlocks
  <2> QED
    BY <1>3, <2>1 DEF OnNodeDone
<1>7. PICK E : E = 1 .. (o - 1)
  OBVIOUS
<1>8. PICK z : /\ BufferedNodeDone(f, i, n) = TryStartNextLiveBlock(FlushReady(z))
               /\ Kept(z, x, k, E) /\ EncInv(z, m) /\ z.sent = TRUE /\ Waits(z, f, i)
  <2>1. m \in Nat /\ EncInv(f, m) /\ Kept(f, x, k, E)
    BY <1>2, <1>7
  <2> QED
    BY ONLY <1>5, <2>1, BufferedEnds
<1>9. /\ z.open = o /\ z.next = o /\ z.absorbed = {} /\ z.direct = f.direct
      /\ DOMAIN z.live = (1 .. m) \ (done \union {i}) /\ DOMAIN z.pending = {j \in done : j > o} \union {i}
  BY <1>2, <1>3, <1>4, <1>8 DEF Waits
<1>10. t = z
  <2>1. z.next \notin DOMAIN z.pending
    BY <1>3, <1>4, <1>9
  <2>2. FlushReady(z) = z
    BY <1>8, <2>1, FlushIdle
  <2>3. z.open # 0
    BY <1>4, <1>9
  <2> QED
    BY <1>6, <1>8, <2>2, <2>3 DEF TryStartNextLiveBlock
<1>11. {j \in done : j > o} \union {i} = {j \in done \union {i} : j > o}
  BY <1>1, <1>3, <1>4
<1>12. MsgOrder(z, done \union {i}, m)
  <2>1. done \union {i} \subseteq 1 .. m /\ o \notin done \union {i} /\ 1 .. (o - 1) \subseteq done \union {i}
    BY <1>1, <1>3, <1>4
  <2> QED
    BY <1>3, <1>4, <1>9, <1>11, <2>1 DEF MsgOrder
<1> QED
  BY <1>1, <1>7, <1>8, <1>9, <1>10, <1>12

LEMMA MsgStops ==
  ASSUME NEW m \in Nat, NEW s, EncInv(s.enc, m), NEW x, NEW done, MsgInv(x, done, s.held, s.enc, m),
         x.src = source, x.seal = sealed, NEW i, i \in (1 .. m) \ done,
         NEW v, IsEv(v), v.ev = "done", v.i = i, v.node = x.ns[i], EncInv(PassOn(s, v).enc, m)
  PROVE  MsgInv(x, done \union {i}, PassOn(s, v).held, PassOn(s, v).enc, m)
<1>1. PICK e, g, E : e = s.enc /\ g = Sigs(x) /\ E = 1 .. (e.next - 1)
  OBVIOUS
<1>2. MsgNodes(x, m) /\ MsgHeld(x, done, s.held, m) /\ x.dir = e.direct /\ MsgOrder(e, done, m) /\ Kept(e, x, g, E)
  BY <1>1 DEF MsgInv
<1>3. DOMAIN x.ns = 1 .. m /\ MsgNode(x.ns[i]) /\ HeldFor(x, s.held, i) /\ i \in DOMAIN e.live /\ e.next \in 1 .. (m + 1)
  BY <1>2 DEF MsgNodes, MsgHeld, MsgOrder
<1>4. PICK t : t = PassOn(s, v)
  OBVIOUS
<1>5. PICK f, n, k : /\ t.enc = OnNodeDone(f, i, n) /\ EncInv(f, m) /\ Kept(f, x, k, E)
                     /\ Released(f, k, e, g, x, m, i) /\ Ending(x, i, n)
                     /\ LessHeld(t.held, s.held, i)
  <2>1. m \in Nat /\ EncInv(s.enc, m) /\ Kept(s.enc, x, g, E) /\ Within(E, m)
    BY <1>1, <1>2, <1>3, Before
  <2>2. NodeEnd(x, s, m, i, v)
    BY <1>1, <1>3 DEF NodeEnd, MsgNode
  <2>3. g[i] = Given(x, x.ns[i])
    BY <1>1, <1>3 DEF Sigs
  <2>4. \E f, n, k : /\ PassOn(s, v).enc = OnNodeDone(f, i, n) /\ EncInv(f, m) /\ Kept(f, x, k, E)
                      /\ Released(f, k, s.enc, g, x, m, i) /\ Ending(x, i, n)
                      /\ LessHeld(PassOn(s, v).held, s.held, i)
    BY ONLY <2>1, <2>2, <2>3, NodeEnds
  <2> QED
    BY <1>1, <1>4, <2>4
<1>6. /\ Kin(f, e) /\ f.open = e.open
      /\ (x.ns[i].kind = "thinking" => k[i] = Seal(x, x.ns[i]))
      /\ \A j \in 1 .. m : j # i => k[j] = g[j]
  BY <1>5 DEF Released
<1>7. MsgOrder(f, done, m) /\ f.next = e.next /\ f.direct = e.direct
  BY <1>2, <1>6, MsgOrderKin DEF Kin
<1>8. MsgEndable(f, x, k, done, m, i, n)
  BY <1>2, <1>5, <1>6, <1>7 DEF MsgEndable
<1>9. MsgOrder(t.enc, done \union {i}, m) /\ Kept(t.enc, x, k, 1 .. (t.enc.next - 1)) /\ t.enc.direct = x.dir
  <2>1. m \in Nat /\ EncInv(f, m) /\ Kept(f, x, k, 1 .. (f.next - 1)) /\ MsgEndable(f, x, k, done, m, i, n)
    BY <1>1, <1>5, <1>7, <1>8
  <2>2. PICK r : r = t.enc
    OBVIOUS
  <2>3. r = OnNodeDone(f, i, n)
    BY <1>5, <2>2
  <2>4. MsgOrder(r, done \union {i}, m) /\ Kept(r, x, k, 1 .. (r.next - 1)) /\ r.direct = x.dir
    <3>1. CASE i = f.open
      <4>1. Turn(f, i)
        BY <3>1 DEF Turn
      <4> QED
        BY ONLY <2>1, <2>3, <4>1, MsgOpenEnds
    <3>2. CASE i # f.open
      BY ONLY <2>1, <2>3, <3>2, MsgBufferedEnds
    <3> QED
      BY <3>1, <3>2
  <2> QED
    BY <2>2, <2>4
<1>10. Kept(t.enc, x, g, 1 .. (t.enc.next - 1))
  <2>1. PICK r, F : r = t.enc /\ F = 1 .. (r.next - 1)
    OBVIOUS
  <2>2. EncInv(r, m) /\ Kept(r, x, k, F) /\ r.next \in 1 .. (m + 1) /\ DOMAIN r.live = (1 .. m) \ (done \union {i})
    BY <1>4, <1>9, <2>1 DEF MsgOrder
  <2>3. Still(r, x, x, k, g)
    <3>1. \A a : Alike(a, a)
      BY DEF Alike
    <3> QED
      BY <1>6, <2>2, <3>1 DEF Still
  <2>4. Stays(x, x, F, m)
    BY <2>1, <2>2, Before DEF Stays
  <2>5. Kept(r, x, g, F)
    BY ONLY <2>2, <2>3, <2>4, m \in Nat, KeptStill
  <2> QED
    BY <2>1, <2>5
<1>11. MsgHeld(x, done \union {i}, t.held, m)
  <2>1. DOMAIN s.held \subseteq 1 .. m /\ \A j \in (1 .. m) \ done : HeldFor(x, s.held, j)
    BY <1>2 DEF MsgHeld
  <2>2. \A j : j # i => (j \in DOMAIN t.held <=> j \in DOMAIN s.held)
    BY <1>5 DEF LessHeld
  <2>3. DOMAIN t.held \subseteq 1 .. m
    BY <2>1, <2>2
  <2>4. ASSUME NEW j \in (1 .. m) \ (done \union {i}) PROVE HeldFor(x, t.held, j)
    BY <2>1, <2>2, HeldOther
  <2> QED
    BY <2>3, <2>4 DEF MsgHeld
<1> QED
  BY <1>1, <1>2, <1>4, <1>9, <1>10, <1>11 DEF MsgInv

-----------------------------------------------------------------------------
(* The end of an answer of which every node has been told.                 *)
HeadsOf(ns) == ShownIn(ns) \ {i + 1 : i \in Pairs(ns)}

ToldAll(x, B) == Told(x, HeadsOf(x.ns), B, Len(B))

Known(e, out) == \A j \in DOMAIN out : IsNode(out[j]) /\ (out[j].kind \in Shown => Surface(out[j].kind) \in e.surfaces)

AtRest(e) == DOMAIN e.live = {} /\ DOMAIN e.pending = {} /\ e.open = 0

LEMMA AnswerTold ==
  ASSUME NEW m \in Nat, NEW s, EncInv(s.enc, m), AtRest(s.enc), NEW x, NEW g, NEW E, Kept(s.enc, x, g, E),
         NEW v, IsEv(v), v.ev = "finish", NEW n \in Nat, DOMAIN v.out = 1 .. n, Known(s.enc, v.out)
  PROVE  /\ PassOn(s, v).enc.direct = s.enc.direct
         /\ Told(x, E, PassOn(s, v).enc.client.blocks, Len(PassOn(s, v).enc.client.blocks))
<1>1. PICK e, t : e = s.enc /\ t = PassOn(s, v)
  OBVIOUS
<1>2. /\ DOMAIN e.live = {} /\ DOMAIN e.pending = {} /\ e.open = 0
      /\ \A j \in DOMAIN v.out : IsNode(v.out[j]) /\ (v.out[j].kind \in Shown => Surface(v.out[j].kind) \in e.surfaces)
  BY <1>1 DEF AtRest, Known
<1>3. PICK o : /\ t.enc = OnResponseDone(e, o) /\ DOMAIN o = 1 .. n
               /\ \A k \in DOMAIN o : o[k].kind = v.out[k].kind
  BY <1>1, <1>2, PassesFinish
<1>4. AllTold(e, o)
  <2> SUFFICES ASSUME NEW k \in DOMAIN o, BlockFromNode(o[k]) # NoBlock
               PROVE  Surface(BlockFromNode(o[k]).kind) \in e.surfaces
    BY DEF AllTold
  <2>1. o[k].kind \in Shown
    BY NodeShown
  <2>2. PICK q : q = o[k]
    OBVIOUS
  <2>3. BlockFromNode(q).kind = q.kind
    BY <2>2 DEF BlockFromNode
  <2> QED
    BY <1>2, <1>3, <2>1, <2>2, <2>3
<1>5. t.enc.client.blocks = e.client.blocks /\ t.enc.direct = e.direct
  <2>1. m \in Nat /\ EncInv(e, m) /\ n \in Nat
    BY <1>1
  <2>2. OnResponseDone(e, o).client.blocks = e.client.blocks /\ OnResponseDone(e, o).direct = e.direct
    BY ONLY <1>2, <1>3, <1>4, <2>1, FinishQuiet
  <2> QED
    BY <1>3, <2>2
<1>6. Len(e.client.blocks) = e.blocks
  BY <1>1 DEF EncInv, InStep, ClientAt
<1>7. Told(x, E, e.client.blocks, e.blocks)
  BY <1>1, <1>2 DEF Kept
<1> QED
  BY <1>1, <1>5, <1>6, <1>7

(* All nodes of a Messages answer have ended.                              *)
LEMMA MsgTold ==
  ASSUME NEW m \in Nat, NEW s, EncInv(s.enc, m), NEW x, MsgInv(x, 1 .. m, s.held, s.enc, m),
         NEW v, IsEv(v), v.ev = "finish", NEW n \in Nat, DOMAIN v.out = 1 .. n,
         \A j \in DOMAIN v.out : \E i \in 1 .. m : v.out[j] = x.ns[i]
  PROVE  PassOn(s, v).enc.direct = x.dir /\ ToldAll(x, PassOn(s, v).enc.client.blocks)
<1>1. PICK e, E : e = s.enc /\ E = 1 .. m
  OBVIOUS
<1>2. MsgNodes(x, m) /\ x.dir = e.direct /\ MsgOrder(e, 1 .. m, m) /\ Kept(e, x, Sigs(x), 1 .. (e.next - 1))
  BY <1>1 DEF MsgInv
<1>3. e.next = m + 1 /\ e.open = 0 /\ DOMAIN e.live = {} /\ DOMAIN e.pending = {} /\ 1 .. (e.next - 1) = E
  <2>1. e.next = m + 1
    BY <1>2 DEF MsgOrder
  <2>2. 1 .. (e.next - 1) = E
    BY <1>1, <2>1
  <2>3. {i \in 1 .. m : i > e.next} = {}
    BY <2>1
  <2> QED
    BY <1>2, <2>1, <2>2, <2>3 DEF MsgOrder
<1>4. Kept(e, x, Sigs(x), E)
  BY <1>2, <1>3
<1>5. \A i \in 1 .. m : IsNode(x.ns[i]) /\ x.ns[i].kind \in Shown
  BY <1>2 DEF MsgNodes, MsgNode, NodeFit
<1>6. Known(e, v.out)
  <2>1. \A i \in 1 .. m : Surface(x.ns[i].kind) \in e.surfaces
    BY <1>1, <1>4 DEF Kept, Surfaced
  <2> QED
    BY <1>5, <2>1 DEF Known
<1>7. PICK B : B = PassOn(s, v).enc.client.blocks
  OBVIOUS
<1>8. PassOn(s, v).enc.direct = s.enc.direct /\ Told(x, E, B, Len(B))
  <2>1. m \in Nat /\ EncInv(s.enc, m) /\ AtRest(s.enc) /\ Kept(s.enc, x, Sigs(x), E) /\ Known(s.enc, v.out)
    BY <1>1, <1>3, <1>4, <1>6 DEF AtRest
  <2>2. IsEv(v) /\ v.ev = "finish" /\ n \in Nat /\ DOMAIN v.out = 1 .. n
    OBVIOUS
  <2>3. /\ PassOn(s, v).enc.direct = s.enc.direct
        /\ Told(x, E, PassOn(s, v).enc.client.blocks, Len(PassOn(s, v).enc.client.blocks))
    BY ONLY <2>1, <2>2, AnswerTold
  <2> QED
    BY <1>7, <2>3
<1>9. HeadsOf(x.ns) = E
  <2>1. Pairs(x.ns) = {}
    BY <1>2, MsgNoPairs
  <2>2. DOMAIN x.ns = E
    BY <1>1, <1>2 DEF MsgNodes
  <2>3. ShownIn(x.ns) = E
    BY <1>1, <1>5, <2>2 DEF ShownIn
  <2> QED
    BY <2>1, <2>3 DEF HeadsOf
<1> QED
  BY <1>1, <1>2, <1>7, <1>8, <1>9 DEF ToldAll

-----------------------------------------------------------------------------
(* A Chat upstream while it is read: no node has ended, so that only the   *)
(* first one can be open.                                                  *)
ChatNode(n) ==
  /\ IsNode(n) /\ n.kind \in {"text", "tool", "thinking", "other"}
  /\ IsSeq(n.text) /\ IsSeq(n.summary) /\ IsSeq(n.sig) /\ n.text # <<EmptyInput>>
  /\ n.kind # "thinking" => n.detail = "" /\ n.summary = << >>

ChatNodes(x, m) ==
  /\ x.src = "chat" /\ x.seal \in BOOLEAN /\ DOMAIN x.ns = 1 .. m
  /\ \A i \in 1 .. m : ChatNode(x.ns[i])

ChatOrder(e, V) ==
  /\ e.next = 1 /\ e.absorbed = {} /\ DOMAIN e.pending = {} /\ DOMAIN e.live = V
  /\ e.open = (IF 1 \in V THEN 1 ELSE 0) /\ e.direct = {1} \intersect V

ChatBase(x, h, e, m) ==
  /\ ChatNodes(x, m) /\ MsgHeld(x, {}, h, m) /\ x.dir = e.direct
  /\ ChatOrder(e, ShownIn(x.ns)) /\ Kept(e, x, Sigs(x), {})

LEMMA ChatFits == ASSUME NEW n, ChatNode(n), n.kind \in Shown PROVE NodeFit(n)
BY DEF ChatNode, NodeFit, Plain

LEMMA ShownAdded ==
  ASSUME NEW x, NEW z, NEW m \in Nat, NEW i, NEW n, Adding(x, z, m, i, n)
  PROVE  /\ ShownIn(x.ns) \subseteq 1 .. m
         /\ ShownIn(z.ns) = IF n.kind \in Shown THEN ShownIn(x.ns) \union {i} ELSE ShownIn(x.ns)
<1>1. /\ i = m + 1 /\ DOMAIN x.ns = 1 .. m /\ DOMAIN z.ns = 1 .. i
      /\ z.ns[i] = n /\ \A j \in 1 .. m : z.ns[j] = x.ns[j]
  BY DEF Adding
<1>2. 1 .. i = (1 .. m) \union {i} /\ i \notin 1 .. m
  BY <1>1
<1> QED
  BY <1>1, <1>2 DEF ShownIn

LEMMA ChatStarts ==
  ASSUME NEW m \in Nat, NEW s, EncInv(s.enc, m), NEW x, ChatBase(x, s.held, s.enc, m),
         NEW v, NEW n, NEW i, IsStart(v, i, n), ChatNode(n), n.text = << >>, n.summary = << >>, n.sig = << >>,
         NEW z, Adding(x, z, m, i, n), z.dir = DirAfter(s.enc, i, n)
  PROVE  ChatBase(z, PassOn(s, v).held, PassOn(s, v).enc, i)
<1>1. PICK e, E, V, W : e = s.enc /\ E = {} /\ V = ShownIn(x.ns) /\ W = ShownIn(z.ns)
  OBVIOUS
<1>2. ChatNodes(x, m) /\ MsgHeld(x, {}, s.held, m) /\ x.dir = e.direct /\ ChatOrder(e, V) /\ Kept(e, x, Sigs(x), E)
  BY <1>1 DEF ChatBase
<1>3. /\ i = m + 1 /\ z.src = x.src /\ z.seal = x.seal /\ DOMAIN x.ns = 1 .. m /\ DOMAIN z.ns = 1 .. i
      /\ z.ns[i] = n /\ \A j \in 1 .. m : z.ns[j] = x.ns[j]
  BY DEF Adding
<1>4. i \in Nat /\ 1 .. i = (1 .. m) \union {i} /\ i \notin 1 .. m /\ (i = 1 <=> m = 0)
  BY <1>3
<1>5. ChatNodes(z, i)
  BY <1>2, <1>3, <1>4 DEF ChatNodes
<1>6. V \subseteq 1 .. m /\ W = IF n.kind \in Shown THEN V \union {i} ELSE V
  BY <1>1, ShownAdded
<1>7. PICK t : t = PassOn(s, v)
  OBVIOUS
<1>8. Kept(t.enc, z, Sigs(z), E) /\ Began(t, s, i, n)
  <2>1. n.kind \in Shown => NewIn(n, Given(x, n))
    <3>1. n.kind \in Shown => NodeFit(n)
      BY ChatFits
    <3>2. Streamed(n) = << >>
      BY DEF Streamed
    <3> QED
      BY <3>1, <3>2, GivenNone DEF NewIn
  <2>2. EncInv(s.enc, m) /\ Kept(s.enc, x, Sigs(x), E) /\ x.dir = s.enc.direct
    BY <1>1, <1>2
  <2>3. IsStart(v, i, n) /\ Adding(x, z, m, i, n) /\ z.dir = DirAfter(s.enc, i, n) /\ Stays(x, z, E, m) /\ m \in Nat
    BY <1>1, StaysNone
  <2>4. Kept(PassOn(s, v).enc, z, Sigs(z), E) /\ Began(PassOn(s, v), s, i, n)
    BY ONLY <2>1, <2>2, <2>3, StartPasses
  <2> QED
    BY <1>7, <2>4
<1>9. /\ t.held = s.held /\ t.enc.direct = z.dir
      /\ n.kind \in Shown => Starts(t.enc, e, i)
      /\ n.kind \notin Shown => t.enc = e
  BY <1>1, <1>8 DEF Began
<1>10. ChatOrder(t.enc, W)
  <2>1. CASE n.kind \notin Shown
    BY <1>2, <1>6, <1>9, <2>1
  <2>2. CASE n.kind \in Shown
    <3>1. /\ e.next = 1 /\ e.absorbed = {} /\ DOMAIN e.pending = {} /\ DOMAIN e.live = V
          /\ e.open = (IF 1 \in V THEN 1 ELSE 0) /\ e.direct = {1} \intersect V
      BY <1>2 DEF ChatOrder
    <3>2. W = V \union {i}
      BY <1>6, <2>2
    <3>3. AtOnce(e, i) <=> i = 1
      <4>1. i = 1 => 1 \notin V
        BY <1>4, <1>6
      <4> QED
        BY <3>1, <4>1 DEF AtOnce
    <3>4. /\ t.enc.pending = e.pending /\ t.enc.absorbed = e.absorbed /\ t.enc.next = e.next
          /\ DOMAIN t.enc.live = DOMAIN e.live \union {i}
          /\ t.enc.open = (IF i = 1 THEN i ELSE e.open)
          /\ t.enc.direct = (IF i = 1 THEN e.direct \union {i} ELSE e.direct)
      BY <1>9, <2>2, <3>3 DEF Starts
    <3>5. CASE i = 1
      BY <3>1, <3>2, <3>4, <3>5 DEF ChatOrder
    <3>6. CASE i # 1
      BY <3>1, <3>2, <3>4, <3>6 DEF ChatOrder
    <3> QED
      BY <3>5, <3>6
  <2> QED
    BY <2>1, <2>2
<1>11. MsgHeld(z, {}, t.held, i)
  <2>1. DOMAIN s.held \subseteq 1 .. m /\ \A j \in 1 .. m : HeldFor(x, s.held, j)
    BY <1>2 DEF MsgHeld
  <2>2. HeldFor(z, s.held, i)
    <3>1. IsAt(z, i, n) /\ i \notin DOMAIN s.held /\ (n.kind = "thinking" => n.sig = << >>)
      BY <1>3, <1>4, <2>1 DEF IsAt
    <3> QED
      BY ONLY <3>1, HeldNew
  <2>3. ASSUME NEW j \in 1 .. m PROVE HeldFor(z, s.held, j)
    BY <1>3, <2>1, HeldOther
  <2> QED
    BY <1>4, <1>9, <2>1, <2>2, <2>3 DEF MsgHeld
<1> QED
  BY <1>1, <1>5, <1>7, <1>8, <1>9, <1>10, <1>11 DEF ChatBase

(* A fragment of a node that has started.                                  *)
ChatGrows(x, z, i, field, f) ==
  /\ i \in ShownIn(x.ns) /\ ChatNode(z.ns[i]) /\ MayGrow(x, x.ns[i], field, f) /\ Grew(x.ns[i], z.ns[i], field, f)

LEMMA ShownSame ==
  ASSUME NEW x, NEW z, NEW m, NEW i, Changing(x, z, m, i), z.ns[i].kind = x.ns[i].kind
  PROVE  ShownIn(z.ns) = ShownIn(x.ns)
<1>1. DOMAIN x.ns = 1 .. m /\ DOMAIN z.ns = 1 .. m /\ \A j \in 1 .. m : z.ns[j].kind = x.ns[j].kind
  BY DEF Changing
<1> QED
  BY <1>1 DEF ShownIn

LEMMA ChatReads ==
  ASSUME NEW m \in Nat, NEW s, EncInv(s.enc, m), NEW x, ChatBase(x, s.held, s.enc, m),
         x.src = source, x.seal = sealed, NEW z, NEW i, Changing(x, z, m, i),
         NEW field, NEW f, NEW b, b = FALSE, ChatGrows(x, z, i, field, f), NEW n, n.detail = x.ns[i].detail,
         NEW v, IsFrag(v, i, n, field, f, b)
  PROVE  ChatBase(z, PassOn(s, v).held, PassOn(s, v).enc, m)
<1>1. PICK e, E, V : e = s.enc /\ E = {} /\ V = ShownIn(x.ns)
  OBVIOUS
<1>2. ChatNodes(x, m) /\ MsgHeld(x, {}, s.held, m) /\ x.dir = e.direct /\ ChatOrder(e, V) /\ Kept(e, x, Sigs(x), E)
  BY <1>1 DEF ChatBase
<1>3. /\ z.src = x.src /\ z.seal = x.seal /\ z.dir = x.dir /\ DOMAIN x.ns = 1 .. m /\ DOMAIN z.ns = 1 .. m
      /\ \A j \in 1 .. m : j # i => z.ns[j] = x.ns[j]
  BY DEF Changing
<1>4. i \in 1 .. m /\ i \in V /\ i \in DOMAIN e.live /\ HeldFor(x, s.held, i)
  <2>1. i \in V
    BY <1>1 DEF ChatGrows
  <2>2. i \in 1 .. m
    BY <1>1, <1>3, <2>1 DEF ShownIn
  <2> QED
    BY <1>2, <2>1, <2>2 DEF ChatOrder, MsgHeld
<1>5. ChatNodes(z, m)
  BY <1>2, <1>3, <1>4 DEF ChatNodes, ChatGrows
<1>6. ShownIn(z.ns) = V
  <2>1. z.ns[i].kind = x.ns[i].kind
    BY DEF ChatGrows, Grew
  <2> QED
    BY <1>1, <2>1, ShownSame
<1>7. PICK t : t = PassOn(s, v)
  OBVIOUS
<1>8. Kept(t.enc, z, Sigs(z), E) /\ FragmentRead(t, s, z, i)
  <2>1. Changes(x, z, Sigs(x), Sigs(z), m, i)
    BY ChangesSigs
  <2>2. b <=> (x.src = "messages" /\ field = "summary")
    BY <1>2 DEF ChatNodes
  <2>3. /\ x.src = source /\ x.src \in {"chat", "messages"} /\ x.seal = sealed /\ x.seal \in BOOLEAN
        /\ MayGrow(x, x.ns[i], field, f) /\ Grew(x.ns[i], z.ns[i], field, f)
    BY <1>2 DEF ChatGrows, ChatNodes
  <2>4. Stays(x, z, E, m)
    BY <1>1, StaysNone
  <2>5. Fragments(x, z, s, E, m, i, field, f, b)
    <3>1. i = e.open => i \in x.dir
      BY <1>2, <1>4 DEF ChatOrder
    <3> QED
      BY <1>1, <1>3, <1>4, <2>1, <2>2, <2>3, <2>4, <3>1 DEF Fragments
  <2>6. /\ m \in Nat /\ EncInv(s.enc, m) /\ Kept(s.enc, x, Sigs(x), E) /\ n.detail = x.ns[i].detail
        /\ IsFrag(v, i, n, field, f, b)
    BY <1>1, <1>2
  <2>7. Kept(PassOn(s, v).enc, z, Sigs(z), E) /\ FragmentRead(PassOn(s, v), s, z, i)
    BY ONLY <2>5, <2>6, FragmentShown
  <2> QED
    BY <1>7, <2>7
<1>9. Kin(t.enc, e) /\ t.enc.open = e.open /\ HeldFor(z, t.held, i) /\ LessHeld(t.held, s.held, i)
  BY <1>1, <1>8 DEF FragmentRead
<1>10. ChatOrder(t.enc, V) /\ t.enc.direct = e.direct
  BY <1>2, <1>9 DEF Kin, ChatOrder
<1>11. MsgHeld(z, {}, t.held, m)
  <2>1. DOMAIN s.held \subseteq 1 .. m /\ \A j \in 1 .. m : HeldFor(x, s.held, j)
    BY <1>2 DEF MsgHeld
  <2>2. \A j : j # i => (j \in DOMAIN t.held <=> j \in DOMAIN s.held)
    BY <1>9 DEF LessHeld
  <2>3. DOMAIN t.held \subseteq 1 .. m
    BY <1>4, <2>1, <2>2
  <2>4. ASSUME NEW j \in 1 .. m PROVE HeldFor(z, t.held, j)
    BY <1>3, <1>9, <2>1, <2>2, HeldOther
  <2> QED
    BY <2>3, <2>4 DEF MsgHeld
<1> QED
  BY <1>1, <1>2, <1>3, <1>5, <1>6, <1>7, <1>8, <1>10, <1>11 DEF ChatBase

-----------------------------------------------------------------------------
(* The end of a Chat answer: its nodes end one after the other.  After     *)
(* node j has, those before Past(x, j) have been told, and the next one is *)
(* open when it is shown and the one before it was.                        *)
ChatWhole(n) ==
  /\ n.detail = "text" => n.text # << >> /\ n.sig = << >>
  /\ n.detail = "encrypted" => n.text = << >> /\ n.summary = << >> /\ n.sig # << >>

ChatFull(x, m) ==
  /\ ChatNodes(x, m) /\ x.dir = {1} \intersect ShownIn(x.ns) /\ \A i \in 1 .. m : ChatWhole(x.ns[i])

Past(P, j) == IF j \in P THEN j + 2 ELSE j + 1

Follower(P, j) == IF j \in P THEN {j + 1} ELSE {}

OpenAt(V, k) == IF k \in V /\ (k = 1 \/ k - 1 \in V) THEN k ELSE 0

ToldTo(V, P, k) == {i \in V : i < k} \ {i + 1 : i \in P}

EndOrder(e, V, P, j) ==
  /\ e.next = Past(P, j) /\ e.absorbed = Follower(P, j) /\ DOMAIN e.pending = {}
  /\ DOMAIN e.live = {i \in V : i >= Past(P, j)} /\ e.open = OpenAt(V, Past(P, j))
  /\ e.direct = {1} \intersect V

EndAt(x, s, m, j) ==
  /\ EncInv(s.enc, m) /\ (ShownIn(x.ns) # {} => s.enc.sent)
  /\ EndOrder(s.enc, ShownIn(x.ns), Pairs(x.ns), j)
  /\ Kept(s.enc, x, Sigs(x), ToldTo(ShownIn(x.ns), Pairs(x.ns), Past(Pairs(x.ns), j)))
  /\ \A i \in (j + 1) .. m : HeldFor(x, s.held, i)

(* Pairs do not overlap.                                                   *)
PairedIn(V, P, m) ==
  /\ m \in Nat /\ V \subseteq 1 .. m /\ P \subseteq V
  /\ \A i \in P : i + 1 \in V /\ i + 1 \notin P /\ (i # 1 => i - 1 \in V)

LEMMA PairFacts ==
  ASSUME NEW m \in Nat, NEW x, ChatFull(x, m)
  PROVE  /\ PairedIn(ShownIn(x.ns), Pairs(x.ns), m)
         /\ \A i \in Pairs(x.ns) : x.ns[i].detail = "text" /\ x.ns[i + 1].detail = "encrypted"
         /\ \A i \in 1 .. m : x.ns[i].detail # "" => x.ns[i].kind = "thinking"
<1>1. PICK V, P : V = ShownIn(x.ns) /\ P = Pairs(x.ns)
  OBVIOUS
<1>2. DOMAIN x.ns = 1 .. m /\ \A i \in 1 .. m : ChatNode(x.ns[i])
  BY DEF ChatFull, ChatNodes
<1>3. V \subseteq 1 .. m /\ P \subseteq V
  BY <1>1, <1>2 DEF ShownIn, Pairs
<1>4. ASSUME NEW i \in P
      PROVE  /\ i + 1 \in V /\ (i > 1 => i - 1 \in V)
             /\ x.ns[i].detail = "text" /\ x.ns[i + 1].detail = "encrypted"
  BY <1>1, <1>4 DEF Pairs, Pair
<1>5. ASSUME NEW i \in P PROVE i + 1 \notin P
  BY <1>4, <1>5
<1>6. ASSUME NEW i \in P, i # 1 PROVE i - 1 \in V
  <2>1. i \in 1 .. m
    BY <1>3, <1>6
  <2>2. i > 1
    BY <1>6, <2>1
  <2> QED
    BY <1>4, <1>6, <2>2
<1>7. \A i \in 1 .. m : x.ns[i].detail # "" => x.ns[i].kind = "thinking"
  BY <1>2 DEF ChatNode
<1> QED
  BY <1>1, <1>3, <1>4, <1>5, <1>6, <1>7 DEF PairedIn

(* The node that follows, as a predicate.                                  *)
Next1(j, i, m) == j \in 0 .. m /\ i \in 1 .. m /\ i = j + 1

LEMMA OrderAbsorbed ==
  ASSUME NEW m, NEW V, NEW P, PairedIn(V, P, m), NEW j, NEW i, Next1(j, i, m), j \in P
  PROVE  /\ Past(P, j) = i + 1 /\ Past(P, i) = i + 1 /\ Follower(P, j) = {i} /\ Follower(P, i) = {} /\ i \in V
         /\ i \notin {k \in V : k >= Past(P, j)}
BY DEF PairedIn, Next1, Past, Follower

LEMMA OrderBlank ==
  ASSUME NEW m, NEW V, NEW P, PairedIn(V, P, m), NEW j, NEW i, Next1(j, i, m), i \notin V
  PROVE  /\ Past(P, j) = i /\ Past(P, i) = i + 1 /\ Follower(P, j) = {} /\ Follower(P, i) = {}
         /\ {k \in V : k >= i} = {k \in V : k >= i + 1} /\ OpenAt(V, i) = 0 /\ OpenAt(V, i + 1) = 0
         /\ ToldTo(V, P, i) = ToldTo(V, P, i + 1)
<1>1. m \in Nat /\ i \in Nat /\ j \in Nat /\ i = j + 1 /\ V \subseteq Nat /\ P \subseteq V /\ i \notin P
  BY DEF PairedIn, Next1
<1>2. j \notin P
  BY <1>1 DEF PairedIn
<1>3. Past(P, j) = i /\ Past(P, i) = i + 1 /\ Follower(P, j) = {} /\ Follower(P, i) = {}
  BY <1>1, <1>2 DEF Past, Follower
<1>4. \A k \in V : (k >= i <=> k >= i + 1) /\ (k < i <=> k < i + 1)
  BY <1>1
<1>5. OpenAt(V, i) = 0 /\ OpenAt(V, i + 1) = 0
  <2>1. i + 1 # 1 /\ (i + 1) - 1 = i
    BY <1>1, Next1(j, i, m) DEF Next1
  <2> QED
    BY <2>1 DEF OpenAt
<1>6. ToldTo(V, P, i) = ToldTo(V, P, i + 1)
  BY <1>4 DEF ToldTo
<1> QED
  BY <1>3, <1>4, <1>5, <1>6

LEMMA OrderShown ==
  ASSUME NEW m, NEW V, NEW P, PairedIn(V, P, m), NEW j, NEW i, Next1(j, i, m), i \in V, j \notin P
  PROVE  /\ Past(P, j) = i /\ Follower(P, j) = {} /\ i \in {k \in V : k >= i}
         /\ Past(P, i) \in Nat /\ i < Past(P, i)
         /\ ToldTo(V, P, i) \union {i} = ToldTo(V, P, Past(P, i))
         /\ Within(ToldTo(V, P, i), m) /\ Above(ToldTo(V, P, i), i)
         /\ ({k \in V : k >= i} \ {i}) \ Follower(P, i) = {k \in V : k >= Past(P, i)}
         /\ OpenAt(V, Past(P, i)) = (IF Past(P, i) \in V THEN Past(P, i) ELSE 0)
         /\ OpenAt(V, i) \in {0, i} /\ (OpenAt(V, i) = 0 => i \notin P /\ i # 1) /\ i # 0
         /\ (OpenAt(V, i) = i => i = 1 \/ i - 1 \in V)
<1>1. /\ m \in Nat /\ i \in Nat /\ j \in Nat /\ i = j + 1 /\ i # 0 /\ V \subseteq Nat /\ V \subseteq 1 .. m /\ P \subseteq V
      /\ \A k \in P : k + 1 \in V /\ k + 1 \notin P /\ (k # 1 => k - 1 \in V)
  BY DEF PairedIn, Next1
<1>2. Past(P, j) = i /\ Follower(P, j) = {} /\ i \in {k \in V : k >= i} /\ Past(P, i) \in Nat /\ i < Past(P, i)
  BY <1>1 DEF Past, Follower
<1>3. i \notin {k + 1 : k \in P}
  BY <1>1
<1>9. Within(ToldTo(V, P, i), m) /\ Above(ToldTo(V, P, i), i)
  <2>1. ToldTo(V, P, i) \subseteq V /\ \A k \in ToldTo(V, P, i) : k < i
    BY DEF ToldTo
  <2>2. 1 .. m \subseteq 0 .. m
    BY <1>1
  <2>3. ToldTo(V, P, i) \subseteq 0 .. m
    BY <1>1, <2>1, <2>2
  <2> QED
    BY <1>1, <2>1, <2>3 DEF Within, Above
<1>4. CASE i \in P
  <2>1. Past(P, i) = i + 2 /\ Follower(P, i) = {i + 1} /\ i + 1 \in V /\ i + 1 \in {k + 1 : k \in P} /\ (i + 2) - 1 = i + 1 /\ i + 2 # 1
    BY <1>1, <1>4 DEF Past, Follower
  <2>2. \A k \in V : (k < i + 2 <=> k < i \/ k = i \/ k = i + 1) /\ (k >= i + 2 <=> k >= i /\ k # i /\ k # i + 1)
    BY <1>1
  <2>3. ToldTo(V, P, i) \union {i} = ToldTo(V, P, i + 2)
    BY <1>3, <2>1, <2>2 DEF ToldTo
  <2>4. ({k \in V : k >= i} \ {i}) \ {i + 1} = {k \in V : k >= i + 2}
    BY <2>2
  <2>5. OpenAt(V, i + 2) = IF i + 2 \in V THEN i + 2 ELSE 0
    BY <2>1 DEF OpenAt
  <2>6. OpenAt(V, i) = i
    BY <1>1, <1>4 DEF OpenAt
  <2>7. ToldTo(V, P, i) \union {i} = ToldTo(V, P, Past(P, i))
    BY <2>1, <2>3
  <2>8. ({k \in V : k >= i} \ {i}) \ Follower(P, i) = {k \in V : k >= Past(P, i)}
    BY <2>1, <2>4
  <2> QED
    BY <1>1, <1>2, <1>4, <2>1, <2>5, <2>6, <2>7, <2>8, <1>9 DEF OpenAt
<1>5. CASE i \notin P
  <2>1. Past(P, i) = i + 1 /\ Follower(P, i) = {} /\ (i + 1) - 1 = i /\ i + 1 # 1
    BY <1>1, <1>5 DEF Past, Follower
  <2>2. \A k \in V : (k < i + 1 <=> k < i \/ k = i) /\ (k >= i + 1 <=> k >= i /\ k # i)
    BY <1>1
  <2>3. ToldTo(V, P, i) \union {i} = ToldTo(V, P, i + 1)
    BY <1>3, <2>2 DEF ToldTo
  <2>4. {k \in V : k >= i} \ {i} = {k \in V : k >= i + 1}
    BY <2>2
  <2>5. OpenAt(V, i + 1) = IF i + 1 \in V THEN i + 1 ELSE 0
    BY <2>1 DEF OpenAt
  <2>6. OpenAt(V, i) = 0 => i # 1
    BY <1>1 DEF OpenAt
  <2>7. ToldTo(V, P, i) \union {i} = ToldTo(V, P, Past(P, i))
    BY <2>1, <2>3
  <2>8. ({k \in V : k >= i} \ {i}) \ Follower(P, i) = {k \in V : k >= Past(P, i)}
    BY <2>1, <2>4
  <2> QED
    BY <1>1, <1>2, <1>5, <2>1, <2>5, <2>6, <2>7, <2>8, <1>9 DEF OpenAt
<1> QED
  BY <1>4, <1>5

-----------------------------------------------------------------------------
(* The event of the end of node i.                                         *)
IsDone(v, x, i) == IsEv(v) /\ v.ev = "done" /\ v.i = i /\ v.node = x.ns[i]

EndStep(x, s, m, j, i, v) ==
  ChatFull(x, m) /\ x.src = source /\ x.seal = sealed /\ EndAt(x, s, m, j) /\ Next1(j, i, m) /\ IsDone(v, x, i)

LEMMA EndFacts ==
  ASSUME NEW m \in Nat, NEW x, NEW s, NEW j, NEW i, NEW v, EndStep(x, s, m, j, i, v)
  PROVE  /\ EncInv(PassOn(s, v).enc, m) /\ (ShownIn(x.ns) # {} => PassOn(s, v).enc.sent)
         /\ HeldFor(x, s.held, i) /\ ChatNode(x.ns[i]) /\ ChatWhole(x.ns[i])
         /\ \A k : LessHeld(k, s.held, i) => \A l \in (i + 1) .. m : HeldFor(x, k, l)
<1>1. /\ ChatNodes(x, m) /\ EndAt(x, s, m, j) /\ IsDone(v, x, i) /\ \A l \in 1 .. m : ChatWhole(x.ns[l])
      /\ j \in Nat /\ i \in 1 .. m /\ i = j + 1
  BY DEF EndStep, ChatFull, Next1
<1>2. ChatNode(x.ns[i]) /\ ChatWhole(x.ns[i]) /\ DOMAIN x.ns = 1 .. m
  BY <1>1 DEF ChatNodes
<1>3. EncInv(s.enc, m) /\ (ShownIn(x.ns) # {} => s.enc.sent) /\ \A l \in (j + 1) .. m : HeldFor(x, s.held, l)
  BY <1>1 DEF EndAt
<1>4. NodeEvent(s.enc, v, m) /\ IsEv(v)
  <2>1. IsEv(v) /\ v.ev = "done" /\ v.i = i /\ v.node = x.ns[i]
    BY <1>1 DEF IsDone
  <2>2. v.node.kind \in Shown => s.enc.sent
    BY <1>1, <1>2, <1>3, <2>1 DEF ShownIn
  <2> QED
    BY <1>1, <2>1, <2>2 DEF NodeEvent
<1>5. EncInv(PassOn(s, v).enc, m) /\ PassOn(s, v).enc.sent = s.enc.sent
  BY <1>3, <1>4, PassKeeps
<1>6. i \in (j + 1) .. m /\ \A l \in (i + 1) .. m : l \in (j + 1) .. m /\ l # i
  BY <1>1
<1>7. ASSUME NEW k, LessHeld(k, s.held, i), NEW l \in (i + 1) .. m PROVE HeldFor(x, k, l)
  <2>1. HeldFor(x, s.held, l) /\ (l \in DOMAIN k <=> l \in DOMAIN s.held)
    BY <1>3, <1>6, <1>7 DEF LessHeld
  <2> QED
    BY <2>1, HeldOther
<1> QED
  BY <1>2, <1>3, <1>5, <1>6, <1>7

(* Its block was that of the node before it.                               *)
LEMMA EndAbsorbed ==
  ASSUME NEW m \in Nat, NEW x, NEW s, NEW j, NEW i, NEW v, EndStep(x, s, m, j, i, v), j \in Pairs(x.ns)
  PROVE  EndAt(x, PassOn(s, v), m, i)
<1>1. PICK e, t, V, P : e = s.enc /\ t = PassOn(s, v) /\ V = ShownIn(x.ns) /\ P = Pairs(x.ns)
  OBVIOUS
<1>2. ChatFull(x, m) /\ x.src = source /\ x.seal = sealed /\ EndAt(x, s, m, j) /\ Next1(j, i, m) /\ IsDone(v, x, i)
  BY DEF EndStep
<1>3. /\ EncInv(t.enc, m) /\ (V # {} => t.enc.sent) /\ HeldFor(x, s.held, i) /\ ChatNode(x.ns[i]) /\ ChatWhole(x.ns[i])
      /\ \A k : LessHeld(k, s.held, i) => \A l \in (i + 1) .. m : HeldFor(x, k, l)
  BY <1>1, EndFacts
<1>4. PairedIn(V, P, m) /\ i = j + 1 /\ x.ns[i].detail = "encrypted" /\ x.ns[i].kind = "thinking"
  <2>1. i = j + 1 /\ i \in 1 .. m
    BY <1>2 DEF Next1
  <2>2. /\ PairedIn(ShownIn(x.ns), Pairs(x.ns), m)
        /\ \A k \in Pairs(x.ns) : x.ns[k].detail = "text" /\ x.ns[k + 1].detail = "encrypted"
        /\ \A k \in 1 .. m : x.ns[k].detail # "" => x.ns[k].kind = "thinking"
    BY ONLY m \in Nat, <1>2, PairFacts
  <2>3. x.ns[i].detail = "encrypted"
    BY <2>1, <2>2
  <2> QED
    BY <1>1, <2>1, <2>2, <2>3
<1>5. /\ Past(P, j) = i + 1 /\ Past(P, i) = i + 1 /\ Follower(P, j) = {i} /\ Follower(P, i) = {} /\ i \in V
      /\ i \notin {k \in V : k >= Past(P, j)}
  BY <1>1, <1>2, <1>4, OrderAbsorbed
<1>6. EndOrder(e, V, P, j) /\ Kept(e, x, Sigs(x), ToldTo(V, P, Past(P, j))) /\ EncInv(e, m)
  BY <1>1, <1>2 DEF EndAt
<1>7. i \notin DOMAIN s.held
  <2>1. x.src = "chat"
    BY <1>2 DEF ChatFull, ChatNodes
  <2>2. Given(x, x.ns[i]) # << >> \/ ~x.seal
    <3>1. x.ns[i].sig # << >>
      BY <1>3, <1>4 DEF ChatWhole
    <3>2. Envelope(x.ns[i].sig) # << >>
      BY <3>1, AnEnvelope
    <3> QED
      BY <1>4, <2>1, <3>2 DEF Given
  <2> QED
    BY <1>3, <2>2 DEF HeldFor
<1>8. PICK n : t.enc = OnNodeDone(e, i, n) /\ t.held = s.held
  <2>1. IsEv(v) /\ v.ev = "done" /\ v.i = i
    BY <1>2 DEF IsDone
  <2> QED
    BY <1>1, <1>7, <2>1, PassesDone
<1>9. PICK r : r = t.enc
  OBVIOUS
<1>10. r = [e EXCEPT !.absorbed = @ \ {i}, !.live = Without(@, i)]
  BY <1>5, <1>6, <1>8, <1>9 DEF OnNodeDone, EndOrder
<1>11. /\ r.client = e.client /\ r.next = e.next /\ r.blocks = e.blocks /\ r.pending = e.pending /\ r.open = e.open
       /\ r.surfaces = e.surfaces /\ r.direct = e.direct /\ r.absorbed = e.absorbed \ {i} /\ r.live = Without(e.live, i)
  BY <1>6, <1>10 DEF EncInv, IsEnc, EncFields
<1>12. DOMAIN r.live = DOMAIN e.live /\ \A k \in DOMAIN e.live : r.live[k] = e.live[k]
  <2>1. i \notin DOMAIN e.live
    BY <1>5, <1>6 DEF EndOrder
  <2>2. DOMAIN r.live = DOMAIN e.live \ {i} /\ \A k \in DOMAIN e.live \ {i} : r.live[k] = e.live[k]
    <3>1. PICK L : L = e.live
      OBVIOUS
    <3>2. DOMAIN Without(L, i) = DOMAIN L \ {i} /\ \A k \in DOMAIN L \ {i} : Without(L, i)[k] = L[k]
      BY ONLY Restricted
    <3> QED
      BY <1>11, <3>1, <3>2
  <2> QED
    BY <2>1, <2>2
<1>13. e.open # 0 => e.open \in DOMAIN e.live
  BY <1>6 DEF EncInv, LiveBlocks
<1>14. \A g, E : Kept(e, x, g, E) => Kept(r, x, g, E)
  BY <1>11, <1>12, <1>13 DEF Kept, Bufs, Opened, Pends, Surfaced
<1>15. EndOrder(r, V, P, i)
  BY <1>5, <1>6, <1>11, <1>12 DEF EndOrder
<1>16. LessHeld(t.held, s.held, i)
  BY <1>8 DEF LessHeld
<1> QED
  BY <1>1, <1>3, <1>5, <1>6, <1>9, <1>14, <1>15, <1>16 DEF EndAt

(* It is not shown.                                                        *)
LEMMA EndBlank ==
  ASSUME NEW m \in Nat, NEW x, NEW s, NEW j, NEW i, NEW v, EndStep(x, s, m, j, i, v), i \notin ShownIn(x.ns)
  PROVE  EndAt(x, PassOn(s, v), m, i)
<1>1. PICK e, t, V, P : e = s.enc /\ t = PassOn(s, v) /\ V = ShownIn(x.ns) /\ P = Pairs(x.ns)
  OBVIOUS
<1>2. ChatFull(x, m) /\ x.src = source /\ x.seal = sealed /\ EndAt(x, s, m, j) /\ Next1(j, i, m) /\ IsDone(v, x, i)
  BY DEF EndStep
<1>3. /\ EncInv(t.enc, m) /\ (V # {} => t.enc.sent) /\ HeldFor(x, s.held, i) /\ ChatNode(x.ns[i]) /\ ChatWhole(x.ns[i])
      /\ \A k : LessHeld(k, s.held, i) => \A l \in (i + 1) .. m : HeldFor(x, k, l)
  BY <1>1, EndFacts
<1>4. PairedIn(V, P, m) /\ i \in 1 .. m /\ x.ns[i].kind \notin Shown
  <2>1. i \in 1 .. m /\ DOMAIN x.ns = 1 .. m
    BY <1>2 DEF Next1, ChatFull, ChatNodes
  <2> QED
    BY <1>1, <1>2, <2>1, PairFacts DEF ShownIn
<1>5. /\ Past(P, j) = i /\ Past(P, i) = i + 1 /\ Follower(P, j) = {} /\ Follower(P, i) = {}
      /\ {k \in V : k >= i} = {k \in V : k >= i + 1} /\ OpenAt(V, i) = 0 /\ OpenAt(V, i + 1) = 0
      /\ ToldTo(V, P, i) = ToldTo(V, P, i + 1)
  BY <1>1, <1>2, <1>4, OrderBlank
<1>6. EndOrder(e, V, P, j) /\ Kept(e, x, Sigs(x), ToldTo(V, P, i)) /\ EncInv(e, m)
  BY <1>1, <1>2, <1>5 DEF EndAt
<1>7. i \notin DOMAIN s.held
  BY <1>3, <1>4 DEF HeldFor, Shown, Reasoning
<1>8. PICK n : t.enc = OnNodeDone(e, i, n) /\ t.held = s.held /\ n.kind = x.ns[i].kind
  <2>1. IsEv(v) /\ v.ev = "done" /\ v.i = i /\ v.node = x.ns[i]
    BY <1>2 DEF IsDone
  <2> QED
    BY <1>1, <1>7, <2>1, PassesDone DEF EndsAs
<1>9. /\ i = e.next /\ e.absorbed = {} /\ DOMAIN e.pending = {} /\ DOMAIN e.live = {k \in V : k >= i}
      /\ e.direct = {1} \intersect V /\ i \notin DOMAIN e.live
  BY <1>1, <1>5, <1>6 DEF EndOrder
<1>10. PICK r : r = BufferedNodeDone(e, i, n)
  OBVIOUS
<1>11. t.enc = r
  BY <1>8, <1>9, <1>10 DEF OnNodeDone
<1>12. /\ Kept(r, x, Sigs(x), ToldTo(V, P, i)) /\ r.next = i + 1 /\ r.open = 0
       /\ DOMAIN r.live = DOMAIN e.live /\ DOMAIN r.pending = {}
       /\ r.absorbed = e.absorbed /\ r.direct = e.direct
  <2>1. n.kind \notin Shown
    BY <1>4, <1>8
  <2> QED
    <3>1. PICK k, g, E : k = e.next /\ g = Sigs(x) /\ E = ToldTo(V, P, i)
      OBVIOUS
    <3>2. /\ m \in Nat /\ EncInv(e, m) /\ Kept(e, x, g, E) /\ k = e.next /\ k \in 1 .. m /\ k \notin DOMAIN e.live
          /\ DOMAIN e.pending = {} /\ n.kind \notin Shown
      BY <1>4, <1>6, <1>9, <2>1, <3>1
    <3>3. /\ Kept(BufferedNodeDone(e, k, n), x, g, E)
          /\ BufferedNodeDone(e, k, n).next = k + 1 /\ BufferedNodeDone(e, k, n).open = 0
          /\ DOMAIN BufferedNodeDone(e, k, n).live = DOMAIN e.live /\ DOMAIN BufferedNodeDone(e, k, n).pending = {}
          /\ BufferedNodeDone(e, k, n).absorbed = e.absorbed /\ BufferedNodeDone(e, k, n).direct = e.direct
      BY ONLY <3>2, BlankEnds
    <3> QED
      BY <1>9, <1>10, <3>1, <3>3
<1>13. EndOrder(r, V, P, i)
  BY <1>5, <1>9, <1>12 DEF EndOrder
<1>14. LessHeld(t.held, s.held, i)
  BY <1>8 DEF LessHeld
<1> QED
  BY <1>1, <1>3, <1>5, <1>11, <1>12, <1>13, <1>14 DEF EndAt

-----------------------------------------------------------------------------
(* The next node is opened.                                                *)
LEMMA EndOpens ==
  ASSUME NEW m \in Nat, NEW r, EncInv(r, m), NEW x, ChatFull(x, m), NEW g, NEW E, Kept(r, x, g, E),
         r.open = 0, r.next # 1, DOMAIN r.live \subseteq ShownIn(x.ns), NEW t, t = TryStartNextLiveBlock(r)
  PROVE  Kept(t, x, g, E) /\ Kin(t, r) /\ t.open = IF r.next \in DOMAIN r.live THEN r.next ELSE 0
<1>1. CASE r.next \notin DOMAIN r.live
  <2>1. t = r
    BY <1>1 DEF TryStartNextLiveBlock
  <2> QED
    BY <1>1, <2>1 DEF Kin
<1>2. CASE r.next \in DOMAIN r.live
  <2>1. PICK k : k = r.next
    OBVIOUS
  <2>2. k \in DOMAIN x.ns /\ x.ns[k].kind \in Shown /\ k \notin x.dir /\ ChatNode(x.ns[k])
    BY <1>2, <2>1 DEF ChatFull, ChatNodes, ShownIn
  <2>3. Startable(x, r.next)
    BY <2>1, <2>2, ChatFits DEF Startable
  <2>4. m \in Nat /\ EncInv(r, m) /\ r.open = 0 /\ Kept(r, x, g, E)
    OBVIOUS
  <2>5. /\ Kept(TryStartNextLiveBlock(r), x, g, E) /\ TryStartNextLiveBlock(r).open = r.next
        /\ Kin(TryStartNextLiveBlock(r), r)
    BY ONLY <1>2, <2>3, <2>4, StartsShown
  <2> QED
    BY <1>2, <2>5
<1> QED
  BY <1>1, <1>2

(* What the open node and the one behind it have collected are those of a  *)
(* pair exactly when the nodes are.                                        *)
Absorbing(f, x, k, m, i) ==
  /\ ChatFull(x, m) /\ i \in 1 .. m /\ i \in ShownIn(x.ns) /\ f.open = i /\ (i = 1 \/ i - 1 \in ShownIn(x.ns))
  /\ DOMAIN f.live = {l \in ShownIn(x.ns) : l >= i}
  /\ (x.ns[i].kind = "thinking" => k[i] = Seal(x, x.ns[i]))
  /\ (i + 1 \in 1 .. m => k[i + 1] = Given(x, x.ns[i + 1]))

LEMMA EndAbsorbs ==
  ASSUME NEW m \in Nat, NEW x, NEW f, NEW k, NEW E, Kept(f, x, k, E), NEW i, Absorbing(f, x, k, m, i)
  PROVE  AbsorbOk(f, x, i)
<1>1. PICK V, P : V = ShownIn(x.ns) /\ P = Pairs(x.ns)
  OBVIOUS
<1>2. /\ ChatFull(x, m) /\ i \in 1 .. m /\ i \in V /\ f.open = i /\ (i = 1 \/ i - 1 \in V)
      /\ DOMAIN f.live = {l \in V : l >= i}
      /\ (x.ns[i].kind = "thinking" => k[i] = Seal(x, x.ns[i]))
      /\ (i + 1 \in 1 .. m => k[i + 1] = Given(x, x.ns[i + 1]))
  BY <1>1 DEF Absorbing
<1>3. PICK q, n, p, o : q = x.ns[i] /\ n = x.ns[i + 1] /\ p = f.live[i].payload /\ o = f.live[i + 1].payload
  OBVIOUS
<1>4. i # 0 /\ i + 1 # i /\ i + 1 >= i /\ i \in Nat
  BY <1>2
<1>5. V \subseteq 1 .. m /\ DOMAIN x.ns = 1 .. m /\ x.src = "chat" /\ x.seal \in BOOLEAN
  BY <1>1, <1>2 DEF ChatFull, ChatNodes, ShownIn
<1>6. ChatNode(q) /\ ChatWhole(q)
  BY <1>2, <1>3 DEF ChatFull, ChatNodes
<1>7. i + 1 \in V => ChatNode(n) /\ ChatWhole(n)
  BY <1>2, <1>3, <1>5 DEF ChatFull, ChatNodes
<1>8. \E y : LiveOk(x, i, k[i], p, y)
  BY <1>2, <1>3, <1>4 DEF Kept, Opened
<1>9. i + 1 \in V => i + 1 \in DOMAIN f.live /\ BufOk(n, k[i + 1], o)
  <2> SUFFICES ASSUME i + 1 \in V PROVE i + 1 \in DOMAIN f.live /\ BufOk(n, k[i + 1], o)
    OBVIOUS
  <2>1. i + 1 \in DOMAIN f.live /\ i + 1 # f.open
    BY <1>2, <1>4
  <2> QED
    BY <1>3, <2>1 DEF Kept, Bufs
<1>10. p.kind = q.kind /\ p.detail = q.detail
  BY <1>3, <1>8 DEF LiveOk
<1>11. i \in P <=> i + 1 \in V /\ q.detail = "text" /\ n.detail = "encrypted"
  BY <1>1, <1>2, <1>3 DEF Pairs, Pair
<1>12. ASSUME Absorbs(f, i) PROVE i \in P
  <2>1. i + 1 \in V /\ p.detail = "text" /\ o.detail = "encrypted"
    BY <1>2, <1>3, <1>12 DEF Absorbs, CanAbsorb
  <2>2. o.detail = n.detail
    BY <1>9, <2>1 DEF BufOk
  <2> QED
    BY <1>10, <1>11, <2>1, <2>2
<1>13. ASSUME i \in P
       PROVE  /\ Absorbs(f, i) /\ Seal(x, q) = << >> /\ o.sig = Seal(x, n) /\ IsSeq(Seal(x, n))
  <2>1. /\ i + 1 \in V /\ q.detail = "text" /\ n.detail = "encrypted" /\ ChatNode(n) /\ ChatWhole(n)
        /\ i + 1 \in DOMAIN f.live /\ BufOk(n, k[i + 1], o) /\ i + 1 \in 1 .. m
    BY <1>5, <1>7, <1>9, <1>11, <1>13
  <2>2. /\ q.kind = "thinking" /\ n.kind = "thinking" /\ q.text # << >> /\ q.sig = << >>
        /\ n.text = << >> /\ n.summary = << >> /\ n.sig # << >>
    BY <1>6, <2>1 DEF ChatNode, ChatWhole
  <2>3. Seal(x, q) = << >>
    BY <2>2, NoEnvelope DEF Seal
  <2>4. Seal(x, n) # << >> /\ IsSeq(Seal(x, n)) /\ k[i + 1] = Seal(x, n)
    <3>1. Envelope(n.sig) # << >> /\ IsSeq(Envelope(n.sig))
      BY <2>2, AnEnvelope
    <3>2. IsSeq(n.sig)
      BY <2>1 DEF ChatNode
    <3>3. k[i + 1] = Given(x, n)
      BY <1>2, <1>3, <2>1
    <3> QED
      BY <1>5, <2>1, <2>2, <3>1, <3>2, <3>3 DEF Given, Seal
  <2>5. o.kind = "thinking" /\ o.text = << >> /\ o.detail = "encrypted" /\ o.sig = k[i + 1]
    BY <2>1, <2>2 DEF BufOk
  <2>6. p.text # << >> /\ p.sig = << >>
    <3>1. PICK y : LiveOk(x, i, k[i], p, y)
      BY <1>8
    <3>2. p.sig = k[i] /\ IsSeq(p.text)
      BY <1>3, <2>2, <3>1 DEF LiveOk, IsPay
    <3>3. Len(q.text) \in Nat /\ Len(q.text) # 0 /\ Len(q.summary) \in Nat
      <4>1. IsSeq(q.text) /\ IsSeq(q.summary)
        BY <1>6 DEF ChatNode
      <4> QED
        BY <2>2, <4>1, SeqEmpty
    <3>4. Len(p.text) = Len(q.text) + Len(q.summary) \/ Len(q.text) <= Len(p.text)
      <4>1. i \in x.dir \/ i \notin x.dir
        OBVIOUS
      <4> QED
        BY <1>3, <2>2, <3>1, <4>1 DEF LiveOk
    <3>5. Len(p.text) \in Nat
      BY <3>2, SeqDomain
    <3>6. Len(p.text) # 0
      <4>1. PICK a, b, c : a = Len(q.text) /\ b = Len(q.summary) /\ c = Len(p.text)
        OBVIOUS
      <4>2. a \in Nat /\ a # 0 /\ b \in Nat /\ c \in Nat /\ (c = a + b \/ a <= c)
        BY <3>3, <3>4, <3>5, <4>1
      <4>3. c # 0
        BY ONLY <4>2
      <4> QED
        BY <4>1, <4>3
    <3>7. p.text # << >>
      BY <3>2, <3>6, SeqEmpty
    <3> QED
      BY <1>2, <1>3, <2>2, <2>3, <3>2, <3>7
  <2>7. Absorbs(f, i)
    BY <1>3, <1>10, <2>1, <2>2, <2>4, <2>5, <2>6 DEF Absorbs, CanAbsorb
  <2> QED
    BY <2>3, <2>4, <2>5, <2>7
<1> QED
  BY <1>1, <1>3, <1>12, <1>13 DEF AbsorbOk

-----------------------------------------------------------------------------
(* A node that is shown and has a block of its own: what is known of the   *)
(* encoder f when its end is read.                                         *)
Ends(f, x, k, m, j, i, n) ==
  /\ ChatFull(x, m) /\ Next1(j, i, m) /\ i \in ShownIn(x.ns) /\ j \notin Pairs(x.ns)
  /\ EncInv(f, m) /\ EndOrder(f, ShownIn(x.ns), Pairs(x.ns), j)
  /\ Kept(f, x, k, ToldTo(ShownIn(x.ns), Pairs(x.ns), i))
  /\ (x.ns[i].kind = "thinking" => k[i] = Seal(x, x.ns[i]))
  /\ (i + 1 \in 1 .. m => k[i + 1] = Given(x, x.ns[i + 1])) /\ Ending(x, i, n)

EndsWell(t, x, k, i) ==
  /\ EndOrder(t, ShownIn(x.ns), Pairs(x.ns), i)
  /\ Kept(t, x, k, ToldTo(ShownIn(x.ns), Pairs(x.ns), Past(Pairs(x.ns), i)))

LEMMA EndLive ==
  ASSUME NEW m \in Nat, NEW x, NEW f, NEW k, NEW j, NEW i, NEW n, Ends(f, x, k, m, j, i, n), f.open # 0,
         NEW t, t = OnNodeDone(f, i, n)
  PROVE  EndsWell(t, x, k, i)
<1>1. PICK V, P, E : V = ShownIn(x.ns) /\ P = Pairs(x.ns) /\ E = ToldTo(V, P, i)
  OBVIOUS
<1>2. /\ ChatFull(x, m) /\ Next1(j, i, m) /\ i \in V /\ j \notin P
      /\ EncInv(f, m) /\ EndOrder(f, V, P, j) /\ Kept(f, x, k, E)
      /\ (x.ns[i].kind = "thinking" => k[i] = Seal(x, x.ns[i]))
      /\ (i + 1 \in 1 .. m => k[i + 1] = Given(x, x.ns[i + 1])) /\ Ending(x, i, n)
  BY <1>1 DEF Ends
<1>3. PairedIn(V, P, m) /\ i \in 1 .. m
  BY <1>1, <1>2, PairFacts DEF Next1
<1>4. PICK l : l = Past(P, i)
  OBVIOUS
<1>5. /\ Past(P, j) = i /\ Follower(P, j) = {} /\ i \in {o \in V : o >= i} /\ l \in Nat /\ i < l
      /\ E \union {i} = ToldTo(V, P, l) /\ Within(E, m) /\ Above(E, i)
      /\ ({o \in V : o >= i} \ {i}) \ Follower(P, i) = {o \in V : o >= l}
      /\ OpenAt(V, l) = (IF l \in V THEN l ELSE 0)
      /\ OpenAt(V, i) \in {0, i} /\ i # 0 /\ (OpenAt(V, i) = i => i = 1 \/ i - 1 \in V)
  BY <1>1, <1>2, <1>3, <1>4, OrderShown
<1>6. /\ f.next = i /\ f.absorbed = {} /\ DOMAIN f.pending = {} /\ DOMAIN f.live = {o \in V : o >= i}
      /\ f.open = i /\ f.direct = {1} \intersect V /\ (i = 1 \/ i - 1 \in V) /\ i \in DOMAIN f.live
  BY <1>2, <1>5 DEF EndOrder
<1>7. Closable(f, x, k, E, m, i, n)
  <2>1. NodeFit(x.ns[i])
    <3>1. ChatNode(x.ns[i]) /\ x.ns[i].kind \in Shown
      BY <1>1, <1>2, <1>3 DEF ChatFull, ChatNodes, ShownIn
    <3> QED
      BY <3>1, ChatFits
  <2>2. AbsorbOk(f, x, i)
    <3>1. Absorbing(f, x, k, m, i)
      BY <1>1, <1>2, <1>3, <1>6 DEF Absorbing
    <3> QED
      BY <1>2, <3>1, EndAbsorbs
  <2> QED
    BY <1>2, <1>5, <1>6, <2>1, <2>2 DEF Closable
<1>8. PICK z : /\ LiveNodeDone(f, i, n) = TryStartNextLiveBlock(FlushReady(z))
               /\ Kept(z, x, k, E \union {i}) /\ EncInv(z, m) /\ z.sent = TRUE /\ Shuts(z, f, x, i)
  BY ONLY m \in Nat, <1>2, <1>7, LiveClosed
<1>9. t = LiveNodeDone(f, i, n)
  <2>1. f.live[i].block # 0
    BY <1>2, <1>5, <1>6 DEF EncInv, LiveBlocks
  <2> QED
    BY <1>6, <2>1 DEF OnNodeDone
<1>10. /\ z.open = 0 /\ z.pending = f.pending /\ z.direct = f.direct /\ z.next = l
       /\ DOMAIN z.live = {o \in V : o >= l} /\ z.absorbed = Follower(P, i)
  <2>1. Taken(x, i) = Follower(P, i)
    BY <1>1 DEF Taken, Follower
  <2>2. /\ z.open = 0 /\ z.pending = f.pending /\ z.direct = f.direct
        /\ DOMAIN z.live = (DOMAIN f.live \ {i}) \ Follower(P, i) /\ z.absorbed = f.absorbed \union Follower(P, i)
        /\ z.next = IF i \in P THEN i + 2 ELSE i + 1
    BY <1>1, <1>8, <2>1 DEF Shuts
  <2> QED
    BY <1>4, <1>5, <1>6, <2>2 DEF Past
<1>11. FlushReady(z) = z
  BY <1>6, <1>10, FlushNothing
<1>12. t = TryStartNextLiveBlock(z)
  BY <1>8, <1>9, <1>11
<1>13. PICK F : F = E \union {i}
  OBVIOUS
<1>14. Kept(t, x, k, F) /\ Kin(t, z) /\ t.open = IF z.next \in DOMAIN z.live THEN z.next ELSE 0
  <2>1. z.next # 1
    BY <1>3, <1>5, <1>10
  <2>2. DOMAIN z.live \subseteq ShownIn(x.ns)
    BY <1>1, <1>10
  <2> QED
    BY ONLY m \in Nat, <1>2, <1>8, <1>10, <1>12, <1>13, <2>1, <2>2, EndOpens
<1>15. l \in DOMAIN z.live <=> l \in V
  BY <1>5, <1>10
<1>16. t.open = OpenAt(V, l)
  BY <1>5, <1>10, <1>14, <1>15
<1>17. EndOrder(t, V, P, i)
  BY <1>4, <1>6, <1>10, <1>14, <1>16 DEF EndOrder, Kin
<1> QED
  BY <1>1, <1>4, <1>5, <1>13, <1>14, <1>17 DEF EndsWell

LEMMA EndBuffered ==
  ASSUME NEW m \in Nat, NEW x, NEW f, NEW k, NEW j, NEW i, NEW n, Ends(f, x, k, m, j, i, n), f.open = 0,
         NEW t, t = OnNodeDone(f, i, n)
  PROVE  EndsWell(t, x, k, i)
<1>1. PICK V, P, E : V = ShownIn(x.ns) /\ P = Pairs(x.ns) /\ E = ToldTo(V, P, i)
  OBVIOUS
<1>2. /\ ChatFull(x, m) /\ Next1(j, i, m) /\ i \in V /\ j \notin P
      /\ EncInv(f, m) /\ EndOrder(f, V, P, j) /\ Kept(f, x, k, E)
      /\ (x.ns[i].kind = "thinking" => k[i] = Seal(x, x.ns[i])) /\ Ending(x, i, n)
  BY <1>1 DEF Ends
<1>3. PairedIn(V, P, m) /\ i \in 1 .. m
  BY <1>1, <1>2, PairFacts DEF Next1
<1>4. PICK l : l = Past(P, i)
  OBVIOUS
<1>5. /\ Past(P, j) = i /\ Follower(P, j) = {} /\ i \in {o \in V : o >= i} /\ l \in Nat /\ i < l
      /\ E \union {i} = ToldTo(V, P, l) /\ Within(E, m) /\ Above(E, i)
      /\ ({o \in V : o >= i} \ {i}) \ Follower(P, i) = {o \in V : o >= l}
      /\ OpenAt(V, l) = (IF l \in V THEN l ELSE 0)
      /\ (OpenAt(V, i) = 0 => i \notin P /\ i # 1) /\ i # 0
  BY <1>1, <1>2, <1>3, <1>4, OrderShown
<1>6. /\ f.next = i /\ f.absorbed = {} /\ DOMAIN f.pending = {} /\ DOMAIN f.live = {o \in V : o >= i}
      /\ f.direct = {1} \intersect V /\ i \in DOMAIN f.live /\ i \notin P /\ i # 1
  BY <1>2, <1>5 DEF EndOrder
<1>7. l = i + 1 /\ Follower(P, i) = {}
  BY <1>4, <1>6 DEF Past, Follower
<1>8. Bufferable(f, x, k, i, n)
  <2>1. NodeFit(x.ns[i])
    <3>1. ChatNode(x.ns[i]) /\ x.ns[i].kind \in Shown
      BY <1>1, <1>2, <1>3 DEF ChatFull, ChatNodes, ShownIn
    <3> QED
      BY <3>1, ChatFits
  <2>2. i \notin x.dir
    BY <1>2, <1>6 DEF ChatFull
  <2> QED
    BY <1>2, <1>5, <1>6, <2>1, <2>2 DEF Bufferable
<1>9. PICK z : /\ BufferedNodeDone(f, i, n) = TryStartNextLiveBlock(FlushReady(z))
               /\ Kept(z, x, k, E) /\ EncInv(z, m) /\ z.sent = TRUE /\ Waits(z, f, i)
  BY ONLY m \in Nat, <1>2, <1>8, BufferedEnds
<1>10. t = BufferedNodeDone(f, i, n)
  <2>1. f.live[i].block = 0
    BY <1>2, <1>5, <1>6 DEF EncInv, LiveBlocks
  <2> QED
    BY <1>6, <2>1 DEF OnNodeDone
<1>11. /\ z.open = 0 /\ z.next = i /\ z.absorbed = {} /\ z.direct = f.direct
       /\ DOMAIN z.live = {o \in V : o >= i} \ {i} /\ DOMAIN z.pending = {i}
  BY <1>6, <1>9 DEF Waits
<1>12. PICK r : r = FlushReady(z)
  OBVIOUS
<1>13. Kept(r, x, k, E \union (i .. (r.next - 1))) /\ Flushed(r, z) /\ EncInv(r, m)
  <2>1. Flushable(z, x, E, m)
    <3>1. IsEnc(z) /\ Idle(z) /\ DOMAIN z.pending \subseteq 1 .. m /\ z.next \in Nat
      BY <1>9, <1>11 DEF EncInv, InStep, OpenBlock, Counters, Idle, Places
    <3>2. Ready(z) \intersect Pairs(x.ns) = {}
      BY <1>1, <1>6, <1>11 DEF Ready
    <3> QED
      BY <1>5, <1>11, <3>1, <3>2 DEF Flushable
  <2>2. Kept(z, x, k, E)
    BY <1>9
  <2>3. Kept(FlushReady(z), x, k, E \union (z.next .. (FlushReady(z).next - 1))) /\ Flushed(FlushReady(z), z)
    BY ONLY <2>1, <2>2, FlushShown
  <2>4. EncInv(r, m)
    BY <1>9, <1>12, FlushKeeps
  <2> QED
    BY <1>11, <1>12, <2>3, <2>4
<1>14. r.next = l
  <2>1. PICK o : o = r.next
    OBVIOUS
  <2>2. o \in Nat /\ i <= o /\ i .. (o - 1) \subseteq {i} /\ o # i
    BY <1>11, <1>13, <2>1 DEF Flushed
  <2>3. i \in Nat
    BY <1>3
  <2>4. ~(i + 1 <= o - 1)
    <3> SUFFICES ASSUME i + 1 <= o - 1 PROVE FALSE
      OBVIOUS
    <3>1. i + 1 \in i .. (o - 1)
      BY <2>2, <2>3
    <3> QED
      BY <2>2, <2>3, <3>1
  <2>5. o = i + 1
    BY ONLY <2>2, <2>3, <2>4
  <2> QED
    BY <1>7, <2>1, <2>5
<1>15. i .. (l - 1) = {i}
  BY <1>3, <1>7
<1>16. PICK F : F = E \union {i}
  OBVIOUS
<1>17. Kept(r, x, k, F)
  BY <1>13, <1>14, <1>15, <1>16
<1>18. /\ r.open = 0 /\ r.live = z.live /\ r.absorbed = {} /\ r.direct = f.direct /\ DOMAIN r.pending = {}
  <2>1. DOMAIN r.pending = {i} \ {i}
    BY <1>11, <1>13, <1>14, <1>15 DEF Flushed
  <2> QED
    BY <1>11, <1>13, <2>1 DEF Flushed
<1>19. t = TryStartNextLiveBlock(r)
  BY <1>9, <1>10, <1>12
<1>20. DOMAIN r.live = {o \in V : o >= l}
  BY <1>5, <1>7, <1>11, <1>18
<1>21. Kept(t, x, k, F) /\ Kin(t, r) /\ t.open = IF r.next \in DOMAIN r.live THEN r.next ELSE 0
  <2>1. r.next # 1
    BY <1>3, <1>5, <1>14
  <2>2. DOMAIN r.live \subseteq ShownIn(x.ns)
    BY <1>1, <1>20
  <2> QED
    BY ONLY m \in Nat, <1>2, <1>13, <1>17, <1>18, <1>19, <2>1, <2>2, EndOpens
<1>22. l \in DOMAIN r.live <=> l \in V
  BY <1>5, <1>20
<1>23. t.open = OpenAt(V, l)
  BY <1>5, <1>14, <1>21, <1>22
<1>24. EndOrder(t, V, P, i)
  BY <1>4, <1>6, <1>7, <1>14, <1>18, <1>20, <1>21, <1>23 DEF EndOrder, Kin
<1> QED
  BY <1>1, <1>4, <1>5, <1>16, <1>21, <1>24 DEF EndsWell

-----------------------------------------------------------------------------
LEMMA EndShown ==
  ASSUME NEW m \in Nat, NEW x, NEW s, NEW j, NEW i, NEW v, EndStep(x, s, m, j, i, v),
         i \in ShownIn(x.ns), j \notin Pairs(x.ns)
  PROVE  EndAt(x, PassOn(s, v), m, i)
<1>1. PICK e, t, V, P, g, E : e = s.enc /\ t = PassOn(s, v) /\ V = ShownIn(x.ns) /\ P = Pairs(x.ns) /\ g = Sigs(x) /\ E = ToldTo(V, P, i)
  OBVIOUS
<1>2. ChatFull(x, m) /\ x.src = source /\ x.seal = sealed /\ EndAt(x, s, m, j) /\ Next1(j, i, m) /\ IsDone(v, x, i)
  BY DEF EndStep
<1>3. /\ EncInv(t.enc, m) /\ (V # {} => t.enc.sent) /\ HeldFor(x, s.held, i) /\ ChatNode(x.ns[i]) /\ ChatWhole(x.ns[i])
      /\ \A h : LessHeld(h, s.held, i) => \A l \in (i + 1) .. m : HeldFor(x, h, l)
  BY <1>1, EndFacts
<1>4. PairedIn(V, P, m) /\ i \in 1 .. m /\ x.ns[i].kind \in Shown /\ DOMAIN x.ns = 1 .. m
  <2>1. i \in 1 .. m /\ DOMAIN x.ns = 1 .. m
    BY <1>2 DEF Next1, ChatFull, ChatNodes
  <2> QED
    BY <1>1, <1>2, <2>1, PairFacts DEF ShownIn
<1>5. /\ Past(P, j) = i /\ i \in {o \in V : o >= i} /\ Within(E, m)
  BY <1>1, <1>2, <1>4, OrderShown
<1>6. EndOrder(e, V, P, j) /\ Kept(e, x, g, E) /\ EncInv(e, m)
  BY <1>1, <1>2, <1>5 DEF EndAt
<1>7. i \in DOMAIN e.live
  BY <1>5, <1>6 DEF EndOrder
<1>8. PICK f, n, k : /\ t.enc = OnNodeDone(f, i, n) /\ EncInv(f, m) /\ Kept(f, x, k, E)
                     /\ Released(f, k, e, g, x, m, i) /\ Ending(x, i, n)
                     /\ LessHeld(t.held, s.held, i)
  <2>1. m \in Nat /\ EncInv(s.enc, m) /\ Kept(s.enc, x, g, E) /\ Within(E, m)
    BY <1>1, <1>5, <1>6
  <2>2. NodeEnd(x, s, m, i, v)
    BY <1>1, <1>2, <1>3, <1>4, <1>7, ChatFits DEF NodeEnd, IsDone, ChatNode
  <2>3. g[i] = Given(x, x.ns[i])
    BY <1>1, <1>4 DEF Sigs
  <2>4. \E f, n, k : /\ PassOn(s, v).enc = OnNodeDone(f, i, n) /\ EncInv(f, m) /\ Kept(f, x, k, E)
                      /\ Released(f, k, s.enc, g, x, m, i) /\ Ending(x, i, n)
                      /\ LessHeld(PassOn(s, v).held, s.held, i)
    BY ONLY <2>1, <2>2, <2>3, NodeEnds
  <2> QED
    BY <1>1, <2>4
<1>9. /\ Kin(f, e) /\ f.open = e.open
      /\ (x.ns[i].kind = "thinking" => k[i] = Seal(x, x.ns[i]))
      /\ \A l \in 1 .. m : l # i => k[l] = g[l]
  BY <1>8 DEF Released
<1>10. EndOrder(f, V, P, j)
  BY <1>6, <1>9 DEF EndOrder, Kin
<1>11. Ends(f, x, k, m, j, i, n)
  <2>1. i + 1 \in 1 .. m => k[i + 1] = Given(x, x.ns[i + 1])
    <3>1. i + 1 # i
      BY <1>4
    <3> QED
      BY <1>1, <1>4, <1>9, <3>1 DEF Sigs
  <2> QED
    BY <1>1, <1>2, <1>8, <1>9, <1>10, <2>1 DEF Ends
<1>12. PICK r : r = t.enc
  OBVIOUS
<1>13. EndsWell(r, x, k, i)
  <2>1. r = OnNodeDone(f, i, n) /\ m \in Nat
    BY <1>8, <1>12
  <2>2. CASE f.open # 0
    BY ONLY <1>11, <2>1, <2>2, EndLive
  <2>3. CASE f.open = 0
    BY ONLY <1>11, <2>1, <2>3, EndBuffered
  <2> QED
    BY <2>2, <2>3
<1>14. PICK F : F = ToldTo(V, P, Past(P, i))
  OBVIOUS
<1>15. EndOrder(r, V, P, i) /\ Kept(r, x, k, F)
  BY <1>1, <1>13, <1>14 DEF EndsWell
<1>16. Kept(r, x, g, F)
  <2>1. i \notin DOMAIN r.live /\ DOMAIN r.live \subseteq V
    <3>1. i < Past(P, i) /\ Past(P, i) \in Nat
      BY <1>4 DEF Past
    <3> QED
      BY <1>4, <1>15, <3>1 DEF EndOrder
  <2>2. Still(r, x, x, k, g)
    <3>1. \A a : Alike(a, a)
      BY DEF Alike
    <3>2. DOMAIN r.live \subseteq 1 .. m
      BY <1>3, <1>12 DEF EncInv, Places
    <3> QED
      BY <1>9, <2>1, <3>1, <3>2 DEF Still
  <2>3. Stays(x, x, F, m)
    <3>1. F \subseteq V /\ V \subseteq 1 .. m
      BY <1>4, <1>14 DEF ToldTo, PairedIn
    <3>2. Within(F, m)
      BY <3>1 DEF Within
    <3> QED
      BY <3>2 DEF Stays
  <2>4. EncInv(r, m) /\ m \in Nat
    BY <1>3, <1>12
  <2> QED
    BY ONLY <1>15, <2>2, <2>3, <2>4, KeptStill
<1>17. \A l \in (i + 1) .. m : HeldFor(x, t.held, l)
  BY <1>3, <1>8
<1> QED
  BY <1>1, <1>3, <1>12, <1>14, <1>15, <1>16, <1>17 DEF EndAt

LEMMA EndNode ==
  ASSUME NEW m \in Nat, NEW x, NEW s, NEW j, NEW i, NEW v, EndStep(x, s, m, j, i, v)
  PROVE  EndAt(x, PassOn(s, v), m, i)
BY EndAbsorbed, EndBlank, EndShown

-----------------------------------------------------------------------------
(* All nodes end.                                                          *)
EndGood(p, T, s) == \A j \in 0 .. p.m : T = 1 .. j => EndAt(p.x, s, p.m, j)

Finish == INSTANCE FoldTheorems WITH Op <- PassStep, Good <- EndGood

LEMMA FinishLoop ==
  ASSUME NEW s, NEW p
  PROVE  PassAll(s, p.ev) = Finish!Loop(p, s, DOMAIN p.ev)
BY DEF PassAll, FoldLeft, Finish!Loop, MapThenFoldSet, Finish!MapThenFoldSet, Max, Finish!Max, PassStep

LEMMA SameLength == ASSUME NEW a \in Nat, NEW b \in Nat, 1 .. a = 1 .. b PROVE a = b
<1>1. a \in 1 .. a \/ a = 0
  OBVIOUS
<1>2. b \in 1 .. b \/ b = 0
  OBVIOUS
<1>3. a <= b /\ b <= a
  BY <1>1, <1>2
<1> QED
  BY <1>3

(* The numbers before the largest of 1 .. j.                               *)
LEMMA Shorter ==
  ASSUME NEW m \in Nat, NEW T, NEW i \in 1 .. m, T \subseteq 1 .. m, \A y \in T : y < i,
         NEW j \in 0 .. m, T \union {i} = 1 .. j
  PROVE  i = j /\ i - 1 \in 0 .. m /\ T = 1 .. (i - 1) /\ Next1(i - 1, i, m)
<1>1. i \in 1 .. j /\ j \in Nat /\ i \in Nat
  OBVIOUS
<1>2. j \in 1 .. j
  BY <1>1
<1>3. j = i
  BY <1>1, <1>2
<1>4. T = 1 .. (i - 1)
  <2>1. \A y \in T : y \in 1 .. (i - 1)
    OBVIOUS
  <2>2. \A y \in 1 .. (i - 1) : y \in 1 .. j /\ y # i
    BY <1>3
  <2> QED
    BY <2>1, <2>2
<1> QED
  BY <1>3, <1>4 DEF Next1

LEMMA EndAll ==
  ASSUME NEW m \in Nat, NEW x, ChatFull(x, m), x.src = source, x.seal = sealed, NEW s, EndAt(x, s, m, 0),
         NEW q, DOMAIN q = 1 .. (m + 1), \A i \in 1 .. m : IsDone(q[i], x, i)
  PROVE  \E t : PassAll(s, q) = PassOn(t, q[m + 1]) /\ EndAt(x, t, m, m)
<1>1. PICK p : p = [ev |-> q, m |-> m, x |-> x]
  OBVIOUS
<1>2. p.ev = q /\ p.m = m /\ p.x = x
  BY <1>1
<1>3. PICK t : t = Finish!Loop(p, s, 1 .. m)
  OBVIOUS
<1>4. PassAll(s, q) = PassOn(t, q[m + 1])
  <2>1. PassAll(s, q) = Finish!Loop(p, s, 1 .. (m + 1))
    BY <1>2, FinishLoop
  <2>2. Finish!Loop(p, s, 1 .. (m + 1)) = PassStep(p, Finish!Loop(p, s, 1 .. m), m + 1)
    BY Finish!LoopTo
  <2> QED
    BY <1>2, <1>3, <2>1, <2>2 DEF PassStep
<1>5. EndGood(p, {}, s)
  <2>1. ASSUME NEW j \in 0 .. m, {} = 1 .. j PROVE EndAt(x, s, m, j)
    <3>1. j = 0
      BY <2>1
    <3> QED
      BY <3>1
  <2> QED
    BY <1>2, <2>1 DEF EndGood
<1>6. PICK S : S = 1 .. m
  OBVIOUS
<1>7. ASSUME NEW T \in SUBSET S, NEW i \in S \ T, NEW a, EndGood(p, T, a), \A y \in T : y < i
      PROVE  EndGood(p, T \union {i}, PassStep(p, a, i))
  <2> SUFFICES ASSUME NEW j \in 0 .. m, T \union {i} = 1 .. j PROVE EndAt(x, PassStep(p, a, i), m, j)
    BY <1>2 DEF EndGood
  <2>1. i \in 1 .. m /\ T \subseteq 1 .. m
    BY <1>6, <1>7
  <2>2. i = j /\ i - 1 \in 0 .. m /\ T = 1 .. (i - 1) /\ Next1(i - 1, i, m)
    BY <1>7, <2>1, Shorter
  <2>3. PICK o, v : o = i - 1 /\ v = q[i]
    OBVIOUS
  <2>4. EndAt(x, a, m, o)
    BY <1>2, <1>7, <2>2, <2>3 DEF EndGood
  <2>5. EndStep(x, a, m, o, i, v)
    BY <2>1, <2>2, <2>3, <2>4 DEF EndStep
  <2>6. EndAt(x, PassOn(a, v), m, i)
    BY <2>5, EndNode
  <2> QED
    BY <1>2, <2>2, <2>3, <2>6 DEF PassStep
<1>8. S \subseteq 0 .. m
  BY <1>6
<1>9. \A T \in SUBSET S : \A i \in S \ T : \A a :
        EndGood(p, T, a) /\ (\A y \in T : y < i) => EndGood(p, T \union {i}, PassStep(p, a, i))
  BY <1>7
<1>10. EndGood(p, S, Finish!Loop(p, s, S))
  BY <1>5, <1>8, <1>9, Finish!LoopInvariant
<1>11. EndAt(x, t, m, m)
  BY <1>2, <1>3, <1>6, <1>10 DEF EndGood
<1> QED
  BY <1>4, <1>11

-----------------------------------------------------------------------------
(* An answer that is read is at the start of its end.                      *)
LEMMA EndBegins ==
  ASSUME NEW m \in Nat, NEW x, ChatFull(x, m), NEW s, EncInv(s.enc, m), ShownIn(x.ns) # {} => s.enc.sent,
         ChatBase(x, s.held, s.enc, m)
  PROVE  EndAt(x, s, m, 0)
<1>1. PICK V, P : V = ShownIn(x.ns) /\ P = Pairs(x.ns)
  OBVIOUS
<1>2. PairedIn(V, P, m)
  BY <1>1, PairFacts
<1>3. V \subseteq 1 .. m /\ 0 \notin P
  BY <1>2 DEF PairedIn
<1>4. Past(P, 0) = 1 /\ Follower(P, 0) = {} /\ OpenAt(V, 1) = (IF 1 \in V THEN 1 ELSE 0)
  BY <1>3 DEF Past, Follower, OpenAt
<1>5. {i \in V : i >= 1} = V /\ ToldTo(V, P, 1) = {}
  <2>1. \A i \in 1 .. m : i >= 1 /\ ~(i < 1)
    BY ONLY m \in Nat
  <2> QED
    BY <1>3, <2>1 DEF ToldTo
<1>6. ChatOrder(s.enc, V) /\ Kept(s.enc, x, Sigs(x), {}) /\ MsgHeld(x, {}, s.held, m)
  BY <1>1 DEF ChatBase
<1>7. EndOrder(s.enc, V, P, 0)
  BY <1>4, <1>5, <1>6 DEF EndOrder, ChatOrder
<1>8. \A i \in (0 + 1) .. m : HeldFor(x, s.held, i)
  BY <1>6 DEF MsgHeld
<1> QED
  BY <1>1, <1>4, <1>5, <1>6, <1>7, <1>8 DEF EndAt

(* All nodes of a Chat answer have ended.                                  *)
LEMMA ChatTold ==
  ASSUME NEW m \in Nat, NEW x, ChatFull(x, m), NEW s, EndAt(x, s, m, m),
         NEW v, IsEv(v), v.ev = "finish", v.out = x.ns
  PROVE  PassOn(s, v).enc.direct = x.dir /\ ToldAll(x, PassOn(s, v).enc.client.blocks)
<1>1. PICK e, V, P, E : e = s.enc /\ V = ShownIn(x.ns) /\ P = Pairs(x.ns) /\ E = HeadsOf(x.ns)
  OBVIOUS
<1>2. PairedIn(V, P, m) /\ \A i \in 1 .. m : x.ns[i].detail # "" => x.ns[i].kind = "thinking"
  BY <1>1, PairFacts
<1>3. /\ DOMAIN x.ns = 1 .. m /\ (\A i \in 1 .. m : IsNode(x.ns[i])) /\ x.dir = {1} \intersect V
  BY <1>1 DEF ChatFull, ChatNodes, ChatNode
<1>4. V \subseteq 1 .. m /\ m + 1 \notin V /\ m \notin P
  <2>1. V \subseteq 1 .. m /\ \A i \in P : i + 1 \in V
    BY <1>2 DEF PairedIn
  <2>2. m + 1 \notin 1 .. m
    OBVIOUS
  <2> QED
    BY <2>1, <2>2
<1>5. Past(P, m) = m + 1 /\ OpenAt(V, m + 1) = 0
  BY <1>4 DEF Past, OpenAt
<1>6. {i \in V : i >= m + 1} = {} /\ ToldTo(V, P, m + 1) = E
  <2>1. \A i \in V : i < m + 1 /\ ~(i >= m + 1)
    <3>1. \A i \in 1 .. m : i < m + 1 /\ ~(i >= m + 1)
      BY ONLY m \in Nat
    <3> QED
      BY <1>4, <3>1
  <2> QED
    BY <1>1, <2>1 DEF ToldTo, HeadsOf
<1>7. AtRest(e) /\ Kept(e, x, Sigs(x), E) /\ EncInv(e, m) /\ e.direct = x.dir
  BY <1>1, <1>3, <1>5, <1>6 DEF EndAt, EndOrder, AtRest
<1>8. Known(e, v.out)
  <2>1. \A i \in E : Surface(x.ns[i].kind) \in e.surfaces
    BY <1>7 DEF Kept, Surfaced
  <2> SUFFICES ASSUME NEW i \in 1 .. m, x.ns[i].kind \in Shown PROVE Surface(x.ns[i].kind) \in e.surfaces
    BY <1>3 DEF Known
  <2>2. i \in V
    BY <1>1, <1>3 DEF ShownIn
  <2>3. CASE i \in E
    BY <2>1, <2>3
  <2>4. CASE i \notin E
    <3>1. PICK j \in P : i = j + 1
      BY <1>1, <2>2, <2>4 DEF HeadsOf
    <3>2. j \in V /\ j \in 1 .. m /\ x.ns[j].detail = "text" /\ x.ns[i].detail = "encrypted"
      <4>1. j \in V
        BY <1>2, <3>1 DEF PairedIn
      <4>2. \A l \in Pairs(x.ns) : x.ns[l].detail = "text" /\ x.ns[l + 1].detail = "encrypted"
        BY PairFacts
      <4> QED
        BY <1>1, <1>4, <3>1, <4>1, <4>2
    <3>3. x.ns[j].kind = "thinking" /\ x.ns[i].kind = "thinking"
      BY <1>2, <3>2
    <3>4. j \in E
      <4> SUFFICES ASSUME NEW l \in P, j = l + 1 PROVE FALSE
        BY <1>1, <3>2 DEF HeadsOf
      <4>1. l + 1 \notin P
        BY <1>2 DEF PairedIn
      <4> QED
        BY <3>1, <4>1
    <3> QED
      BY <2>1, <3>3, <3>4
  <2> QED
    BY <2>3, <2>4
<1>9. PICK B : B = PassOn(s, v).enc.client.blocks
  OBVIOUS
<1>10. PassOn(s, v).enc.direct = s.enc.direct /\ Told(x, E, B, Len(B))
  <2>1. m \in Nat /\ EncInv(s.enc, m) /\ AtRest(s.enc) /\ Kept(s.enc, x, Sigs(x), E) /\ Known(s.enc, v.out)
    BY <1>1, <1>7, <1>8
  <2>2. IsEv(v) /\ v.ev = "finish" /\ DOMAIN v.out = 1 .. m
    BY <1>3
  <2>3. /\ PassOn(s, v).enc.direct = s.enc.direct
        /\ Told(x, E, PassOn(s, v).enc.client.blocks, Len(PassOn(s, v).enc.client.blocks))
    BY ONLY <2>1, <2>2, AnswerTold
  <2> QED
    BY <1>9, <2>3
<1> QED
  BY <1>1, <1>7, <1>9, <1>10 DEF ToldAll

-----------------------------------------------------------------------------
(* The answer as the decoder and the encoder have it.                      *)
View == [ns |-> dec.nodes, dir |-> enc.direct, src |-> source, seal |-> sealed]

IsView(x, d, e) == x = [ns |-> d.nodes, dir |-> e.direct, src |-> source, seal |-> sealed]

Slots(d) ==
  /\ d.textAt # 0 => d.nodes[d.textAt].kind = "text"
  /\ d.reasonAt # 0 => d.nodes[d.reasonAt].kind = "thinking" /\ d.nodes[d.reasonAt].detail = ""

MsgWhole(x, d, h, e) ==
  MsgInv(x, d.completed, h, e, Len(d.nodes)) /\ d.active = DOMAIN d.nodes \ d.completed

ChatAnswer(x, d, h, e) == ChatFull(x, Len(d.nodes)) /\ ChatBase(x, h, e, Len(d.nodes)) /\ Slots(d)

Whole(x, d, h, e) ==
  /\ d.st = "reading" /\ x.src = "messages" => MsgWhole(x, d, h, e)
  /\ d.st = "reading" /\ x.src = "chat" => ChatAnswer(x, d, h, e)
  /\ d.st # "reading" /\ e.client.st = "stopped" /\ d.completed = DOMAIN d.nodes => ToldAll(x, e.client.blocks)

DeliverInv ==
  /\ StreamInv /\ source \in Protocol /\ sealed \in BOOLEAN /\ dec.frags \in Nat
  /\ Whole(View, dec, held, enc)

LEMMA ViewIs == ASSUME NEW x, x = View PROVE IsView(x, dec, enc)
BY DEF View, IsView

LEMMA ViewFields ==
  ASSUME NEW x, NEW d, NEW e, IsView(x, d, e)
  PROVE  x.ns = d.nodes /\ x.dir = e.direct /\ x.src = source /\ x.seal = sealed
BY DEF IsView

(* What a step has to show.                                                *)
LEMMA WholeKeeps ==
  ASSUME DeliverInv, StreamInv', NEW d, NEW q, Decode(d, q), d.frags \in Nat,
         NEW t, t = PassAll([held |-> held, enc |-> enc], q),
         NEW z, IsView(z, d, t.enc), Whole(z, d, t.held, t.enc)
  PROVE  DeliverInv'
<1>1. dec' = d /\ held' = t.held /\ enc' = t.enc /\ source' = source /\ sealed' = sealed
  BY DEF Decode
<1>2. View' = z
  BY <1>1 DEF View, IsView
<1>3. Whole(View', dec', held', enc')
  BY <1>1, <1>2
<1> QED
  BY <1>1, <1>3 DEF DeliverInv

LEMMA OneFrame ==
  ASSUME DeliverInv, StreamInv', NEW d, NEW v, Decode(d, <<v>>), d.frags \in Nat,
         NEW s, s = [held |-> held, enc |-> enc],
         NEW z, IsView(z, d, PassOn(s, v).enc), Whole(z, d, PassOn(s, v).held, PassOn(s, v).enc)
  PROVE  DeliverInv'
<1>1. PICK q : q = <<v>>
  OBVIOUS
<1>2. DOMAIN q = 1 .. 1 /\ q[1] = v
  BY <1>1
<1>3. PassAll(s, q) = PassOn(s, v)
  BY <1>2, PassFew
<1>4. PICK t : t = PassAll(s, q)
  OBVIOUS
<1>5. IsView(z, d, t.enc) /\ Whole(z, d, t.held, t.enc)
  BY <1>3, <1>4
<1>6. Decode(d, q) /\ t = PassAll([held |-> held, enc |-> enc], q)
  BY <1>1, <1>4
<1> QED
  BY ONLY DeliverInv, StreamInv', d.frags \in Nat, <1>5, <1>6, WholeKeeps

(* The answer while it is read.                                            *)
LEMMA WholeNow ==
  ASSUME DeliverInv, NEW p, Reading(p), NEW s, s = [held |-> held, enc |-> enc]
  PROVE  /\ StreamInv /\ dec.st = "reading" /\ DecOk(dec) /\ NodesOk(dec.nodes) /\ Size \in Nat /\ dec.frags \in Nat
         /\ DOMAIN dec.nodes = 1 .. Size /\ Size = Len(dec.nodes) /\ EncInv(s.enc, Size)
         /\ (ShownIn(dec.nodes) # {} => s.enc.sent) /\ source = p /\ sealed \in BOOLEAN
         /\ \E x : /\ IsView(x, dec, s.enc)
                   /\ p = "messages" => MsgWhole(x, dec, s.held, s.enc)
                   /\ p = "chat" => ChatAnswer(x, dec, s.held, s.enc)
<1>1. PICK x : x = View
  OBVIOUS
<1>2. s.held = held /\ s.enc = enc
  OBVIOUS
<1>3. StreamInv /\ dec.frags \in Nat /\ sealed \in BOOLEAN /\ Whole(x, dec, s.held, s.enc)
  BY <1>1, <1>2 DEF DeliverInv
<1>4. IsView(x, dec, s.enc)
  BY <1>1, <1>2, ViewIs
<1>5. source = p
  BY DEF Reading
<1>6. /\ dec.st = "reading" /\ DecOk(dec) /\ NodesOk(dec.nodes) /\ Size \in Nat
      /\ DOMAIN dec.nodes = 1 .. Size /\ Size = Len(dec.nodes) /\ EncInv(enc, Size)
  BY <1>3, ReadingFacts
<1>7. ShownIn(dec.nodes) # {} => s.enc.sent
  BY <1>2, <1>3, <1>6 DEF StreamInv, Ahead
<1>8. (p = "messages" => MsgWhole(x, dec, s.held, s.enc)) /\ (p = "chat" => ChatAnswer(x, dec, s.held, s.enc))
  BY <1>3, <1>4, <1>5, <1>6 DEF Whole, IsView
<1> QED
  BY <1>2, <1>3, <1>4, <1>5, <1>6, <1>7, <1>8

LEMMA FragmentReal == ASSUME dec.frags \in Nat, NEW f, f = Fragment PROVE f # EmptyInput /\ <<f>> # <<EmptyInput>>
<1>1. PICK k : k = dec.frags + 1
  OBVIOUS
<1>2. k # 0
  BY <1>1
<1>3. <<k>> # <<0>>
  BY <1>2
<1>4. f # EmptyInput
  BY <1>1, <1>3 DEF Fragment, EmptyInput
<1> QED
  BY <1>4

-----------------------------------------------------------------------------
(* The steps of a Messages upstream.                                       *)
IsBlockNode(n, kind, f) ==
  n = [NewNode(kind, "") EXCEPT !.text = IF kind = "tool" THEN <<EmptyInput>> ELSE @,
                                !.sig  = IF kind = "redacted" THEN <<f>> ELSE @]

LEMMA BlockNode ==
  ASSUME NEW kind \in Shown, NEW f, f # EmptyInput, NEW n, IsBlockNode(n, kind, f), NEW x
  PROVE  MsgNode(n) /\ NewIn(n, Given(x, n)) /\ (n.kind = "thinking" => n.sig = << >>) /\ n.kind = kind
<1>1. PICK a, b : a = (IF kind = "tool" THEN <<EmptyInput>> ELSE << >>) /\ b = (IF kind = "redacted" THEN <<f>> ELSE << >>)
  OBVIOUS
<1>2. IsNode(n) /\ n.kind = kind /\ n.detail = "" /\ n.text = a /\ n.summary = << >> /\ n.sig = b
  BY <1>1 DEF IsBlockNode, NewNode, NoNode, IsNode
<1>3. /\ IsSeq(a) /\ IsSeq(b) /\ IsSeq(<< >>) /\ << >> # <<EmptyInput>> /\ b # <<EmptyInput>>
      /\ (a = <<EmptyInput>> => kind = "tool") /\ (kind # "redacted" => b = << >>)
      /\ (kind = "tool" => a = <<EmptyInput>>) /\ (kind # "tool" => a = << >>)
  <2>1. IsSeq(<<EmptyInput>>) /\ IsSeq(<<f>>) /\ IsSeq(<< >>) /\ << >> # <<EmptyInput>> /\ <<f>> # <<EmptyInput>>
    BY SeqOne, SeqNone
  <2> QED
    BY <1>1, <2>1
<1>4. NodeFit(n)
  BY <1>2, <1>3 DEF NodeFit
<1>5. n.kind = "thinking" => n.text = << >> /\ n.sig = << >>
  BY <1>2, <1>3
<1>6. MsgNode(n)
  BY <1>2, <1>3, <1>4, <1>5 DEF MsgNode
<1>7. n.kind \in Plain => Streamed(n) = << >>
  BY <1>2, <1>3 DEF Streamed, Plain
<1>8. n.kind = "thinking" => Given(x, n) = << >>
  BY <1>5, GivenNone
<1>9. NewIn(n, Given(x, n))
  BY <1>2, <1>4, <1>5, <1>7, <1>8 DEF NewIn
<1> QED
  BY <1>2, <1>5, <1>6, <1>9

(* The node that is added, and how the others stay.                        *)
Lengthens(new, ns, n, m, i) == m = Len(ns) /\ i = m + 1 /\ new = Append(ns, n)

LEMMA NodesAdded ==
  ASSUME NEW ns, NodesOk(ns), NEW n, IsNode(n), NEW m, NEW i, NEW new, Lengthens(new, ns, n, m, i)
  PROVE  /\ NodesOk(new) /\ m \in Nat /\ Len(new) = i /\ i \in Nat /\ DOMAIN ns = 1 .. m /\ DOMAIN new = 1 .. i
         /\ new[i] = n /\ (\A j \in 1 .. m : new[j] = ns[j]) /\ i \notin 1 .. m /\ i \in 1 .. i
<1> USE DEF Lengthens
<1>1. IsSeq(ns)
  BY DEF NodesOk
<1>2. NodesOk(new) /\ Len(new) = m + 1 /\ m \in Nat
  BY NodeAdded
<1>3. IsSeq(new)
  BY <1>2 DEF NodesOk
<1>4. DOMAIN ns = 1 .. m /\ DOMAIN new = 1 .. i
  BY <1>1, <1>2, <1>3, SeqDomain
<1>5. new[m + 1] = n /\ \A j \in 1 .. m : new[j] = ns[j]
  BY <1>1, AppendedAt
<1>6. i \in Nat /\ i \notin 1 .. m /\ i \in 1 .. i
  BY <1>2
<1> QED
  BY <1>2, <1>4, <1>5, <1>6

LEMMA BlockStartWhole ==
  ASSUME DeliverInv, NEW kind \in Shown, ContentBlockStart(kind) PROVE DeliverInv'
<1>1. PICK f : f = Fragment
  OBVIOUS
<1>2. PICK n : IsBlockNode(n, kind, f)
  BY DEF IsBlockNode
<1>3. PICK m, i, s : m = Size /\ i = Size + 1 /\ s = [held |-> held, enc |-> enc]
  OBVIOUS
<1>4. PICK d, v : /\ d = [dec EXCEPT !.nodes = Append(@, n), !.active = @ \union {i},
                                     !.frags = IF kind = "redacted" THEN @ + 1 ELSE @]
                  /\ v = NodeStartEv(i, n)
  OBVIOUS
<1>5. Reading("messages") /\ Decode(d, <<v>>)
  BY <1>1, <1>2, <1>3, <1>4 DEF ContentBlockStart, IsBlockNode
<1>6. /\ StreamInv /\ dec.st = "reading" /\ DecOk(dec) /\ NodesOk(dec.nodes) /\ Size \in Nat /\ dec.frags \in Nat
      /\ DOMAIN dec.nodes = 1 .. Size /\ Size = Len(dec.nodes) /\ EncInv(s.enc, Size) /\ source = "messages" /\ sealed \in BOOLEAN
  BY ONLY DeliverInv, <1>3, <1>5, WholeNow
<1>7. PICK x : IsView(x, dec, s.enc) /\ MsgWhole(x, dec, s.held, s.enc)
  BY ONLY DeliverInv, <1>3, <1>5, WholeNow
<1>8. f # EmptyInput
  BY <1>1, <1>6, FragmentReal
<1>9. MsgNode(n) /\ NewIn(n, Given(x, n)) /\ (n.kind = "thinking" => n.sig = << >>)
  BY ONLY <1>2, <1>8, kind \in Shown, BlockNode
<1>10. IsNode(n)
  BY <1>9 DEF MsgNode
<1>11. /\ d.nodes = Append(dec.nodes, n) /\ d.st = "reading" /\ d.completed = dec.completed
       /\ d.active = dec.active \union {i} /\ d.frags \in Nat
  BY <1>4, <1>6 DEF DecOk
<1>12. PICK ns, new : ns = dec.nodes /\ new = Append(ns, n)
  OBVIOUS
<1>13. /\ NodesOk(new) /\ m \in Nat /\ Len(new) = i /\ i \in Nat /\ DOMAIN ns = 1 .. m /\ DOMAIN new = 1 .. i
       /\ new[i] = n /\ (\A j \in 1 .. m : new[j] = ns[j]) /\ i \notin 1 .. m /\ i \in 1 .. i
  <2>1. NodesOk(ns) /\ Lengthens(new, ns, n, m, i)
    BY <1>3, <1>6, <1>12 DEF Lengthens
  <2> QED
    BY ONLY <1>10, <2>1, NodesAdded
<1>14. PICK w : w = [ns |-> new, dir |-> DirAfter(s.enc, i, n), src |-> x.src, seal |-> x.seal]
  OBVIOUS
<1>15. w.ns = new /\ w.dir = DirAfter(s.enc, i, n) /\ w.src = x.src /\ w.seal = x.seal
  BY <1>14
<1>16. x.ns = ns /\ x.src = source /\ x.seal = sealed
  BY <1>7, <1>12, ViewFields
<1>24. Adding(x, w, m, i, n)
  BY <1>3, <1>13, <1>15, <1>16 DEF Adding
<1>17. IsStart(v, i, n)
  BY <1>4, StartEvent
<1>25. PICK done : done = dec.completed
  OBVIOUS
<1>18. EncInv(s.enc, m) /\ MsgInv(x, done, s.held, s.enc, m) /\ m \in Nat
  BY <1>3, <1>6, <1>7, <1>25 DEF MsgWhole
<1>19. MsgInv(w, done, PassOn(s, v).held, PassOn(s, v).enc, i)
  BY ONLY <1>9, <1>15, <1>17, <1>18, <1>24, MsgStarts
<1>20. w.dir = PassOn(s, v).enc.direct
  BY ONLY <1>19 DEF MsgInv
<1>21. StreamInv'
  BY <1>6, BlockStartKeeps
<1>22. d.active = DOMAIN d.nodes \ d.completed
  <2>1. dec.active = (1 .. m) \ dec.completed
    BY <1>7, <1>12, <1>13 DEF MsgWhole
  <2>2. dec.completed \subseteq 1 .. m
    BY <1>3, <1>6 DEF DecOk
  <2>3. 1 .. i = (1 .. m) \union {i}
    <3>1. m \in Nat /\ i = m + 1
      BY <1>3, <1>6
    <3> QED
      BY ONLY <3>1
  <2> QED
    BY <1>11, <1>12, <1>13, <2>1, <2>2, <2>3
<1>23. IsView(w, d, PassOn(s, v).enc)
  BY <1>11, <1>12, <1>14, <1>16, <1>20 DEF IsView
<1>26. MsgWhole(w, d, PassOn(s, v).held, PassOn(s, v).enc)
  BY <1>11, <1>12, <1>13, <1>19, <1>22, <1>25 DEF MsgWhole
<1>27. Whole(w, d, PassOn(s, v).held, PassOn(s, v).enc)
  BY <1>6, <1>11, <1>15, <1>16, <1>26 DEF Whole
<1> QED
  BY ONLY DeliverInv, <1>3, <1>5, <1>11, <1>21, <1>23, <1>27, OneFrame

(* One node changes.                                                       *)
Replaces(new, ns, i, n) == new = [ns EXCEPT ![i] = n]

LEMMA NodesReplaced ==
  ASSUME NEW ns, NodesOk(ns), NEW i, i \in DOMAIN ns, NEW n, IsNode(n), n.kind = ns[i].kind, NEW new, Replaces(new, ns, i, n)
  PROVE  /\ NodesOk(new) /\ Len(new) = Len(ns) /\ DOMAIN new = DOMAIN ns
         /\ new[i] = n /\ \A j \in DOMAIN ns : j # i => new[j] = ns[j]
<1>1. NodesOk(new) /\ Len(new) = Len(ns)
  BY NodeChanged DEF Replaces
<1>2. /\ DOMAIN new = DOMAIN ns /\ new[i] = n /\ \A j \in DOMAIN ns : j # i => new[j] = ns[j]
  BY DEF Replaces
<1> QED
  BY <1>1, <1>2

(* The fragment of a block.                                                *)
LEMMA BlockGrows ==
  ASSUME NEW q, MsgNode(q), NEW field \in {"text", "summary", "sig"}, field \in DeltaField(q.kind),
         NEW f, f # EmptyInput, f = Fragment, NEW r, r = WithDelta(q, field), NEW x, x.src = "messages"
  PROVE  MsgNode(r) /\ MayGrow(x, q, field, f) /\ Grew(q, r, field, f) /\ IsNode(q)
<1>1. /\ IsNode(q) /\ NodeFit(q) /\ q.detail = "" /\ (q.text = <<EmptyInput>> => q.kind = "tool")
      /\ (q.kind = "thinking" => q.text = << >>) /\ q.summary # <<EmptyInput>> /\ q.sig # <<EmptyInput>>
  BY DEF MsgNode
<1>2. /\ q.kind \in {"text", "tool", "item", "thinking"}
      /\ (q.kind \in {"text", "tool", "item"} => field = "text")
      /\ (q.kind = "thinking" => field \in {"summary", "sig"})
  <2>1. CASE q.kind \in {"text", "tool", "item"}
    BY <2>1 DEF DeltaField
  <2>2. CASE q.kind \notin {"text", "tool", "item"} /\ q.kind = "thinking"
    BY <2>2 DEF DeltaField
  <2>3. CASE q.kind \notin {"text", "tool", "item"} /\ q.kind # "thinking"
    BY <2>3 DEF DeltaField
  <2> QED
    BY <2>1, <2>2, <2>3
<1>3. IsSeq(q.text) /\ IsSeq(q.summary) /\ IsSeq(q.sig)
  BY <1>1 DEF NodeFit
<1>4. MayGrow(x, q, field, f)
  BY <1>1, <1>2 DEF MayGrow, Plain
<1>5. PICK u : u = IF q[field] = <<EmptyInput>> THEN <<f>> ELSE Append(q[field], f)
  OBVIOUS
<1>6. r = [q EXCEPT ![field] = u]
  BY <1>5 DEF WithDelta
<1>7. /\ IsNode(r) /\ r.kind = q.kind /\ r.detail = q.detail /\ r.text = (IF field = "text" THEN u ELSE q.text)
      /\ r.summary = (IF field = "summary" THEN u ELSE q.summary) /\ r.sig = (IF field = "sig" THEN u ELSE q.sig)
  BY <1>1, <1>6 DEF IsNode
<1>8. IsSeq(q[field])
  BY <1>3
<1>9. q[field] # <<EmptyInput>> => u = q[field] \o <<f>>
  BY <1>5, <1>8, AppendJoins
<1>10. q[field] = <<EmptyInput>> => u = <<f>>
  BY <1>5
<1>11. Grew(q, r, field, f)
  <2>1. CASE field = "text"
    BY <1>7, <1>9, <1>10, <2>1 DEF Grew
  <2>2. CASE field = "summary"
    BY <1>1, <1>7, <1>9, <2>2 DEF Grew
  <2>3. CASE field = "sig"
    BY <1>1, <1>7, <1>9, <2>3 DEF Grew
  <2> QED
    BY <2>1, <2>2, <2>3
<1>12. NodeFit(r) /\ (r.text = <<EmptyInput>> => q.text = <<EmptyInput>> /\ q.kind \in Plain)
  BY <1>4, <1>11, GrewFits
<1>13. /\ (r.kind = "thinking" => r.text = << >>) /\ (r.text = <<EmptyInput>> => r.kind = "tool")
  BY <1>1, <1>2, <1>7, <1>12
<1>14. u # <<EmptyInput>>
  <2>1. q[field] \o <<f>> # <<EmptyInput>>
    BY <1>8, MoreIsSome
  <2>2. <<f>> # <<EmptyInput>>
    OBVIOUS
  <2> QED
    BY <1>9, <1>10, <2>1, <2>2
<1>15. r.summary # <<EmptyInput>> /\ r.sig # <<EmptyInput>>
  BY <1>1, <1>7, <1>14
<1>16. MsgNode(r)
  BY <1>1, <1>7, <1>12, <1>13, <1>15 DEF MsgNode
<1> QED
  BY <1>1, <1>4, <1>11, <1>16

LEMMA BlockDeltaWhole ==
  ASSUME DeliverInv, NEW i \in dec.active, NEW field \in {"text", "summary", "sig"}, ContentBlockDelta(i, field)
  PROVE  DeliverInv'
<1>1. PICK f, ns, q, m, s, b : /\ f = Fragment /\ ns = dec.nodes /\ q = ns[i] /\ m = Size
                              /\ s = [held |-> held, enc |-> enc] /\ b = (field = "summary")
  OBVIOUS
<1>2. PICK r, d, v : /\ r = WithDelta(q, field)
                     /\ d = [dec EXCEPT !.nodes[i] = r, !.frags = @ + 1]
                     /\ v = NodeDeltaEv(i, q, field, f, b)
  OBVIOUS
<1>3. Reading("messages") /\ Decode(d, <<v>>) /\ field \in DeltaField(q.kind)
  BY <1>1, <1>2 DEF ContentBlockDelta
<1>4. /\ StreamInv /\ dec.st = "reading" /\ DecOk(dec) /\ NodesOk(dec.nodes) /\ Size \in Nat /\ dec.frags \in Nat
      /\ DOMAIN dec.nodes = 1 .. Size /\ Size = Len(dec.nodes) /\ EncInv(s.enc, Size) /\ source = "messages" /\ sealed \in BOOLEAN
  BY ONLY DeliverInv, <1>1, <1>3, WholeNow
<1>5. PICK x : IsView(x, dec, s.enc) /\ MsgWhole(x, dec, s.held, s.enc)
  BY ONLY DeliverInv, <1>1, <1>3, WholeNow
<1>6. x.ns = ns /\ x.dir = s.enc.direct /\ x.src = source /\ x.seal = sealed
  BY <1>1, <1>5, ViewFields
<1>7. PICK done : done = dec.completed
  OBVIOUS
<1>8. /\ MsgInv(x, done, s.held, s.enc, m) /\ EncInv(s.enc, m) /\ m \in Nat /\ dec.active = (1 .. m) \ done
      /\ DOMAIN ns = 1 .. m /\ i \in DOMAIN ns \ done
  BY <1>1, <1>4, <1>5, <1>7 DEF MsgWhole
<1>9. MsgNode(q)
  BY <1>1, <1>6, <1>8 DEF MsgInv, MsgNodes
<1>10. f # EmptyInput
  BY <1>1, <1>4, FragmentReal
<1>11. MsgNode(r) /\ MayGrow(x, q, field, f) /\ Grew(q, r, field, f) /\ IsNode(q)
  BY <1>1, <1>2, <1>3, <1>4, <1>6, <1>9, <1>10, BlockGrows
<1>12. IsNode(r) /\ r.kind = q.kind
  BY <1>11 DEF MsgNode, Grew
<1>13. PICK new : Replaces(new, ns, i, r)
  BY DEF Replaces
<1>14. d.nodes = new /\ d.st = "reading" /\ d.completed = dec.completed /\ d.active = dec.active /\ d.frags \in Nat
  BY <1>1, <1>2, <1>4, <1>13 DEF DecOk, Replaces
<1>15. /\ Len(new) = Len(ns) /\ DOMAIN new = DOMAIN ns /\ new[i] = r /\ \A j \in DOMAIN ns : j # i => new[j] = ns[j]
  BY <1>1, <1>4, <1>8, <1>12, <1>13, NodesReplaced
<1>16. PICK w : w = [ns |-> new, dir |-> x.dir, src |-> x.src, seal |-> x.seal]
  OBVIOUS
<1>17. w.ns = new /\ w.dir = x.dir /\ w.src = x.src /\ w.seal = x.seal
  BY <1>16
<1>18. Changing(x, w, m, i)
  BY <1>6, <1>8, <1>15, <1>17 DEF Changing
<1>19. MsgGrows(x, w, done, i, field, f, b)
  BY <1>1, <1>6, <1>8, <1>11, <1>15, <1>17 DEF MsgGrows
<1>20. IsFrag(v, i, q, field, f, b)
  BY <1>2, FragForm
<1>21. MsgInv(w, done, PassOn(s, v).held, PassOn(s, v).enc, m)
  <2>1. q.detail = x.ns[i].detail /\ x.src = source /\ x.seal = sealed
    BY <1>1, <1>6
  <2> QED
    BY ONLY <1>8, <1>18, <1>19, <1>20, <2>1, MsgReads
<1>22. w.dir = PassOn(s, v).enc.direct
  BY ONLY <1>21 DEF MsgInv
<1>23. StreamInv'
  BY <1>4, BlockDeltaKeeps
<1>24. IsView(w, d, PassOn(s, v).enc)
  BY <1>6, <1>14, <1>16, <1>17, <1>22 DEF IsView
<1>25. MsgWhole(w, d, PassOn(s, v).held, PassOn(s, v).enc)
  BY <1>1, <1>4, <1>7, <1>8, <1>14, <1>15, <1>21 DEF MsgWhole
<1>26. Whole(w, d, PassOn(s, v).held, PassOn(s, v).enc)
  BY <1>4, <1>6, <1>14, <1>17, <1>25 DEF Whole
<1> QED
  BY ONLY DeliverInv, <1>1, <1>3, <1>14, <1>23, <1>24, <1>26, OneFrame

LEMMA BlockStopWhole ==
  ASSUME DeliverInv, NEW i \in dec.active, ContentBlockStop(i) PROVE DeliverInv'
<1>1. PICK ns, q, m, s : ns = dec.nodes /\ q = ns[i] /\ m = Size /\ s = [held |-> held, enc |-> enc]
  OBVIOUS
<1>2. PICK d, v : /\ d = [dec EXCEPT !.active = @ \ {i}, !.completed = @ \union {i}] /\ v = NodeDoneEv(i, q)
  OBVIOUS
<1>3. Reading("messages") /\ Decode(d, <<v>>)
  BY <1>1, <1>2 DEF ContentBlockStop
<1>4. /\ StreamInv /\ dec.st = "reading" /\ DecOk(dec) /\ NodesOk(dec.nodes) /\ Size \in Nat /\ dec.frags \in Nat
      /\ DOMAIN dec.nodes = 1 .. Size /\ Size = Len(dec.nodes) /\ EncInv(s.enc, Size) /\ source = "messages" /\ sealed \in BOOLEAN
      /\ (ShownIn(dec.nodes) # {} => s.enc.sent)
  BY ONLY DeliverInv, <1>1, <1>3, WholeNow
<1>5. PICK x : IsView(x, dec, s.enc) /\ MsgWhole(x, dec, s.held, s.enc)
  BY ONLY DeliverInv, <1>1, <1>3, WholeNow
<1>6. x.ns = ns /\ x.dir = s.enc.direct /\ x.src = source /\ x.seal = sealed
  BY <1>1, <1>5, ViewFields
<1>7. PICK done : done = dec.completed
  OBVIOUS
<1>8. /\ MsgInv(x, done, s.held, s.enc, m) /\ EncInv(s.enc, m) /\ m \in Nat /\ dec.active = (1 .. m) \ done
      /\ DOMAIN ns = 1 .. m /\ i \in (1 .. m) \ done
  BY <1>1, <1>4, <1>5, <1>7 DEF MsgWhole
<1>9. IsNode(q)
  BY <1>1, <1>4, <1>8 DEF NodesOk
<1>10. IsEv(v) /\ v.ev = "done" /\ v.i = i /\ v.node = q
  BY <1>2, <1>9, DoneForm
<1>11. v.node = x.ns[i] /\ x.src = source /\ x.seal = sealed
  BY <1>1, <1>6, <1>10
<1>12. NodeEvent(s.enc, v, m)
  BY <1>1, <1>4, <1>8, <1>10 DEF NodeEvent, ShownIn
<1>13. EncInv(PassOn(s, v).enc, m)
  BY ONLY <1>8, <1>10, <1>12, PassKeeps
<1>14. MsgInv(x, done \union {i}, PassOn(s, v).held, PassOn(s, v).enc, m)
  BY ONLY <1>8, <1>10, <1>11, <1>13, MsgStops
<1>15. x.dir = PassOn(s, v).enc.direct
  BY ONLY <1>14 DEF MsgInv
<1>16. /\ d.nodes = ns /\ d.st = "reading" /\ d.completed = done \union {i} /\ d.active = dec.active \ {i} /\ d.frags \in Nat
  BY <1>1, <1>2, <1>4, <1>7 DEF DecOk
<1>17. StreamInv'
  BY <1>4, BlockStopKeeps
<1>18. IsView(x, d, PassOn(s, v).enc)
  BY <1>1, <1>5, <1>6, <1>15, <1>16 DEF IsView
<1>19. MsgWhole(x, d, PassOn(s, v).held, PassOn(s, v).enc)
  BY <1>1, <1>4, <1>8, <1>14, <1>16 DEF MsgWhole
<1>20. Whole(x, d, PassOn(s, v).held, PassOn(s, v).enc)
  BY <1>4, <1>6, <1>16, <1>19 DEF Whole
<1> QED
  BY ONLY DeliverInv, <1>1, <1>3, <1>16, <1>17, <1>18, <1>20, OneFrame

LEMMA MessageStopWhole == ASSUME DeliverInv, MessageStop PROVE DeliverInv'
<1>1. PICK ns, m, s, o : ns = dec.nodes /\ m = Size /\ s = [held |-> held, enc |-> enc] /\ o = OrderedCompletedNodes
  OBVIOUS
<1>2. PICK d, v : d = [dec EXCEPT !.st = "ended"] /\ v = ResponseDoneEv(o)
  OBVIOUS
<1>3. Reading("messages") /\ Decode(d, <<v>>)
  BY <1>1, <1>2 DEF MessageStop
<1>4. /\ StreamInv /\ dec.st = "reading" /\ DecOk(dec) /\ NodesOk(dec.nodes) /\ Size \in Nat /\ dec.frags \in Nat
      /\ DOMAIN dec.nodes = 1 .. Size /\ Size = Len(dec.nodes) /\ EncInv(s.enc, Size) /\ source = "messages" /\ sealed \in BOOLEAN
  BY ONLY DeliverInv, <1>1, <1>3, WholeNow
<1>5. PICK x : IsView(x, dec, s.enc) /\ MsgWhole(x, dec, s.held, s.enc)
  BY ONLY DeliverInv, <1>1, <1>3, WholeNow
<1>6. x.ns = ns /\ x.dir = s.enc.direct /\ x.src = source /\ x.seal = sealed
  BY <1>1, <1>5, ViewFields
<1>7. PICK done : done = dec.completed
  OBVIOUS
<1>8. MsgInv(x, done, s.held, s.enc, m) /\ EncInv(s.enc, m) /\ m \in Nat /\ DOMAIN ns = 1 .. m /\ done \subseteq 1 .. m
  BY <1>1, <1>4, <1>5, <1>7 DEF MsgWhole, DecOk
<1>9. /\ d.nodes = ns /\ d.st = "ended" /\ d.completed = done /\ d.frags \in Nat
  BY <1>1, <1>2, <1>4, <1>7 DEF DecOk
<1>10. Within(done, m)
  BY <1>8 DEF Within
<1>11. o = InOrder(ns, done)
  BY <1>1, <1>7 DEF OrderedCompletedNodes
<1>12. IsSeq(o) /\ \A k \in 1 .. Len(o) : \E i \in done : o[k] = ns[i]
  BY <1>10, <1>11, OrderFrom
<1>13. PICK n : n = Len(o) /\ n \in Nat /\ DOMAIN o = 1 .. n
  BY <1>12, SeqDomain
<1>14. IsEv(v) /\ v.ev = "finish" /\ v.out = o
  BY <1>2, FinishForm
<1>15. DOMAIN v.out = 1 .. n /\ \A j \in DOMAIN v.out : \E i \in 1 .. m : v.out[j] = x.ns[i]
  BY <1>6, <1>8, <1>12, <1>13, <1>14
<1>16. StreamInv'
  BY <1>4, MessageStopKeeps
<1>17. PICK t : t = PassOn(s, v)
  OBVIOUS
<1>18. PICK w : w = [ns |-> ns, dir |-> t.enc.direct, src |-> source, seal |-> sealed]
  OBVIOUS
<1>19. IsView(w, d, t.enc)
  BY <1>9, <1>18 DEF IsView
<1>20. ASSUME d.completed = DOMAIN d.nodes PROVE ToldAll(w, t.enc.client.blocks)
  <2>1. done = 1 .. m
    BY <1>8, <1>9, <1>20
  <2>2. MsgInv(x, 1 .. m, s.held, s.enc, m)
    BY <1>8, <2>1
  <2>3. PassOn(s, v).enc.direct = x.dir /\ ToldAll(x, PassOn(s, v).enc.client.blocks)
    BY ONLY <1>8, <1>13, <1>14, <1>15, <2>2, MsgTold
  <2>4. x = w
    BY <1>1, <1>5, <1>6, <1>17, <1>18, <2>3 DEF IsView
  <2> QED
    BY <1>17, <2>3, <2>4
<1>21. Whole(w, d, t.held, t.enc)
  BY <1>9, <1>20 DEF Whole
<1>22. IsView(w, d, PassOn(s, v).enc) /\ Whole(w, d, PassOn(s, v).held, PassOn(s, v).enc)
  BY <1>17, <1>19, <1>21
<1> QED
  BY ONLY DeliverInv, <1>1, <1>3, <1>9, <1>16, <1>22, OneFrame

-----------------------------------------------------------------------------
(* The steps of a Chat upstream while it is read.                          *)
Shows(w, new, x, e) == w = [ns |-> new, dir |-> e.direct, src |-> x.src, seal |-> x.seal]

LEMMA ShowsFields ==
  ASSUME NEW w, NEW new, NEW x, NEW e, Shows(w, new, x, e)
  PROVE  w.ns = new /\ w.dir = e.direct /\ w.src = x.src /\ w.seal = x.seal
BY DEF Shows

LEMMA FullFrom ==
  ASSUME NEW x, NEW h, NEW e, NEW m, ChatBase(x, h, e, m), \A i \in 1 .. m : ChatWhole(x.ns[i])
  PROVE  ChatFull(x, m)
BY DEF ChatBase, ChatFull, ChatOrder

(* A node that is new and of which nothing is known.                       *)
Blank(n) == ChatNode(n) /\ n.text = << >> /\ n.summary = << >> /\ n.sig = << >>

LEMMA ChatAdds ==
  ASSUME NEW m \in Nat, NEW s, EncInv(s.enc, m), NEW x, ChatBase(x, s.held, s.enc, m), NodesOk(x.ns),
         NEW n, Blank(n), NEW i, NEW new, Lengthens(new, x.ns, n, m, i), NEW v, IsStart(v, i, n),
         NEW w, Shows(w, new, x, PassOn(s, v).enc)
  PROVE  /\ ChatBase(w, PassOn(s, v).held, PassOn(s, v).enc, i) /\ EncInv(PassOn(s, v).enc, i)
         /\ Adding(x, w, m, i, n)
<1>1. ChatNode(n) /\ n.text = << >> /\ n.summary = << >> /\ n.sig = << >> /\ IsNode(n)
  BY DEF Blank, ChatNode
<1>2. PICK ns : ns = x.ns
  OBVIOUS
<1>3. /\ Len(new) = i /\ i \in Nat /\ DOMAIN ns = 1 .. m /\ DOMAIN new = 1 .. i
      /\ new[i] = n /\ (\A j \in 1 .. m : new[j] = ns[j])
  <2>1. NodesOk(ns) /\ Lengthens(new, ns, n, m, i)
    BY <1>2
  <2> QED
    BY ONLY <1>1, <2>1, NodesAdded
<1>4. PICK y : y = [ns |-> new, dir |-> DirAfter(s.enc, i, n), src |-> x.src, seal |-> x.seal]
  OBVIOUS
<1>5. y.ns = new /\ y.dir = DirAfter(s.enc, i, n) /\ y.src = x.src /\ y.seal = x.seal
  BY <1>4
<1>6. i = m + 1
  BY DEF Lengthens
<1>7. Adding(x, y, m, i, n)
  BY <1>2, <1>3, <1>5, <1>6 DEF Adding
<1>8. ChatBase(y, PassOn(s, v).held, PassOn(s, v).enc, i)
  <2>1. /\ m \in Nat /\ EncInv(s.enc, m) /\ ChatBase(x, s.held, s.enc, m) /\ IsStart(v, i, n)
    OBVIOUS
  <2> QED
    BY ONLY <1>1, <1>5, <1>7, <2>1, ChatStarts
<1>9. y.dir = PassOn(s, v).enc.direct
  BY ONLY <1>8 DEF ChatBase
<1>10. w = y
  BY <1>4, <1>5, <1>9 DEF Shows
<1>11. EncInv(PassOn(s, v).enc, m + 1)
  <2>1. IsEv(v) /\ v.ev = "start" /\ v.i = m + 1
    BY <1>6 DEF IsStart
  <2>2. m \in Nat /\ EncInv(s.enc, m)
    OBVIOUS
  <2> QED
    BY ONLY <2>1, <2>2, PassStart
<1> QED
  BY <1>6, <1>7, <1>8, <1>10, <1>11

(* A fragment of a node that has started.                                  *)
Real(f) == f # EmptyInput

Takes(q, r, field, f) == r = [q EXCEPT ![field] = Append(q[field], f)]

Fitting(q, field) ==
  /\ field \in {"text", "summary", "sig"} /\ q.kind \in {"text", "tool", "thinking"}
  /\ (q.kind # "thinking" => field = "text")
  /\ (q.detail = "text" => field = "text") /\ (q.detail = "encrypted" => field = "sig" /\ q.sig = << >>)

LEMMA NodeTakes ==
  ASSUME NEW q, ChatNode(q), NEW field, NEW f, Real(f), Fitting(q, field), NEW r, Takes(q, r, field, f),
         NEW x, x.src = "chat"
  PROVE  /\ ChatNode(r) /\ MayGrow(x, q, field, f) /\ Grew(q, r, field, f) /\ r.kind = q.kind /\ r.detail = q.detail
         /\ (field # "text" => r.text = q.text) /\ (field # "summary" => r.summary = q.summary)
         /\ (field # "sig" => r.sig = q.sig) /\ (field = "text" => r.text # << >>) /\ (field = "sig" => r.sig # << >>)
<1>1. /\ IsNode(q) /\ IsSeq(q.text) /\ IsSeq(q.summary) /\ IsSeq(q.sig) /\ q.text # <<EmptyInput>>
      /\ (q.kind # "thinking" => q.detail = "" /\ q.summary = << >>)
  BY DEF ChatNode
<1>2. /\ field \in {"text", "summary", "sig"} /\ q.kind \in {"text", "tool", "thinking"}
      /\ (q.kind # "thinking" => field = "text")
      /\ (q.detail = "encrypted" => q.sig = << >>)
  BY DEF Fitting
<1>3. q.kind \in Shown
  BY <1>2 DEF Shown, Reasoning
<1>4. NodeFit(q)
  BY <1>3, ChatFits
<1>5. MayGrow(x, q, field, f)
  BY <1>1, <1>2, <1>4 DEF MayGrow, Plain, Real
<1>6. IsSeq(q[field])
  BY <1>1, <1>2
<1>7. PICK u : u = Append(q[field], f)
  OBVIOUS
<1>8. u = q[field] \o <<f>>
  BY <1>6, <1>7, AppendJoins
<1>9. r = [q EXCEPT ![field] = u]
  BY <1>7 DEF Takes
<1>10. /\ IsNode(r) /\ r.kind = q.kind /\ r.detail = q.detail /\ r.text = (IF field = "text" THEN u ELSE q.text)
       /\ r.summary = (IF field = "summary" THEN u ELSE q.summary) /\ r.sig = (IF field = "sig" THEN u ELSE q.sig)
  BY <1>1, <1>2, <1>9 DEF IsNode
<1>11. Grew(q, r, field, f)
  BY <1>1, <1>2, <1>8, <1>10 DEF Grew
<1>12. u # << >> /\ u # <<EmptyInput>> /\ IsSeq(u)
  BY <1>6, <1>8, MoreIsSome DEF Real
<1>13. ChatNode(r)
  BY <1>1, <1>2, <1>10, <1>12 DEF ChatNode
<1> QED
  BY <1>5, <1>10, <1>11, <1>12, <1>13

SameDetail(n, q) == n.detail = q.detail

Unmarked(b) == b = FALSE

Taking(m, s, x, i, q, field, f, r, new) ==
  /\ m \in Nat /\ EncInv(s.enc, m) /\ ChatBase(x, s.held, s.enc, m) /\ NodesOk(x.ns)
  /\ x.src = source /\ x.seal = sealed /\ IsAt(x, i, q) /\ i \in DOMAIN x.ns
  /\ Real(f) /\ Fitting(q, field) /\ Takes(q, r, field, f) /\ Replaces(new, x.ns, i, r)

LEMMA ChatTakes ==
  ASSUME NEW m, NEW s, NEW x, NEW i, NEW q, NEW field, NEW f, NEW r, NEW new, Taking(m, s, x, i, q, field, f, r, new),
         NEW n, SameDetail(n, q), NEW v, NEW b, Unmarked(b), IsFrag(v, i, n, field, f, b),
         NEW w, Shows(w, new, x, PassOn(s, v).enc)
  PROVE  ChatBase(w, PassOn(s, v).held, PassOn(s, v).enc, m) /\ Changing(x, w, m, i) /\ w.ns[i] = r
<1>0. /\ m \in Nat /\ EncInv(s.enc, m) /\ ChatBase(x, s.held, s.enc, m) /\ NodesOk(x.ns)
      /\ x.src = source /\ x.seal = sealed /\ IsAt(x, i, q) /\ i \in DOMAIN x.ns
      /\ Real(f) /\ Fitting(q, field) /\ Takes(q, r, field, f) /\ Replaces(new, x.ns, i, r)
  BY DEF Taking
<1>1. PICK ns : ns = x.ns
  OBVIOUS
<1>2. q = ns[i] /\ i \in DOMAIN ns /\ x.src = "chat" /\ DOMAIN ns = 1 .. m /\ ChatNode(q)
  BY <1>0, <1>1 DEF IsAt, ChatBase, ChatNodes
<1>3. ChatNode(r) /\ MayGrow(x, q, field, f) /\ Grew(q, r, field, f) /\ r.kind = q.kind
  BY <1>0, <1>2, NodeTakes
<1>4. IsNode(r) /\ NodesOk(ns) /\ Replaces(new, ns, i, r) /\ r.kind = ns[i].kind
  BY <1>0, <1>1, <1>2, <1>3 DEF ChatNode
<1>5. DOMAIN new = DOMAIN ns /\ new[i] = r /\ \A j \in DOMAIN ns : j # i => new[j] = ns[j]
  <2>1. i \in DOMAIN ns
    BY <1>2
  <2> QED
    BY ONLY <1>4, <2>1, NodesReplaced
<1>6. PICK y : y = [ns |-> new, dir |-> x.dir, src |-> x.src, seal |-> x.seal]
  OBVIOUS
<1>7. y.ns = new /\ y.dir = x.dir /\ y.src = x.src /\ y.seal = x.seal
  BY <1>6
<1>8. Changing(x, y, m, i)
  BY <1>1, <1>2, <1>5, <1>7 DEF Changing
<1>9. q.kind \in Shown
  BY <1>0 DEF Fitting, Shown, Reasoning
<1>10. i \in ShownIn(x.ns)
  BY <1>1, <1>2, <1>9 DEF ShownIn
<1>11. ChatGrows(x, y, i, field, f)
  BY <1>1, <1>2, <1>3, <1>5, <1>7, <1>10 DEF ChatGrows
<1>12. ChatBase(y, PassOn(s, v).held, PassOn(s, v).enc, m)
  <2>1. /\ m \in Nat /\ EncInv(s.enc, m) /\ ChatBase(x, s.held, s.enc, m) /\ x.src = source /\ x.seal = sealed
        /\ b = FALSE /\ IsFrag(v, i, n, field, f, b) /\ n.detail = x.ns[i].detail
    BY <1>0, <1>1, <1>2 DEF SameDetail, Unmarked
  <2> QED
    BY ONLY <1>8, <1>11, <2>1, ChatReads
<1>13. y.dir = PassOn(s, v).enc.direct
  BY ONLY <1>12 DEF ChatBase
<1>14. w = y
  BY <1>6, <1>7, <1>13 DEF Shows
<1> QED
  BY <1>5, <1>7, <1>8, <1>12, <1>14

LEMMA TakesWhole ==
  ASSUME NEW q, ChatNode(q), NEW field, NEW f, Real(f), Fitting(q, field), NEW r, Takes(q, r, field, f),
         q.detail = "" \/ Blank(q)
  PROVE  ChatWhole(r) /\ r.kind = q.kind /\ r.detail = q.detail
<1>1. PICK x : x = [src |-> "chat"]
  OBVIOUS
<1>2. x.src = "chat"
  BY <1>1
<1>3. /\ ChatNode(r) /\ MayGrow(x, q, field, f) /\ Grew(q, r, field, f) /\ r.kind = q.kind /\ r.detail = q.detail
      /\ (field # "text" => r.text = q.text) /\ (field # "summary" => r.summary = q.summary)
      /\ (field # "sig" => r.sig = q.sig) /\ (field = "text" => r.text # << >>) /\ (field = "sig" => r.sig # << >>)
  BY ONLY ChatNode(q), Real(f), Fitting(q, field), Takes(q, r, field, f), <1>2, NodeTakes
<1>4. /\ (q.detail = "text" => field = "text") /\ (q.detail = "encrypted" => field = "sig")
  BY DEF Fitting
<1>5. q.detail # "" => q.text = << >> /\ q.summary = << >> /\ q.sig = << >>
  BY DEF Blank
<1> QED
  BY <1>3, <1>4, <1>5 DEF ChatWhole

(* The slots of the decoder after a fragment of node i.                    *)
SlotsKept(d, u, i, n) ==
  /\ u.textAt = d.textAt \/ (u.textAt = i /\ n.kind = "text")
  /\ u.reasonAt = d.reasonAt \/ (u.reasonAt = i /\ n.kind = "thinking" /\ n.detail = "")

LEMMA SlotsStay ==
  ASSUME NEW m, NEW d, Slots(d), d.textAt \in 0 .. m, d.reasonAt \in 0 .. m, NEW n, NEW i, NEW u, SlotsKept(d, u, i, n),
         \A j \in 1 .. m : u.nodes[j].kind = d.nodes[j].kind /\ u.nodes[j].detail = d.nodes[j].detail,
         u.nodes[i].kind = n.kind, u.nodes[i].detail = n.detail, m \in Nat
  PROVE  Slots(u)
<1>1. d.textAt # 0 => d.textAt \in 1 .. m
  OBVIOUS
<1>2. d.reasonAt # 0 => d.reasonAt \in 1 .. m
  OBVIOUS
<1> QED
  BY <1>1, <1>2 DEF Slots, SlotsKept

(* The node of a fragment is new, or has its kind.                         *)
Meets(i, n, field) ==
  /\ Blank(n) /\ Fitting(n, field)
  /\ i = Size + 1 \/ /\ i \in 1 .. Size /\ n.detail = ""
                     /\ dec.nodes[i].kind = n.kind /\ dec.nodes[i].detail = n.detail

LEMMA FragmentWhole ==
  ASSUME DeliverInv, StreamInv', Reading("chat"), NEW i, NEW n, NEW field, Meets(i, n, field),
         NEW d, DOMAIN d = DOMAIN dec, d.st = "reading", d.nodes = dec.nodes, d.frags = dec.frags,
         SlotsKept(dec, d, i, n), ChatFragment(i, n, field, d)
  PROVE  DeliverInv'
<1>1. PICK m, old, f, s, b : m = Size /\ old = dec.nodes /\ f = Fragment /\ s = [held |-> held, enc |-> enc] /\ b = FALSE
  OBVIOUS
<1>2. PICK ns : ns = IF i > m THEN Append(old, n) ELSE old
  OBVIOUS
<1>3. PICK r : Takes(ns[i], r, field, f)
  BY DEF Takes
<1>4. PICK new : Replaces(new, ns, i, r)
  BY DEF Replaces
<1>5. PICK u : u = [d EXCEPT !.nodes = new, !.frags = @ + 1]
  OBVIOUS
<1>6. PICK v, w : v = NodeStartEv(i, n) /\ w = NodeDeltaEv(i, n, field, f, b)
  OBVIOUS
<1>7. PICK q : q = IF i > m THEN <<v, w>> ELSE <<w>>
  OBVIOUS
<1>8. Decode(u, q)
  <2>1. Decode([d EXCEPT !.nodes = [ns EXCEPT ![i][field] = Append(@, Fragment)], !.frags = @ + 1],
               (IF i > m THEN <<v>> ELSE <<>>) \o <<w>>)
    BY <1>1, <1>2, <1>6 DEF ChatFragment
  <2>2. [ns EXCEPT ![i][field] = Append(@, Fragment)] = new
    BY <1>1, <1>3, <1>4 DEF Takes, Replaces
  <2>3. (IF i > m THEN <<v>> ELSE <<>>) \o <<w>> = q
    <3>1. <<v>> \o <<w>> = <<v, w>> /\ << >> \o <<w>> = <<w>>
      BY Joined
    <3> QED
      BY <1>7, <3>1
  <2> QED
    BY <1>5, <2>1, <2>2, <2>3
<1>9. /\ StreamInv /\ dec.st = "reading" /\ DecOk(dec) /\ NodesOk(dec.nodes) /\ Size \in Nat /\ dec.frags \in Nat
      /\ DOMAIN dec.nodes = 1 .. Size /\ Size = Len(dec.nodes) /\ EncInv(s.enc, Size) /\ source = "chat" /\ sealed \in BOOLEAN
  BY ONLY DeliverInv, Reading("chat"), <1>1, WholeNow
<1>10. PICK x : IsView(x, dec, s.enc) /\ ChatAnswer(x, dec, s.held, s.enc)
  BY ONLY DeliverInv, Reading("chat"), <1>1, WholeNow
<1>11. x.ns = old /\ x.dir = s.enc.direct /\ x.src = source /\ x.seal = sealed
  BY <1>1, <1>10, ViewFields
<1>12. /\ ChatFull(x, m) /\ ChatBase(x, s.held, s.enc, m) /\ Slots(dec) /\ EncInv(s.enc, m) /\ m \in Nat
       /\ NodesOk(old) /\ DOMAIN old = 1 .. m /\ m = Len(old) /\ NodesOk(x.ns)
       /\ dec.textAt \in 0 .. m /\ dec.reasonAt \in 0 .. m
  BY <1>1, <1>9, <1>10, <1>11 DEF ChatAnswer, DecOk
<1>13. \A j \in 1 .. m : ChatNode(old[j]) /\ ChatWhole(old[j])
  BY <1>11, <1>12 DEF ChatFull, ChatNodes
<1>14. Real(f)
  BY <1>1, <1>9, FragmentReal DEF Real
<1>15. IsFrag(w, i, n, field, f, b)
  <2>1. field \in {"text", "summary", "sig"}
    BY DEF Meets, Fitting
  <2> QED
    BY <1>6, <2>1, FragForm
<1>16. IsStart(v, i, n)
  BY <1>6, StartEvent
<1>17. /\ u.nodes = new /\ u.st = "reading" /\ u.frags \in Nat /\ u.textAt = d.textAt /\ u.reasonAt = d.reasonAt
  BY <1>5, <1>9 DEF DecOk
<1>18. SlotsKept(dec, u, i, n)
  BY <1>17 DEF SlotsKept
<1>19. Blank(n) /\ Fitting(n, field)
  BY DEF Meets
<1>20. CASE i = m + 1
  <2>1. i > m /\ ~(i <= m)
    BY <1>12, <1>20
  <2>2. ns = Append(old, n) /\ q = <<v, w>>
    BY <1>2, <1>7, <2>1
  <2>3. Lengthens(ns, old, n, m, i)
    BY <1>12, <1>20, <2>2 DEF Lengthens
  <2>4. IsNode(n)
    BY <1>19 DEF Blank, ChatNode
  <2>5. /\ NodesOk(ns) /\ Len(ns) = i /\ i \in Nat /\ DOMAIN ns = 1 .. i
        /\ ns[i] = n /\ (\A j \in 1 .. m : ns[j] = old[j]) /\ i \notin 1 .. m /\ i \in 1 .. i
    BY ONLY <1>12, <2>3, <2>4, NodesAdded
  <2>6. PICK t : t = PassOn(s, v)
    OBVIOUS
  <2>7. PICK y : Shows(y, ns, x, PassOn(s, v).enc)
    BY DEF Shows
  <2>8. /\ ChatBase(y, PassOn(s, v).held, PassOn(s, v).enc, i) /\ EncInv(PassOn(s, v).enc, i) /\ Adding(x, y, m, i, n)
    <3>1. Lengthens(ns, x.ns, n, m, i)
      BY <1>11, <2>3
    <3> QED
      BY ONLY <1>12, <1>16, <1>19, <2>7, <3>1, ChatAdds
  <2>9. y.ns = ns /\ y.src = x.src /\ y.seal = x.seal
    BY ONLY <2>7, ShowsFields
  <2>10. PICK z : Shows(z, new, y, PassOn(t, w).enc)
    BY DEF Shows
  <2>11. /\ i \in Nat /\ ChatBase(y, t.held, t.enc, i) /\ EncInv(t.enc, i) /\ y.src = source /\ y.seal = sealed /\ IsAt(y, i, n)
         /\ i \in DOMAIN y.ns /\ NodesOk(y.ns) /\ Replaces(new, y.ns, i, r) /\ Takes(n, r, field, f)
    BY <1>3, <1>4, <1>11, <2>5, <2>6, <2>8, <2>9 DEF IsAt
  <2>12. ChatBase(z, PassOn(t, w).held, PassOn(t, w).enc, i) /\ Changing(y, z, i, i) /\ z.ns[i] = r
    <3>1. SameDetail(n, n) /\ Unmarked(b)
      BY <1>1 DEF SameDetail, Unmarked
    <3>2. Taking(i, t, y, i, n, field, f, r, new)
      BY <1>14, <1>19, <2>11 DEF Taking
    <3> QED
      BY ONLY <1>15, <2>10, <3>1, <3>2, ChatTakes
  <2>13. z.ns = new
    BY ONLY <2>10, ShowsFields
  <2>14. ChatWhole(r) /\ r.kind = n.kind /\ r.detail = n.detail
    <3>1. ChatNode(n) /\ (n.detail = "" \/ Blank(n))
      BY <1>19 DEF Blank
    <3> QED
      BY ONLY <1>14, <1>19, <2>11, <3>1, TakesWhole
  <2>15. \A j \in 1 .. m : new[j] = old[j]
    <3> SUFFICES ASSUME NEW j \in 1 .. m PROVE new[j] = old[j]
      OBVIOUS
    <3>1. j # i /\ j \in 1 .. i
      BY <1>12, <1>20
    <3>2. z.ns[j] = y.ns[j]
      BY <2>12, <3>1 DEF Changing
    <3> QED
      BY <2>5, <2>9, <2>13, <3>2
  <2>16. \A j \in 1 .. i : ChatWhole(z.ns[j])
    <3> SUFFICES ASSUME NEW j \in 1 .. i PROVE ChatWhole(z.ns[j])
      OBVIOUS
    <3>1. CASE j = i
      BY <2>12, <2>14, <3>1
    <3>2. CASE j # i
      <4>1. j \in 1 .. m
        BY <1>12, <1>20, <3>2
      <4> QED
        BY <1>13, <2>13, <2>15, <4>1
    <3> QED
      BY <3>1, <3>2
  <2>17. ChatFull(z, i)
    BY ONLY <2>12, <2>16, FullFrom
  <2>18. Slots(u)
    <3>1. /\ \A j \in 1 .. m : u.nodes[j].kind = dec.nodes[j].kind /\ u.nodes[j].detail = dec.nodes[j].detail
      BY <1>1, <1>17, <2>15
    <3>2. u.nodes[i].kind = n.kind /\ u.nodes[i].detail = n.detail
      BY <1>17, <2>12, <2>13, <2>14
    <3> QED
      BY ONLY <1>12, <1>18, <3>1, <3>2, SlotsStay
  <2>19. Len(u.nodes) = i
    <3>1. NodesOk(ns) /\ i \in DOMAIN ns /\ r.kind = ns[i].kind /\ IsNode(r)
      BY <2>5, <2>12, <2>14 DEF ChatBase, ChatNodes, ChatNode
    <3>2. Len(new) = Len(ns)
      BY ONLY <1>4, <3>1, NodesReplaced
    <3> QED
      BY <1>17, <2>5, <3>2
  <2>20. PICK a : a = PassAll(s, q)
    OBVIOUS
  <2>21. a = PassOn(t, w)
    <3>1. DOMAIN q = 1 .. 2 /\ q[1] = v /\ q[2] = w
      BY <2>2
    <3> QED
      BY <2>6, <2>20, <3>1, PassFew
  <2>22. ChatAnswer(z, u, a.held, a.enc)
    BY <2>12, <2>17, <2>18, <2>19, <2>21 DEF ChatAnswer
  <2>23. z.src = "chat"
    BY <2>12 DEF ChatBase, ChatNodes
  <2>24. Whole(z, u, a.held, a.enc)
    BY <1>17, <2>22, <2>23 DEF Whole
  <2>25. IsView(z, u, a.enc)
    BY <1>17, <2>10, <2>11, <2>21 DEF Shows, IsView
  <2> QED
    BY <1>1, <1>8, <1>17, <2>20, <2>24, <2>25, WholeKeeps
<1>21. CASE i # m + 1
  <2>1. i \in 1 .. m /\ n.detail = "" /\ old[i].kind = n.kind /\ old[i].detail = n.detail
    BY <1>1, <1>21 DEF Meets
  <2>2. ~(i > m)
    <3>1. m \in Nat /\ i \in 1 .. m
      BY <1>12, <2>1
    <3> QED
      BY ONLY <3>1
  <2>3. ns = old /\ q = <<w>>
    BY <1>2, <1>7, <2>2
  <2>4. PICK o : IsAt(x, i, o)
    BY DEF IsAt
  <2>5. o = old[i] /\ ChatNode(o)
    BY <1>11, <1>13, <2>1, <2>4 DEF IsAt
  <2>6. Fitting(o, field) /\ Takes(o, r, field, f) /\ n.detail = o.detail /\ o.detail = ""
    <3>1. o.kind = n.kind /\ o.detail = "" /\ n.detail = ""
      BY <2>1, <2>5
    <3>2. Fitting(o, field)
      BY <1>19, <3>1 DEF Fitting
    <3> QED
      BY <1>3, <2>3, <2>5, <3>1, <3>2
  <2>7. PICK z : Shows(z, new, x, PassOn(s, w).enc)
    BY DEF Shows
  <2>8. ChatBase(z, PassOn(s, w).held, PassOn(s, w).enc, m) /\ Changing(x, z, m, i) /\ z.ns[i] = r
    <3>1. /\ x.src = source /\ x.seal = sealed /\ i \in DOMAIN x.ns /\ Replaces(new, x.ns, i, r) /\ Unmarked(b)
      BY <1>1, <1>4, <1>11, <1>12, <2>1, <2>3 DEF Unmarked
    <3>2. SameDetail(n, o) /\ Fitting(o, field) /\ Takes(o, r, field, f)
      BY <2>6 DEF SameDetail
    <3>3. Taking(m, s, x, i, o, field, f, r, new)
      BY <1>12, <1>14, <2>4, <3>1, <3>2 DEF Taking
    <3>4. Unmarked(b)
      BY <3>1
    <3> QED
      BY ONLY <1>15, <2>7, <3>2, <3>3, <3>4, ChatTakes
  <2>9. z.ns = new
    BY ONLY <2>7, ShowsFields
  <2>10. ChatWhole(r) /\ r.kind = o.kind /\ r.detail = o.detail
    <3>1. ChatNode(o) /\ Fitting(o, field) /\ Takes(o, r, field, f) /\ (o.detail = "" \/ Blank(o))
      BY <2>5, <2>6
    <3> QED
      BY ONLY <1>14, <3>1, TakesWhole
  <2>11. \A j \in 1 .. m : j # i => new[j] = old[j]
    BY <1>11, <2>8, <2>9 DEF Changing
  <2>12. \A j \in 1 .. m : ChatWhole(z.ns[j])
    <3> SUFFICES ASSUME NEW j \in 1 .. m PROVE ChatWhole(z.ns[j])
      OBVIOUS
    <3>1. CASE j = i
      BY <2>8, <2>10, <3>1
    <3>2. CASE j # i
      BY <1>13, <2>9, <2>11, <3>2
    <3> QED
      BY <3>1, <3>2
  <2>13. ChatFull(z, m)
    BY ONLY <2>8, <2>12, FullFrom
  <2>14. u.nodes[i].kind = n.kind /\ u.nodes[i].detail = n.detail
    BY <1>17, <2>1, <2>5, <2>8, <2>9, <2>10
  <2>15. Slots(u)
    <3>1. \A j \in 1 .. m : u.nodes[j].kind = dec.nodes[j].kind /\ u.nodes[j].detail = dec.nodes[j].detail
      <4> SUFFICES ASSUME NEW j \in 1 .. m
                   PROVE  u.nodes[j].kind = dec.nodes[j].kind /\ u.nodes[j].detail = dec.nodes[j].detail
        OBVIOUS
      <4>1. CASE j = i
        BY <1>1, <2>1, <2>14, <4>1
      <4>2. CASE j # i
        BY <1>1, <1>17, <2>11, <4>2
      <4> QED
        BY <4>1, <4>2
    <3> QED
      BY ONLY <1>12, <1>18, <2>14, <3>1, SlotsStay
  <2>16. Len(u.nodes) = m
    <3>1. NodesOk(ns) /\ i \in DOMAIN ns /\ r.kind = ns[i].kind /\ IsNode(r)
      BY <1>12, <2>1, <2>3, <2>5, <2>8, <2>10 DEF ChatBase, ChatNodes, ChatNode
    <3>2. Len(new) = Len(ns)
      BY ONLY <1>4, <3>1, NodesReplaced
    <3> QED
      BY <1>12, <1>17, <2>3, <3>2
  <2>17. PICK a : a = PassAll(s, q)
    OBVIOUS
  <2>18. a = PassOn(s, w)
    <3>1. DOMAIN q = 1 .. 1 /\ q[1] = w
      BY <2>3
    <3> QED
      BY <2>17, <3>1, PassFew
  <2>19. ChatAnswer(z, u, a.held, a.enc)
    BY <2>8, <2>13, <2>15, <2>16, <2>18 DEF ChatAnswer
  <2>20. z.src = "chat"
    BY <2>8 DEF ChatBase, ChatNodes
  <2>21. Whole(z, u, a.held, a.enc)
    BY <1>17, <2>19, <2>20 DEF Whole
  <2>22. IsView(z, u, a.enc)
    BY <1>11, <1>17, <2>7, <2>18 DEF Shows, IsView
  <2> QED
    BY <1>1, <1>8, <1>17, <2>17, <2>21, <2>22, WholeKeeps
<1> QED
  BY <1>20, <1>21

-----------------------------------------------------------------------------
LEMMA BlankNodes ==
  ASSUME NEW kind, kind \in {"text", "tool", "thinking", "other"}, NEW detail, kind = "thinking" \/ detail = ""
  PROVE  /\ Blank(NewNode(kind, detail)) /\ NewNode(kind, detail).kind = kind /\ NewNode(kind, detail).detail = detail
<1>0. PICK n : n = NewNode(kind, detail)
  OBVIOUS
<1>1. IsNode(n) /\ n.kind = kind /\ n.detail = detail /\ n.text = << >> /\ n.summary = << >> /\ n.sig = << >>
  BY <1>0 DEF NewNode, NoNode, IsNode
<1>2. IsSeq(<< >>) /\ << >> # <<EmptyInput>>
  BY SeqNone
<1>3. ChatNode(n)
  BY <1>1, <1>2 DEF ChatNode
<1> QED
  BY <1>0, <1>1, <1>3 DEF Blank

LEMMA TextWhole == ASSUME DeliverInv, TextDelta PROVE DeliverInv'
<1>1. PICK i : i = Slot(dec.textAt)
  OBVIOUS
<1>2. PICK n, d : n = NewNode("text", "") /\ d = [dec EXCEPT !.textAt = i]
  OBVIOUS
<1>3. Reading("chat") /\ ChatFragment(i, n, "text", d)
  BY <1>1, <1>2 DEF TextDelta
<1>4. PICK s : s = [held |-> held, enc |-> enc]
  OBVIOUS
<1>5. /\ StreamInv /\ dec.st = "reading" /\ DecOk(dec) /\ Size \in Nat /\ Size = Len(dec.nodes) /\ DOMAIN dec.nodes = 1 .. Size
  BY ONLY DeliverInv, <1>3, <1>4, WholeNow
<1>6. Slots(dec)
  <2>1. PICK x : IsView(x, dec, s.enc) /\ ChatAnswer(x, dec, s.held, s.enc)
    BY ONLY DeliverInv, <1>3, <1>4, WholeNow
  <2> QED
    BY <2>1 DEF ChatAnswer
<1>7. Blank(n) /\ n.kind = "text" /\ n.detail = ""
  <2>1. n = NewNode("text", "")
    BY <1>2
  <2> QED
    BY ONLY <2>1, BlankNodes
<1>8. Fitting(n, "text")
  BY <1>7 DEF Fitting
<1>9. i = Size + 1 \/ (i \in 1 .. Size /\ dec.nodes[i].kind = "text" /\ dec.nodes[i].detail = "")
  <2>1. CASE dec.textAt = 0
    BY <1>1, <2>1 DEF Slot
  <2>2. CASE dec.textAt # 0
    <3>1. i = dec.textAt /\ i \in 1 .. Size
      BY <1>1, <1>5, <2>2 DEF Slot, DecOk
    <3>2. dec.nodes[i].kind = "text"
      BY <1>6, <2>2, <3>1 DEF Slots
    <3>3. \A j \in 1 .. Size : dec.nodes[j].kind = "text" => dec.nodes[j].detail = ""
      <4>1. PICK x : IsView(x, dec, s.enc) /\ ChatAnswer(x, dec, s.held, s.enc)
        BY ONLY DeliverInv, <1>3, <1>4, WholeNow
      <4>2. x.ns = dec.nodes
        BY <4>1, ViewFields
      <4> QED
        BY <1>5, <4>1, <4>2 DEF ChatAnswer, ChatFull, ChatNodes, ChatNode
    <3> QED
      BY <3>1, <3>2, <3>3
  <2> QED
    BY <2>1, <2>2
<1>10. Meets(i, n, "text")
  BY <1>7, <1>8, <1>9 DEF Meets
<1>11. /\ DOMAIN d = DOMAIN dec /\ d.st = "reading" /\ d.nodes = dec.nodes /\ d.frags = dec.frags
       /\ d.textAt = i /\ d.reasonAt = dec.reasonAt
  BY <1>2, <1>5 DEF DecOk
<1>12. SlotsKept(dec, d, i, n)
  BY <1>7, <1>11 DEF SlotsKept
<1>13. StreamInv'
  BY <1>5, TextKeeps
<1> QED
  BY <1>3, <1>10, <1>11, <1>12, <1>13, FragmentWhole

LEMMA ReasoningWhole ==
  ASSUME DeliverInv, NEW field \in {"text", "summary", "sig"}, ReasoningDelta(field) PROVE DeliverInv'
<1>1. PICK i : i = Slot(dec.reasonAt)
  OBVIOUS
<1>2. PICK n, d : n = NewNode("thinking", "") /\ d = [dec EXCEPT !.reasonAt = i]
  OBVIOUS
<1>3. Reading("chat") /\ ChatFragment(i, n, field, d)
  BY <1>1, <1>2 DEF ReasoningDelta
<1>4. PICK s : s = [held |-> held, enc |-> enc]
  OBVIOUS
<1>5. /\ StreamInv /\ dec.st = "reading" /\ DecOk(dec) /\ Size \in Nat /\ Size = Len(dec.nodes)
  BY ONLY DeliverInv, <1>3, <1>4, WholeNow
<1>6. Slots(dec)
  <2>1. PICK x : IsView(x, dec, s.enc) /\ ChatAnswer(x, dec, s.held, s.enc)
    BY ONLY DeliverInv, <1>3, <1>4, WholeNow
  <2> QED
    BY <2>1 DEF ChatAnswer
<1>7. Blank(n) /\ n.kind = "thinking" /\ n.detail = ""
  <2>1. n = NewNode("thinking", "")
    BY <1>2
  <2> QED
    BY ONLY <2>1, BlankNodes
<1>8. Fitting(n, field)
  BY <1>7 DEF Fitting
<1>9. i = Size + 1 \/ (i \in 1 .. Size /\ dec.nodes[i].kind = "thinking" /\ dec.nodes[i].detail = "")
  <2>1. CASE dec.reasonAt = 0
    BY <1>1, <2>1 DEF Slot
  <2>2. CASE dec.reasonAt # 0
    <3>1. i = dec.reasonAt /\ i \in 1 .. Size
      BY <1>1, <1>5, <2>2 DEF Slot, DecOk
    <3> QED
      BY <1>6, <2>2, <3>1 DEF Slots
  <2> QED
    BY <2>1, <2>2
<1>10. Meets(i, n, field)
  BY <1>7, <1>8, <1>9 DEF Meets
<1>11. /\ DOMAIN d = DOMAIN dec /\ d.st = "reading" /\ d.nodes = dec.nodes /\ d.frags = dec.frags
       /\ d.reasonAt = i /\ d.textAt = dec.textAt
  BY <1>2, <1>5 DEF DecOk
<1>12. SlotsKept(dec, d, i, n)
  BY <1>7, <1>11 DEF SlotsKept
<1>13. StreamInv'
  BY <1>5, ReasoningKeeps
<1> QED
  BY <1>3, <1>10, <1>11, <1>12, <1>13, FragmentWhole

(* A fragment that moves no slot.                                          *)
LEMMA SlotlessWhole ==
  ASSUME DeliverInv, StreamInv', Reading("chat"), NEW i, NEW n, NEW field, Meets(i, n, field), ChatFragment(i, n, field, dec)
  PROVE  DeliverInv'
<1>1. SlotsKept(dec, dec, i, n)
  BY DEF SlotsKept
<1>2. dec.st = "reading"
  BY DEF Reading
<1>3. DOMAIN dec = DOMAIN dec /\ dec.nodes = dec.nodes /\ dec.frags = dec.frags
  OBVIOUS
<1> QED
  BY <1>1, <1>2, <1>3, FragmentWhole

LEMMA DetailWhole ==
  ASSUME DeliverInv, NEW type \in {"text", "summary", "encrypted"}, ReasoningDetail(type) PROVE DeliverInv'
<1>1. PICK i, n, field : i = Size + 1 /\ n = NewNode("thinking", type) /\ field = DetailField[type]
  OBVIOUS
<1>2. Reading("chat") /\ ChatFragment(i, n, field, dec)
  BY <1>1 DEF ReasoningDetail
<1>3. Blank(n) /\ n.kind = "thinking" /\ n.detail = type
  BY <1>1, BlankNodes
<1>4. field \in {"text", "summary", "sig"} /\ (type = "text" => field = "text") /\ (type = "encrypted" => field = "sig")
  BY <1>1 DEF DetailField
<1>5. n.sig = << >>
  BY <1>3 DEF Blank
<1>6. Fitting(n, field)
  BY <1>3, <1>4, <1>5 DEF Fitting
<1>7. Meets(i, n, field)
  BY <1>1, <1>3, <1>6 DEF Meets
<1>8. StreamInv'
  BY DetailKeeps DEF DeliverInv
<1> QED
  BY <1>2, <1>7, <1>8, SlotlessWhole

(* A node that starts and of which nothing is said yet.                    *)
LEMMA StartWhole ==
  ASSUME DeliverInv, StreamInv', Reading("chat"), NEW n, Blank(n), n.detail = "",
         Decode([dec EXCEPT !.nodes = Append(@, n)], <<NodeStartEv(Size + 1, n)>>)
  PROVE  DeliverInv'
<1>1. PICK m, i, old, s : m = Size /\ i = Size + 1 /\ old = dec.nodes /\ s = [held |-> held, enc |-> enc]
  OBVIOUS
<1>2. PICK new : new = Append(old, n)
  OBVIOUS
<1>3. PICK d, v : d = [dec EXCEPT !.nodes = new] /\ v = NodeStartEv(i, n)
  OBVIOUS
<1>4. Decode(d, <<v>>)
  BY <1>1, <1>2, <1>3
<1>5. /\ StreamInv /\ dec.st = "reading" /\ DecOk(dec) /\ NodesOk(dec.nodes) /\ Size \in Nat /\ dec.frags \in Nat
      /\ DOMAIN dec.nodes = 1 .. Size /\ Size = Len(dec.nodes) /\ EncInv(s.enc, Size) /\ source = "chat" /\ sealed \in BOOLEAN
  BY ONLY DeliverInv, Reading("chat"), <1>1, WholeNow
<1>6. PICK x : IsView(x, dec, s.enc) /\ ChatAnswer(x, dec, s.held, s.enc)
  BY ONLY DeliverInv, Reading("chat"), <1>1, WholeNow
<1>7. x.ns = old /\ x.dir = s.enc.direct /\ x.src = source /\ x.seal = sealed
  BY <1>1, <1>6, ViewFields
<1>8. /\ ChatFull(x, m) /\ ChatBase(x, s.held, s.enc, m) /\ Slots(dec) /\ EncInv(s.enc, m) /\ m \in Nat
      /\ NodesOk(x.ns) /\ dec.textAt \in 0 .. m /\ dec.reasonAt \in 0 .. m
  BY <1>1, <1>5, <1>6, <1>7 DEF ChatAnswer, DecOk
<1>9. Lengthens(new, x.ns, n, m, i)
  BY <1>1, <1>2, <1>5, <1>7 DEF Lengthens
<1>10. IsStart(v, i, n)
  BY <1>3, StartEvent
<1>11. PICK w : Shows(w, new, x, PassOn(s, v).enc)
  BY DEF Shows
<1>12. ChatBase(w, PassOn(s, v).held, PassOn(s, v).enc, i) /\ Adding(x, w, m, i, n)
  BY ONLY Blank(n), <1>8, <1>9, <1>10, <1>11, ChatAdds
<1>13. w.ns = new
  BY ONLY <1>11, ShowsFields
<1>14. /\ DOMAIN new = 1 .. i /\ new[i] = n /\ \A j \in 1 .. m : new[j] = old[j]
  BY <1>7, <1>12, <1>13 DEF Adding
<1>15. \A j \in 1 .. i : ChatWhole(w.ns[j])
  <2> SUFFICES ASSUME NEW j \in 1 .. i PROVE ChatWhole(w.ns[j])
    OBVIOUS
  <2>1. CASE j = i
    BY <1>13, <1>14, <2>1 DEF ChatWhole
  <2>2. CASE j # i
    <3>1. j \in 1 .. m
      <4>1. m \in Nat /\ i = m + 1
        BY <1>1, <1>8
      <4> QED
        BY ONLY <2>2, <4>1, j \in 1 .. i
    <3>2. ChatWhole(x.ns[j])
      BY <1>8, <3>1 DEF ChatFull
    <3> QED
      BY <1>7, <1>13, <1>14, <3>1, <3>2
  <2> QED
    BY <2>1, <2>2
<1>16. ChatFull(w, i)
  BY ONLY <1>12, <1>15, FullFrom
<1>17. /\ d.nodes = new /\ d.st = "reading" /\ d.frags \in Nat /\ d.textAt = dec.textAt /\ d.reasonAt = dec.reasonAt
  BY <1>3, <1>5 DEF DecOk
<1>18. Slots(d)
  <2>1. SlotsKept(dec, d, i, n)
    BY <1>17 DEF SlotsKept
  <2>2. \A j \in 1 .. m : d.nodes[j].kind = dec.nodes[j].kind /\ d.nodes[j].detail = dec.nodes[j].detail
    BY <1>1, <1>14, <1>17
  <2>3. d.nodes[i].kind = n.kind /\ d.nodes[i].detail = n.detail
    BY <1>14, <1>17
  <2> QED
    BY ONLY <1>8, <2>1, <2>2, <2>3, SlotsStay
<1>19. Len(d.nodes) = i
  <2>1. IsNode(n) /\ NodesOk(old)
    BY <1>1, <1>5 DEF Blank, ChatNode
  <2>2. Len(Append(old, n)) = Len(old) + 1
    BY ONLY <2>1, NodeAdded
  <2> QED
    BY <1>1, <1>2, <1>5, <1>17, <2>2
<1>20. ChatAnswer(w, d, PassOn(s, v).held, PassOn(s, v).enc)
  BY <1>12, <1>16, <1>18, <1>19 DEF ChatAnswer
<1>21. w.src = "chat"
  BY <1>12 DEF ChatBase, ChatNodes
<1>22. Whole(w, d, PassOn(s, v).held, PassOn(s, v).enc)
  BY <1>17, <1>20, <1>21 DEF Whole
<1>23. IsView(w, d, PassOn(s, v).enc)
  BY <1>7, <1>11, <1>17 DEF Shows, IsView
<1> QED
  BY ONLY DeliverInv, StreamInv', <1>1, <1>4, <1>17, <1>22, <1>23, OneFrame

LEMMA ToolCallWhole == ASSUME DeliverInv, ToolCallDelta PROVE DeliverInv'
<1>1. PICK n : n = NewNode("tool", "")
  OBVIOUS
<1>2. Blank(n) /\ n.kind = "tool" /\ n.detail = ""
  BY <1>1, BlankNodes
<1>3. Reading("chat") /\ StreamInv'
  BY ToolCallKeeps DEF ToolCallDelta, DeliverInv
<1>4. Fitting(n, "text")
  BY <1>2 DEF Fitting
<1>5. ASSUME NEW i \in {j \in DOMAIN dec.nodes : dec.nodes[j].kind = "tool"} \union {Size + 1}, ChatFragment(i, n, "text", dec)
      PROVE  DeliverInv'
  <2>1. PICK s : s = [held |-> held, enc |-> enc]
    OBVIOUS
  <2>2. DOMAIN dec.nodes = 1 .. Size
    BY ONLY DeliverInv, <1>3, <2>1, WholeNow
  <2>3. PICK x : IsView(x, dec, s.enc) /\ ChatAnswer(x, dec, s.held, s.enc)
    BY ONLY DeliverInv, <1>3, <2>1, WholeNow
  <2>4. x.ns = dec.nodes
    BY <2>3, ViewFields
  <2>5. \A j \in DOMAIN dec.nodes : dec.nodes[j].kind = "tool" => dec.nodes[j].detail = ""
    BY <2>3, <2>4 DEF ChatAnswer, ChatFull, ChatNodes, ChatNode
  <2>6. Meets(i, n, "text")
    BY <1>2, <1>4, <1>5, <2>2, <2>5 DEF Meets
  <2> QED
    BY <1>3, <1>5, <2>6, SlotlessWhole
<1>6. CASE Decode([dec EXCEPT !.nodes = Append(@, n)], <<NodeStartEv(Size + 1, n)>>)
  BY <1>2, <1>3, <1>6, StartWhole
<1> QED
  BY <1>1, <1>5, <1>6 DEF ToolCallDelta

LEMMA ItemWhole == ASSUME DeliverInv, ProviderItemBlock PROVE DeliverInv'
<1>1. PICK n : n = NewNode("other", "")
  OBVIOUS
<1>2. Reading("chat") /\ Decode([dec EXCEPT !.nodes = Append(@, n)], <<NodeStartEv(Size + 1, n)>>)
  BY <1>1 DEF ProviderItemBlock
<1>3. Blank(n) /\ n.detail = ""
  BY <1>1, BlankNodes
<1>4. StreamInv'
  BY ItemKeeps DEF DeliverInv
<1> QED
  BY <1>2, <1>3, <1>4, StartWhole

-----------------------------------------------------------------------------
(* The end of an answer.                                                   *)
LEMMA ChatFinishWhole == ASSUME DeliverInv, ChatFinish PROVE DeliverInv'
<1>1. PICK m, ns, s : m = Size /\ ns = dec.nodes /\ s = [held |-> held, enc |-> enc]
  OBVIOUS
<1>2. PICK ds : ds = [i \in DOMAIN ns |-> NodeDoneEv(i, ns[i])]
  OBVIOUS
<1>3. PICK v : v = ResponseDoneEv(ns)
  OBVIOUS
<1>4. PICK d, q : d = [dec EXCEPT !.st = "ended", !.completed = DOMAIN ns] /\ q = ds \o <<v>>
  OBVIOUS
<1>5. Reading("chat") /\ Decode(d, q)
  BY <1>1, <1>2, <1>3, <1>4 DEF ChatFinish
<1>6. /\ StreamInv /\ dec.st = "reading" /\ DecOk(dec) /\ NodesOk(dec.nodes) /\ Size \in Nat /\ dec.frags \in Nat
      /\ DOMAIN dec.nodes = 1 .. Size /\ Size = Len(dec.nodes) /\ EncInv(s.enc, Size) /\ source = "chat" /\ sealed \in BOOLEAN
      /\ (ShownIn(dec.nodes) # {} => s.enc.sent)
  BY ONLY DeliverInv, <1>1, <1>5, WholeNow
<1>7. PICK x : IsView(x, dec, s.enc) /\ ChatAnswer(x, dec, s.held, s.enc)
  BY ONLY DeliverInv, <1>1, <1>5, WholeNow
<1>8. x.ns = ns /\ x.dir = s.enc.direct /\ x.src = source /\ x.seal = sealed
  BY <1>1, <1>7, ViewFields
<1>9. /\ m \in Nat /\ ChatFull(x, m) /\ ChatBase(x, s.held, s.enc, m) /\ EncInv(s.enc, m)
      /\ (ShownIn(x.ns) # {} => s.enc.sent)
  BY <1>1, <1>6, <1>7, <1>8 DEF ChatAnswer
<1>10. DOMAIN ns = 1 .. m /\ NodesOk(ns)
  BY <1>1, <1>6
<1>11. EndAt(x, s, m, 0)
  BY ONLY <1>9, EndBegins
<1>12. DOMAIN q = 1 .. (m + 1) /\ q[m + 1] = v /\ \A i \in 1 .. m : q[i] = ds[i]
  <2>1. PICK V : V = {ds[i] : i \in 1 .. m} \union {v}
    OBVIOUS
  <2>2. ds \in [1 .. m -> V] /\ v \in V
    BY <1>2, <1>10, <2>1
  <2>3. ds \in Seq(V) /\ <<v>> \in Seq(V)
    BY <1>9, <2>2, SeqDef
  <2>4. Len(ds) = m /\ Len(<<v>>) = 1
    BY <1>9, <2>2, <2>3, LenProperties
  <2>5. q \in Seq(V) /\ Len(q) = m + 1
    BY <1>4, <2>3, <2>4, ConcatProperties
  <2>6. \A i \in 1 .. (m + 1) : q[i] = IF i <= m THEN ds[i] ELSE <<v>>[i - m]
    BY <1>4, <2>3, <2>4, ConcatProperties
  <2>7. q[m + 1] = v
    BY <1>9, <2>6
  <2> QED
    BY <1>9, <2>5, <2>6, <2>7, LenProperties
<1>13. \A i \in 1 .. m : IsDone(q[i], x, i)
  <2> SUFFICES ASSUME NEW i \in 1 .. m PROVE IsDone(q[i], x, i)
    OBVIOUS
  <2>1. PICK n, w : n = ns[i] /\ w = q[i]
    OBVIOUS
  <2>2. w = NodeDoneEv(i, n) /\ IsNode(n)
    BY <1>2, <1>10, <1>12, <2>1 DEF NodesOk
  <2>3. IsEv(w) /\ w.ev = "done" /\ w.i = i /\ w.node = n
    BY <2>2, DoneForm
  <2> QED
    BY <1>8, <2>1, <2>3 DEF IsDone
<1>14. PICK t : PassAll(s, q) = PassOn(t, q[m + 1]) /\ EndAt(x, t, m, m)
  <2>1. x.src = source /\ x.seal = sealed /\ DOMAIN q = 1 .. (m + 1)
    BY <1>8, <1>12
  <2> QED
    BY ONLY <1>9, <1>11, <1>13, <2>1, EndAll
<1>15. IsEv(v) /\ v.ev = "finish" /\ v.out = x.ns
  BY <1>3, <1>8, FinishForm
<1>16. PassOn(t, v).enc.direct = x.dir /\ ToldAll(x, PassOn(t, v).enc.client.blocks)
  BY ONLY <1>9, <1>14, <1>15, ChatTold
<1>17. PICK a : a = PassAll(s, q)
  OBVIOUS
<1>18. a.enc.direct = x.dir /\ ToldAll(x, a.enc.client.blocks)
  BY <1>12, <1>14, <1>16, <1>17
<1>19. d.nodes = ns /\ d.st = "ended" /\ d.frags \in Nat
  BY <1>1, <1>4, <1>6 DEF DecOk
<1>20. IsView(x, d, a.enc)
  BY <1>1, <1>7, <1>8, <1>18, <1>19 DEF IsView
<1>21. Whole(x, d, a.held, a.enc)
  BY <1>18, <1>19 DEF Whole
<1>22. StreamInv'
  BY <1>6, ChatFinishKeeps
<1>23. a = PassAll([held |-> held, enc |-> enc], q)
  BY <1>1, <1>17
<1> QED
  BY ONLY DeliverInv, <1>5, <1>19, <1>20, <1>21, <1>22, <1>23, WholeKeeps

LEMMA FailedDecoder ==
  ASSUME NEW d, d = [NewDecoder EXCEPT !.st = "failed"] PROVE d.st = "failed" /\ d.frags \in Nat
BY DEF NewDecoder

LEMMA UpstreamErrorWhole == ASSUME DeliverInv, UpstreamError PROVE DeliverInv'
<1>1. PICK v : v = ErrorEv /\ IsEv(v) /\ v.ev = "error"
  BY ErrorForm
<1>2. PICK d, p : d = [NewDecoder EXCEPT !.st = "failed"] /\ Reading(p) /\ Decode(d, <<v>>)
  BY <1>1 DEF UpstreamError
<1>3. PICK m, s : m = Size /\ s = [held |-> held, enc |-> enc]
  OBVIOUS
<1>4. EncInv(s.enc, m) /\ m \in Nat /\ StreamInv
  BY ONLY DeliverInv, <1>2, <1>3, WholeNow
<1>5. IsEv(v) /\ v.ev = "error"
  BY <1>1
<1>6. PassOn(s, v).enc.client.st = "error"
  BY ONLY <1>4, <1>5, PassError
<1>7. d.st = "failed" /\ d.frags \in Nat
  BY <1>2, FailedDecoder
<1>8. PICK z : IsView(z, d, PassOn(s, v).enc)
  BY DEF IsView
<1>9. Whole(z, d, PassOn(s, v).held, PassOn(s, v).enc)
  BY <1>6, <1>7 DEF Whole
<1>10. StreamInv'
  BY <1>4, UpstreamErrorKeeps
<1>11. Decode(d, <<v>>) /\ s = [held |-> held, enc |-> enc]
  BY <1>2, <1>3
<1> QED
  BY ONLY DeliverInv, <1>7, <1>8, <1>9, <1>10, <1>11, OneFrame

LEMMA IdleWhole == ASSUME DeliverInv, IdleTimeout PROVE DeliverInv'
<1>1. PICK d, p : d = [NewDecoder EXCEPT !.st = "failed"] /\ Reading(p) /\ dec' = d
  BY DEF IdleTimeout
<1>2. StreamInv
  BY DEF DeliverInv
<1>3. Size \in Nat /\ EncInv(enc, Size)
  BY <1>1, <1>2, ReadingFacts
<1>4. PICK c : c = OnError(enc.client)
  OBVIOUS
<1>5. c.st = "error"
  BY <1>3, <1>4, ErrorRead
<1>6. enc'.client = c
  BY <1>4 DEF IdleTimeout, Returned, NewEncoder
<1>7. d.st = "failed" /\ d.frags \in Nat
  BY <1>1, FailedDecoder
<1>8. PICK y, h, e : y = View' /\ h = held' /\ e = enc'
  OBVIOUS
<1>9. e.client.st = "error"
  BY <1>5, <1>6, <1>8
<1>10. Whole(y, d, h, e)
  BY <1>7, <1>9 DEF Whole
<1>11. Whole(View', dec', held', enc')
  BY <1>1, <1>8, <1>10
<1>12. StreamInv' /\ source' = source /\ sealed' = sealed /\ dec'.frags \in Nat
  BY <1>1, <1>2, <1>7, IdleKeeps DEF IdleTimeout
<1> QED
  BY <1>11, <1>12 DEF DeliverInv

-----------------------------------------------------------------------------
(* Before the first frame nothing has been told.                           *)
LEMMA DeliverStarts == StreamInit => DeliverInv
<1> SUFFICES ASSUME StreamInit PROVE DeliverInv
  OBVIOUS
<1>1. StreamInv
  BY StreamStarts
<1>2. PICK e, d, b, x, h : e = NewEncoder /\ d = NewDecoder /\ b = << >> /\ x = View /\ h = << >>
  OBVIOUS
<1>3. source \in Protocol /\ sealed \in BOOLEAN /\ dec = d /\ enc = e /\ held = h
  BY <1>2 DEF StreamInit
<1>4. /\ d.st = "reading" /\ d.nodes = b /\ d.frags = 0 /\ d.textAt = 0 /\ d.reasonAt = 0 /\ d.active = {} /\ d.completed = {}
  BY <1>2 DEF NewDecoder
<1>5. Len(b) = 0 /\ DOMAIN b = {} /\ IsSeq(b) /\ DOMAIN h = {} /\ 1 .. 0 = {}
  BY <1>2, SeqNone
<1>6. /\ e.live = b /\ e.pending = b /\ e.next = 1 /\ e.blocks = 0 /\ e.open = 0 /\ e.absorbed = {} /\ e.direct = {}
  BY <1>2 DEF NewEncoder
<1>7. x.ns = b /\ x.dir = {} /\ x.src = source /\ x.seal = sealed
  <2>1. x.ns = d.nodes /\ x.dir = e.direct /\ x.src = source /\ x.seal = sealed
    BY <1>2, <1>3 DEF View
  <2> QED
    BY <1>4, <1>6, <2>1
<1>8. Kept(e, x, Sigs(x), {})
  <2>1. Told(x, {}, e.client.blocks, 0)
    BY ToldNone
  <2> QED
    BY <1>5, <1>6, <2>1 DEF Kept, Bufs, Opened, Pends, Surfaced
<1>9. ShownIn(b) = {}
  BY <1>5 DEF ShownIn
<1>10. MsgHeld(x, {}, h, 0)
  BY <1>5 DEF MsgHeld
<1>11. ASSUME x.src = "messages" PROVE MsgWhole(x, d, h, e)
  <2>1. MsgNodes(x, 0)
    BY <1>3, <1>5, <1>7, <1>11 DEF MsgNodes
  <2>2. 0 \in Nat /\ 1 .. (1 - 1) = {} /\ 1 \in 1 .. (0 + 1) /\ 1 = 0 + 1
    OBVIOUS
  <2>3. MsgOrder(e, {}, 0)
    BY <1>5, <1>6, <2>2 DEF MsgOrder
  <2>4. MsgInv(x, {}, h, e, 0)
    BY <1>6, <1>7, <1>8, <1>10, <2>1, <2>2, <2>3 DEF MsgInv
  <2> QED
    BY <1>4, <1>5, <2>4 DEF MsgWhole
<1>12. ASSUME x.src = "chat" PROVE ChatAnswer(x, d, h, e)
  <2>1. ChatNodes(x, 0)
    BY <1>3, <1>5, <1>7, <1>12 DEF ChatNodes
  <2>2. ChatOrder(e, {})
    BY <1>5, <1>6 DEF ChatOrder
  <2>3. ChatBase(x, h, e, 0)
    BY <1>6, <1>7, <1>8, <1>9, <1>10, <2>1, <2>2 DEF ChatBase
  <2>4. ChatFull(x, 0)
    BY <1>5, <1>7, <1>9, <2>1 DEF ChatFull
  <2>5. Slots(d)
    BY <1>4 DEF Slots
  <2> QED
    BY <1>4, <1>5, <2>3, <2>4, <2>5 DEF ChatAnswer
<1>13. Whole(x, d, h, e)
  BY <1>4, <1>11, <1>12 DEF Whole
<1> QED
  BY <1>1, <1>2, <1>3, <1>4, <1>13 DEF DeliverInv

LEMMA DeliverSteps == DeliverInv /\ [StreamNext]_streamVars => DeliverInv'
<1> SUFFICES ASSUME DeliverInv, [StreamNext]_streamVars PROVE DeliverInv'
  OBVIOUS
<1>1. CASE ChatRead
  BY <1>1, TextWhole, ToolCallWhole, ItemWhole, ChatFinishWhole, ReasoningWhole, DetailWhole DEF ChatRead
<1>2. CASE MessagesRead
  BY <1>2, BlockStartWhole, BlockStopWhole, BlockDeltaWhole, MessageStopWhole DEF MessagesRead
<1>3. CASE UpstreamError
  BY <1>3, UpstreamErrorWhole
<1>4. CASE IdleTimeout
  BY <1>4, IdleWhole
<1>5. CASE UNCHANGED streamVars
  <2>1. dec' = dec /\ enc' = enc /\ held' = held /\ source' = source /\ sealed' = sealed
    BY <1>5 DEF streamVars
  <2>2. View' = View
    BY <2>1 DEF View
  <2>3. StreamInv'
    BY <1>5, StreamSteps DEF DeliverInv
  <2>4. Whole(View', dec', held', enc')
    BY <2>1, <2>2 DEF DeliverInv
  <2> QED
    BY <2>1, <2>3, <2>4 DEF DeliverInv
<1> QED
  BY <1>1, <1>2, <1>3, <1>4, <1>5 DEF StreamNext

(* What a client has been told is what DeliveredWhole says.                *)
LEMMA FinalShows ==
  ASSUME NEW x, IsView(x, dec, enc), NEW i, NEW y, Final(x, i, y), source \in Protocol
  PROVE  BlockShows(i, y)
<1>1. x.ns = dec.nodes /\ x.dir = enc.direct /\ x.src = source /\ x.seal = sealed
  BY ViewFields
<1>2. PICK n : n = dec.nodes[i]
  OBVIOUS
<1>3. Pairs(x.ns) = MergedWithNext
  BY <1>1 DEF Pairs, Pair, MergedWithNext, DetailPair, ShownIn, Visible
<1>4. /\ y.kind = n.kind /\ (n.kind \in Plain => y.text = n.text)
      /\ n.kind = "thinking" =>
           /\ i \in x.dir => y.text = Main(x, n)
           /\ i \notin x.dir => BufferedThinking(n, y.text)
           /\ y.sig = Seal(x, IF i \in Pairs(x.ns) THEN x.ns[i + 1] ELSE n)
  BY <1>1, <1>2 DEF Final
<1>5. n.kind = "thinking" => ThinkingShown(i, y.text)
  BY <1>1, <1>2, <1>4 DEF ThinkingShown, Main
<1>6. \A k : Seal(x, k) = SigOf(k)
  BY <1>1 DEF Seal, SigOf
<1>7. n.kind = "thinking" => y.sig = SigOf(IF i \in MergedWithNext THEN dec.nodes[i + 1] ELSE n)
  BY <1>1, <1>3, <1>4, <1>6
<1> QED
  BY <1>2, <1>4, <1>5, <1>7 DEF BlockShows, Plain

LEMMA DeliverInvHolds == DeliverInv => DeliveredWhole
<1> SUFFICES ASSUME DeliverInv, Completed PROVE DeliveredWhole
  BY DEF DeliveredWhole
<1>1. PICK x, B : x = View /\ B = enc.client.blocks
  OBVIOUS
<1>2. IsView(x, dec, enc)
  BY <1>1, ViewIs
<1>3. x.ns = dec.nodes
  BY <1>2, ViewFields
<1>4. StreamInv /\ source \in Protocol /\ Whole(x, dec, held, enc)
  BY <1>1 DEF DeliverInv
<1>5. enc.client.st = "stopped" /\ dec.completed = DOMAIN dec.nodes
  BY DEF Completed, client
<1>6. dec.st # "reading"
  <2> SUFFICES ASSUME dec.st = "reading" PROVE FALSE
    OBVIOUS
  <2>1. EncInv(enc, Len(dec.nodes))
    BY <1>4 DEF StreamInv, Ahead
  <2>2. enc.client.st \in {"new", "body"}
    BY <2>1 DEF EncInv, InStep, ClientAt
  <2> QED
    BY <1>5, <2>2
<1>7. ToldAll(x, B)
  BY <1>1, <1>4, <1>5, <1>6 DEF Whole
<1>8. PICK S, f, m : S = HeadsOf(x.ns) /\ f = [i \in Visible |-> i] /\ m = Len(dec.nodes)
  OBVIOUS
<1>9. S = Visible \ {i + 1 : i \in MergedWithNext}
  BY <1>3, <1>8 DEF HeadsOf, Pairs, Pair, MergedWithNext, DetailPair, ShownIn, Visible
<1>10. m \in Nat /\ DOMAIN dec.nodes = 1 .. m
  <2>1. IsSeq(dec.nodes)
    BY <1>4 DEF StreamInv, DecOk, NodesOk
  <2> QED
    BY <1>8, <2>1, SeqDomain
<1>11. Within(S, m) /\ \A i \in S : f[i] = i
  <2>1. S \subseteq Visible /\ Visible \subseteq 1 .. m
    BY <1>9, <1>10 DEF Visible
  <2>2. 1 .. m \subseteq 0 .. m
    BY <1>10
  <2> QED
    BY <1>8, <1>10, <2>1, <2>2 DEF Within
<1>12. PICK heads : heads = InOrder(f, S)
  OBVIOUS
<1>13. heads = Nums(S) /\ IsSeq(heads)
  BY <1>11, <1>12, HeadsNums, NumsIn
<1>14. Len(B) = Len(heads) /\ \A k \in 1 .. Len(heads) : Final(x, heads[k], B[k])
  BY <1>7, <1>8, <1>13 DEF ToldAll, Told
<1>15. \A k \in DOMAIN heads : BlockShows(heads[k], B[k])
  <2> SUFFICES ASSUME NEW k \in DOMAIN heads PROVE BlockShows(heads[k], B[k])
    OBVIOUS
  <2>1. PICK i, y : i = heads[k] /\ y = B[k]
    OBVIOUS
  <2>2. k \in 1 .. Len(heads)
    BY <1>13, SeqDomain
  <2>3. Final(x, i, y)
    BY <1>14, <2>1, <2>2
  <2>4. BlockShows(i, y)
    BY ONLY <1>2, <1>4, <2>3, FinalShows
  <2> QED
    BY <2>1, <2>4
<1> QED
  BY <1>1, <1>8, <1>9, <1>12, <1>14, <1>15 DEF DeliveredWhole, client

(* Whatever an upstream sends, in whatever order, for any number of nodes, *)
(* fragments and open blocks, and whether or not signatures are sealed: a  *)
(* client that has read message_stop of an answer all of whose nodes ended *)
(* has one block for every visible node, in their order, with its text,    *)
(* arguments and signature whole and once.  So is the reasoning of a node  *)
(* that was live from its start; a node that was buffered shows its raw    *)
(* reasoning whole, and of a summary the first chunk and then an end of    *)
(* the rest (DeliveredWhole, BufferedThinking).                            *)
THEOREM StreamDelivered == StreamSpec => []DeliveredWhole
<1>1. StreamSpec => []DeliverInv
  BY DeliverStarts, DeliverSteps, PTL DEF StreamSpec
<1> QED
  BY <1>1, DeliverInvHolds, PTL
=============================================================================
