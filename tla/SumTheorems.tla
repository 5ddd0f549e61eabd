---------------------------- MODULE SumTheorems ----------------------------
EXTENDS Integers, FiniteSetsExt, FiniteSetTheorems, TLAPS

Pick(s) == CHOOSE x \in s : TRUE

(* g adds f up over every subset of V.                                     *)
Adds(g, f, V) ==
  g = [s \in SUBSET V |-> IF s = {} THEN 0 ELSE f[Pick(s)] + g[s \ {Pick(s)}]]

SumOf(f, V) == MapThenSumSet(LAMBDA x : f[x], V)

LEMMA Smallest ==
  ASSUME NEW U, IsFiniteSet(U), NEW X, X \subseteq SUBSET U, X # {}
  PROVE  \E t \in X : \A s \in X : ~(s \subseteq t /\ s # t)
<1>1. IsWellFoundedOn(StrictSubsetOrdering(U), SUBSET U)
  BY FS_StrictSubsetOrderingWellFounded, FS_FiniteSubsetsOfFinite
<1>2. PICK t \in X : \A s \in X : ~(<<s, t>> \in StrictSubsetOrdering(U))
  BY <1>1, WFMin
<1> QED
  BY <1>2 DEF StrictSubsetOrdering

LEMMA PickIn == ASSUME NEW s, s # {} PROVE Pick(s) \in s
BY DEF Pick

LEMMA AddsAgree ==
  ASSUME NEW V, IsFiniteSet(V), NEW W, W \subseteq V, NEW f, NEW g, NEW h,
         Adds(g, f, V), Adds(h, f, W)
  PROVE  \A s \in SUBSET W : g[s] = h[s]
<1> DEFINE X == {s \in SUBSET W : g[s] # h[s]}
<1> SUFFICES ASSUME X # {} PROVE FALSE
  OBVIOUS
<1>1. IsFiniteSet(W)
  BY FS_Subset
<1>9. X \subseteq SUBSET W
  OBVIOUS
<1>2. PICK t \in X : \A s \in X : ~(s \subseteq t /\ s # t)
  <2> HIDE DEF X
  <2> QED
    BY <1>1, <1>9, Smallest
<1>3. t \in SUBSET W /\ g[t] # h[t]
  OBVIOUS
<1>4. g[t] = IF t = {} THEN 0 ELSE f[Pick(t)] + g[t \ {Pick(t)}]
  BY <1>3 DEF Adds
<1>5. h[t] = IF t = {} THEN 0 ELSE f[Pick(t)] + h[t \ {Pick(t)}]
  BY <1>3 DEF Adds
<1>6. t # {}
  BY <1>3, <1>4, <1>5
<1> DEFINE u == t \ {Pick(t)}
<1>7. u \in SUBSET W /\ u \subseteq t /\ u # t
  BY <1>3, <1>6, PickIn
<1>8. g[u] = h[u]
  BY <1>2, <1>7
<1> QED
  BY <1>3, <1>4, <1>5, <1>6, <1>8

LEMMA SumDef ==
  ASSUME NEW f, NEW V
  PROVE  SumOf(f, V) = (CHOOSE g : Adds(g, f, V))[V]
BY DEF SumOf, MapThenSumSet, MapThenFoldSet, Adds, Pick

LEMMA AddsExists ==
  ASSUME NEW f, NEW U, IsFiniteSet(U)
  PROVE  \A V \in SUBSET U : Adds(CHOOSE g : Adds(g, f, V), f, V)
<1> DEFINE G(V) == CHOOSE g : Adds(g, f, V)
           X == {V \in SUBSET U : ~Adds(G(V), f, V)}
<1> SUFFICES ASSUME X # {} PROVE FALSE
  OBVIOUS
<1>1. X \subseteq SUBSET U
  OBVIOUS
<1>2. PICK V \in X : \A s \in X : ~(s \subseteq V /\ s # V)
  <2> HIDE DEF X
  <2> QED
    BY <1>1, Smallest
<1>3. V \in SUBSET U /\ ~Adds(G(V), f, V)
  OBVIOUS
<1>4. \A s \in SUBSET V : s # V => Adds(G(s), f, s)
  BY <1>2, <1>3
<1>5. ASSUME NEW s \in SUBSET V, s # V, NEW t \in SUBSET s PROVE G(s)[t] = G(t)[t]
  <2>1. IsFiniteSet(s)
    BY <1>3, FS_Subset
  <2>2. Adds(G(s), f, s) /\ Adds(G(t), f, t)
    BY <1>4, <1>5
  <2> HIDE DEF G
  <2> QED
    BY <2>1, <2>2, AddsAgree
<1> DEFINE v(s) == s \ {Pick(s)}
           g == [s \in SUBSET V |-> IF s = {} THEN 0 ELSE f[Pick(s)] + G(v(s))[v(s)]]
<1>6. ASSUME NEW s \in SUBSET V, s # V PROVE g[s] = G(s)[s]
  <2>1. G(s)[s] = IF s = {} THEN 0 ELSE f[Pick(s)] + G(s)[v(s)]
    <3>1. Adds(G(s), f, s)
      BY <1>4, <1>6
    <3> HIDE DEF G
    <3> QED
      BY <3>1 DEF Adds
  <2>2. G(s)[v(s)] = G(v(s))[v(s)]
    BY <1>5, <1>6
  <2> HIDE DEF G
  <2> QED
    BY <2>1, <2>2
<1>7. ASSUME NEW s \in SUBSET V, s # {} PROVE g[v(s)] = G(v(s))[v(s)]
  <2>1. v(s) \in SUBSET V /\ v(s) # V
    BY <1>7, PickIn
  <2> HIDE DEF g, v, G
  <2> QED
    BY <1>6, <2>1
<1> HIDE DEF G
<1>8. Adds(g, f, V)
  <2>1. \A s \in SUBSET V : s # {} => g[v(s)] = G(v(s))[v(s)]
    BY <1>7
  <2>2. g = [s \in SUBSET V |-> IF s = {} THEN 0 ELSE f[Pick(s)] + g[v(s)]]
    BY <2>1
  <2> QED
    BY <2>2 DEF Adds
<1>9. Adds(G(V), f, V)
  <2> HIDE DEF g
  <2> QED
    BY <1>8 DEF G
<1> QED
  BY <1>3, <1>9

LEMMA SumRec ==
  ASSUME NEW f, NEW V, IsFiniteSet(V)
  PROVE  /\ V = {} => SumOf(f, V) = 0
         /\ V # {} => SumOf(f, V) = f[Pick(V)] + SumOf(f, V \ {Pick(V)})
<1> DEFINE G(T) == CHOOSE g : Adds(g, f, T)
           W == V \ {Pick(V)}
<1>1. Adds(G(V), f, V) /\ Adds(G(W), f, W)
  BY AddsExists
<1>2. SumOf(f, V) = G(V)[V] /\ SumOf(f, W) = G(W)[W]
  BY SumDef
<1> HIDE DEF G
<1>3. G(V)[W] = G(W)[W]
  BY <1>1, AddsAgree
<1>4. G(V)[V] = IF V = {} THEN 0 ELSE f[Pick(V)] + G(V)[W]
  BY <1>1 DEF Adds
<1> QED
  BY <1>2, <1>3, <1>4

Ints(f, V) == IsFiniteSet(V) /\ \A x \in V : f[x] \in Int

LEMMA IntsSubset ==
  ASSUME NEW f, NEW V, Ints(f, V), NEW T, T \subseteq V PROVE Ints(f, T)
BY FS_Subset DEF Ints

LEMMA SumEmpty == ASSUME NEW f PROVE SumOf(f, {}) = 0
BY SumRec, FS_EmptySet

LEMMA SumInt ==
  ASSUME NEW f, NEW V, Ints(f, V) PROVE SumOf(f, V) \in Int
<1> DEFINE X == {T \in SUBSET V : SumOf(f, T) \notin Int}
<1> SUFFICES ASSUME X # {} PROVE FALSE
  OBVIOUS
<1>1. X \subseteq SUBSET V /\ IsFiniteSet(V)
  BY DEF Ints
<1>2. PICK T \in X : \A s \in X : ~(s \subseteq T /\ s # T)
  <2> HIDE DEF X
  <2> QED
    BY <1>1, Smallest
<1>3. T \in SUBSET V /\ SumOf(f, T) \notin Int /\ IsFiniteSet(T)
  BY <1>1, FS_Subset
<1>4. T # {}
  BY <1>3, SumEmpty
<1> DEFINE u == T \ {Pick(T)}
<1>5. Pick(T) \in T /\ u \in SUBSET V /\ u \subseteq T /\ u # T
  BY <1>3, <1>4, PickIn
<1>6. SumOf(f, u) \in Int
  BY <1>2, <1>5
<1>7. SumOf(f, T) = f[Pick(T)] + SumOf(f, u)
  BY <1>3, <1>4, SumRec
<1> QED
  BY <1>3, <1>5, <1>6, <1>7 DEF Ints

LEMMA SumRemove ==
  ASSUME NEW f, NEW V, Ints(f, V), NEW x \in V
  PROVE  SumOf(f, V) = f[x] + SumOf(f, V \ {x})
<1> DEFINE Bad(T, y) == SumOf(f, T) # f[y] + SumOf(f, T \ {y})
           X == {T \in SUBSET V : \E y \in T : Bad(T, y)}
<1> SUFFICES ASSUME X # {} PROVE FALSE
  OBVIOUS
<1>1. X \subseteq SUBSET V /\ IsFiniteSet(V)
  BY DEF Ints
<1>2. PICK T \in X : \A s \in X : ~(s \subseteq T /\ s # T)
  <2> HIDE DEF X
  <2> QED
    BY <1>1, Smallest
<1>3. PICK y \in T : Bad(T, y)
  OBVIOUS
<1>4. T \in SUBSET V /\ IsFiniteSet(T) /\ T # {} /\ Ints(f, T)
  BY <1>1, <1>3, IntsSubset DEF Ints
<1> DEFINE p == Pick(T)
<1>5. p \in T
  BY <1>4, PickIn
<1>6. SumOf(f, T) = f[p] + SumOf(f, T \ {p})
  BY <1>4, SumRec
<1>7. p # y
  BY <1>3, <1>6
<1>13. ASSUME NEW s \in SUBSET T, s # T PROVE \A z \in s : ~Bad(s, z)
  <2>1. s \in SUBSET V /\ s \notin X
    BY <1>2, <1>4, <1>13
  <2> QED
    BY <2>1
<1>8. ~Bad(T \ {p}, y) /\ ~Bad(T \ {y}, p)
  <2>1. /\ T \ {p} \in SUBSET T /\ T \ {p} # T /\ y \in T \ {p}
        /\ T \ {y} \in SUBSET T /\ T \ {y} # T /\ p \in T \ {y}
    BY <1>3, <1>5, <1>7
  <2> HIDE DEF p, Bad
  <2> QED
    BY <1>13, <2>1
<1> DEFINE r == (T \ {p}) \ {y}
<1>9. (T \ {y}) \ {p} = r
  OBVIOUS
<1>10. f[p] \in Int /\ f[y] \in Int /\ SumOf(f, r) \in Int
  BY <1>4, <1>5, IntsSubset, SumInt DEF Ints
<1>11. SumOf(f, T \ {p}) = f[y] + SumOf(f, r) /\ SumOf(f, T \ {y}) = f[p] + SumOf(f, r)
  BY <1>8, <1>9
<1> HIDE DEF p, r
<1>12. SumOf(f, T) = f[y] + SumOf(f, T \ {y})
  BY <1>6, <1>10, <1>11
<1> QED
  BY <1>3, <1>12

LEMMA SumAdd ==
  ASSUME NEW f, NEW V, NEW x, x \notin V, Ints(f, V), f[x] \in Int
  PROVE  Ints(f, V \cup {x}) /\ SumOf(f, V \cup {x}) = f[x] + SumOf(f, V)
<1>1. Ints(f, V \cup {x})
  BY FS_AddElement DEF Ints
<1>2. (V \cup {x}) \ {x} = V
  OBVIOUS
<1> QED
  BY <1>1, <1>2, SumRemove

LEMMA SumSame ==
  ASSUME NEW f, NEW g, NEW V, Ints(f, V), \A x \in V : f[x] = g[x]
  PROVE  SumOf(f, V) = SumOf(g, V)
<1> DEFINE X == {T \in SUBSET V : SumOf(f, T) # SumOf(g, T)}
<1> SUFFICES ASSUME X # {} PROVE FALSE
  OBVIOUS
<1>1. X \subseteq SUBSET V /\ IsFiniteSet(V)
  BY DEF Ints
<1>2. PICK T \in X : \A s \in X : ~(s \subseteq T /\ s # T)
  <2> HIDE DEF X
  <2> QED
    BY <1>1, Smallest
<1>3. T \in SUBSET V /\ SumOf(f, T) # SumOf(g, T) /\ IsFiniteSet(T)
  BY <1>1, FS_Subset
<1>4. T # {}
  BY <1>3, SumEmpty
<1> DEFINE u == T \ {Pick(T)}
<1>5. Pick(T) \in T /\ u \in SUBSET V /\ u \subseteq T /\ u # T
  BY <1>3, <1>4, PickIn
<1>6. SumOf(f, u) = SumOf(g, u)
  BY <1>2, <1>5
<1>7. SumOf(f, T) = f[Pick(T)] + SumOf(f, u) /\ SumOf(g, T) = g[Pick(T)] + SumOf(g, u)
  BY <1>3, <1>4, SumRec
<1> QED
  BY <1>3, <1>5, <1>6, <1>7

LEMMA SumUnion ==
  ASSUME NEW f, NEW V, NEW W, Ints(f, V), Ints(f, W), V \cap W = {}
  PROVE  SumOf(f, V \cup W) = SumOf(f, V) + SumOf(f, W)
<1> DEFINE X == {T \in SUBSET W : SumOf(f, V \cup T) # SumOf(f, V) + SumOf(f, T)}
<1> SUFFICES ASSUME X # {} PROVE FALSE
  OBVIOUS
<1>1. X \subseteq SUBSET W /\ IsFiniteSet(W) /\ IsFiniteSet(V)
  BY DEF Ints
<1>2. PICK T \in X : \A s \in X : ~(s \subseteq T /\ s # T)
  <2> HIDE DEF X
  <2> QED
    BY <1>1, Smallest
<1>3. T \in SUBSET W /\ SumOf(f, V \cup T) # SumOf(f, V) + SumOf(f, T)
  OBVIOUS
<1>4. T # {}
  <2>1. SumOf(f, V) \in Int /\ SumOf(f, {}) = 0
    BY SumInt, SumEmpty
  <2>2. T = {} => V \cup T = V
    OBVIOUS
  <2>3. SumOf(f, V) = SumOf(f, V) + SumOf(f, {})
    BY <2>1
  <2>4. T = {} => SumOf(f, V \cup T) = SumOf(f, V) + SumOf(f, T)
    BY <2>2, <2>3
  <2> QED
    BY <1>3, <2>4
<1>5. PICK x : x \in T
  BY <1>4
<1> DEFINE u == T \ {x}
<1>6. u \in SUBSET W /\ u \subseteq T /\ u # T
  BY <1>3, <1>5
<1>7. SumOf(f, V \cup u) = SumOf(f, V) + SumOf(f, u)
  BY <1>2, <1>6
<1>8. /\ V \cup T = (V \cup u) \cup {x} /\ x \notin V \cup u
      /\ T = u \cup {x} /\ x \notin u
  BY <1>3, <1>5
<1>9. Ints(f, u) /\ Ints(f, V \cup u) /\ f[x] \in Int
  <2>1. Ints(f, u)
    BY <1>6, IntsSubset
  <2>2. IsFiniteSet(V \cup u)
    BY <1>1, <2>1, FS_Union DEF Ints
  <2> QED
    BY <1>3, <1>5, <2>1, <2>2 DEF Ints
<1> HIDE DEF u
<1>10. /\ SumOf(f, V \cup T) = f[x] + SumOf(f, V \cup u)
       /\ SumOf(f, T) = f[x] + SumOf(f, u)
  <2>1. SumOf(f, (V \cup u) \cup {x}) = f[x] + SumOf(f, V \cup u)
    BY <1>8, <1>9, SumAdd
  <2>2. SumOf(f, u \cup {x}) = f[x] + SumOf(f, u)
    BY <1>8, <1>9, SumAdd
  <2> QED
    BY <1>8, <2>1, <2>2
<1>11. SumOf(f, V) \in Int /\ SumOf(f, u) \in Int
  BY <1>9, SumInt
<1> QED
  BY <1>3, <1>7, <1>9, <1>10, <1>11

LEMMA SumSplit ==
  ASSUME NEW f, NEW V, Ints(f, V), NEW T, T \subseteq V
  PROVE  SumOf(f, V) = SumOf(f, T) + SumOf(f, V \ T)
<1>1. Ints(f, T) /\ Ints(f, V \ T) /\ T \cap (V \ T) = {} /\ T \cup (V \ T) = V
  BY IntsSubset
<1>2. SumOf(f, T \cup (V \ T)) = SumOf(f, T) + SumOf(f, V \ T)
  BY <1>1, SumUnion
<1> QED
  BY <1>1, <1>2

LEMMA SumAtMost ==
  ASSUME NEW f, NEW g, NEW V, Ints(f, V), Ints(g, V), \A x \in V : f[x] <= g[x]
  PROVE  SumOf(f, V) <= SumOf(g, V)
<1> DEFINE X == {T \in SUBSET V : ~(SumOf(f, T) <= SumOf(g, T))}
<1> SUFFICES ASSUME X # {} PROVE FALSE
  OBVIOUS
<1>1. X \subseteq SUBSET V /\ IsFiniteSet(V)
  BY DEF Ints
<1>2. PICK T \in X : \A s \in X : ~(s \subseteq T /\ s # T)
  <2> HIDE DEF X
  <2> QED
    BY <1>1, Smallest
<1>3. T \in SUBSET V /\ ~(SumOf(f, T) <= SumOf(g, T)) /\ Ints(f, T) /\ Ints(g, T)
  BY IntsSubset
<1>4. T # {}
  <2>1. SumOf(f, {}) = 0 /\ SumOf(g, {}) = 0
    BY SumEmpty
  <2> QED
    BY <1>3, <2>1
<1>5. PICK x : x \in T
  BY <1>4
<1> DEFINE u == T \ {x}
<1>6. u \in SUBSET V /\ u \subseteq T /\ u # T
  BY <1>3, <1>5
<1>7. SumOf(f, u) <= SumOf(g, u)
  BY <1>2, <1>6
<1>8. SumOf(f, T) = f[x] + SumOf(f, u) /\ SumOf(g, T) = g[x] + SumOf(g, u)
  BY <1>3, <1>5, SumRemove
<1>9. SumOf(f, u) \in Int /\ SumOf(g, u) \in Int
  BY <1>6, IntsSubset, SumInt
<1> QED
  BY <1>3, <1>5, <1>7, <1>8, <1>9 DEF Ints

LEMMA SumZero ==
  ASSUME NEW f, NEW V, IsFiniteSet(V), \A x \in V : f[x] = 0
  PROVE  SumOf(f, V) = 0
<1> DEFINE X == {T \in SUBSET V : SumOf(f, T) # 0}
<1> SUFFICES ASSUME X # {} PROVE FALSE
  OBVIOUS
<1>1. X \subseteq SUBSET V
  OBVIOUS
<1>2. PICK T \in X : \A s \in X : ~(s \subseteq T /\ s # T)
  <2> HIDE DEF X
  <2> QED
    BY <1>1, Smallest
<1>3. T \in SUBSET V /\ SumOf(f, T) # 0 /\ Ints(f, T)
  BY FS_Subset DEF Ints
<1>4. T # {}
  BY <1>3, SumEmpty
<1>5. PICK x : x \in T
  BY <1>4
<1> DEFINE u == T \ {x}
<1>6. SumOf(f, u) = 0
  BY <1>2, <1>3, <1>5
<1>7. SumOf(f, T) = f[x] + SumOf(f, u)
  BY <1>3, <1>5, SumRemove
<1> QED
  BY <1>3, <1>5, <1>6, <1>7

LEMMA SumNat ==
  ASSUME NEW f, NEW V, Ints(f, V), \A x \in V : f[x] >= 0
  PROVE  SumOf(f, V) \in Nat
<1> DEFINE z == [x \in V |-> 0]
<1>1. Ints(z, V) /\ SumOf(z, V) = 0
  <2>1. \A x \in V : z[x] = 0
    OBVIOUS
  <2> HIDE DEF z
  <2> QED
    BY <2>1, SumZero DEF Ints
<1>2. \A x \in V : z[x] <= f[x]
  BY DEF Ints
<1> HIDE DEF z
<1>3. SumOf(z, V) <= SumOf(f, V)
  BY <1>1, <1>2, SumAtMost
<1> QED
  BY <1>1, <1>3, SumInt

LEMMA SumMono ==
  ASSUME NEW f, NEW V, Ints(f, V), \A x \in V : f[x] >= 0, NEW T, T \subseteq V
  PROVE  SumOf(f, T) <= SumOf(f, V)
<1>1. Ints(f, T) /\ Ints(f, V \ T)
  BY IntsSubset
<1>2. SumOf(f, V \ T) \in Nat /\ SumOf(f, T) \in Int
  BY <1>1, SumNat, SumInt
<1> QED
  BY <1>2, SumSplit

LEMMA SumChange ==
  ASSUME NEW f, NEW g, NEW V, Ints(f, V), NEW x \in V, g[x] \in Int,
         \A y \in V : y # x => g[y] = f[y]
  PROVE  Ints(g, V) /\ SumOf(g, V) = SumOf(f, V) + g[x] - f[x]
<1>1. Ints(g, V)
  BY DEF Ints
<1> DEFINE u == V \ {x}
<1>2. Ints(f, u) /\ SumOf(f, u) \in Int /\ f[x] \in Int
  BY IntsSubset, SumInt DEF Ints
<1>3. SumOf(f, u) = SumOf(g, u)
  BY <1>2, SumSame
<1>4. SumOf(f, V) = f[x] + SumOf(f, u) /\ SumOf(g, V) = g[x] + SumOf(g, u)
  BY <1>1, SumRemove
<1> HIDE DEF u
<1> QED
  BY <1>1, <1>2, <1>3, <1>4

(* An element joins, or leaves, and the values of the others stay.         *)
LEMMA SumJoin ==
  ASSUME NEW f, NEW g, NEW V, Ints(f, V), NEW x, x \notin V, g[x] \in Int,
         \A y \in V : f[y] = g[y]
  PROVE  SumOf(g, V \cup {x}) = SumOf(f, V) + g[x]
<1>1. SumOf(f, V) = SumOf(g, V) /\ Ints(g, V)
  BY SumSame DEF Ints
<1>2. SumOf(g, V \cup {x}) = g[x] + SumOf(g, V)
  BY <1>1, SumAdd
<1>3. SumOf(g, V) \in Int
  BY <1>1, SumInt
<1> QED
  BY <1>1, <1>2, <1>3

LEMMA SumLeave ==
  ASSUME NEW f, NEW g, NEW V, Ints(f, V), NEW x \in V,
         \A y \in V \ {x} : f[y] = g[y]
  PROVE  SumOf(g, V \ {x}) = SumOf(f, V) - f[x]
<1>1. Ints(f, V \ {x})
  BY IntsSubset
<1>2. SumOf(f, V) = f[x] + SumOf(f, V \ {x}) /\ f[x] \in Int
  BY SumRemove DEF Ints
<1>3. SumOf(f, V \ {x}) = SumOf(g, V \ {x}) /\ SumOf(f, V \ {x}) \in Int
  BY <1>1, SumSame, SumInt
<1> QED
  BY <1>2, <1>3

(* A sum of ones counts, and ones among zeros are counted.                 *)
LEMMA SumOnes ==
  ASSUME NEW f, NEW V, IsFiniteSet(V), \A x \in V : f[x] = 1
  PROVE  SumOf(f, V) = Cardinality(V)
<1> DEFINE X == {T \in SUBSET V : SumOf(f, T) # Cardinality(T)}
<1> SUFFICES ASSUME X # {} PROVE FALSE
  OBVIOUS
<1>1. X \subseteq SUBSET V
  OBVIOUS
<1>2. PICK T \in X : \A s \in X : ~(s \subseteq T /\ s # T)
  <2> HIDE DEF X
  <2> QED
    BY <1>1, Smallest
<1>3. T \in SUBSET V /\ SumOf(f, T) # Cardinality(T) /\ IsFiniteSet(T) /\ Ints(f, T)
  BY FS_Subset DEF Ints
<1>4. T # {}
  BY <1>3, SumEmpty, FS_EmptySet
<1>5. PICK x : x \in T
  BY <1>4
<1> DEFINE u == T \ {x}
<1>6. SumOf(f, u) = Cardinality(u)
  BY <1>2, <1>3, <1>5
<1>7. SumOf(f, T) = f[x] + SumOf(f, u)
  BY <1>3, <1>5, SumRemove
<1>8. Cardinality(u) = Cardinality(T) - 1 /\ Cardinality(T) \in Nat
  BY <1>3, <1>5, FS_RemoveElement, FS_CardinalityType
<1> QED
  BY <1>3, <1>5, <1>6, <1>7, <1>8

LEMMA SumCount ==
  ASSUME NEW f, NEW V, IsFiniteSet(V), NEW T, T \subseteq V,
         \A x \in V : f[x] = IF x \in T THEN 1 ELSE 0
  PROVE  SumOf(f, V) = Cardinality(T)
<1>1. Ints(f, V) /\ IsFiniteSet(T) /\ IsFiniteSet(V \ T)
  BY FS_Subset DEF Ints
<1>2. SumOf(f, T) = Cardinality(T) /\ Cardinality(T) \in Nat
  BY <1>1, SumOnes, FS_CardinalityType
<1>3. SumOf(f, V \ T) = 0
  BY <1>1, SumZero
<1> QED
  BY <1>1, <1>2, <1>3, SumSplit
=============================================================================
