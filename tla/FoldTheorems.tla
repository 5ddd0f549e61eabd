---------------------------- MODULE FoldTheorems ----------------------------
(***************************************************************************)
(* A loop over a finite set of numbers in ascending order, or over a       *)
(* sequence: what FoldAscending and FoldLeft compute from a state b by a   *)
(* step Op that takes a fixed argument p, the state and a number.  The     *)
(* module is instantiated with the step of a loop and with what is to be   *)
(* shown of it: Good says what holds of the state once the elements of a   *)
(* set have been taken.                                                    *)
(***************************************************************************)
EXTENDS SumTheorems

CONSTANTS Op(_, _, _), Good(_, _, _)

(* The loop over S, and the function that computes it on subsets.          *)
Loop(p, b, S) ==
  MapThenFoldSet(LAMBDA x, a : Op(p, a, x), b, LAMBDA i : i, LAMBDA T : Max(T), S)

Loops(g, p, b, S) ==
  g = [s \in SUBSET S |-> IF s = {} THEN b ELSE Op(p, g[s \ {Max(s)}], Max(s))]

(* A finite set of numbers has a largest one.                              *)
LEMMA MaxIn ==
  ASSUME NEW S, IsFiniteSet(S), S \subseteq Nat
  PROVE  \A T \in SUBSET S : T # {} => Max(T) \in T /\ \A y \in T : y <= Max(T)
<1> DEFINE X == {T \in SUBSET S : T # {} /\ ~\E x \in T : \A y \in T : x >= y}
<1>1. X = {}
  <2> SUFFICES ASSUME X # {} PROVE FALSE
    OBVIOUS
  <2>1. IsFiniteSet(S) /\ X \subseteq SUBSET S /\ X # {}
    OBVIOUS
  <2>2. PICK t \in X : \A s \in X : ~(s \subseteq t /\ s # t)
    <3> HIDE DEF X
    <3> QED
      BY ONLY <2>1, Smallest
  <2>3. PICK z \in t : TRUE
    OBVIOUS
  <2>4. t \in SUBSET Nat /\ z \in Nat /\ ~\E x \in t : \A y \in t : x >= y
    OBVIOUS
  <2>5. t \ {z} \notin X /\ t \ {z} \in SUBSET S
    BY <2>2, <2>3
  <2>6. CASE t \ {z} = {}
    BY <2>3, <2>4, <2>6
  <2>7. CASE t \ {z} # {}
    <3>1. PICK x \in t \ {z} : \A y \in t \ {z} : x >= y
      BY <2>5, <2>7
    <3>2. x \in Nat
      BY <2>4
    <3>3. \A y \in t : z >= y \/ x >= y
      BY <2>4, <3>1
    <3>4. (\A y \in t : x >= y) \/ (\A y \in t : z >= y)
      BY <2>3, <2>4, <3>1, <3>2, <3>3
    <3> QED
      BY <2>3, <2>4, <3>1, <3>4
  <2> QED
    BY <2>6, <2>7
<1>2. ASSUME NEW T \in SUBSET S, T # {} PROVE \E x \in T : \A y \in T : x >= y
  BY <1>1, <1>2
<1>3. ASSUME NEW T \in SUBSET S, T # {} PROVE Max(T) \in T /\ \A y \in T : y <= Max(T)
  <2>1. Max(T) \in T /\ \A y \in T : Max(T) >= y
    BY <1>2, <1>3 DEF Max
  <2> QED
    BY <2>1
<1> QED
  BY <1>3

(* Induction along the loop: G is the set of the sets of elements after    *)
(* which what is to be shown holds.                                        *)
LEMMA LoopInduction ==
  ASSUME NEW S, IsFiniteSet(S), S \subseteq Nat, NEW G, {} \in G,
         \A T \in SUBSET S : T # {} /\ T \ {Max(T)} \in G => T \in G
  PROVE  S \in G
<1> DEFINE X == {T \in SUBSET S : T \notin G}
<1> SUFFICES ASSUME X # {} PROVE FALSE
  OBVIOUS
<1>1. IsFiniteSet(S) /\ X \subseteq SUBSET S /\ X # {}
  OBVIOUS
<1>2. PICK t \in X : \A s \in X : ~(s \subseteq t /\ s # t)
  <2> HIDE DEF X
  <2> QED
    BY ONLY <1>1, Smallest
<1>3. t \in SUBSET S /\ t \notin G /\ t # {}
  OBVIOUS
<1>4. Max(t) \in t
  BY <1>3, MaxIn
<1>5. t \ {Max(t)} \in G
  BY <1>2, <1>3, <1>4
<1> QED
  BY <1>3, <1>5

-----------------------------------------------------------------------------
(* A finite set of numbers.                                                *)
Numbers(S) == IsFiniteSet(S) /\ S \subseteq Nat

LEMMA LoopsAgree ==
  ASSUME NEW S, Numbers(S), NEW W, W \subseteq S,
         NEW p, NEW b, NEW g, NEW h, Loops(g, p, b, S), Loops(h, p, b, W)
  PROVE  \A s \in SUBSET W : g[s] = h[s]
<1> SUFFICES ASSUME NEW s \in SUBSET W PROVE g[s] = h[s]
  OBVIOUS
<1> DEFINE G == {t \in SUBSET s : g[t] = h[t]}
<1>1. IsFiniteSet(s) /\ s \subseteq Nat
  BY FS_Subset DEF Numbers
<1>2. {} \in G
  BY DEF Loops
<1>3. ASSUME NEW t \in SUBSET s, t # {}, t \ {Max(t)} \in G PROVE t \in G
  <2>1. g[t] = Op(p, g[t \ {Max(t)}], Max(t))
    BY <1>3 DEF Loops
  <2>2. h[t] = Op(p, h[t \ {Max(t)}], Max(t))
    BY <1>3 DEF Loops
  <2> QED
    BY <1>3, <2>1, <2>2
<1>4. s \in G
  <2> HIDE DEF G
  <2> QED
    BY <1>1, <1>2, <1>3, LoopInduction
<1> QED
  BY <1>4

LEMMA LoopsAgreeAt ==
  ASSUME NEW S, Numbers(S), NEW p, NEW b, NEW g, Loops(g, p, b, S)
  PROVE  \A W \in SUBSET S : \A h : Loops(h, p, b, W) => g[W] = h[W]
<1> SUFFICES ASSUME NEW W, W \subseteq S, NEW h, Loops(h, p, b, W) PROVE g[W] = h[W]
  OBVIOUS
<1>1. \A s \in SUBSET W : g[s] = h[s]
  BY LoopsAgree
<1> QED
  BY <1>1

LEMMA LoopDef ==
  ASSUME NEW p, NEW b, NEW S
  PROVE  Loop(p, b, S) = (CHOOSE g : Loops(g, p, b, S))[S]
BY DEF Loop, MapThenFoldSet, Loops

LEMMA LoopsExists ==
  ASSUME NEW p, NEW b, NEW U, IsFiniteSet(U), U \subseteq Nat
  PROVE  \A V \in SUBSET U : Loops(CHOOSE g : Loops(g, p, b, V), p, b, V)
<1> DEFINE C(V) == CHOOSE g : Loops(g, p, b, V)
           X == {V \in SUBSET U : ~Loops(C(V), p, b, V)}
<1> SUFFICES ASSUME X # {} PROVE FALSE
  OBVIOUS
<1>1. IsFiniteSet(U) /\ X \subseteq SUBSET U /\ X # {}
  OBVIOUS
<1>2. PICK V \in X : \A s \in X : ~(s \subseteq V /\ s # V)
  <2> HIDE DEF X
  <2> QED
    BY ONLY <1>1, Smallest
<1>3. V \in SUBSET U /\ ~Loops(C(V), p, b, V)
  OBVIOUS
<1>4. \A s \in SUBSET V : s # V => Loops(C(s), p, b, s)
  BY <1>2, <1>3
<1>5. ASSUME NEW s \in SUBSET V, s # V, NEW t \in SUBSET s PROVE C(s)[t] = C(t)[t]
  <2>1. Numbers(s)
    BY <1>3, FS_Subset DEF Numbers
  <2>2. Loops(C(s), p, b, s) /\ Loops(C(t), p, b, t)
    BY <1>4, <1>5
  <2>3. t \subseteq s
    OBVIOUS
  <2> HIDE DEF C, X
  <2> QED
    BY ONLY <2>1, <2>2, <2>3, LoopsAgreeAt
<1> DEFINE v(s) == s \ {Max(s)}
           g == [s \in SUBSET V |-> IF s = {} THEN b ELSE Op(p, C(v(s))[v(s)], Max(s))]
<1>6. ASSUME NEW s \in SUBSET V, s # V PROVE g[s] = C(s)[s]
  <2>1. C(s)[s] = IF s = {} THEN b ELSE Op(p, C(s)[v(s)], Max(s))
    <3>1. Loops(C(s), p, b, s)
      BY <1>4, <1>6
    <3> HIDE DEF C
    <3> QED
      BY <3>1 DEF Loops
  <2>2. C(s)[v(s)] = C(v(s))[v(s)]
    BY <1>5, <1>6
  <2> HIDE DEF C
  <2> QED
    BY <2>1, <2>2
<1>7. ASSUME NEW s \in SUBSET V, s # {} PROVE g[v(s)] = C(v(s))[v(s)]
  <2>1. v(s) \in SUBSET V /\ v(s) # V
    BY <1>3, <1>7, MaxIn
  <2> HIDE DEF g, v, C
  <2> QED
    BY <1>6, <2>1
<1> HIDE DEF C
<1>8. Loops(g, p, b, V)
  <2>1. \A s \in SUBSET V : s # {} => g[v(s)] = C(v(s))[v(s)]
    BY <1>7
  <2>2. g = [s \in SUBSET V |-> IF s = {} THEN b ELSE Op(p, g[v(s)], Max(s))]
    BY <2>1
  <2> QED
    BY <2>2 DEF Loops
<1>9. Loops(C(V), p, b, V)
  <2> HIDE DEF g
  <2> QED
    BY <1>8 DEF C
<1> QED
  BY <1>3, <1>9

(* What the loop has computed after its last element is the step of that   *)
(* element on what it had computed before.                                 *)
THEOREM LoopRec ==
  ASSUME NEW p, NEW b, NEW S, Numbers(S)
  PROVE  /\ S = {} => Loop(p, b, S) = b
         /\ S # {} => Loop(p, b, S) = Op(p, Loop(p, b, S \ {Max(S)}), Max(S))
<1> DEFINE C(T) == CHOOSE g : Loops(g, p, b, T)
           W == S \ {Max(S)}
<1>1. Loops(C(S), p, b, S) /\ Loops(C(W), p, b, W)
  BY LoopsExists DEF Numbers
<1>2. Loop(p, b, S) = C(S)[S] /\ Loop(p, b, W) = C(W)[W]
  BY LoopDef
<1> HIDE DEF C
<1>3. C(S)[W] = C(W)[W]
  <2>1. Numbers(S) /\ W \in SUBSET S
    OBVIOUS
  <2> HIDE DEF W
  <2> QED
    BY ONLY <1>1, <2>1, LoopsAgreeAt
<1>4. C(S)[S] = IF S = {} THEN b ELSE Op(p, C(S)[W], Max(S))
  BY <1>1 DEF Loops
<1> QED
  BY <1>2, <1>3, <1>4

(* What holds before the loop and is kept by its step holds after it.      *)
THEOREM LoopInvariant ==
  ASSUME NEW p, NEW b, NEW n \in Nat, NEW S, S \subseteq 0 .. n, Good(p, {}, b),
         \A T \in SUBSET S : \A x \in S \ T : \A a :
           Good(p, T, a) /\ (\A y \in T : y < x) => Good(p, T \union {x}, Op(p, a, x))
  PROVE  Good(p, S, Loop(p, b, S))
<1> DEFINE G == {T \in SUBSET S : Good(p, T, Loop(p, b, T))}
<1>1. IsFiniteSet(S) /\ S \subseteq Nat
  <2>1. 0 \in Int /\ n \in Int
    OBVIOUS
  <2>2. IsFiniteSet(0 .. n)
    BY ONLY <2>1, FS_Interval
  <2>3. S \subseteq 0 .. n
    OBVIOUS
  <2>4. IsFiniteSet(S)
    BY ONLY <2>2, <2>3, FS_Subset
  <2> QED
    BY <2>3, <2>4
<1>2. ASSUME NEW T \in SUBSET S PROVE IsFiniteSet(T) /\ T \subseteq Nat
  <2>1. T \subseteq S
    OBVIOUS
  <2>2. IsFiniteSet(T)
    BY ONLY <1>1, <2>1, FS_Subset
  <2> QED
    BY <1>1, <2>2
<1>3. {} \in G
  BY <1>2, LoopRec DEF Numbers
<1>4. ASSUME NEW T \in SUBSET S, T # {}, T \ {Max(T)} \in G PROVE T \in G
  <2> DEFINE x == Max(T)
             R == T \ {x}
  <2>1. x \in T /\ \A y \in T : y <= x
    <3>1. \A V \in SUBSET S : V # {} => Max(V) \in V /\ \A y \in V : y <= Max(V)
      BY ONLY <1>1, MaxIn
    <3> QED
      BY ONLY <1>4, <3>1
  <2>2. x \in S \ R /\ R \in SUBSET S /\ R \union {x} = T
    BY <2>1
  <2>3. \A y \in R : y < x
    <3>1. x \in Nat /\ R \subseteq Nat /\ \A y \in R : y # x /\ y <= x
      BY <1>1, <2>1, <2>2
    <3> HIDE DEF x, R
    <3> QED
      BY ONLY <3>1
  <2>4. Loop(p, b, T) = Op(p, Loop(p, b, R), x)
    <3>1. Numbers(T) /\ T # {}
      BY <1>2, <1>4 DEF Numbers
    <3> QED
      BY ONLY <3>1, LoopRec
  <2>5. Good(p, R, Loop(p, b, R))
    BY <1>4
  <2>6. Good(p, R \union {x}, Op(p, Loop(p, b, R), x))
    <3> HIDE DEF x, R, G
    <3> QED
      BY <2>2, <2>3, <2>5
  <2> QED
    BY <2>2, <2>4, <2>6
<1> HIDE DEF G
<1>5. S \in G
  BY ONLY <1>1, <1>3, <1>4, LoopInduction
<1> QED
  BY <1>5 DEF G

(* A loop over a sequence, or over the first numbers, step by step.        *)
LEMMA LoopTo ==
  ASSUME NEW p, NEW b, NEW n \in Nat
  PROVE  /\ Loop(p, b, 1 .. 0) = b
         /\ Loop(p, b, 1 .. (n + 1)) = Op(p, Loop(p, b, 1 .. n), n + 1)
<1>1. Numbers(1 .. 0) /\ Numbers(1 .. (n + 1))
  <2>1. 0 \in Int /\ 1 \in Int /\ n + 1 \in Int
    OBVIOUS
  <2>2. IsFiniteSet(1 .. 0) /\ IsFiniteSet(1 .. (n + 1))
    BY ONLY <2>1, FS_Interval
  <2>3. 1 .. 0 \subseteq Nat /\ 1 .. (n + 1) \subseteq Nat
    OBVIOUS
  <2> QED
    BY <2>2, <2>3 DEF Numbers
<1>2. Max(1 .. (n + 1)) = n + 1
  <2>1. \A T \in SUBSET (1 .. (n + 1)) : T # {} => Max(T) \in T /\ \A y \in T : y <= Max(T)
    BY <1>1, MaxIn DEF Numbers
  <2>2. 1 .. (n + 1) # {} /\ n + 1 \in 1 .. (n + 1)
    OBVIOUS
  <2>3. Max(1 .. (n + 1)) \in 1 .. (n + 1) /\ n + 1 <= Max(1 .. (n + 1))
    BY <2>1, <2>2
  <2> QED
    BY <2>3
<1>3. (1 .. (n + 1)) \ {n + 1} = 1 .. n /\ 1 .. (n + 1) # {} /\ 1 .. 0 = {}
  OBVIOUS
<1>4. Loop(p, b, 1 .. 0) = b
  BY <1>1, <1>3, LoopRec
<1>5. PICK S : S = 1 .. (n + 1)
  OBVIOUS
<1>6. Loop(p, b, S) = Op(p, Loop(p, b, S \ {Max(S)}), Max(S))
  <2>1. Numbers(S) /\ S # {}
    BY <1>1, <1>3, <1>5
  <2> QED
    BY ONLY <2>1, LoopRec
<1> QED
  BY <1>2, <1>3, <1>4, <1>5, <1>6

LEMMA LoopShort ==
  ASSUME NEW p, NEW b
  PROVE  /\ Loop(p, b, 1 .. 0) = b
         /\ Loop(p, b, 1 .. 1) = Op(p, b, 1)
         /\ Loop(p, b, 1 .. 2) = Op(p, Op(p, b, 1), 2)
<1>1. \A n \in Nat : /\ Loop(p, b, 1 .. 0) = b
                     /\ Loop(p, b, 1 .. (n + 1)) = Op(p, Loop(p, b, 1 .. n), n + 1)
  BY LoopTo
<1>2. 0 \in Nat /\ 1 \in Nat
  OBVIOUS
<1>3. /\ Loop(p, b, 1 .. 0) = b
      /\ Loop(p, b, 1 .. (0 + 1)) = Op(p, Loop(p, b, 1 .. 0), 0 + 1)
      /\ Loop(p, b, 1 .. (1 + 1)) = Op(p, Loop(p, b, 1 .. 1), 1 + 1)
  BY <1>1, <1>2
<1>4. 0 + 1 = 1 /\ 1 + 1 = 2
  OBVIOUS
<1> QED
  BY <1>3, <1>4

(* The loop over a set with one more element, above all others.            *)
Follows(S, x, n) == n \in Nat /\ S \subseteq 0 .. n /\ x \in 0 .. n /\ \A y \in S : y < x

LEMMA LoopNext ==
  ASSUME NEW p, NEW b, NEW n, NEW S, NEW x, Follows(S, x, n)
  PROVE  /\ Loop(p, b, {}) = b
         /\ Loop(p, b, S \union {x}) = Op(p, Loop(p, b, S), x)
<1>h. n \in Nat /\ S \subseteq 0 .. n /\ x \in 0 .. n /\ \A y \in S : y < x
  BY DEF Follows
<1>1. PICK T : T = S \union {x}
  OBVIOUS
<1>2. Numbers({}) /\ Numbers(T)
  <2>1. 0 \in Int /\ n \in Int
    BY <1>h
  <2>2. IsFiniteSet(0 .. n)
    BY ONLY <2>1, FS_Interval
  <2>3. T \subseteq 0 .. n /\ {} \subseteq 0 .. n
    BY <1>h, <1>1
  <2>4. IsFiniteSet(T) /\ IsFiniteSet({})
    BY ONLY <2>2, <2>3, FS_Subset
  <2> QED
    BY <2>3, <2>4 DEF Numbers
<1>3. Max(T) = x
  <2>1. Max(T) \in T /\ \A y \in T : y <= Max(T)
    <3>1. T \in SUBSET T /\ T # {}
      BY <1>1
    <3>2. IsFiniteSet(T) /\ T \subseteq Nat
      BY <1>2 DEF Numbers
    <3>3. \A V \in SUBSET T : V # {} => Max(V) \in V /\ \A y \in V : y <= Max(V)
      BY ONLY <3>2, MaxIn
    <3> QED
      BY ONLY <3>1, <3>3
  <2>2. x \in T /\ \A y \in T : y \in Nat /\ (y = x \/ y < x)
    BY <1>h, <1>1
  <2>3. PICK z : z = Max(T)
    OBVIOUS
  <2>4. z \in T /\ x <= z /\ z \in Nat /\ x \in Nat /\ (z = x \/ z < x)
    BY <2>1, <2>2, <2>3
  <2>5. z = x
    BY ONLY <2>4
  <2> QED
    BY ONLY <2>3, <2>5
<1>4. T # {} /\ T \ {x} = S
  BY <1>h, <1>1
<1>5. Loop(p, b, T) = Op(p, Loop(p, b, T \ {Max(T)}), Max(T)) /\ Loop(p, b, {}) = b
  BY <1>2, <1>4, LoopRec
<1> QED
  BY <1>1, <1>3, <1>4, <1>5
=============================================================================
