------------------------------ MODULE Recursion ------------------------------
(***************************************************************************)
(* Functions on the naturals that are defined by recursion, for any step:  *)
(* they exist, so that their definition holds of them.  A module that      *)
(* proves something about such a function instantiates Step.               *)
(***************************************************************************)
EXTENDS Naturals, WellFoundedInduction, TLAPS

\* Step(p, k, v): the value at k, where v is the one at k - 1; p is whatever
\* else it depends on.
CONSTANT Step(_, _, _)

-----------------------------------------------------------------------------
\* Induction, by the least counterexample.

LEMMA Induction ==
    ASSUME NEW T, 0 \in T, \A n \in T \cap Nat : n + 1 \in T
    PROVE  Nat \subseteq T
<1> DEFINE Less == OpToRel(<, Nat)
           U    == Nat \ T
<1>1. SUFFICES ASSUME U # {} PROVE FALSE
  OBVIOUS
<1>2. IsWellFoundedOn(Less, Nat)  BY NatLessThanWellFounded
<1>3. U \subseteq Nat  OBVIOUS
<1> HIDE DEF U
<1>4. PICK x \in U : \A y \in U : <<y, x>> \notin Less
  BY <1>1, <1>2, <1>3, WFMin
<1>5. \A a, b \in Nat : a < b => <<a, b>> \in Less  BY DEF OpToRel
<1>6. x \in Nat /\ x # 0 /\ x \notin T  BY <1>3 DEF U
<1>7. x - 1 \in Nat /\ x - 1 < x /\ (x - 1) + 1 = x  BY <1>6
<1>8. x - 1 \notin U  BY <1>4, <1>5, <1>6, <1>7
<1>9. x - 1 \in T \cap Nat  BY <1>7, <1>8 DEF U
<1>10. QED  BY <1>6, <1>7, <1>9

-----------------------------------------------------------------------------
\* The beginning of the function, as far as n.
IsPart(g, p, base, n) ==
    g = [k \in 0 .. n |-> IF k = 0 THEN base ELSE Step(p, k, g[k - 1])]

LEMMA PartsAgree ==
    ASSUME NEW p, NEW base, NEW m \in Nat, NEW n \in Nat, NEW g, NEW h,
           IsPart(g, p, base, m), IsPart(h, p, base, n)
    PROVE  \A k \in Nat : k <= m /\ k <= n => g[k] = h[k]
<1> DEFINE T == {k \in Nat : k <= m /\ k <= n => g[k] = h[k]}
<1>1. 0 \in T
  <2>1. 0 \in 0 .. m /\ 0 \in 0 .. n  OBVIOUS
  <2>2. g[0] = base /\ h[0] = base  BY <2>1 DEF IsPart
  <2>3. QED  BY <2>2
<1>2. ASSUME NEW k \in T \cap Nat PROVE k + 1 \in T
  <2>1. SUFFICES ASSUME k + 1 <= m, k + 1 <= n PROVE g[k + 1] = h[k + 1]
    OBVIOUS
  <2>2. /\ k + 1 \in 0 .. m /\ k + 1 \in 0 .. n
        /\ k + 1 # 0 /\ (k + 1) - 1 = k /\ k <= m /\ k <= n
    BY <2>1
  <2>3. g[k + 1] = Step(p, k + 1, g[k]) /\ h[k + 1] = Step(p, k + 1, h[k])
    BY <2>2 DEF IsPart
  <2>4. g[k] = h[k]  BY <2>2
  <2>5. QED  BY <2>3, <2>4
<1> HIDE DEF T
<1>3. Nat \subseteq T  BY <1>1, <1>2, Induction
<1>4. QED  BY <1>3 DEF T

LEMMA PartsExist ==
    ASSUME NEW p, NEW base
    PROVE  \A n \in Nat : \E g : IsPart(g, p, base, n)
<1> DEFINE T == {n \in Nat : \E g : IsPart(g, p, base, n)}
<1>1. 0 \in T
  <2> DEFINE g == [k \in 0 .. 0 |-> base]
  <2>1. g = [k \in 0 .. 0 |-> IF k = 0 THEN base ELSE Step(p, k, g[k - 1])]
    OBVIOUS
  <2>2. IsPart(g, p, base, 0)  BY <2>1 DEF IsPart
  <2>3. QED  BY <2>2
<1>2. ASSUME NEW n \in T \cap Nat PROVE n + 1 \in T
  <2>1. PICK g : IsPart(g, p, base, n)  OBVIOUS
  <2> DEFINE h == [k \in 0 .. n + 1 |->
                      IF k = n + 1 THEN Step(p, n + 1, g[n]) ELSE g[k]]
             next(k) == IF k = 0 THEN base ELSE Step(p, k, h[k - 1])
  <2>2. ASSUME NEW k \in 0 .. n + 1 PROVE h[k] = next(k)
    <3>1. CASE k = 0
      <4>1. 0 \in 0 .. n /\ 0 # n + 1 /\ 0 \in 0 .. n + 1 OBVIOUS
      <4>2. g[0] = base  BY <2>1, <4>1 DEF IsPart
      <4>3. QED  BY <3>1, <4>1, <4>2
    <3>2. CASE k \in 1 .. n
      <4>1. /\ k \in 0 .. n /\ k # 0 /\ k # n + 1
            /\ k - 1 \in 0 .. n + 1 /\ k - 1 # n + 1
        BY <3>2
      <4>2. g[k] = Step(p, k, g[k - 1])  BY <2>1, <4>1 DEF IsPart
      <4>3. h[k - 1] = g[k - 1] /\ h[k] = g[k]  BY <4>1
      <4>4. QED  BY <4>1, <4>2, <4>3
    <3>3. CASE k = n + 1
      <4>1. k # 0 /\ k - 1 = n /\ n \in 0 .. n + 1 /\ n # n + 1  BY <3>3
      <4>2. h[n] = g[n] /\ h[k] = Step(p, k, g[n])  BY <3>3, <4>1
      <4>3. QED  BY <4>1, <4>2
    <3>4. QED  BY <3>1, <3>2, <3>3
  <2>3. h = [k \in 0 .. n + 1 |-> next(k)]
    <3>1. h = [k \in 0 .. n + 1 |-> h[k]]  OBVIOUS
    <3> HIDE DEF h
    <3>2. QED  BY <2>2, <3>1
  <2> HIDE DEF h
  <2>4. IsPart(h, p, base, n + 1)  BY <2>3 DEF IsPart
  <2>5. QED  BY <2>4
<1> HIDE DEF T
<1>3. Nat \subseteq T  BY <1>1, <1>2, Induction
<1>4. QED  BY <1>3 DEF T

\* What a definition by recursion says of its function.
IsDefinedBy(f, p, base) ==
    f = [k \in Nat |-> IF k = 0 THEN base ELSE Step(p, k, f[k - 1])]

\* A function with its definition by recursion exists, so that the definition,
\* which chooses one, is true of it.
THEOREM RecursionExists == \A p, base : \E f : IsDefinedBy(f, p, base)
<1> TAKE p, base
<1> DEFINE part(n) == CHOOSE g : IsPart(g, p, base, n)
           all     == [k \in Nat |-> part(k)[k]]
           next(k) == IF k = 0 THEN base ELSE Step(p, k, all[k - 1])
<1>1. \A n \in Nat : IsPart(part(n), p, base, n)  BY PartsExist
<1> HIDE DEF part
<1>2. ASSUME NEW k \in Nat PROVE all[k] = next(k)
  <2>1. k \in 0 .. k  OBVIOUS
  <2>2. part(k)[k] = IF k = 0 THEN base ELSE Step(p, k, part(k)[k - 1])
    BY <1>1, <2>1 DEF IsPart
  <2>3. CASE k = 0  BY <2>2, <2>3
  <2>4. CASE k # 0
    <3>1. k - 1 \in Nat /\ k - 1 <= k /\ k - 1 <= k - 1  BY <2>4
    <3>2. IsPart(part(k), p, base, k) /\ IsPart(part(k - 1), p, base, k - 1)
      BY <1>1, <3>1
    <3>3. part(k)[k - 1] = part(k - 1)[k - 1]  BY <3>1, <3>2, PartsAgree
    <3>4. all[k - 1] = part(k)[k - 1]  BY <3>1, <3>3
    <3>5. QED  BY <2>2, <2>4, <3>4
  <2>5. QED  BY <2>3, <2>4
<1>3. all = [k \in Nat |-> next(k)]
  <2>1. all = [k \in Nat |-> all[k]]  OBVIOUS
  <2> HIDE DEF all
  <2>2. QED  BY <1>2, <2>1
<1>4. QED  BY <1>3 DEF IsDefinedBy

\* Its values, one from the other.
LEMMA ValuesFollow ==
    \A f, p, base :
        IsDefinedBy(f, p, base) =>
            f[0] = base /\ \A k \in Nat : f[k + 1] = Step(p, k + 1, f[k])
<1> SUFFICES ASSUME NEW f, NEW p, NEW base, IsDefinedBy(f, p, base)
             PROVE  f[0] = base /\ \A k \in Nat : f[k + 1] = Step(p, k + 1, f[k])
  OBVIOUS
<1>1. f[0] = base  BY DEF IsDefinedBy
<1>2. ASSUME NEW k \in Nat PROVE f[k + 1] = Step(p, k + 1, f[k])
  <2>1. k + 1 \in Nat /\ k + 1 # 0 /\ (k + 1) - 1 = k  OBVIOUS
  <2>2. QED  BY <2>1 DEF IsDefinedBy
<1>3. QED  BY <1>1, <1>2
=============================================================================
