------------------------------ MODULE FoldProofs ------------------------------
(***************************************************************************)
(* Induction over data.  A fold from the left is computed place by place:  *)
(* FoldLadder gives the values it goes through, and UpTo is induction over *)
(* a set of places, which a proof takes to be those where its hypothesis   *)
(* holds.  A module about folds of an operator instantiates this one with  *)
(* it, and expands FoldLeft into FoldOf.                                   *)
(***************************************************************************)
EXTENDS Integers, Sequences, SequencesExt, WellFoundedInduction, TLAPS

CONSTANT Op(_, _, _)  \* what is folded, in a context that stays the same

LEMMA LeastNat ==
    ASSUME NEW T, T \subseteq Nat, T # {} PROVE \E n \in T : \A m \in T : n <= m
  <1>1. PICK n \in T : \A m \in T : ~(<<m, n>> \in OpToRel(<, Nat))
    BY WFMin, NatLessThanWellFounded
  <1>2. ASSUME NEW m \in T, m < n PROVE <<m, n>> \in OpToRel(<, Nat)
    BY <1>2 DEF OpToRel
  <1>3. ASSUME NEW m \in T PROVE n <= m
    <2>1. ~(m < n)
      BY <1>1, <1>2
    <2> QED BY <2>1
  <1> QED BY <1>3

\* A set of numbers that has 0, and with every number below n the next, has n.
LEMMA UpTo ==
    ASSUME NEW n \in Nat, NEW T, 0 \in T, \A i \in 0..(n - 1) : i \in T => i + 1 \in T
    PROVE  \A i \in 0..n : i \in T
  <1> DEFINE U == {i \in 0..n : i \notin T}
  <1> SUFFICES ASSUME U # {} PROVE FALSE
    OBVIOUS
  <1>1. PICK i \in U : \A j \in U : i <= j
    <2>1. U \subseteq Nat
      OBVIOUS
    <2> HIDE DEF U
    <2> QED BY <2>1, LeastNat
  <1>2. i # 0 /\ i \in 0..n /\ i \notin T
    BY <1>1
  <1>3. i - 1 \in 0..(n - 1) /\ i - 1 \notin U
    BY <1>1, <1>2
  <1>4. i - 1 \in T
    BY <1>3
  <1> QED BY <1>2, <1>3, <1>4

LEMMA MaxOf ==
    ASSUME NEW n \in Nat, NEW s, s \subseteq 1..n + 1, n + 1 \in s PROVE Max(s) = n + 1
  <1>1. \A y \in s : n + 1 >= y
    OBVIOUS
  <1>2. ASSUME NEW x \in s, \A y \in s : x >= y PROVE x = n + 1
    <2>1. x >= n + 1 /\ x \in 1..n + 1
      BY <1>2
    <2> QED BY <2>1
  <1>3. (CHOOSE x \in s : \A y \in s : x >= y) = n + 1
    BY <1>1, <1>2
  <1> QED BY <1>3 DEF Max

LEMMA MaxIn ==
    ASSUME NEW n \in Nat, NEW s, s \subseteq 1..n, s # {} PROVE Max(s) \in s
  <1> DEFINE T == {n - i : i \in s}
  <1>1. T \subseteq Nat /\ T # {}
    <2>1. ASSUME NEW i \in s PROVE n - i \in Nat
      BY <2>1
    <2>2. PICK i \in s : TRUE
      OBVIOUS
    <2> QED BY <2>1, <2>2
  <1>2. PICK t \in T : \A j \in T : t <= j
    <2> HIDE DEF T
    <2> QED BY <1>1, LeastNat
  <1>3. PICK x \in s : t = n - x
    BY <1>2
  <1>4. ASSUME NEW y \in s PROVE x >= y
    <2>1. n - y \in T
      OBVIOUS
    <2>2. n - x <= n - y
      BY <1>2, <1>3, <2>1
    <2> QED BY <2>2
  <1>5. (CHOOSE z \in s : \A y \in s : z >= y) \in s
    BY <1>4
  <1> QED BY <1>5 DEF Max

\* f folds m over every set of its first n places.
Folds(f, cx, base, m, n) ==
    f = [s \in SUBSET (1..n) |->
            IF s = {} THEN base ELSE Op(cx, f[s \ {Max(s)}], m[Max(s)])]

LEMMA OneFolds ==
    ASSUME NEW n \in Nat, NEW cx, NEW base, NEW m,
           NEW f, Folds(f, cx, base, m, n), NEW g, Folds(g, cx, base, m, n)
    PROVE  f = g
  <1>f. \A s \in SUBSET (1..n) :
            f[s] = IF s = {} THEN base ELSE Op(cx, f[s \ {Max(s)}], m[Max(s)])
    <2> DEFINE V(s) == IF s = {} THEN base ELSE Op(cx, f[s \ {Max(s)}], m[Max(s)])
    <2>1. f = [s \in SUBSET (1..n) |-> V(s)]
      BY DEF Folds
    <2> HIDE DEF V
    <2>2. \A s \in SUBSET (1..n) : f[s] = V(s)
      BY <2>1
    <2> QED BY <2>2 DEF V
  <1>g. \A s \in SUBSET (1..n) :
            g[s] = IF s = {} THEN base ELSE Op(cx, g[s \ {Max(s)}], m[Max(s)])
    <2> DEFINE V(s) == IF s = {} THEN base ELSE Op(cx, g[s \ {Max(s)}], m[Max(s)])
    <2>1. g = [s \in SUBSET (1..n) |-> V(s)]
      BY DEF Folds
    <2> HIDE DEF V
    <2>2. \A s \in SUBSET (1..n) : g[s] = V(s)
      BY <2>1
    <2> QED BY <2>2 DEF V
  <1> DEFINE T == {k \in Nat : \A s \in SUBSET (1..n) : s \subseteq 1..k => f[s] = g[s]}
  <1>1. 0 \in T
    <2>1. ASSUME NEW s \in SUBSET (1..n), s \subseteq 1..0 PROVE f[s] = g[s]
      <3>1. s = {}
        BY <2>1
      <3> QED BY <3>1, <1>f, <1>g
    <2> QED BY <2>1
  <1>2. ASSUME NEW k \in 0..(n - 1), k \in T PROVE k + 1 \in T
    <2>1. ASSUME NEW s \in SUBSET (1..n), s \subseteq 1..(k + 1) PROVE f[s] = g[s]
      <3>1. CASE k + 1 \in s
        <4>1. Max(s) = k + 1 /\ s # {}
          <5>1. k \in Nat /\ s \subseteq 1..k + 1 /\ s # {}
            BY <2>1, <3>1
          <5> QED BY <3>1, <5>1, MaxOf
        <4>2. s \ {k + 1} \in SUBSET (1..n) /\ s \ {k + 1} \subseteq 1..k
          BY <2>1
        <4>3. f[s \ {k + 1}] = g[s \ {k + 1}]
          BY <1>2, <4>2
        <4> QED BY <4>1, <4>3, <1>f, <1>g
      <3>2. CASE k + 1 \notin s
        <4>1. s \subseteq 1..k
          BY <2>1, <3>2
        <4> QED BY <1>2, <4>1
      <3> QED BY <3>1, <3>2
    <2> QED BY <2>1
  <1>3. n \in T
    <2> HIDE DEF T
    <2> QED BY <1>1, <1>2, UpTo
  <1>4. ASSUME NEW s \in SUBSET (1..n) PROVE f[s] = g[s]
    BY <1>3
  <1> DEFINE F(t) == IF t = {} THEN base ELSE Op(cx, f[t \ {Max(t)}], m[Max(t)])
             G(t) == IF t = {} THEN base ELSE Op(cx, g[t \ {Max(t)}], m[Max(t)])
  <1>5. f = [s \in SUBSET (1..n) |-> F(s)] /\ g = [s \in SUBSET (1..n) |-> G(s)]
    BY DEF Folds
  <1> HIDE DEF F, G
  <1> QED BY <1>4, <1>5

LEMMA SomeFolds ==
    ASSUME NEW n \in Nat, NEW cx, NEW base, NEW m PROVE \E f : Folds(f, cx, base, m, n)
  <1> DEFINE T == {k \in Nat : \E f : Folds(f, cx, base, m, k)}
  <1>1. 0 \in T
    <2> DEFINE f == [s \in SUBSET (1..0) |-> base]
    <2>1. ASSUME NEW s \in SUBSET (1..0) PROVE s = {}
      OBVIOUS
    <2>2. f = [s \in SUBSET (1..0) |->
                  IF s = {} THEN base ELSE Op(cx, f[s \ {Max(s)}], m[Max(s)])]
      BY <2>1
    <2>3. Folds(f, cx, base, m, 0)
      BY <2>2 DEF Folds
    <2> QED BY <2>3
  <1>2. ASSUME NEW k \in 0..(n - 1), k \in T PROVE k + 1 \in T
    <2>1. PICK f : Folds(f, cx, base, m, k)
      BY <1>2
    <2>f. \A s \in SUBSET (1..k) :
              f[s] = IF s = {} THEN base ELSE Op(cx, f[s \ {Max(s)}], m[Max(s)])
      <3> DEFINE V(s) == IF s = {} THEN base ELSE Op(cx, f[s \ {Max(s)}], m[Max(s)])
      <3>1. f = [s \in SUBSET (1..k) |-> V(s)]
        BY <2>1 DEF Folds
      <3> HIDE DEF V
      <3>2. \A s \in SUBSET (1..k) : f[s] = V(s)
        BY <3>1
      <3> QED BY <3>2 DEF V
    <2> DEFINE g == [s \in SUBSET (1..(k + 1)) |->
                        IF k + 1 \in s THEN Op(cx, f[s \ {k + 1}], m[k + 1]) ELSE f[s]]
    <2>2. ASSUME NEW s \in SUBSET (1..(k + 1))
          PROVE  g[s] = IF s = {} THEN base ELSE Op(cx, g[s \ {Max(s)}], m[Max(s)])
      <3>1. CASE k + 1 \in s
        <4>1. Max(s) = k + 1 /\ s # {}
          <5>1. k \in Nat /\ s \subseteq 1..k + 1 /\ s # {}
            BY <3>1
          <5> HIDE DEF g
          <5> QED BY <3>1, <5>1, MaxOf
        <4>2. s \ {k + 1} \in SUBSET (1..(k + 1)) /\ k + 1 \notin s \ {k + 1}
          OBVIOUS
        <4>3. g[s \ {k + 1}] = f[s \ {k + 1}]
          BY <4>2
        <4>4. g[s] = Op(cx, f[s \ {k + 1}], m[k + 1])
          BY <3>1
        <4> HIDE DEF g
        <4> QED BY <4>1, <4>3, <4>4
      <3>2. CASE k + 1 \notin s
        <4>1. s \in SUBSET (1..k)
          BY <3>2
        <4>2. g[s] = f[s]
          BY <3>2
        <4>3. CASE s = {}
          <5> HIDE DEF g
          <5> QED BY <2>f, <4>1, <4>2, <4>3
        <4>4. CASE s # {}
          <5>1. Max(s) \in s
            <6>1. k \in Nat /\ s \subseteq 1..k
              BY <4>1
            <6> HIDE DEF g
            <6> QED BY <4>4, <6>1, MaxIn
          <5>2. /\ s \ {Max(s)} \in SUBSET (1..(k + 1))
                /\ k + 1 \notin s \ {Max(s)}
            BY <3>2
          <5>3. g[s \ {Max(s)}] = f[s \ {Max(s)}]
            BY <5>2
          <5> HIDE DEF g
          <5> QED BY <2>f, <4>1, <4>2, <4>4, <5>3
        <4> QED BY <4>3, <4>4
      <3> QED BY <3>1, <3>2
    <2> DEFINE G(s) == IF s = {} THEN base ELSE Op(cx, g[s \ {Max(s)}], m[Max(s)])
    <2>3. g = [s \in SUBSET (1..(k + 1)) |-> G(s)]
      <3>1. \A s \in SUBSET (1..(k + 1)) : g[s] = G(s)
        BY <2>2
      <3>2. DOMAIN g = SUBSET (1..(k + 1)) /\ g = [s \in DOMAIN g |-> g[s]]
        OBVIOUS
      <3> HIDE DEF g, G
      <3> QED BY <3>1, <3>2
    <2>4. Folds(g, cx, base, m, k + 1)
      BY <2>3 DEF Folds
    <2> QED BY <2>4
  <1>3. n \in T
    <2> HIDE DEF T
    <2> QED BY <1>1, <1>2, UpTo
  <1> QED BY <1>3

\* FoldLeft of Op from base over m, as its definition has it.
FoldOf(cx, base, m) ==
    (CHOOSE f : f = [s \in SUBSET DOMAIN m |->
         IF s = {} THEN base ELSE Op(cx, f[s \ {Max(s)}], m[Max(s)])])[DOMAIN m]

\* A fold from the left, place by place.
Climbs(r, cx, base, m, n) ==
    /\ r[0] = base
    /\ \A i \in 0..(n - 1) : r[i + 1] = Op(cx, r[i], m[i + 1])
    /\ FoldOf(cx, base, m) = r[n]

LEMMA SomeClimbs ==
    ASSUME NEW n \in Nat, NEW cx, NEW base, NEW m, DOMAIN m = 1..n
    PROVE  \E r : Climbs(r, cx, base, m, n)
  <1>1. PICK f : Folds(f, cx, base, m, n)
    BY SomeFolds
  <1>2. \A g : Folds(g, cx, base, m, n) => g = f
    BY <1>1, OneFolds
  <1>3. (CHOOSE g : Folds(g, cx, base, m, n)) = f
    BY <1>1, <1>2
  <1>4. \A s \in SUBSET (1..n) :
            f[s] = IF s = {} THEN base ELSE Op(cx, f[s \ {Max(s)}], m[Max(s)])
    <2> DEFINE V(s) == IF s = {} THEN base ELSE Op(cx, f[s \ {Max(s)}], m[Max(s)])
    <2>1. f = [s \in SUBSET (1..n) |-> V(s)]
      BY <1>1 DEF Folds
    <2> HIDE DEF V
    <2>2. \A s \in SUBSET (1..n) : f[s] = V(s)
      BY <2>1
    <2> QED BY <2>2 DEF V
  <1>5. FoldOf(cx, base, m) = f[1..n]
    BY <1>3 DEF Folds, FoldOf
  <1> DEFINE r == [i \in 0..n |-> f[1..i]]
  <1>6. r[0] = base
    <2>1. 1..0 = {} /\ r[0] = f[1..0] /\ 1..0 \in SUBSET (1..n)
      OBVIOUS
    <2> HIDE DEF r
    <2> QED BY <1>4, <2>1
  <1>7. ASSUME NEW i \in 0..(n - 1) PROVE r[i + 1] = Op(cx, r[i], m[i + 1])
    <2>1. /\ 1..(i + 1) \in SUBSET (1..n) /\ i + 1 \in 1..(i + 1)
          /\ (1..(i + 1)) \ {i + 1} = 1..i
      OBVIOUS
    <2>2. Max(1..(i + 1)) = i + 1
      BY <2>1, MaxOf
    <2>3. r[i] = f[1..i] /\ r[i + 1] = f[1..(i + 1)]
      OBVIOUS
    <2> HIDE DEF r
    <2> DEFINE s == 1..(i + 1)
    <2>4. s \in SUBSET (1..n) /\ s # {} /\ Max(s) = i + 1 /\ s \ {i + 1} = 1..i
      BY <2>1, <2>2
    <2> HIDE DEF s
    <2>5. f[s] = Op(cx, f[s \ {Max(s)}], m[Max(s)])
      <3>1. s \in SUBSET (1..n)
        BY <2>4
      <3>2. f[s] = IF s = {} THEN base ELSE Op(cx, f[s \ {Max(s)}], m[Max(s)])
        BY <1>4, <3>1
      <3> QED BY <2>4, <3>2
    <2>6. f[s] = Op(cx, f[1..i], m[i + 1])
      BY <2>4, <2>5
    <2> QED BY <2>3, <2>6 DEF s
  <1>8. r[n] = f[1..n]
    OBVIOUS
  <1> HIDE DEF r
  <1>9. Climbs(r, cx, base, m, n)
    BY <1>5, <1>6, <1>7, <1>8 DEF Climbs
  <1> QED BY <1>9

LEMMA FoldLadder ==
    ASSUME NEW n \in Nat, NEW cx, NEW base, NEW m, DOMAIN m = 1..n
    PROVE  \E r : /\ r[0] = base
                  /\ \A i \in 0..(n - 1) : r[i + 1] = Op(cx, r[i], m[i + 1])
                  /\ FoldOf(cx, base, m) = r[n]
  <1>1. PICK r : Climbs(r, cx, base, m, n)
    BY SomeClimbs
  <1> QED BY <1>1 DEF Climbs

LEMMA FoldNothing ==
    ASSUME NEW cx, NEW base, NEW m, DOMAIN m = {} PROVE FoldOf(cx, base, m) = base
  <1>1. DOMAIN m = 1..0
    OBVIOUS
  <1> QED BY <1>1, FoldLadder

\* One more place is one more step.
LEMMA FoldGrows ==
    ASSUME NEW n \in Nat, NEW cx, NEW base, NEW m, DOMAIN m = 1..(n + 1),
           NEW h, DOMAIN h = 1..n, \A i \in 1..n : h[i] = m[i]
    PROVE  FoldOf(cx, base, m) = Op(cx, FoldOf(cx, base, h), m[n + 1])
  <1>1. PICK r : /\ r[0] = base
                 /\ \A i \in 0..n : r[i + 1] = Op(cx, r[i], m[i + 1])
                 /\ FoldOf(cx, base, m) = r[n + 1]
    <2>1. PICK k \in Nat : k = n + 1
      OBVIOUS
    <2>2. DOMAIN m = 1..k
      BY <2>1
    <2>3. PICK r : Climbs(r, cx, base, m, k)
      BY <2>2, SomeClimbs
    <2>4. 0..(k - 1) = 0..n
      BY <2>1
    <2>5. /\ r[0] = base
          /\ \A i \in 0..n : r[i + 1] = Op(cx, r[i], m[i + 1])
          /\ FoldOf(cx, base, m) = r[n + 1]
      BY <2>1, <2>3, <2>4 DEF Climbs
    <2> QED BY <2>5
  <1>2. PICK s : /\ s[0] = base
                 /\ \A i \in 0..(n - 1) : s[i + 1] = Op(cx, s[i], h[i + 1])
                 /\ FoldOf(cx, base, h) = s[n]
    BY FoldLadder
  <1> DEFINE T == {i \in Nat : r[i] = s[i]}
  <1>3. 0 \in T
    BY <1>1, <1>2
  <1>4. ASSUME NEW i \in 0..(n - 1), i \in T PROVE i + 1 \in T
    <2>1. i \in 0..n /\ i + 1 \in 1..n /\ i + 1 \in Nat
      OBVIOUS
    <2>2. r[i + 1] = Op(cx, r[i], m[i + 1]) /\ s[i + 1] = Op(cx, s[i], h[i + 1])
      BY <1>1, <1>2, <2>1
    <2> QED BY <1>4, <2>1, <2>2
  <1>5. n \in T
    <2> HIDE DEF T
    <2> QED BY <1>3, <1>4, UpTo
  <1>6. r[n] = s[n]
    BY <1>5
  <1>7. r[n + 1] = Op(cx, r[n], m[n + 1])
    <2>1. n \in 0..n
      OBVIOUS
    <2> QED BY <1>1, <2>1
  <1> QED BY <1>1, <1>2, <1>6, <1>7
=============================================================================
