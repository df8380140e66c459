--------------------------- MODULE OrderingProofs ---------------------------
(***************************************************************************)
(* What the operators on sequences of frames return: lemmas the proofs     *)
(* about the seat, the supervisor and the gateway share.                   *)
(***************************************************************************)
EXTENDS Ordering, SequencesExt, FunctionTheorems, FiniteSetTheorems, SequenceTheorems,
        TLAPS

\* Requests in the order of their ids: each stands at its rank.
LEMMA AscendingRank ==
    ASSUME NEW ids \in SUBSET Nat, IsFiniteSet(ids)
    PROVE  /\ Cardinality(ids) \in Nat
           /\ Ascending(ids) \in [1..Cardinality(ids) -> ids]
           /\ \A k \in 1..Cardinality(ids) :
                Cardinality({j \in ids : j <= Ascending(ids)[k]}) = k
           /\ \A i \in ids :
                /\ IsFiniteSet({j \in ids : j <= i})
                /\ Cardinality({j \in ids : j <= i}) \in 1..Cardinality(ids)
                /\ Ascending(ids)[Cardinality({j \in ids : j <= i})] = i
  <1> DEFINE upTo(i) == {j \in ids : j <= i}
             n == Cardinality(ids)
             rank == [i \in ids |-> Cardinality(upTo(i))]
             f == Ascending(ids)
  <1>1. n \in Nat /\ IsFiniteSet(1..n) /\ Cardinality(1..n) = n
    BY FS_CardinalityType, FS_Interval
  <1>2. ASSUME NEW i \in ids
        PROVE  /\ IsFiniteSet(upTo(i))
               /\ Cardinality(upTo(i)) \in 1..n
    <2>1. upTo(i) \in SUBSET ids /\ i \in upTo(i)
      OBVIOUS
    <2>2. IsFiniteSet(upTo(i)) /\ Cardinality(upTo(i)) <= n
      BY <2>1, FS_Subset
    <2>3. Cardinality(upTo(i)) \in Nat /\ Cardinality(upTo(i)) # 0
      BY <2>1, <2>2, FS_CardinalityType, FS_EmptySet
    <2> HIDE DEF upTo
    <2> QED BY <2>2, <2>3, <1>1
  <1>3. ASSUME NEW i \in ids, NEW k \in ids, i < k
        PROVE  Cardinality(upTo(i)) # Cardinality(upTo(k))
    <2>1. \A j \in ids : j \in Nat
      OBVIOUS
    <2>2. \A j \in ids : j <= i => j <= k
      BY <1>3, <2>1
    <2>3. upTo(i) \subseteq upTo(k)
      BY <2>2
    <2>4. k \in upTo(k) /\ k \notin upTo(i)
      BY <1>3, <2>1
    <2> HIDE DEF upTo
    <2>5. upTo(i) \in SUBSET upTo(k) /\ upTo(i) # upTo(k)
      BY <2>3, <2>4
    <2> QED BY <2>5, <1>2, FS_Subset
  <1>4. rank \in [ids -> 1..n]
    BY <1>2
  <1>5. \A i, k \in ids : rank[i] = rank[k] => i = k
    <2> SUFFICES ASSUME NEW i \in ids, NEW k \in ids, i # k
                 PROVE  rank[i] # rank[k]
      OBVIOUS
    <2>1. CASE i < k
      BY <2>1, <1>3
    <2>2. CASE k < i
      BY <2>2, <1>3
    <2> QED BY <2>1, <2>2
  <1>6. rank \in Injection(ids, 1..n)
    BY <1>4, <1>5 DEF Injection, IsInjective
  <1>7. rank \in Surjection(ids, 1..n)
    BY <1>1, <1>6, FS_Injection
  <1>8. \A k \in 1..n : \E i \in ids : rank[i] = k
    BY <1>7 DEF Surjection
  <1>9. /\ f = [k \in 1..n |-> f[k]]
        /\ \A k \in 1..n : f[k] \in ids /\ rank[f[k]] = k
    <2>1. ASSUME NEW k \in 1..n PROVE f[k] \in ids /\ Cardinality(upTo(f[k])) = k
      BY <1>8 DEF Ascending
    <2>2. f = [k \in 1..n |-> CHOOSE i \in ids : Cardinality(upTo(i)) = k]
      BY DEF Ascending
    <2>3. \A k \in 1..n : rank[f[k]] = Cardinality(upTo(f[k]))
      BY <2>1
    <2> HIDE DEF upTo
    <2> QED BY <2>1, <2>2, <2>3
  <1>10. \A i \in ids : rank[i] \in 1..n /\ f[rank[i]] = i
    BY <1>4, <1>5, <1>9
  <1>11. f \in [1..n -> ids]
    BY <1>9
  <1>12. \A i \in ids : IsFiniteSet(upTo(i)) /\ rank[i] = Cardinality(upTo(i))
    BY <1>2
  <1> QED BY <1>1, <1>9, <1>10, <1>11, <1>12

\* Requests in the order of their ids: each of them, once.
LEMMA AscendingProperties ==
    ASSUME NEW ids \in SUBSET Nat, IsFiniteSet(ids)
    PROVE  /\ Ascending(ids) \in Seq(ids)
           /\ Range(Ascending(ids)) = ids
           /\ \A k, l \in DOMAIN Ascending(ids) :
                Ascending(ids)[k] = Ascending(ids)[l] => k = l
  <1> DEFINE f == Ascending(ids)
             n == Cardinality(ids)
             rank == [i \in ids |-> Cardinality({j \in ids : j <= i})]
  <1>1. /\ n \in Nat /\ f \in [1..n -> ids]
        /\ \A k \in 1..n : rank[f[k]] = k
        /\ \A i \in ids : rank[i] \in 1..n /\ f[rank[i]] = i
    BY AscendingRank
  <1> HIDE DEF rank, f, n
  <1>2. f \in Seq(ids) /\ DOMAIN f = 1..n
    BY <1>1
  <1>3. Range(f) = ids
    <2>1. \A i \in ids : \E k \in DOMAIN f : f[k] = i
      BY <1>1, <1>2
    <2>2. \A k \in DOMAIN f : f[k] \in ids
      BY <1>1, <1>2
    <2> QED BY <2>1, <2>2 DEF Range
  <1>4. \A k, l \in DOMAIN f : f[k] = f[l] => k = l
    BY <1>1
  <1> QED BY <1>2, <1>3, <1>4 DEF f

\* Requests in the order of their ids: the order is theirs.
LEMMA AscendingClimbs ==
    ASSUME NEW ids \in SUBSET Nat, IsFiniteSet(ids)
    PROVE  \A k, l \in 1..Cardinality(ids) : k < l => Ascending(ids)[k] < Ascending(ids)[l]
  <1> DEFINE upTo(i) == {j \in ids : j <= i}
             n == Cardinality(ids)
             f == Ascending(ids)
  <1>1. /\ n \in Nat /\ f \in [1..n -> ids]
        /\ \A k \in 1..n : Cardinality(upTo(f[k])) = k
        /\ \A i \in ids : IsFiniteSet(upTo(i))
    BY AscendingRank
  <1> HIDE DEF f, n
  <1> SUFFICES ASSUME NEW k \in 1..n, NEW l \in 1..n, k < l PROVE f[k] < f[l]
    BY DEF f, n
  <1>2. PICK a \in ids : a = f[k]
    BY <1>1
  <1>3. PICK b \in ids : b = f[l]
    BY <1>1
  <1>4. Cardinality(upTo(a)) = k /\ Cardinality(upTo(b)) = l /\ IsFiniteSet(upTo(a))
    BY <1>1, <1>2, <1>3
  <1>5. ASSUME ~(a < b) PROVE FALSE
    <2>1. upTo(b) \subseteq upTo(a)
      <3>1. a \in Nat /\ b \in Nat /\ b <= a
        BY <1>5
      <3>2. \A j \in ids : j \in Nat
        OBVIOUS
      <3>3. \A j \in ids : j <= b => j <= a
        BY <3>1, <3>2
      <3> QED BY <3>3
    <2>2. Cardinality(upTo(b)) <= Cardinality(upTo(a))
      <3> HIDE DEF upTo
      <3> QED BY <1>4, <2>1, FS_Subset
    <2> HIDE DEF upTo
    <2> QED BY <1>1, <1>4, <2>2
  <1> QED BY <1>2, <1>3, <1>5

\* Taking one element out of a sequence leaves a sequence of the other elements,
\* in their order.
LEMMA RemoveAtProperties ==
    ASSUME NEW S, NEW q \in Seq(S), NEW i \in 1..Len(q)
    PROVE  /\ RemoveAt(q, i) \in Seq(S)
           /\ Len(RemoveAt(q, i)) = Len(q) - 1
           /\ \A j \in 1..(Len(q) - 1) :
                RemoveAt(q, i)[j] = IF j < i THEN q[j] ELSE q[j + 1]
  <1> DEFINE front == SubSeq(q, 1, i - 1)
             back == SubSeq(q, i + 1, Len(q))
  <1>1. /\ Len(q) \in Nat
        /\ \A j \in 1..Len(q) : q[j] \in S
    BY LenProperties, ElementOfSeq
  <1>2. /\ front \in Seq(S)
        /\ Len(front) = i - 1
        /\ \A j \in 1..(i - 1) : front[j] = q[j]
    <2>1. \A j \in 1..(i - 1) : q[j] \in S
      BY <1>1
    <2>2. 1 \in Int /\ i - 1 \in Int
      OBVIOUS
    <2> HIDE DEF front
    <2>3. /\ front \in Seq(S)
          /\ Len(front) = IF 1 <= i - 1 THEN (i - 1) - 1 + 1 ELSE 0
          /\ \A j \in 1..((i - 1) - 1 + 1) : front[j] = q[1 + j - 1]
      BY <2>1, <2>2, SubSeqProperties DEF front
    <2> QED BY <2>3
  <1>3. /\ back \in Seq(S)
        /\ Len(back) = Len(q) - i
        /\ \A j \in 1..(Len(q) - i) : back[j] = q[i + j]
    <2>1. \A j \in (i + 1)..Len(q) : q[j] \in S
      BY <1>1
    <2>2. i + 1 \in Int /\ Len(q) \in Int
      BY <1>1
    <2> HIDE DEF back
    <2>3. /\ back \in Seq(S)
          /\ Len(back) = IF i + 1 <= Len(q) THEN Len(q) - (i + 1) + 1 ELSE 0
          /\ \A j \in 1..(Len(q) - (i + 1) + 1) : back[j] = q[(i + 1) + j - 1]
      BY <2>1, <2>2, SubSeqProperties DEF back
    <2> QED BY <2>3, <1>1
  <1>4. RemoveAt(q, i) = front \o back
    BY DEF RemoveAt
  <1> HIDE DEF front, back
  <1>5. /\ front \o back \in Seq(S)
        /\ Len(front \o back) = Len(front) + Len(back)
        /\ \A j \in 1..(Len(front) + Len(back)) :
             (front \o back)[j] = IF j <= Len(front) THEN front[j] ELSE back[j - Len(front)]
    BY <1>2, <1>3, ConcatProperties
  <1>6. ASSUME NEW j \in 1..(Len(q) - 1)
        PROVE  RemoveAt(q, i)[j] = IF j < i THEN q[j] ELSE q[j + 1]
    <2>1. CASE j < i
      BY <2>1, <1>1, <1>2, <1>3, <1>4, <1>5
    <2>2. CASE ~(j < i)
      <3>1. j - (i - 1) \in 1..(Len(q) - i)
        BY <2>2, <1>1
      <3>2. back[j - (i - 1)] = q[j + 1]
        BY <3>1, <1>1, <1>3
      <3> QED BY <2>2, <3>2, <1>1, <1>2, <1>3, <1>4, <1>5
    <2> QED BY <2>1, <2>2
  <1> QED BY <1>1, <1>2, <1>3, <1>4, <1>5, <1>6

\* The kept frames are those at the places, each place once.
LEMMA KeptProperties ==
    ASSUME NEW X, NEW q \in Seq(X), NEW places \in SUBSET DOMAIN q
    PROVE  /\ Kept(q, places) \in Seq(X)
           /\ \A k \in DOMAIN Kept(q, places) :
                /\ Ascending(places)[k] \in places
                /\ Kept(q, places)[k] = q[Ascending(places)[k]]
           /\ \A k, l \in DOMAIN Kept(q, places) :
                Ascending(places)[k] = Ascending(places)[l] => k = l
           /\ \A p \in places :
                \E k \in DOMAIN Kept(q, places) : Ascending(places)[k] = p
  <1>1. /\ Len(q) \in Nat /\ DOMAIN q = 1..Len(q)
        /\ \A j \in 1..Len(q) : q[j] \in X
    BY LenProperties, ElementOfSeq
  <1>2. places \in SUBSET Nat /\ IsFiniteSet(places)
    <2>1. IsFiniteSet(1..Len(q))
      BY <1>1, FS_Interval
    <2> QED BY <2>1, <1>1, FS_Subset
  <1>3. /\ Ascending(places) \in Seq(places)
        /\ Range(Ascending(places)) = places
        /\ \A k, l \in DOMAIN Ascending(places) :
             Ascending(places)[k] = Ascending(places)[l] => k = l
    BY <1>2, AscendingProperties
  <1>4. /\ Cardinality(places) \in Nat
        /\ DOMAIN Ascending(places) = 1..Cardinality(places)
    BY <1>2, FS_CardinalityType DEF Ascending
  <1>5. /\ DOMAIN Kept(q, places) = 1..Cardinality(places)
        /\ \A k \in 1..Cardinality(places) : Kept(q, places)[k] = q[Ascending(places)[k]]
    BY DEF Kept
  <1>6. \A k \in 1..Cardinality(places) : Ascending(places)[k] \in places
    BY <1>3, <1>4, ElementOfSeq, LenProperties
  <1>7. Kept(q, places) \in Seq(X)
    <2>1. Kept(q, places) = [k \in 1..Cardinality(places) |-> Kept(q, places)[k]]
      BY DEF Kept
    <2>2. \A k \in 1..Cardinality(places) : Kept(q, places)[k] \in X
      BY <1>1, <1>5, <1>6
    <2>3. Kept(q, places) \in [1..Cardinality(places) -> X]
      BY <2>1, <2>2
    <2> QED BY <2>3, <1>4
  <1>8. \A p \in places : \E k \in 1..Cardinality(places) : Ascending(places)[k] = p
    BY <1>3, <1>4 DEF Range
  <1> QED BY <1>3, <1>4, <1>5, <1>6, <1>7, <1>8

\* What is kept depends on the frames at the places and on their order, not on where
\* the places are.
LEMMA KeptAlike ==
    ASSUME NEW q, NEW p, NEW A \in SUBSET Nat, NEW B \in SUBSET Nat, IsFiniteSet(A),
           NEW h \in Bijection(A, B),
           \A a, c \in A : a <= c => h[a] <= h[c],
           \A a \in A : p[h[a]] = q[a]
    PROVE  Kept(p, B) = Kept(q, A)
  <1> DEFINE n == Cardinality(A)
             upTo(a) == {j \in A : j <= a}
             image(a) == {j \in B : j <= h[a]}
  <1>1. /\ h \in [A -> B]
        /\ \A b \in B : \E a \in A : h[a] = b
        /\ \A a, c \in A : h[a] = h[c] => a = c
    BY DEF Bijection, Injection, Surjection, IsInjective
  <1>2. IsFiniteSet(B) /\ Cardinality(B) = n
    <2>1. ExistsBijection(A, B)
      BY DEF ExistsBijection
    <2> QED BY <2>1, FS_Bijection
  <1>3. ASSUME NEW a \in A PROVE Cardinality(image(a)) = Cardinality(upTo(a))
    <2> DEFINE g == [j \in upTo(a) |-> h[j]]
    <2>1. g \in [upTo(a) -> image(a)]
      BY <1>1
    <2>2. ASSUME NEW b \in image(a) PROVE \E j \in upTo(a) : g[j] = b
      <3>1. PICK j \in A : h[j] = b
        BY <1>1
      <3>2. h[j] <= h[a] /\ j \in Nat /\ a \in Nat /\ h[j] \in Nat /\ h[a] \in Nat
        BY <3>1, <1>1
      <3>3. j <= a
        <4> SUFFICES ASSUME a <= j PROVE j <= a
          BY <3>2
        <4>1. h[a] <= h[j]
          BY <3>2
        <4>2. h[a] = h[j]
          BY <3>2, <4>1
        <4> QED BY <4>2, <1>1, <3>2
      <3>4. j \in upTo(a) /\ g[j] = b
        BY <3>1, <3>3
      <3> QED BY <3>4
    <2>3. \A j, k \in upTo(a) : g[j] = g[k] => j = k
      BY <1>1
    <2>4. IsFiniteSet(upTo(a))
      <3>1. upTo(a) \in SUBSET A
        OBVIOUS
      <3> QED BY <3>1, FS_Subset
    <2> HIDE DEF g, upTo, image
    <2>5. ExistsBijection(upTo(a), image(a))
      <3>1. g \in Bijection(upTo(a), image(a))
        BY <2>1, <2>2, <2>3 DEF Bijection, Injection, Surjection, IsInjective
      <3> QED BY <3>1 DEF ExistsBijection
    <2> QED BY <2>4, <2>5, FS_Bijection
  <1>4. /\ n \in Nat /\ Ascending(A) \in [1..n -> A]
        /\ \A k \in 1..n : Cardinality(upTo(Ascending(A)[k])) = k
    BY AscendingRank
  <1>5. \A a \in A : Ascending(B)[Cardinality(image(a))] = h[a]
    BY <1>1, <1>2, AscendingRank
  <1>6. \A k \in 1..n : p[Ascending(B)[k]] = q[Ascending(A)[k]]
    <2> TAKE k \in 1..n
    <2>1. Ascending(A)[k] \in A /\ Cardinality(upTo(Ascending(A)[k])) = k
      BY <1>4
    <2> HIDE DEF upTo, image, n
    <2>2. Ascending(B)[k] = h[Ascending(A)[k]]
      BY <2>1, <1>3, <1>5
    <2> QED BY <2>1, <2>2
  <1> HIDE DEF n
  <1> QED BY <1>2, <1>6 DEF Kept, n

\* A frame after the last place is kept behind the others.
LEMMA KeptAppend ==
    ASSUME NEW X, NEW q \in Seq(X), NEW x \in X, NEW A \in SUBSET DOMAIN q
    PROVE  Kept(Append(q, x), A \union {Len(q) + 1}) = Append(Kept(q, A), x)
  <1> DEFINE last == Len(q) + 1
             r == Append(q, x)
             B == A \union {last}
             n == Cardinality(A)
  <1>1. /\ Len(q) \in Nat /\ DOMAIN q = 1..Len(q) /\ DOMAIN r = 1..last
        /\ r[last] = x /\ \A k \in 1..Len(q) : r[k] = q[k]
    BY LenProperties
  <1>2. A \in SUBSET Nat /\ IsFiniteSet(A) /\ last \notin A /\ \A a \in A : a <= last
    <2>1. IsFiniteSet(1..Len(q))
      BY <1>1, FS_Interval
    <2> QED BY <1>1, <2>1, FS_Subset
  <1>3. n \in Nat /\ IsFiniteSet(B) /\ Cardinality(B) = n + 1 /\ B \in SUBSET Nat
    BY <1>1, <1>2, FS_AddElement, FS_CardinalityType
  <1>4. Ascending(B)[n + 1] = last
    <2>1. {j \in B : j <= last} = B
      BY <1>1, <1>2
    <2> QED BY <2>1, <1>3, AscendingRank
  <1>5. ASSUME NEW k \in 1..n PROVE Ascending(B)[k] = Ascending(A)[k] /\ Ascending(A)[k] \in A
    <2> DEFINE a == Ascending(A)[k]
    <2>1. a \in A /\ Cardinality({j \in A : j <= a}) = k
      BY <1>2, AscendingRank
    <2> HIDE DEF a
    <2>2. {j \in B : j <= a} = {j \in A : j <= a}
      BY <1>1, <1>2, <2>1
    <2>3. Ascending(B)[Cardinality({j \in B : j <= a})] = a
      BY <2>1, <1>3, AscendingRank
    <2> QED BY <2>1, <2>2, <2>3 DEF a
  <1> HIDE DEF B, n, r, last
  <1>6. Kept(r, B) = [k \in 1..(n + 1) |-> r[Ascending(B)[k]]]
    BY <1>3 DEF Kept
  <1>7. Kept(q, A) \in Seq(X) /\ Len(Kept(q, A)) = n /\ \A k \in 1..n : Kept(q, A)[k] = q[Ascending(A)[k]]
    <2>1. Kept(q, A) = [k \in 1..n |-> q[Ascending(A)[k]]]
      BY DEF Kept, n
    <2>2. \A k \in 1..n : q[Ascending(A)[k]] \in X
      BY <1>1, <1>5, ElementOfSeq
    <2>3. Kept(q, A) \in [1..n -> X]
      BY <2>1, <2>2
    <2> QED BY <2>1, <2>3, <1>3
  <1> DEFINE w == Kept(q, A)
  <1>8. \A k \in 1..n : r[Ascending(B)[k]] = w[k]
    BY <1>1, <1>5, <1>7
  <1> HIDE DEF w
  <1>9. Append(w, x) = [k \in 1..(n + 1) |-> IF k = n + 1 THEN x ELSE w[k]]
    <2>1. w \in Seq(X) /\ Len(w) = n
      BY <1>7 DEF w
    <2>2. /\ Append(w, x) \in Seq(X) /\ Len(Append(w, x)) = n + 1
          /\ \A k \in 1..n : Append(w, x)[k] = w[k]
          /\ Append(w, x)[n + 1] = x
      BY <2>1, AppendProperties
    <2>3. Append(w, x) = [k \in 1..(n + 1) |-> Append(w, x)[k]]
      BY <2>2, LenProperties
    <2> QED BY <1>3, <2>2, <2>3
  <1>10. \A k \in 1..(n + 1) : r[Ascending(B)[k]] = IF k = n + 1 THEN x ELSE w[k]
    BY <1>1, <1>3, <1>4, <1>8
  <1>11. Kept(r, B) = Append(w, x)
    BY <1>6, <1>9, <1>10
  <1> QED BY <1>11 DEF r, B, w, last

\* A frame before the first place is kept before the others.
LEMMA KeptCons ==
    ASSUME NEW X, NEW q \in Seq(X), NEW A \in SUBSET DOMAIN q, NEW a \in A,
           \A c \in A : a <= c
    PROVE  /\ Kept(q, A) # <<>> /\ Head(Kept(q, A)) = q[a]
           /\ Tail(Kept(q, A)) = Kept(q, A \ {a})
  <1> DEFINE B == A \ {a}
             n == Cardinality(B)
             w == Kept(q, A)
  <1>1. /\ Len(q) \in Nat /\ DOMAIN q = 1..Len(q)
    BY LenProperties
  <1>2. A \in SUBSET Nat /\ IsFiniteSet(A)
    <2>1. IsFiniteSet(1..Len(q))
      BY <1>1, FS_Interval
    <2> QED BY <1>1, <2>1, FS_Subset
  <1>3. n \in Nat /\ IsFiniteSet(B) /\ Cardinality(A) = n + 1 /\ B \in SUBSET Nat
    <2>1. Cardinality(A) \in Nat /\ IsFiniteSet(B) /\ n = Cardinality(A) - 1
      BY <1>2, FS_RemoveElement, FS_CardinalityType
    <2>2. n \in Nat
      BY <2>1, FS_CardinalityType
    <2> QED BY <1>2, <2>1, <2>2
  <1>4. Ascending(A)[1] = a
    <2>1. {j \in A : j <= a} = {a}
      BY <1>2
    <2>2. Cardinality({a}) = 1
      BY FS_Singleton
    <2> QED BY <2>1, <2>2, <1>2, AscendingRank, SMTT(40)
  <1>5. ASSUME NEW k \in 1..n PROVE Ascending(A)[k + 1] = Ascending(B)[k]
    <2> DEFINE b == Ascending(B)[k]
               below == {j \in B : j <= b}
    <2>1. b \in B /\ Cardinality(below) = k /\ IsFiniteSet(below)
      <3>1. b \in B /\ Cardinality(below) = k
        <4> HIDE DEF B
        <4> QED BY <1>3, AscendingRank DEF n
      <3>2. below \in SUBSET B
        OBVIOUS
      <3> QED BY <1>3, <3>1, <3>2, FS_Subset
    <2>2. {j \in A : j <= b} = below \union {a} /\ a \notin below
      <3>1. \A j \in A : j \in Nat
        BY <1>2
      <3>2. b \in Nat /\ a <= b /\ b # a
        BY <2>1, <3>1
      <3> QED BY <2>1, <3>1, <3>2
    <2> HIDE DEF b, below
    <2>3. Cardinality({j \in A : j <= b}) = k + 1
      BY <2>1, <2>2, FS_AddElement
    <2>4. Ascending(A)[Cardinality({j \in A : j <= b})] = b
      BY <2>1, <1>2, AscendingRank
    <2> QED BY <2>3, <2>4 DEF b
  <1>6. w \in Seq(X)
    BY KeptProperties
  <1> HIDE DEF B, n
  <1>7. w = [k \in 1..(n + 1) |-> q[Ascending(A)[k]]]
    BY <1>3 DEF Kept
  <1> HIDE DEF w
  <1>8. Len(w) = n + 1
    <2>1. DOMAIN w = 1..(n + 1)
      BY <1>7
    <2> QED BY <1>3, <1>6, <2>1, LenProperties
  <1>9. w # <<>> /\ Head(w) = q[a]
    BY <1>3, <1>4, <1>6, <1>7, <1>8
  <1>10. Tail(w) = [k \in 1..n |-> w[k + 1]]
    <2>1. /\ Tail(w) \in Seq(X) /\ Len(Tail(w)) = n
          /\ \A k \in 1..n : Tail(w)[k] = w[k + 1]
      BY <1>3, <1>6, <1>8, <1>9, HeadTailProperties
    <2>2. Tail(w) = [k \in 1..n |-> Tail(w)[k]]
      BY <2>1, LenProperties
    <2> QED BY <2>1, <2>2
  <1>11. \A k \in 1..n : w[k + 1] = q[Ascending(B)[k]]
    BY <1>3, <1>5, <1>7
  <1>12. Tail(w) = Kept(q, B)
    BY <1>10, <1>11 DEF Kept, n
  <1> QED BY <1>9, <1>12 DEF w, B

\* The places where something else than x stands.
LEMMA WithoutPlaces ==
    ASSUME NEW X, NEW q \in Seq(X), NEW x
    PROVE  LET A == {k \in DOMAIN q : q[k] # x} IN
           /\ A \in SUBSET DOMAIN q /\ A \in SUBSET Nat /\ IsFiniteSet(A)
           /\ Len(q) \in Nat /\ DOMAIN q = 1..Len(q)
  <1>1. Len(q) \in Nat /\ DOMAIN q = 1..Len(q)
    BY LenProperties
  <1>2. IsFiniteSet(1..Len(q))
    BY <1>1, FS_Interval
  <1> QED BY <1>1, <1>2, FS_Subset

\* What is left are the elements of the sequence but x.
LEMMA WithoutProperties ==
    ASSUME NEW X, NEW q \in Seq(X), NEW x
    PROVE  /\ Without(q, x) \in Seq(X)
           /\ \A k \in DOMAIN Without(q, x) : \E p \in DOMAIN q : Without(q, x)[k] = q[p] /\ q[p] # x
           /\ \A p \in DOMAIN q : q[p] # x => \E k \in DOMAIN Without(q, x) : Without(q, x)[k] = q[p]
  <1> DEFINE A == {k \in DOMAIN q : q[k] # x}
  <1>1. A \in SUBSET DOMAIN q /\ \A k \in A : q[k] # x
    OBVIOUS
  <1>2. /\ Kept(q, A) \in Seq(X)
        /\ \A k \in DOMAIN Kept(q, A) :
             Ascending(A)[k] \in A /\ Kept(q, A)[k] = q[Ascending(A)[k]]
        /\ \A p \in A : \E k \in DOMAIN Kept(q, A) : Ascending(A)[k] = p
    <2> HIDE DEF A
    <2> QED BY <1>1, KeptProperties
  <1>3. \A p \in A : \E k \in DOMAIN Kept(q, A) : Kept(q, A)[k] = q[p]
    <2> HIDE DEF A
    <2> QED BY <1>2
  <1> QED BY <1>1, <1>2, <1>3 DEF Without

LEMMA WithoutAppend ==
    ASSUME NEW X, NEW q \in Seq(X), NEW y \in X, NEW x
    PROVE  Without(Append(q, y), x) = IF y = x THEN Without(q, x) ELSE Append(Without(q, x), y)
  <1> DEFINE A == {k \in DOMAIN q : q[k] # x}
             r == Append(q, y)
             B == {k \in DOMAIN r : r[k] # x}
  <1>1. /\ A \in SUBSET DOMAIN q /\ A \in SUBSET Nat /\ IsFiniteSet(A)
        /\ Len(q) \in Nat /\ DOMAIN q = 1..Len(q)
    BY WithoutPlaces
  <1>2. /\ r \in Seq(X) /\ DOMAIN r = 1..(Len(q) + 1) /\ r[Len(q) + 1] = y
        /\ \A k \in 1..Len(q) : r[k] = q[k]
    BY <1>1, AppendProperties, LenProperties
  <1>3. CASE y = x
    <2>1. B = A
      BY <1>1, <1>2, <1>3
    <2>2. \A k \in A : r[k] = q[k]
      BY <1>1, <1>2
    <2> DEFINE h == [k \in A |-> k]
    <2> HIDE DEF A, r, B
    <2>3. h \in Bijection(A, A) /\ \A k \in A : h[k] = k
      BY DEF Bijection, Injection, Surjection, IsInjective
    <2> HIDE DEF h
    <2>4. Kept(r, A) = Kept(q, A)
      BY <1>1, <2>2, <2>3, KeptAlike
    <2> QED BY <1>3, <2>1, <2>4 DEF Without, A, B, r
  <1>4. CASE y # x
    <2>1. B = A \union {Len(q) + 1}
      BY <1>1, <1>2, <1>4
    <2> HIDE DEF A, B
    <2>2. Kept(r, B) = Append(Kept(q, A), y)
      BY <1>1, <2>1, KeptAppend
    <2> QED BY <1>4, <2>2 DEF Without, A, B, r
  <1> QED BY <1>3, <1>4

LEMMA WithoutHead ==
    ASSUME NEW X, NEW q \in Seq(X), q # <<>>, NEW x
    PROVE  IF Head(q) = x
           THEN Without(q, x) = Without(Tail(q), x)
           ELSE /\ Without(q, x) # <<>> /\ Head(Without(q, x)) = Head(q)
                /\ Tail(Without(q, x)) = Without(Tail(q), x)
  <1> DEFINE A == {k \in DOMAIN q : q[k] # x}
             r == Tail(q)
             B == {k \in DOMAIN r : r[k] # x}
             later == A \ {1}
             h == [k \in later |-> k - 1]
  <1>1. /\ A \in SUBSET DOMAIN q /\ A \in SUBSET Nat /\ IsFiniteSet(A)
        /\ Len(q) \in Nat \ {0} /\ DOMAIN q = 1..Len(q)
    BY WithoutPlaces, EmptySeq
  <1>2. /\ r \in Seq(X) /\ DOMAIN r = 1..(Len(q) - 1) /\ Head(q) = q[1]
        /\ \A k \in 1..(Len(q) - 1) : r[k] = q[k + 1]
    BY <1>1, HeadTailProperties, LenProperties
  <1>3. h \in Bijection(later, B)
    <2>1. \A k \in later : k - 1 \in B
      BY <1>1, <1>2
    <2>2. \A k \in B : k + 1 \in later /\ (k + 1) - 1 = k
      BY <1>1, <1>2
    <2>3. \A k, j \in later : k - 1 = j - 1 => k = j
      BY <1>1
    <2> HIDE DEF later, B
    <2>4. h \in [later -> B] /\ \A k \in later : h[k] = k - 1
      BY <2>1
    <2>5. \A b \in B : \E k \in later : h[k] = b
      BY <2>2, <2>4
    <2> HIDE DEF h
    <2> QED BY <2>3, <2>4, <2>5 DEF Bijection, Injection, Surjection, IsInjective
  <1>4. /\ \A a, c \in later : a <= c => h[a] <= h[c]
        /\ \A a \in later : r[h[a]] = q[a]
    <2>1. \A a \in later : a \in Nat /\ h[a] = a - 1 /\ a - 1 \in 1..(Len(q) - 1) /\ (a - 1) + 1 = a
      BY <1>1
    <2> HIDE DEF later, h, r
    <2> QED BY <1>2, <2>1
  <1>5. later \in SUBSET Nat /\ IsFiniteSet(later) /\ B \in SUBSET Nat
    <2>1. later \in SUBSET A
      OBVIOUS
    <2> QED BY <1>1, <1>2, <2>1, FS_Subset
  <1> HIDE DEF r, B, h
  <1>6. Kept(r, B) = Kept(q, later)
    <2> HIDE DEF later
    <2> QED BY <1>3, <1>4, <1>5, KeptAlike
  <1>7. CASE Head(q) = x
    <2>1. later = A
      BY <1>2, <1>7
    <2> QED BY <1>6, <1>7, <2>1 DEF Without, r, B
  <1>8. CASE Head(q) # x
    <2>1. 1 \in A /\ \A c \in A : 1 <= c
      BY <1>1, <1>2, <1>8
    <2> HIDE DEF A
    <2>2. /\ Kept(q, A) # <<>> /\ Head(Kept(q, A)) = q[1]
          /\ Tail(Kept(q, A)) = Kept(q, A \ {1})
      BY <1>1, <2>1, KeptCons, SMTT(40)
    <2> QED BY <1>2, <1>6, <1>8, <2>2 DEF Without, r, B, A
  <1> QED BY <1>7, <1>8

\* Taking out the one place of r and then every z leaves what taking out z and then r
\* does.
LEMMA WithoutRemoveAt ==
    ASSUME NEW X, NEW q \in Seq(X), NEW i \in 1..Len(q), NEW r, NEW z, r # z, q[i] = r,
           \A k \in DOMAIN q : q[k] = r => k = i
    PROVE  Without(RemoveAt(q, i), z) = Without(Without(q, z), r)
  <1> DEFINE Z == {k \in DOMAIN q : q[k] # z}
             A == {k \in DOMAIN q : q[k] # z /\ q[k] # r}
             p == RemoveAt(q, i)
             B == {k \in DOMAIN p : p[k] # z}
             h == [k \in A |-> IF k < i THEN k ELSE k - 1]
             w == Kept(q, Z)
             C == {k \in DOMAIN w : w[k] # r}
             upTo(k) == {j \in Z : j <= k}
             g == [k \in A |-> Cardinality(upTo(k))]
  <1>1. /\ Z \in SUBSET DOMAIN q /\ Z \in SUBSET Nat /\ IsFiniteSet(Z)
        /\ Len(q) \in Nat /\ DOMAIN q = 1..Len(q)
    BY WithoutPlaces
  <1>2. A \in SUBSET Z /\ A \in SUBSET Nat /\ IsFiniteSet(A) /\ i \notin A
    <2>1. A \in SUBSET Z
      OBVIOUS
    <2> QED BY <1>1, <2>1, FS_Subset
  <1>3. /\ p \in Seq(X) /\ DOMAIN p = 1..(Len(q) - 1)
        /\ \A j \in 1..(Len(q) - 1) : p[j] = IF j < i THEN q[j] ELSE q[j + 1]
    <2>1. p \in Seq(X) /\ Len(p) = Len(q) - 1
      BY RemoveAtProperties
    <2>2. \A j \in 1..(Len(q) - 1) : p[j] = IF j < i THEN q[j] ELSE q[j + 1]
      BY RemoveAtProperties
    <2> HIDE DEF p
    <2> QED BY <2>1, <2>2, LenProperties
  <1>4. Kept(p, B) = Kept(q, A)
    <2> HIDE DEF p
    <2>1. \A k \in A : h[k] \in B
      BY <1>1, <1>2, <1>3
    <2>2. ASSUME NEW b \in B PROVE \E k \in A : h[k] = b
      <3>1. CASE b < i
        <4>1. b \in A /\ h[b] = b
          BY <1>1, <1>3, <3>1
        <4> QED BY <4>1
      <3>2. CASE ~(b < i)
        <4>1. b + 1 \in A /\ h[b + 1] = b
          BY <1>1, <1>3, <3>2
        <4> QED BY <4>1
      <3> QED BY <3>1, <3>2
    <2>3. \A k, j \in A : h[k] = h[j] => k = j
      BY <1>1, <1>2
    <2>4. \A k, j \in A : k <= j => h[k] <= h[j]
      BY <1>1, <1>2
    <2>5. \A k \in A : p[h[k]] = q[k]
      BY <1>1, <1>2, <1>3
    <2>6. B \in SUBSET Nat /\ h = [k \in A |-> h[k]]
      BY <1>3
    <2> HIDE DEF A, B, h
    <2>7. h \in Bijection(A, B)
      BY <2>1, <2>2, <2>3, <2>6 DEF Bijection, Injection, Surjection, IsInjective
    <2>8. A \in SUBSET Nat /\ IsFiniteSet(A)
      BY <1>2
    <2>9. B \in SUBSET Nat
      BY <2>6
    <2> HIDE DEF w, C, Z, g, upTo
    <2> QED BY <2>4, <2>5, <2>7, <2>8, <2>9, KeptAlike
  <1>5. /\ Cardinality(Z) \in Nat /\ DOMAIN w = 1..Cardinality(Z)
        /\ \A k \in 1..Cardinality(Z) :
             /\ Ascending(Z)[k] \in Z /\ w[k] = q[Ascending(Z)[k]]
             /\ Cardinality(upTo(Ascending(Z)[k])) = k
        /\ \A k \in Z :
             /\ IsFiniteSet(upTo(k)) /\ Cardinality(upTo(k)) \in 1..Cardinality(Z)
             /\ Ascending(Z)[Cardinality(upTo(k))] = k
    <2> HIDE DEF Z
    <2>1. /\ Cardinality(Z) \in Nat
          /\ \A k \in 1..Cardinality(Z) :
               Ascending(Z)[k] \in Z /\ Cardinality(upTo(Ascending(Z)[k])) = k
      BY <1>1, AscendingRank
    <2>2. ASSUME NEW k \in Z
          PROVE  /\ IsFiniteSet(upTo(k)) /\ Cardinality(upTo(k)) \in 1..Cardinality(Z)
                 /\ Ascending(Z)[Cardinality(upTo(k))] = k
      <3>1. upTo(k) \in SUBSET Z
        OBVIOUS
      <3>2. IsFiniteSet(upTo(k))
        BY <1>1, <3>1, FS_Subset
      <3>3. Cardinality(upTo(k)) \in 1..Cardinality(Z)
        <4>1. k \in upTo(k)
          BY <1>1
        <4> HIDE DEF upTo
        <4>2. Cardinality(upTo(k)) <= Cardinality(Z) /\ Cardinality(upTo(k)) \in Nat
          BY <1>1, <3>1, <3>2, FS_Subset, FS_CardinalityType
        <4>3. Cardinality(upTo(k)) # 0
          BY <3>2, <4>1, FS_EmptySet
        <4> QED BY <2>1, <4>2, <4>3
      <3>4. Ascending(Z)[Cardinality(upTo(k))] = k
        BY <1>1, AscendingRank
      <3> QED BY <3>2, <3>3, <3>4
    <2>3. /\ DOMAIN w = 1..Cardinality(Z)
          /\ \A k \in 1..Cardinality(Z) : w[k] = q[Ascending(Z)[k]]
      BY DEF Kept
    <2> HIDE DEF upTo, w
    <2> QED BY <2>1, <2>2, <2>3
  <1>6. Kept(w, C) = Kept(q, A)
    <2>1. \A k \in A : q[k] # r /\ k \in Z
      OBVIOUS
    <2>2. \A k \in Z : q[k] # r => k \in A
      OBVIOUS
    <2>3. g = [k \in A |-> g[k]] /\ \A k \in A : g[k] = Cardinality(upTo(k))
      OBVIOUS
    <2>4. \A k, j \in Z : k <= j => upTo(k) \in SUBSET upTo(j)
      BY <1>1
    <2> HIDE DEF Z, A, g, w, upTo
    <2>5. \A k \in A : g[k] \in C /\ Ascending(Z)[g[k]] = k /\ w[g[k]] = q[k]
      BY <1>5, <2>1, <2>3
    <2>6. ASSUME NEW c \in C PROVE \E k \in A : g[k] = c
      <3>1. Ascending(Z)[c] \in A /\ Cardinality(upTo(Ascending(Z)[c])) = c
        BY <1>5, <2>2
      <3> QED BY <2>3, <3>1
    <2>7. \A k, j \in A : g[k] = g[j] => k = j
      BY <2>5
    <2>8. C \in SUBSET Nat
      BY <1>5
    <2>9. ASSUME NEW k \in A, NEW j \in A, k <= j PROVE g[k] <= g[j]
      BY <1>5, <2>1, <2>3, <2>4, <2>9, FS_Subset
    <2> HIDE DEF C
    <2>10. g \in Bijection(A, C)
      BY <2>3, <2>5, <2>6, <2>7 DEF Bijection, Injection, Surjection, IsInjective
    <2> QED BY <1>2, <2>5, <2>8, <2>9, <2>10, KeptAlike
  <1>7. Without(p, z) = Kept(p, B) /\ Without(w, r) = Kept(w, C) /\ w = Without(q, z)
    BY DEF Without
  <1> HIDE DEF A, B, C, p, w
  <1> QED BY <1>4, <1>6, <1>7 DEF p
=============================================================================
