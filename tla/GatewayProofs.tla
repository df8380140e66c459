---------------------------- MODULE GatewayProofs ----------------------------
(***************************************************************************)
(* Theorems about the gateway, for every set of requests, sessions and     *)
(* sockets and every bound. On the types stand four invariants, each       *)
(* inductive on those before it: BooksInv, where a session is (on a        *)
(* socket, away, or gone) and what its stamps and deadlines are;           *)
(* ServedInv, that what is owed is on a seat; AccountInv, that a request   *)
(* sent is owed, answered or accounted for; and CountInv, how many         *)
(* terminal frames of a request are on their way or have come.             *)
(***************************************************************************)
EXTENDS Gateway, OrderingProofs

-----------------------------------------------------------------------------
(* How often a frame occurs in a sequence *)

\* The concatenation of two sequences holds the frames of both.
LEMMA TimesConcat ==
    ASSUME NEW X, NEW a \in Seq(X), NEW b \in Seq(X), NEW x
    PROVE  /\ Times(x, a) \in Nat
           /\ Times(x, a \o b) = Times(x, a) + Times(x, b)
  <1> DEFINE at(q) == {k \in DOMAIN q : q[k] = x}
             shifted == {k \in DOMAIN (a \o b) : (a \o b)[k] = x /\ k > Len(a)}
             shift == [k \in at(b) |-> k + Len(a)]
  <1>1. /\ DOMAIN a = 1..Len(a) /\ DOMAIN b = 1..Len(b)
        /\ Len(a) \in Nat /\ Len(b) \in Nat
    BY LenProperties
  <1>2. /\ DOMAIN (a \o b) = 1..(Len(a) + Len(b))
        /\ \A k \in 1..(Len(a) + Len(b)) :
             (a \o b)[k] = IF k <= Len(a) THEN a[k] ELSE b[k - Len(a)]
    BY ConcatProperties, LenProperties
  <1>3. IsFiniteSet(at(a)) /\ IsFiniteSet(at(b))
    <2>1. at(a) \in SUBSET (1..Len(a)) /\ at(b) \in SUBSET (1..Len(b))
      BY <1>1
    <2>2. IsFiniteSet(1..Len(a)) /\ IsFiniteSet(1..Len(b))
      BY <1>1, FS_Interval
    <2> HIDE DEF at
    <2> QED BY <2>1, <2>2, FS_Subset
  <1>4. at(a \o b) = at(a) \union shifted
    <2>1. ASSUME NEW k \in 1..(Len(a) + Len(b))
          PROVE  k \in at(a \o b) <=> k \in at(a) \/ k \in shifted
      <3>1. CASE k <= Len(a)
        BY <3>1, <1>1, <1>2
      <3>2. CASE ~(k <= Len(a))
        BY <3>2, <1>1, <1>2
      <3> QED BY <3>1, <3>2
    <2>2. \A k \in at(a) : k \in 1..(Len(a) + Len(b))
      BY <1>1
    <2> QED BY <2>1, <2>2, <1>2
  <1>5. at(a) \intersect shifted = {}
    BY <1>1
  <1>6. shift \in Bijection(at(b), shifted)
    <2>1. shift \in [at(b) -> shifted]
      BY <1>1, <1>2
    <2>2. \A k, l \in at(b) : shift[k] = shift[l] => k = l
      BY <1>1
    <2>3. \A k \in shifted : k - Len(a) \in at(b) /\ shift[k - Len(a)] = k
      BY <1>1, <1>2
    <2> HIDE DEF at, shifted, shift
    <2> QED BY <2>1, <2>2, <2>3, Fun_IsBij DEF IsInjective
  <1>7. IsFiniteSet(shifted) /\ Cardinality(shifted) = Cardinality(at(b))
    BY <1>3, <1>6, FS_Bijection DEF ExistsBijection
  <1>8. Cardinality(at(a)) \in Nat /\ Cardinality(shifted) \in Nat
    BY <1>3, <1>7, FS_CardinalityType
  <1> HIDE DEF shifted
  <1>9. Cardinality(at(a) \union shifted)
          = Cardinality(at(a)) + Cardinality(shifted) - Cardinality(at(a) \intersect shifted)
    BY <1>3, <1>7, FS_Union
  <1>10. Cardinality(at(a) \intersect shifted) = 0
    BY <1>5, FS_EmptySet
  <1> HIDE DEF at
  <1>11. Times(x, a) = Cardinality(at(a)) /\ Times(x, b) = Cardinality(at(b))
    BY DEF Times, at
  <1>12. Times(x, a \o b) = Cardinality(at(a \o b))
    BY DEF Times, at
  <1> QED BY <1>4, <1>7, <1>8, <1>9, <1>10, <1>11, <1>12

\* A sequence without repetition holds each of its frames once.
LEMMA TimesOnce ==
    ASSUME NEW X, NEW q \in Seq(X), NEW x,
           \A k, l \in DOMAIN q : q[k] = q[l] => k = l
    PROVE  Times(x, q) = IF x \in Range(q) THEN 1 ELSE 0
  <1>1. CASE x \in Range(q)
    <2>1. PICK k \in DOMAIN q : q[k] = x
      BY <1>1 DEF Range
    <2>2. {l \in DOMAIN q : q[l] = x} = {k}
      BY <2>1
    <2> QED BY <1>1, <2>2, FS_Singleton DEF Times
  <1>2. CASE x \notin Range(q)
    <2>1. {l \in DOMAIN q : q[l] = x} = {}
      BY <1>2 DEF Range
    <2> QED BY <1>2, <2>1, FS_EmptySet DEF Times
  <1> QED BY <1>1, <1>2

\* Cutting a sequence in two: each frame is in one of the parts.
LEMMA SplitProperties ==
    ASSUME NEW X, NEW q \in Seq(X), NEW n \in 0..Len(q)
    PROVE  /\ SubSeq(q, 1, n) \in Seq(X) /\ SubSeq(q, n + 1, Len(q)) \in Seq(X)
           /\ Len(SubSeq(q, 1, n)) = n
           /\ Range(q) = Range(SubSeq(q, 1, n)) \union Range(SubSeq(q, n + 1, Len(q)))
           /\ IsInjective(q) =>
                /\ IsInjective(SubSeq(q, 1, n))
                /\ Range(SubSeq(q, 1, n)) \intersect Range(SubSeq(q, n + 1, Len(q))) = {}
  <1> DEFINE front == SubSeq(q, 1, n)
             back == SubSeq(q, n + 1, Len(q))
  <1>1. /\ Len(q) \in Nat /\ DOMAIN q = 1..Len(q)
        /\ \A j \in 1..Len(q) : q[j] \in X
    BY LenProperties, ElementOfSeq
  <1>2. /\ front \in Seq(X) /\ Len(front) = n
        /\ DOMAIN front = 1..n
        /\ \A j \in 1..n : front[j] = q[j]
    <2>1. \A j \in 1..n : q[j] \in X
      BY <1>1
    <2>2. 1 \in Int /\ n \in Int
      OBVIOUS
    <2> HIDE DEF front
    <2>3. /\ front \in Seq(X)
          /\ Len(front) = IF 1 <= n THEN n - 1 + 1 ELSE 0
          /\ \A j \in 1..(n - 1 + 1) : front[j] = q[1 + j - 1]
      BY <2>1, <2>2, SubSeqProperties DEF front
    <2>4. DOMAIN front = 1..Len(front)
      BY <2>3, LenProperties
    <2> QED BY <2>3, <2>4
  <1>3. /\ back \in Seq(X)
        /\ DOMAIN back = 1..(Len(q) - n)
        /\ \A j \in 1..(Len(q) - n) : back[j] = q[n + j]
    <2>1. \A j \in (n + 1)..Len(q) : q[j] \in X
      BY <1>1
    <2>2. n + 1 \in Int /\ Len(q) \in Int
      BY <1>1
    <2> HIDE DEF back
    <2>3. /\ back \in Seq(X)
          /\ Len(back) = IF n + 1 <= Len(q) THEN Len(q) - (n + 1) + 1 ELSE 0
          /\ \A j \in 1..(Len(q) - (n + 1) + 1) : back[j] = q[(n + 1) + j - 1]
      BY <2>1, <2>2, SubSeqProperties DEF back
    <2>4. DOMAIN back = 1..Len(back)
      BY <2>3, LenProperties
    <2>5. Len(back) = Len(q) - n /\ Len(q) - (n + 1) + 1 = Len(q) - n
      <3>1. Len(q) \in Nat /\ n \in Nat /\ n <= Len(q)
        BY <1>1
      <3>2. Len(back) = IF n + 1 <= Len(q) THEN Len(q) - (n + 1) + 1 ELSE 0
        BY <2>3
      <3> QED BY ONLY <3>1, <3>2
    <2>6. \A j \in 1..(Len(q) - n) : back[j] = q[n + j]
      <3> SUFFICES ASSUME NEW j \in 1..(Len(q) - n) PROVE back[j] = q[n + j]
        OBVIOUS
      <3>1. (n + 1) + j - 1 = n + j
        BY <1>1
      <3>2. j \in 1..(Len(q) - (n + 1) + 1)
        BY <2>5
      <3>3. back[j] = q[(n + 1) + j - 1]
        BY <3>2, <2>3
      <3> QED BY <3>1, <3>3
    <2> QED BY <2>3, <2>4, <2>5, <2>6
  <1> HIDE DEF front, back
  <1>4. Range(q) = Range(front) \union Range(back)
    <2>1. ASSUME NEW x \in Range(q) PROVE x \in Range(front) \union Range(back)
      <3>1. PICK j \in 1..Len(q) : q[j] = x
        BY <1>1 DEF Range
      <3>2. CASE j <= n
        BY <3>1, <3>2, <1>2 DEF Range
      <3>3. CASE ~(j <= n)
        <4>1. j - n \in 1..(Len(q) - n) /\ n + (j - n) = j
          BY <3>3, <1>1
        <4>2. back[j - n] = q[n + (j - n)]
          BY <4>1, <1>3
        <4>3. back[j - n] = x
          BY <4>1, <4>2, <3>1
        <4> QED BY <4>1, <4>3, <1>3 DEF Range
      <3> QED BY <3>2, <3>3
    <2>2. Range(front) \subseteq Range(q)
      BY <1>1, <1>2 DEF Range
    <2>3. Range(back) \subseteq Range(q)
      <3>1. \A j \in 1..(Len(q) - n) : n + j \in 1..Len(q)
        BY <1>1
      <3> QED BY <3>1, <1>1, <1>3 DEF Range
    <2> QED BY <2>1, <2>2, <2>3
  <1>5. ASSUME IsInjective(q)
        PROVE  IsInjective(front) /\ Range(front) \intersect Range(back) = {}
    <2>1. IsInjective(front)
      BY <1>1, <1>2, <1>5 DEF IsInjective
    <2>2. ASSUME NEW j \in 1..n, NEW k \in 1..(Len(q) - n) PROVE front[j] # back[k]
      <3>1. j \in DOMAIN q /\ n + k \in DOMAIN q /\ j # n + k
        BY <1>1
      <3>2. q[j] # q[n + k]
        BY <3>1, <1>5 DEF IsInjective
      <3> QED BY <3>2, <1>2, <1>3
    <2> QED BY <2>1, <2>2, <1>2, <1>3 DEF Range
  <1> QED BY <1>2, <1>3, <1>4, <1>5 DEF front, back

\* The frames of a sequence, and of one frame.
LEMMA RangeProperties ==
    ASSUME NEW X, NEW q \in Seq(X)
    PROVE  Range(q) \subseteq X
  BY LenProperties, ElementOfSeq DEF Range

LEMMA OneFrame ==
    ASSUME NEW X, NEW i \in X
    PROVE  /\ <<i>> \in Seq(X)
           /\ Range(<<i>>) = {i}
           /\ IsInjective(<<i>>)
  <1>1. <<i>> \in Seq(X)
    OBVIOUS
  <1>2. DOMAIN <<i>> = 1..1
    OBVIOUS
  <1>3. <<i>>[1] = i
    OBVIOUS
  <1> QED BY <1>1, <1>2, <1>3 DEF Range, IsInjective

\* The owed requests are failed in the order of their ids, each once.
LEMMA OwedFrames ==
    ASSUME NEW ids \in SUBSET Ids
    PROVE  /\ Ascending(ids) \in Seq(Ids)
           /\ Range(Ascending(ids)) = ids
           /\ IsInjective(Ascending(ids))
  <1>1. ids \in SUBSET Nat /\ IsFiniteSet(ids)
    BY RequestAssumption, FS_Subset
  <1>2. /\ Ascending(ids) \in Seq(ids)
        /\ Range(Ascending(ids)) = ids
        /\ IsInjective(Ascending(ids))
    BY <1>1, AscendingProperties DEF IsInjective
  <1> QED BY <1>2, SeqMonotonic
-----------------------------------------------------------------------------
(* What the parts of a handler do *)

\* Changing a function at one argument.
LEMMA AtOne ==
    ASSUME NEW D, NEW f, DOMAIN f = D, NEW x \in D, NEW v, NEW g, g = [f EXCEPT ![x] = v]
    PROVE  g[x] = v /\ g = [f EXCEPT ![x] = g[x]] /\ DOMAIN g = D
  <1>1. g[x] = v /\ DOMAIN g = D
    OBVIOUS
  <1> QED BY <1>1

\* Frames held for an absent client stay within their limit, and one is lost
\* only when there is no room.
HeldFits ==
    \A s \in Sessions :
        /\ Len(away[s].held) <= MaxHeld
        /\ away[s].lost # {} => Len(away[s].held) = MaxHeld

TypeInv == TypeOK /\ HeldFits

\* A frame written to a socket reaches the client or goes nowhere, and no other
\* request's frames are touched.
LEMMA WriteEffect ==
    ASSUME TypeOK, NEW c, NEW frames \in Seq(Ids), IsInjective(frames), Write(c, frames)
    PROVE  /\ told' \in [Ids -> Nat] /\ unheard' \subseteq Ids
           /\ \A i \in Ids \ Range(frames) : told'[i] = told[i]
           /\ \A i \in Ids \ Range(frames) : i \in unheard' <=> i \in unheard
           /\ \A i \in Range(frames) :
                \/ told'[i] = told[i] + 1 /\ (i \in unheard' <=> i \in unheard)
                \/ told'[i] = told[i] /\ i \in unheard'
  <1>1. Range(frames) \subseteq Ids
    BY RangeProperties
  <1>2. \A i : Times(i, frames) = IF i \in Range(frames) THEN 1 ELSE 0
    BY TimesOnce DEF IsInjective
  <1>3. told \in [Ids -> Nat] /\ unheard \subseteq Ids
    BY DEF TypeOK
  <1>4. CASE line[c] = "up"
    <2>1. told' = [i \in Ids |-> told[i] + Times(i, frames)] /\ unheard' = unheard
      BY <1>4 DEF Write
    <2>2. \A i \in Ids : told'[i] = told[i] + (IF i \in Range(frames) THEN 1 ELSE 0)
      BY <1>2, <2>1
    <2>3. told' \in [Ids -> Nat]
      BY <1>2, <1>3, <2>1
    <2> QED BY ONLY <1>1, <1>3, <2>1, <2>2, <2>3
  <1>5. CASE line[c] # "up"
    BY <1>1, <1>3, <1>5 DEF Write
  <1> QED BY <1>4, <1>5

\* Whatever becomes of terminal frames for a session, only its own state and its
\* own requests' frames are touched, and no frame gets lost on the way but those
\* of a session that has neither a socket nor an absent client.
LEMMA DeliverEffect ==
    ASSUME TypeInv, NEW s \in Sessions, NEW frames \in Seq(Ids), IsInjective(frames),
           NEW owed \in SUBSET Ids, NEW m, Deliver(s, frames, owed, m)
    PROVE  /\ outstanding' = [outstanding EXCEPT ![s] = outstanding'[s]]
           /\ outstanding'[s] \subseteq Ids
           /\ route' = [route EXCEPT ![s] = route'[s]]
           /\ away' = [away EXCEPT ![s] = away'[s]]
           /\ away'[s] \in [since : {away[s].since}, held : Seq(Ids), lost : SUBSET Ids]
           /\ HeldFits'
           /\ told' \in [Ids -> Nat] /\ unheard' \subseteq Ids
           /\ \A i \in Ids \ Range(frames) : told'[i] = told[i]
           /\ \A i \in Ids \ Range(frames) : i \in unheard' <=> i \in unheard
           /\ owed \ Range(frames) \subseteq outstanding'[s]
           /\ outstanding'[s] \subseteq owed \union Range(frames)
           /\ outstanding'[s] \intersect Range(frames) \subseteq away'[s].lost
           /\ \/ /\ route[s] # NoConn /\ away'[s] = away[s]
                 /\ outstanding'[s] = owed \ Range(frames)
                 /\ route'[s] = IF m = "none" /\ outstanding'[s] = {} THEN NoConn
                                                                    ELSE route[s]
                 /\ \A i \in Range(frames) :
                      \/ told'[i] = told[i] + 1 /\ (i \in unheard' <=> i \in unheard)
                      \/ told'[i] = told[i] /\ i \in unheard'
              \/ /\ route[s] = NoConn /\ IsAway(s)
                 /\ route'[s] = NoConn /\ told' = told /\ unheard' = unheard
                 /\ Range(away[s].held) \subseteq Range(away'[s].held)
                 /\ Range(away'[s].held) \subseteq Range(away[s].held) \union Range(frames)
                 /\ away[s].lost \subseteq away'[s].lost
                 /\ away'[s].lost \subseteq away[s].lost \union Range(frames)
                 /\ \A i \in Range(frames) :
                      \/ i \in Range(away'[s].held)
                      \/ i \in away'[s].lost /\ i \in outstanding'[s]
                 /\ \A i \in Ids \ Range(frames) :
                      Times(i, away'[s].held) = Times(i, away[s].held)
                 /\ \A i \in Range(frames) :
                      \/ i \in away'[s].lost /\ Times(i, away'[s].held) = Times(i, away[s].held)
                      \/ /\ i \notin away[s].lost /\ i \notin away'[s].lost
                         /\ Times(i, away'[s].held) = Times(i, away[s].held) + 1
              \/ /\ route[s] = NoConn /\ ~IsAway(s)
                 /\ outstanding'[s] = owed \ Range(frames)
                 /\ route'[s] = NoConn /\ away'[s] = away[s]
                 /\ told' = told /\ unheard' = unheard
  <1>1. Range(frames) \subseteq Ids
    BY RangeProperties
  <1>2. /\ told \in [Ids -> Nat] /\ unheard \subseteq Ids
        /\ route \in [Sessions -> Conns \union {NoConn}]
        /\ outstanding \in [Sessions -> SUBSET Ids]
        /\ away \in [Sessions -> [since : Nat, held : Seq(Ids), lost : SUBSET Ids]]
    BY DEF TypeOK, TypeInv, Absence
  <1>3. /\ away[s].since \in Nat /\ away[s].held \in Seq(Ids) /\ away[s].lost \subseteq Ids
        /\ away[s] = [since |-> away[s].since, held |-> away[s].held, lost |-> away[s].lost]
        /\ DOMAIN route = Sessions /\ DOMAIN outstanding = Sessions /\ DOMAIN away = Sessions
        /\ s \in Sessions
    BY <1>2
  <1>4. CASE Routed(s, frames, owed, m)
    <2>1. /\ route[s] # NoConn /\ away' = away
          /\ outstanding' = [outstanding EXCEPT ![s] = owed \ Range(frames)]
          /\ route' = [route EXCEPT ![s] =
                          IF m = "none" /\ owed \ Range(frames) = {} THEN NoConn ELSE @]
      BY <1>4 DEF Routed
    <2>2. /\ outstanding'[s] = owed \ Range(frames) /\ away'[s] = away[s]
          /\ route'[s] = IF m = "none" /\ outstanding'[s] = {} THEN NoConn ELSE route[s]
          /\ outstanding' = [outstanding EXCEPT ![s] = outstanding'[s]]
          /\ route' = [route EXCEPT ![s] = route'[s]]
          /\ away' = [away EXCEPT ![s] = away'[s]]
      <3>1. /\ outstanding'[s] = owed \ Range(frames)
            /\ outstanding' = [outstanding EXCEPT ![s] = outstanding'[s]]
        BY ONLY <1>3, <2>1, AtOne
      <3>2. /\ route'[s] = IF m = "none" /\ owed \ Range(frames) = {} THEN NoConn ELSE route[s]
            /\ route' = [route EXCEPT ![s] = route'[s]]
        BY ONLY <1>3, <2>1, AtOne
      <3>3. away'[s] = away[s] /\ away' = [away EXCEPT ![s] = away'[s]]
        BY ONLY <1>2, <1>3, <2>1
      <3> QED BY ONLY <3>1, <3>2, <3>3
    <2>3. HeldFits'
      BY <2>1 DEF TypeInv, HeldFits
    <2>4. /\ told' \in [Ids -> Nat] /\ unheard' \subseteq Ids
          /\ \A i \in Ids \ Range(frames) : told'[i] = told[i]
          /\ \A i \in Ids \ Range(frames) : i \in unheard' <=> i \in unheard
          /\ \A i \in Range(frames) :
               \/ told'[i] = told[i] + 1 /\ (i \in unheard' <=> i \in unheard)
               \/ told'[i] = told[i] /\ i \in unheard'
      BY <1>4, WriteEffect DEF Routed, TypeInv
    <2>5. away'[s] \in [since : {away[s].since}, held : Seq(Ids), lost : SUBSET Ids]
      BY <1>3, <2>2
    <2> QED BY ONLY <2>1, <2>2, <2>3, <2>4, <2>5
  <1>5. CASE Vanished(s, frames, owed)
    <2>1. /\ route[s] = NoConn /\ ~IsAway(s) /\ away' = away /\ route' = route
          /\ told' = told /\ unheard' = unheard
          /\ outstanding' = [outstanding EXCEPT ![s] = owed \ Range(frames)]
      BY <1>5 DEF Vanished
    <2>2. /\ outstanding'[s] = owed \ Range(frames) /\ away'[s] = away[s]
          /\ outstanding' = [outstanding EXCEPT ![s] = outstanding'[s]]
          /\ route' = [route EXCEPT ![s] = route'[s]]
          /\ away' = [away EXCEPT ![s] = away'[s]]
      <3>1. /\ outstanding'[s] = owed \ Range(frames)
            /\ outstanding' = [outstanding EXCEPT ![s] = outstanding'[s]]
        BY ONLY <1>3, <2>1, AtOne
      <3>2. route' = [route EXCEPT ![s] = route'[s]]
        BY ONLY <1>2, <1>3, <2>1
      <3>3. away'[s] = away[s] /\ away' = [away EXCEPT ![s] = away'[s]]
        BY ONLY <1>2, <1>3, <2>1
      <3> QED BY ONLY <3>1, <3>2, <3>3
    <2>3. HeldFits'
      BY <2>1 DEF TypeInv, HeldFits
    <2>4. away'[s] \in [since : {away[s].since}, held : Seq(Ids), lost : SUBSET Ids]
      BY <1>3, <2>2
    <2> QED BY ONLY <1>2, <2>1, <2>2, <2>3, <2>4
  <1>6. CASE Held(s, frames, owed)
    <2> DEFINE n == Fit(s, frames)
               front == SubSeq(frames, 1, n)
               over == Range(SubSeq(frames, n + 1, Len(frames)))
    <2>1. /\ route[s] = NoConn /\ IsAway(s) /\ route' = route
          /\ told' = told /\ unheard' = unheard
          /\ away' = [away EXCEPT ![s].held = @ \o front, ![s].lost = @ \union over]
          /\ outstanding' = [outstanding EXCEPT ![s] = (owed \ Range(frames)) \union over]
      BY <1>6 DEF Held
    <2>2. /\ n \in 0..Len(frames) /\ n \in 0..(MaxHeld - Len(away[s].held))
          /\ n < Len(frames) => Len(away[s].held) + n = MaxHeld
      <3>1. Len(frames) \in Nat /\ Len(away[s].held) \in Nat
        BY <1>3, LenProperties
      <3>2. MaxHeld \in Nat /\ Len(away[s].held) <= MaxHeld
        BY LimitAssumption DEF TypeInv, HeldFits
      <3>3. n = IF MaxHeld - Len(away[s].held) < Len(frames)
                THEN MaxHeld - Len(away[s].held) ELSE Len(frames)
        BY DEF Fit
      <3> HIDE DEF n
      <3>4. CASE MaxHeld - Len(away[s].held) < Len(frames)
        BY ONLY <3>1, <3>2, <3>3, <3>4
      <3>5. CASE ~(MaxHeld - Len(away[s].held) < Len(frames))
        BY ONLY <3>1, <3>2, <3>3, <3>5
      <3> QED BY <3>4, <3>5
    <2> HIDE DEF n
    <2>3. /\ front \in Seq(Ids) /\ Len(front) = n /\ IsInjective(front)
          /\ Range(frames) = Range(front) \union over
          /\ Range(front) \intersect over = {}
      BY <2>2, SplitProperties
    <2>4. n = Len(frames) => over = {}
      <3> SUFFICES ASSUME n = Len(frames) PROVE over = {}
        OBVIOUS
      <3>1. SubSeq(frames, n + 1, Len(frames)) = <<>>
        BY LenProperties, SubSeqEmpty
      <3> QED BY <3>1 DEF Range
    <2> HIDE DEF front, over
    <2>5. /\ away'[s] = [since |-> away[s].since, held |-> away[s].held \o front,
                         lost |-> away[s].lost \union over]
          /\ outstanding'[s] = (owed \ Range(frames)) \union over
          /\ outstanding' = [outstanding EXCEPT ![s] = outstanding'[s]]
          /\ route' = [route EXCEPT ![s] = route'[s]]
          /\ away' = [away EXCEPT ![s] = away'[s]]
      <3>1. away' = [away EXCEPT ![s] =
                       [since |-> away[s].since, held |-> away[s].held \o front,
                        lost |-> away[s].lost \union over]]
        <4>1. \A r \in Sessions \ {s} : away'[r] = away[r]
          BY <1>3, <2>1
        <4>2. away'[s] = [away[s] EXCEPT !.held = away[s].held \o front,
                                         !.lost = away[s].lost \union over]
          BY <1>3, <2>1
        <4>3. away'[s] = [since |-> away[s].since, held |-> away[s].held \o front,
                          lost |-> away[s].lost \union over]
          BY <1>3, <4>2
        <4>4. away' = [r \in Sessions |-> away'[r]]
          BY <1>3, <2>1
        <4> QED BY <1>2, <4>1, <4>3, <4>4
      <3>2. /\ outstanding'[s] = (owed \ Range(frames)) \union over
            /\ outstanding' = [outstanding EXCEPT ![s] = outstanding'[s]]
        BY ONLY <1>3, <2>1, AtOne
      <3>3. route' = [route EXCEPT ![s] = route'[s]]
        BY ONLY <1>2, <1>3, <2>1
      <3>4. /\ away'[s] = [since |-> away[s].since, held |-> away[s].held \o front,
                           lost |-> away[s].lost \union over]
            /\ away' = [away EXCEPT ![s] = away'[s]]
        BY ONLY <1>3, <3>1, AtOne
      <3> QED BY ONLY <3>2, <3>3, <3>4
    <2>6. /\ away'[s].held \in Seq(Ids) /\ Len(away'[s].held) = Len(away[s].held) + n
          /\ Range(away'[s].held) = Range(away[s].held) \union Range(front)
      <3>1. away'[s].held = away[s].held \o front
        BY <2>5
      <3>2. Range(away[s].held \o front) = Range(away[s].held) \union Range(front)
        BY <1>3, <2>3, RangeConcatenation
      <3> QED BY <1>3, <2>3, <3>1, <3>2, ConcatProperties
    <2>7. Len(away'[s].held) <= MaxHeld /\ (away'[s].lost # {} => Len(away'[s].held) = MaxHeld)
      <3>1. Len(frames) \in Nat /\ Len(away[s].held) \in Nat /\ MaxHeld \in Nat
        BY <1>3, LenProperties, LimitAssumption
      <3>2. /\ Len(away[s].held) <= MaxHeld
            /\ away[s].lost # {} => Len(away[s].held) = MaxHeld
        BY DEF TypeInv, HeldFits
      <3>3. away'[s].lost # {} => away[s].lost # {} \/ n < Len(frames)
        BY <2>2, <2>4, <2>5, <3>1
      <3> QED BY ONLY <2>2, <2>6, <3>1, <3>2, <3>3
    <2>8. HeldFits'
      BY <2>5, <2>7, <1>3 DEF TypeInv, HeldFits
    <2>9. away'[s] \in [since : {away[s].since}, held : Seq(Ids), lost : SUBSET Ids]
      BY <1>1, <1>3, <2>3, <2>5, <2>6
    <2>10. ASSUME NEW i
           PROVE  Times(i, away'[s].held)
                    = Times(i, away[s].held) + (IF i \in Range(front) THEN 1 ELSE 0)
      <3>1. Times(i, front) = IF i \in Range(front) THEN 1 ELSE 0
        BY <2>3, TimesOnce DEF IsInjective
      <3>2. Times(i, away[s].held \o front) = Times(i, away[s].held) + Times(i, front)
        BY <1>3, <2>3, TimesConcat
      <3> QED BY <3>1, <3>2, <2>5
    <2>11. \A i : Times(i, away[s].held) \in Nat
      BY <1>3, EmptySeq, TimesConcat
    <2>12. Range(front) # {} => away[s].lost = {}
      <3>1. n = 0 => Range(front) = {}
        BY SubSeqEmpty DEF Range, front
      <3>2. Len(away[s].held) \in Nat /\ MaxHeld \in Nat
        BY <1>3, LenProperties, LimitAssumption
      <3>3. away[s].lost # {} => n = 0
        BY <2>2, <3>2 DEF TypeInv, HeldFits
      <3> QED BY <3>1, <3>3
    <2>13. /\ \A i \in Ids \ Range(frames) :
                Times(i, away'[s].held) = Times(i, away[s].held)
           /\ \A i \in Range(frames) :
                \/ i \in away'[s].lost /\ Times(i, away'[s].held) = Times(i, away[s].held)
                \/ /\ i \notin away[s].lost /\ i \notin away'[s].lost
                   /\ Times(i, away'[s].held) = Times(i, away[s].held) + 1
      BY <2>3, <2>5, <2>10, <2>11, <2>12
    <2>14. \A i \in Range(frames) :
              \/ i \in Range(away'[s].held)
              \/ i \in away'[s].lost /\ i \in outstanding'[s]
      BY <2>3, <2>5, <2>6
    <2>15. /\ Range(away[s].held) \subseteq Range(away'[s].held)
           /\ Range(away'[s].held) \subseteq Range(away[s].held) \union Range(frames)
           /\ away[s].lost \subseteq away'[s].lost
           /\ away'[s].lost \subseteq away[s].lost \union Range(frames)
           /\ outstanding'[s] \intersect Range(frames) \subseteq away'[s].lost
           /\ owed \ Range(frames) \subseteq outstanding'[s]
           /\ outstanding'[s] \subseteq owed \union Range(frames)
           /\ outstanding'[s] \subseteq Ids
      BY <1>1, <2>3, <2>5, <2>6
    <2>16. route'[s] = NoConn
      BY <2>1
    <2> HIDE DEF HeldFits
    <2> QED BY ONLY <1>2, <2>1, <2>5, <2>8, <2>9, <2>13, <2>14, <2>15, <2>16
  <1> QED BY <1>4, <1>5, <1>6 DEF Deliver

\* Each session on the sockets that end is detached, with a deadline of its own, or
\* is over; over too are some that were absent; nobody else is touched.
LEMMA LeaveEffect ==
    ASSUME TypeInv, NEW cs \in SUBSET Conns, NEW order \in Orders(cs), Leave(cs, order)
    PROVE  /\ order \in Seq(Sessions) /\ IsInjective(order) /\ Range(order) = Staying(cs)
           /\ deadlines' = deadlines \o Armed(order)
           /\ route' = [s \in Sessions |-> IF route[s] \in cs THEN NoConn ELSE route[s]]
           /\ line' = [c \in Conns |-> IF c \in cs THEN "none" ELSE line[c]]
           /\ slots' = [c \in Conns |-> IF c \in cs THEN {} ELSE slots[c]]
           /\ DOMAIN away' = Sessions /\ DOMAIN meta' = Sessions
           /\ DOMAIN outstanding' = Sessions /\ DOMAIN below' = Sessions
           /\ away' = [s \in Sessions |-> away'[s]]
           /\ meta' = [s \in Sessions |-> meta'[s]]
           /\ outstanding' = [s \in Sessions |-> outstanding'[s]]
           /\ below' = [s \in Sessions |-> below'[s]]
           /\ \A s \in Sessions :
                \/ /\ IsAway(s) \/ \E c \in cs : s \in slots[c]
                   /\ away'[s] = Here /\ meta'[s] = "none" /\ outstanding'[s] = {}
                   /\ below'[s] = Closed(below[s])
                \/ /\ s \in Staying(cs)
                   /\ \E k \in DOMAIN order :
                        order[k] = s /\ away'[s] = [Here EXCEPT !.since = Latest + k]
                   /\ UNCHANGED <<meta[s], outstanding[s], below[s]>>
                \/ /\ \A c \in cs : s \notin slots[c]
                   /\ UNCHANGED <<away[s], meta[s], outstanding[s], below[s]>>
  <1> DEFINE gone == UNION {slots[c] : c \in cs}
             stays == Range(order)
             stamp == [s \in Sessions |->
                         IF s \in stays THEN Latest + CHOOSE k \in DOMAIN order : order[k] = s
                         ELSE away[s].since]
             waiting == Detached \union stays
             ended == (waiting \ Survivors(stamp, waiting)) \union (gone \ stays)
             n == Cardinality(Staying(cs))
  <1>1. Staying(cs) \in SUBSET Sessions
    BY DEF Staying, TypeInv, TypeOK
  <1>2. IsFiniteSet(Staying(cs)) /\ n \in Nat /\ IsFiniteSet(1..n) /\ Cardinality(1..n) = n
    <2>1. IsFiniteSet(Staying(cs)) /\ n \in Nat
      BY <1>1, RequestAssumption, FS_Subset, FS_CardinalityType
    <2> HIDE DEF n
    <2> QED BY <2>1, FS_Interval
  <1>3. order \in [1..n -> Staying(cs)] /\ \A i, j \in 1..n : i # j => order[i] # order[j]
    BY DEF Orders, SetToSeqs
  <1>4. order \in Injection(1..n, Staying(cs))
    BY <1>3 DEF Injection, IsInjective
  <1>5. order \in Surjection(1..n, Staying(cs))
    BY <1>2, <1>4, FS_Injection
  <1>6. order \in Seq(Sessions) /\ IsInjective(order)
    BY <1>1, <1>2, <1>3 DEF IsInjective
  <1>7. stays = Staying(cs)
    BY <1>3, <1>5 DEF Surjection, Range
  <1>8. /\ away' = [s \in Sessions |->
                      IF s \in ended THEN Here
                      ELSE IF s \in stays THEN [Here EXCEPT !.since = stamp[s]] ELSE away[s]]
        /\ deadlines' = deadlines \o Armed(order)
        /\ meta' = [s \in Sessions |-> IF s \in ended THEN "none" ELSE meta[s]]
        /\ outstanding' = [s \in Sessions |-> IF s \in ended THEN {} ELSE outstanding[s]]
        /\ below' = [s \in Sessions |-> IF s \in ended THEN Closed(below[s]) ELSE below[s]]
        /\ route' = [s \in Sessions |-> IF route[s] \in cs THEN NoConn ELSE route[s]]
        /\ line' = [c \in Conns |-> IF c \in cs THEN "none" ELSE line[c]]
        /\ slots' = [c \in Conns |-> IF c \in cs THEN {} ELSE slots[c]]
    BY Zenon DEF Leave
  <1>9. \A s \in ended : IsAway(s) \/ \E c \in cs : s \in slots[c]
    BY <1>7 DEF Detached, Staying
  <1>10. \A s \in Sessions \ ended : s \in stays \/ \A c \in cs : s \notin slots[c]
    OBVIOUS
  <1>11. \A s \in stays : \E k \in DOMAIN order : order[k] = s /\ stamp[s] = Latest + k
    <2> SUFFICES ASSUME NEW s \in stays
                 PROVE  \E k \in DOMAIN order : order[k] = s /\ stamp[s] = Latest + k
      OBVIOUS
    <2> DEFINE at == CHOOSE k \in DOMAIN order : order[k] = s
    <2>1. at \in DOMAIN order /\ order[at] = s
      BY DEF Range
    <2>2. stamp[s] = Latest + at
      BY <1>1, <1>7
    <2> QED BY <2>1, <2>2
  <1> HIDE DEF ended, stamp, waiting, gone
  <1>12. ASSUME NEW s \in Sessions
         PROVE  \/ /\ IsAway(s) \/ \E c \in cs : s \in slots[c]
                   /\ away'[s] = Here /\ meta'[s] = "none" /\ outstanding'[s] = {}
                   /\ below'[s] = Closed(below[s])
                \/ /\ s \in Staying(cs)
                   /\ \E k \in DOMAIN order :
                        order[k] = s /\ away'[s] = [Here EXCEPT !.since = Latest + k]
                   /\ UNCHANGED <<meta[s], outstanding[s], below[s]>>
                \/ /\ \A c \in cs : s \notin slots[c]
                   /\ UNCHANGED <<away[s], meta[s], outstanding[s], below[s]>>
    <2>1. CASE s \in ended
      BY <2>1, <1>8, <1>9
    <2>2. CASE s \notin ended /\ s \in stays
      <3>1. PICK k \in DOMAIN order : order[k] = s /\ stamp[s] = Latest + k
        BY <2>2, <1>11
      <3>2. away'[s] = [Here EXCEPT !.since = stamp[s]]
        BY <2>2, <1>8
      <3> QED BY <2>2, <3>1, <3>2, <1>7, <1>8
    <2>3. CASE s \notin ended /\ s \notin stays
      BY <2>3, <1>8, <1>10
    <2> QED BY <2>1, <2>2, <2>3
  <1>13. /\ DOMAIN away' = Sessions /\ DOMAIN meta' = Sessions
         /\ DOMAIN outstanding' = Sessions /\ DOMAIN below' = Sessions
    BY <1>8
  <1>14. /\ away' = [s \in Sessions |-> away'[s]]
         /\ meta' = [s \in Sessions |-> meta'[s]]
    BY <1>8
  <1>15. /\ outstanding' = [s \in Sessions |-> outstanding'[s]]
         /\ below' = [s \in Sessions |-> below'[s]]
    BY <1>8
  <1> QED BY <1>6, <1>7, <1>8, <1>12, <1>13, <1>14, <1>15
-----------------------------------------------------------------------------
(* The type invariant *)

LEMMA TypeInit == Init => TypeInv
  <1> SUFFICES ASSUME Init PROVE TypeInv
    OBVIOUS
  <1>1. Here \in Absence
    BY EmptySeq DEF Here, Absence
  <1>2. deadlines \in Seq(Deadline)
    BY EmptySeq DEF Init
  <1>3. drops \in 0..MaxDrops
    BY LimitAssumption DEF Init
  <1>4. route \in [Sessions -> Conns \union {NoConn}]
    BY DEF Init
  <1>5. HeldFits
    BY LimitAssumption, EmptySeq DEF Init, HeldFits, Here
  <1> QED BY <1>1, <1>2, <1>3, <1>4, <1>5 DEF Init, TypeInv, TypeOK

\* What a request is.
LEMMA RequestType ==
    ASSUME NEW i \in Ids
    PROVE  /\ S(i) \in Sessions /\ Request[i].session \in Sessions
           /\ Request[i].kind \in Kinds /\ Request[i].of \in Ids
  BY RequestAssumption DEF S

\* The last deadline is the latest stamp there is.
LEMMA LatestType ==
    ASSUME TypeOK
    PROVE  /\ Latest \in Nat
           /\ deadlines # <<>> => Latest = deadlines[Len(deadlines)].since
  <1>1. deadlines \in Seq(Deadline)
    BY DEF TypeOK
  <1>2. CASE deadlines = <<>>
    BY <1>2 DEF Latest
  <1>3. CASE deadlines # <<>>
    <2>1. Len(deadlines) \in Nat \ {0}
      BY <1>1, <1>3, LenProperties
    <2>2. deadlines[Len(deadlines)] \in Deadline
      BY <1>1, <2>1, ElementOfSeq
    <2>3. deadlines[Len(deadlines)].since \in Nat
      BY <2>2 DEF Deadline
    <2>4. Latest = deadlines[Len(deadlines)].since
      BY <1>3 DEF Latest, Last
    <2> QED BY <2>3, <2>4
  <1> QED BY <1>2, <1>3

LEMMA ArmedType ==
    ASSUME TypeOK, NEW order \in Seq(Sessions)
    PROVE  /\ Armed(order) \in Seq(Deadline)
           /\ Len(Armed(order)) = Len(order)
           /\ \A k \in 1..Len(order) :
                Armed(order)[k] = [session |-> order[k], since |-> Latest + k]
  <1>1. DOMAIN order = 1..Len(order) /\ Len(order) \in Nat
    BY LenProperties
  <1>2. \A k \in 1..Len(order) : order[k] \in Sessions
    BY <1>1, ElementOfSeq
  <1>3. \A k \in 1..Len(order) : Latest + k \in Nat \ {0}
    BY LatestType
  <1>4. Armed(order) \in [1..Len(order) -> Deadline]
    BY <1>1, <1>2, <1>3 DEF Armed, Deadline
  <1>5. \A k \in 1..Len(order) :
          Armed(order)[k] = [session |-> order[k], since |-> Latest + k]
    BY <1>1 DEF Armed
  <1>6. Armed(order) \in Seq(Deadline)
    BY <1>1, <1>4
  <1>7. Len(Armed(order)) = Len(order)
    BY <1>1, <1>4, <1>6, LenProperties
  <1> HIDE DEF Armed
  <1> QED BY <1>5, <1>6, <1>7

LEMMA LeaveType ==
    ASSUME TypeInv, NEW cs \in SUBSET Conns, NEW order \in Orders(cs), Leave(cs, order)
    PROVE  /\ away' \in [Sessions -> Absence]
           /\ deadlines' \in Seq(Deadline)
           /\ meta' \in [Sessions -> {"none", "opening", "open"}]
           /\ outstanding' \in [Sessions -> SUBSET Ids]
           /\ below' \in [Sessions -> {"none", "live", "hollow"}]
           /\ route' \in [Sessions -> Conns \union {NoConn}]
           /\ line' \in [Conns -> {"none", "up", "dead"}]
           /\ slots' \in [Conns -> SUBSET Sessions]
           /\ HeldFits'
  <1> USE DEF TypeInv
  <1>1. Here \in Absence /\ Here.held = <<>> /\ Here.lost = {}
    BY EmptySeq DEF Here, Absence
  <1>2. ASSUME NEW s \in Sessions
        PROVE  /\ away'[s] \in Absence
               /\ away'[s] = away[s] \/ (away'[s].held = <<>> /\ away'[s].lost = {})
               /\ meta'[s] \in {"none", "opening", "open"}
               /\ outstanding'[s] \subseteq Ids
               /\ below'[s] \in {"none", "live", "hollow"}
    <2>1. /\ away[s] \in Absence
          /\ meta[s] \in {"none", "opening", "open"} /\ outstanding[s] \subseteq Ids
          /\ below[s] \in {"none", "live", "hollow"}
      BY DEF TypeOK
    <2>2. CASE /\ away'[s] = Here /\ meta'[s] = "none" /\ outstanding'[s] = {}
               /\ below'[s] = Closed(below[s])
      BY <1>1, <2>1, <2>2 DEF Closed
    <2>3. CASE /\ \E k \in DOMAIN order :
                    order[k] = s /\ away'[s] = [Here EXCEPT !.since = Latest + k]
               /\ UNCHANGED <<meta[s], outstanding[s], below[s]>>
      <3>1. PICK k \in DOMAIN order : away'[s] = [Here EXCEPT !.since = Latest + k]
        BY <2>3
      <3>2. k \in Nat
        BY LeaveEffect, LenProperties
      <3>3. Latest + k \in Nat
        BY <3>2, LatestType
      <3>4. away'[s] = [since |-> Latest + k, held |-> <<>>, lost |-> {}]
        BY <3>1 DEF Here
      <3>5. away'[s] \in Absence /\ away'[s].held = <<>> /\ away'[s].lost = {}
        BY <3>3, <3>4, EmptySeq DEF Absence
      <3> QED BY <2>1, <2>3, <3>5
    <2>4. CASE UNCHANGED <<away[s], meta[s], outstanding[s], below[s]>>
      BY <2>1, <2>4
    <2>5. \/ /\ away'[s] = Here /\ meta'[s] = "none" /\ outstanding'[s] = {}
             /\ below'[s] = Closed(below[s])
          \/ /\ \E k \in DOMAIN order :
                  order[k] = s /\ away'[s] = [Here EXCEPT !.since = Latest + k]
             /\ UNCHANGED <<meta[s], outstanding[s], below[s]>>
          \/ UNCHANGED <<away[s], meta[s], outstanding[s], below[s]>>
      BY LeaveEffect
    <2> QED BY <2>2, <2>3, <2>4, <2>5
  <1>3. deadlines' \in Seq(Deadline)
    <2>1. deadlines' = deadlines \o Armed(order) /\ order \in Seq(Sessions)
      BY LeaveEffect
    <2>2. Armed(order) \in Seq(Deadline)
      BY <2>1, ArmedType
    <2>3. deadlines \in Seq(Deadline)
      BY DEF TypeOK
    <2> QED BY <2>1, <2>2, <2>3, ConcatProperties
  <1>4. /\ route' = [s \in Sessions |-> IF route[s] \in cs THEN NoConn ELSE route[s]]
        /\ line' = [c \in Conns |-> IF c \in cs THEN "none" ELSE line[c]]
        /\ slots' = [c \in Conns |-> IF c \in cs THEN {} ELSE slots[c]]
    BY LeaveEffect
  <1>5. /\ away' = [s \in Sessions |-> away'[s]]
        /\ meta' = [s \in Sessions |-> meta'[s]]
        /\ outstanding' = [s \in Sessions |-> outstanding'[s]]
        /\ below' = [s \in Sessions |-> below'[s]]
    BY LeaveEffect
  <1>6. HeldFits'
    <2> SUFFICES ASSUME NEW s \in Sessions
                 PROVE  /\ Len(away'[s].held) <= MaxHeld
                        /\ away'[s].lost # {} => Len(away'[s].held) = MaxHeld
      BY DEF HeldFits
    <2>1. CASE away'[s] = away[s]
      BY <2>1 DEF HeldFits
    <2>2. CASE away'[s].held = <<>> /\ away'[s].lost = {}
      BY <2>2, EmptySeq, LimitAssumption
    <2> QED BY <1>2, <2>1, <2>2
  <1>7. /\ route \in [Sessions -> Conns \union {NoConn}]
        /\ line \in [Conns -> {"none", "up", "dead"}] /\ slots \in [Conns -> SUBSET Sessions]
    BY DEF TypeOK
  <1>8. /\ route' \in [Sessions -> Conns \union {NoConn}]
        /\ line' \in [Conns -> {"none", "up", "dead"}] /\ slots' \in [Conns -> SUBSET Sessions]
    BY <1>4, <1>7
  <1>9. /\ away' \in [Sessions -> Absence]
        /\ meta' \in [Sessions -> {"none", "opening", "open"}]
    BY <1>2, <1>5
  <1>10. /\ outstanding' \in [Sessions -> SUBSET Ids]
         /\ below' \in [Sessions -> {"none", "live", "hollow"}]
    BY <1>2, <1>5
  <1> QED BY <1>3, <1>6, <1>8, <1>9, <1>10

\* The held frames of a resume, all of them requests of the session's client.
LEMMA ResumeFramesType ==
    ASSUME TypeInv, NEW i \in Ids
    PROVE  /\ ResumeFrames(i) \in Seq(Ids)
           /\ Range(ResumeFrames(i))
                = {i} \union Range(away[S(i)].held) \union away[S(i)].lost
  <1>1. away[S(i)].held \in Seq(Ids) /\ away[S(i)].lost \in SUBSET Ids
    BY RequestType DEF TypeInv, TypeOK, Absence
  <1>2. /\ Ascending(away[S(i)].lost) \in Seq(Ids)
        /\ Range(Ascending(away[S(i)].lost)) = away[S(i)].lost
    BY <1>1, OwedFrames
  <1>3. <<i>> \in Seq(Ids) /\ Range(<<i>>) = {i}
    BY OneFrame
  <1> DEFINE opening == <<i>>
             held == away[S(i)].held
             errors == Ascending(away[S(i)].lost)
  <1>4. ResumeFrames(i) = (opening \o held) \o errors
    BY DEF ResumeFrames
  <1>5. opening \in Seq(Ids) /\ held \in Seq(Ids) /\ errors \in Seq(Ids)
    BY <1>1, <1>2, <1>3
  <1>6. /\ Range(opening) = {i} /\ Range(held) = Range(away[S(i)].held)
        /\ Range(errors) = away[S(i)].lost
    BY <1>2, <1>3
  <1> HIDE DEF opening, held, errors
  <1>7. opening \o held \in Seq(Ids)
    BY <1>5, ConcatProperties
  <1>8. Range(opening \o held) = Range(opening) \union Range(held)
    BY <1>5, RangeConcatenation
  <1>9. (opening \o held) \o errors \in Seq(Ids)
    BY <1>5, <1>7, ConcatProperties
  <1>10. Range((opening \o held) \o errors) = Range(opening \o held) \union Range(errors)
    BY <1>5, <1>7, RangeConcatenation, ZenonT(40)
  <1> QED BY <1>4, <1>6, <1>8, <1>9, <1>10

\* A frame written to a socket that works reaches the client as often as it is
\* written.
LEMMA WriteUp ==
    ASSUME TypeOK, NEW c, NEW frames \in Seq(Ids), line[c] = "up", Write(c, frames)
    PROVE  /\ told' \in [Ids -> Nat] /\ unheard' = unheard
           /\ \A i \in Ids : told'[i] = told[i] + Times(i, frames)
  <1>1. \A i : Times(i, frames) \in Nat
    BY TimesConcat
  <1>2. told' = [i \in Ids |-> told[i] + Times(i, frames)] /\ unheard' = unheard
    BY DEF Write
  <1> QED BY <1>1, <1>2 DEF TypeOK

LEMMA ReleaseType ==
    ASSUME TypeInv, NEW s \in Sessions, Release(s)
    PROVE  /\ outstanding' \in [Sessions -> SUBSET Ids]
           /\ away' \in [Sessions -> Absence] /\ HeldFits'
           /\ meta' \in [Sessions -> {"none", "opening", "open"}]
           /\ route' \in [Sessions -> Conns \union {NoConn}]
           /\ slots' \in [Conns -> SUBSET Sessions]
  <1>1. Here \in Absence
    BY EmptySeq DEF Here, Absence
  <1>2. HeldFits'
    <2>1. Len(Here.held) <= MaxHeld /\ Here.lost = {}
      BY LimitAssumption DEF Here
    <2>2. \A r \in Sessions : away'[r] = Here \/ away'[r] = away[r]
      BY DEF Release, TypeInv, TypeOK
    <2> QED BY <2>1, <2>2 DEF TypeInv, HeldFits
  <1>3. away' \in [Sessions -> Absence]
    BY <1>1 DEF Release, TypeInv, TypeOK
  <1>4. route' \in [Sessions -> Conns \union {NoConn}]
    BY DEF Release, TypeInv, TypeOK
  <1>5. slots' \in [Conns -> SUBSET Sessions]
    BY DEF Release, TypeInv, TypeOK
  <1> QED BY <1>2, <1>3, <1>4, <1>5 DEF Release, TypeInv, TypeOK

LEMMA DeliverType ==
    ASSUME TypeInv, NEW s \in Sessions, NEW frames \in Seq(Ids), IsInjective(frames),
           NEW owed \in SUBSET Ids, NEW m, Deliver(s, frames, owed, m)
    PROVE  /\ outstanding' \in [Sessions -> SUBSET Ids]
           /\ away' \in [Sessions -> Absence] /\ HeldFits'
           /\ route' \in [Sessions -> Conns \union {NoConn}]
           /\ told' \in [Ids -> Nat] /\ unheard' \subseteq Ids
  <1>1. /\ outstanding \in [Sessions -> SUBSET Ids] /\ away \in [Sessions -> Absence]
        /\ route \in [Sessions -> Conns \union {NoConn}]
    BY DEF TypeInv, TypeOK
  <1>2. away'[s] \in Absence
    <2>1. away[s].since \in Nat
      BY <1>1 DEF Absence
    <2>2. away'[s] \in [since : {away[s].since}, held : Seq(Ids), lost : SUBSET Ids]
      BY DeliverEffect
    <2> QED BY <2>1, <2>2 DEF Absence
  <1>3. route'[s] = route[s] \/ route'[s] = NoConn
    BY DeliverEffect
  <1>4. /\ outstanding' = [outstanding EXCEPT ![s] = outstanding'[s]]
        /\ outstanding'[s] \subseteq Ids
        /\ route' = [route EXCEPT ![s] = route'[s]]
        /\ away' = [away EXCEPT ![s] = away'[s]]
        /\ HeldFits' /\ told' \in [Ids -> Nat] /\ unheard' \subseteq Ids
    BY DeliverEffect
  <1>5. outstanding' \in [Sessions -> SUBSET Ids]
    BY <1>1, <1>4
  <1>6. away' \in [Sessions -> Absence]
    BY <1>1, <1>2, <1>4
  <1>7. route' \in [Sessions -> Conns \union {NoConn}]
    BY <1>1, <1>3, <1>4
  <1> QED BY <1>4, <1>5, <1>6, <1>7

\* The requests that a move has left on seats of their own.
LEMMA OnMovedSeatsType ==
    ASSUME TypeOK, NEW s \in Sessions, NEW kept \in OnMovedSeats(s)
    PROVE  kept \subseteq running /\ kept \subseteq Ids /\ \A i \in kept : Moves /\ S(i) = s
  BY DEF OnMovedSeats, TypeOK

LEMMA TypeStep == TypeInv /\ [Next]_vars => TypeInv'
  <1> SUFFICES ASSUME TypeInv, [Next]_vars PROVE TypeInv'
    OBVIOUS
  <1> USE DEF TypeInv
  <1>1. ASSUME NEW c \in Conns, NEW i \in Ids, Refuse(c, i) PROVE TypeInv'
    <2>1. told' \in [Ids -> Nat] /\ unheard' \subseteq Ids
      BY <1>1, OneFrame, WriteEffect DEF Refuse
    <2>2. sent' \subseteq Ids
      BY <1>1 DEF Refuse, Sends, TypeOK
    <2> QED BY <1>1, <2>1, <2>2 DEF Refuse, TypeOK, HeldFits, sockets, window, service
  <1>2. ASSUME NEW c \in Conns, NEW i \in Ids, Open(c, i) PROVE TypeInv'
    <2>1. HeldFits'
      BY <1>2 DEF Open, HeldFits, window
    <2>2. slots' \in [Conns -> SUBSET Sessions] /\ outstanding' \in [Sessions -> SUBSET Ids]
      BY <1>2, RequestType DEF Open, TypeOK
    <2>3. /\ route' \in [Sessions -> Conns \union {NoConn}]
          /\ meta' \in [Sessions -> {"none", "opening", "open"}]
          /\ below' \in [Sessions -> {"none", "live", "hollow"}]
      BY <1>2, RequestType DEF Open, TypeOK
    <2> QED BY <1>2, <2>1, <2>2, <2>3 DEF Open, Sends, TypeOK, window
  <1>3. ASSUME NEW c \in Conns, NEW i \in Ids, OpenThrows(c, i) PROVE TypeInv'
    <2>1. told' \in [Ids -> Nat] /\ unheard' \subseteq Ids
      BY <1>3, OneFrame, WriteEffect DEF OpenThrows
    <2>2. sent' \subseteq Ids
      BY <1>3 DEF OpenThrows, Sends, TypeOK
    <2> QED BY <1>3, <2>1, <2>2 DEF OpenThrows, TypeOK, HeldFits, sockets, window, service
  <1>4. ASSUME NEW c \in Conns, NEW i \in Ids, Resume(c, i) PROVE TypeInv'
    <2>1. told' \in [Ids -> Nat] /\ unheard' = unheard
      BY <1>4, ResumeFramesType, WriteUp DEF Resume, Sends
    <2>2. Here \in Absence /\ Len(Here.held) <= MaxHeld /\ Here.lost = {}
      BY EmptySeq, LimitAssumption DEF Here, Absence
    <2>3. away' \in [Sessions -> Absence] /\ HeldFits'
      <3>1. away' = [away EXCEPT ![S(i)] = Here]
        BY <1>4 DEF Resume
      <3>2. \A r \in Sessions : away'[r] = Here \/ away'[r] = away[r]
        BY <3>1 DEF TypeOK
      <3>3. away' \in [Sessions -> Absence]
        BY <2>2, <3>1 DEF TypeOK
      <3> QED BY <2>2, <3>2, <3>3 DEF HeldFits
    <2>4. slots' \in [Conns -> SUBSET Sessions] /\ outstanding' \in [Sessions -> SUBSET Ids]
      BY <1>4, RequestType DEF Resume, TypeOK
    <2>5. route' \in [Sessions -> Conns \union {NoConn}]
      BY <1>4, RequestType DEF Resume, TypeOK
    <2> QED BY <1>4, <2>1, <2>3, <2>4, <2>5 DEF Resume, Sends, TypeOK, service
  <1>5. ASSUME NEW c \in Conns, NEW i \in Ids, CancelQueued(c, i) PROVE TypeInv'
    <2> DEFINE t == Request[i].of
    <2>1. t \in Ids /\ <<t, i>> \in Seq(Ids)
      BY RequestType
    <2>2. told' \in [Ids -> Nat] /\ unheard' = unheard
      BY <1>5, <2>1, WriteUp DEF CancelQueued, Sends
    <2>3. outstanding' \in [Sessions -> SUBSET Ids]
      BY <1>5, RequestType DEF CancelQueued, TypeOK
    <2>4. running' \subseteq Ids /\ sent' \subseteq Ids
      BY <1>5 DEF CancelQueued, Sends, TypeOK
    <2> QED BY <1>5, <2>2, <2>3, <2>4 DEF CancelQueued, TypeOK, HeldFits, sockets, window
  <1>6. ASSUME NEW c \in Conns, NEW i \in Ids, CancelOther(c, i) PROVE TypeInv'
    <2>1. told' \in [Ids -> Nat] /\ unheard' \subseteq Ids
      BY <1>6, OneFrame, WriteEffect DEF CancelOther
    <2>2. sent' \subseteq Ids
      BY <1>6 DEF CancelOther, Sends, TypeOK
    <2> QED BY <1>6, <2>1, <2>2 DEF CancelOther, TypeOK, HeldFits, sockets, window, service
  <1>7. ASSUME NEW c \in Conns, NEW i \in Ids, Dispatch(c, i) PROVE TypeInv'
    <2>1. outstanding' \in [Sessions -> SUBSET Ids]
      BY <1>7, RequestType DEF Dispatch, TypeOK
    <2>2. running' \subseteq Ids /\ sent' \subseteq Ids
      BY <1>7 DEF Dispatch, Sends, TypeOK
    <2> QED BY <1>7, <2>1, <2>2 DEF Dispatch, TypeOK, HeldFits, sockets, window
  <1>8. ASSUME NEW c \in Conns, NEW i \in Ids, Close(c, i) PROVE TypeInv'
    <2>1. slots' \in [Conns -> SUBSET Sessions] /\ outstanding' \in [Sessions -> SUBSET Ids]
      BY <1>8, RequestType DEF Close, TypeOK
    <2>2. /\ meta' \in [Sessions -> {"none", "opening", "open"}]
          /\ below' \in [Sessions -> {"none", "live", "hollow"}]
      BY <1>8, RequestType DEF Close, TypeOK
    <2>3. running' \subseteq Ids /\ sent' \subseteq Ids
      BY <1>8 DEF Close, Sends, TypeOK
    <2> QED BY <1>8, <2>1, <2>2, <2>3 DEF Close, TypeOK, HeldFits, window
  <1>9. ASSUME NEW c \in Conns, NEW i \in Ids, DispatchFails(c, i) PROVE TypeInv'
    <2> DEFINE m == IF Request[i].kind = "close" THEN "none" ELSE meta[S(i)]
    <2>1. /\ Deliver(S(i), <<i>>, outstanding[S(i)] \union {i}, m)
          /\ meta' = [meta EXCEPT ![S(i)] = m]
          /\ slots' = [slots EXCEPT ![c] = IF m = "none" THEN @ \ {S(i)} ELSE @]
      BY <1>9 DEF DispatchFails
    <2>2. outstanding[S(i)] \union {i} \in SUBSET Ids
      BY RequestType DEF TypeOK
    <2>3. /\ outstanding' \in [Sessions -> SUBSET Ids]
          /\ away' \in [Sessions -> Absence] /\ HeldFits'
          /\ route' \in [Sessions -> Conns \union {NoConn}]
          /\ told' \in [Ids -> Nat] /\ unheard' \subseteq Ids
      BY <2>1, <2>2, OneFrame, RequestType, DeliverType
    <2>4. /\ meta' \in [Sessions -> {"none", "opening", "open"}]
          /\ slots' \in [Conns -> SUBSET Sessions]
      BY <2>1, RequestType DEF TypeOK
    <2>5. below' \in [Sessions -> {"none", "live", "hollow"}]
      BY <1>9, RequestType DEF DispatchFails, TypeOK
    <2>6. sent' \subseteq Ids
      BY <1>9 DEF DispatchFails, Sends, TypeOK
    <2> QED BY <1>9, <2>3, <2>4, <2>5, <2>6 DEF DispatchFails, TypeOK
  <1>10. ASSUME NEW i \in Ids, Answer(i) PROVE TypeInv'
    <2>1. /\ outstanding' \in [Sessions -> SUBSET Ids]
          /\ away' \in [Sessions -> Absence] /\ HeldFits'
          /\ route' \in [Sessions -> Conns \union {NoConn}]
          /\ told' \in [Ids -> Nat] /\ unheard' \subseteq Ids
      <3>1. outstanding[S(i)] \in SUBSET Ids
        BY RequestType DEF TypeOK
      <3> QED BY <1>10, <3>1, OneFrame, RequestType, DeliverType DEF Answer
    <2> QED BY <1>10, <2>1 DEF Answer, TypeOK, sockets
  <1>11. ASSUME NEW i \in Ids, Opened(i) PROVE TypeInv'
    <2>1. /\ outstanding' \in [Sessions -> SUBSET Ids]
          /\ away' \in [Sessions -> Absence] /\ HeldFits'
          /\ route' \in [Sessions -> Conns \union {NoConn}]
          /\ told' \in [Ids -> Nat] /\ unheard' \subseteq Ids
      <3>1. outstanding[S(i)] \in SUBSET Ids
        BY RequestType DEF TypeOK
      <3> QED BY <1>11, <3>1, OneFrame, RequestType, DeliverType DEF Opened
    <2>2. meta' \in [Sessions -> {"none", "opening", "open"}] /\ tokens' \subseteq Sessions
      BY <1>11, RequestType DEF Opened, TypeOK
    <2> QED BY <1>11, <2>1, <2>2 DEF Opened, TypeOK, sockets
  <1>12. ASSUME NEW i \in Ids, OpenRefused(i) PROVE TypeInv'
    <2>1. CASE meta[S(i)] = "opening"
      <3>1. /\ outstanding' \in [Sessions -> SUBSET Ids]
            /\ away' \in [Sessions -> Absence] /\ HeldFits'
            /\ meta' \in [Sessions -> {"none", "opening", "open"}]
            /\ route' \in [Sessions -> Conns \union {NoConn}]
            /\ slots' \in [Conns -> SUBSET Sessions]
        BY <1>12, <2>1, RequestType, ReleaseType DEF OpenRefused
      <3>2. told' \in [Ids -> Nat] /\ unheard' \subseteq Ids
        BY <1>12, <2>1, OneFrame, WriteEffect DEF OpenRefused, WriteIfRouted, TypeOK
      <3>3. below' \in [Sessions -> {"none", "live", "hollow"}]
        BY <1>12, <2>1, RequestType DEF OpenRefused, Closed, TypeOK
      <3> QED BY <1>12, <3>1, <3>2, <3>3 DEF OpenRefused, TypeOK
    <2>2. CASE meta[S(i)] # "opening"
      <3>1. outstanding[S(i)] \in SUBSET Ids
        BY RequestType DEF TypeOK
      <3>2. /\ outstanding' \in [Sessions -> SUBSET Ids]
            /\ away' \in [Sessions -> Absence] /\ HeldFits'
            /\ route' \in [Sessions -> Conns \union {NoConn}]
            /\ told' \in [Ids -> Nat] /\ unheard' \subseteq Ids
        BY <1>12, <2>2, <3>1, OneFrame, RequestType, DeliverType DEF OpenRefused
      <3> QED BY <1>12, <2>2, <3>2 DEF OpenRefused, TypeOK
    <2> QED BY <2>1, <2>2
  <1>13. ASSUME NEW s \in Sessions, NEW kept \in OnMovedSeats(s), Disrupt(s, kept)
         PROVE  TypeInv'
    <2>1. /\ outstanding' \in [Sessions -> SUBSET Ids]
          /\ away' \in [Sessions -> Absence] /\ HeldFits'
          /\ route' \in [Sessions -> Conns \union {NoConn}]
          /\ told' \in [Ids -> Nat] /\ unheard' \subseteq Ids
      <3>1. outstanding[s] \in SUBSET Ids
        BY DEF TypeOK
      <3> QED BY <1>13, <3>1, OwedFrames, DeliverType DEF Disrupt, LostBy
    <2>2. running' \subseteq Ids /\ orphaned' \subseteq Ids
      BY <1>13, OnMovedSeatsType DEF Disrupt, TypeOK
    <2>3. below' \in [Sessions -> {"none", "live", "hollow"}]
      BY <1>13 DEF Disrupt, TypeOK
    <2> QED BY <1>13, <2>1, <2>2, <2>3 DEF Disrupt, TypeOK, sockets
  <1>14. ASSUME NEW s \in Sessions, NEW kept \in OnMovedSeats(s), Drop(s, kept)
         PROVE  TypeInv'
    <2>1. /\ outstanding' \in [Sessions -> SUBSET Ids]
          /\ away' \in [Sessions -> Absence] /\ HeldFits'
          /\ meta' \in [Sessions -> {"none", "opening", "open"}]
          /\ route' \in [Sessions -> Conns \union {NoConn}]
          /\ slots' \in [Conns -> SUBSET Sessions]
      BY <1>14, ReleaseType DEF Drop
    <2>2. told' \in [Ids -> Nat] /\ unheard' \subseteq Ids
      <3>1. outstanding[s] \in SUBSET Ids
        BY DEF TypeOK
      <3> QED BY <1>14, <3>1, OwedFrames, WriteEffect DEF Drop, WriteIfRouted, TypeOK
    <2>3. running' \subseteq Ids /\ orphaned' \subseteq Ids
      BY <1>14, OnMovedSeatsType DEF Drop, TypeOK
    <2>4. below' \in [Sessions -> {"none", "live", "hollow"}]
      BY <1>14 DEF Drop, TypeOK
    <2> QED BY <1>14, <2>1, <2>2, <2>3, <2>4 DEF Drop, TypeOK
  <1>15. ASSUME NEW c \in Conns, Connect(c) PROVE TypeInv'
    BY <1>15 DEF Connect, TypeOK, HeldFits, window, service, client
  <1>16. ASSUME NEW c \in Conns, LineDies(c) PROVE TypeInv'
    BY <1>16 DEF LineDies, TypeOK, HeldFits, window, service, client
  <1>17. ASSUME NEW c \in Conns, CloseSocket(c) PROVE TypeInv'
    <2>1. PICK order \in Orders({c}) : Leave({c}, order)
      BY <1>17 DEF CloseSocket
    <2>2. drops' \in 0..MaxDrops
      BY <1>17, LimitAssumption DEF CloseSocket, TypeOK
    <2> QED BY <1>17, <2>1, <2>2, LeaveType DEF CloseSocket, TypeOK, client
  <1>18. CASE FireDeadline
    <2> DEFINE d == Head(deadlines)
    <2>1. d \in Deadline /\ deadlines' \in Seq(Deadline)
      BY <1>18, HeadTailProperties DEF FireDeadline, TypeOK
    <2>2. d.session \in Sessions
      BY <2>1 DEF Deadline
    <2>3. Here \in Absence /\ Len(Here.held) <= MaxHeld /\ Here.lost = {}
      BY EmptySeq, LimitAssumption DEF Here, Absence
    <2> HIDE DEF d
    <2>4. CASE /\ outstanding' = [outstanding EXCEPT ![d.session] = {}]
               /\ away' = [away EXCEPT ![d.session] = Here]
               /\ meta' = [meta EXCEPT ![d.session] = "none"]
               /\ below' = [below EXCEPT ![d.session] = Closed(@)]
      <3>1. away' \in [Sessions -> Absence]
        BY <2>2, <2>3, <2>4 DEF TypeOK
      <3>2. \A r \in Sessions : away'[r] = Here \/ away'[r] = away[r]
        BY <2>4 DEF TypeOK
      <3>3. HeldFits'
        BY <2>3, <3>2 DEF HeldFits
      <3>4. below' \in [Sessions -> {"none", "live", "hollow"}]
        BY <2>4 DEF TypeOK, Closed
      <3>5. /\ meta' \in [Sessions -> {"none", "opening", "open"}]
            /\ outstanding' \in [Sessions -> SUBSET Ids]
        BY <2>4 DEF TypeOK
      <3> QED BY <1>18, <2>1, <3>1, <3>3, <3>4, <3>5 DEF FireDeadline, TypeOK, sockets, client
    <2>5. CASE UNCHANGED <<outstanding, away, meta, below>>
      BY <1>18, <2>1, <2>5 DEF FireDeadline, TypeOK, HeldFits, sockets, client
    <2> QED BY <1>18, <2>4, <2>5 DEF FireDeadline, CloseAbsent, d
  <1>19. CASE BeginDrain
    BY <1>19 DEF BeginDrain, TypeOK, HeldFits, sockets, window, service, client
  <1>20. CASE Stop
    <2>1. PICK order \in Orders(Conns) : Leave(Conns, order)
      BY <1>20 DEF Stop
    <2> QED BY <1>20, <2>1, LeaveType DEF Stop, TypeOK, client
  <1>21. CASE UNCHANGED vars
    BY <1>21 DEF vars, TypeOK, HeldFits, sockets, window, service, client
  <1> QED
    BY <1>1, <1>2, <1>3, <1>4, <1>5, <1>6, <1>7, <1>8, <1>9, <1>10, <1>11, <1>12, <1>13,
       <1>14, <1>15, <1>16, <1>17, <1>18, <1>19, <1>20, <1>21
    DEF Next, Client, Reply, Socket

\* Everything the gateway keeps has the shape its code gives it.
THEOREM GatewayTypeOK == Spec => []TypeOK
  <1>1. TypeInv => TypeOK
    BY DEF TypeInv
  <1> QED BY TypeInit, TypeStep, <1>1, PTL DEF Spec
-----------------------------------------------------------------------------
(* Deadlines *)

\* Deadlines are armed in the order they fall due, and each absence has its own.
DeadlinesInOrder ==
    \A k, l \in DOMAIN deadlines : k < l => deadlines[k].since < deadlines[l].since
AbsentHaveDeadline ==
    \A s \in Sessions : IsAway(s) =>
        \E k \in DOMAIN deadlines : deadlines[k] = [session |-> s, since |-> away[s].since]
WindowInv == DeadlinesInOrder /\ AbsentHaveDeadline

LEMMA WindowInit == Init => WindowInv
  <1> SUFFICES ASSUME Init PROVE WindowInv
    OBVIOUS
  <1>1. DOMAIN deadlines = {}
    BY DEF Init
  <1>2. \A s \in Sessions : ~IsAway(s)
    BY DEF Init, IsAway, Here
  <1> QED BY <1>1, <1>2 DEF WindowInv, DeadlinesInOrder, AbsentHaveDeadline

\* Coming back, and whatever else leaves the deadlines alone, breaks nothing.
LEMMA WindowQuiet ==
    ASSUME WindowInv, UNCHANGED deadlines,
           \A s \in Sessions : away'[s].since = 0 \/ away'[s].since = away[s].since
    PROVE  WindowInv'
  BY DEF WindowInv, DeadlinesInOrder, AbsentHaveDeadline, IsAway

LEMMA WindowLeave ==
    ASSUME TypeInv, WindowInv,
           NEW cs \in SUBSET Conns, NEW order \in Orders(cs), Leave(cs, order)
    PROVE  WindowInv'
  <1> DEFINE n == Len(deadlines)
             m == Len(order)
  <1>1. /\ deadlines' = deadlines \o Armed(order)
        /\ order \in Seq(Sessions) /\ DOMAIN order = 1..m /\ n \in Nat /\ m \in Nat
        /\ DOMAIN deadlines = 1..n /\ deadlines \in Seq(Deadline)
    BY LeaveEffect, LenProperties DEF TypeInv, TypeOK
  <1>2. /\ Armed(order) \in Seq(Deadline) /\ Len(Armed(order)) = m
        /\ \A k \in 1..m : Armed(order)[k] = [session |-> order[k], since |-> Latest + k]
    BY <1>1, ArmedType DEF TypeInv
  <1>3. /\ Len(deadlines') = n + m
        /\ \A k \in 1..(n + m) :
             deadlines'[k] = IF k <= n THEN deadlines[k] ELSE Armed(order)[k - n]
        /\ deadlines' \in Seq(Deadline)
    <2> DEFINE armed == Armed(order)
    <2>1. deadlines \in Seq(Deadline) /\ armed \in Seq(Deadline) /\ Len(armed) = m
      BY <1>1, <1>2
    <2> HIDE DEF armed
    <2>2. /\ deadlines \o armed \in Seq(Deadline)
          /\ Len(deadlines \o armed) = Len(deadlines) + Len(armed)
          /\ \A k \in 1..(Len(deadlines) + Len(armed)) :
               (deadlines \o armed)[k] = IF k <= Len(deadlines) THEN deadlines[k]
                                         ELSE armed[k - Len(deadlines)]
      BY <2>1, ConcatProperties
    <2> QED BY <2>1, <2>2, <1>1 DEF armed
  <1>n. n \in Nat /\ m \in Nat
    BY <1>1
  <1>4. DOMAIN deadlines' = 1..(n + m)
    BY <1>3, LenProperties
  <1>5. \A k \in 1..n : deadlines'[k] = deadlines[k]
    BY <1>1, <1>3
  <1>6. \A k \in 1..m : deadlines'[n + k] = [session |-> order[k], since |-> Latest + k]
    <2> SUFFICES ASSUME NEW k \in 1..m
                 PROVE  deadlines'[n + k] = [session |-> order[k], since |-> Latest + k]
      OBVIOUS
    <2>1. n + k \in 1..(n + m) /\ ~(n + k <= n) /\ (n + k) - n = k
      BY <1>1
    <2> QED BY <2>1, <1>2, <1>3
  <1>7. Latest \in Nat /\ \A k \in 1..n : deadlines[k].since \in Nat /\ deadlines[k].since <= Latest
    <2>1. Latest \in Nat /\ (n # 0 => Latest = deadlines[n].since)
      BY <1>1, LatestType DEF TypeInv
    <2>2. \A k \in 1..n : deadlines[k].since \in Nat
      <3>1. \A k \in 1..n : deadlines[k] \in Deadline
        BY <1>1, ElementOfSeq
      <3> QED BY <3>1 DEF Deadline
    <2>3. \A k \in 1..n : k < n => deadlines[k].since < deadlines[n].since
      BY <1>1, SMTT(40) DEF WindowInv, DeadlinesInOrder
    <2> HIDE DEF n
    <2> QED BY <1>1, <2>1, <2>2, <2>3
  <1> HIDE DEF n, m
  <1>8. DeadlinesInOrder'
    <2> SUFFICES ASSUME NEW k \in 1..(n + m), NEW l \in 1..(n + m), k < l
                 PROVE  deadlines'[k].since < deadlines'[l].since
      BY <1>4 DEF DeadlinesInOrder
    <2>1. CASE l <= n
      <3>1. k \in 1..n /\ l \in 1..n
        BY <2>1, <1>n
      <3>2. deadlines[k].since < deadlines[l].since
        BY <1>1, <3>1 DEF WindowInv, DeadlinesInOrder
      <3> QED BY <1>5, <3>1, <3>2
    <2>2. CASE k <= n /\ ~(l <= n)
      <3>1. l - n \in 1..m /\ n + (l - n) = l /\ k \in 1..n
        BY <2>2, <1>n
      <3>2. deadlines'[n + (l - n)] = [session |-> order[l - n], since |-> Latest + (l - n)]
        BY <3>1, <1>6
      <3>3. deadlines'[l].since = Latest + (l - n)
        BY <3>1, <3>2
      <3> QED BY <3>1, <3>3, <1>5, <1>7
    <2>3. CASE ~(k <= n)
      <3>1. /\ k - n \in 1..m /\ n + (k - n) = k
            /\ l - n \in 1..m /\ n + (l - n) = l
        BY <2>3, <1>n
      <3>2. deadlines'[n + (k - n)] = [session |-> order[k - n], since |-> Latest + (k - n)]
        BY <3>1, <1>6
      <3>3. deadlines'[n + (l - n)] = [session |-> order[l - n], since |-> Latest + (l - n)]
        BY <3>1, <1>6
      <3>4. deadlines'[k].since = Latest + (k - n) /\ deadlines'[l].since = Latest + (l - n)
        BY <3>1, <3>2, <3>3
      <3> QED BY <3>1, <3>4, <1>7, <1>n
    <2> QED BY <2>1, <2>2, <2>3, <1>1
  <1>9. AbsentHaveDeadline'
    <2> SUFFICES ASSUME NEW s \in Sessions, away'[s].since # 0
                 PROVE  \E k \in 1..(n + m) :
                          deadlines'[k] = [session |-> s, since |-> away'[s].since]
      BY <1>4 DEF AbsentHaveDeadline, IsAway
    <2>1. away'[s] # Here
      BY DEF Here
    <2>2. CASE \E k \in DOMAIN order :
                 order[k] = s /\ away'[s] = [Here EXCEPT !.since = Latest + k]
      <3>1. PICK k \in 1..m : order[k] = s /\ away'[s] = [Here EXCEPT !.since = Latest + k]
        BY <2>2, <1>1
      <3>2. away'[s].since = Latest + k
        BY <3>1 DEF Here
      <3>3. n + k \in 1..(n + m)
        BY <1>1
      <3> QED BY <3>1, <3>2, <3>3, <1>6
    <2>3. CASE away'[s] = away[s]
      <3>1. PICK k \in 1..n : deadlines[k] = [session |-> s, since |-> away[s].since]
        BY <2>3, <1>1 DEF WindowInv, AbsentHaveDeadline, IsAway
      <3>2. k \in 1..(n + m)
        BY <1>1
      <3> QED BY <2>3, <3>1, <3>2, <1>5
    <2>4. \/ away'[s] = Here
          \/ \E k \in DOMAIN order :
                 order[k] = s /\ away'[s] = [Here EXCEPT !.since = Latest + k]
          \/ away'[s] = away[s]
      BY LeaveEffect
    <2> QED BY <2>1, <2>2, <2>3, <2>4
  <1> QED BY <1>8, <1>9 DEF WindowInv

\* The earliest deadline ends the absence it was armed for, or none.
LEMMA HeadEndsItsOwn ==
    ASSUME TypeInv, WindowInv, deadlines # <<>>, NEW s \in Sessions, IsAway(s),
           Head(deadlines).session = s, away[s].since <= Head(deadlines).since
    PROVE  Head(deadlines) = [session |-> s, since |-> away[s].since]
  <1>1. deadlines \in Seq(Deadline) /\ Len(deadlines) \in Nat \ {0}
        /\ DOMAIN deadlines = 1..Len(deadlines) /\ Head(deadlines) = deadlines[1]
    BY LenProperties, HeadTailProperties DEF TypeInv, TypeOK
  <1>2. PICK k \in 1..Len(deadlines) : deadlines[k] = [session |-> s, since |-> away[s].since]
    BY <1>1 DEF WindowInv, AbsentHaveDeadline
  <1>3. deadlines[1] \in Deadline /\ deadlines[k] \in Deadline
    BY <1>1, ElementOfSeq
  <1>4. CASE k = 1
    BY <1>1, <1>2, <1>4
  <1>5. CASE k # 1
    <2>1. deadlines[1].since < deadlines[k].since
      BY <1>1, <1>5 DEF WindowInv, DeadlinesInOrder
    <2> QED BY <2>1, <1>1, <1>2, <1>3 DEF Deadline
  <1> QED BY <1>4, <1>5

LEMMA WindowFire ==
    ASSUME TypeInv, WindowInv, FireDeadline
    PROVE  WindowInv'
  <1> DEFINE n == Len(deadlines)
  <1>1. /\ deadlines \in Seq(Deadline) /\ n \in Nat \ {0} /\ DOMAIN deadlines = 1..n
        /\ Head(deadlines) = deadlines[1] /\ deadlines' = Tail(deadlines)
        /\ Len(deadlines') = n - 1 /\ deadlines' \in Seq(Deadline)
        /\ \A k \in 1..(n - 1) : deadlines'[k] = deadlines[k + 1]
    BY LenProperties, HeadTailProperties DEF TypeInv, TypeOK, FireDeadline
  <1>2. DOMAIN deadlines' = 1..(n - 1)
    BY <1>1, LenProperties
  <1>3. deadlines[1] \in Deadline
    BY <1>1, ElementOfSeq
  <1> HIDE DEF n
  <1>4. DeadlinesInOrder'
    <2> SUFFICES ASSUME NEW k \in 1..(n - 1), NEW l \in 1..(n - 1), k < l
                 PROVE  deadlines'[k].since < deadlines'[l].since
      BY <1>2 DEF DeadlinesInOrder
    <2>1. k + 1 \in 1..n /\ l + 1 \in 1..n /\ k + 1 < l + 1
      BY <1>1
    <2> QED BY <2>1, <1>1 DEF WindowInv, DeadlinesInOrder
  <1>5. AbsentHaveDeadline'
    <2> SUFFICES ASSUME NEW s \in Sessions, away'[s].since # 0
                 PROVE  \E k \in 1..(n - 1) :
                          deadlines'[k] = [session |-> s, since |-> away'[s].since]
      BY <1>2 DEF AbsentHaveDeadline, IsAway
    <2>1. /\ away'[s] = away[s] /\ IsAway(s)
          /\ ~(deadlines[1].session = s /\ away[s].since <= deadlines[1].since)
      <3>1. away \in [Sessions -> Absence] /\ Here.since = 0 /\ deadlines[1].session \in Sessions
        BY <1>3 DEF TypeInv, TypeOK, Here, Deadline
      <3>2. CASE IsAway(deadlines[1].session) /\ away[deadlines[1].session].since <= deadlines[1].since
        <4>1. away' = [away EXCEPT ![deadlines[1].session] = Here]
          BY <3>2, <1>1 DEF FireDeadline, CloseAbsent
        <4> QED BY <3>1, <4>1 DEF IsAway
      <3>3. CASE ~(IsAway(deadlines[1].session) /\ away[deadlines[1].session].since <= deadlines[1].since)
        <4>1. away' = away
          BY <3>3, <1>1 DEF FireDeadline, CloseAbsent
        <4> QED BY <3>3, <4>1 DEF IsAway
      <3> QED BY <3>2, <3>3
    <2>2. PICK k \in 1..n : deadlines[k] = [session |-> s, since |-> away[s].since]
      BY <2>1, <1>1 DEF WindowInv, AbsentHaveDeadline
    <2>3. k # 1
      <3>1. away[s].since \in Nat
        BY DEF TypeInv, TypeOK, Absence
      <3> QED BY <2>1, <2>2, <3>1
    <2>4. k - 1 \in 1..(n - 1) /\ (k - 1) + 1 = k
      BY <2>3, <1>1
    <2> QED BY <2>1, <2>2, <2>4, <1>1
  <1> QED BY <1>4, <1>5 DEF WindowInv

LEMMA DeliverKeepsStamps ==
    ASSUME TypeInv, NEW s \in Sessions, NEW frames \in Seq(Ids), IsInjective(frames),
           NEW owed \in SUBSET Ids, NEW m, Deliver(s, frames, owed, m)
    PROVE  \A r \in Sessions : away'[r].since = away[r].since
  <1>1. /\ away' = [away EXCEPT ![s] = away'[s]]
        /\ away'[s] \in [since : {away[s].since}, held : Seq(Ids), lost : SUBSET Ids]
    BY DeliverEffect
  <1>2. away'[s].since = away[s].since
    BY <1>1
  <1> QED BY <1>1, <1>2 DEF TypeInv, TypeOK

LEMMA WindowStep == TypeInv /\ WindowInv /\ [Next]_vars => WindowInv'
  <1> SUFFICES ASSUME TypeInv, WindowInv, [Next]_vars PROVE WindowInv'
    OBVIOUS
  <1> DEFINE Quiet == /\ UNCHANGED deadlines
                      /\ \A s \in Sessions : \/ away'[s].since = 0
                                             \/ away'[s].since = away[s].since
  <1>0. Quiet => WindowInv'
    BY WindowQuiet
  <1>h. /\ away \in [Sessions -> Absence] /\ outstanding \in [Sessions -> SUBSET Ids]
        /\ Here.since = 0
    BY DEF TypeInv, TypeOK, Here
  <1>1. ASSUME NEW c \in Conns, NEW i \in Ids, Client(c, i) PROVE Quiet
    <2>1. CASE DispatchFails(c, i)
      <3> DEFINE m == IF Request[i].kind = "close" THEN "none" ELSE meta[S(i)]
      <3>1. Deliver(S(i), <<i>>, outstanding[S(i)] \union {i}, m) /\ UNCHANGED deadlines
        BY <2>1 DEF DispatchFails
      <3>2. outstanding[S(i)] \union {i} \in SUBSET Ids
        BY RequestType, <1>h
      <3> QED BY <3>1, <3>2, OneFrame, RequestType, DeliverKeepsStamps
    <2>2. CASE Resume(c, i)
      BY <2>2, <1>h DEF Resume
    <2>3. CASE Refuse(c, i) \/ Open(c, i) \/ OpenThrows(c, i) \/ CancelQueued(c, i)
               \/ CancelOther(c, i) \/ Dispatch(c, i) \/ Close(c, i)
      <3>1. UNCHANGED window
        BY <2>3 DEF Refuse, Open, OpenThrows, CancelQueued, CancelOther, Dispatch, Close
      <3> QED BY <3>1 DEF window
    <2> QED BY <1>1, <2>1, <2>2, <2>3 DEF Client
  <1>2. ASSUME NEW s \in Sessions, Release(s), UNCHANGED deadlines PROVE Quiet
    BY <1>2, <1>h DEF Release
  <1>3. ASSUME NEW i \in Ids, Reply(i) PROVE Quiet
    <2>1. outstanding[S(i)] \in SUBSET Ids
      BY RequestType, <1>h
    <2>2. UNCHANGED deadlines
      BY <1>3 DEF Reply, Answer, Opened, OpenRefused
    <2>3. CASE Deliver(S(i), <<i>>, outstanding[S(i)], meta[S(i)])
      BY <2>1, <2>2, <2>3, OneFrame, RequestType, DeliverKeepsStamps
    <2>4. CASE Release(S(i))
      BY <2>2, <2>4, <1>2, RequestType
    <2> QED BY <1>3, <2>3, <2>4 DEF Reply, Answer, Opened, OpenRefused
  <1>4. ASSUME NEW s \in Sessions, NEW kept \in OnMovedSeats(s), Disrupt(s, kept) PROVE Quiet
    BY <1>4, <1>h, OwedFrames, DeliverKeepsStamps DEF Disrupt, LostBy
  <1>5. ASSUME NEW s \in Sessions, NEW kept \in OnMovedSeats(s), Drop(s, kept) PROVE Quiet
    BY <1>5, <1>2 DEF Drop
  <1>6. ASSUME NEW c \in Conns, Socket(c) PROVE WindowInv'
    <2>1. CASE Connect(c) \/ LineDies(c)
      <3>1. UNCHANGED window
        BY <2>1 DEF Connect, LineDies
      <3> QED BY <3>1, <1>0 DEF window
    <2>2. CASE CloseSocket(c)
      BY <2>2, WindowLeave DEF CloseSocket
    <2> QED BY <1>6, <2>1, <2>2 DEF Socket
  <1>7. CASE FireDeadline
    BY <1>7, WindowFire
  <1>8. CASE Stop
    BY <1>8, WindowLeave DEF Stop
  <1>9. CASE BeginDrain \/ UNCHANGED vars
    <2>1. UNCHANGED window
      BY <1>9 DEF BeginDrain, vars
    <2> QED BY <2>1, <1>0 DEF window
  <1> HIDE DEF Quiet
  <1> QED BY <1>0, <1>1, <1>3, <1>4, <1>5, <1>6, <1>7, <1>8, <1>9 DEF Next

\* Only a deadline that fires shortens the list.
LEMMA EndsItsOwnStep ==
    ASSUME TypeInv, WindowInv, [Next]_vars, Len(deadlines') < Len(deadlines),
           NEW s \in Sessions, meta[s] # meta'[s]
    PROVE  Head(deadlines) = [session |-> s, since |-> away[s].since]
  <1>1. deadlines \in Seq(Deadline) /\ Len(deadlines) \in Nat /\ UNCHANGED deadlines => FALSE
    BY LenProperties DEF TypeInv, TypeOK
  <1>2. ASSUME NEW cs \in SUBSET Conns, NEW order \in Orders(cs), Leave(cs, order) PROVE FALSE
    <2>1. /\ deadlines \in Seq(Deadline) /\ deadlines' = deadlines \o Armed(order)
          /\ Armed(order) \in Seq(Deadline)
      BY <1>2, LeaveEffect, ArmedType DEF TypeInv, TypeOK
    <2>2. Len(deadlines') = Len(deadlines) + Len(Armed(order))
      BY <2>1, ConcatProperties
    <2> QED BY <2>1, <2>2, LenProperties
  <1>3. FireDeadline
    <2>1. ASSUME NEW c \in Conns, NEW i \in Ids, Client(c, i) PROVE UNCHANGED deadlines
      BY <2>1 DEF Client, Refuse, Open, OpenThrows, Resume, CancelQueued, CancelOther, Dispatch,
                  Close, DispatchFails, window
    <2>2. ASSUME NEW i \in Ids, Reply(i) PROVE UNCHANGED deadlines
      BY <2>2 DEF Reply, Answer, Opened, OpenRefused
    <2>3. ASSUME NEW r \in Sessions, NEW kept \in OnMovedSeats(r),
                 Disrupt(r, kept) \/ Drop(r, kept)
          PROVE  UNCHANGED deadlines
      BY <2>3 DEF Disrupt, Drop
    <2>4. ASSUME NEW c \in Conns, Socket(c) PROVE UNCHANGED deadlines \/ CloseSocket(c)
      BY <2>4 DEF Socket, Connect, LineDies, window
    <2>5. ASSUME NEW c \in Conns, CloseSocket(c) PROVE FALSE
      BY <2>5, <1>2 DEF CloseSocket
    <2>6. ~Stop
      BY <1>2 DEF Stop
    <2>7. BeginDrain \/ UNCHANGED vars => UNCHANGED deadlines
      BY DEF BeginDrain, vars, window
    <2> QED BY <1>1, <2>1, <2>2, <2>3, <2>4, <2>5, <2>6, <2>7 DEF Next
  <1>4. /\ deadlines # <<>>
        /\ IsAway(Head(deadlines).session)
        /\ away[Head(deadlines).session].since <= Head(deadlines).since
        /\ meta' = [meta EXCEPT ![Head(deadlines).session] = "none"]
    BY <1>3 DEF FireDeadline, CloseAbsent
  <1>5. s = Head(deadlines).session
    BY <1>4 DEF TypeInv, TypeOK
  <1> QED BY <1>4, <1>5, HeadEndsItsOwn

\* A deadline closes the session only if it was armed for the absence it ends: a
\* client that came back and left again has its whole window.
THEOREM GatewayDeadlinesEndTheirOwn == Spec => DeadlinesEndTheirOwn
  <1>1. TypeInv /\ WindowInv /\ [Next]_vars =>
          [Len(deadlines') < Len(deadlines) =>
             \A s \in Sessions : meta[s] # meta'[s] =>
                 Head(deadlines) = [session |-> s, since |-> away[s].since]]_vars
    BY EndsItsOwnStep
  <1> QED BY TypeInit, TypeStep, WindowInit, WindowStep, <1>1, PTL DEF Spec, DeadlinesEndTheirOwn
-----------------------------------------------------------------------------
(* Sessions, their sockets and their seats *)

\* Nothing has happened to a session whose opening request has not been sent.
Unopened(s) ==
    /\ meta[s] = "none" /\ route[s] = NoConn /\ outstanding[s] = {}
    /\ below[s] = "none" /\ s \notin tokens
UnsentUnopened == \A i \in Ids \ sent : Request[i].kind = "open" => Unopened(S(i))

\* What the books say of one session; and a session the gateway has let go of has a
\* seat that works only when nobody is left to ask it anything.
Book(s) ==
    /\ \A c \in Conns : s \in slots[c] <=> meta[s] # "none" /\ route[s] = c
    /\ meta[s] # "none" => (IsAway(s) <=> route[s] = NoConn)
    /\ IsAway(s) => meta[s] # "none"
    /\ route[s] # NoConn => line[route[s]] # "none"
    /\ meta[s] = "none" /\ route[s] # NoConn => outstanding[s] # {}
    /\ meta[s] = "none" /\ below[s] = "live" => route[s] = NoConn
    /\ ~IsAway(s) => away[s] = Here
BooksInv == UnsentUnopened /\ \A s \in Sessions : Book(s)

LEMMA BooksInit == Init => BooksInv
  BY RequestType DEF Init, BooksInv, Book, UnsentUnopened, Unopened, IsAway, Here, NoConn, Conns

\* A session that was not opened stays so until its opening request is sent.
LEMMA UnopenedStep ==
    ASSUME TypeInv, BooksInv, [Next]_vars, NEW s \in Sessions, Unopened(s),
           \A c \in Conns, i \in Ids : Open(c, i) => S(i) # s
    PROVE  Unopened(s)'
  <1>1. ~IsAway(s) /\ s \in Sessions
    BY DEF BooksInv, Book, Unopened
  <1>2. /\ meta \in [Sessions -> {"none", "opening", "open"}]
        /\ route \in [Sessions -> Conns \union {NoConn}]
        /\ outstanding \in [Sessions -> SUBSET Ids]
        /\ below \in [Sessions -> {"none", "live", "hollow"}]
        /\ \A c \in Conns : c # NoConn /\ s \notin slots[c]
    BY <1>1, LimitAssumption DEF TypeInv, TypeOK, Conns, NoConn, BooksInv, Book, Unopened
  <1> USE <1>1, <1>2
  <1>3. ASSUME NEW r \in Sessions, NEW frames \in Seq(Ids), IsInjective(frames),
               NEW owed \in SUBSET Ids, NEW m, Deliver(r, frames, owed, m),
               r = s => owed \subseteq Range(frames)
        PROVE  route'[s] = NoConn /\ outstanding'[s] = {}
    <2>1. CASE r = s
      <3>1. \/ route[r] # NoConn
            \/ IsAway(r)
            \/ outstanding'[r] = owed \ Range(frames) /\ route'[r] = NoConn
        BY <1>3, DeliverEffect
      <3> QED BY <1>3, <2>1, <3>1 DEF Unopened
    <2>2. CASE r # s
      <3>1. /\ outstanding' = [outstanding EXCEPT ![r] = outstanding'[r]]
            /\ route' = [route EXCEPT ![r] = route'[r]]
        BY <1>3, DeliverEffect
      <3> QED BY <2>2, <3>1 DEF Unopened
    <2> QED BY <2>1, <2>2
  <1>4. ASSUME NEW r \in Sessions, Release(r)
        PROVE  meta'[s] = "none" /\ route'[s] = NoConn /\ outstanding'[s] = {}
    BY <1>4 DEF Release, Unopened
  <1>5. ASSUME NEW c \in Conns, NEW i \in Ids, Client(c, i) PROVE Unopened(s)'
    <2>1. CASE Open(c, i)
      <3>1. S(i) # s
        BY <2>1
      <3> QED BY <2>1, <3>1 DEF Open, Unopened
    <2>2. CASE Resume(c, i)
      <3>1. S(i) # s
        BY <2>2 DEF Resume, Serves, Resumable, Unopened
      <3> QED BY <2>2, <3>1 DEF Resume, Unopened, service
    <2>3. CASE CancelQueued(c, i) \/ Dispatch(c, i) \/ Close(c, i) \/ DispatchFails(c, i)
      <3>1. S(i) # s
        BY <2>3 DEF CancelQueued, Dispatch, Close, DispatchFails, Serves, Owns, Unopened
      <3>2. CASE CancelQueued(c, i) \/ Dispatch(c, i) \/ Close(c, i)
        BY <3>1, <3>2 DEF CancelQueued, Dispatch, Close, Unopened
      <3>3. CASE DispatchFails(c, i)
        <4>1. PICK m : Deliver(S(i), <<i>>, outstanding[S(i)] \union {i}, m)
          BY <3>3 DEF DispatchFails
        <4>2. outstanding[S(i)] \union {i} \in SUBSET Ids
          BY RequestType
        <4>3. route'[s] = NoConn /\ outstanding'[s] = {}
          BY <1>3, <3>1, <4>1, <4>2, OneFrame, RequestType
        <4> QED BY <3>1, <3>3, <4>3 DEF DispatchFails, Unopened
      <3> QED BY <2>3, <3>2, <3>3
    <2>4. CASE Refuse(c, i) \/ OpenThrows(c, i) \/ CancelOther(c, i)
      BY <2>4 DEF Refuse, OpenThrows, CancelOther, Unopened, service
    <2> QED BY <1>5, <2>1, <2>2, <2>3, <2>4 DEF Client
  <1>6. ASSUME NEW i \in Ids, Reply(i) PROVE Unopened(s)'
    <2>1. S(i) = s => outstanding[S(i)] \subseteq Range(<<i>>)
      BY DEF Unopened
    <2>2. outstanding[S(i)] \in SUBSET Ids
      BY RequestType
    <2>3. CASE Answer(i)
      BY <2>1, <2>2, <2>3, <1>3, OneFrame, RequestType DEF Answer, Unopened
    <2>4. CASE Opened(i)
      <3>1. route'[s] = NoConn /\ outstanding'[s] = {}
        BY <2>1, <2>2, <2>4, <1>3, OneFrame, RequestType DEF Opened
      <3> QED BY <2>4, <3>1 DEF Opened, Unopened
    <2>5. CASE OpenRefused(i)
      <3>1. CASE meta[S(i)] = "opening"
        BY <2>5, <3>1, <1>4, RequestType DEF OpenRefused, Unopened
      <3>2. CASE meta[S(i)] # "opening"
        <4>1. route'[s] = NoConn /\ outstanding'[s] = {}
          BY <2>1, <2>2, <2>5, <3>2, <1>3, OneFrame, RequestType DEF OpenRefused
        <4> QED BY <2>5, <3>2, <4>1 DEF OpenRefused, Unopened
      <3> QED BY <3>1, <3>2
    <2> QED BY <1>6, <2>3, <2>4, <2>5 DEF Reply
  <1>7. ASSUME NEW r \in Sessions, NEW kept \in OnMovedSeats(r), Disrupt(r, kept)
        PROVE  Unopened(s)'
    <2>1. r # s /\ outstanding[r] \in SUBSET Ids
      BY <1>7 DEF Disrupt, Unopened
    <2>2. route'[s] = NoConn /\ outstanding'[s] = {}
      BY <1>3, <1>7, <2>1, OwedFrames DEF Disrupt, LostBy
    <2> QED BY <1>7, <2>1, <2>2 DEF Disrupt, Unopened
  <1>8. ASSUME NEW r \in Sessions, NEW kept \in OnMovedSeats(r), Drop(r, kept)
        PROVE  Unopened(s)'
    BY <1>4, <1>8 DEF Drop, Unopened
  <1>9. ASSUME NEW cs \in SUBSET Conns, NEW order \in Orders(cs), Leave(cs, order),
               UNCHANGED tokens
        PROVE  Unopened(s)'
    <2>1. /\ \/ meta'[s] = "none" /\ outstanding'[s] = {} /\ below'[s] = Closed(below[s])
             \/ UNCHANGED <<meta[s], outstanding[s], below[s]>>
          /\ route' = [r \in Sessions |-> IF route[r] \in cs THEN NoConn ELSE route[r]]
      BY <1>9, LeaveEffect
    <2> QED BY <1>9, <2>1 DEF Unopened, Closed
  <1>10. ASSUME NEW c \in Conns, Socket(c) PROVE Unopened(s)'
    <2>1. CASE Connect(c) \/ LineDies(c)
      BY <2>1 DEF Connect, LineDies, Unopened, service, client
    <2>2. CASE CloseSocket(c)
      BY <2>2, <1>9 DEF CloseSocket, client
    <2> QED BY <1>10, <2>1, <2>2 DEF Socket
  <1>11. CASE FireDeadline
    BY <1>11 DEF FireDeadline, CloseAbsent, Closed, Unopened, client
  <1>12. CASE Stop
    BY <1>12, <1>9 DEF Stop, client
  <1>13. CASE BeginDrain \/ UNCHANGED vars
    BY <1>13 DEF BeginDrain, vars, Unopened, service, client
  <1> QED BY <1>5, <1>6, <1>7, <1>8, <1>10, <1>11, <1>12, <1>13 DEF Next

\* Whatever leaves a session's state alone leaves its book alone.
LEMMA BookQuiet ==
    ASSUME NEW s, Book(s), UNCHANGED <<meta[s], route[s], outstanding[s], away[s], below[s]>>,
           \A c \in Conns : s \in slots'[c] <=> s \in slots[c],
           route[s] # NoConn => line'[route[s]] # "none"
    PROVE  Book(s)'
  BY DEF Book, IsAway

LEMMA BookLeave ==
    ASSUME TypeInv, BooksInv, NEW s \in Sessions,
           NEW cs \in SUBSET Conns, NEW order \in Orders(cs), Leave(cs, order)
    PROVE  Book(s)'
  <1>1. Book(s)
    BY DEF BooksInv
  <1>2. /\ route' = [r \in Sessions |-> IF route[r] \in cs THEN NoConn ELSE route[r]]
        /\ line' = [c \in Conns |-> IF c \in cs THEN "none" ELSE line[c]]
        /\ slots' = [c \in Conns |-> IF c \in cs THEN {} ELSE slots[c]]
    BY LeaveEffect
  <1>3. /\ route[s] \in Conns \union {NoConn} /\ NoConn \notin Conns
        /\ route'[s] = IF route[s] \in cs THEN NoConn ELSE route[s]
        /\ \A c \in Conns : line'[c] = IF c \in cs THEN "none" ELSE line[c]
        /\ \A c \in Conns : slots'[c] = IF c \in cs THEN {} ELSE slots[c]
    BY <1>2 DEF TypeInv, TypeOK, Conns, NoConn
  <1>4. route'[s] # NoConn => line'[route'[s]] # "none"
    BY <1>1, <1>3 DEF Book
  <1>5. CASE /\ IsAway(s) \/ \E c \in cs : s \in slots[c]
             /\ away'[s] = Here /\ meta'[s] = "none" /\ below'[s] = Closed(below[s])
    <2>1. route'[s] = NoConn
      BY <1>1, <1>3, <1>5 DEF Book
    <2>2. ~IsAway(s)'
      BY <1>5 DEF IsAway, Here
    <2>3. \A c \in Conns : s \notin slots'[c]
      BY <1>1, <1>3, <1>5 DEF Book
    <2> QED BY <1>5, <2>1, <2>2, <2>3 DEF Book
  <1>6. CASE /\ s \in Staying(cs)
             /\ \E k \in DOMAIN order :
                  order[k] = s /\ away'[s] = [Here EXCEPT !.since = Latest + k]
             /\ UNCHANGED <<meta[s], outstanding[s], below[s]>>
    <2>1. PICK c \in cs : s \in slots[c] /\ meta[s] # "none"
      BY <1>6 DEF Staying
    <2>2. route[s] = c /\ route'[s] = NoConn
      BY <1>1, <1>3, <2>1 DEF Book
    <2>3. IsAway(s)'
      <3>1. PICK k \in DOMAIN order : away'[s] = [Here EXCEPT !.since = Latest + k]
        BY <1>6
      <3>2. k \in Nat \ {0} /\ Latest \in Nat
        BY LeaveEffect, LenProperties, LatestType DEF TypeInv
      <3>3. away'[s].since = Latest + k
        BY <3>1 DEF Here
      <3> QED BY <3>2, <3>3 DEF IsAway
    <2>4. \A d \in Conns : s \notin slots'[d]
      BY <1>1, <1>3, <2>1, <2>2 DEF Book
    <2>5. meta'[s] = meta[s]
      BY <1>6
    <2> QED BY <2>1, <2>2, <2>3, <2>4, <2>5, <1>3 DEF Book
  <1>7. CASE /\ \A c \in cs : s \notin slots[c]
             /\ UNCHANGED <<away[s], meta[s], outstanding[s], below[s]>>
    <2>1. \A c \in Conns : s \in slots'[c] <=> s \in slots[c]
      BY <1>3, <1>7
    <2>2. CASE meta[s] # "none"
      <3>1. route[s] \notin cs /\ route'[s] = route[s]
        BY <1>1, <1>3, <1>7, <2>2 DEF Book
      <3>2. route[s] # NoConn => line'[route[s]] # "none"
        BY <1>4, <3>1
      <3> QED BY <1>1, <1>7, <2>1, <3>1, <3>2, BookQuiet
    <2>3. CASE meta[s] = "none"
      <3>1. meta'[s] = "none" /\ ~IsAway(s) /\ ~IsAway(s)' /\ away'[s] = Here
        BY <1>1, <1>7, <2>3 DEF Book, IsAway
      <3>2. \A c \in Conns : s \notin slots'[c]
        BY <1>1, <2>1, <2>3 DEF Book
      <3>3. UNCHANGED outstanding[s] /\ UNCHANGED below[s]
        BY <1>7
      <3> QED BY <1>1, <1>3, <1>4, <2>3, <3>1, <3>2, <3>3 DEF Book
    <2> QED BY <2>2, <2>3
  <1>8. \/ /\ IsAway(s) \/ \E c \in cs : s \in slots[c]
           /\ away'[s] = Here /\ meta'[s] = "none" /\ outstanding'[s] = {}
           /\ below'[s] = Closed(below[s])
        \/ /\ s \in Staying(cs)
           /\ \E k \in DOMAIN order :
                order[k] = s /\ away'[s] = [Here EXCEPT !.since = Latest + k]
           /\ UNCHANGED <<meta[s], outstanding[s], below[s]>>
        \/ /\ \A c \in cs : s \notin slots[c]
           /\ UNCHANGED <<away[s], meta[s], outstanding[s], below[s]>>
    BY LeaveEffect
  <1> QED BY <1>5, <1>6, <1>7, <1>8

LEMMA BookRelease ==
    ASSUME TypeInv, BooksInv, NEW r \in Sessions, NEW s \in Sessions, Release(r),
           below' = [below EXCEPT ![r] = "none"] \/ below' = [below EXCEPT ![r] = Closed(@)],
           UNCHANGED line
    PROVE  Book(s)'
  <1>1. Book(s) /\ NoConn \notin Conns
    BY DEF BooksInv, Conns, NoConn
  <1>2. CASE s = r
    <2>1. /\ meta'[s] = "none" /\ route'[s] = NoConn /\ away'[s] = Here
          /\ \A c \in Conns : s \notin slots'[c]
      BY <1>2 DEF Release, TypeInv, TypeOK
    <2> QED BY <2>1, <1>1 DEF Book, IsAway, Here
  <1>3. CASE s # r
    <2>1. UNCHANGED <<meta[s], route[s], outstanding[s], away[s], below[s]>>
      BY <1>3 DEF Release, TypeInv, TypeOK
    <2>2. \A c \in Conns : s \in slots'[c] <=> s \in slots[c]
      BY <1>3 DEF Release, TypeInv, TypeOK
    <2> QED BY <1>1, <2>1, <2>2, BookQuiet DEF Book
  <1> QED BY <1>2, <1>3

\* Terminal frames for a session: its route is dropped with the last of them when
\* the gateway has let go of it.
LEMMA BookDeliver ==
    ASSUME TypeInv, BooksInv, NEW r \in Sessions, NEW s \in Sessions,
           NEW frames \in Seq(Ids), IsInjective(frames), NEW owed \in SUBSET Ids,
           NEW m, Deliver(r, frames, owed, m), m = "none" <=> meta'[r] = "none",
           meta' = [meta EXCEPT ![r] = meta'[r]], meta[r] = "none" => meta'[r] = "none",
           meta[r] # "none" /\ meta'[r] = "none" => route[r] # NoConn,
           below' = [below EXCEPT ![r] = below'[r]],
           meta'[r] = "none" /\ below'[r] = "live" =>
             \/ owed \subseteq Range(frames)
             \/ below[r] = "live" /\ meta[r] = "none",
           UNCHANGED line,
           \A c \in Conns : s \in slots'[c] <=> s \in slots[c] /\ (s = r => meta'[r] # "none")
    PROVE  Book(s)'
  <1>1. Book(s) /\ NoConn \notin Conns
    BY DEF BooksInv, Conns, NoConn
  <1>2. CASE s # r
    <2>1. /\ outstanding' = [outstanding EXCEPT ![r] = outstanding'[r]]
          /\ route' = [route EXCEPT ![r] = route'[r]]
          /\ away' = [away EXCEPT ![r] = away'[r]]
      BY DeliverEffect
    <2>2. UNCHANGED <<meta[s], route[s], outstanding[s], away[s], below[s]>>
      BY <1>2, <2>1 DEF TypeInv, TypeOK
    <2> QED BY <1>1, <1>2, <2>2, BookQuiet DEF Book
  <1>3. CASE s = r
    <2>1. away'[r].since = away[r].since
      BY DeliverKeepsStamps
    <2>2. CASE /\ route[r] # NoConn /\ away'[r] = away[r]
               /\ outstanding'[r] = owed \ Range(frames)
               /\ route'[r] = IF m = "none" /\ outstanding'[r] = {} THEN NoConn
                                                                   ELSE route[r]
      <3>1. ~IsAway(r) /\ ~IsAway(r)'
        BY <1>1, <1>3, <2>1, <2>2 DEF Book, IsAway
      <3> QED BY <1>1, <1>3, <2>2, <3>1 DEF Book
    <2>3. CASE route[r] = NoConn /\ IsAway(r) /\ route'[r] = NoConn
      <3>1. IsAway(r)' /\ meta[r] # "none" /\ meta'[r] # "none"
        BY <1>1, <1>3, <2>1, <2>3 DEF Book, IsAway
      <3> QED BY <1>1, <1>3, <2>3, <3>1 DEF Book
    <2>4. CASE route[r] = NoConn /\ ~IsAway(r) /\ route'[r] = NoConn /\ away'[r] = away[r]
      <3>1. ~IsAway(r)' /\ meta[r] = "none" /\ meta'[r] = "none"
        BY <1>1, <1>3, <2>1, <2>4 DEF Book, IsAway
      <3> QED BY <1>1, <1>3, <2>4, <3>1 DEF Book
    <2>5. \/ /\ route[r] # NoConn /\ away'[r] = away[r]
             /\ outstanding'[r] = owed \ Range(frames)
             /\ route'[r] = IF m = "none" /\ outstanding'[r] = {} THEN NoConn
                                                                 ELSE route[r]
          \/ route[r] = NoConn /\ IsAway(r) /\ route'[r] = NoConn
          \/ route[r] = NoConn /\ ~IsAway(r) /\ route'[r] = NoConn /\ away'[r] = away[r]
      BY DeliverEffect
    <2> QED BY <2>2, <2>3, <2>4, <2>5
  <1> QED BY <1>2, <1>3

\* The client's ids are used up.
LEMMA SentGrows ==
    ASSUME [Next]_vars
    PROVE  sent \subseteq sent'
  <1>1. ASSUME NEW c \in Conns, NEW i \in Ids, Client(c, i) PROVE sent \subseteq sent'
    <2>1. Sends(c, i)
      BY <1>1 DEF Client, Refuse, Open, OpenThrows, Resume, CancelQueued, CancelOther, Dispatch,
                  Close, DispatchFails
    <2> QED BY <2>1 DEF Sends
  <1>2. ASSUME NEW i \in Ids, Reply(i) PROVE sent' = sent
    BY <1>2 DEF Reply, Answer, Opened, OpenRefused
  <1>3. ASSUME NEW s \in Sessions, NEW kept \in OnMovedSeats(s), Disrupt(s, kept) \/ Drop(s, kept)
        PROVE  sent' = sent
    BY <1>3 DEF Disrupt, Drop
  <1>4. ASSUME NEW c \in Conns, Socket(c) PROVE sent' = sent
    BY <1>4 DEF Socket, Connect, LineDies, CloseSocket, client
  <1>5. FireDeadline \/ BeginDrain \/ Stop \/ UNCHANGED vars => sent' = sent
    BY DEF FireDeadline, BeginDrain, Stop, vars, client
  <1> QED BY <1>1, <1>2, <1>3, <1>4, <1>5 DEF Next

LEMMA UnsentUnopenedStep ==
    ASSUME TypeInv, BooksInv, [Next]_vars
    PROVE  UnsentUnopened'
  <1> SUFFICES ASSUME NEW i \in Ids \ sent', Request[i].kind = "open" PROVE Unopened(S(i))'
    BY DEF UnsentUnopened, S
  <1>1. i \in Ids \ sent /\ S(i) \in Sessions
    BY SentGrows, RequestType
  <1>2. Unopened(S(i))
    BY <1>1 DEF BooksInv, UnsentUnopened
  <1>3. ASSUME NEW c \in Conns, NEW j \in Ids, Open(c, j) PROVE S(j) # S(i)
    <2>1. j \in sent' /\ Request[j].kind = "open"
      BY <1>3 DEF Open, Sends
    <2> QED BY <2>1, RequestAssumption DEF S
  <1> QED BY <1>1, <1>2, <1>3, UnopenedStep

\* What a client's request does to the books.
LEMMA BookClient ==
    ASSUME TypeInv, BooksInv, NEW c \in Conns, NEW i \in Ids, Client(c, i), NEW s \in Sessions
    PROVE  Book(s)'
  <1>1. Book(s) /\ Book(S(i)) /\ S(i) \in Sessions /\ NoConn \notin Conns /\ c # NoConn
    BY RequestType DEF BooksInv, Conns, NoConn
  <1>2. Sends(c, i) /\ line[c] = "up"
    BY DEF Client, Refuse, Open, OpenThrows, Resume, CancelQueued, CancelOther, Dispatch, Close,
           DispatchFails, Sends
  <1>3. /\ meta \in [Sessions -> {"none", "opening", "open"}]
        /\ route \in [Sessions -> Conns \union {NoConn}]
        /\ outstanding \in [Sessions -> SUBSET Ids]
        /\ below \in [Sessions -> {"none", "live", "hollow"}]
        /\ DOMAIN away = Sessions /\ DOMAIN slots = Conns
    BY DEF TypeInv, TypeOK
  <1>4. CASE Refuse(c, i) \/ OpenThrows(c, i) \/ CancelOther(c, i)
    <2>1. UNCHANGED <<meta, route, outstanding, away, below, slots, line>>
      BY <1>4 DEF Refuse, OpenThrows, CancelOther, sockets, window, service
    <2> QED BY <1>1, <2>1, BookQuiet DEF Book
  <1>5. CASE Open(c, i)
    <2>1. Unopened(S(i))
      BY <1>5 DEF Open, Sends, BooksInv, UnsentUnopened
    <2>2. /\ route' = [route EXCEPT ![S(i)] = c]
          /\ slots' = [slots EXCEPT ![c] = @ \union {S(i)}]
          /\ meta' = [meta EXCEPT ![S(i)] = "opening"]
          /\ outstanding' = [outstanding EXCEPT ![S(i)] = {i}]
          /\ below' = [below EXCEPT ![S(i)] = "live"]
          /\ UNCHANGED <<away, line>>
      BY <1>5 DEF Open, window
    <2>3. CASE s = S(i)
      <3>1. ~IsAway(s) /\ \A d \in Conns : s \notin slots[d]
        BY <1>1, <2>1, <2>3 DEF Book, Unopened
      <3>2. /\ meta'[s] = "opening" /\ route'[s] = c /\ away'[s] = away[s] /\ ~IsAway(s)'
            /\ \A d \in Conns : s \in slots'[d] <=> d = c
        BY <1>1, <1>3, <2>2, <2>3, <3>1 DEF IsAway
      <3> QED BY <1>1, <1>2, <2>2, <3>1, <3>2 DEF Book
    <2>4. CASE s # S(i)
      <3>1. UNCHANGED <<meta[s], route[s], outstanding[s], away[s], below[s]>>
        BY <1>3, <2>2, <2>4
      <3>2. \A d \in Conns : s \in slots'[d] <=> s \in slots[d]
        BY <1>3, <2>2, <2>4
      <3> QED BY <1>1, <2>2, <3>1, <3>2, BookQuiet DEF Book
    <2> QED BY <2>3, <2>4
  <1>6. CASE Resume(c, i)
    <2>1. IsAway(S(i)) /\ meta[S(i)] # "none"
      BY <1>6 DEF Resume, Serves, Resumable
    <2>2. /\ route' = [route EXCEPT ![S(i)] = c]
          /\ slots' = [slots EXCEPT ![c] = @ \union {S(i)}]
          /\ away' = [away EXCEPT ![S(i)] = Here]
          /\ outstanding' = [outstanding EXCEPT ![S(i)] = @ \ Range(ResumeFrames(i))]
          /\ UNCHANGED <<meta, below, line>>
      BY <1>6 DEF Resume, service
    <2>3. CASE s = S(i)
      <3>1. route[s] = NoConn /\ \A d \in Conns : s \notin slots[d]
        BY <1>1, <2>1, <2>3 DEF Book
      <3>2. /\ meta'[s] # "none" /\ route'[s] = c /\ away'[s] = Here /\ ~IsAway(s)'
            /\ \A d \in Conns : s \in slots'[d] <=> d = c
        BY <1>1, <1>3, <2>1, <2>2, <2>3, <3>1 DEF IsAway, Here
      <3> QED BY <1>1, <1>2, <2>2, <3>1, <3>2 DEF Book
    <2>4. CASE s # S(i)
      <3>1. UNCHANGED <<meta[s], route[s], outstanding[s], away[s], below[s]>>
        BY <1>3, <2>2, <2>4
      <3>2. \A d \in Conns : s \in slots'[d] <=> s \in slots[d]
        BY <1>3, <2>2, <2>4
      <3> QED BY <1>1, <2>2, <3>1, <3>2, BookQuiet DEF Book
    <2> QED BY <2>3, <2>4
  <1>7. CASE CancelQueued(c, i) \/ Dispatch(c, i)
    <2>1. route[S(i)] = c /\ below[S(i)] = "live"
      BY <1>7 DEF CancelQueued, Dispatch, Serves, Owns
    <2>2. meta[S(i)] # "none"
      BY <1>1, <2>1 DEF Book
    <2>3. /\ UNCHANGED <<meta, route, away, below, slots, line>>
          /\ \E v : outstanding' = [outstanding EXCEPT ![S(i)] = v]
      BY <1>7 DEF CancelQueued, Dispatch, sockets, window
    <2>4. CASE s = S(i)
      BY <1>1, <2>2, <2>3, <2>4 DEF Book, IsAway
    <2>5. CASE s # S(i)
      <3>1. UNCHANGED outstanding[s]
        BY <1>3, <2>3, <2>5
      <3> QED BY <1>1, <2>3, <3>1, BookQuiet DEF Book
    <2> QED BY <2>4, <2>5
  <1>8. CASE Close(c, i)
    <2>1. route[S(i)] = c
      BY <1>8 DEF Close, Serves, Owns
    <2>2. /\ meta' = [meta EXCEPT ![S(i)] = "none"]
          /\ slots' = [slots EXCEPT ![c] = @ \ {S(i)}]
          /\ outstanding' = [outstanding EXCEPT ![S(i)] = @ \union {i}]
          /\ below' = [below EXCEPT ![S(i)] = "none"]
          /\ UNCHANGED <<route, away, line>>
      BY <1>8 DEF Close, window
    <2>3. CASE s = S(i)
      <3>1. ~IsAway(s)
        BY <1>1, <2>1, <2>3 DEF Book
      <3>2. \A d \in Conns : s \in slots[d] => d = c
        BY <1>1, <2>1, <2>3 DEF Book
      <3>3. /\ meta'[s] = "none" /\ below'[s] = "none" /\ outstanding'[s] # {} /\ ~IsAway(s)'
            /\ \A d \in Conns : s \notin slots'[d]
        BY <1>1, <1>3, <2>2, <2>3, <3>1, <3>2 DEF IsAway
      <3> QED BY <1>1, <2>2, <3>1, <3>3 DEF Book
    <2>4. CASE s # S(i)
      <3>1. UNCHANGED <<meta[s], route[s], outstanding[s], away[s], below[s]>>
        BY <1>3, <2>2, <2>4
      <3>2. \A d \in Conns : s \in slots'[d] <=> s \in slots[d]
        BY <1>3, <2>2, <2>4
      <3> QED BY <1>1, <2>2, <3>1, <3>2, BookQuiet DEF Book
    <2> QED BY <2>3, <2>4
  <1>9. CASE DispatchFails(c, i)
    <2> DEFINE m == IF Request[i].kind = "close" THEN "none" ELSE meta[S(i)]
    <2>1. /\ meta' = [meta EXCEPT ![S(i)] = m]
          /\ slots' = [slots EXCEPT ![c] = IF m = "none" THEN @ \ {S(i)} ELSE @]
          /\ Deliver(S(i), <<i>>, outstanding[S(i)] \union {i}, m)
          /\ UNCHANGED line
      BY <1>9 DEF DispatchFails
    <2>2. route[S(i)] = c
      BY <1>9 DEF DispatchFails, Serves, Owns
    <2>3. /\ below' = [below EXCEPT ![S(i)] = below'[S(i)]]
          /\ below'[S(i)] # "live"
      BY <1>1, <1>3, <1>9 DEF DispatchFails
    <2>4. meta'[S(i)] = m /\ meta' = [meta EXCEPT ![S(i)] = meta'[S(i)]]
      BY <1>1, <1>3, <2>1
    <2>5. \A d \in Conns : s \in slots'[d] <=> s \in slots[d] /\ (s = S(i) => meta'[S(i)] # "none")
      <3>1. CASE s = S(i)
        <4>1. \A d \in Conns : s \in slots[d] => d = c
          BY <1>1, <2>2, <3>1 DEF Book
        <4> QED BY <1>3, <2>1, <2>4, <3>1, <4>1
      <3>2. CASE s # S(i)
        BY <1>3, <2>1, <3>2
      <3> QED BY <3>1, <3>2
    <2>6. meta[S(i)] = "none" => m = "none"
      OBVIOUS
    <2>7. <<i>> \in Seq(Ids) /\ IsInjective(<<i>>) /\ outstanding[S(i)] \union {i} \in SUBSET Ids
      BY <1>1, <1>3, OneFrame
    <2> HIDE DEF m
    <2> QED BY <1>1, <2>1, <2>2, <2>3, <2>4, <2>5, <2>6, <2>7, BookDeliver
  <1> QED BY <1>4, <1>5, <1>6, <1>7, <1>8, <1>9 DEF Client

LEMMA BookReply ==
    ASSUME TypeInv, BooksInv, NEW i \in Ids, Reply(i), NEW s \in Sessions
    PROVE  Book(s)'
  <1>1. /\ S(i) \in Sessions /\ outstanding[S(i)] \in SUBSET Ids
        /\ <<i>> \in Seq(Ids) /\ IsInjective(<<i>>)
        /\ meta \in [Sessions -> {"none", "opening", "open"}]
        /\ below \in [Sessions -> {"none", "live", "hollow"}]
    BY RequestType, OneFrame DEF TypeInv, TypeOK
  <1>2. Book(S(i)) /\ Book(s)
    BY <1>1 DEF BooksInv
  <1>3. CASE \/ Answer(i) \/ Opened(i)
             \/ OpenRefused(i) /\ meta[S(i)] # "opening"
    <2>1. /\ Deliver(S(i), <<i>>, outstanding[S(i)], meta[S(i)])
          /\ UNCHANGED <<below, slots, line>>
      BY <1>3 DEF Answer, Opened, OpenRefused, sockets
    <2>2. /\ meta' = [meta EXCEPT ![S(i)] = meta'[S(i)]]
          /\ meta[S(i)] = "none" <=> meta'[S(i)] = "none"
      BY <1>1, <1>3 DEF Answer, Opened, OpenRefused
    <2>3. \A d \in Conns : s \in slots[d] => meta[s] # "none"
      BY <1>2 DEF Book
    <2>4. below' = [below EXCEPT ![S(i)] = below'[S(i)]]
      BY <1>1, <2>1
    <2> QED BY <1>1, <2>1, <2>2, <2>3, <2>4, BookDeliver
  <1>4. CASE OpenRefused(i) /\ meta[S(i)] = "opening"
    <2>1. Release(S(i)) /\ below' = [below EXCEPT ![S(i)] = Closed(@)] /\ UNCHANGED line
      BY <1>4 DEF OpenRefused
    <2> QED BY <1>1, <2>1, BookRelease
  <1> QED BY <1>3, <1>4 DEF Reply

LEMMA BookDisrupt ==
    ASSUME TypeInv, BooksInv, NEW r \in Sessions, NEW kept \in OnMovedSeats(r),
           Disrupt(r, kept), NEW s \in Sessions
    PROVE  Book(s)'
  <1>1. /\ outstanding[r] \in SUBSET Ids
        /\ meta \in [Sessions -> {"none", "opening", "open"}]
        /\ below \in [Sessions -> {"none", "live", "hollow"}]
    BY DEF TypeInv, TypeOK
  <1>2. /\ LostBy(r) \in Seq(Ids) /\ IsInjective(LostBy(r)) /\ Range(LostBy(r)) = outstanding[r]
    BY <1>1, OwedFrames DEF LostBy
  <1>3. /\ Deliver(r, LostBy(r), outstanding[r], meta[r])
        /\ UNCHANGED <<meta, slots, line>>
        /\ below' = [below EXCEPT ![r] = "live"]
    BY DEF Disrupt, sockets
  <1>4. /\ meta' = [meta EXCEPT ![r] = meta'[r]] /\ meta'[r] = meta[r]
        /\ below' = [below EXCEPT ![r] = below'[r]]
    BY <1>1, <1>3
  <1>5. \A d \in Conns : s \in slots[d] => meta[s] # "none"
    BY DEF BooksInv, Book
  <1> QED BY <1>1, <1>2, <1>3, <1>4, <1>5, BookDeliver, ZenonT(40)

\* A deadline that ends an absence ends a session that is on no socket.
LEMMA BookFire ==
    ASSUME TypeInv, BooksInv, FireDeadline, NEW s \in Sessions
    PROVE  Book(s)'
  <1>1. Book(s)
    BY DEF BooksInv
  <1>2. UNCHANGED <<slots, line, route>> /\ CloseAbsent(Head(deadlines))
    BY DEF FireDeadline, sockets
  <1>3. CASE /\ IsAway(s) /\ outstanding'[s] = {} /\ away'[s] = Here /\ meta'[s] = "none"
             /\ below'[s] = Closed(below[s])
    <2>1. route[s] = NoConn /\ meta[s] # "none"
      BY <1>1, <1>3 DEF Book
    <2>2. ~IsAway(s)' /\ \A c \in Conns : s \notin slots[c]
      BY <1>1, <1>3, <2>1 DEF Book, IsAway, Here, Conns, NoConn
    <2> QED BY <1>2, <1>3, <2>1, <2>2 DEF Book
  <1>4. CASE UNCHANGED <<meta[s], outstanding[s], away[s], below[s]>>
    <2>1. UNCHANGED route[s] /\ (route[s] # NoConn => line'[route[s]] # "none")
      BY <1>1, <1>2 DEF Book
    <2> QED BY <1>1, <1>2, <1>4, <2>1, BookQuiet
  <1>5. \/ /\ IsAway(s) /\ outstanding'[s] = {} /\ away'[s] = Here /\ meta'[s] = "none"
           /\ below'[s] = Closed(below[s])
        \/ UNCHANGED <<meta[s], outstanding[s], away[s], below[s]>>
    BY <1>2 DEF CloseAbsent, TypeInv, TypeOK
  <1> QED BY <1>3, <1>4, <1>5

LEMMA BooksStep == TypeInv /\ BooksInv /\ [Next]_vars => BooksInv'
  <1> SUFFICES ASSUME TypeInv, BooksInv, [Next]_vars, NEW s \in Sessions PROVE Book(s)'
    BY UnsentUnopenedStep DEF BooksInv
  <1>1. Book(s)
    BY DEF BooksInv
  <1>2. ASSUME NEW c \in Conns, Socket(c) PROVE Book(s)'
    <2>1. CASE Connect(c) \/ LineDies(c)
      <3>1. /\ UNCHANGED <<meta, route, outstanding, away, below, slots>>
            /\ \A d \in Conns : line[d] # "none" => line'[d] # "none"
        BY <2>1 DEF Connect, LineDies, window, service, TypeInv, TypeOK
      <3>2. route[s] # NoConn => line'[route[s]] # "none"
        BY <1>1, <3>1 DEF Book, TypeInv, TypeOK
      <3> QED BY <1>1, <3>1, <3>2, BookQuiet
    <2>2. CASE CloseSocket(c)
      BY <2>2, BookLeave DEF CloseSocket
    <2> QED BY <1>2, <2>1, <2>2 DEF Socket
  <1>3. ASSUME NEW r \in Sessions, NEW kept \in OnMovedSeats(r), Drop(r, kept) PROVE Book(s)'
    BY <1>3, BookRelease DEF Drop
  <1>4. CASE Stop
    BY <1>4, BookLeave DEF Stop
  <1>5. CASE BeginDrain \/ UNCHANGED vars
    <2>1. UNCHANGED <<meta, route, outstanding, away, below, slots, line>>
      BY <1>5 DEF BeginDrain, vars, sockets, window, service
    <2> QED BY <1>1, <2>1, BookQuiet DEF Book
  <1> QED BY <1>2, <1>3, <1>4, <1>5, BookClient, BookReply, BookDisrupt, BookFire DEF Next

\* A session the gateway has is on exactly one socket, which counts it, or waits for
\* its client, and never both; one it has let go of keeps a route only while
\* something is owed on it.
THEOREM GatewayBooksAgree == Spec => []BooksAgree
  <1>1. BooksInv => BooksAgree
    BY DEF BooksInv, Book, BooksAgree
  <1> QED BY TypeInit, TypeStep, BooksInit, BooksStep, <1>1, PTL DEF Spec

\* Where every seat's thread starts, no session is without one.
SeatsInv == SeatsFollowSessions /\ \A s \in Sessions : below[s] # "hollow"

LEMMA SeatsStep ==
    ASSUME ~StartsMayFail, TypeInv, SeatsInv, [Next]_vars
    PROVE  SeatsInv'
  <1> DEFINE Seated(s) == (meta[s] # "none" <=> below[s] # "none") /\ below[s] # "hollow"
  <1> SUFFICES ASSUME NEW s \in Sessions PROVE Seated(s)'
    BY DEF SeatsInv, SeatsFollowSessions
  <1>1. /\ meta \in [Sessions -> {"none", "opening", "open"}]
        /\ below \in [Sessions -> {"none", "live", "hollow"}]
        /\ Seated(s)
    BY DEF TypeInv, TypeOK, SeatsInv, SeatsFollowSessions
  <1>2. \A r \in Sessions : Seated(r)
    BY DEF SeatsInv, SeatsFollowSessions
  <1>3. ASSUME NEW c \in Conns, NEW i \in Ids, Client(c, i) PROVE Seated(s)'
    <2>1. CASE Refuse(c, i) \/ OpenThrows(c, i) \/ CancelOther(c, i) \/ Resume(c, i)
               \/ CancelQueued(c, i) \/ Dispatch(c, i)
      <3>1. UNCHANGED <<meta, below>>
        BY <2>1 DEF Refuse, OpenThrows, CancelOther, Resume, CancelQueued, Dispatch, service
      <3> QED BY <1>1, <3>1
    <2>2. CASE Open(c, i) \/ Close(c, i)
      BY <1>1, <2>2, RequestType DEF Open, Close
    <2>3. CASE DispatchFails(c, i)
      <3>1. /\ UNCHANGED below
            /\ below[S(i)] # "live"
            /\ \/ meta' = [meta EXCEPT ![S(i)] = "none"]
               \/ meta' = [meta EXCEPT ![S(i)] = meta[S(i)]]
        BY <2>3 DEF DispatchFails
      <3>2. below[S(i)] = "none" /\ meta[S(i)] = "none"
        BY <1>1, <1>2, <3>1, RequestType
      <3> QED BY <1>1, <3>1, <3>2
    <2> QED BY <1>3, <2>1, <2>2, <2>3 DEF Client
  <1>4. ASSUME NEW i \in Ids, Reply(i) PROVE Seated(s)'
    BY <1>1, <1>4, RequestType DEF Reply, Answer, Opened, OpenRefused, Release, Closed
  <1>5. ASSUME NEW r \in Sessions, NEW kept \in OnMovedSeats(r), Disrupt(r, kept) PROVE Seated(s)'
    BY <1>1, <1>2, <1>5 DEF Disrupt
  <1>6. ASSUME NEW r \in Sessions, NEW kept \in OnMovedSeats(r), Drop(r, kept) PROVE Seated(s)'
    BY <1>6 DEF Drop
  <1>7. ASSUME NEW cs \in SUBSET Conns, NEW order \in Orders(cs), Leave(cs, order)
        PROVE  Seated(s)'
    <2>1. \/ meta'[s] = "none" /\ below'[s] = Closed(below[s])
          \/ UNCHANGED <<meta[s], below[s]>>
      BY <1>7, LeaveEffect
    <2> QED BY <1>1, <2>1 DEF Closed
  <1>8. ASSUME NEW c \in Conns, Socket(c) PROVE Seated(s)'
    BY <1>1, <1>7, <1>8 DEF Socket, Connect, LineDies, CloseSocket, service
  <1>9. CASE FireDeadline
    BY <1>1, <1>9 DEF FireDeadline, CloseAbsent, Closed
  <1>10. CASE Stop
    BY <1>7, <1>10 DEF Stop
  <1>11. CASE BeginDrain \/ UNCHANGED vars
    BY <1>1, <1>11 DEF BeginDrain, vars, service
  <1> QED BY <1>3, <1>4, <1>5, <1>6, <1>8, <1>9, <1>10, <1>11 DEF Next

\* No seat is kept for a session the gateway has let go of, and none is missing for
\* one it has, as long as there are threads for them.
THEOREM GatewaySeatsFollowSessions == ~StartsMayFail => (Spec => []SeatsFollowSessions)
  <1> SUFFICES ASSUME ~StartsMayFail PROVE Spec => []SeatsFollowSessions
    OBVIOUS
  <1>1. Init => SeatsInv
    BY DEF Init, SeatsInv, SeatsFollowSessions
  <1>2. TypeInv /\ SeatsInv /\ [Next]_vars => SeatsInv'
    BY SeatsStep
  <1>3. SeatsInv => SeatsFollowSessions
    BY DEF SeatsInv
  <1> QED BY TypeInit, TypeStep, <1>1, <1>2, <1>3, PTL DEF Spec
-----------------------------------------------------------------------------
(* What is owed *)

\* A session owes its own requests, and a seat has each of them or its answer is
\* known to be lost.
Served(s) ==
    /\ outstanding[s] \subseteq Of(s)
    /\ Range(away[s].held) \subseteq Of(s) /\ away[s].lost \subseteq Of(s)
    /\ \A i \in outstanding[s] : i \in running \/ i \in away[s].lost
ServedInv == \A s \in Sessions : Served(s)

LEMMA HereIsEmpty == Here.since = 0 /\ Range(Here.held) = {} /\ Here.lost = {}
  BY DEF Here, Range

LEMMA ServedInit == Init => ServedInv
  BY HereIsEmpty DEF Init, ServedInv, Served

LEMMA ServedQuiet ==
    ASSUME NEW s, Served(s), UNCHANGED <<outstanding[s], away[s]>>,
           running \intersect Of(s) \subseteq running'
    PROVE  Served(s)'
  BY DEF Served, Of, S

LEMMA ServedOver ==
    ASSUME NEW s, outstanding'[s] = {}, away'[s] = Here
    PROVE  Served(s)'
  BY HereIsEmpty DEF Served

\* Frames end what they are for: what is still owed after them is waited for as
\* before, or one of them was lost.
LEMMA ServedDeliver ==
    ASSUME TypeInv, NEW r \in Sessions, NEW s \in Sessions, Served(r), Served(s),
           NEW frames \in Seq(Ids), IsInjective(frames), Range(frames) \subseteq Of(r),
           NEW owed \in SUBSET Ids, owed \subseteq Of(r), NEW m, Deliver(r, frames, owed, m),
           \A i \in owed \ Range(frames) : i \in running' \/ i \in away[r].lost,
           \A i \in running : i \in running' \/ S(i) = r
    PROVE  Served(s)'
  <1>1. CASE s # r
    <2>1. /\ outstanding' = [outstanding EXCEPT ![r] = outstanding'[r]]
          /\ away' = [away EXCEPT ![r] = away'[r]]
      BY DeliverEffect
    <2>2. UNCHANGED <<outstanding[s], away[s]>>
      BY <1>1, <2>1 DEF TypeInv, TypeOK
    <2> QED BY <1>1, <2>2, ServedQuiet DEF Of
  <1>2. CASE s = r
    <2>1. /\ outstanding'[r] \subseteq owed \union Range(frames)
          /\ outstanding'[r] \intersect Range(frames) \subseteq away'[r].lost
          /\ \/ away'[r] = away[r]
             \/ /\ Range(away'[r].held) \subseteq Range(away[r].held) \union Range(frames)
                /\ away[r].lost \subseteq away'[r].lost
                /\ away'[r].lost \subseteq away[r].lost \union Range(frames)
      BY DeliverEffect
    <2>2. outstanding'[s] \subseteq Of(s)
      BY <1>2, <2>1
    <2>3. Range(away'[s].held) \subseteq Of(s) /\ away'[s].lost \subseteq Of(s)
      BY <1>2, <2>1 DEF Served
    <2>4. \A i \in outstanding'[s] : i \in running' \/ i \in away'[s].lost
      BY <1>2, <2>1
    <2> QED BY <2>2, <2>3, <2>4 DEF Served, Of, S
  <1> QED BY <1>1, <1>2

LEMMA ServedClient ==
    ASSUME TypeInv, ServedInv, NEW c \in Conns, NEW i \in Ids, Client(c, i), NEW s \in Sessions
    PROVE  Served(s)'
  <1>1. /\ Served(s) /\ Served(S(i)) /\ S(i) \in Sessions /\ i \in Of(S(i))
        /\ outstanding \in [Sessions -> SUBSET Ids] /\ DOMAIN away = Sessions
    BY RequestType DEF ServedInv, TypeInv, TypeOK, Of
  <1>2. CASE Refuse(c, i) \/ OpenThrows(c, i) \/ CancelOther(c, i)
    <2>1. UNCHANGED <<outstanding, away, running>>
      BY <1>2 DEF Refuse, OpenThrows, CancelOther, window, service
    <2> QED BY <1>1, <2>1, ServedQuiet
  <1>3. CASE Open(c, i)
    <2>1. /\ outstanding' = [outstanding EXCEPT ![S(i)] = {i}]
          /\ running' = running \union {i} /\ away' = away
      BY <1>3 DEF Open, window
    <2>2. CASE s = S(i)
      BY <1>1, <2>1, <2>2 DEF Served, Of, S
    <2>3. CASE s # S(i)
      BY <1>1, <2>1, <2>3, ServedQuiet
    <2> QED BY <2>2, <2>3
  <1>4. CASE Dispatch(c, i) \/ Close(c, i)
    <2>1. /\ outstanding' = [outstanding EXCEPT ![S(i)] = @ \union {i}]
          /\ running' = running \union {i} /\ away' = away
      BY <1>4 DEF Dispatch, Close, window
    <2>2. CASE s = S(i)
      BY <1>1, <2>1, <2>2 DEF Served, Of, S
    <2>3. CASE s # S(i)
      BY <1>1, <2>1, <2>3, ServedQuiet
    <2> QED BY <2>2, <2>3
  <1>5. CASE CancelQueued(c, i)
    <2> DEFINE t == Request[i].of
    <2>1. /\ outstanding' = [outstanding EXCEPT ![S(i)] = @ \ {t}] /\ t \in outstanding[S(i)]
          /\ running' = running \ {t} /\ away' = away
      BY <1>5 DEF CancelQueued, window
    <2> HIDE DEF t
    <2>2. CASE s = S(i)
      BY <1>1, <2>1, <2>2 DEF Served, Of, S
    <2>3. CASE s # S(i)
      <3>1. t \notin Of(s)
        BY <1>1, <2>1, <2>3 DEF Served, Of
      <3> QED BY <1>1, <2>1, <2>3, <3>1, ServedQuiet
    <2> QED BY <2>2, <2>3
  <1>6. CASE Resume(c, i)
    <2>1. /\ outstanding' = [outstanding EXCEPT ![S(i)] = @ \ Range(ResumeFrames(i))]
          /\ away' = [away EXCEPT ![S(i)] = Here] /\ running' = running
      BY <1>6 DEF Resume, service
    <2>2. CASE s = S(i)
      <3>1. away[s].lost \subseteq Range(ResumeFrames(i))
        BY <2>2, ResumeFramesType
      <3> QED BY <1>1, <2>1, <2>2, <3>1, HereIsEmpty DEF Served, Of, S
    <2>3. CASE s # S(i)
      BY <1>1, <2>1, <2>3, ServedQuiet
    <2> QED BY <2>2, <2>3
  <1>7. CASE DispatchFails(c, i)
    <2>1. PICK m : Deliver(S(i), <<i>>, outstanding[S(i)] \union {i}, m) /\ running' = running
      BY <1>7 DEF DispatchFails
    <2>2. /\ outstanding[S(i)] \union {i} \in SUBSET Ids
          /\ outstanding[S(i)] \union {i} \subseteq Of(S(i))
          /\ <<i>> \in Seq(Ids) /\ Range(<<i>>) = {i} /\ IsInjective(<<i>>)
      BY <1>1, OneFrame DEF Served
    <2>3. /\ \A j \in (outstanding[S(i)] \union {i}) \ {i} : j \in running' \/ j \in away[S(i)].lost
          /\ \A j \in running : j \in running' \/ S(j) = S(i)
      BY <1>1, <2>1 DEF Served
    <2> QED BY <1>1, <2>1, <2>2, <2>3, ServedDeliver
  <1> QED BY <1>2, <1>3, <1>4, <1>5, <1>6, <1>7 DEF Client

LEMMA ServedRelease ==
    ASSUME TypeInv, NEW r \in Sessions, NEW s \in Sessions, Served(s), Release(r),
           \A i \in running : i \in running' \/ S(i) = r
    PROVE  Served(s)'
  <1>1. CASE s = r
    BY <1>1, ServedOver DEF Release, TypeInv, TypeOK
  <1>2. CASE s # r
    BY <1>2, ServedQuiet DEF Release, TypeInv, TypeOK, Of
  <1> QED BY <1>1, <1>2

LEMMA ServedReply ==
    ASSUME TypeInv, ServedInv, NEW i \in Ids, Reply(i), NEW s \in Sessions
    PROVE  Served(s)'
  <1>1. /\ Served(s) /\ Served(S(i)) /\ S(i) \in Sessions /\ i \in Of(S(i))
        /\ outstanding[S(i)] \in SUBSET Ids
        /\ <<i>> \in Seq(Ids) /\ Range(<<i>>) = {i} /\ IsInjective(<<i>>)
    BY RequestType, OneFrame DEF ServedInv, TypeInv, TypeOK, Of
  <1>2. running' = running \ {i}
    BY DEF Reply, Answer, Opened, OpenRefused
  <1>3. CASE Deliver(S(i), <<i>>, outstanding[S(i)], meta[S(i)])
    <2>1. /\ \A j \in outstanding[S(i)] \ {i} : j \in running' \/ j \in away[S(i)].lost
          /\ \A j \in running : j \in running' \/ S(j) = S(i)
          /\ outstanding[S(i)] \subseteq Of(S(i)) /\ Range(<<i>>) \subseteq Of(S(i))
      BY <1>1, <1>2 DEF Served
    <2> QED BY <1>1, <1>3, <2>1, ServedDeliver
  <1>4. CASE Release(S(i))
    BY <1>1, <1>2, <1>4, ServedRelease
  <1> QED BY <1>3, <1>4 DEF Reply, Answer, Opened, OpenRefused

LEMMA ServedDisrupt ==
    ASSUME TypeInv, ServedInv, NEW r \in Sessions, NEW kept \in OnMovedSeats(r),
           Disrupt(r, kept), NEW s \in Sessions
    PROVE  Served(s)'
  <1>1. Served(s) /\ Served(r) /\ outstanding[r] \in SUBSET Ids
    BY DEF ServedInv, TypeInv, TypeOK
  <1>2. /\ LostBy(r) \in Seq(Ids) /\ Range(LostBy(r)) = outstanding[r] /\ IsInjective(LostBy(r))
    BY <1>1, OwedFrames DEF LostBy
  <1>3. Deliver(r, LostBy(r), outstanding[r], meta[r]) /\ running' = (running \ Of(r)) \union kept
    BY DEF Disrupt
  <1>4. \A i \in running : i \in running' \/ S(i) = r
    BY <1>3 DEF Of, TypeInv, TypeOK
  <1>5. outstanding[r] \subseteq Of(r) /\ \A i \in outstanding[r] \ outstanding[r] : FALSE
    BY <1>1 DEF Served
  <1> QED BY <1>1, <1>2, <1>3, <1>4, <1>5, ServedDeliver

LEMMA ServedLeave ==
    ASSUME TypeInv, BooksInv, ServedInv, NEW s \in Sessions, NEW cs \in SUBSET Conns,
           NEW order \in Orders(cs), Leave(cs, order), running' = running
    PROVE  Served(s)'
  <1>1. Served(s) /\ Book(s)
    BY DEF ServedInv, BooksInv
  <1>2. CASE outstanding'[s] = {} /\ away'[s] = Here
    BY <1>2, ServedOver
  <1>3. CASE s \in Staying(cs) /\ UNCHANGED outstanding[s]
             /\ \E k \in DOMAIN order : away'[s] = [Here EXCEPT !.since = Latest + k]
    <2>1. \E c \in Conns : s \in slots[c]
      BY <1>3 DEF Staying
    <2>2. away[s] = Here
      BY <1>1, <2>1 DEF Book, Conns, NoConn
    <2>3. Range(away'[s].held) = {} /\ away'[s].lost = {}
      BY <1>3, HereIsEmpty DEF Here
    <2> QED BY <1>1, <1>3, <2>2, <2>3, HereIsEmpty DEF Served, Of, S
  <1>4. CASE UNCHANGED <<away[s], outstanding[s]>>
    BY <1>1, <1>4, ServedQuiet
  <1>5. \/ outstanding'[s] = {} /\ away'[s] = Here
        \/ /\ s \in Staying(cs)
           /\ \E k \in DOMAIN order :
                order[k] = s /\ away'[s] = [Here EXCEPT !.since = Latest + k]
           /\ UNCHANGED <<meta[s], outstanding[s], below[s]>>
        \/ UNCHANGED <<away[s], outstanding[s]>>
    BY LeaveEffect
  <1> QED BY <1>2, <1>3, <1>4, <1>5

LEMMA ServedStep == TypeInv /\ BooksInv /\ ServedInv /\ [Next]_vars => ServedInv'
  <1> SUFFICES ASSUME TypeInv, BooksInv, ServedInv, [Next]_vars, NEW s \in Sessions
               PROVE  Served(s)'
    BY DEF ServedInv
  <1>1. Served(s)
    BY DEF ServedInv
  <1>2. ASSUME NEW c \in Conns, Socket(c) PROVE Served(s)'
    <2>1. CASE Connect(c) \/ LineDies(c)
      <3>1. UNCHANGED <<outstanding, away, running>>
        BY <2>1 DEF Connect, LineDies, window, service
      <3> QED BY <1>1, <3>1, ServedQuiet
    <2>2. CASE CloseSocket(c)
      BY <2>2, ServedLeave DEF CloseSocket
    <2> QED BY <1>2, <2>1, <2>2 DEF Socket
  <1>3. ASSUME NEW r \in Sessions, NEW kept \in OnMovedSeats(r), Drop(r, kept) PROVE Served(s)'
    <2>1. Release(r) /\ running' = (running \ Of(r)) \union kept
      BY <1>3 DEF Drop
    <2>2. \A i \in running : i \in running' \/ S(i) = r
      BY <2>1 DEF Of, TypeInv, TypeOK
    <2> QED BY <1>1, <2>1, <2>2, ServedRelease
  <1>4. CASE FireDeadline
    <2>1. CloseAbsent(Head(deadlines)) /\ running' = running
      BY <1>4 DEF FireDeadline
    <2>2. \/ outstanding'[s] = {} /\ away'[s] = Here
          \/ UNCHANGED <<outstanding[s], away[s]>>
      BY <2>1 DEF CloseAbsent, TypeInv, TypeOK
    <2> QED BY <1>1, <2>1, <2>2, ServedOver, ServedQuiet
  <1>5. CASE Stop
    BY <1>5, ServedLeave DEF Stop
  <1>6. CASE BeginDrain \/ UNCHANGED vars
    <2>1. UNCHANGED <<outstanding, away, running>>
      BY <1>6 DEF BeginDrain, vars, window, service
    <2> QED BY <1>1, <2>1, ServedQuiet
  <1> QED BY <1>2, <1>3, <1>4, <1>5, <1>6, ServedClient, ServedReply, ServedDisrupt DEF Next

\* What is owed will be answered: by a seat, or at a resume that says it is lost.
THEOREM GatewayOwedIsServed == Spec => []OwedIsServed
  <1>1. ServedInv => OwedIsServed
    BY DEF ServedInv, Served, OwedIsServed
  <1> QED BY TypeInit, TypeStep, BooksInit, BooksStep, ServedInit, ServedStep, <1>1, PTL DEF Spec
-----------------------------------------------------------------------------
(* Where an answer is *)

Answered(i) == told[i] > 0 \/ i \in unheard
Accounted(i) ==
    \/ Answered(i)
    \/ i \in outstanding[S(i)] \/ i \in Range(away[S(i)].held)
    \/ meta[S(i)] = "none"
\* Requests sent before their session's opening one have been refused.
BeforeOpening ==
    \A i \in Ids \ sent :
        Request[i].kind = "open" => \A j \in sent : S(j) = S(i) => Answered(j)
AccountInv == BeforeOpening /\ \A i \in sent : Accounted(i)

LEMMA TimesSome ==
    ASSUME NEW X, NEW q \in Seq(X), NEW x
    PROVE  Times(x, q) \in Nat /\ (x \in Range(q) => Times(x, q) >= 1)
  <1> DEFINE at == {k \in DOMAIN q : q[k] = x}
  <1>1. at \subseteq 1..Len(q) /\ Len(q) \in Nat
    BY LenProperties
  <1>2. IsFiniteSet(at)
    <2>1. IsFiniteSet(1..Len(q))
      BY <1>1, FS_Interval
    <2> QED BY <1>1, <2>1, FS_Subset
  <1>3. x \in Range(q) => at # {}
    BY DEF Range
  <1>4. Times(x, q) = Cardinality(at)
    BY DEF Times
  <1> HIDE DEF at
  <1>5. Cardinality(at) \in Nat /\ (Cardinality(at) = 0 <=> at = {})
    BY <1>2, FS_CardinalityType, FS_EmptySet
  <1> QED BY <1>3, <1>4, <1>5

LEMMA WriteAnswers ==
    ASSUME TypeOK, NEW c, NEW frames \in Seq(Ids), Write(c, frames), NEW i \in Ids,
           Answered(i) \/ i \in Range(frames)
    PROVE  Answered(i)'
  <1>1. Times(i, frames) \in Nat /\ (i \in Range(frames) => Times(i, frames) >= 1)
    BY TimesSome
  <1>2. told \in [Ids -> Nat]
    BY DEF TypeOK
  <1>3. CASE line[c] = "up"
    <2>1. told'[i] = told[i] + Times(i, frames) /\ unheard' = unheard
      BY <1>3 DEF Write
    <2> QED BY <1>1, <1>2, <2>1 DEF Answered
  <1>4. CASE line[c] # "up"
    BY <1>4 DEF Write, Answered
  <1> QED BY <1>3, <1>4

LEMMA DeliverAnswers ==
    ASSUME TypeInv, NEW s \in Sessions, NEW frames \in Seq(Ids), IsInjective(frames),
           NEW owed \in SUBSET Ids, NEW m, Deliver(s, frames, owed, m),
           NEW i \in Ids, Answered(i)
    PROVE  Answered(i)'
  <1>1. told[i] \in Nat
    BY DEF TypeInv, TypeOK
  <1>2. CASE Routed(s, frames, owed, m)
    BY <1>2, WriteAnswers DEF Routed, TypeInv
  <1>3. CASE Held(s, frames, owed) \/ Vanished(s, frames, owed)
    BY <1>3 DEF Held, Vanished, Answered
  <1> QED BY <1>2, <1>3 DEF Deliver

\* What has been answered stays so.
LEMMA AnsweredStays ==
    ASSUME TypeInv, [Next]_vars, NEW i \in Ids, Answered(i)
    PROVE  Answered(i)'
  <1>1. TypeOK
    BY DEF TypeInv
  <1>2. ASSUME NEW c \in Conns, NEW j \in Ids, Client(c, j) PROVE Answered(i)'
    <2>1. CASE Refuse(c, j) \/ OpenThrows(c, j) \/ CancelOther(c, j)
      BY <1>1, <2>1, OneFrame, WriteAnswers DEF Refuse, OpenThrows, CancelOther
    <2>2. CASE Resume(c, j)
      BY <1>1, <2>2, ResumeFramesType, WriteAnswers DEF Resume
    <2>3. CASE CancelQueued(c, j)
      <3>1. <<Request[j].of, j>> \in Seq(Ids)
        BY RequestType
      <3> QED BY <1>1, <2>3, <3>1, WriteAnswers DEF CancelQueued
    <2>4. CASE Open(c, j) \/ Dispatch(c, j) \/ Close(c, j)
      BY <2>4 DEF Open, Dispatch, Close, Answered
    <2>5. CASE DispatchFails(c, j)
      <3>1. PICK m : Deliver(S(j), <<j>>, outstanding[S(j)] \union {j}, m)
        BY <2>5 DEF DispatchFails
      <3>2. outstanding[S(j)] \union {j} \in SUBSET Ids
        BY <1>1, RequestType DEF TypeOK
      <3> QED BY <3>1, <3>2, OneFrame, RequestType, DeliverAnswers
    <2> QED BY <1>2, <2>1, <2>2, <2>3, <2>4, <2>5 DEF Client
  <1>3. ASSUME NEW j \in Ids, Reply(j) PROVE Answered(i)'
    <2>1. outstanding[S(j)] \in SUBSET Ids
      BY <1>1, RequestType DEF TypeOK
    <2>2. CASE Deliver(S(j), <<j>>, outstanding[S(j)], meta[S(j)])
      BY <2>1, <2>2, OneFrame, RequestType, DeliverAnswers
    <2>3. CASE WriteIfRouted(S(j), <<j>>)
      BY <1>1, <2>3, OneFrame, WriteAnswers DEF WriteIfRouted, Answered
    <2> QED BY <1>3, <2>2, <2>3 DEF Reply, Answer, Opened, OpenRefused
  <1>4. ASSUME NEW r \in Sessions, NEW kept \in OnMovedSeats(r), Disrupt(r, kept) \/ Drop(r, kept)
        PROVE  Answered(i)'
    <2>1. outstanding[r] \in SUBSET Ids
      BY <1>1 DEF TypeOK
    <2>2. CASE Disrupt(r, kept)
      BY <2>1, <2>2, OwedFrames, DeliverAnswers DEF Disrupt, LostBy
    <2>3. CASE Drop(r, kept)
      BY <1>1, <2>1, <2>3, OwedFrames, WriteAnswers DEF Drop, WriteIfRouted, Answered
    <2> QED BY <1>4, <2>2, <2>3
  <1>5. ASSUME NEW c \in Conns, Socket(c) PROVE Answered(i)'
    BY <1>5 DEF Socket, Connect, LineDies, CloseSocket, client, Answered
  <1>6. FireDeadline \/ BeginDrain \/ Stop \/ UNCHANGED vars => UNCHANGED <<told, unheard>>
    BY DEF FireDeadline, BeginDrain, Stop, vars, client
  <1> QED BY <1>2, <1>3, <1>4, <1>5, <1>6 DEF Next, Answered

\* A request that comes before the opening of its session is refused.
LEMMA BeforeOpeningStep ==
    ASSUME TypeInv, BooksInv, BeforeOpening, [Next]_vars
    PROVE  BeforeOpening'
  <1> SUFFICES ASSUME NEW i \in Ids \ sent', Request[i].kind = "open",
                      NEW j \in sent', S(j) = S(i)
               PROVE  Answered(j)'
    BY DEF BeforeOpening, S
  <1>1. i \in Ids \ sent /\ j \in Ids
    BY SentGrows, TypeStep DEF TypeInv, TypeOK
  <1>2. CASE j \in sent
    BY <1>1, <1>2, AnsweredStays DEF BeforeOpening
  <1>3. CASE j \notin sent
    <2>1. PICK c \in Conns, k \in Ids : Client(c, k) /\ sent' # sent
      BY <1>3 DEF Next, Reply, Answer, Opened, OpenRefused, Disrupt, Drop, Socket, Connect,
                  LineDies, CloseSocket, FireDeadline, BeginDrain, Stop, vars, client
    <2>2. k = j
      <3>1. Sends(c, k)
        BY <2>1 DEF Client, Refuse, Open, OpenThrows, Resume, CancelQueued, CancelOther,
                    Dispatch, Close, DispatchFails
      <3> QED BY <1>3, <3>1 DEF Sends
    <2>3. Unopened(S(j)) /\ route[S(j)] # c
      BY <1>1 DEF BooksInv, UnsentUnopened, Unopened, Conns, NoConn
    <2>4. ~Open(c, j)
      BY <1>1, RequestAssumption DEF Open, S
    <2>5. Refuse(c, j) \/ OpenThrows(c, j)
      BY <2>1, <2>2, <2>3, <2>4
      DEF Client, Resume, CancelQueued, CancelOther, Dispatch, Close, DispatchFails, Serves,
          Resumable, Owns, Unopened
    <2> QED BY <1>1, <2>5, OneFrame, WriteAnswers DEF Refuse, OpenThrows, TypeInv
  <1> QED BY <1>2, <1>3

\* Frames end what they are for: each reaches its socket, or is held, or is known to
\* be lost and still owed, or belongs to a session that is over.
LEMMA AccountedDeliver ==
    ASSUME TypeInv, BooksInv, NEW r \in Sessions, NEW frames \in Seq(Ids), IsInjective(frames),
           NEW owed \in SUBSET Ids, outstanding[r] \subseteq owed,
           NEW m, Deliver(r, frames, owed, m), meta' = [meta EXCEPT ![r] = meta'[r]],
           meta[r] = "none" => meta'[r] = "none",
           NEW i \in Ids, Accounted(i) \/ (S(i) = r /\ i \in Range(frames))
    PROVE  Accounted(i)'
  <1>1. S(i) \in Sessions /\ Book(r)
    BY RequestType DEF BooksInv
  <1>2. CASE Answered(i)
    BY <1>2, DeliverAnswers DEF Accounted
  <1>3. CASE S(i) # r
    <2>1. /\ outstanding' = [outstanding EXCEPT ![r] = outstanding'[r]]
          /\ away' = [away EXCEPT ![r] = away'[r]]
      BY DeliverEffect
    <2>2. UNCHANGED <<outstanding[S(i)], away[S(i)], meta[S(i)]>>
      BY <1>1, <1>3, <2>1 DEF TypeInv, TypeOK
    <2> QED BY <1>2, <1>3, <2>2 DEF Accounted, S
  <1>4. CASE S(i) = r /\ ~Answered(i)
    <2>1. /\ owed \ Range(frames) \subseteq outstanding'[r]
          /\ \/ /\ route[r] # NoConn /\ away'[r] = away[r]
                /\ \A j \in Range(frames) :
                     \/ told'[j] = told[j] + 1 /\ (j \in unheard' <=> j \in unheard)
                     \/ told'[j] = told[j] /\ j \in unheard'
             \/ /\ route[r] = NoConn /\ IsAway(r)
                /\ Range(away[r].held) \subseteq Range(away'[r].held)
                /\ \A j \in Range(frames) :
                     \/ j \in Range(away'[r].held)
                     \/ j \in away'[r].lost /\ j \in outstanding'[r]
             \/ /\ route[r] = NoConn /\ ~IsAway(r)
                /\ away'[r] = away[r]
      BY DeliverEffect
    <2>2. CASE i \in Range(frames)
      <3>1. told[i] \in Nat
        BY DEF TypeInv, TypeOK
      <3>2. CASE route[r] = NoConn /\ ~IsAway(r)
        BY <1>1, <1>4, <3>2 DEF Book, Accounted, S
      <3>3. CASE route[r] # NoConn \/ IsAway(r)
        BY <1>1, <1>4, <2>1, <2>2, <3>1, <3>3 DEF Accounted, Answered, Book, S
      <3> QED BY <3>2, <3>3
    <2>3. CASE i \notin Range(frames)
      BY <1>4, <2>1, <2>3 DEF Accounted, S
    <2> QED BY <2>2, <2>3
  <1> QED BY <1>2, <1>3, <1>4

LEMMA AccountedQuiet ==
    ASSUME NEW i, Accounted(i), Answered(i) => Answered(i)',
           UNCHANGED <<meta[S(i)], away[S(i)]>>, outstanding[S(i)] \subseteq outstanding'[S(i)]
    PROVE  Accounted(i)'
  BY DEF Accounted, S

LEMMA AccountedClient ==
    ASSUME TypeInv, BooksInv, BeforeOpening, NEW c \in Conns, NEW j \in Ids, Client(c, j),
           NEW i \in Ids, (i \in sent /\ Accounted(i)) \/ i = j, Answered(i) => Answered(i)'
    PROVE  Accounted(i)'
  <1>1. /\ S(i) \in Sessions /\ S(j) \in Sessions /\ Book(S(i)) /\ TypeOK
        /\ outstanding \in [Sessions -> SUBSET Ids]
        /\ DOMAIN meta = Sessions /\ DOMAIN away = Sessions
    BY RequestType DEF BooksInv, TypeInv, TypeOK
  <1>2. CASE Refuse(c, j) \/ OpenThrows(c, j) \/ CancelOther(c, j)
    <2>1. UNCHANGED <<meta, away, outstanding>>
      BY <1>2 DEF Refuse, OpenThrows, CancelOther, window
    <2>2. CASE i = j
      BY <1>1, <1>2, <2>2, OneFrame, WriteAnswers
      DEF Refuse, OpenThrows, CancelOther, Accounted
    <2>3. CASE Accounted(i)
      BY <2>1, <2>3, AccountedQuiet
    <2> QED BY <2>2, <2>3
  <1>3. CASE Open(c, j)
    <2>1. /\ outstanding' = [outstanding EXCEPT ![S(j)] = {j}]
          /\ meta' = [meta EXCEPT ![S(j)] = "opening"] /\ away' = away
          /\ j \notin sent /\ Request[j].kind = "open"
      BY <1>3 DEF Open, Sends, window
    <2>2. CASE i = j
      BY <1>1, <2>1, <2>2 DEF Accounted, S
    <2>3. CASE i # j /\ S(i) = S(j)
      BY <2>1, <2>3 DEF BeforeOpening, Accounted
    <2>4. CASE i # j /\ S(i) # S(j)
      BY <1>1, <2>1, <2>4, AccountedQuiet
    <2> QED BY <2>2, <2>3, <2>4
  <1>4. CASE Resume(c, j)
    <2>1. /\ outstanding' = [outstanding EXCEPT ![S(j)] = @ \ Range(ResumeFrames(j))]
          /\ away' = [away EXCEPT ![S(j)] = Here] /\ meta' = meta
          /\ Write(c, ResumeFrames(j))
      BY <1>4 DEF Resume
    <2>2. CASE i \in Range(ResumeFrames(j))
      BY <1>1, <2>1, <2>2, ResumeFramesType, WriteAnswers DEF Accounted
    <2>3. CASE i \notin Range(ResumeFrames(j)) /\ S(i) = S(j)
      <3>1. i # j /\ i \notin Range(away[S(j)].held)
        BY <2>3, ResumeFramesType
      <3>2. Accounted(i) /\ outstanding'[S(j)] = outstanding[S(j)] \ Range(ResumeFrames(j))
        BY <1>1, <2>1, <3>1
      <3> QED BY <2>1, <2>3, <3>1, <3>2 DEF Accounted, S
    <2>4. CASE i \notin Range(ResumeFrames(j)) /\ S(i) # S(j)
      <3>1. i # j
        BY <2>4
      <3> QED BY <1>1, <2>1, <2>4, <3>1, AccountedQuiet
    <2> QED BY <2>2, <2>3, <2>4
  <1>5. CASE CancelQueued(c, j)
    <2> DEFINE t == Request[j].of
    <2>1. /\ outstanding' = [outstanding EXCEPT ![S(j)] = @ \ {t}]
          /\ meta' = meta /\ away' = away /\ Write(c, <<t, j>>)
      BY <1>5 DEF CancelQueued, window
    <2>2. <<t, j>> \in Seq(Ids) /\ Range(<<t, j>>) = {t, j}
      <3>1. t \in Ids
        BY RequestType
      <3> HIDE DEF t
      <3>2. DOMAIN <<t, j>> = 1..2 /\ <<t, j>>[1] = t /\ <<t, j>>[2] = j
        OBVIOUS
      <3> QED BY <3>1, <3>2 DEF Range
    <2> HIDE DEF t
    <2>3. CASE i \in {t, j}
      BY <1>1, <2>1, <2>2, <2>3, WriteAnswers DEF Accounted
    <2>4. CASE i \notin {t, j}
      <3>1. outstanding[S(i)] \ {t} \subseteq outstanding'[S(i)]
        BY <1>1, <2>1
      <3> QED BY <2>1, <2>4, <3>1 DEF Accounted, S
    <2> QED BY <2>3, <2>4
  <1>6. CASE Dispatch(c, j) \/ Close(c, j)
    <2>1. /\ outstanding' = [outstanding EXCEPT ![S(j)] = @ \union {j}] /\ away' = away
          /\ meta' = meta \/ meta' = [meta EXCEPT ![S(j)] = "none"]
      BY <1>6 DEF Dispatch, Close, window
    <2>2. CASE i = j
      BY <1>1, <2>1, <2>2 DEF Accounted, S
    <2>3. CASE i # j
      BY <1>1, <2>1, <2>3 DEF Accounted, S
    <2> QED BY <2>2, <2>3
  <1>7. CASE DispatchFails(c, j)
    <2> DEFINE m == IF Request[j].kind = "close" THEN "none" ELSE meta[S(j)]
    <2>1. /\ Deliver(S(j), <<j>>, outstanding[S(j)] \union {j}, m)
          /\ meta' = [meta EXCEPT ![S(j)] = m] /\ (meta[S(j)] = "none" => m = "none")
      BY <1>7 DEF DispatchFails
    <2> HIDE DEF m
    <2>2. meta' = [meta EXCEPT ![S(j)] = meta'[S(j)]] /\ meta'[S(j)] = m
      BY <1>1, <2>1
    <2>3. /\ outstanding[S(j)] \union {j} \in SUBSET Ids
          /\ <<j>> \in Seq(Ids) /\ Range(<<j>>) = {j} /\ IsInjective(<<j>>)
      BY <1>1, OneFrame
    <2> QED BY <1>1, <2>1, <2>2, <2>3, AccountedDeliver
  <1> QED BY <1>2, <1>3, <1>4, <1>5, <1>6, <1>7 DEF Client

LEMMA AccountedReply ==
    ASSUME TypeInv, BooksInv, NEW j \in Ids, Reply(j), NEW i \in Ids, Accounted(i),
           Answered(i) => Answered(i)'
    PROVE  Accounted(i)'
  <1>1. /\ S(i) \in Sessions /\ S(j) \in Sessions /\ outstanding[S(j)] \in SUBSET Ids
        /\ meta \in [Sessions -> {"none", "opening", "open"}]
        /\ DOMAIN away = Sessions /\ DOMAIN outstanding = Sessions
    BY RequestType DEF TypeInv, TypeOK
  <1>2. CASE Deliver(S(j), <<j>>, outstanding[S(j)], meta[S(j)])
    <2>1. \/ UNCHANGED meta
          \/ meta' = [meta EXCEPT ![S(j)] = IF @ = "opening" THEN "open" ELSE @]
          \/ Release(S(j)) /\ meta[S(j)] = "opening"
      BY DEF Reply, Answer, Opened, OpenRefused
    <2>2. /\ meta' = [meta EXCEPT ![S(j)] = meta'[S(j)]]
          /\ (meta[S(j)] = "none" => meta'[S(j)] = "none")
      BY <1>1, <2>1 DEF Release
    <2>3. <<j>> \in Seq(Ids) /\ Range(<<j>>) = {j} /\ IsInjective(<<j>>)
      BY OneFrame
    <2> QED BY <1>1, <1>2, <2>2, <2>3, AccountedDeliver
  <1>3. CASE Release(S(j))
    <2>1. CASE S(i) = S(j)
      BY <1>1, <1>3, <2>1 DEF Release, Accounted, S
    <2>2. CASE S(i) # S(j)
      BY <1>1, <1>3, <2>2, AccountedQuiet DEF Release
    <2> QED BY <2>1, <2>2
  <1> QED BY <1>2, <1>3 DEF Reply, Answer, Opened, OpenRefused

LEMMA AccountedDisrupt ==
    ASSUME TypeInv, BooksInv, NEW r \in Sessions, NEW kept \in OnMovedSeats(r),
           Disrupt(r, kept) \/ Drop(r, kept), NEW i \in Ids, Accounted(i),
           Answered(i) => Answered(i)'
    PROVE  Accounted(i)'
  <1>1. /\ S(i) \in Sessions /\ outstanding[r] \in SUBSET Ids
        /\ DOMAIN meta = Sessions /\ DOMAIN away = Sessions /\ DOMAIN outstanding = Sessions
    BY RequestType DEF TypeInv, TypeOK
  <1>2. CASE Disrupt(r, kept)
    <2>1. /\ LostBy(r) \in Seq(Ids) /\ Range(LostBy(r)) = outstanding[r]
          /\ IsInjective(LostBy(r))
      BY <1>1, OwedFrames DEF LostBy
    <2>2. Deliver(r, LostBy(r), outstanding[r], meta[r]) /\ meta' = [meta EXCEPT ![r] = meta'[r]]
          /\ meta' = meta
      BY <1>1, <1>2 DEF Disrupt, TypeInv, TypeOK
    <2> QED BY <1>1, <2>1, <2>2, AccountedDeliver
  <1>3. CASE Drop(r, kept)
    <2>1. CASE S(i) = r
      BY <1>1, <1>3, <2>1 DEF Drop, Release, Accounted, S
    <2>2. CASE S(i) # r
      BY <1>1, <1>3, <2>2, AccountedQuiet DEF Drop, Release
    <2> QED BY <2>1, <2>2
  <1> QED BY <1>2, <1>3

\* A session that leaves its socket has nothing held yet.
LEMMA AccountedLeave ==
    ASSUME TypeInv, BooksInv, NEW cs \in SUBSET Conns, NEW order \in Orders(cs),
           Leave(cs, order), UNCHANGED <<told, unheard>>, NEW i \in Ids, Accounted(i)
    PROVE  Accounted(i)'
  <1>1. S(i) \in Sessions /\ Book(S(i))
    BY RequestType DEF BooksInv
  <1>2. \/ meta'[S(i)] = "none"
        \/ S(i) \in Staying(cs) /\ UNCHANGED <<meta[S(i)], outstanding[S(i)]>>
        \/ UNCHANGED <<away[S(i)], meta[S(i)], outstanding[S(i)]>>
    BY <1>1, LeaveEffect
  <1>3. CASE S(i) \in Staying(cs) /\ UNCHANGED <<meta[S(i)], outstanding[S(i)]>>
    <2>1. \E c \in Conns : S(i) \in slots[c]
      BY <1>3 DEF Staying
    <2>2. away[S(i)] = Here
      BY <1>1, <2>1 DEF Book, Conns, NoConn
    <2> QED BY <1>3, <2>2, HereIsEmpty DEF Accounted, Answered, S
  <1> QED BY <1>2, <1>3 DEF Accounted, Answered, S

LEMMA AccountStep == TypeInv /\ BooksInv /\ AccountInv /\ [Next]_vars => AccountInv'
  <1> SUFFICES ASSUME TypeInv, BooksInv, AccountInv, [Next]_vars, NEW i \in sent'
               PROVE  Accounted(i)'
    BY BeforeOpeningStep DEF AccountInv
  <1>1. BeforeOpening /\ i \in Ids /\ S(i) \in Sessions
    BY TypeStep, RequestType DEF AccountInv, TypeInv, TypeOK
  <1>2. Answered(i) => Answered(i)'
    BY <1>1, AnsweredStays
  <1>3. i \in sent => Accounted(i)
    BY DEF AccountInv
  <1>4. ASSUME NEW c \in Conns, NEW j \in Ids, Client(c, j) PROVE Accounted(i)'
    <2>1. Sends(c, j)
      BY <1>4 DEF Client, Refuse, Open, OpenThrows, Resume, CancelQueued, CancelOther,
                  Dispatch, Close, DispatchFails
    <2>2. i \in sent \/ i = j
      BY <2>1 DEF Sends
    <2> QED BY <1>1, <1>2, <1>3, <1>4, <2>2, AccountedClient
  <1>5. ASSUME NEW j \in Ids, Reply(j) PROVE Accounted(i)'
    <2>1. sent' = sent
      BY <1>5 DEF Reply, Answer, Opened, OpenRefused
    <2> QED BY <1>1, <1>2, <1>3, <1>5, <2>1, AccountedReply
  <1>6. ASSUME NEW r \in Sessions, NEW kept \in OnMovedSeats(r), Disrupt(r, kept) \/ Drop(r, kept)
        PROVE  Accounted(i)'
    <2>1. sent' = sent
      BY <1>6 DEF Disrupt, Drop
    <2> QED BY <1>1, <1>2, <1>3, <1>6, <2>1, AccountedDisrupt
  <1>7. ASSUME NEW c \in Conns, Socket(c) PROVE Accounted(i)'
    <2>1. CASE Connect(c) \/ LineDies(c)
      <3>1. UNCHANGED <<meta, away, outstanding, sent>>
        BY <2>1 DEF Connect, LineDies, window, client
      <3> QED BY <1>2, <1>3, <3>1, AccountedQuiet
    <2>2. CASE CloseSocket(c)
      BY <1>1, <1>3, <2>2, AccountedLeave DEF CloseSocket, client
    <2> QED BY <1>7, <2>1, <2>2 DEF Socket
  <1>8. CASE FireDeadline
    <2>1. CloseAbsent(Head(deadlines)) /\ UNCHANGED client
      BY <1>8 DEF FireDeadline
    <2>2. meta'[S(i)] = "none" \/ UNCHANGED <<meta[S(i)], away[S(i)], outstanding[S(i)]>>
      BY <1>1, <2>1 DEF CloseAbsent, TypeInv, TypeOK
    <2>3. CASE meta'[S(i)] = "none"
      BY <2>3 DEF Accounted, S
    <2>4. CASE UNCHANGED <<meta[S(i)], away[S(i)], outstanding[S(i)]>>
      BY <1>2, <1>3, <2>1, <2>4, AccountedQuiet DEF client
    <2> QED BY <2>2, <2>3, <2>4
  <1>9. CASE Stop
    BY <1>1, <1>3, <1>9, AccountedLeave DEF Stop, client
  <1>10. CASE BeginDrain \/ UNCHANGED vars
    <2>1. UNCHANGED <<meta, away, outstanding, sent>>
      BY <1>10 DEF BeginDrain, vars, window, client
    <2> QED BY <1>2, <1>3, <2>1, AccountedQuiet
  <1> QED BY <1>4, <1>5, <1>6, <1>7, <1>8, <1>9, <1>10 DEF Next

\* A request is answered, or still owed, or its answer waits for the client or was
\* lost with a dead socket, or its session is over.
THEOREM GatewayNoneForgotten == Spec => []NoneForgotten
  <1>1. Init => AccountInv
    BY DEF Init, AccountInv, BeforeOpening
  <1>2. AccountInv => NoneForgotten
    BY DEF AccountInv, Accounted, Answered, NoneForgotten
  <1> QED BY TypeInit, TypeStep, BooksInit, BooksStep, AccountStep, <1>1, <1>2, PTL DEF Spec
-----------------------------------------------------------------------------
(* How often a request is answered *)

\* The terminal frames of a request that are gone to a socket, and those that wait
\* for its client.
Seen(i) == told[i] + (IF i \in unheard THEN 1 ELSE 0)
Waits(i) == (IF i \in away[S(i)].lost THEN 1 ELSE 0) + Times(i, away[S(i)].held)

\* A request that a seat has still to answer has no terminal frame yet.
Counted(i) ==
    /\ i \notin sent => Terminals(i) = 0 /\ i \notin running
    /\ i \notin orphaned => Terminals(i) <= 1 /\ (i \in running => Terminals(i) = 0)
CountInv == \A i \in Ids : Counted(i)

LEMMA CountParts ==
    ASSUME TypeInv, NEW i \in Ids
    PROVE  /\ Seen(i) \in Nat /\ Waits(i) \in Nat /\ Terminals(i) = Seen(i) + Waits(i)
           /\ i \in away[S(i)].lost => Waits(i) >= 1
  <1>1. away[S(i)].held \in Seq(Ids) /\ told[i] \in Nat
    BY RequestType DEF TypeInv, TypeOK, Absence
  <1>2. Times(i, away[S(i)].held) \in Nat
    BY <1>1, TimesSome
  <1> QED BY <1>1, <1>2 DEF Seen, Waits, Terminals

LEMMA CountPartsNext ==
    ASSUME TypeInv', NEW i \in Ids
    PROVE  /\ Seen(i)' \in Nat /\ Waits(i)' \in Nat
           /\ Terminals(i)' = Seen(i)' + Waits(i)'
  <1>1. away'[S(i)].held \in Seq(Ids) /\ told'[i] \in Nat
    BY RequestType DEF TypeInv, TypeOK, Absence
  <1>2. Times(i, away'[S(i)].held) \in Nat
    BY <1>1, TimesSome
  <1> QED BY <1>1, <1>2 DEF Seen, Waits, Terminals, S, Times

LEMMA NothingHeld == \A i : Times(i, <<>>) = 0
  <1>1. \A i : {k \in DOMAIN <<>> : <<>>[k] = i} = {}
    OBVIOUS
  <1> QED BY <1>1, FS_EmptySet DEF Times

LEMMA NothingWaits ==
    ASSUME NEW i, away'[S(i)].held = <<>>, away'[S(i)].lost = {}
    PROVE  Waits(i)' = 0
  <1>1. Times(i, away'[S(i)].held) = 0
    BY NothingHeld
  <1> QED BY <1>1 DEF Waits, S, Times

LEMMA WaitsSame ==
    ASSUME NEW i, away'[S(i)] = away[S(i)]
    PROVE  Waits(i)' = Waits(i)
  BY DEF Waits, S, Times

LEMMA SeenSame ==
    ASSUME UNCHANGED <<told, unheard>>, NEW i
    PROVE  Seen(i)' = Seen(i)
  BY DEF Seen

LEMMA SeenWrite ==
    ASSUME TypeInv, NEW c, NEW frames \in Seq(Ids), IsInjective(frames), Write(c, frames),
           NEW i \in Ids
    PROVE  /\ i \notin Range(frames) => Seen(i)' = Seen(i)
           /\ Seen(i)' <= Seen(i) + 1
  <1>1. /\ i \notin Range(frames) => told'[i] = told[i] /\ (i \in unheard' <=> i \in unheard)
        /\ i \in Range(frames) =>
             \/ told'[i] = told[i] + 1 /\ (i \in unheard' <=> i \in unheard)
             \/ told'[i] = told[i] /\ i \in unheard'
    BY WriteEffect DEF TypeInv
  <1>2. told[i] \in Nat
    BY DEF TypeInv, TypeOK
  <1> QED BY <1>1, <1>2 DEF Seen

\* Frames for other requests change nothing, and one for a request without any, or
\* whose only one is lost, does not make two.
LEMMA CountDeliver ==
    ASSUME TypeInv, TypeInv', BooksInv, NEW r \in Sessions,
           NEW frames \in Seq(Ids), IsInjective(frames), Range(frames) \subseteq Of(r),
           NEW owed \in SUBSET Ids, NEW m, Deliver(r, frames, owed, m), NEW i \in Ids
    PROVE  /\ i \notin Range(frames) => Terminals(i)' = Terminals(i)
           /\ Terminals(i) = 0 \/ (i \in away[r].lost /\ Terminals(i) <= 1)
                => Terminals(i)' <= 1
  <1> DEFINE s == S(i)
  <1>1. /\ s \in Sessions /\ Book(r) /\ (i \in Range(frames) => s = r)
        /\ away \in [Sessions -> Absence]
        /\ told[i] \in Nat /\ told'[i] \in Nat
        /\ Times(i, away[s].held) \in Nat /\ Times(i, away'[s].held) \in Nat
    <2>1. s \in Sessions /\ Book(r) /\ (i \in Range(frames) => s = r)
      BY RequestType DEF BooksInv, Of
    <2>2. away \in [Sessions -> Absence] /\ told[i] \in Nat /\ told'[i] \in Nat
      BY DEF TypeInv, TypeOK
    <2>3. away[s].held \in Seq(Ids) /\ away'[s].held \in Seq(Ids)
      BY <2>1 DEF TypeInv, TypeOK, Absence
    <2> HIDE DEF s
    <2> QED BY <2>1, <2>2, <2>3, TimesSome
  <1>2. /\ Seen(i) \in Nat /\ Waits(i) \in Nat /\ Terminals(i) = Seen(i) + Waits(i)
        /\ Seen(i)' \in Nat /\ Waits(i)' \in Nat /\ Terminals(i)' = Seen(i)' + Waits(i)'
        /\ i \in away[s].lost => Waits(i) >= 1
    BY CountParts, CountPartsNext
  <1>3. /\ Waits(i) = (IF i \in away[s].lost THEN 1 ELSE 0) + Times(i, away[s].held)
        /\ Waits(i)' = (IF i \in away'[s].lost THEN 1 ELSE 0) + Times(i, away'[s].held)
    BY DEF Waits, S, Times
  <1>4. CASE s # r
    <2>1. away' = [away EXCEPT ![r] = away'[r]]
      BY DeliverEffect
    <2>2. away'[s] = away[s]
      BY <1>1, <1>4, <2>1
    <2>3. told'[i] = told[i] /\ (i \in unheard' <=> i \in unheard)
      BY <1>1, <1>4, DeliverEffect
    <2>4. Seen(i)' = Seen(i) /\ Waits(i)' = Waits(i)
      BY <2>2, <2>3, <1>3 DEF Seen
    <2> QED BY <1>2, <2>4
  <1>5. CASE s = r /\ route[r] # NoConn
    <2>1. away[r] = Here
      BY <1>1, <1>5 DEF Book
    <2>2. away'[s] = away[s]
      BY <1>5, DeliverEffect
    <2>3. Waits(i)' = Waits(i)
      BY <2>2, <1>3
    <2>4. Write(route[r], frames)
      BY <1>5 DEF Deliver, Routed, Held, Vanished
    <2>5. /\ i \notin Range(frames) => Seen(i)' = Seen(i)
          /\ Seen(i)' <= Seen(i) + 1
      BY <2>4, SeenWrite
    <2>6. i \notin away[r].lost
      BY <2>1, HereIsEmpty
    <2> QED BY <1>2, <2>3, <2>5, <2>6
  <1>6. CASE s = r /\ route[r] = NoConn /\ IsAway(r)
    <2>1. /\ told' = told /\ unheard' = unheard
          /\ away[r].lost \subseteq away'[r].lost
          /\ away'[r].lost \subseteq away[r].lost \union Range(frames)
          /\ i \notin Range(frames) => Times(i, away'[r].held) = Times(i, away[r].held)
          /\ i \in Range(frames) =>
               \/ i \in away'[r].lost /\ Times(i, away'[r].held) = Times(i, away[r].held)
               \/ /\ i \notin away[r].lost /\ i \notin away'[r].lost
                  /\ Times(i, away'[r].held) = Times(i, away[r].held) + 1
      BY <1>6, DeliverEffect
    <2>2. Seen(i)' = Seen(i)
      BY <2>1, SeenSame
    <2>3. /\ Waits(i) = (IF i \in away[r].lost THEN 1 ELSE 0) + Times(i, away[r].held)
          /\ Waits(i)' = (IF i \in away'[r].lost THEN 1 ELSE 0) + Times(i, away'[r].held)
          /\ Times(i, away[r].held) \in Nat /\ Times(i, away'[r].held) \in Nat
      BY <1>1, <1>3, <1>6
    <2>4. CASE i \notin Range(frames)
      <3>1. Waits(i)' = Waits(i)
        BY <2>1, <2>3, <2>4
      <3>2. i \in away[r].lost => Waits(i) >= 1
        BY <1>2, <1>6
      <3> QED BY <1>2, <2>2, <2>4, <3>1, <3>2
    <2>5. CASE i \in Range(frames)
      <3>1. Waits(i)' <= Waits(i) + 1 /\ (i \in away[r].lost => Waits(i)' = Waits(i))
        BY <2>1, <2>3, <2>5
      <3> QED BY <1>2, <2>2, <2>5, <3>1
    <2> QED BY <2>4, <2>5
  <1>7. CASE s = r /\ route[r] = NoConn /\ ~IsAway(r)
    <2>1. away'[s] = away[s] /\ told' = told /\ unheard' = unheard
      BY <1>7, DeliverEffect
    <2>2. Seen(i)' = Seen(i) /\ Waits(i)' = Waits(i)
      BY <2>1, SeenSame, WaitsSame
    <2> QED BY <1>2, <2>2
  <1> QED BY <1>4, <1>5, <1>6, <1>7

LEMMA CountedFewer ==
    ASSUME NEW i \in Ids, Counted(i), TypeInv, TypeInv', i \notin sent' => i \notin sent,
           i \notin orphaned' => i \notin orphaned, i \in running' => i \in running,
           Terminals(i)' <= Terminals(i)
    PROVE  Counted(i)'
  <1>1. Terminals(i) \in Nat /\ Terminals(i)' \in Nat
    BY CountParts, CountPartsNext
  <1> QED BY <1>1 DEF Counted

LEMMA CountedEnded ==
    ASSUME NEW i, i \in sent', i \notin running', i \notin orphaned' => Terminals(i)' <= 1
    PROVE  Counted(i)'
  BY DEF Counted

\* A resume tells its client, once each, what was held and what was lost.
LEMMA ResumeTimes ==
    ASSUME TypeInv, NEW i \in Ids, NEW j \in Ids, S(i) = S(j)
    PROVE  Times(i, ResumeFrames(j)) = (IF i = j THEN 1 ELSE 0) + Waits(i)
  <1> DEFINE held == away[S(j)].held
             errors == Ascending(away[S(j)].lost)
  <1>1. held \in Seq(Ids) /\ away[S(j)].lost \in SUBSET Ids
    BY RequestType DEF TypeInv, TypeOK, Absence
  <1>2. /\ errors \in Seq(Ids) /\ Range(errors) = away[S(j)].lost
        /\ \A k, l \in DOMAIN errors : errors[k] = errors[l] => k = l
    BY <1>1, OwedFrames DEF IsInjective
  <1>3. <<j>> \in Seq(Ids) /\ Times(i, <<j>>) = IF i = j THEN 1 ELSE 0
    <2>1. /\ <<j>> \in Seq(Ids) /\ Range(<<j>>) = {j}
          /\ \A k, l \in DOMAIN <<j>> : <<j>>[k] = <<j>>[l] => k = l
      BY OneFrame DEF IsInjective
    <2>2. Times(i, <<j>>) = IF i \in Range(<<j>>) THEN 1 ELSE 0
      BY <2>1, TimesOnce
    <2> QED BY <2>1, <2>2
  <1>4. ResumeFrames(j) = (<<j>> \o held) \o errors
    BY DEF ResumeFrames
  <1>5. Waits(i) = (IF i \in away[S(j)].lost THEN 1 ELSE 0) + Times(i, held)
    BY DEF Waits
  <1> HIDE DEF held, errors
  <1>6. Times(i, errors) = IF i \in away[S(j)].lost THEN 1 ELSE 0
    <2>1. Times(i, errors) = IF i \in Range(errors) THEN 1 ELSE 0
      BY ONLY <1>2, TimesOnce
    <2> QED BY <1>2, <2>1
  <1>7. <<j>> \o held \in Seq(Ids)
    BY <1>1, <1>3, ConcatProperties
  <1>8. /\ Times(i, <<j>> \o held) = Times(i, <<j>>) + Times(i, held)
        /\ Times(i, (<<j>> \o held) \o errors) = Times(i, <<j>> \o held) + Times(i, errors)
        /\ Times(i, held) \in Nat
    BY <1>1, <1>2, <1>3, <1>7, TimesConcat
  <1> QED BY <1>3, <1>4, <1>5, <1>6, <1>8

LEMMA CountedResume ==
    ASSUME TypeInv, TypeInv', ServedInv, CountInv, NEW c \in Conns, NEW j \in Ids, Resume(c, j),
           NEW i \in Ids
    PROVE  Counted(i)'
  <1>1. /\ Seen(i) \in Nat /\ Waits(i) \in Nat /\ Terminals(i) = Seen(i) + Waits(i)
        /\ Waits(i)' \in Nat /\ Terminals(i)' = Seen(i)' + Waits(i)'
    BY CountParts, CountPartsNext
  <1>2. /\ j \notin sent /\ sent' = sent \union {j} /\ line[c] = "up"
        /\ Write(c, ResumeFrames(j)) /\ away' = [away EXCEPT ![S(j)] = Here]
        /\ running' = running /\ orphaned' = orphaned
    BY DEF Resume, Sends, service
  <1>3. Counted(i) /\ Counted(j)
    BY DEF CountInv
  <1>4. told'[i] = told[i] + Times(i, ResumeFrames(j)) /\ unheard' = unheard
    BY <1>2, ResumeFramesType, WriteUp DEF TypeInv
  <1>5. told[i] \in Nat /\ DOMAIN away = Sessions /\ S(i) \in Sessions /\ S(j) \in Sessions
    BY RequestType DEF TypeInv, TypeOK
  <1>6. CASE S(i) = S(j)
    <2>1. Waits(i)' = 0
      <3>1. away'[S(i)] = Here
        BY <1>2, <1>5, <1>6
      <3> QED BY <3>1, NothingWaits DEF Here
    <2>2. Seen(i)' = Seen(i) + (IF i = j THEN 1 ELSE 0) + Waits(i)
      BY <1>1, <1>4, <1>5, <1>6, ResumeTimes DEF Seen
    <2>3. CASE i = j
      <3>1. Terminals(i)' <= 1
        BY <1>1, <1>2, <1>3, <2>1, <2>2, <2>3 DEF Counted
      <3> QED BY <1>2, <1>3, <2>3, <3>1, CountedEnded DEF Counted
    <2>4. CASE i # j
      <3>1. Terminals(i)' <= Terminals(i)
        BY <1>1, <2>1, <2>2, <2>4
      <3> QED BY <1>2, <1>3, <2>4, <3>1, CountedFewer
    <2> QED BY <2>3, <2>4
  <1>7. CASE S(i) # S(j)
    <2>1. i \notin Range(ResumeFrames(j))
      <3>1. away[S(j)].lost \subseteq Of(S(j)) /\ Range(away[S(j)].held) \subseteq Of(S(j))
        BY <1>5 DEF ServedInv, Served
      <3> QED BY <1>7, <3>1, ResumeFramesType DEF Of
    <2>2. Times(i, ResumeFrames(j)) = 0
      <3>1. {k \in DOMAIN ResumeFrames(j) : ResumeFrames(j)[k] = i} = {}
        BY <2>1 DEF Range
      <3> QED BY <3>1, FS_EmptySet DEF Times
    <2>3. away'[S(i)] = away[S(i)]
      BY <1>2, <1>5, <1>7
    <2>4. Waits(i)' = Waits(i) /\ Seen(i)' = Seen(i)
      BY <1>4, <1>5, <2>2, <2>3, WaitsSame DEF Seen
    <2>5. Terminals(i)' <= Terminals(i) /\ i # j
      BY <1>1, <1>7, <2>4
    <2> QED BY <1>2, <1>3, <2>5, CountedFewer
  <1> QED BY <1>6, <1>7

LEMMA CountedClient ==
    ASSUME TypeInv, TypeInv', BooksInv, ServedInv, CountInv, NEW c \in Conns, NEW j \in Ids,
           Client(c, j), NEW i \in Ids
    PROVE  Counted(i)'
  <1>1. /\ Seen(i) \in Nat /\ Waits(i) \in Nat /\ Terminals(i) = Seen(i) + Waits(i)
        /\ Seen(i)' \in Nat /\ Waits(i)' \in Nat /\ Terminals(i)' = Seen(i)' + Waits(i)'
    BY CountParts, CountPartsNext
  <1>2. Sends(c, j) /\ orphaned' = orphaned
    BY DEF Client, Refuse, Open, OpenThrows, Resume, CancelQueued, CancelOther, Dispatch, Close,
           DispatchFails, service
  <1>3. /\ j \notin sent /\ sent' = sent \union {j} /\ S(i) \in Sessions /\ S(j) \in Sessions
        /\ Counted(i) /\ Counted(j) /\ Terminals(j) = 0 /\ j \notin running
    BY <1>2, RequestType DEF Sends, CountInv, Counted
  <1>4. <<j>> \in Seq(Ids) /\ Range(<<j>>) = {j} /\ IsInjective(<<j>>) /\ j \in Of(S(j))
    BY OneFrame DEF Of
  <1>5. CASE Refuse(c, j) \/ OpenThrows(c, j) \/ CancelOther(c, j)
    <2>1. Write(c, <<j>>) /\ away' = away /\ running' = running
      BY <1>5 DEF Refuse, OpenThrows, CancelOther, window, service
    <2>2. /\ Waits(i)' = Waits(i) /\ (i # j => Seen(i)' = Seen(i)) /\ Seen(i)' <= Seen(i) + 1
      BY <1>4, <2>1, WaitsSame, SeenWrite
    <2>3. CASE i = j
      <3>1. Terminals(i)' <= 1
        BY <1>1, <1>3, <2>2, <2>3
      <3> QED BY <1>3, <2>1, <2>3, <3>1, CountedEnded
    <2>4. CASE i # j
      <3>1. Terminals(i)' <= Terminals(i)
        BY <1>1, <2>2, <2>4
      <3> QED BY <1>2, <1>3, <2>1, <2>4, <3>1, CountedFewer
    <2> QED BY <2>3, <2>4
  <1>6. CASE Open(c, j) \/ Dispatch(c, j) \/ Close(c, j)
    <2>1. UNCHANGED <<told, unheard, away>> /\ running' = running \union {j}
      BY <1>6 DEF Open, Dispatch, Close, window
    <2>2. Waits(i)' = Waits(i) /\ Seen(i)' = Seen(i)
      BY <2>1, WaitsSame, SeenSame
    <2>3. Terminals(i)' = Terminals(i)
      BY <1>1, <2>2
    <2>4. CASE i = j
      <3>1. i \in sent' /\ Terminals(i)' = 0
        BY <1>3, <2>3, <2>4
      <3> QED BY <3>1 DEF Counted
    <2>5. CASE i # j
      BY <1>1, <1>2, <1>3, <2>1, <2>3, <2>5, CountedFewer
    <2> QED BY <2>4, <2>5
  <1>7. CASE Resume(c, j)
    BY <1>7, CountedResume
  <1>8. CASE CancelQueued(c, j)
    <2> DEFINE t == Request[j].of
    <2>1. /\ t \in running /\ Write(c, <<t, j>>) /\ away' = away /\ running' = running \ {t}
          /\ t \in Ids
      BY <1>8, RequestType DEF CancelQueued, window
    <2> HIDE DEF t
    <2>2. t # j /\ Counted(t)
      BY <1>3, <2>1 DEF CountInv
    <2>3. t \in sent
      BY <2>1, <2>2 DEF Counted
    <2>4. <<t, j>> \in Seq(Ids) /\ Range(<<t, j>>) = {t, j} /\ IsInjective(<<t, j>>)
      <3>1. DOMAIN <<t, j>> = 1..2 /\ <<t, j>>[1] = t /\ <<t, j>>[2] = j
        OBVIOUS
      <3> QED BY <2>1, <2>2, <3>1 DEF Range, IsInjective
    <2>5. /\ Waits(i)' = Waits(i) /\ (i \notin {t, j} => Seen(i)' = Seen(i))
          /\ Seen(i)' <= Seen(i) + 1
      BY <2>1, <2>4, WaitsSame, SeenWrite
    <2>6. CASE i \in {t, j}
      <3>1. i \in sent' /\ i \notin running' /\ (i \notin orphaned => Terminals(i) = 0)
        BY <1>3, <2>1, <2>2, <2>3, <2>6 DEF Counted
      <3>2. i \notin orphaned' => Terminals(i)' <= 1
        BY <1>1, <1>2, <2>5, <3>1
      <3> QED BY <3>1, <3>2, CountedEnded
    <2>7. CASE i \notin {t, j}
      <3>1. Terminals(i)' <= Terminals(i)
        BY <1>1, <2>5, <2>7
      <3> QED BY <1>2, <1>3, <2>1, <2>7, <3>1, CountedFewer
    <2> QED BY <2>6, <2>7
  <1>9. CASE DispatchFails(c, j)
    <2>1. PICK m : Deliver(S(j), <<j>>, outstanding[S(j)] \union {j}, m)
      BY <1>9 DEF DispatchFails
    <2>2. running' = running /\ outstanding[S(j)] \union {j} \in SUBSET Ids
      BY <1>3, <1>9 DEF DispatchFails, TypeInv, TypeOK
    <2>3. /\ i # j => Terminals(i)' = Terminals(i)
          /\ Terminals(i) = 0 => Terminals(i)' <= 1
      BY <1>3, <1>4, <2>1, <2>2, CountDeliver
    <2>4. CASE i = j
      BY <1>3, <2>2, <2>3, <2>4, CountedEnded
    <2>5. CASE i # j
      BY <1>1, <1>2, <1>3, <2>2, <2>3, <2>5, CountedFewer
    <2> QED BY <2>4, <2>5
  <1> QED BY <1>5, <1>6, <1>7, <1>8, <1>9 DEF Client

\* Nothing waits for the client of a session that is released.
LEMMA CountRelease ==
    ASSUME TypeInv, NEW r \in Sessions, Release(r), NEW i \in Ids
    PROVE  Waits(i)' <= Waits(i) /\ (S(i) = r => Waits(i)' = 0)
  <1>1. Waits(i) \in Nat /\ S(i) \in Sessions /\ DOMAIN away = Sessions
    BY CountParts, RequestType DEF TypeInv, TypeOK
  <1>2. CASE S(i) = r
    <2>1. away'[S(i)] = Here
      BY <1>1, <1>2 DEF Release
    <2>2. Waits(i)' = 0
      BY <2>1, NothingWaits DEF Here
    <2> QED BY <1>1, <2>2
  <1>3. CASE S(i) # r
    <2>1. away'[S(i)] = away[S(i)]
      BY <1>1, <1>3 DEF Release
    <2>2. Waits(i)' = Waits(i)
      BY <2>1, WaitsSame
    <2> QED BY <1>1, <1>3, <2>2
  <1> QED BY <1>2, <1>3

LEMMA CountedReply ==
    ASSUME TypeInv, TypeInv', BooksInv, ServedInv, CountInv, NEW j \in Ids, Reply(j), NEW i \in Ids
    PROVE  Counted(i)'
  <1>1. /\ Seen(i) \in Nat /\ Waits(i) \in Nat /\ Terminals(i) = Seen(i) + Waits(i)
        /\ Seen(i)' \in Nat /\ Waits(i)' \in Nat /\ Terminals(i)' = Seen(i)' + Waits(i)'
    BY CountParts, CountPartsNext
  <1>2. /\ sent' = sent /\ orphaned' = orphaned
        /\ j \in running /\ running' = running \ {j}
    BY DEF Reply, Answer, Opened, OpenRefused
  <1>3. /\ Counted(i) /\ Counted(j) /\ j \in sent /\ (j \notin orphaned => Terminals(j) = 0)
        /\ S(j) \in Sessions /\ outstanding[S(j)] \in SUBSET Ids
    BY <1>2, RequestType DEF CountInv, Counted, TypeInv, TypeOK
  <1>4. <<j>> \in Seq(Ids) /\ Range(<<j>>) = {j} /\ IsInjective(<<j>>) /\ j \in Of(S(j))
    BY OneFrame DEF Of
  <1>5. /\ i # j => Terminals(i)' <= Terminals(i)
        /\ Terminals(i) = 0 => Terminals(i)' <= 1
    <2>1. CASE Deliver(S(j), <<j>>, outstanding[S(j)], meta[S(j)])
      <3>1. /\ i # j => Terminals(i)' = Terminals(i)
            /\ Terminals(i) = 0 => Terminals(i)' <= 1
        BY <1>3, <1>4, <2>1, CountDeliver
      <3> QED BY <1>1, <3>1
    <2>2. CASE WriteIfRouted(S(j), <<j>>) /\ Release(S(j))
      <3>1. Waits(i)' <= Waits(i)
        BY <1>3, <2>2, CountRelease
      <3>2. (i # j => Seen(i)' = Seen(i)) /\ Seen(i)' <= Seen(i) + 1
        <4>1. CASE Write(route[S(j)], <<j>>)
          BY <1>4, <4>1, SeenWrite
        <4>2. CASE UNCHANGED <<told, unheard>>
          <5>1. Seen(i)' = Seen(i)
            BY <4>2, SeenSame
          <5> QED BY <1>1, <5>1
        <4> QED BY <2>2, <4>1, <4>2 DEF WriteIfRouted
      <3> QED BY <1>1, <3>1, <3>2
    <2> QED BY <2>1, <2>2 DEF Reply, Answer, Opened, OpenRefused
  <1>6. CASE i = j
    BY <1>2, <1>3, <1>5, <1>6, CountedEnded
  <1>7. CASE i # j
    BY <1>2, <1>3, <1>5, <1>7, CountedFewer
  <1> QED BY <1>6, <1>7

\* A request that is failed is on no seat that will answer it, or is an orphan.
LEMMA CountedDisrupt ==
    ASSUME TypeInv, TypeInv', BooksInv, ServedInv, CountInv, NEW r \in Sessions,
           NEW kept \in OnMovedSeats(r), Disrupt(r, kept) \/ Drop(r, kept), NEW i \in Ids
    PROVE  Counted(i)'
  <1>1. /\ Seen(i) \in Nat /\ Waits(i) \in Nat /\ Terminals(i) = Seen(i) + Waits(i)
        /\ Seen(i)' \in Nat /\ Waits(i)' \in Nat /\ Terminals(i)' = Seen(i)' + Waits(i)'
        /\ (i \in away[S(i)].lost => Waits(i) >= 1)
    BY CountParts, CountPartsNext
  <1>2. /\ sent' = sent /\ orphaned' = orphaned \union (kept \intersect outstanding[r])
        /\ running' = (running \ Of(r)) \union kept /\ kept \subseteq running
    BY OnMovedSeatsType DEF Disrupt, Drop, TypeInv
  <1>3. Counted(i) /\ Served(r) /\ Book(r) /\ outstanding[r] \in SUBSET Ids
    BY DEF CountInv, ServedInv, BooksInv, TypeInv, TypeOK
  <1> DEFINE frames == Ascending(outstanding[r])
  <1>4. /\ frames \in Seq(Ids) /\ Range(frames) = outstanding[r] /\ IsInjective(frames)
        /\ Range(frames) \subseteq Of(r)
    BY <1>3, OwedFrames DEF Served
  <1>5. i \in outstanding[r] => i \in running \/ i \in away[r].lost
    BY <1>3 DEF Served
  <1>6. i \in outstanding[r] => S(i) = r
    BY <1>3 DEF Served, Of
  <1>7. i \in outstanding[r] => i \in sent
    BY <1>1, <1>3, <1>5, <1>6 DEF Counted
  <1>8. i \in outstanding[r] /\ i \notin orphaned =>
          Terminals(i) = 0 \/ (i \in away[r].lost /\ Terminals(i) <= 1)
    BY <1>3, <1>5 DEF Counted
  <1>9. /\ i \notin outstanding[r] => Terminals(i)' <= Terminals(i)
        /\ Terminals(i) = 0 \/ (i \in away[r].lost /\ Terminals(i) <= 1 /\ S(i) = r)
             => Terminals(i)' <= 1
    <2>1. CASE Disrupt(r, kept)
      <3>1. Deliver(r, frames, outstanding[r], meta[r])
        BY <2>1 DEF Disrupt, LostBy
      <3> HIDE DEF frames
      <3>2. /\ i \notin outstanding[r] => Terminals(i)' = Terminals(i)
            /\ Terminals(i) = 0 \/ (i \in away[r].lost /\ Terminals(i) <= 1)
                 => Terminals(i)' <= 1
        BY <1>3, <1>4, <3>1, CountDeliver
      <3> QED BY <1>1, <3>2
    <2>2. CASE Drop(r, kept)
      <3>1. WriteIfRouted(r, frames) /\ Release(r)
        BY <2>2 DEF Drop
      <3> HIDE DEF frames
      <3>2. Waits(i)' <= Waits(i) /\ (S(i) = r => Waits(i)' = 0)
        BY <3>1, CountRelease
      <3>3. (i \notin outstanding[r] => Seen(i)' = Seen(i)) /\ Seen(i)' <= Seen(i) + 1
        BY <1>1, <1>4, <3>1, SeenWrite, SeenSame DEF WriteIfRouted
      <3>4. S(i) = r /\ i \in away[r].lost => Waits(i) >= 1
        BY <1>1
      <3> QED BY <1>1, <3>2, <3>3, <3>4
    <2> QED BY <2>1, <2>2
  <1> HIDE DEF frames
  <1>10. CASE i \in outstanding[r]
    <2>1. i \notin orphaned' => i \notin orphaned /\ i \notin kept
      BY <1>2, <1>10
    <2>2. i \notin kept => i \notin running'
      BY <1>2, <1>4, <1>10
    <2>3. i \notin orphaned' => Terminals(i)' <= 1
      BY <1>6, <1>8, <1>9, <1>10, <2>1
    <2> QED BY <1>2, <1>7, <1>10, <2>1, <2>2, <2>3 DEF Counted
  <1>11. CASE i \notin outstanding[r]
    BY <1>2, <1>3, <1>9, <1>11, CountedFewer
  <1> QED BY <1>10, <1>11

LEMMA CountedLeave ==
    ASSUME TypeInv, TypeInv', CountInv, NEW cs \in SUBSET Conns, NEW order \in Orders(cs),
           Leave(cs, order), UNCHANGED <<told, unheard, sent, running, orphaned>>, NEW i \in Ids
    PROVE  Counted(i)'
  <1>1. /\ Seen(i) \in Nat /\ Waits(i) \in Nat /\ Terminals(i) = Seen(i) + Waits(i)
        /\ Terminals(i)' = Seen(i)' + Waits(i)' /\ Waits(i)' \in Nat
        /\ S(i) \in Sessions /\ Counted(i)
    BY CountParts, CountPartsNext, RequestType DEF CountInv
  <1>2. \/ away'[S(i)] = Here
        \/ \E k \in DOMAIN order : away'[S(i)] = [Here EXCEPT !.since = Latest + k]
        \/ away'[S(i)] = away[S(i)]
    BY <1>1, LeaveEffect
  <1>3. Waits(i)' <= Waits(i)
    <2>1. CASE away'[S(i)].held = <<>> /\ away'[S(i)].lost = {}
      BY <1>1, <2>1, NothingWaits
    <2>2. CASE away'[S(i)] = away[S(i)]
      BY <1>1, <2>2, WaitsSame
    <2>3. \A n : [Here EXCEPT !.since = n].held = <<>> /\ [Here EXCEPT !.since = n].lost = {}
      BY DEF Here
    <2> QED BY <1>2, <2>1, <2>2, <2>3 DEF Here
  <1>4. Terminals(i)' <= Terminals(i)
    <2>1. Seen(i)' = Seen(i)
      BY SeenSame
    <2> QED BY <1>1, <1>3, <2>1
  <1> QED BY <1>1, <1>4, CountedFewer

LEMMA CountStep ==
    TypeInv /\ BooksInv /\ ServedInv /\ CountInv /\ [Next]_vars => CountInv'
  <1> SUFFICES ASSUME TypeInv, BooksInv, ServedInv, CountInv, [Next]_vars, NEW i \in Ids
               PROVE  Counted(i)'
    BY DEF CountInv
  <1>1. /\ TypeInv' /\ Counted(i) /\ S(i) \in Sessions
        /\ Seen(i) \in Nat /\ Waits(i) \in Nat /\ Terminals(i) = Seen(i) + Waits(i)
    BY TypeStep, CountParts, RequestType DEF CountInv
  <1>2. Terminals(i)' = Seen(i)' + Waits(i)' /\ Waits(i)' \in Nat
    BY <1>1, CountPartsNext
  <1>3. ASSUME UNCHANGED <<told, unheard, away, sent, running, orphaned>> PROVE Counted(i)'
    <2>1. Terminals(i)' <= Terminals(i)
      BY <1>1, <1>2, <1>3, SeenSame, WaitsSame
    <2> QED BY <1>1, <1>3, <2>1, CountedFewer
  <1>4. ASSUME NEW c \in Conns, Socket(c) PROVE Counted(i)'
    <2>1. CASE Connect(c) \/ LineDies(c)
      BY <1>3, <2>1 DEF Connect, LineDies, window, client, service
    <2>2. CASE CloseSocket(c)
      BY <1>1, <2>2, CountedLeave DEF CloseSocket, client
    <2> QED BY <1>4, <2>1, <2>2 DEF Socket
  <1>5. CASE FireDeadline
    <2>1. /\ CloseAbsent(Head(deadlines))
          /\ UNCHANGED <<told, unheard, sent, running, orphaned>>
      BY <1>5 DEF FireDeadline, client
    <2>2. away'[S(i)] = Here \/ away'[S(i)] = away[S(i)]
      BY <1>1, <2>1 DEF CloseAbsent, TypeInv, TypeOK
    <2>3. Waits(i)' <= Waits(i)
      <3>1. CASE away'[S(i)] = Here
        <4>1. away'[S(i)].held = <<>> /\ away'[S(i)].lost = {}
          BY <3>1 DEF Here
        <4>2. Waits(i)' = 0
          BY <4>1, NothingWaits
        <4> QED BY <1>1, <4>2
      <3>2. CASE away'[S(i)] = away[S(i)]
        BY <1>1, <3>2, WaitsSame
      <3> QED BY <2>2, <3>1, <3>2
    <2>4. Terminals(i)' <= Terminals(i)
      <3>1. Seen(i)' = Seen(i)
        BY <2>1, SeenSame
      <3> QED BY <1>1, <1>2, <2>3, <3>1
    <2> QED BY <1>1, <2>1, <2>4, CountedFewer
  <1>6. CASE Stop
    BY <1>1, <1>6, CountedLeave DEF Stop, client
  <1>7. CASE BeginDrain \/ UNCHANGED vars
    BY <1>3, <1>7 DEF BeginDrain, vars, window, client, service
  <1> QED BY <1>1, <1>4, <1>5, <1>6, <1>7, CountedClient, CountedReply, CountedDisrupt DEF Next

\* Whatever socket it takes and however often the session is left and resumed, a
\* request gets one terminal frame, unless it was failed while a seat it had been left
\* on still had it.
THEOREM GatewayOneTerminal == Spec => []OneTerminal
  <1>1. Init => CountInv
    <2> SUFFICES ASSUME Init, NEW i \in Ids PROVE Counted(i)
      BY DEF CountInv
    <2>1. told[i] = 0 /\ i \notin unheard /\ away[S(i)] = Here /\ running = {}
      BY RequestType DEF Init
    <2>2. Terminals(i) = 0
      BY <2>1, NothingHeld DEF Terminals, Here
    <2> QED BY <2>1, <2>2 DEF Counted
  <1>2. CountInv => OneTerminal
    BY DEF CountInv, Counted, OneTerminal
  <1> QED BY TypeInit, TypeStep, BooksInit, BooksStep, ServedInit, ServedStep, CountStep,
             <1>1, <1>2, PTL DEF Spec
=============================================================================
