----------------------------- MODULE SessionProofs -----------------------------
(***************************************************************************)
(* Theorems about a session's graph, for every market and every script of  *)
(* requests: a market that was accepted hangs together, no curve is left   *)
(* stale, a sweep puts back what it does not keep and an update that is    *)
(* refused is not served from.                                             *)
(***************************************************************************)
EXTENDS Session, FiniteSetTheorems, SequenceTheorems, TLAPS

\* A grid with one axis more, before it is flattened.
Spread(rows, axis) == [r \in DOMAIN rows |-> [k \in DOMAIN axis |-> Append(rows[r], axis[k])]]
Widened(rows, axis) == FlattenSeq(Spread(rows, axis))

\* The folds of a session: a market built, a grid counted and laid out, fixings recorded.
Building == INSTANCE FoldProofs WITH Op <- LAMBDA c, g, o : Add(g, o)
Counting == INSTANCE FoldProofs WITH Op <- LAMBDA c, x, y : x * y
Gridding == INSTANCE FoldProofs WITH Op <- LAMBDA c, rows, axis : Widened(rows, axis)
Recording == INSTANCE FoldProofs WITH Op <- LAMBDA c, m, s : RecordSeries(m, s)

-----------------------------------------------------------------------------
(* Functions and sequences *)

LEMMA OfSeq == ASSUME NEW Y, NEW s, s \in Seq(Y) PROVE Repeated(s)
  <1>1. s \in Seq({s[i] : i \in DOMAIN s})
    <2>1. \A i \in 1..Len(s) : s[i] \in {s[k] : k \in DOMAIN s}
      BY LenProperties
    <2> QED BY <2>1, LenProperties
  <1> QED BY <1>1 DEF Repeated, Range

LEMMA RepeatedFacts ==
    ASSUME NEW s, Repeated(s)
    PROVE  Len(s) \in Nat /\ DOMAIN s = 1..Len(s) /\ s \in Seq(Range(s))
  BY LenProperties DEF Repeated

LEMMA Appended ==
    ASSUME NEW s, Repeated(s), NEW x
    PROVE  /\ Repeated(Append(s, x))
           /\ Len(s) \in Nat /\ Len(Append(s, x)) = Len(s) + 1
           /\ DOMAIN s = 1..Len(s) /\ DOMAIN Append(s, x) = 1..(Len(s) + 1)
           /\ \A i \in 1..Len(s) : Append(s, x)[i] = s[i]
           /\ Append(s, x)[Len(s) + 1] = x
           /\ Range(Append(s, x)) = Range(s) \union {x}
  <1> DEFINE X == Range(s)
             Y == X \union {x}
             t == Append(s, x)
  <1>1. s \in Seq(X) /\ s \in Seq(Y) /\ x \in Y
    <2>1. s \in Seq(X)
      BY DEF Repeated
    <2>2. X \subseteq Y
      OBVIOUS
    <2> QED BY <2>1, <2>2
  <1>r. X = {s[i] : i \in DOMAIN s}
    BY DEF Range
  <1> HIDE DEF X, Y
  <1>2. /\ t \in Seq(Y) /\ Len(t) = Len(s) + 1
        /\ \A i \in 1..Len(s) : t[i] = s[i]
        /\ t[Len(s) + 1] = x
    BY <1>1, AppendProperties
  <1>3. /\ Len(s) \in Nat /\ DOMAIN s = 1..Len(s) /\ DOMAIN t = 1..(Len(s) + 1)
    BY <1>1, <1>2, LenProperties
  <1>4. Range(t) = X \union {x}
    <2>1. ASSUME NEW y \in Range(t) PROVE y \in X \union {x}
      <3>1. PICK i \in 1..(Len(s) + 1) : y = t[i]
        BY <1>3, <2>1 DEF Range
      <3>2. CASE i = Len(s) + 1
        BY <1>2, <3>1, <3>2
      <3>3. CASE i # Len(s) + 1
        <4>1. i \in 1..Len(s)
          BY <1>3, <3>1, <3>3
        <4> QED BY <1>2, <1>3, <1>r, <3>1, <4>1
      <3> QED BY <3>2, <3>3
    <2>2. ASSUME NEW y \in X PROVE y \in Range(t)
      <3>1. PICK i \in 1..Len(s) : y = s[i]
        BY <1>3, <1>r, <2>2
      <3>2. i \in 1..(Len(s) + 1) /\ y = t[i]
        BY <1>2, <1>3, <3>1
      <3> QED BY <1>3, <3>2 DEF Range
    <2>3. x \in Range(t)
      <3>1. Len(s) + 1 \in 1..(Len(s) + 1)
        BY <1>3
      <3> QED BY <1>2, <1>3, <3>1 DEF Range
    <2> QED BY <2>1, <2>2, <2>3
  <1>5. Repeated(t)
    BY <1>2, OfSeq
  <1> QED BY <1>2, <1>3, <1>4, <1>5 DEF X

LEMMA Headed ==
    ASSUME NEW s, Repeated(s), s # <<>>, NEW x
    PROVE  Append(s, x) # <<>> /\ Head(Append(s, x)) = Head(s)
  <1> DEFINE t == Append(s, x)
  <1>1. /\ Repeated(t) /\ Len(s) \in Nat /\ DOMAIN s = 1..Len(s)
        /\ Len(t) = Len(s) + 1 /\ \A i \in 1..Len(s) : t[i] = s[i]
    BY Appended
  <1>2. s \in Seq(Range(s)) /\ t \in Seq(Range(t))
    BY <1>1 DEF Repeated
  <1>3. Len(s) # 0
    BY <1>2, EmptySeq
  <1>4. t # <<>>
    BY <1>1
  <1> HIDE DEF t
  <1>5. Head(t) = t[1] /\ Head(s) = s[1]
    BY <1>2, <1>4, HeadTailProperties
  <1> QED BY <1>1, <1>3, <1>4, <1>5 DEF t

LEMMA Tailed ==
    ASSUME NEW s, Repeated(s), s # <<>>
    PROVE  /\ Repeated(Tail(s)) /\ Len(s) \in Nat \ {0} /\ Len(Tail(s)) = Len(s) - 1
           /\ DOMAIN s = 1..Len(s) /\ 1 \in DOMAIN s /\ Head(s) = s[1]
           /\ DOMAIN Tail(s) = 1..(Len(s) - 1)
           /\ \A i \in DOMAIN Tail(s) : Tail(s)[i] = s[i + 1] /\ i + 1 \in DOMAIN s
  <1> DEFINE t == Tail(s)
  <1>1. s \in Seq(Range(s)) /\ Len(s) \in Nat /\ DOMAIN s = 1..Len(s)
    BY RepeatedFacts
  <1>2. Len(s) # 0
    BY <1>1, EmptySeq
  <1>3. /\ t \in Seq(Range(s)) /\ Len(t) = Len(s) - 1 /\ Head(s) = s[1]
        /\ \A i \in 1..Len(t) : t[i] = s[i + 1]
    BY <1>1, HeadTailProperties
  <1>4. DOMAIN t = 1..Len(t) /\ Len(t) \in Nat
    BY <1>3, LenProperties
  <1>5. Repeated(t)
    BY <1>3, OfSeq
  <1> QED BY <1>1, <1>2, <1>3, <1>4, <1>5
-----------------------------------------------------------------------------
(* A market that is built *)

Fields == {"quotes", "curves", "vols", "indices", "correlations", "fixings", "ids", "waiting",
           "refused"}
IsGraph(g) == DOMAIN g = Fields /\ g.refused \in BOOLEAN

\* Ids name one object each, quotes among them.
Named(g) == Repeated(g.ids) /\ IsInjective(g.ids) /\ DOMAIN g.quotes \subseteq Range(g.ids)
\* An index has its curve, or waits for it, or needs none.
Forecasts(g) ==
    \A i \in DOMAIN g.indices :
        /\ DOMAIN g.indices[i] = {"name", "family", "forwards", "linked"}
        /\ \/ g.indices[i].forwards = None
           \/ g.indices[i].forwards \in DOMAIN g.curves /\ g.indices[i].linked
           \/ <<g.indices[i].forwards, i>> \in g.waiting
Observes(g) ==
    /\ \A c \in DOMAIN g.curves : g.curves[c].feeds \subseteq DOMAIN g.quotes
    /\ \A v \in DOMAIN g.vols : g.vols[v].feeds \subseteq DOMAIN g.quotes
Resolving(g) ==
    \A c \in DOMAIN g.correlations :
        \A i, j \in DOMAIN g.correlations[c] : Resolves(g, g.correlations[c][i][j])
Hangs(g) == Named(g) /\ Forecasts(g) /\ Observes(g) /\ Resolving(g)
Correlated(g) ==
    \A c \in DOMAIN g.correlations : IsCorrelation(Matrix(g.quotes, g.correlations[c]))

QuoteIds(market) == {market[k].id : k \in {j \in DOMAIN market : market[j].kind = "quote"}}

\* What holds of the objects added so far.
Sound(g) == IsGraph(g) /\ (~g.refused => Hangs(g) /\ Correlated(g))

\* An object that is not taken refuses the session, and one that is leaves this.
Refusal(g) == [g EXCEPT !.refused = TRUE]
Grown(g, o, h) ==
    /\ IsGraph(h) /\ ~h.refused /\ h.ids = Append(g.ids, o.id) /\ o.id \notin Range(g.ids)
    /\ Builds(g, o)
    /\ o.kind \in {"quote", "curve", "volatility", "index", "correlation", "fixings"}
    /\ h.quotes = IF o.kind = "quote" THEN Put(g.quotes, o.id, o.value) ELSE g.quotes
    /\ h.vols = IF o.kind = "volatility"
                THEN Put(g.vols, o.id, [feeds |-> VolatilityFeeds(o)]) ELSE g.vols
    /\ h.correlations = IF o.kind = "correlation"
                        THEN Put(g.correlations, o.id, o.entries) ELSE g.correlations
    /\ h.curves = IF o.kind = "curve"
                  THEN Put(g.curves, o.id, [feeds |-> CurveFeeds(o)]) ELSE g.curves
    /\ o.kind \notin {"index", "curve"} => h.indices = g.indices /\ h.waiting = g.waiting
    /\ o.kind = "index" => h.indices = WithIndex(g, o).indices
                           /\ h.waiting = WithIndex(g, o).waiting
    /\ o.kind = "curve" => h.indices = WithCurve(g, o).indices
                           /\ h.waiting = WithCurve(g, o).waiting

LEMMA Shape ==
    ASSUME NEW g, IsGraph(g), NEW o, ~g.refused, NEW h, h = Add(g, o), h # Refusal(g)
    PROVE  Grown(g, o, h)
  <1>1. PICK w : w = With(g, o)
    OBVIOUS
  <1>2. /\ o.id \notin Range(g.ids) /\ Builds(g, o)
        /\ h = [w EXCEPT !.ids = Append(@, o.id)]
    BY <1>1 DEF Add, Refusal
  <1>3. o.kind \in {"quote", "curve", "volatility", "index", "correlation", "fixings"}
    BY <1>2 DEF Builds
  <1>4. /\ IsGraph(w) /\ ~w.refused /\ w.ids = g.ids
        /\ w.quotes = IF o.kind = "quote" THEN Put(g.quotes, o.id, o.value) ELSE g.quotes
        /\ w.vols = IF o.kind = "volatility"
                    THEN Put(g.vols, o.id, [feeds |-> VolatilityFeeds(o)]) ELSE g.vols
        /\ w.correlations = IF o.kind = "correlation"
                            THEN Put(g.correlations, o.id, o.entries) ELSE g.correlations
        /\ w.curves = IF o.kind = "curve"
                      THEN Put(g.curves, o.id, [feeds |-> CurveFeeds(o)]) ELSE g.curves
        /\ o.kind \notin {"index", "curve"} => w.indices = g.indices /\ w.waiting = g.waiting
        /\ o.kind = "index" => w = WithIndex(g, o)
        /\ o.kind = "curve" => w = WithCurve(g, o)
    <2>1. CASE o.kind = "quote"
      <3>1. w = [g EXCEPT !.quotes = Put(g.quotes, o.id, o.value)]
        BY <1>1, <2>1 DEF With
      <3> QED BY <2>1, <3>1 DEF IsGraph, Fields
    <2>2. CASE o.kind = "curve"
      <3>1. w = WithCurve(g, o)
        BY <1>1, <2>2 DEF With
      <3>2. PICK n : n = [i \in DOMAIN g.indices |->
                  IF <<o.id, i>> \in g.waiting THEN [g.indices[i] EXCEPT !.linked = TRUE]
                  ELSE g.indices[i]]
        OBVIOUS
      <3>3. w = [g EXCEPT !.curves = Put(g.curves, o.id, [feeds |-> CurveFeeds(o)]),
                          !.indices = n, !.waiting = {x \in g.waiting : x[1] # o.id}]
        BY <3>1, <3>2 DEF WithCurve
      <3>4. /\ IsGraph(w) /\ ~w.refused /\ w.ids = g.ids /\ w.quotes = g.quotes /\ w.vols = g.vols
            /\ w.correlations = g.correlations
            /\ w.curves = Put(g.curves, o.id, [feeds |-> CurveFeeds(o)])
        BY <3>3 DEF IsGraph, Fields
      <3> QED BY <2>2, <3>1, <3>4
    <2>3. CASE o.kind = "volatility"
      <3>1. w = [g EXCEPT !.vols = Put(g.vols, o.id, [feeds |-> VolatilityFeeds(o)])]
        BY <1>1, <2>3 DEF With
      <3> QED BY <2>3, <3>1 DEF IsGraph, Fields
    <2>4. CASE o.kind = "index"
      <3>1. w = WithIndex(g, o)
        BY <1>1, <2>4 DEF With
      <3>2. PICK i, x : w = [g EXCEPT !.indices = i, !.waiting = x]
        BY <3>1 DEF WithIndex
      <3>3. /\ IsGraph(w) /\ ~w.refused /\ w.ids = g.ids /\ w.quotes = g.quotes /\ w.vols = g.vols
            /\ w.correlations = g.correlations /\ w.curves = g.curves
        BY <3>2 DEF IsGraph, Fields
      <3> QED BY <2>4, <3>1, <3>3
    <2>5. CASE o.kind = "correlation"
      <3>1. w = [g EXCEPT !.correlations = Put(g.correlations, o.id, o.entries)]
        BY <1>1, <2>5 DEF With
      <3> QED BY <2>5, <3>1 DEF IsGraph, Fields
    <2>6. CASE o.kind = "fixings"
      <3>1. w = WithFixings(g, o.index, o.rows)
        BY <1>1, <2>6 DEF With
      <3>2. PICK f : w = [g EXCEPT !.fixings = f]
        BY <3>1 DEF WithFixings, FoldLeft, MapThenFoldSet, Max
      <3> QED BY <2>6, <3>2 DEF IsGraph, Fields
    <2> QED BY <1>3, <2>1, <2>2, <2>3, <2>4, <2>5, <2>6
  <1>5. /\ IsGraph(h) /\ ~h.refused /\ h.ids = Append(g.ids, o.id)
        /\ h.quotes = w.quotes /\ h.vols = w.vols
        /\ h.correlations = w.correlations /\ h.curves = w.curves
        /\ h.indices = w.indices /\ h.waiting = w.waiting
    BY <1>2, <1>4 DEF IsGraph, Fields
  <1> QED BY <1>2, <1>3, <1>4, <1>5 DEF Grown

LEMMA AddKeepsNames ==
    ASSUME NEW g, Sound(g), NEW o, ~g.refused, NEW h, h = Add(g, o), h # Refusal(g)
    PROVE  /\ Named(h)
           /\ DOMAIN h.quotes = DOMAIN g.quotes \union (IF o.kind = "quote" THEN {o.id} ELSE {})
           /\ \A q \in DOMAIN g.quotes : h.quotes[q] = g.quotes[q]
  <1>1. Named(g) /\ IsGraph(g)
    BY DEF Sound, Hangs
  <1>2. /\ h.ids = Append(g.ids, o.id) /\ o.id \notin Range(g.ids)
        /\ h.quotes = IF o.kind = "quote" THEN Put(g.quotes, o.id, o.value) ELSE g.quotes
    <2>1. Grown(g, o, h)
      BY <1>1, Shape
    <2> QED BY <2>1 DEF Grown
  <1>3. PICK s, t, x : s = g.ids /\ t = h.ids /\ x = o.id
    OBVIOUS
  <1>4. Repeated(s) /\ IsInjective(s) /\ t = Append(s, x) /\ x \notin Range(s)
    BY <1>1, <1>2, <1>3 DEF Named
  <1>5. /\ Repeated(t) /\ Range(t) = Range(s) \union {x}
        /\ Len(s) \in Nat /\ DOMAIN s = 1..Len(s) /\ DOMAIN t = 1..(Len(s) + 1)
        /\ \A i \in 1..Len(s) : t[i] = s[i]
        /\ t[Len(s) + 1] = x
    BY <1>4, Appended
  <1>6. \A i \in DOMAIN s : s[i] # x
    BY <1>4 DEF Range
  <1>7. ASSUME NEW a \in DOMAIN t, NEW b \in DOMAIN t, t[a] = t[b] PROVE a = b
    <2>1. a \in DOMAIN s \/ a = Len(s) + 1
      BY <1>5
    <2>2. b \in DOMAIN s \/ b = Len(s) + 1
      BY <1>5
    <2>3. CASE a \in DOMAIN s /\ b \in DOMAIN s
      <3>1. s[a] = s[b]
        BY <1>5, <1>7, <2>3
      <3> QED BY <1>4, <2>3, <3>1 DEF IsInjective
    <2>4. CASE a \in DOMAIN s /\ b \notin DOMAIN s
      BY <1>5, <1>6, <1>7, <2>2, <2>4
    <2>5. CASE a \notin DOMAIN s /\ b \in DOMAIN s
      BY <1>5, <1>6, <1>7, <2>1, <2>5
    <2>6. CASE a \notin DOMAIN s /\ b \notin DOMAIN s
      BY <2>1, <2>2, <2>6
    <2> QED BY <2>3, <2>4, <2>5, <2>6
  <1>8. IsInjective(t)
    BY <1>7 DEF IsInjective
  <1>9. DOMAIN g.quotes \subseteq Range(s)
    BY <1>1, <1>3 DEF Named
  <1>10. /\ DOMAIN h.quotes = DOMAIN g.quotes \union (IF o.kind = "quote" THEN {x} ELSE {})
         /\ \A q \in DOMAIN g.quotes : h.quotes[q] = g.quotes[q]
    <2>1. CASE o.kind = "quote"
      <3>1. h.quotes = Put(g.quotes, x, o.value)
        BY <1>2, <1>3, <2>1
      <3>2. x \notin DOMAIN g.quotes
        BY <1>4, <1>9
      <3>3. /\ DOMAIN h.quotes = DOMAIN g.quotes \union {x}
            /\ \A q \in DOMAIN g.quotes : q # x => h.quotes[q] = g.quotes[q]
        BY <3>1 DEF Put
      <3> QED BY <2>1, <3>2, <3>3
    <2>2. CASE o.kind # "quote"
      BY <1>2, <2>2
    <2> QED BY <2>1, <2>2
  <1>11. DOMAIN h.quotes \subseteq Range(t)
    BY <1>5, <1>9, <1>10
  <1> QED BY <1>3, <1>5, <1>8, <1>10, <1>11 DEF Named

LEMMA AddKeepsForecasts ==
    ASSUME NEW g, Sound(g), NEW o, ~g.refused, NEW h, h = Add(g, o), h # Refusal(g)
    PROVE  Forecasts(h)
  <1>1. Forecasts(g) /\ IsGraph(g)
    BY DEF Sound, Hangs
  <1>2. /\ h.curves = IF o.kind = "curve"
                      THEN Put(g.curves, o.id, [feeds |-> CurveFeeds(o)]) ELSE g.curves
        /\ o.kind \notin {"index", "curve"} => h.indices = g.indices /\ h.waiting = g.waiting
        /\ o.kind = "index" => h.indices = WithIndex(g, o).indices
                               /\ h.waiting = WithIndex(g, o).waiting
        /\ o.kind = "curve" => h.indices = WithCurve(g, o).indices
                               /\ h.waiting = WithCurve(g, o).waiting
    <2>1. Grown(g, o, h)
      BY <1>1, Shape
    <2> QED BY <2>1 DEF Grown
  <1>3. CASE o.kind \notin {"index", "curve"}
    BY <1>1, <1>2, <1>3 DEF Forecasts
  <1>4. CASE o.kind = "curve"
    <2>1. /\ h.indices = [i \in DOMAIN g.indices |->
                  IF <<o.id, i>> \in g.waiting THEN [g.indices[i] EXCEPT !.linked = TRUE]
                  ELSE g.indices[i]]
          /\ h.waiting = {w \in g.waiting : w[1] # o.id}
      BY <1>1, <1>2, <1>4 DEF WithCurve, IsGraph, Fields
    <2>2. DOMAIN h.curves = DOMAIN g.curves \union {o.id}
      <3>1. h.curves = Put(g.curves, o.id, [feeds |-> CurveFeeds(o)])
        BY <1>2, <1>4
      <3> QED BY <3>1 DEF Put
    <2>3. ASSUME NEW i \in DOMAIN h.indices
          PROVE  /\ DOMAIN h.indices[i] = {"name", "family", "forwards", "linked"}
                 /\ \/ h.indices[i].forwards = None
                    \/ h.indices[i].forwards \in DOMAIN h.curves /\ h.indices[i].linked
                    \/ <<h.indices[i].forwards, i>> \in h.waiting
      <3>1. PICK x : x = g.indices[i]
        OBVIOUS
      <3>2. /\ i \in DOMAIN g.indices
            /\ h.indices[i] = IF <<o.id, i>> \in g.waiting THEN [x EXCEPT !.linked = TRUE] ELSE x
        BY <2>1, <3>1
      <3>3. /\ DOMAIN x = {"name", "family", "forwards", "linked"}
            /\ \/ x.forwards = None
               \/ x.forwards \in DOMAIN g.curves /\ x.linked
               \/ <<x.forwards, i>> \in g.waiting
        BY <1>1, <3>1, <3>2 DEF Forecasts
      <3>4. PICK y : y = h.indices[i]
        OBVIOUS
      <3>5. /\ DOMAIN y = DOMAIN x /\ y.forwards = x.forwards /\ (x.linked => y.linked)
            /\ <<o.id, i>> \in g.waiting => y.linked
        <4>1. CASE <<o.id, i>> \in g.waiting
          <5>1. y = [x EXCEPT !.linked = TRUE]
            BY <3>2, <3>4, <4>1
          <5> QED BY <3>3, <5>1
        <4>2. CASE <<o.id, i>> \notin g.waiting
          BY <3>2, <3>4, <4>2
        <4> QED BY <4>1, <4>2
      <3>6. CASE <<x.forwards, i>> \in g.waiting
        <4>1. CASE x.forwards = o.id
          BY <2>2, <3>3, <3>4, <3>5, <3>6, <4>1
        <4>2. CASE x.forwards # o.id
          <5>1. <<x.forwards, i>>[1] # o.id
            BY <4>2
          <5>2. <<x.forwards, i>> \in h.waiting
            BY <2>1, <3>6, <5>1
          <5> QED BY <3>3, <3>4, <3>5, <5>2
        <4> QED BY <4>1, <4>2
      <3> QED BY <2>2, <3>3, <3>4, <3>5, <3>6
    <2> QED BY <2>3 DEF Forecasts
  <1>5. CASE o.kind = "index"
    <2> DEFINE there == o.forwards \in DOMAIN g.curves
    <2>1. PICK x : x = [name |-> o.name, family |-> o.family, forwards |-> o.forwards,
                        linked |-> there]
      OBVIOUS
    <2>2. /\ h.indices = Put(g.indices, o.id, x)
          /\ h.waiting = IF there \/ o.forwards = None THEN g.waiting
                         ELSE g.waiting \union {<<o.forwards, o.id>>}
      BY <1>1, <1>2, <1>5, <2>1 DEF WithIndex, IsGraph, Fields
    <2>3. /\ DOMAIN h.indices = DOMAIN g.indices \union {o.id} /\ h.indices[o.id] = x
          /\ \A i \in DOMAIN g.indices : i # o.id => h.indices[i] = g.indices[i]
      BY <2>2 DEF Put
    <2>4. h.curves = g.curves /\ g.waiting \subseteq h.waiting
      BY <1>2, <1>5, <2>2
    <2>5. /\ DOMAIN x = {"name", "family", "forwards", "linked"}
          /\ \/ x.forwards = None
             \/ x.forwards \in DOMAIN h.curves /\ x.linked
             \/ <<x.forwards, o.id>> \in h.waiting
      BY <2>1, <2>2, <2>4
    <2>6. ASSUME NEW i \in DOMAIN h.indices
          PROVE  /\ DOMAIN h.indices[i] = {"name", "family", "forwards", "linked"}
                 /\ \/ h.indices[i].forwards = None
                    \/ h.indices[i].forwards \in DOMAIN h.curves /\ h.indices[i].linked
                    \/ <<h.indices[i].forwards, i>> \in h.waiting
      <3>1. CASE i = o.id
        BY <2>3, <2>5, <3>1
      <3>2. CASE i # o.id
        BY <1>1, <2>3, <2>4, <3>2 DEF Forecasts
      <3> QED BY <3>1, <3>2
    <2> QED BY <2>6 DEF Forecasts
  <1> QED BY <1>3, <1>4, <1>5

LEMMA CurveObserves ==
    ASSUME NEW g, NEW o, CurveBuilds(g, o) PROVE CurveFeeds(o) \subseteq DOMAIN g.quotes
  <1>1. CASE o.shape = "flat"
    <2>1. Resolves(g, o.rate)
      BY <1>1 DEF CurveBuilds
    <2>2. CurveFeeds(o) = Observed({o.rate})
      BY <1>1 DEF CurveFeeds
    <2> QED BY <2>1, <2>2 DEF Resolves, Observed
  <1>2. CASE o.shape = "bootstrap"
    <2>1. \A k \in DOMAIN o.pillars : o.pillars[k].quote \in DOMAIN g.quotes
      BY <1>2 DEF CurveBuilds, PillarBuilds
    <2>2. CurveFeeds(o) = {o.pillars[k].quote : k \in DOMAIN o.pillars}
      BY <1>2 DEF CurveFeeds
    <2> QED BY <2>1, <2>2
  <1>3. CASE o.shape \notin {"flat", "bootstrap"}
    BY <1>3 DEF CurveFeeds
  <1> QED BY <1>1, <1>2, <1>3

LEMMA VolatilityObserves ==
    ASSUME NEW g, NEW o, VolatilityBuilds(g, o)
    PROVE  VolatilityFeeds(o) \subseteq DOMAIN g.quotes
  <1>1. CASE o.shape = "constant"
    <2>1. Resolves(g, o.volatility)
      BY <1>1 DEF VolatilityBuilds
    <2>2. VolatilityFeeds(o) = Observed({o.volatility})
      BY <1>1 DEF VolatilityFeeds
    <2> QED BY <2>1, <2>2 DEF Resolves, Observed
  <1>2. CASE o.shape # "constant"
    BY <1>2 DEF VolatilityFeeds
  <1> QED BY <1>1, <1>2

LEMMA AddKeepsObservers ==
    ASSUME NEW g, Sound(g), NEW o, ~g.refused, NEW h, h = Add(g, o), h # Refusal(g)
    PROVE  Observes(h)
  <1>1. Observes(g) /\ IsGraph(g)
    BY DEF Sound, Hangs
  <1>2. Grown(g, o, h)
    BY <1>1, Shape
  <1>3. DOMAIN g.quotes \subseteq DOMAIN h.quotes
    BY AddKeepsNames
  <1>4. ASSUME NEW c \in DOMAIN h.curves PROVE h.curves[c].feeds \subseteq DOMAIN g.quotes
    <2>1. CASE o.kind = "curve"
      <3>1. h.curves = Put(g.curves, o.id, [feeds |-> CurveFeeds(o)])
        BY <1>2, <2>1 DEF Grown
      <3>2. CurveBuilds(g, o)
        BY <1>2, <2>1 DEF Grown, Builds
      <3>3. CurveFeeds(o) \subseteq DOMAIN g.quotes
        BY <3>2, CurveObserves
      <3>4. CASE c = o.id
        <4>1. h.curves[c] = [feeds |-> CurveFeeds(o)]
          BY <3>1, <3>4 DEF Put
        <4> QED BY <3>3, <4>1
      <3>5. CASE c # o.id
        <4>1. c \in DOMAIN g.curves /\ h.curves[c] = g.curves[c]
          BY <1>4, <3>1, <3>5 DEF Put
        <4> QED BY <1>1, <4>1 DEF Observes
      <3> QED BY <3>4, <3>5
    <2>2. CASE o.kind # "curve"
      <3>1. h.curves = g.curves
        BY <1>2, <2>2 DEF Grown
      <3> QED BY <1>1, <1>4, <3>1 DEF Observes
    <2> QED BY <2>1, <2>2
  <1>5. ASSUME NEW v \in DOMAIN h.vols PROVE h.vols[v].feeds \subseteq DOMAIN g.quotes
    <2>1. CASE o.kind = "volatility"
      <3>1. h.vols = Put(g.vols, o.id, [feeds |-> VolatilityFeeds(o)])
        BY <1>2, <2>1 DEF Grown
      <3>2. VolatilityBuilds(g, o)
        BY <1>2, <2>1 DEF Grown, Builds
      <3>3. VolatilityFeeds(o) \subseteq DOMAIN g.quotes
        BY <3>2, VolatilityObserves
      <3>4. CASE v = o.id
        <4>1. h.vols[v] = [feeds |-> VolatilityFeeds(o)]
          BY <3>1, <3>4 DEF Put
        <4> QED BY <3>3, <4>1
      <3>5. CASE v # o.id
        <4>1. v \in DOMAIN g.vols /\ h.vols[v] = g.vols[v]
          BY <1>5, <3>1, <3>5 DEF Put
        <4> QED BY <1>1, <4>1 DEF Observes
      <3> QED BY <3>4, <3>5
    <2>2. CASE o.kind # "volatility"
      <3>1. h.vols = g.vols
        BY <1>2, <2>2 DEF Grown
      <3> QED BY <1>1, <1>5, <3>1 DEF Observes
    <2> QED BY <2>1, <2>2
  <1> QED BY <1>3, <1>4, <1>5 DEF Observes

\* What a correlation is depends on the quotes it names only.
LEMMA SameMatrix ==
    ASSUME NEW g, NEW new, NEW m, \A i, j \in DOMAIN m : Resolves(g, m[i][j]),
           \A q \in DOMAIN g.quotes : new[q] = g.quotes[q]
    PROVE  Matrix(new, m) = Matrix(g.quotes, m)
  <1>1. PICK old : old = g.quotes
    OBVIOUS
  <1>2. ASSUME NEW i \in DOMAIN m, NEW j \in DOMAIN m
        PROVE  Number(new, m[i][j]) = Number(old, m[i][j])
    <2>1. Resolves(g, m[i][j])
      BY <1>2
    <2> QED BY <1>1, <2>1 DEF Resolves, Number
  <1>3. ASSUME NEW i \in DOMAIN m
        PROVE  [j \in DOMAIN m |-> Number(new, m[i][j])] = [j \in DOMAIN m |-> Number(old, m[i][j])]
    BY <1>2
  <1> QED BY <1>1, <1>3 DEF Matrix

LEMMA AddKeepsCorrelations ==
    ASSUME NEW g, Sound(g), NEW o, ~g.refused, NEW h, h = Add(g, o), h # Refusal(g)
    PROVE  Resolving(h) /\ Correlated(h)
  <1>1. Resolving(g) /\ Correlated(g) /\ IsGraph(g)
    BY DEF Sound, Hangs
  <1>2. Grown(g, o, h)
    BY <1>1, Shape
  <1>3. /\ DOMAIN g.quotes \subseteq DOMAIN h.quotes
        /\ \A q \in DOMAIN g.quotes : h.quotes[q] = g.quotes[q]
    BY AddKeepsNames
  <1>4. ASSUME NEW m, \A i, j \in DOMAIN m : Resolves(g, m[i][j]),
               IsCorrelation(Matrix(g.quotes, m))
        PROVE  /\ \A i, j \in DOMAIN m : Resolves(h, m[i][j])
               /\ IsCorrelation(Matrix(h.quotes, m))
    <2>1. \A i, j \in DOMAIN m : Resolves(h, m[i][j])
      BY <1>3, <1>4 DEF Resolves
    <2>2. Matrix(h.quotes, m) = Matrix(g.quotes, m)
      BY <1>3, <1>4, SameMatrix
    <2> QED BY <1>4, <2>1, <2>2
  <1>5. ASSUME NEW c \in DOMAIN h.correlations
        PROVE  LET m == h.correlations[c] IN
               /\ \A i, j \in DOMAIN m : Resolves(g, m[i][j])
               /\ IsCorrelation(Matrix(g.quotes, m))
    <2>1. CASE o.kind = "correlation" /\ c = o.id
      <3>1. h.correlations = Put(g.correlations, o.id, o.entries)
        BY <1>2, <2>1 DEF Grown
      <3>2. h.correlations[c] = o.entries
        BY <2>1, <3>1 DEF Put
      <3>3. CorrelationBuilds(g, o)
        BY <1>2, <2>1 DEF Grown, Builds
      <3> QED BY <2>1, <3>2, <3>3 DEF CorrelationBuilds
    <2>2. CASE ~(o.kind = "correlation" /\ c = o.id)
      <3>1. c \in DOMAIN g.correlations /\ h.correlations[c] = g.correlations[c]
        <4>1. CASE o.kind = "correlation"
          <5>1. h.correlations = Put(g.correlations, o.id, o.entries)
            BY <1>2, <4>1 DEF Grown
          <5> QED BY <1>5, <2>2, <4>1, <5>1 DEF Put
        <4>2. CASE o.kind # "correlation"
          <5>1. h.correlations = g.correlations
            BY <1>2, <4>2 DEF Grown
          <5> QED BY <1>5, <5>1
        <4> QED BY <4>1, <4>2
      <3> QED BY <1>1, <3>1 DEF Resolving, Correlated
    <2> QED BY <2>1, <2>2
  <1>6. ASSUME NEW c \in DOMAIN h.correlations
        PROVE  /\ \A i, j \in DOMAIN h.correlations[c] : Resolves(h, h.correlations[c][i][j])
               /\ IsCorrelation(Matrix(h.quotes, h.correlations[c]))
    <2>1. PICK m : m = h.correlations[c]
      OBVIOUS
    <2>2. /\ \A i, j \in DOMAIN m : Resolves(g, m[i][j])
          /\ IsCorrelation(Matrix(g.quotes, m))
      BY <1>5, <2>1
    <2> QED BY <1>4, <2>1, <2>2
  <1> QED BY <1>6 DEF Resolving, Correlated

LEMMA AddKeeps ==
    ASSUME NEW g, Sound(g), NEW o, NEW h, h = Add(g, o)
    PROVE  /\ Sound(h)
           /\ DOMAIN h.quotes
                \subseteq DOMAIN g.quotes \union (IF o.kind = "quote" THEN {o.id} ELSE {})
           /\ g.refused => h.refused
  <1>1. IsGraph(g)
    BY DEF Sound
  <1>2. CASE h = Refusal(g)
    <2>1. IsGraph(h) /\ h.quotes = g.quotes /\ h.refused = TRUE
      BY <1>1, <1>2 DEF IsGraph, Fields, Refusal
    <2> QED BY <2>1 DEF Sound
  <1>3. CASE h # Refusal(g)
    <2>1. ~g.refused
      BY <1>3 DEF Add, Refusal
    <2>2. Grown(g, o, h)
      BY <1>1, <1>3, <2>1, Shape
    <2>3. Named(h) /\ Forecasts(h) /\ Observes(h) /\ Resolving(h) /\ Correlated(h)
      BY <1>3, <2>1, AddKeepsNames, AddKeepsForecasts, AddKeepsObservers, AddKeepsCorrelations
    <2>4. DOMAIN h.quotes = DOMAIN g.quotes \union (IF o.kind = "quote" THEN {o.id} ELSE {})
      BY <1>3, <2>1, AddKeepsNames
    <2> QED BY <2>1, <2>2, <2>3, <2>4 DEF Sound, Hangs, Grown
  <1> QED BY <1>2, <1>3

LEMMA BuildLadder ==
    ASSUME NEW n \in Nat, NEW base, NEW m, DOMAIN m = 1..n
    PROVE  \E r : /\ r[0] = base
                  /\ \A i \in 0..(n - 1) : r[i + 1] = Add(r[i], m[i + 1])
                  /\ Building!FoldOf({}, base, m) = r[n]
  BY Building!FoldLadder

LEMMA Built ==
    ASSUME NEW market, Repeated(market), NEW g, g = Build(market)
    PROVE  /\ Sound(g) /\ DOMAIN g.quotes \subseteq QuoteIds(market)
           /\ ~g.refused => g.waiting = {}
  <1>1. PICK n \in Nat : n = Len(market) /\ DOMAIN market = 1..n
    BY RepeatedFacts
  <1>2. FoldLeft(Add, NoGraph, market) = Building!FoldOf({}, NoGraph, market)
    BY DEF FoldLeft, MapThenFoldSet, Max, Building!FoldOf, Building!Max
  <1>3. PICK base : base = NoGraph
    OBVIOUS
  <1>4. PICK r : /\ r[0] = base
                 /\ \A i \in 0..(n - 1) : r[i + 1] = Add(r[i], market[i + 1])
                 /\ Building!FoldOf({}, base, market) = r[n]
    BY <1>1, BuildLadder
  <1>5. PICK h : h = r[n] /\ g = [h EXCEPT !.refused = @ \/ h.waiting # {}]
    <2>1. PICK x : x = FoldLeft(Add, NoGraph, market)
      BY DEF FoldLeft, MapThenFoldSet, Max
    <2>2. x = r[n]
      BY <1>2, <1>3, <1>4, <2>1
    <2>3. g = [x EXCEPT !.refused = @ \/ x.waiting # {}]
      BY <2>1 DEF Build, FoldLeft, MapThenFoldSet, Max
    <2> QED BY <2>2, <2>3
  <1> DEFINE T == {i \in Nat : Sound(r[i]) /\ DOMAIN r[i].quotes \subseteq QuoteIds(market)}
  <1>6. 0 \in T
    <2>1. PICK x : x = r[0]
      OBVIOUS
    <2>2. x = NoGraph
      BY <1>3, <1>4, <2>1
    <2>3. /\ IsGraph(x) /\ x.quotes = <<>> /\ x.ids = <<>> /\ x.indices = <<>> /\ x.curves = <<>>
          /\ x.vols = <<>> /\ x.correlations = <<>>
      BY <2>2 DEF NoGraph, IsGraph, Fields
    <2>4. DOMAIN x.quotes = {} /\ DOMAIN x.indices = {} /\ DOMAIN x.curves = {}
          /\ DOMAIN x.vols = {} /\ DOMAIN x.correlations = {} /\ DOMAIN x.ids = {}
      BY <2>3
    <2>5. Named(x)
      <3>1. Repeated(x.ids)
        BY <2>3 DEF Repeated
      <3>2. IsInjective(x.ids)
        BY <2>4 DEF IsInjective
      <3> QED BY <2>4, <3>1, <3>2 DEF Named
    <2>6. Forecasts(x)
      BY <2>4 DEF Forecasts
    <2>7. Observes(x)
      BY <2>4 DEF Observes
    <2>8. Resolving(x) /\ Correlated(x)
      BY <2>4 DEF Resolving, Correlated
    <2>9. Sound(x)
      BY <2>3, <2>5, <2>6, <2>7, <2>8 DEF Sound, Hangs
    <2> QED BY <2>1, <2>4, <2>9
  <1>7. ASSUME NEW i \in 0..(n - 1), i \in T PROVE i + 1 \in T
    <2>1. PICK x, y, o : x = r[i] /\ y = r[i + 1] /\ o = market[i + 1]
      OBVIOUS
    <2>2. y = Add(x, o) /\ Sound(x) /\ DOMAIN x.quotes \subseteq QuoteIds(market)
      BY <1>4, <1>7, <2>1
    <2>3. /\ Sound(y)
          /\ DOMAIN y.quotes
               \subseteq DOMAIN x.quotes \union (IF o.kind = "quote" THEN {o.id} ELSE {})
      BY <2>2, AddKeeps
    <2>4. i + 1 \in DOMAIN market
      BY <1>1
    <2>5. o.kind = "quote" => o.id \in QuoteIds(market)
      BY <2>1, <2>4 DEF QuoteIds
    <2>6. DOMAIN y.quotes \subseteq QuoteIds(market)
      BY <2>2, <2>3, <2>5
    <2> QED BY <2>1, <2>3, <2>6
  <1>8. n \in T
    <2> HIDE DEF T
    <2> QED BY <1>6, <1>7, Building!UpTo
  <1>9. Sound(h) /\ DOMAIN h.quotes \subseteq QuoteIds(market)
    BY <1>5, <1>8
  <1>10. /\ IsGraph(g) /\ (~g.refused => ~h.refused /\ h.waiting = {})
         /\ g.quotes = h.quotes /\ g.curves = h.curves /\ g.vols = h.vols
         /\ g.indices = h.indices /\ g.correlations = h.correlations /\ g.ids = h.ids
         /\ g.waiting = h.waiting
    BY <1>5, <1>9 DEF Sound, IsGraph, Fields
  <1>11. ASSUME ~g.refused PROVE Hangs(g) /\ Correlated(g)
    <2>1. Hangs(h) /\ Correlated(h)
      BY <1>9, <1>10, <1>11 DEF Sound
    <2> QED BY <1>10, <2>1
         DEF Hangs, Named, Forecasts, Observes, Resolving, Correlated, Resolves
  <1> QED BY <1>9, <1>10, <1>11 DEF Sound
-----------------------------------------------------------------------------
(* The log *)

\* What the log keeps of the market the client sent: its quotes, under their ids.
Logs(market, ids) ==
    /\ Repeated(market)
    /\ \A k \in DOMAIN market : {"id", "kind"} \subseteq DOMAIN market[k]
    /\ QuoteIds(market) \subseteq ids

\* The same objects with other values.
LEMMA SameLog ==
    ASSUME NEW ids, NEW m, Logs(m, ids), NEW n, DOMAIN n = DOMAIN m, n = [k \in DOMAIN n |-> n[k]],
           \A k \in DOMAIN m : /\ {"id", "kind"} \subseteq DOMAIN n[k]
                               /\ n[k].id = m[k].id /\ n[k].kind = m[k].kind
    PROVE  Logs(n, ids)
  <1>1. Len(m) \in Nat /\ DOMAIN m = 1..Len(m)
    BY RepeatedFacts DEF Logs
  <1>2. Repeated(n)
    <2>1. PICK l \in Nat : DOMAIN n = 1..l
      BY <1>1
    <2>2. n \in [1..l -> Range(n)]
      <3>1. \A k \in 1..l : n[k] \in Range(n)
        BY <2>1 DEF Range
      <3> QED BY <2>1, <3>1
    <2> QED BY <2>1, <2>2 DEF Repeated
  <1>3. QuoteIds(n) \subseteq QuoteIds(m)
    BY DEF QuoteIds
  <1> QED BY <1>2, <1>3 DEF Logs

LEMMA SeriesLogged ==
    ASSUME NEW ids, NEW m, Logs(m, ids), NEW s, NEW n, n = RecordSeries(m, s) PROVE Logs(n, ids)
  <1> DEFINE of == {k \in DOMAIN m : m[k].kind = "fixings" /\ m[k].index = s.index}
  <1>1. CASE of = {}
    <2>1. PICK x : /\ n = Append(m, x) /\ x.id = x.id /\ x.kind = "fixings"
                   /\ {"id", "kind"} \subseteq DOMAIN x
      <3>1. PICK rows : rows = FoldLeft(Folded, <<>>, s.rows)
        BY DEF FoldLeft, MapThenFoldSet, Max
      <3>2. n = Append(m, [id |-> FreshName(m, s.index), kind |-> "fixings", index |-> s.index,
                           rows |-> rows])
        BY <1>1, <3>1 DEF RecordSeries, FoldLeft, MapThenFoldSet, Max
      <3> QED BY <3>2
    <2>2. Repeated(m)
      BY DEF Logs
    <2>3. /\ Repeated(n) /\ Len(m) \in Nat
          /\ DOMAIN m = 1..Len(m) /\ DOMAIN n = 1..(Len(m) + 1)
          /\ \A i \in 1..Len(m) : n[i] = m[i]
          /\ n[Len(m) + 1] = x
      BY <2>1, <2>2, Appended
    <2>4. ASSUME NEW k \in DOMAIN n
          PROVE  /\ {"id", "kind"} \subseteq DOMAIN n[k]
                 /\ n[k].kind = "quote" => k \in DOMAIN m /\ m[k] = n[k]
      <3>1. CASE k \in DOMAIN m
        BY <2>3, <3>1 DEF Logs
      <3>2. CASE k \notin DOMAIN m
        <4>1. k = Len(m) + 1
          BY <2>3, <3>2
        <4> QED BY <2>1, <2>3, <4>1
      <3> QED BY <3>1, <3>2
    <2>5. QuoteIds(n) \subseteq QuoteIds(m)
      BY <2>4 DEF QuoteIds
    <2> QED BY <2>3, <2>4, <2>5 DEF Logs
  <1>2. CASE of # {}
    <2>1. PICK j, rows : n = [m EXCEPT ![j].rows = rows]
      BY <1>2 DEF RecordSeries, FoldLeft, MapThenFoldSet, Max
    <2>2. ASSUME NEW k \in DOMAIN m
          PROVE  /\ {"id", "kind"} \subseteq DOMAIN n[k]
                 /\ n[k].id = m[k].id /\ n[k].kind = m[k].kind
      <3>1. {"id", "kind"} \subseteq DOMAIN m[k]
        BY DEF Logs
      <3>2. n[k] = m[k] \/ n[k] = [m[k] EXCEPT !.rows = rows]
        BY <2>1
      <3> QED BY <3>1, <3>2
    <2>3. DOMAIN n = DOMAIN m /\ n = [k \in DOMAIN n |-> n[k]]
      BY <2>1
    <2> QED BY <2>2, <2>3, SameLog
  <1> QED BY <1>1, <1>2

LEMMA SeriesLadder ==
    ASSUME NEW n \in Nat, NEW base, NEW m, DOMAIN m = 1..n
    PROVE  \E r : /\ r[0] = base
                  /\ \A i \in 0..(n - 1) : r[i + 1] = RecordSeries(r[i], m[i + 1])
                  /\ Recording!FoldOf({}, base, m) = r[n]
  BY Recording!FoldLadder

LEMMA RecordLogged ==
    ASSUME NEW ids, NEW m, Logs(m, ids), NEW u, Repeated(u.fixings) PROVE Logs(Record(m, u), ids)
  <1>0. PICK base : base = Renewed(m, u.quotes)
    OBVIOUS
  <1>1. Logs(base, ids)
    <2>1. ASSUME NEW k \in DOMAIN m
          PROVE  /\ {"id", "kind"} \subseteq DOMAIN base[k]
                 /\ base[k].id = m[k].id /\ base[k].kind = m[k].kind
      <3>1. {"id", "kind"} \subseteq DOMAIN m[k]
        BY DEF Logs
      <3>2. base[k] = m[k] \/ \E v : base[k] = [m[k] EXCEPT !.value = v]
        BY <1>0 DEF Renewed
      <3> QED BY <3>1, <3>2
    <2>2. DOMAIN base = DOMAIN m /\ base = [k \in DOMAIN base |-> base[k]]
      BY <1>0 DEF Renewed
    <2> QED BY <2>1, <2>2, SameLog
  <1>2. Record(m, u) = Recording!FoldOf({}, Renewed(m, u.quotes), u.fixings)
    BY DEF Record, FoldLeft, MapThenFoldSet, Max, Recording!FoldOf, Recording!Max
  <1>3. PICK n \in Nat : n = Len(u.fixings) /\ DOMAIN u.fixings = 1..n
    BY RepeatedFacts
  <1>4. PICK series : series = u.fixings
    OBVIOUS
  <1>5. PICK r : /\ r[0] = base
                 /\ \A i \in 0..(n - 1) : r[i + 1] = RecordSeries(r[i], series[i + 1])
                 /\ Recording!FoldOf({}, base, series) = r[n]
    <2>1. DOMAIN series = 1..n
      BY <1>3, <1>4
    <2> QED BY <2>1, SeriesLadder
  <1> DEFINE T == {i \in Nat : Logs(r[i], ids)}
  <1>6. 0 \in T
    BY <1>1, <1>5
  <1>7. ASSUME NEW i \in 0..(n - 1), i \in T PROVE i + 1 \in T
    BY <1>5, <1>7, SeriesLogged
  <1>8. n \in T
    <2> HIDE DEF T
    <2> QED BY <1>6, <1>7, Recording!UpTo
  <1> QED BY <1>0, <1>2, <1>4, <1>5, <1>8
-----------------------------------------------------------------------------
(* Writes and caches *)

\* The graph with other values for its quotes, and other fixings.
Kin(g, h) ==
    /\ IsGraph(h) /\ (h.refused => g.refused) /\ DOMAIN h.quotes = DOMAIN g.quotes
    /\ h.curves = g.curves /\ h.vols = g.vols /\ h.indices = g.indices
    /\ h.correlations = g.correlations /\ h.ids = g.ids /\ h.waiting = g.waiting

LEMMA KinHangs == ASSUME NEW g, Hangs(g), NEW h, Kin(g, h) PROVE Hangs(h)
  BY DEF Kin, Hangs, Named, Forecasts, Observes, Resolving, Resolves

LEMMA Rewritten ==
    ASSUME NEW g, IsGraph(g), NEW quotes, DOMAIN quotes = DOMAIN g.quotes,
           NEW h, h = [g EXCEPT !.quotes = quotes]
    PROVE  Kin(g, h) /\ h.quotes = quotes
  BY DEF Kin, IsGraph, Fields

LEMMA WrittenFacts ==
    ASSUME IsGraph(graph), NEW u, NEW h, h = Written(u) PROVE Kin(graph, h)
  <1>1. PICK f : h = [graph EXCEPT !.quotes = Writing(graph.quotes, u.quotes), !.fixings = f]
    BY DEF Written, FoldLeft, MapThenFoldSet, Max
  <1>2. DOMAIN Writing(graph.quotes, u.quotes) = DOMAIN graph.quotes
    BY DEF Writing
  <1> QED BY <1>1, <1>2 DEF Kin, IsGraph, Fields

\* Every curve is calculated at most once, and from the quotes as they are.
Caches(g, cs) ==
    DOMAIN cs = DOMAIN g.curves /\ \A c \in DOMAIN g.curves : cs[c] = {} \/ \E x \in cs[c] : cs[c] = {x}
Fresh(g, cs) == \A c \in DOMAIN g.curves : cs[c] \subseteq {Calculated(g, c)}

LEMMA InvalidateCaches ==
    ASSUME NEW g, NEW cs, Caches(g, cs), NEW h, Kin(g, h), NEW new, new = h.quotes,
           NEW ds, ds = Invalidate(g, cs, new)
    PROVE  Caches(h, ds) /\ (Fresh(g, cs) => Fresh(h, ds))
  <1>1. DOMAIN cs = DOMAIN g.curves /\ h.curves = g.curves
    BY DEF Caches, Kin
  <1>2. DOMAIN ds = DOMAIN g.curves
    BY <1>1 DEF Invalidate
  <1>3. ASSUME NEW c \in DOMAIN g.curves
        PROVE  ds[c] = {} \/ (ds[c] = cs[c] /\ \A q \in g.curves[c].feeds : g.quotes[q] = h.quotes[q])
    BY <1>1 DEF Invalidate
  <1>4. Caches(h, ds)
    BY <1>1, <1>2, <1>3 DEF Caches
  <1>5. ASSUME Fresh(g, cs), NEW c \in DOMAIN h.curves PROVE ds[c] \subseteq {Calculated(h, c)}
    <2>1. CASE ds[c] = {}
      BY <2>1
    <2>2. CASE ds[c] # {}
      <3>1. ds[c] = cs[c] /\ \A q \in g.curves[c].feeds : g.quotes[q] = h.quotes[q]
        BY <1>1, <1>3, <1>5, <2>2
      <3>2. Calculated(h, c) = Calculated(g, c)
        BY <1>1, <3>1 DEF Calculated
      <3> QED BY <1>1, <1>5, <3>1, <3>2 DEF Fresh
    <2> QED BY <2>1, <2>2
  <1> QED BY <1>4, <1>5 DEF Fresh

LEMMA ReadCaches ==
    ASSUME NEW g, NEW cs, Caches(g, cs), NEW curves, NEW ds, ds = Read(g, cs, curves)
    PROVE  Caches(g, ds) /\ (Fresh(g, cs) => Fresh(g, ds))
  <1>1. DOMAIN cs = DOMAIN g.curves
    BY DEF Caches
  <1>2. DOMAIN ds = DOMAIN g.curves
    BY <1>1 DEF Read
  <1>3. ASSUME NEW c \in DOMAIN g.curves PROVE ds[c] = cs[c] \/ ds[c] = {Calculated(g, c)}
    BY <1>1 DEF Read
  <1>4. Caches(g, ds)
    BY <1>2, <1>3 DEF Caches
  <1>5. Fresh(g, cs) => Fresh(g, ds)
    BY <1>3 DEF Fresh
  <1> QED BY <1>4, <1>5

LEMMA NothingCalculated ==
    ASSUME NEW g, NEW cs, cs = Uncalculated(g) PROVE Caches(g, cs) /\ Fresh(g, cs)
  BY DEF Uncalculated, Caches, Fresh
-----------------------------------------------------------------------------
(* The points of a sweep *)

LEMMA OverPlaces ==
    ASSUME NEW n \in Nat, NEW f, DOMAIN f = 1..n, f = [i \in 1..n |-> f[i]]
    PROVE  Repeated(f) /\ Len(f) = n
  <1>1. f \in [1..n -> Range(f)]
    <2>1. \A i \in 1..n : f[i] \in Range(f)
      BY DEF Range
    <2> QED BY <2>1
  <1> QED BY <1>1 DEF Repeated

\* The sizes of the axes from one to another.
LEMMA Between ==
    ASSUME NEW n \in Nat, NEW sizes, \A a \in 1..n : sizes[a] \in Nat \ {0},
           NEW from \in 1..(n + 1), NEW to \in (from - 1)..n
    PROVE  /\ DOMAIN SubSeq(sizes, from, to) = 1..(to - from + 1)
           /\ \A i \in 1..(to - from + 1) : SubSeq(sizes, from, to)[i] = sizes[from + i - 1]
  <1>1. from \in Int /\ to \in Int /\ \A i \in from..to : sizes[i] \in Nat
    OBVIOUS
  <1>2. PICK m : m = SubSeq(sizes, from, to)
    OBVIOUS
  <1>3. /\ m \in Seq(Nat) /\ Len(m) = IF from <= to THEN to - from + 1 ELSE 0
        /\ \A i \in 1..(to - from + 1) : m[i] = sizes[from + i - 1]
    BY <1>1, <1>2, SubSeqProperties
  <1>4. Len(m) = to - from + 1
    BY <1>3
  <1> QED BY <1>2, <1>3, <1>4, LenProperties

LEMMA ProductIs ==
    ASSUME NEW sizes, NEW from, NEW to
    PROVE  Product(sizes, from, to) = Counting!FoldOf({}, 1, SubSeq(sizes, from, to))
  BY DEF Product, FoldLeft, MapThenFoldSet, Max, Counting!FoldOf, Counting!Max

LEMMA CountNothing == ASSUME NEW m, DOMAIN m = {} PROVE Counting!FoldOf({}, 1, m) = 1
  BY Counting!FoldNothing

LEMMA CountGrows ==
    ASSUME NEW n \in Nat, NEW m, DOMAIN m = 1..(n + 1),
           NEW h, DOMAIN h = 1..n, \A i \in 1..n : h[i] = m[i]
    PROVE  Counting!FoldOf({}, 1, m) = Counting!FoldOf({}, 1, h) * m[n + 1]
  BY Counting!FoldGrows

LEMMA ProductNone ==
    ASSUME NEW n \in Nat, NEW sizes, \A a \in 1..n : sizes[a] \in Nat \ {0},
           NEW from \in 1..(n + 1)
    PROVE  Product(sizes, from, from - 1) = 1
  <1>1. PICK to : to = from - 1
    OBVIOUS
  <1>2. to \in (from - 1)..n /\ 1..(to - from + 1) = {}
    BY <1>1
  <1>3. PICK m : m = SubSeq(sizes, from, to)
    OBVIOUS
  <1>4. DOMAIN m = {}
    BY <1>2, <1>3, Between
  <1> QED BY <1>1, <1>3, <1>4, ProductIs, CountNothing

LEMMA ProductNext ==
    ASSUME NEW n \in Nat, NEW sizes, \A a \in 1..n : sizes[a] \in Nat \ {0},
           NEW from \in 1..(n + 1), NEW to \in (from - 1)..(n - 1)
    PROVE  Product(sizes, from, to + 1) = Product(sizes, from, to) * sizes[to + 1]
  <1>1. PICK next : next = to + 1
    OBVIOUS
  <1>2. next \in (from - 1)..n /\ to \in (from - 1)..n
    BY <1>1
  <1>3. PICK m, h : m = SubSeq(sizes, from, next) /\ h = SubSeq(sizes, from, to)
    OBVIOUS
  <1>4. PICK k \in Nat : k = to - from + 1
    OBVIOUS
  <1>5. /\ DOMAIN m = 1..(next - from + 1)
        /\ \A i \in 1..(next - from + 1) : m[i] = sizes[from + i - 1]
    BY <1>2, <1>3, Between
  <1>6. DOMAIN h = 1..(to - from + 1) /\ \A i \in 1..(to - from + 1) : h[i] = sizes[from + i - 1]
    BY <1>2, <1>3, Between
  <1>7. next - from + 1 = k + 1 /\ from + (k + 1) - 1 = next /\ k + 1 \in 1..(k + 1)
    BY <1>1, <1>4
  <1>8. DOMAIN m = 1..(k + 1) /\ DOMAIN h = 1..k /\ m[k + 1] = sizes[next]
    BY <1>4, <1>5, <1>6, <1>7
  <1>9. \A i \in 1..k : h[i] = m[i]
    BY <1>4, <1>5, <1>6, <1>7
  <1>10. Counting!FoldOf({}, 1, m) = Counting!FoldOf({}, 1, h) * m[k + 1]
    BY <1>8, <1>9, CountGrows
  <1>11. /\ Product(sizes, from, next) = Counting!FoldOf({}, 1, m)
         /\ Product(sizes, from, to) = Counting!FoldOf({}, 1, h)
    BY <1>3, ProductIs
  <1> QED BY <1>1, <1>8, <1>10, <1>11

LEMMA ProductSome ==
    ASSUME NEW n \in Nat, NEW sizes, \A a \in 1..n : sizes[a] \in Nat \ {0},
           NEW from \in 1..(n + 1), NEW to \in (from - 1)..n
    PROVE  Product(sizes, from, to) \in Nat \ {0}
  <1> DEFINE T == {k \in Nat : from - 1 + k <= n => Product(sizes, from, from - 1 + k) \in Nat \ {0}}
  <1>1. 0 \in T
    <2>1. from - 1 + 0 = from - 1 /\ 1 \in Nat \ {0}
      OBVIOUS
    <2>2. Product(sizes, from, from - 1 + 0) = 1
      BY <2>1, ProductNone
    <2> QED BY <2>1, <2>2
  <1>2. PICK k \in Nat : k = to - from + 1
    OBVIOUS
  <1>3. ASSUME NEW i \in 0..(k - 1), i \in T PROVE i + 1 \in T
    <2>1. PICK t : t = from - 1 + i
      OBVIOUS
    <2>2. t \in (from - 1)..(n - 1) /\ t + 1 = from - 1 + (i + 1) /\ t + 1 \in 1..n
      BY <1>2, <2>1
    <2>3. Product(sizes, from, t) \in Nat \ {0}
      BY <1>3, <2>1, <2>2
    <2> HIDE DEF T
    <2>4. Product(sizes, from, t + 1) = Product(sizes, from, t) * sizes[t + 1]
      BY <2>2, ProductNext
    <2>5. PICK x, y : x = Product(sizes, from, t) /\ y = sizes[t + 1]
      OBVIOUS
    <2>6. x \in Nat \ {0} /\ y \in Nat \ {0}
      BY <2>2, <2>3, <2>5
    <2>7. x * y \in Nat \ {0}
      BY <2>6
    <2>8. Product(sizes, from, from - 1 + (i + 1)) \in Nat \ {0}
      BY <2>2, <2>4, <2>5, <2>7
    <2> QED BY <2>8 DEF T
  <1>4. k \in T
    <2> HIDE DEF T
    <2> QED BY <1>1, <1>3, Counting!UpTo
  <1>5. from - 1 + k = to
    BY <1>2
  <1> QED BY <1>4, <1>5
-----------------------------------------------------------------------------
(* Rows of one length, and what is in which place *)

\* What is q blocks of w, and k into the next.
LEMMA Divides ==
    ASSUME NEW q \in Nat, NEW w \in Nat \ {0}, NEW k \in Nat, k < w
    PROVE  (q * w + k) \div w = q /\ (q * w + k) % w = k
  <1>1. PICK i : i = q * w + k
    OBVIOUS
  <1>2. i \in Nat
    BY <1>1
  <1>3. PICK d, t : d = i \div w /\ t = i % w
    OBVIOUS
  <1>4. d \in Nat /\ t \in Nat /\ t < w
    BY <1>2, <1>3
  <1>5. i = d * w + t
    BY <1>2, <1>3
  <1>6. d = q
    <2>1. ASSUME d < q PROVE FALSE
      <3>1. (d + 1) * w <= q * w /\ (d + 1) * w = d * w + w /\ d * w \in Nat /\ q * w \in Nat
        BY <1>4, <2>1
      <3> QED BY <1>1, <1>4, <1>5, <3>1
    <2>2. ASSUME q < d PROVE FALSE
      <3>1. (q + 1) * w <= d * w /\ (q + 1) * w = q * w + w /\ d * w \in Nat /\ q * w \in Nat
        BY <1>4, <2>2
      <3> QED BY <1>1, <1>4, <1>5, <3>1
    <2> QED BY <1>4, <2>1, <2>2
  <1>7. t = k
    <2>1. q * w \in Nat
      OBVIOUS
    <2> QED BY <1>1, <1>4, <1>5, <1>6, <2>1
  <1> QED BY <1>1, <1>3, <1>6, <1>7

\* Counting by blocks, and the blocks by blocks of their own.
LEMMA DividesTwice ==
    ASSUME NEW i \in Nat, NEW w \in Nat \ {0}, NEW b \in Nat \ {0}
    PROVE  (i \div w) \div b = i \div (b * w)
  <1>1. PICK r, k : r = i \div w /\ k = i % w
    OBVIOUS
  <1>2. r \in Nat /\ k \in Nat /\ k < w /\ i = r * w + k
    BY <1>1
  <1>3. PICK q, t : q = r \div b /\ t = r % b
    OBVIOUS
  <1>4. q \in Nat /\ t \in Nat /\ t < b /\ r = q * b + t
    BY <1>2, <1>3
  <1>5. PICK v, u : v = b * w /\ u = t * w + k
    OBVIOUS
  <1>6. v \in Nat \ {0} /\ u \in Nat
    BY <1>2, <1>4, <1>5
  <1>7. u < v
    <2>1. t * w <= (b - 1) * w
      BY <1>4
    <2> QED BY <1>2, <1>4, <1>5, <2>1
  <1>8. i = q * v + u
    BY <1>2, <1>4, <1>5
  <1>9. (q * v + u) \div v = q
    BY <1>4, <1>6, <1>7, Divides
  <1> QED BY <1>1, <1>3, <1>5, <1>8, <1>9

\* A place among i rows of w is in one of the rows.
\* The k-th of the r-th block.
Placed(i, w, j) ==
    \E r \in 0..(i - 1), k \in 1..w :
        j = r * w + k /\ r = (j - 1) \div w /\ k = ((j - 1) % w) + 1
InBlock(i, w, r, k) ==
    /\ r * w + k \in 1..(i * w)
    /\ (r * w + k - 1) \div w = r /\ (r * w + k - 1) % w = k - 1

LEMMA Place ==
    ASSUME NEW i \in Nat, NEW w \in Nat \ {0}, NEW j \in 1..(i * w)
    PROVE  Placed(i, w, j)
  <1>1. PICK d, t : d = (j - 1) \div w /\ t = (j - 1) % w
    OBVIOUS
  <1>2. j - 1 \in Nat /\ i * w \in Nat
    OBVIOUS
  <1>3. d \in Nat /\ t \in Nat /\ t < w
    BY <1>1, <1>2
  <1>4. j - 1 = d * w + t
    BY <1>1, <1>2
  <1>5. d < i
    <2>1. ASSUME i <= d PROVE FALSE
      <3>1. i * w <= d * w /\ d * w \in Nat
        BY <1>3, <2>1
      <3> QED BY <1>2, <1>3, <1>4, <3>1
    <2> QED BY <1>3, <2>1
  <1>6. d \in 0..(i - 1) /\ t + 1 \in 1..w
    BY <1>3, <1>5
  <1>7. j = d * w + (t + 1)
    <2>1. d * w \in Nat
      BY <1>3
    <2> QED BY <1>2, <1>3, <1>4, <2>1
  <1> QED BY <1>1, <1>6, <1>7 DEF Placed

LEMMA BlockPlace ==
    ASSUME NEW i \in Nat, NEW w \in Nat \ {0}, NEW r \in 0..(i - 1), NEW k \in 1..w
    PROVE  InBlock(i, w, r, k)
  <1>1. (r + 1) * w <= i * w /\ (r + 1) * w = r * w + w /\ r * w \in Nat /\ i * w \in Nat
    OBVIOUS
  <1>2. r * w + k \in 1..(i * w)
    BY <1>1
  <1>3. k - 1 \in Nat /\ k - 1 < w /\ r \in Nat
    OBVIOUS
  <1>4. (r * w + (k - 1)) \div w = r /\ (r * w + (k - 1)) % w = k - 1
    BY <1>3, Divides
  <1>5. r * w + (k - 1) = r * w + k - 1
    BY <1>1
  <1> QED BY <1>2, <1>4, <1>5 DEF InBlock

\* The first i rows of w, one after the other.
Laid(rows, w, i) ==
    [j \in 1..(i * w) |-> rows[(j - 1) \div w + 1][((j - 1) % w) + 1]]

Table(X, n, w) == [1..n -> [1..w -> X]]

\* f is i rows of w, one after the other.
InRows(X, f, rows, w, i) ==
    /\ f \in Seq(X) /\ Len(f) = i * w
    /\ \A r \in 0..(i - 1), k \in 1..w : f[r * w + k] = rows[r + 1][k]

LEMMA LaidFacts ==
    ASSUME NEW X, NEW n \in Nat, NEW w \in Nat \ {0}, NEW rows \in Table(X, n, w), NEW i \in 0..n
    PROVE  InRows(X, Laid(rows, w, i), rows, w, i)
  <1>1. i * w \in Nat /\ i \in Nat
    OBVIOUS
  <1>2. PICK f : f = Laid(rows, w, i)
    OBVIOUS
  <1>3. ASSUME NEW j \in 1..(i * w) PROVE f[j] \in X
    <2>0. Placed(i, w, j)
      BY <1>1, Place
    <2>1. PICK r \in 0..(i - 1), k \in 1..w :
             j = r * w + k /\ r = (j - 1) \div w /\ k = ((j - 1) % w) + 1
      BY <2>0 DEF Placed
    <2>2. f[j] = rows[(j - 1) \div w + 1][((j - 1) % w) + 1]
      BY <1>2 DEF Laid
    <2>3. f[j] = rows[r + 1][k]
      BY <2>1, <2>2
    <2>4. r + 1 \in 1..n
      OBVIOUS
    <2> QED BY <2>3, <2>4 DEF Table
  <1>4. f \in [1..(i * w) -> X]
    <2>1. DOMAIN f = 1..(i * w) /\ f = [j \in 1..(i * w) |-> f[j]]
      BY <1>2 DEF Laid
    <2> QED BY <1>3, <2>1
  <1>5. f \in Seq(X) /\ Len(f) = i * w
    BY <1>1, <1>4
  <1>6. ASSUME NEW r \in 0..(i - 1), NEW k \in 1..w PROVE f[r * w + k] = rows[r + 1][k]
    <2>0. InBlock(i, w, r, k)
      BY <1>1, BlockPlace
    <2>1. /\ r * w + k \in 1..(i * w)
          /\ (r * w + k - 1) \div w = r /\ (r * w + k - 1) % w = k - 1
      BY <2>0 DEF InBlock
    <2>2. PICK j : j = r * w + k
      OBVIOUS
    <2>3. f[j] = rows[(j - 1) \div w + 1][((j - 1) % w) + 1]
      BY <1>2, <2>1, <2>2 DEF Laid
    <2>4. k - 1 + 1 = k
      OBVIOUS
    <2> QED BY <2>1, <2>2, <2>3, <2>4
  <1> QED BY <1>2, <1>5, <1>6 DEF InRows

FollowedBy(rows, w, i) == Laid(rows, w, i + 1) = Laid(rows, w, i) \o rows[i + 1]

LEMMA LaidNext ==
    ASSUME NEW X, NEW n \in Nat, NEW w \in Nat \ {0}, NEW rows \in Table(X, n, w),
           NEW i \in 0..(n - 1)
    PROVE  FollowedBy(rows, w, i)
  <1>1. PICK p, q, s : p = Laid(rows, w, i) /\ q = Laid(rows, w, i + 1) /\ s = rows[i + 1]
    OBVIOUS
  <1>2. i \in 0..n /\ i + 1 \in 0..n /\ i + 1 \in 1..n
    OBVIOUS
  <1>m. PICK m \in Nat : m = i + 1
    OBVIOUS
  <1>3. /\ p \in Seq(X) /\ Len(p) = i * w
        /\ \A r \in 0..(i - 1), k \in 1..w : p[r * w + k] = rows[r + 1][k]
    <2>1. InRows(X, p, rows, w, i)
      BY <1>1, <1>2, LaidFacts
    <2> QED BY <2>1 DEF InRows
  <1>4. /\ q \in Seq(X) /\ Len(q) = m * w
        /\ \A r \in 0..(m - 1), k \in 1..w : q[r * w + k] = rows[r + 1][k]
    <2>1. m \in 0..n
      BY <1>2, <1>m
    <2>2. InRows(X, q, rows, w, m)
      BY <1>1, <1>m, <2>1, LaidFacts
    <2> QED BY <2>2 DEF InRows
  <1>5. s \in Seq(X) /\ Len(s) = w
    <2>1. s \in [1..w -> X]
      BY <1>1, <1>2 DEF Table
    <2> QED BY <2>1
  <1>6. /\ p \o s \in Seq(X) /\ Len(p \o s) = Len(p) + Len(s)
        /\ \A j \in 1..(Len(p) + Len(s)) :
             (p \o s)[j] = IF j <= Len(p) THEN p[j] ELSE s[j - Len(p)]
    BY <1>3, <1>5, ConcatProperties
  <1>7. PICK done \in Nat : done = i * w
    OBVIOUS
  <1>8. Len(p) = done /\ Len(q) = done + w /\ m * w = done + w
    BY <1>3, <1>4, <1>m, <1>7
  <1>e. ASSUME NEW j \in 1..Len(q) PROVE q[j] = (p \o s)[j]
    <2>1. j \in 1..(m * w)
      BY <1>4
    <2>0. Placed(m, w, j)
      BY <2>1, Place
    <2>2. PICK r \in 0..(m - 1), k \in 1..w :
             j = r * w + k /\ r = (j - 1) \div w /\ k = ((j - 1) % w) + 1
      BY <2>0 DEF Placed
    <2>3. q[j] = rows[r + 1][k]
      BY <1>4, <2>2
    <2>4. CASE r = i
      <3>1. j = done + k
        BY <1>7, <2>2, <2>4
      <3>2. j \in 1..(Len(p) + Len(s)) /\ ~(j <= Len(p)) /\ j - Len(p) = k
        BY <1>5, <1>8, <3>1
      <3>3. (p \o s)[j] = s[k]
        BY <1>6, <3>2
      <3> QED BY <1>1, <2>3, <2>4, <3>3
    <2>5. CASE r # i
      <3>1. r \in 0..(i - 1) /\ i \in Nat
        BY <1>m, <2>5
      <3>b. InBlock(i, w, r, k)
        BY <3>1, BlockPlace
      <3>2. r * w + k \in 1..(i * w)
        BY <3>b DEF InBlock
      <3>3. j <= Len(p) /\ j \in 1..(Len(p) + Len(s))
        <4>1. j \in 1..done
          BY <1>7, <2>2, <3>2
        <4> QED BY <1>5, <1>8, <4>1
      <3>4. (p \o s)[j] = p[j]
        BY <1>6, <3>3
      <3>5. p[j] = rows[r + 1][k]
        BY <1>3, <2>2, <3>1
      <3> QED BY <2>3, <3>4, <3>5
    <2> QED BY <2>4, <2>5
  <1>9. Len(q) = Len(p \o s)
    BY <1>5, <1>6, <1>8
  <1>10. q = p \o s
    BY <1>4, <1>6, <1>e, <1>9, SeqEqual
  <1> QED BY <1>1, <1>10 DEF FollowedBy

\* f is the rows flattened so far, row by row.
Flattens(f, rows, n) ==
    f = [i \in 1..n |-> IF i = 1 THEN rows[i] ELSE f[i - 1] \o rows[i]]

LEMMA OneFlattens ==
    ASSUME NEW n \in Nat, NEW rows, NEW f, Flattens(f, rows, n), NEW g, Flattens(g, rows, n)
    PROVE  f = g
  <1>1. ASSUME NEW h, Flattens(h, rows, n), NEW i \in 1..n
        PROVE  h[i] = IF i = 1 THEN rows[i] ELSE h[i - 1] \o rows[i]
    <2> DEFINE V(k) == IF k = 1 THEN rows[k] ELSE h[k - 1] \o rows[k]
    <2>1. h = [k \in 1..n |-> V(k)]
      BY <1>1 DEF Flattens
    <2> HIDE DEF V
    <2>2. h[i] = V(i)
      BY <2>1
    <2> QED BY <2>2 DEF V
  <1> DEFINE T == {k \in Nat : \A i \in 1..n : i <= k => f[i] = g[i]}
  <1>2. 0 \in T
    OBVIOUS
  <1>3. ASSUME NEW k \in 0..(n - 1), k \in T PROVE k + 1 \in T
    <2>1. ASSUME NEW i \in 1..n, i <= k + 1 PROVE f[i] = g[i]
      <3>1. CASE i = 1
        BY <1>1, <3>1
      <3>2. CASE i # 1
        <4>1. i - 1 \in 1..n /\ i - 1 <= k
          BY <2>1, <3>2
        <4>2. f[i - 1] = g[i - 1]
          BY <1>3, <4>1
        <4> HIDE DEF T
        <4> QED BY <1>1, <3>2, <4>2
      <3> QED BY <3>1, <3>2
    <2> QED BY <2>1
  <1>4. n \in T
    <2> HIDE DEF T
    <2> QED BY <1>2, <1>3, Counting!UpTo
  <1>5. \A i \in 1..n : f[i] = g[i]
    BY <1>4
  <1> DEFINE F(k) == IF k = 1 THEN rows[k] ELSE f[k - 1] \o rows[k]
             G(k) == IF k = 1 THEN rows[k] ELSE g[k - 1] \o rows[k]
  <1>6. f = [k \in 1..n |-> F(k)] /\ g = [k \in 1..n |-> G(k)]
    BY DEF Flattens
  <1> HIDE DEF F, G
  <1> QED BY <1>5, <1>6

\* Table of one length, end to end.
LEMMA Flattened ==
    ASSUME NEW X, NEW n \in Nat \ {0}, NEW w \in Nat \ {0}, NEW rows \in Table(X, n, w)
    PROVE  FlattenSeq(rows) = Laid(rows, w, n)
  <1>1. Len(rows) = n
    BY DEF Table
  <1> DEFINE f == [i \in 1..n |-> Laid(rows, w, i)]
  <1>2. ASSUME NEW i \in 1..n
        PROVE  Laid(rows, w, i) = IF i = 1 THEN rows[i] ELSE Laid(rows, w, i - 1) \o rows[i]
    <2>1. PICK h : h = i - 1
      OBVIOUS
    <2>h. h \in 0..(n - 1) /\ h \in 0..n /\ h + 1 = i /\ n \in Nat
      BY <2>1
    <2>2. Laid(rows, w, i) = Laid(rows, w, i - 1) \o rows[i]
      <3>0. h \in 0..(n - 1) /\ n \in Nat
        BY <2>h
      <3>1. FollowedBy(rows, w, h)
        BY <3>0, LaidNext
      <3>2. Laid(rows, w, h + 1) = Laid(rows, w, h) \o rows[h + 1]
        BY <3>1 DEF FollowedBy
      <3> QED BY <2>1, <2>h, <3>2
    <2>3. CASE i = 1
      <3>0. InRows(X, Laid(rows, w, h), rows, w, h)
        BY <2>h, LaidFacts
      <3>1. Laid(rows, w, h) \in Seq(X) /\ Len(Laid(rows, w, h)) = h * w
        BY <3>0 DEF InRows
      <3>2. h * w = 0
        BY <2>1, <2>3
      <3>3. Laid(rows, w, i - 1) = <<>>
        BY <2>1, <3>1, <3>2, EmptySeq
      <3>4. rows[i] \in Seq(X)
        <4>1. rows[i] \in [1..w -> X]
          BY DEF Table
        <4> QED BY <4>1
      <3>5. <<>> \o rows[i] = rows[i]
        BY <3>4, ConcatEmptySeq
      <3> QED BY <2>2, <2>3, <3>3, <3>5
    <2> QED BY <2>2, <2>3
  <1>3. Flattens(f, rows, n)
    <2> DEFINE V(i) == IF i = 1 THEN rows[i] ELSE f[i - 1] \o rows[i]
    <2>1. ASSUME NEW i \in 1..n PROVE f[i] = V(i)
      <3>1. CASE i = 1
        BY <1>2, <3>1
      <3>2. CASE i # 1
        <4>1. i - 1 \in 1..n
          BY <3>2
        <4>2. f[i - 1] = Laid(rows, w, i - 1) /\ f[i] = Laid(rows, w, i)
          BY <4>1
        <4>3. Laid(rows, w, i) = Laid(rows, w, i - 1) \o rows[i]
          BY <1>2, <3>2
        <4> QED BY <3>2, <4>2, <4>3
      <3> QED BY <3>1, <3>2
    <2>2. f = [i \in 1..n |-> f[i]]
      OBVIOUS
    <2>3. f = [i \in 1..n |-> V(i)]
      <3> HIDE DEF V, f
      <3> QED BY <2>1, <2>2
    <2> QED BY <2>3 DEF Flattens
  <1>4. \A g : Flattens(g, rows, n) => g = f
    <2> HIDE DEF f
    <2> QED BY <1>3, OneFlattens
  <1>5. (CHOOSE g : Flattens(g, rows, n)) = f
    <2> HIDE DEF f
    <2> QED BY <1>3, <1>4
  <1>6. FlattenSeq(rows) = (CHOOSE g : Flattens(g, rows, n))[n]
    BY <1>1 DEF FlattenSeq, Flattens
  <1>7. f[n] = Laid(rows, w, n)
    OBVIOUS
  <1> HIDE DEF f
  <1> QED BY <1>5, <1>6, <1>7
-----------------------------------------------------------------------------
(* A grid and its points *)

\* The i-th point of the first m axes, in nested order.
Point(points, sizes, m, i) ==
    [a \in 1..m |-> points[a][((i \div Product(sizes, a + 1, m)) % sizes[a]) + 1]]
Gridded(X, rows, points, sizes, m) ==
    /\ rows \in [1..Product(sizes, 1, m) -> [1..m -> X]]
    /\ \A i \in 0..(Product(sizes, 1, m) - 1) : rows[i + 1] = Point(points, sizes, m, i)

\* In place of a row of m, a row of m + 1 for each point of an axis.
Wider(X, wide, rows, axis, n, m) ==
    /\ wide \in Table([1..(m + 1) -> X], n, Len(axis))
    /\ \A r \in 1..n, k \in 1..Len(axis) :
         /\ \A a \in 1..m : wide[r][k][a] = rows[r][a]
         /\ wide[r][k][m + 1] = axis[k]

LEMMA SpreadRows ==
    ASSUME NEW X, NEW m \in Nat, NEW n \in Nat, NEW rows \in [1..n -> [1..m -> X]],
           NEW axis \in Seq(X)
    PROVE  Wider(X, Spread(rows, axis), rows, axis, n, m)
  <1>1. DOMAIN rows = 1..n /\ DOMAIN axis = 1..Len(axis)
    OBVIOUS
  <1>2. ASSUME NEW r \in 1..n, NEW k \in 1..Len(axis)
        PROVE  /\ Append(rows[r], axis[k]) \in [1..(m + 1) -> X]
               /\ \A a \in 1..m : Append(rows[r], axis[k])[a] = rows[r][a]
               /\ Append(rows[r], axis[k])[m + 1] = axis[k]
    <2>1. PICK s, x : s = rows[r] /\ x = axis[k]
      OBVIOUS
    <2>2. s \in [1..m -> X] /\ x \in X
      BY <2>1
    <2>3. s \in Seq(X) /\ Len(s) = m
      BY <2>2
    <2>4. /\ Append(s, x) \in Seq(X) /\ Len(Append(s, x)) = m + 1
          /\ \A a \in 1..m : Append(s, x)[a] = s[a]
          /\ Append(s, x)[m + 1] = x
      BY <2>2, <2>3, AppendProperties
    <2>5. Append(s, x) \in [1..(m + 1) -> X]
      <3>1. PICK q : q = Append(s, x)
        OBVIOUS
      <3>2. q \in Seq(X) /\ Len(q) = m + 1
        BY <2>4, <3>1
      <3>3. q \in [1..(m + 1) -> X]
        BY <3>2
      <3> QED BY <3>1, <3>3
    <2> QED BY <2>1, <2>4, <2>5
  <1>3. ASSUME NEW r \in 1..n
        PROVE  [k \in DOMAIN axis |-> Append(rows[r], axis[k])] \in [1..Len(axis) -> [1..(m + 1) -> X]]
    BY <1>1, <1>2
  <1>4. Spread(rows, axis) \in Table([1..(m + 1) -> X], n, Len(axis))
    BY <1>1, <1>3 DEF Table, Spread
  <1>5. ASSUME NEW r \in 1..n, NEW k \in 1..Len(axis)
        PROVE  Spread(rows, axis)[r][k] = Append(rows[r], axis[k])
    <2>1. r \in DOMAIN rows /\ k \in DOMAIN axis
      BY <1>1
    <2>2. Spread(rows, axis)[r] = [j \in DOMAIN axis |-> Append(rows[r], axis[j])]
      BY <2>1 DEF Spread
    <2> QED BY <2>1, <2>2
  <1>6. PICK wide : wide = Spread(rows, axis)
    OBVIOUS
  <1>7. ASSUME NEW r \in 1..n, NEW k \in 1..Len(axis)
        PROVE  (\A a \in 1..m : wide[r][k][a] = rows[r][a]) /\ wide[r][k][m + 1] = axis[k]
    <2>1. wide[r][k] = Append(rows[r], axis[k])
      BY <1>5, <1>6
    <2>2. \A a \in 1..m : wide[r][k][a] = rows[r][a]
      BY <1>2, <2>1
    <2>3. wide[r][k][m + 1] = axis[k]
      BY <1>2, <2>1
    <2> QED BY <2>2, <2>3
  <1> QED BY <1>4, <1>6, <1>7 DEF Wider

Sized(X, points, sizes, n) ==
    /\ DOMAIN points = 1..n
    /\ \A a \in 1..n : points[a] \in Seq(X) /\ sizes[a] = Len(points[a]) /\ sizes[a] \in Nat \ {0}

LEMMA GridNext ==
    ASSUME NEW X, NEW n \in Nat, NEW points, NEW sizes, Sized(X, points, sizes, n),
           NEW m \in 0..(n - 1), NEW rows, Gridded(X, rows, points, sizes, m)
    PROVE  Gridded(X, FlattenSeq(Spread(rows, points[m + 1])), points, sizes, m + 1)
  <1>1. PICK axis, w, size : axis = points[m + 1] /\ w = Len(axis) /\ size = Product(sizes, 1, m)
    OBVIOUS
  <1>2. PICK h : h = m + 1
    OBVIOUS
  <1>3. h \in 1..n /\ m \in Nat /\ h \in Nat
    BY <1>2
  <1>4. \A a \in 1..n : sizes[a] \in Nat \ {0}
    BY DEF Sized
  <1>5. axis \in Seq(X) /\ w \in Nat \ {0} /\ sizes[h] = w
    BY <1>1, <1>2, <1>3 DEF Sized
  <1>6. size \in Nat \ {0}
    <2>1. 1 \in 1..(n + 1) /\ m \in (1 - 1)..n
      OBVIOUS
    <2> QED BY <1>1, <1>4, <2>1, ProductSome
  <1>7. Product(sizes, 1, h) = size * w
    <2>1. 1 \in 1..(n + 1) /\ m \in (1 - 1)..(n - 1)
      OBVIOUS
    <2>2. Product(sizes, 1, m + 1) = Product(sizes, 1, m) * sizes[m + 1]
      BY <1>4, <2>1, ProductNext
    <2> QED BY <1>1, <1>2, <1>5, <2>2
  <1>8. PICK spread, next : spread = Spread(rows, axis) /\ next = FlattenSeq(spread)
    OBVIOUS
  <1>9. rows \in [1..size -> [1..m -> X]]
    BY <1>1 DEF Gridded
  <1>10. /\ spread \in Table([1..h -> X], size, w)
         /\ \A r \in 1..size, k \in 1..w :
              /\ \A a \in 1..m : spread[r][k][a] = rows[r][a]
              /\ spread[r][k][h] = axis[k]
    <2>1. size \in Nat
      BY <1>6
    <2>2. Wider(X, spread, rows, axis, size, m)
      BY <1>3, <1>5, <1>8, <1>9, <1>1, <2>1, SpreadRows
    <2> QED BY <1>1, <1>2, <2>2 DEF Wider
  <1>11. PICK Y : Y = [1..h -> X]
    OBVIOUS
  <1>12. spread \in Table(Y, size, w)
    BY <1>10, <1>11
  <1>13. InRows(Y, next, spread, w, size)
    <2>1. next = Laid(spread, w, size)
      BY <1>5, <1>6, <1>8, <1>12, Flattened
    <2>2. size \in 0..size /\ size \in Nat
      BY <1>6
    <2> QED BY <1>5, <1>12, <2>1, <2>2, LaidFacts
  <1>14. PICK total \in Nat : total = size * w
    BY <1>5, <1>6
  <1>15. /\ next \in Seq(Y) /\ Len(next) = total
         /\ \A r \in 0..(size - 1), k \in 1..w : next[r * w + k] = spread[r + 1][k]
    BY <1>13, <1>14 DEF InRows
  <1>16. next \in [1..total -> Y]
    BY <1>15
  <1>17. ASSUME NEW i \in 0..(total - 1) PROVE next[i + 1] = Point(points, sizes, h, i)
    <2>1. PICK j : j = i + 1
      OBVIOUS
    <2>2. j \in 1..(size * w) /\ j - 1 = i /\ size \in Nat /\ i \in Nat
      BY <1>6, <1>14, <2>1
    <2>p. Placed(size, w, j)
      BY <1>5, <2>2, Place
    <2>3. PICK r \in 0..(size - 1), k \in 1..w :
             j = r * w + k /\ r = (j - 1) \div w /\ k = ((j - 1) % w) + 1
      BY <2>p DEF Placed
    <2>4. next[j] = spread[r + 1][k]
      BY <1>15, <2>3
    <2>5. r + 1 \in 1..size
      BY <1>6
    <2>6. next[j] \in [1..h -> X]
      BY <1>11, <1>14, <1>16, <2>2
    <2>7. ASSUME NEW a \in 1..m
          PROVE  next[j][a] = points[a][((i \div Product(sizes, a + 1, h)) % sizes[a]) + 1]
      <3>1. next[j][a] = rows[r + 1][a]
        BY <1>10, <2>4, <2>5
      <3>2. rows[r + 1] = Point(points, sizes, m, r)
        BY <1>1 DEF Gridded
      <3>3. PICK b, c : b = Product(sizes, a + 1, m) /\ c = Product(sizes, a + 1, h)
        OBVIOUS
      <3>4. a + 1 \in 1..(n + 1) /\ m \in (a + 1 - 1)..(n - 1) /\ m \in (a + 1 - 1)..n
        OBVIOUS
      <3>5. b \in Nat \ {0}
        BY <1>4, <3>3, <3>4, ProductSome
      <3>6. c = b * w
        <4>1. Product(sizes, a + 1, m + 1) = Product(sizes, a + 1, m) * sizes[m + 1]
          BY <1>4, <3>4, ProductNext
        <4> QED BY <1>2, <1>5, <3>3, <4>1
      <3>7. (i \div w) \div b = i \div (b * w)
        BY <1>5, <2>2, <3>5, DividesTwice
      <3>8. r \div b = i \div c
        BY <2>2, <2>3, <3>6, <3>7
      <3>9. rows[r + 1][a] = points[a][((r \div b) % sizes[a]) + 1]
        BY <3>2, <3>3 DEF Point
      <3> QED BY <3>1, <3>3, <3>8, <3>9
    <2>8. next[j][h] = points[h][((i \div Product(sizes, h + 1, h)) % sizes[h]) + 1]
      <3>1. next[j][h] = axis[k]
        BY <1>10, <2>4, <2>5
      <3>2. Product(sizes, h + 1, h) = 1
        <4>1. PICK g : g = h + 1
          OBVIOUS
        <4>2. g \in 1..(n + 1) /\ g - 1 = h
          BY <1>3, <4>1
        <4>3. Product(sizes, g, g - 1) = 1
          BY <1>4, <4>2, ProductNone
        <4> QED BY <4>1, <4>2, <4>3
      <3>3. i \div 1 = i
        BY <2>2
      <3>4. k = (i % w) + 1
        BY <2>2, <2>3
      <3> QED BY <1>1, <1>2, <1>5, <3>1, <3>2, <3>3, <3>4
    <2>9. ASSUME NEW a \in 1..h
          PROVE  next[j][a] = points[a][((i \div Product(sizes, a + 1, h)) % sizes[a]) + 1]
      <3>1. a \in 1..m \/ a = h
        BY <1>2
      <3> QED BY <3>1, <2>7, <2>8
    <2>10. PICK p : p = next[j]
      OBVIOUS
    <2>11. p = [a \in 1..h |-> points[a][((i \div Product(sizes, a + 1, h)) % sizes[a]) + 1]]
      <3>1. p = [a \in 1..h |-> p[a]]
        BY <2>6, <2>10
      <3> QED BY <2>9, <2>10, <3>1
    <2> QED BY <2>1, <2>10, <2>11 DEF Point
  <1>18. Gridded(X, next, points, sizes, h)
    <2>1. Product(sizes, 1, h) = total
      BY <1>7, <1>14
    <2> QED BY <1>11, <1>16, <1>17, <2>1 DEF Gridded
  <1> QED BY <1>1, <1>2, <1>8, <1>18

LEMMA GridLadder ==
    ASSUME NEW n \in Nat, NEW m, DOMAIN m = 1..n, NEW base
    PROVE  \E r : /\ r[0] = base
                  /\ \A i \in 0..(n - 1) : r[i + 1] = FlattenSeq(Spread(r[i], m[i + 1]))
                  /\ Gridding!FoldOf({}, base, m) = r[n]
  <1>1. \E r : /\ r[0] = base
               /\ \A i \in 0..(n - 1) : r[i + 1] = Widened(r[i], m[i + 1])
               /\ Gridding!FoldOf({}, base, m) = r[n]
    BY Gridding!FoldLadder
  <1> QED BY <1>1 DEF Widened

LEMMA NoAxes ==
    ASSUME NEW X, NEW n \in Nat, NEW points, NEW sizes, Sized(X, points, sizes, n)
    PROVE  Gridded(X, <<<<>>>>, points, sizes, 0)
  <1>1. Product(sizes, 1, 0) = 1
    <2>1. 1 \in 1..(n + 1) /\ 1 - 1 = 0 /\ \A a \in 1..n : sizes[a] \in Nat \ {0}
      BY DEF Sized
    <2>2. Product(sizes, 1, 1 - 1) = 1
      BY <2>1, ProductNone
    <2> QED BY <2>1, <2>2
  <1>2. PICK none : none = <<>>
    OBVIOUS
  <1>3. none \in [1..0 -> X]
    BY <1>2
  <1>4. <<none>> \in [1..1 -> [1..0 -> X]] /\ <<none>>[1] = none
    <2>1. PICK Y, one : Y = [1..0 -> X] /\ one = <<none>>
      OBVIOUS
    <2>2. one \in Seq(Y) /\ Len(one) = 1 /\ one[1] = none
      BY <1>3, <2>1
    <2>3. one \in [1..1 -> Y]
      BY <2>2
    <2> QED BY <2>1, <2>2, <2>3
  <1>5. none = Point(points, sizes, 0, 0)
    <2>1. PICK p : p = Point(points, sizes, 0, 0)
      OBVIOUS
    <2>2. DOMAIN p = {} /\ p = [a \in {} |-> p[a]]
      BY <2>1 DEF Point
    <2>3. none = [a \in {} |-> p[a]]
      BY <1>2
    <2> QED BY <2>1, <2>2, <2>3
  <1>6. \A i \in 0..(1 - 1) : i = 0
    OBVIOUS
  <1>7. \A i \in 0..(1 - 1) : <<none>>[i + 1] = Point(points, sizes, 0, i)
    BY <1>4, <1>5, <1>6
  <1> QED BY <1>1, <1>2, <1>4, <1>7 DEF Gridded

\* A grid is its points in nested order, each as the counting of the sweep has it.
LEMMA GridIs ==
    ASSUME NEW X, NEW n \in Nat, NEW points, NEW sizes, Sized(X, points, sizes, n)
    PROVE  Gridded(X, Grid(points), points, sizes, n)
  <1>1. DOMAIN points = 1..n
    BY DEF Sized
  <1>2. PICK r : /\ r[0] = <<<<>>>>
                 /\ \A i \in 0..(n - 1) : r[i + 1] = FlattenSeq(Spread(r[i], points[i + 1]))
                 /\ Gridding!FoldOf({}, <<<<>>>>, points) = r[n]
    <2>1. PICK base : base = <<<<>>>>
      OBVIOUS
    <2>2. \E r : /\ r[0] = base
                 /\ \A i \in 0..(n - 1) : r[i + 1] = FlattenSeq(Spread(r[i], points[i + 1]))
                 /\ Gridding!FoldOf({}, base, points) = r[n]
      BY <1>1, GridLadder
    <2> QED BY <2>1, <2>2
  <1>3. Grid(points) = Gridding!FoldOf({}, <<<<>>>>, points)
    BY DEF Grid, FoldLeft, MapThenFoldSet, Max, Gridding!FoldOf, Gridding!Max, Spread, Widened
  <1> DEFINE T == {m \in Nat : Gridded(X, r[m], points, sizes, m)}
  <1>4. 0 \in T
    BY <1>2, NoAxes
  <1>5. ASSUME NEW m \in 0..(n - 1), m \in T PROVE m + 1 \in T
    <2>1. PICK rows : rows = r[m]
      OBVIOUS
    <2>2. Gridded(X, rows, points, sizes, m)
      BY <1>5, <2>1
    <2>3. Gridded(X, FlattenSeq(Spread(rows, points[m + 1])), points, sizes, m + 1)
      BY <2>2, GridNext
    <2>4. r[m + 1] = FlattenSeq(Spread(rows, points[m + 1])) /\ m + 1 \in Nat
      BY <1>2, <2>1
    <2> QED BY <2>3, <2>4
  <1>6. n \in T
    <2> HIDE DEF T
    <2> QED BY <1>4, <1>5, Counting!UpTo
  <1> QED BY <1>2, <1>3, <1>6
-----------------------------------------------------------------------------
(* The invariant *)

\* The loop's side: what is queued, posted or parked is of requests that were sent.
LoopInv ==
    /\ script \in Scripts /\ phase \in {"opening", "open", "over"}
    /\ Repeated(queue) /\ Repeated(posts)
    /\ \A k \in DOMAIN queue : queue[k].id \in sent
    /\ sent \subseteq DOMAIN script.requests
    /\ DOMAIN parked \subseteq sent /\ \A i \in DOMAIN parked : Repeated(parked[i].fixings)
    /\ kills \in 0..MaxKills
    /\ phase # "open" => sent = {} /\ posts = <<>>

\* The log is a market with the quotes of the one the client sent.
LogInv == Logs(log, QuoteIds(script.market))

GraphInv ==
    /\ IsGraph(graph)
    /\ phase # "open" => graph.refused
    /\ ~graph.refused => Hangs(graph) /\ graph.waiting = {} /\ (sent = {} => Correlated(graph))
    /\ Quotes \subseteq QuoteIds(script.market) /\ loose \subseteq QuoteIds(script.market)

CacheInv ==
    /\ dirty \in BOOLEAN /\ (dirty => ~graph.refused)
    /\ Caches(graph, caches) /\ (~dirty => Fresh(graph, caches))

\* A sweep moves the quotes of its axes, and no others.
Sweeping(sw, request, quotes) ==
    /\ DOMAIN sw = {"running", "before", "done", "points", "at", "prices"} /\ sw.running = TRUE
    /\ request.kind = "sweep" /\ DOMAIN sw.points = DOMAIN request.axes
    /\ sw.done < Product([a \in DOMAIN sw.points |-> Len(sw.points[a])], 1, Len(sw.points))
    /\ \A a \in DOMAIN request.axes : request.axes[a].quote \in DOMAIN quotes
    /\ \A q \in DOMAIN quotes \ {request.axes[a].quote : a \in DOMAIN request.axes} :
         quotes[q] = sw.before[q]

SweepInv ==
    /\ \A k \in DOMAIN posts : posts[k].code = "died" => graph.refused
    /\ \/ sweep = NoSweep
       \/ queue # <<>> /\ ~graph.refused /\ Sweeping(sweep, Asked, graph.quotes)

Inv == LoopInv /\ LogInv /\ GraphInv /\ CacheInv /\ SweepInv
-----------------------------------------------------------------------------
(* What most steps keep *)

LEMMA AskedFacts ==
    ASSUME LoopInv, queue # <<>>
    PROVE  /\ phase = "open" /\ sent # {} /\ Sendable(Asked)
           /\ Repeated(Tail(queue)) /\ \A k \in DOMAIN Tail(queue) : Tail(queue)[k].id \in sent
  <1>1. /\ Repeated(Tail(queue)) /\ 1 \in DOMAIN queue /\ Head(queue) = queue[1]
        /\ \A k \in DOMAIN Tail(queue) : Tail(queue)[k] = queue[k + 1] /\ k + 1 \in DOMAIN queue
    <2>1. Repeated(queue)
      BY DEF LoopInv
    <2> QED BY <2>1, Tailed
  <1>2. Head(queue).id \in sent
    BY <1>1 DEF LoopInv
  <1>3. script \in Scripts /\ Head(queue).id \in DOMAIN script.requests
    BY <1>2 DEF LoopInv
  <1>4. Sendable(Asked)
    BY <1>3, ScriptsAssumption DEF Asked, Request
  <1> QED BY <1>1, <1>2, <1>4 DEF LoopInv

LEMMA LoopKept ==
    ASSUME LoopInv, UNCHANGED loop, phase = "open", Repeated(posts'),
           queue' = queue \/ (queue # <<>> /\ queue' = Tail(queue))
    PROVE  LoopInv'
  <1>1. Repeated(queue') /\ \A k \in DOMAIN queue' : queue'[k].id \in sent
    BY AskedFacts DEF LoopInv
  <1> QED BY <1>1 DEF LoopInv, loop

LEMMA LogKept == ASSUME LogInv, UNCHANGED <<script, log>> PROVE LogInv'
  BY DEF LogInv

LEMMA GraphKept ==
    ASSUME GraphInv, ~graph.refused, phase = "open", sent # {}, UNCHANGED <<script, phase, sent>>,
           Kin(graph, graph'), loose' \subseteq loose \union Quotes
    PROVE  GraphInv'
  <1>1. IsGraph(graph') /\ DOMAIN graph'.quotes = DOMAIN graph.quotes /\ graph'.waiting = graph.waiting
    BY DEF Kin
  <1>2. Hangs(graph) /\ graph.waiting = {}
    BY DEF GraphInv
  <1>3. Hangs(graph')
    BY <1>2, KinHangs
  <1> QED BY <1>1, <1>2, <1>3 DEF GraphInv, Quotes

LEMMA GraphGone ==
    ASSUME GraphInv, graph' = Gone, UNCHANGED <<script, phase, loose>>
    PROVE  GraphInv' /\ graph'.refused = TRUE
  <1>1. IsGraph(graph') /\ graph'.refused = TRUE /\ graph'.quotes = <<>>
    BY DEF Gone, NoGraph, IsGraph, Fields
  <1> QED BY <1>1 DEF GraphInv, Quotes

LEMMA CachesGone ==
    ASSUME graph' = Gone, caches' = <<>>, dirty' = FALSE
    PROVE  CacheInv'
  <1>1. graph'.curves = <<>>
    BY DEF Gone, NoGraph
  <1>2. DOMAIN graph'.curves = {} /\ DOMAIN caches' = {}
    BY <1>1
  <1> QED BY <1>2 DEF CacheInv, Caches, Fresh

LEMMA PostsKept ==
    ASSUME Repeated(posts), SweepInv, NEW x, posts' = Append(posts, x), x.code # "died",
           graph.refused => graph'.refused
    PROVE  Repeated(posts') /\ \A k \in DOMAIN posts' : posts'[k].code = "died" => graph'.refused
  <1>1. /\ Repeated(posts') /\ Len(posts) \in Nat
        /\ DOMAIN posts = 1..Len(posts) /\ DOMAIN posts' = 1..(Len(posts) + 1)
        /\ \A i \in 1..Len(posts) : posts'[i] = posts[i]
        /\ posts'[Len(posts) + 1] = x
    BY Appended
  <1>2. ASSUME NEW k \in DOMAIN posts', posts'[k].code = "died" PROVE graph'.refused
    <2>1. k # Len(posts) + 1
      BY <1>1, <1>2
    <2>2. k \in DOMAIN posts /\ posts'[k] = posts[k]
      BY <1>1, <2>1
    <2> QED BY <1>2, <2>2 DEF SweepInv
  <1> QED BY <1>1, <1>2
-----------------------------------------------------------------------------
(* Each step keeps the invariant *)

LEMMA InitInv == ASSUME Init PROVE Inv
  <1>1. PICK s : s = <<>>
    OBVIOUS
  <1>2. Repeated(s) /\ DOMAIN s = {}
    BY <1>1 DEF Repeated
  <1>3. /\ script \in Scripts /\ Repeated(script.market)
        /\ \A k \in DOMAIN script.market : {"id", "kind"} \subseteq DOMAIN script.market[k]
        /\ MaxKills \in Nat
    BY ScriptsAssumption DEF Init
  <1>4. LoopInv
    BY <1>1, <1>2, <1>3 DEF Init, LoopInv
  <1>5. LogInv
    BY <1>3 DEF Init, LogInv, Logs
  <1>6. /\ IsGraph(graph) /\ graph.refused = TRUE /\ graph.quotes = <<>> /\ graph.curves = <<>>
    BY DEF Init, Gone, NoGraph, IsGraph, Fields
  <1>7. GraphInv
    BY <1>1, <1>2, <1>6 DEF Init, GraphInv, Quotes
  <1>8. CacheInv
    BY <1>1, <1>2, <1>6 DEF Init, CacheInv, Caches, Fresh
  <1>9. SweepInv
    BY <1>1, <1>2 DEF Init, SweepInv
  <1> QED BY <1>4, <1>5, <1>7, <1>8, <1>9 DEF Inv

LEMMA OpenSessionInv == ASSUME Inv, OpenSession PROVE Inv'
  <1>1. LoopInv /\ LogInv /\ GraphInv /\ CacheInv /\ SweepInv
    BY DEF Inv
  <1>2. /\ phase = "opening" /\ graph' = Build(script.market)
        /\ phase' = (IF graph'.refused THEN "over" ELSE "open") /\ caches' = Uncalculated(graph')
        /\ UNCHANGED <<script, dirty, queue, sweep, posts, log, parked, sent, kills, loose>>
    BY DEF OpenSession
  <1>3. Repeated(script.market)
    BY <1>1, ScriptsAssumption DEF LoopInv
  <1>4. /\ Sound(graph') /\ DOMAIN graph'.quotes \subseteq QuoteIds(script.market)
        /\ ~graph'.refused => graph'.waiting = {}
    BY <1>2, <1>3, Built
  <1>5. sent = {} /\ posts = <<>> /\ graph.refused /\ ~dirty
    BY <1>1, <1>2 DEF LoopInv, GraphInv, CacheInv
  <1>6. LoopInv'
    BY <1>1, <1>2, <1>5 DEF LoopInv
  <1>7. LogInv'
    BY <1>1, <1>2, LogKept
  <1>8. GraphInv'
    BY <1>1, <1>2, <1>4 DEF GraphInv, Sound, Quotes
  <1>9. CacheInv'
    <2>1. Caches(graph', caches') /\ Fresh(graph', caches')
      BY <1>2, NothingCalculated
    <2> QED BY <1>1, <1>2, <1>5, <2>1 DEF CacheInv
  <1>10. SweepInv'
    <2>1. sweep = NoSweep
      BY <1>1, <1>5 DEF SweepInv
    <2>2. DOMAIN posts' = {}
      BY <1>2, <1>5
    <2> QED BY <1>2, <2>1, <2>2 DEF SweepInv, NoSweep
  <1> QED BY <1>6, <1>7, <1>8, <1>9, <1>10 DEF Inv

LEMMA SendInv == ASSUME Inv, NEW i, Send(i) PROVE Inv'
  <1>1. LoopInv /\ LogInv /\ GraphInv /\ CacheInv /\ SweepInv
    BY DEF Inv
  <1>2. /\ phase = "open" /\ i \in DOMAIN script.requests /\ i \notin sent
        /\ sent' = sent \union {i}
        /\ parked' = IF Parked(Request(i)) = {} THEN parked
                     ELSE Put(parked, i, CHOOSE u \in Parked(Request(i)) : TRUE)
        /\ \E late : queue' = Append(queue, [id |-> i, late |-> late])
        /\ UNCHANGED <<script, phase, graph, caches, dirty, sweep, posts, log, kills, loose>>
    BY DEF Send
  <1>3. PICK x : queue' = Append(queue, x) /\ x.id = i
    BY <1>2
  <1>4. /\ Repeated(queue') /\ Len(queue) \in Nat
        /\ DOMAIN queue = 1..Len(queue) /\ DOMAIN queue' = 1..(Len(queue) + 1)
        /\ \A k \in 1..Len(queue) : queue'[k] = queue[k]
        /\ queue'[Len(queue) + 1] = x
    <2>1. Repeated(queue)
      BY <1>1 DEF LoopInv
    <2> QED BY <1>3, <2>1, Appended
  <1>5. ASSUME NEW k \in DOMAIN queue' PROVE queue'[k].id \in sent'
    <2>1. CASE k = Len(queue) + 1
      BY <1>2, <1>3, <1>4, <2>1
    <2>2. CASE k # Len(queue) + 1
      <3>1. k \in DOMAIN queue /\ queue'[k] = queue[k]
        BY <1>4, <1>5, <2>2
      <3> QED BY <1>1, <1>2, <3>1 DEF LoopInv
    <2> QED BY <2>1, <2>2
  <1>6. \A u \in Parked(Request(i)) : Repeated(u.fixings)
    <2>1. PICK r : r = Request(i)
      OBVIOUS
    <2>2. Sendable(r)
      BY <1>1, <1>2, <2>1, ScriptsAssumption DEF LoopInv, Request
    <2>3. CASE r.kind = "update"
      <3>1. Parked(r) = {[quotes |-> r.quotes, fixings |-> r.fixings]}
        BY <2>3 DEF Parked
      <3>2. Repeated(r.fixings)
        BY <2>2, <2>3 DEF Sendable
      <3> QED BY <2>1, <3>1, <3>2
    <2>4. CASE r.kind = "sweep"
      <3>1. PICK w : w = KeptWrites(r)
        OBVIOUS
      <3>2. Parked(r) \subseteq {[quotes |-> w, fixings |-> <<>>]}
        BY <2>4, <3>1 DEF Parked
      <3>3. Repeated(<<>>)
        BY DEF Repeated
      <3> QED BY <3>2, <3>3, <2>1
    <2>5. CASE r.kind \notin {"update", "sweep"}
      <3>1. Parked(r) = {}
        BY <2>5 DEF Parked
      <3> QED BY <2>1, <3>1
    <2> QED BY <2>1, <2>3, <2>4, <2>5
  <1>7. DOMAIN parked' \subseteq sent' /\ \A j \in DOMAIN parked' : Repeated(parked'[j].fixings)
    <2>1. CASE Parked(Request(i)) = {}
      BY <1>1, <1>2, <2>1 DEF LoopInv
    <2>2. CASE Parked(Request(i)) # {}
      <3>1. PICK u : u = (CHOOSE v \in Parked(Request(i)) : TRUE)
        OBVIOUS
      <3>2. u \in Parked(Request(i))
        BY <2>2, <3>1
      <3>3. parked' = Put(parked, i, u) /\ Repeated(u.fixings)
        BY <1>2, <1>6, <2>2, <3>1, <3>2
      <3> QED BY <1>1, <1>2, <3>3 DEF LoopInv, Put
    <2> QED BY <2>1, <2>2
  <1>8. LoopInv'
    BY <1>1, <1>2, <1>4, <1>5, <1>7 DEF LoopInv
  <1>9. LogInv'
    BY <1>1, <1>2, LogKept
  <1>10. GraphInv' /\ CacheInv'
    BY <1>1, <1>2 DEF GraphInv, CacheInv, Quotes
  <1>11. SweepInv'
    <2>1. queue # <<>> => queue' # <<>> /\ Head(queue') = Head(queue)
      <3>1. Repeated(queue)
        BY <1>1 DEF LoopInv
      <3> QED BY <1>3, <3>1, Headed
    <2>2. queue # <<>> => Asked' = Asked
      BY <1>2, <2>1 DEF Asked, Request
    <2>3. NoSweep' = NoSweep
      BY DEF NoSweep
    <2>4. CASE sweep = NoSweep
      BY <1>1, <1>2, <2>3, <2>4 DEF SweepInv
    <2>5. CASE sweep # NoSweep
      <3>1. queue # <<>> /\ ~graph.refused /\ Sweeping(sweep, Asked, graph.quotes)
        BY <1>1, <2>5 DEF SweepInv
      <3>2. queue' # <<>> /\ ~graph'.refused /\ Sweeping(sweep', Asked', graph'.quotes)
        BY <1>2, <2>1, <2>2, <3>1
      <3> QED BY <1>1, <1>2, <3>2 DEF SweepInv
    <2> QED BY <2>4, <2>5
  <1> QED BY <1>8, <1>9, <1>10, <1>11 DEF Inv

LEMMA RebuildInv ==
    ASSUME Inv, Rebuild, phase = "open", kills' \in 0..MaxKills PROVE Inv'
  <1>1. LoopInv /\ LogInv /\ GraphInv /\ CacheInv /\ SweepInv
    BY DEF Inv
  <1>2. /\ graph' = (IF Build(log).refused THEN Gone ELSE Build(log))
        /\ caches' = Uncalculated(graph') /\ dirty' = FALSE /\ queue' = <<>>
        /\ sweep' = NoSweep /\ posts' = <<>> /\ parked' = <<>> /\ loose' = {}
        /\ UNCHANGED <<script, phase, log, sent>>
    BY DEF Rebuild
  <1>3. PICK s : s = <<>>
    OBVIOUS
  <1>4. Repeated(s) /\ DOMAIN s = {}
    BY <1>3 DEF Repeated
  <1>5. LoopInv'
    BY <1>1, <1>2, <1>3, <1>4 DEF LoopInv
  <1>6. LogInv'
    BY <1>1, <1>2, LogKept
  <1>7. PICK h : h = Build(log)
    OBVIOUS
  <1>8. /\ Sound(h) /\ DOMAIN h.quotes \subseteq QuoteIds(script.market)
        /\ ~h.refused => h.waiting = {}
    <2>1. Repeated(log) /\ QuoteIds(log) \subseteq QuoteIds(script.market)
      BY <1>1 DEF LogInv, Logs
    <2>2. /\ Sound(h) /\ DOMAIN h.quotes \subseteq QuoteIds(log)
          /\ ~h.refused => h.waiting = {}
      BY <1>7, <2>1, Built
    <2> QED BY <2>1, <2>2
  <1>9. GraphInv'
    <2>1. CASE h.refused
      <3>1. graph' = Gone
        BY <1>2, <1>7, <2>1
      <3>2. IsGraph(graph') /\ graph'.refused = TRUE /\ graph'.quotes = s
        BY <1>3, <3>1 DEF Gone, NoGraph, IsGraph, Fields
      <3> QED BY <1>1, <1>2, <1>4, <3>2 DEF GraphInv, Quotes
    <2>2. CASE ~h.refused
      <3>1. graph' = h
        BY <1>2, <1>7, <2>2
      <3>2. IsGraph(h) /\ Hangs(h) /\ Correlated(h) /\ h.waiting = {}
        BY <1>8, <2>2 DEF Sound
      <3> QED BY <1>1, <1>2, <1>8, <3>1, <3>2 DEF GraphInv, Quotes
    <2> QED BY <2>1, <2>2
  <1>10. CacheInv'
    <2>1. Caches(graph', caches') /\ Fresh(graph', caches')
      BY <1>2, NothingCalculated
    <2> QED BY <1>2, <2>1 DEF CacheInv
  <1>11. SweepInv'
    BY <1>2, <1>3, <1>4 DEF SweepInv, NoSweep
  <1> QED BY <1>5, <1>6, <1>9, <1>10, <1>11 DEF Inv

LEMMA KillInv == ASSUME Inv, Kill PROVE Inv'
  <1>1. Rebuild /\ phase = "open"
    BY DEF Kill
  <1>2. kills' \in 0..MaxKills
    BY ScriptsAssumption DEF Kill, Inv, LoopInv
  <1> QED BY <1>1, <1>2, RebuildInv

LEMMA PostsOpen == ASSUME LoopInv, posts # <<>> PROVE phase = "open"
  BY DEF LoopInv

LEMMA LandDeathInv == ASSUME Inv, LandDeath PROVE Inv'
  <1>1. Rebuild /\ posts # <<>> /\ kills' = kills
    BY DEF LandDeath
  <1>2. LoopInv
    BY DEF Inv
  <1>3. phase = "open" /\ kills' \in 0..MaxKills
    BY <1>1, <1>2, PostsOpen DEF LoopInv
  <1> QED BY <1>1, <1>3, RebuildInv

LEMMA LandAnswerInv == ASSUME Inv, LandAnswer PROVE Inv'
  <1>1. LoopInv /\ LogInv /\ GraphInv /\ CacheInv /\ SweepInv
    BY DEF Inv
  <1>2. PICK p :
          /\ posts # <<>> /\ posts' = Tail(posts)
          /\ log' = (IF p.id \in DOMAIN parked /\ p.code \in {"ack", "swept"}
                     THEN Record(log, parked[p.id]) ELSE log)
          /\ parked' = Without(parked, p.id)
          /\ UNCHANGED <<script, phase, graph, caches, dirty, queue, sweep, sent, kills, loose>>
    BY DEF LandAnswer
  <1>3. /\ Repeated(posts')
        /\ \A k \in DOMAIN posts' : posts'[k] = posts[k + 1] /\ k + 1 \in DOMAIN posts
    <2>1. Repeated(posts)
      BY <1>1 DEF LoopInv
    <2> QED BY <1>2, <2>1, Tailed
  <1>4. phase = "open"
    BY <1>1, <1>2, PostsOpen
  <1>5. DOMAIN parked' \subseteq DOMAIN parked /\ \A i \in DOMAIN parked' : parked'[i] = parked[i]
    BY <1>2 DEF Without
  <1>6. LoopInv'
    BY <1>1, <1>2, <1>3, <1>4, <1>5 DEF LoopInv
  <1>7. LogInv'
    <2>1. CASE log' = log
      BY <1>1, <1>2, <2>1, LogKept
    <2>2. CASE log' # log
      <3>1. PICK u : u = parked[p.id]
        OBVIOUS
      <3>2. p.id \in DOMAIN parked /\ log' = Record(log, u)
        BY <1>2, <2>2, <3>1
      <3>3. Repeated(u.fixings)
        BY <1>1, <3>1, <3>2 DEF LoopInv
      <3>4. PICK ids : ids = QuoteIds(script.market)
        OBVIOUS
      <3>5. Logs(log, ids)
        BY <1>1, <3>4 DEF LogInv
      <3>6. Logs(Record(log, u), ids)
        BY <3>3, <3>5, RecordLogged
      <3>7. Logs(log', QuoteIds(script'.market))
        BY <1>2, <3>2, <3>4, <3>6
      <3> QED BY <3>7 DEF LogInv
    <2> QED BY <2>1, <2>2
  <1>8. GraphInv' /\ CacheInv'
    BY <1>1, <1>2 DEF GraphInv, CacheInv, Quotes
  <1>9. SweepInv'
    <2>1. Asked' = Asked /\ NoSweep' = NoSweep
      BY <1>2 DEF Asked, Request, NoSweep
    <2>2. \A k \in DOMAIN posts' : posts'[k].code = "died" => graph'.refused
      BY <1>1, <1>2, <1>3 DEF SweepInv
    <2> QED BY <1>1, <1>2, <2>1, <2>2 DEF SweepInv
  <1> QED BY <1>6, <1>7, <1>8, <1>9 DEF Inv

LEMMA AnswerInv ==
    ASSUME Inv, queue # <<>>, NEW code, code # "died", Answer(code), sweep = NoSweep,
           Caches(graph, caches'), Fresh(graph, caches) => Fresh(graph, caches')
    PROVE  Inv'
  <1>1. LoopInv /\ LogInv /\ GraphInv /\ CacheInv /\ SweepInv
    BY DEF Inv
  <1>2. /\ posts' = Append(posts, Terminal(code)) /\ queue' = Tail(queue)
        /\ UNCHANGED <<graph, dirty, sweep, loop, loose>>
    BY DEF Answer
  <1>3. phase = "open"
    BY <1>1, AskedFacts
  <1>4. Repeated(posts') /\ \A k \in DOMAIN posts' : posts'[k].code = "died" => graph'.refused
    <2>1. Terminal(code).code = code
      BY DEF Terminal
    <2>2. Repeated(posts)
      BY <1>1 DEF LoopInv
    <2> QED BY <1>1, <1>2, <2>1, <2>2, PostsKept
  <1>5. LoopInv'
    BY <1>1, <1>2, <1>3, <1>4, LoopKept
  <1>6. LogInv'
    <2>1. UNCHANGED <<script, log>>
      BY <1>2 DEF loop
    <2> QED BY <1>1, <2>1, LogKept
  <1>7. GraphInv' /\ CacheInv'
    BY <1>1, <1>2 DEF GraphInv, CacheInv, Quotes, loop
  <1>8. SweepInv'
    BY <1>2, <1>4 DEF SweepInv, NoSweep
  <1> QED BY <1>5, <1>6, <1>7, <1>8 DEF Inv

\* A request that is answered over the graph it leaves.
LEMMA ServedInv ==
    ASSUME Inv, queue # <<>>, ~graph.refused, NEW x, x.code # "died",
           posts' = Append(posts, x), queue' = Tail(queue), sweep' = NoSweep,
           UNCHANGED loop, Kin(graph, graph'), ~graph'.refused, loose' \subseteq loose \union Quotes,
           dirty' \in BOOLEAN, Caches(graph', caches'), ~dirty' => Fresh(graph', caches')
    PROVE  Inv'
  <1>1. LoopInv /\ LogInv /\ GraphInv /\ CacheInv /\ SweepInv
    BY DEF Inv
  <1>2. phase = "open" /\ sent # {}
    BY <1>1, AskedFacts
  <1>3. Repeated(posts') /\ \A k \in DOMAIN posts' : posts'[k].code = "died" => graph'.refused
    <2>1. Repeated(posts)
      BY <1>1 DEF LoopInv
    <2> QED BY <1>1, <2>1, PostsKept
  <1>4. LoopInv'
    BY <1>1, <1>2, <1>3, LoopKept
  <1>5. UNCHANGED <<script, phase, log, sent>>
    BY DEF loop
  <1>6. LogInv'
    BY <1>1, <1>5, LogKept
  <1>7. GraphInv'
    BY <1>1, <1>2, <1>5, GraphKept
  <1>8. CacheInv'
    BY DEF CacheInv
  <1>9. SweepInv'
    BY <1>3 DEF SweepInv, NoSweep
  <1> QED BY <1>4, <1>6, <1>7, <1>8, <1>9 DEF Inv

\* A graph that is not refused is not refused for other quotes.
LEMMA StillThere ==
    ASSUME NEW g, NEW h, IsGraph(g), ~g.refused, Kin(g, h) PROVE ~h.refused
  BY DEF Kin

LEMMA DropInv == ASSUME Inv, queue # <<>>, Drop PROVE Inv' /\ graph'.refused = TRUE
  <1>1. LoopInv /\ LogInv /\ GraphInv /\ CacheInv /\ SweepInv
    BY DEF Inv
  <1>2. PICK a, b :
          /\ posts' = posts \o <<a, b>> /\ queue' = Tail(queue)
          /\ graph' = Gone /\ caches' = <<>> /\ dirty' = FALSE /\ sweep' = NoSweep
          /\ UNCHANGED <<loop, loose>>
    BY DEF Drop
  <1>3. phase = "open"
    BY <1>1, AskedFacts
  <1>4. Repeated(posts')
    <2>1. PICK X : X = Range(posts) \union {a, b}
      OBVIOUS
    <2>2. posts \in Seq(X)
      <3>1. posts \in Seq(Range(posts)) /\ Range(posts) \subseteq X
        BY <1>1, <2>1 DEF LoopInv, Repeated
      <3> QED BY <3>1
    <2>3. <<a, b>> \in Seq(X)
      BY <2>1
    <2>4. posts' \in Seq(X)
      BY <1>2, <2>2, <2>3, ConcatProperties
    <2> QED BY <2>4, OfSeq
  <1>5. LoopInv'
    BY <1>1, <1>2, <1>3, <1>4, LoopKept
  <1>6. UNCHANGED <<script, phase, log>>
    BY <1>2 DEF loop
  <1>7. LogInv'
    BY <1>1, <1>6, LogKept
  <1>8. GraphInv' /\ graph'.refused = TRUE
    BY <1>1, <1>2, <1>6, GraphGone
  <1>9. CacheInv'
    BY <1>2, CachesGone
  <1>10. SweepInv'
    BY <1>2, <1>8 DEF SweepInv, NoSweep
  <1> QED BY <1>5, <1>7, <1>8, <1>9, <1>10 DEF Inv

\* What is written leaves the curves that did not see it, and they are still fresh.
LEMMA WritesInv ==
    ASSUME GraphInv, CacheInv, ~graph.refused, NEW u, NEW h, h = Written(u),
           NEW stale, stale = Invalidate(graph, caches, h.quotes)
    PROVE  Kin(graph, h) /\ ~h.refused /\ Caches(h, stale) /\ (~dirty => Fresh(h, stale))
  <1>1. IsGraph(graph) /\ Caches(graph, caches) /\ (~dirty => Fresh(graph, caches))
    BY DEF GraphInv, CacheInv
  <1>2. Kin(graph, h)
    BY <1>1, WrittenFacts
  <1>3. Caches(h, stale) /\ (Fresh(graph, caches) => Fresh(h, stale))
    BY <1>1, <1>2, InvalidateCaches
  <1>4. ~h.refused
    BY <1>1, <1>2, StillThere
  <1> QED BY <1>1, <1>2, <1>3, <1>4

LEMMA ApplyInv == ASSUME Inv, Apply PROVE Inv'
  <1>1. GraphInv /\ CacheInv /\ SweepInv
    BY DEF Inv
  <1>h. PICK h : h = Written(Asked)
    OBVIOUS
  <1>s. PICK stale : stale = Invalidate(graph, caches, h.quotes)
    OBVIOUS
  <1>2. /\ stale = Invalidate(graph, caches, h.quotes) /\ h = Written(Asked) /\ graph' = h
        /\ caches' = stale \/ caches' = [c \in DOMAIN stale |-> {Calculated(h, c)}]
    <2>1. graph' = h
      BY <1>h DEF Apply
    <2>2. stale = Invalidate(graph, caches, graph'.quotes)
      BY <1>s, <2>1
    <2>3. caches' = IF Asked.force THEN [c \in DOMAIN stale |-> {Calculated(graph', c)}] ELSE stale
      BY <2>2 DEF Apply
    <2> QED BY <1>h, <1>s, <2>1, <2>3
  <1>3. /\ queue # <<>> /\ ~graph.refused /\ ~dirty /\ sweep = NoSweep
        /\ posts' = Append(posts, Terminal("ack")) /\ queue' = Tail(queue)
        /\ loose' \subseteq loose /\ UNCHANGED <<dirty, sweep, loop>>
    BY DEF Apply, Serving, Clean
  <1>4. Kin(graph, h) /\ ~h.refused /\ Caches(h, stale) /\ Fresh(h, stale)
    BY <1>1, <1>2, <1>3, WritesInv
  <1>5. Caches(h, caches') /\ Fresh(h, caches')
    BY <1>2, <1>4 DEF Caches, Fresh
  <1>6. Terminal("ack").code # "died"
    BY DEF Terminal
  <1>7. dirty' \in BOOLEAN /\ sweep' = NoSweep /\ UNCHANGED loop
    BY <1>1, <1>3 DEF CacheInv
  <1> QED BY <1>2, <1>3, <1>4, <1>5, <1>6, <1>7, ServedInv

LEMMA ApplyPartlyInv == ASSUME Inv, ApplyPartly PROVE Inv'
  <1>1. GraphInv /\ CacheInv /\ SweepInv
    BY DEF Inv
  <1>2. PICK stale, h :
          /\ stale = Invalidate(graph, caches, h.quotes) /\ h = Written(Asked) /\ graph' = h
          /\ caches' = stale
    BY DEF ApplyPartly
  <1>3. /\ queue # <<>> /\ ~graph.refused /\ sweep = NoSweep
        /\ posts' = Append(posts, Terminal("error")) /\ queue' = Tail(queue)
        /\ dirty' = TRUE /\ UNCHANGED <<sweep, loop, loose>>
    BY DEF ApplyPartly, Serving, Clean
  <1>4. Kin(graph, h) /\ ~h.refused /\ Caches(h, stale)
    BY <1>1, <1>2, <1>3, WritesInv
  <1>5. Terminal("error").code # "died"
    BY DEF Terminal
  <1>6. dirty' \in BOOLEAN /\ sweep' = NoSweep /\ UNCHANGED loop
    BY <1>3
  <1> QED BY <1>2, <1>3, <1>4, <1>5, <1>6, ServedInv

LEMMA ServePriceInv == ASSUME Inv, ServePrice PROVE Inv'
  <1>1. CacheInv
    BY DEF Inv
  <1>2. PICK read, code :
          /\ caches' = Read(graph, caches, read) /\ Answer(code) /\ code \in {"error", "result"}
    BY DEF ServePrice
  <1>3. queue # <<>> /\ sweep = NoSweep
    BY DEF ServePrice, Serving
  <1>4. Caches(graph, caches') /\ (Fresh(graph, caches) => Fresh(graph, caches'))
    BY <1>1, <1>2, ReadCaches DEF CacheInv
  <1> QED BY <1>2, <1>3, <1>4, AnswerInv

\* An answer that leaves the graph, and what is calculated, as they are.
LEMMA RefusedInv ==
    ASSUME Inv, queue # <<>>, Answer("error"), UNCHANGED caches, sweep = NoSweep PROVE Inv'
  <1>1. Caches(graph, caches')
    BY DEF Inv, CacheInv
  <1> QED BY <1>1, AnswerInv

LEMMA ServeWithoutGraphInv == ASSUME Inv, ServeWithoutGraph PROVE Inv'
  <1>1. queue # <<>> /\ graph.refused /\ Answer("error") /\ UNCHANGED caches
    BY DEF ServeWithoutGraph
  <1>2. sweep = NoSweep
    BY <1>1 DEF Inv, SweepInv
  <1> QED BY <1>1, <1>2, RefusedInv

LEMMA DropsInv ==
    ASSUME Inv, ApplyBreaks \/ ServeDirty \/ SweepDirty \/ SweepBreaks
    PROVE  Inv' /\ graph'.refused = TRUE
  <1>1. Drop
    BY DEF ApplyBreaks, ServeDirty, SweepDirty, SweepBreaks
  <1>2. queue # <<>>
    <2>1. CASE SweepBreaks
      <3>1. sweep # NoSweep
        BY <2>1 DEF SweepBreaks, NoSweep
      <3> QED BY <3>1 DEF Inv, SweepInv
    <2>2. CASE ~SweepBreaks
      BY <2>2 DEF ApplyBreaks, ServeDirty, SweepDirty, Serving
    <2> QED BY <2>1, <2>2
  <1> QED BY <1>1, <1>2, DropInv
-----------------------------------------------------------------------------
(* Sweeps *)

LEMMA SomeOfAnAxis ==
    ASSUME NEW axis, NEW original, Repeated(axis.values), axis.steps \in Nat,
           axis.by \in {"explicit", "linear", "relative"},
           (IF axis.by = "linear" THEN axis.steps ELSE Len(axis.values)) >= 1
    PROVE  Repeated(PointsOf(axis, original)) /\ Len(PointsOf(axis, original)) \in Nat \ {0}
  <1>1. Len(axis.values) \in Nat /\ DOMAIN axis.values = 1..Len(axis.values)
    BY RepeatedFacts
  <1>2. PICK f : f = PointsOf(axis, original)
    OBVIOUS
  <1>3. CASE axis.by = "explicit"
    <2>1. PointsOf(axis, original) = axis.values
      BY <1>3 DEF PointsOf
    <2> QED BY <1>1, <1>3, <2>1
  <1>4. CASE axis.by = "linear"
    <2>1. PICK n \in Nat : n = axis.steps
      OBVIOUS
    <2>2. DOMAIN f = 1..n /\ f = [i \in 1..n |-> f[i]]
      BY <1>2, <1>4, <2>1 DEF PointsOf
    <2>3. Repeated(f) /\ Len(f) = n
      BY <2>2, OverPlaces
    <2> QED BY <1>2, <1>4, <2>1, <2>3
  <1>5. CASE axis.by = "relative"
    <2>1. PICK n \in Nat : n = Len(axis.values)
      BY <1>1
    <2>2. f = [k \in DOMAIN axis.values |-> original * axis.values[k]]
      BY <1>2, <1>5 DEF PointsOf
    <2>3. DOMAIN f = 1..n /\ f = [i \in 1..n |-> f[i]]
      BY <1>1, <2>1, <2>2
    <2>4. Repeated(f) /\ Len(f) = n
      BY <2>3, OverPlaces
    <2> QED BY <1>2, <1>5, <2>1, <2>4
  <1> QED BY <1>3, <1>4, <1>5

\* A sweep that was resolved has axes, and each of them points.
LEMMA SomeOfASweep ==
    ASSUME NEW axes, Repeated(axes),
           \A a \in DOMAIN axes : Repeated(axes[a].values) /\ axes[a].steps \in Nat,
           Plans(axes), NEW originals,
           NEW points, points = [a \in DOMAIN axes |-> PointsOf(axes[a], originals[a])]
    PROVE  /\ 0 < Product([a \in DOMAIN points |-> Len(points[a])], 1, Len(points))
           /\ Len(points) \in Nat \ {0} /\ DOMAIN points = DOMAIN axes
           /\ \E X : Sized(X, points, [a \in DOMAIN points |-> Len(points[a])], Len(points))
  <1>1. PICK n \in Nat : n = Len(axes) /\ DOMAIN axes = 1..n
    BY RepeatedFacts
  <1>2. DOMAIN points = 1..n /\ points = [a \in 1..n |-> points[a]]
    BY <1>1
  <1>3. Len(points) = n
    BY <1>2, OverPlaces
  <1>4. ASSUME NEW a \in 1..n PROVE Repeated(points[a]) /\ Len(points[a]) \in Nat \ {0}
    <2>1. PICK axis, original : axis = axes[a] /\ original = originals[a]
      OBVIOUS
    <2>2. a \in DOMAIN axes /\ points[a] = PointsOf(axis, original)
      BY <1>1, <1>4, <2>1
    <2>3. Repeated(axis.values) /\ axis.steps \in Nat
      BY <2>1, <2>2
    <2>4. /\ axis.by \in {"explicit", "linear", "relative"} /\ Sizes(axes)[a] >= 1
      BY <2>1, <2>2 DEF Plans
    <2>5. Sizes(axes)[a] = IF axis.by = "linear" THEN axis.steps ELSE Len(axis.values)
      BY <2>1, <2>2 DEF Sizes
    <2>6. Repeated(PointsOf(axis, original)) /\ Len(PointsOf(axis, original)) \in Nat \ {0}
      BY <2>3, <2>4, <2>5, SomeOfAnAxis
    <2> QED BY <2>2, <2>6
  <1>5. PICK sizes : sizes = [a \in DOMAIN points |-> Len(points[a])]
    OBVIOUS
  <1>6. /\ DOMAIN sizes = 1..n /\ sizes = [a \in 1..n |-> sizes[a]]
        /\ \A a \in 1..n : sizes[a] \in Nat \ {0}
    BY <1>2, <1>4, <1>5
  <1>7. Product(sizes, 1, n) \in Nat \ {0}
    <2>1. 1 \in 1..(n + 1) /\ n \in (1 - 1)..n
      OBVIOUS
    <2> QED BY <1>6, <2>1, ProductSome
  <1>8. PICK p : p = Product(sizes, 1, n)
    OBVIOUS
  <1>9. 0 < p
    BY <1>7, <1>8
  <1>10. n # 0
    <2>1. axes # <<>>
      BY DEF Plans
    <2>2. axes \in Seq(Range(axes))
      BY DEF Repeated
    <2> QED BY <1>1, <2>1, <2>2, EmptySeq
  <1>11. PICK X : X = UNION {Range(points[a]) : a \in 1..n}
    OBVIOUS
  <1>12. ASSUME NEW a \in 1..n PROVE points[a] \in Seq(X)
    <2>1. points[a] \in Seq(Range(points[a])) /\ Range(points[a]) \subseteq X
      BY <1>4, <1>11 DEF Repeated
    <2> QED BY <2>1
  <1>13. Sized(X, points, sizes, n)
    BY <1>2, <1>4, <1>5, <1>12 DEF Sized
  <1> QED BY <1>1, <1>2, <1>3, <1>5, <1>8, <1>9, <1>10, <1>13

LEMMA BeginSweepInv == ASSUME Inv, BeginSweep PROVE Inv'
  <1>1. LoopInv /\ LogInv /\ GraphInv /\ CacheInv /\ SweepInv
    BY DEF Inv
  <1>2. PICK points :
          points = [a \in DOMAIN Asked.axes |->
                       PointsOf(Asked.axes[a], graph.quotes[Asked.axes[a].quote])]
    OBVIOUS
  <1>3. /\ queue # <<>> /\ Asked.kind = "sweep" /\ ~graph.refused /\ Plans(Asked.axes)
        /\ \E at : sweep' = [running |-> TRUE, before |-> graph.quotes, done |-> 0,
                             points |-> points, at |-> at, prices |-> <<>>]
        /\ UNCHANGED <<graph, caches, dirty, queue, posts, loop, loose>>
    BY <1>2 DEF BeginSweep, Serving, Clean, Asked
  <1>4. PICK axes : axes = Asked.axes
    OBVIOUS
  <1>5. /\ Repeated(axes)
        /\ \A a \in DOMAIN axes : Repeated(axes[a].values) /\ axes[a].steps \in Nat
    BY <1>1, <1>3, <1>4, AskedFacts DEF Sendable
  <1>6. 0 < Product([a \in DOMAIN points |-> Len(points[a])], 1, Len(points))
    <2>1. PICK originals : originals = [a \in DOMAIN axes |-> graph.quotes[axes[a].quote]]
      OBVIOUS
    <2>2. points = [a \in DOMAIN axes |-> PointsOf(axes[a], originals[a])]
      BY <1>2, <1>4, <2>1
    <2>3. Plans(axes)
      BY <1>3, <1>4
    <2> QED BY <1>5, <2>2, <2>3, SomeOfASweep
  <1>7. UNCHANGED <<script, phase, log, parked, sent, kills>>
    BY <1>3 DEF loop
  <1>8. Asked' = Asked
    BY <1>3, <1>7 DEF Asked, Request
  <1>9. Sweeping(sweep', Asked, graph.quotes)
    <2>1. /\ DOMAIN sweep' = {"running", "before", "done", "points", "at", "prices"}
          /\ sweep'.running = TRUE /\ sweep'.before = graph.quotes /\ sweep'.done = 0
          /\ sweep'.points = points
      BY <1>3
    <2>2. \A a \in DOMAIN axes : axes[a].quote \in Quotes
      BY <1>3, <1>4 DEF Plans
    <2>3. DOMAIN points = DOMAIN axes
      BY <1>2, <1>4
    <2> QED BY <1>3, <1>4, <1>6, <2>1, <2>2, <2>3 DEF Sweeping, Quotes
  <1>10. SweepInv'
    BY <1>1, <1>3, <1>8, <1>9 DEF SweepInv
  <1>11. LoopInv'
    BY <1>1, <1>3, <1>7 DEF LoopInv
  <1>12. LogInv'
    BY <1>1, <1>7, LogKept
  <1>13. GraphInv' /\ CacheInv'
    BY <1>1, <1>3, <1>7 DEF GraphInv, CacheInv, Quotes
  <1> QED BY <1>10, <1>11, <1>12, <1>13 DEF Inv

\* What holds while a sweep is served.
LEMMA UnderWay ==
    ASSUME Inv, sweep.running
    PROVE  queue # <<>> /\ ~graph.refused /\ Sweeping(sweep, Asked, graph.quotes)
  <1>1. sweep # NoSweep
    BY DEF NoSweep
  <1> QED BY <1>1 DEF Inv, SweepInv

\* A point writes the quotes of the axes, and what they were before is still known.
LEMMA AtPointFacts ==
    ASSUME Inv, sweep.running
    PROVE  /\ DOMAIN AtPoint = Quotes /\ Kin(graph, There) /\ There.quotes = AtPoint
           /\ ~There.refused
           /\ \A q \in Quotes \ Swept : AtPoint[q] = sweep.before[q]
  <1>1. Sweeping(sweep, Asked, graph.quotes) /\ IsGraph(graph) /\ ~graph.refused
    BY UnderWay DEF Inv, GraphInv
  <1>2. DOMAIN AtPoint = Quotes
    BY DEF AtPoint
  <1>3. Kin(graph, There) /\ There.quotes = AtPoint
    <2>1. PICK new : new = AtPoint
      OBVIOUS
    <2> QED BY <1>1, <1>2, <2>1, Rewritten DEF There, Quotes
  <1>4. ~There.refused
    BY <1>1, <1>3, StillThere
  <1>5. ASSUME NEW q \in Quotes \ Swept PROVE AtPoint[q] = sweep.before[q]
    <2>1. Axes = DOMAIN Asked.axes
      BY <1>1 DEF Axes, Sweeping
    <2>2. \A a \in Axes : Asked.axes[a].quote # q
      BY <1>5 DEF Swept
    <2>3. AtPoint[q] = graph.quotes[q]
      BY <2>2 DEF AtPoint, Moved
    <2>4. graph.quotes[q] = sweep.before[q]
      BY <1>1, <1>5, <2>1, <2>2 DEF Sweeping, Quotes
    <2> QED BY <2>3, <2>4
  <1> QED BY <1>2, <1>3, <1>4, <1>5

LEMMA SweepPointInv == ASSUME Inv, SweepPoint PROVE Inv'
  <1>1. LoopInv /\ LogInv /\ GraphInv /\ CacheInv /\ SweepInv
    BY DEF Inv
  <1>2. /\ sweep.running /\ sweep.done + 1 < Total /\ graph' = There
        /\ caches' = Read(There, Invalidate(graph, caches, AtPoint), Asked.uses)
        /\ \E at, prices : sweep' = [sweep EXCEPT !.done = @ + 1, !.at = at, !.prices = prices]
        /\ UNCHANGED <<dirty, queue, posts, loop, loose>>
    BY DEF SweepPoint
  <1>3. queue # <<>> /\ ~graph.refused /\ Sweeping(sweep, Asked, graph.quotes)
    BY <1>2, UnderWay
  <1>4. /\ DOMAIN AtPoint = Quotes /\ Kin(graph, There) /\ There.quotes = AtPoint
        /\ ~There.refused /\ \A q \in Quotes \ Swept : AtPoint[q] = sweep.before[q]
    BY <1>2, AtPointFacts
  <1>5. UNCHANGED <<script, phase, log, parked, sent, kills>>
    BY <1>2 DEF loop
  <1>6. phase = "open" /\ sent # {}
    BY <1>1, <1>3, AskedFacts
  <1>7. LoopInv'
    BY <1>1, <1>2, <1>5 DEF LoopInv
  <1>8. LogInv'
    BY <1>1, <1>5, LogKept
  <1>9. GraphInv'
    BY <1>1, <1>2, <1>3, <1>4, <1>5, <1>6, GraphKept
  <1>10. CacheInv'
    <2>1. PICK stale : stale = Invalidate(graph, caches, AtPoint)
      OBVIOUS
    <2>2. Caches(There, stale) /\ (Fresh(graph, caches) => Fresh(There, stale))
      BY <1>1, <1>4, <2>1, InvalidateCaches DEF CacheInv
    <2>3. Caches(There, caches') /\ (Fresh(There, stale) => Fresh(There, caches'))
      BY <1>2, <2>1, <2>2, ReadCaches
    <2> QED BY <1>1, <1>2, <1>4, <2>2, <2>3 DEF CacheInv
  <1>11. Asked' = Asked
    BY <1>2, <1>5 DEF Asked, Request
  <1>12. Sweeping(sweep', Asked, AtPoint)
    <2>1. DOMAIN sweep = {"running", "before", "done", "points", "at", "prices"}
      BY <1>3 DEF Sweeping
    <2>2. /\ DOMAIN sweep' = DOMAIN sweep /\ sweep'.running = sweep.running
          /\ sweep'.before = sweep.before /\ sweep'.done = sweep.done + 1
          /\ sweep'.points = sweep.points
      BY <1>2, <2>1
    <2>3. sweep.done + 1 < Product([a \in DOMAIN sweep.points |-> Len(sweep.points[a])],
                                   1, Len(sweep.points))
      BY <1>2 DEF Total, Lengths
    <2>4. DOMAIN sweep.points = DOMAIN Asked.axes
      BY <1>3 DEF Sweeping
    <2>5. \A q \in Quotes \ {Asked.axes[a].quote : a \in DOMAIN Asked.axes} :
            AtPoint[q] = sweep.before[q]
      BY <1>4, <2>4 DEF Swept, Axes
    <2>6. \A a \in DOMAIN Asked.axes : Asked.axes[a].quote \in Quotes
      BY <1>3 DEF Sweeping, Quotes
    <2>7. sweep'.done < Product([a \in DOMAIN sweep'.points |-> Len(sweep'.points[a])],
                                1, Len(sweep'.points))
      BY <2>2, <2>3
    <2> QED BY <1>3, <1>4, <2>1, <2>2, <2>4, <2>5, <2>6, <2>7 DEF Sweeping
  <1>13. SweepInv'
    BY <1>1, <1>2, <1>3, <1>4, <1>11, <1>12 DEF SweepInv
  <1> QED BY <1>7, <1>8, <1>9, <1>10, <1>13 DEF Inv

\* What is put back, and where.
LEMMA RestoredFacts ==
    ASSUME Inv, sweep.running, NEW h, h = [graph EXCEPT !.quotes = Restored]
    PROVE  /\ Kin(graph, h) /\ Kin(There, h) /\ h.quotes = Restored /\ ~h.refused
           /\ \A q \in Quotes \ Kept : h.quotes[q] = sweep.before[q]
           /\ Kept \subseteq Quotes
  <1>1. /\ Sweeping(sweep, Asked, graph.quotes) /\ IsGraph(graph) /\ ~graph.refused
    BY UnderWay DEF Inv, GraphInv
  <1>2. /\ DOMAIN AtPoint = Quotes /\ Kin(graph, There) /\ ~There.refused
        /\ \A q \in Quotes \ Swept : AtPoint[q] = sweep.before[q]
    BY AtPointFacts
  <1>3. DOMAIN Restored = Quotes
    BY DEF Restored
  <1>4. Kin(graph, h) /\ h.quotes = Restored
    <2>1. PICK new : new = Restored
      OBVIOUS
    <2> QED BY <1>1, <1>3, <2>1, Rewritten DEF Quotes
  <1>5. ~h.refused
    BY <1>1, <1>4, StillThere
  <1>6. Kin(There, h)
    BY <1>2, <1>4, <1>5 DEF Kin
  <1>7. ASSUME NEW q \in Quotes \ Kept PROVE Restored[q] = sweep.before[q]
    <2>1. CASE q \in Swept
      BY <1>7, <2>1 DEF Restored
    <2>2. CASE q \notin Swept
      <3>1. Restored[q] = AtPoint[q]
        BY <1>7, <2>2 DEF Restored
      <3> QED BY <1>2, <1>7, <2>2, <3>1
    <2> QED BY <2>1, <2>2
  <1>8. Kept \subseteq Quotes
    BY <1>1 DEF Kept, Axes, Sweeping, Quotes
  <1> QED BY <1>4, <1>5, <1>6, <1>7, <1>8

LEMMA EndSweepInv ==
    ASSUME Inv, sweep.running, NEW read, NEW answer, EndSweep(read, answer),
           answer.code # "died", loose' \subseteq loose \union Kept
    PROVE  /\ Inv' /\ ~graph'.refused
           /\ \A q \in Quotes \ Kept : graph'.quotes[q] = sweep.before[q]
  <1>1. GraphInv /\ CacheInv
    BY DEF Inv
  <1>2. /\ graph' = [graph EXCEPT !.quotes = Restored]
        /\ caches' = Invalidate(There, Read(There, Invalidate(graph, caches, AtPoint), read),
                                Restored)
        /\ sweep' = NoSweep /\ posts' = Append(posts, answer) /\ queue' = Tail(queue)
        /\ UNCHANGED <<dirty, loop>>
    BY DEF EndSweep
  <1>3. queue # <<>> /\ ~graph.refused
    BY UnderWay
  <1>4. Kin(graph, There) /\ There.quotes = AtPoint
    BY AtPointFacts
  <1>5. PICK h : h = [graph EXCEPT !.quotes = Restored]
    OBVIOUS
  <1>6. /\ Kin(graph, h) /\ Kin(There, h) /\ h.quotes = Restored /\ ~h.refused
        /\ \A q \in Quotes \ Kept : h.quotes[q] = sweep.before[q]
        /\ Kept \subseteq Quotes
    BY <1>5, RestoredFacts
  <1>7. Caches(h, caches') /\ (~dirty => Fresh(h, caches'))
    <2>1. PICK stale, now :
            stale = Invalidate(graph, caches, AtPoint) /\ now = Read(There, stale, read)
      OBVIOUS
    <2>2. Caches(There, stale) /\ (Fresh(graph, caches) => Fresh(There, stale))
      BY <1>1, <1>4, <2>1, InvalidateCaches DEF CacheInv
    <2>3. Caches(There, now) /\ (Fresh(There, stale) => Fresh(There, now))
      BY <2>1, <2>2, ReadCaches
    <2>4. caches' = Invalidate(There, now, Restored)
      BY <1>2, <2>1
    <2>5. Caches(h, caches') /\ (Fresh(There, now) => Fresh(h, caches'))
      BY <1>6, <2>3, <2>4, InvalidateCaches
    <2> QED BY <1>1, <2>2, <2>3, <2>5 DEF CacheInv
  <1>8. graph' = h
    BY <1>2, <1>5
  <1>9. loose' \subseteq loose \union Quotes /\ dirty' \in BOOLEAN /\ dirty' = dirty
    BY <1>1, <1>2, <1>6 DEF CacheInv
  <1>10. UNCHANGED loop /\ sweep' = NoSweep
    BY <1>2
  <1>11. Inv'
    BY <1>2, <1>3, <1>6, <1>7, <1>8, <1>9, <1>10, ServedInv
  <1> QED BY <1>6, <1>8, <1>11

\* Both ends of a sweep.
LEMMA SweepEnds ==
    ASSUME Inv, SweepFinish \/ SweepFails
    PROVE  /\ Inv' /\ ~graph'.refused
           /\ \A q \in Quotes \ Kept : graph'.quotes[q] = sweep.before[q]
  <1>1. CASE SweepFinish
    <2>1. PICK answer :
            /\ EndSweep(Asked.uses, answer) /\ answer.code \in {"swept", "error"}
            /\ loose' \subseteq loose \union Kept
      <3>1. PICK drawn, late, whole, trimmed, priced :
              /\ EndSweep(Asked.uses,
                    IF drawn
                    THEN [Terminal("swept") EXCEPT !.axes = trimmed, !.prices = priced]
                    ELSE Terminal("error"))
              /\ loose' = IF drawn /\ whole THEN (loose \ Kept) \union (Kept \intersect late)
                          ELSE loose \union Kept
        BY <1>1 DEF SweepFinish
      <3>2. PICK swept, failed :
              /\ swept = [Terminal("swept") EXCEPT !.axes = trimmed, !.prices = priced]
              /\ failed = Terminal("error")
        OBVIOUS
      <3>3. swept.code = "swept" /\ failed.code = "error"
        BY <3>2 DEF Terminal
      <3>4. EndSweep(Asked.uses, IF drawn THEN swept ELSE failed)
        BY <3>1, <3>2
      <3>5. loose' \subseteq loose \union Kept
        BY <3>1
      <3>6. EndSweep(Asked.uses, swept) \/ EndSweep(Asked.uses, failed)
        BY <3>4
      <3> QED BY <3>3, <3>5, <3>6
    <2>2. sweep.running
      BY <1>1 DEF SweepFinish
    <2> QED BY <2>1, <2>2, EndSweepInv
  <1>2. CASE SweepFails
    <2>1. PICK read : EndSweep(read, Terminal("error"))
      BY <1>2 DEF SweepFails
    <2>2. Terminal("error").code = "error" /\ loose' \subseteq loose \union Kept /\ sweep.running
      BY <1>2 DEF SweepFails, Terminal
    <2> QED BY <2>1, <2>2, EndSweepInv
  <1> QED BY <1>1, <1>2
-----------------------------------------------------------------------------
(* The invariant holds *)

LEMMA LoopStep == ASSUME Inv, Loop PROVE Inv'
  BY KillInv, LandDeathInv, LandAnswerInv, SendInv DEF Loop

LEMMA ThreadStep == ASSUME Inv, Thread PROVE Inv'
  <1>1. CASE RefuseUpdate \/ RefuseSweep
    <2>1. queue # <<>> /\ Answer("error") /\ UNCHANGED caches /\ sweep = NoSweep
      BY <1>1 DEF RefuseUpdate, RefuseSweep, Serving
    <2> QED BY <2>1, RefusedInv
  <1>2. CASE ServeWithoutGraph \/ ServePrice
    BY <1>2, ServeWithoutGraphInv, ServePriceInv
  <1>3. CASE Apply \/ ApplyPartly
    BY <1>3, ApplyInv, ApplyPartlyInv
  <1>4. CASE ApplyBreaks \/ ServeDirty \/ SweepDirty \/ SweepBreaks
    BY <1>4, DropsInv
  <1>5. CASE BeginSweep \/ SweepPoint
    BY <1>5, BeginSweepInv, SweepPointInv
  <1>6. CASE SweepFinish \/ SweepFails
    BY <1>6, SweepEnds
  <1> QED BY <1>1, <1>2, <1>3, <1>4, <1>5, <1>6 DEF Thread

LEMMA Unmoved == ASSUME Inv, UNCHANGED vars PROVE Inv'
  <1>1. /\ UNCHANGED <<script, phase, graph, caches, dirty, queue, sweep, posts>>
        /\ UNCHANGED <<log, parked, sent, kills, loose>>
    BY DEF vars, seat
  <1>2. Asked' = Asked /\ NoSweep' = NoSweep
    BY <1>1 DEF Asked, Request, NoSweep
  <1>3. LoopInv' /\ LogInv'
    BY <1>1 DEF Inv, LoopInv, LogInv
  <1>4. GraphInv' /\ CacheInv'
    BY <1>1 DEF Inv, GraphInv, CacheInv, Quotes
  <1>5. SweepInv'
    BY <1>1, <1>2 DEF Inv, SweepInv
  <1> QED BY <1>3, <1>4, <1>5 DEF Inv

LEMMA StepInv == ASSUME Inv, [Next]_vars PROVE Inv'
  <1>1. CASE Next
    BY <1>1, OpenSessionInv, LoopStep, ThreadStep DEF Next
  <1>2. CASE UNCHANGED vars
    BY <1>2, Unmoved
  <1> QED BY <1>1, <1>2

LEMMA Invariance == Spec => []Inv
  <1>1. Init => Inv
    BY InitInv
  <1>2. Inv /\ [Next]_vars => Inv'
    BY StepInv
  <1> QED BY <1>1, <1>2, PTL DEF Spec

\* A curve is calculated at most once.
LEMMA OnceCalculated == ASSUME NEW x, x = {} \/ \E y \in x : x = {y} PROVE Cardinality(x) <= 1
  <1>1. CASE x = {}
    <2>1. Cardinality(x) = 0
      BY <1>1, FS_EmptySet
    <2> QED BY <2>1
  <1>2. CASE x # {}
    <2>1. PICK y : x = {y}
      BY <1>2
    <2>2. Cardinality({y}) = 1
      BY FS_Singleton
    <2> QED BY <2>1, <2>2
  <1> QED BY <1>1, <1>2

\* Every variable holds what its field in the code can hold, for every script of
\* requests: one request is served at a time, a dropped graph is neither dirty nor
\* cached, and what is parked or queued was sent.
THEOREM SessionTypeOK == Spec => []TypeOK
  <1>1. ASSUME Inv PROVE TypeOK
    <2>1. LoopInv /\ GraphInv /\ CacheInv
      BY <1>1 DEF Inv
    <2>2. DOMAIN caches = Curves /\ \A c \in Curves : Cardinality(caches[c]) <= 1
      BY <2>1, OnceCalculated DEF CacheInv, Caches, Curves
    <2>3. sweep.running => queue # <<>> /\ Asked.kind = "sweep" /\ sweep.done < Total
      BY <1>1, UnderWay DEF Sweeping, Total, Lengths
    <2>4. loose \subseteq {script.market[k].id : k \in DOMAIN script.market}
      BY <2>1 DEF GraphInv, QuoteIds
    <2> QED BY <2>1, <2>2, <2>3, <2>4 DEF TypeOK, LoopInv, CacheInv
  <1> QED BY <1>1, Invariance, PTL

\* A market that was accepted hangs together, whatever the market, the order it was
\* sent in, and what was written, swept, killed and replayed since: an index with a
\* forwarding curve forecasts off it, a curve observes quotes of the market, a
\* correlation resolves and is one when it is built, and an id names one object
\* (buildMarket and the constructor's check of the indices that wait).
THEOREM SessionNothingDangles == Spec => []NothingDangles
  <1>1. ASSUME Inv PROVE NothingDangles
    <2> SUFFICES ASSUME phase = "open", ~graph.refused PROVE NothingDangles
      BY DEF NothingDangles
    <2>1. /\ Named(graph) /\ Forecasts(graph) /\ Observes(graph) /\ Resolving(graph)
          /\ graph.waiting = {} /\ (sent = {} => Correlated(graph))
      BY <1>1 DEF Inv, GraphInv, Hangs
    <2>2. \A i \in DOMAIN graph.indices :
             graph.indices[i].forwards # None =>
                 graph.indices[i].forwards \in Curves /\ graph.indices[i].linked
      BY <2>1 DEF Forecasts, Curves
    <2>3. /\ \A c \in Curves : graph.curves[c].feeds \subseteq Quotes
          /\ \A v \in DOMAIN graph.vols : graph.vols[v].feeds \subseteq Quotes
      BY <2>1 DEF Observes, Curves, Quotes
    <2>4. ASSUME NEW c \in DOMAIN graph.correlations
          PROVE  /\ \A i, j \in DOMAIN graph.correlations[c] :
                      Resolves(graph, graph.correlations[c][i][j])
                 /\ sent = {} => IsCorrelation(Matrix(graph.quotes, graph.correlations[c]))
      BY <2>1 DEF Resolving, Correlated
    <2>5. IsInjective(graph.ids)
      BY <2>1 DEF Named
    <2> QED BY <2>2, <2>3, <2>4, <2>5 DEF NothingDangles
  <1> QED BY <1>1, Invariance, PTL

\* Between requests no curve is left calculated from a quote that has moved since,
\* for every market and every request: the next price sees every write before it,
\* those of a sweep that were put back included (UpdateGuard).
THEOREM SessionCachesAreFresh == Spec => []CachesAreFresh
  <1>1. Inv => CachesAreFresh
    BY DEF Inv, CacheInv, Fresh, CachesAreFresh, Curves
  <1> QED BY <1>1, Invariance, PTL
-----------------------------------------------------------------------------
(* What a step may never do *)

LEMMA Serves ==
    ASSUME \/ RefuseUpdate \/ Apply \/ ApplyPartly \/ ApplyBreaks \/ ServeDirty \/ ServePrice
           \/ RefuseSweep \/ SweepDirty \/ BeginSweep
    PROVE  sweep = NoSweep
  BY DEF RefuseUpdate, Apply, ApplyPartly, ApplyBreaks, ServeDirty, ServePrice, RefuseSweep,
         SweepDirty, BeginSweep, Serving

LEMMA PutBack ==
    ASSUME Inv, Next, sweep.running, ~sweep'.running, ~graph'.refused, kills' = kills
    PROVE  \A q \in Quotes \ Kept : graph'.quotes[q] = sweep.before[q]
  <1>1. sweep # NoSweep
    BY DEF NoSweep
  <1>2. ~graph.refused /\ Sweeping(sweep, Asked, graph.quotes)
    BY UnderWay
  <1>3. ~OpenSession /\ ~LandAnswer /\ ~(\E i \in DOMAIN script.requests : Send(i))
    BY DEF OpenSession, LandAnswer, Send
  <1>4. ~Kill
    <2>1. kills \in Nat
      BY ScriptsAssumption DEF Inv, LoopInv
    <2> QED BY <2>1 DEF Kill
  <1>5. ~LandDeath
    <2> SUFFICES ASSUME LandDeath PROVE FALSE
      OBVIOUS
    <2>1. posts # <<>> /\ Head(posts).code = "died" /\ Repeated(posts)
      BY DEF LandDeath, Inv, LoopInv
    <2>2. 1 \in DOMAIN posts /\ posts[1].code = "died"
      BY <2>1, Tailed
    <2> QED BY <1>2, <2>2 DEF Inv, SweepInv
  <1>6. Thread
    BY <1>3, <1>4, <1>5 DEF Next, Loop
  <1>7. ~ServeWithoutGraph
    BY <1>2 DEF ServeWithoutGraph
  <1>8. ~SweepPoint
    <2> SUFFICES ASSUME SweepPoint PROVE FALSE
      OBVIOUS
    <2>1. \E at, prices : sweep' = [sweep EXCEPT !.done = @ + 1, !.at = at, !.prices = prices]
      BY DEF SweepPoint
    <2>2. DOMAIN sweep = {"running", "before", "done", "points", "at", "prices"}
      BY <1>2 DEF Sweeping
    <2>3. sweep'.running = sweep.running
      BY <2>1, <2>2
    <2> QED BY <2>3
  <1>9. ~SweepBreaks
    BY DropsInv
  <1>10. SweepFinish \/ SweepFails
    BY <1>1, <1>6, <1>7, <1>8, <1>9, Serves DEF Thread
  <1> QED BY <1>10, SweepEnds

\* A sweep that ends leaves every quote it did not keep as it found it, whether it
\* finished, was stopped or failed, for every market, grid and number of points
\* (serveScenario's restore).
THEOREM SessionSweepsPutBack == Spec => SweepsPutBack
  <1>1. Inv /\ [Next]_vars =>
            [sweep.running /\ ~sweep'.running /\ ~graph'.refused /\ kills' = kills =>
                \A q \in Quotes \ Kept : graph'.quotes[q] = sweep.before[q]]_vars
    BY PutBack
  <1> QED BY <1>1, Invariance, PTL DEF Spec, SweepsPutBack

LEMMA Whole ==
    ASSUME Inv, Next, Serving("update"), Len(posts') > Len(posts),
           posts'[Len(posts) + 1].code = "error"
    PROVE  dirty' \/ graph'.refused \/ graph' = graph
  <1>1. sweep = NoSweep /\ Repeated(posts)
    BY DEF Serving, Inv, LoopInv
  <1>2. Len(posts) \in Nat
    BY <1>1, RepeatedFacts
  <1>3. ~LandDeath /\ ~LandAnswer /\ ~Kill
    <2>1. ~Kill /\ ~LandDeath
      <3>1. Rebuild => Len(posts') = 0
        BY DEF Rebuild
      <3> QED BY <1>2, <3>1 DEF Kill, LandDeath
    <2>2. ~LandAnswer
      <3>1. LandAnswer => posts # <<>> /\ posts' = Tail(posts)
        BY DEF LandAnswer
      <3>2. LandAnswer => Len(posts') = Len(posts) - 1
        BY <1>1, <3>1, Tailed
      <3> QED BY <1>2, <3>2
    <2> QED BY <2>1, <2>2
  <1>4. ~OpenSession /\ ~(\E i \in DOMAIN script.requests : Send(i))
    <2>1. posts' # posts
      BY <1>2
    <2> QED BY <2>1 DEF OpenSession, Send
  <1>5. Thread
    BY <1>3, <1>4 DEF Next, Loop
  <1>6. ~(SweepPoint \/ SweepFinish \/ SweepFails \/ SweepBreaks)
    BY <1>1 DEF SweepPoint, SweepFinish, SweepFails, SweepBreaks, NoSweep
  <1>7. ~Apply
    <2> SUFFICES ASSUME Apply PROVE FALSE
      OBVIOUS
    <2>1. PICK x : x = Terminal("ack")
      OBVIOUS
    <2>2. posts' = Append(posts, x)
      BY <2>1 DEF Apply
    <2>3. posts'[Len(posts) + 1] = x
      BY <1>1, <2>2, Appended
    <2> QED BY <2>1, <2>3 DEF Terminal
  <1>8. CASE RefuseUpdate \/ RefuseSweep \/ ServePrice \/ ServeWithoutGraph
    BY <1>8 DEF RefuseUpdate, RefuseSweep, ServePrice, ServeWithoutGraph, Answer
  <1>9. CASE ApplyPartly
    BY <1>9 DEF ApplyPartly
  <1>10. CASE ApplyBreaks \/ ServeDirty \/ SweepDirty
    BY <1>10, DropsInv
  <1>11. CASE BeginSweep
    BY <1>11 DEF BeginSweep
  <1> QED BY <1>5, <1>6, <1>7, <1>8, <1>9, <1>10, <1>11 DEF Thread

\* An update that is refused changes nothing, or what it changed is not served again,
\* for every update: the session is dirty, or its graph gone (Session::apply).
THEOREM SessionUpdatesAreWhole == Spec => UpdatesAreWhole
  <1>1. Inv /\ [Next]_vars =>
            [Serving("update") /\ Len(posts') > Len(posts)
                /\ posts'[Len(posts) + 1].code = "error" =>
                \/ dirty' \/ graph'.refused
                \/ graph' = graph]_vars
    BY Whole
  <1> QED BY <1>1, Invariance, PTL DEF Spec, UpdatesAreWhole
-----------------------------------------------------------------------------
(* The prices of a sweep *)

SizesOf(points) == [a \in DOMAIN points |-> Len(points[a])]
Gridlike(points) == /\ Len(points) \in Nat \ {0}
                    /\ \E X : Sized(X, points, SizesOf(points), Len(points))
PointOf(points, i) == Point(points, SizesOf(points), Len(points), i)

\* The first points of a grid, in nested order.
Prefix(prices, points) ==
    /\ Repeated(prices) /\ Len(prices) \in Nat
    /\ \A i \in 0..(Len(prices) - 1) : prices[i + 1] = PointOf(points, i)

LEMMA TotalCounts ==
    ASSUME NEW points, Gridlike(points)
    PROVE  Product(SizesOf(points), 1, Len(points)) \in Nat
  <1>1. PICK n, sizes : n = Len(points) /\ sizes = SizesOf(points)
    OBVIOUS
  <1>2. PICK X : Sized(X, points, sizes, n)
    BY <1>1 DEF Gridlike
  <1>3. n \in Nat \ {0} /\ \A a \in 1..n : sizes[a] \in Nat \ {0}
    BY <1>1, <1>2 DEF Gridlike, Sized
  <1>4. 1 \in 1..(n + 1) /\ n \in (1 - 1)..n
    BY <1>3
  <1> QED BY <1>1, <1>3, <1>4, ProductSome

LEMMA WholeGrid ==
    ASSUME NEW points, Gridlike(points), NEW prices, Prefix(prices, points),
           Len(prices) = Product(SizesOf(points), 1, Len(points))
    PROVE  prices = Grid(points)
  <1>1. PICK n, sizes : n = Len(points) /\ sizes = SizesOf(points)
    OBVIOUS
  <1>2. PICK X : Sized(X, points, sizes, n)
    BY <1>1 DEF Gridlike
  <1>3. n \in Nat
    BY <1>1 DEF Gridlike
  <1>4. PICK grid : grid = Grid(points)
    OBVIOUS
  <1>5. Gridded(X, grid, points, sizes, n)
    BY <1>2, <1>3, <1>4, GridIs
  <1>6. PICK total \in Nat : total = Len(prices)
    BY DEF Prefix
  <1>7. /\ grid \in [1..total -> [1..n -> X]]
        /\ \A i \in 0..(total - 1) : grid[i + 1] = Point(points, sizes, n, i)
    BY <1>1, <1>5, <1>6 DEF Gridded
  <1>8. prices = [j \in 1..total |-> prices[j]]
    BY <1>6, RepeatedFacts DEF Prefix
  <1>9. ASSUME NEW j \in 1..total PROVE prices[j] = grid[j]
    <2>1. PICK i : i = j - 1
      OBVIOUS
    <2>2. i \in 0..(total - 1) /\ i + 1 = j
      BY <2>1
    <2>3. prices[i + 1] = Point(points, sizes, n, i)
      BY <1>1, <1>6, <2>2 DEF Prefix, PointOf
    <2> QED BY <1>7, <2>2, <2>3
  <1>10. grid = [j \in 1..total |-> grid[j]]
    BY <1>7
  <1> QED BY <1>4, <1>8, <1>9, <1>10

\* One axis makes a ladder.
Ladder(points, sizes) ==
    /\ Product(sizes, 1, 1) = sizes[1]
    /\ \A i \in 0..(sizes[1] - 1) :
         Point(points, sizes, 1, i) = [a \in 1..1 |-> points[1][i + 1]]

LEMMA OneAxis ==
    ASSUME NEW X, NEW points, NEW sizes, Sized(X, points, sizes, 1)
    PROVE  Ladder(points, sizes)
  <1>1. \A a \in 1..1 : sizes[a] \in Nat \ {0}
    BY DEF Sized
  <1>2. PICK m \in Nat \ {0} : m = sizes[1]
    BY <1>1
  <1>3. Product(sizes, 1, 0) = 1
    <2>1. 1 \in 1..(1 + 1) /\ 1 - 1 = 0
      OBVIOUS
    <2>2. Product(sizes, 1, 1 - 1) = 1
      BY <1>1, <2>1, ProductNone
    <2> QED BY <2>1, <2>2
  <1>4. Product(sizes, 1, 1) = m
    <2>1. 1 \in 1..(1 + 1) /\ 0 \in (1 - 1)..(1 - 1) /\ 0 + 1 = 1
      OBVIOUS
    <2>2. Product(sizes, 1, 0 + 1) = Product(sizes, 1, 0) * sizes[0 + 1]
      BY <1>1, <2>1, ProductNext
    <2>3. Product(sizes, 1, 1) = 1 * m
      BY <1>2, <1>3, <2>1, <2>2
    <2> QED BY <2>3
  <1>5. Product(sizes, 2, 1) = 1
    <2>1. 2 \in 1..(1 + 1) /\ 2 - 1 = 1
      OBVIOUS
    <2>2. Product(sizes, 2, 2 - 1) = 1
      BY <1>1, <2>1, ProductNone
    <2> QED BY <2>1, <2>2
  <1>6. ASSUME NEW i \in 0..(m - 1)
        PROVE  Point(points, sizes, 1, i) = [a \in 1..1 |-> points[1][i + 1]]
    <2>1. i \div 1 = i /\ i % m = i
      <3>1. i \in Nat /\ i < m
        OBVIOUS
      <3>2. i \div 1 = i
        BY <3>1
      <3>3. PICK d, t : d = i \div m /\ t = i % m
        OBVIOUS
      <3>4. d \in Nat /\ t \in Nat /\ t < m /\ i = d * m + t
        BY <3>1, <3>3
      <3>5. d = 0
        <4>1. ASSUME d # 0 PROVE FALSE
          <5>1. d * m >= m
            BY <3>4, <4>1
          <5> QED BY <3>1, <3>4, <5>1
        <4> QED BY <4>1
      <3>6. d * m = 0
        BY <3>5
      <3>7. t = i
        BY <3>1, <3>4, <3>6
      <3> QED BY <3>2, <3>3, <3>7
    <2>2. ASSUME NEW a \in 1..1
          PROVE  points[a][((i \div Product(sizes, a + 1, 1)) % sizes[a]) + 1] = points[1][i + 1]
      <3>1. a = 1 /\ a + 1 = 2
        OBVIOUS
      <3>2. Product(sizes, a + 1, 1) = 1
        BY <1>5, <3>1
      <3>3. (i \div Product(sizes, a + 1, 1)) % sizes[a] = i
        BY <1>2, <2>1, <3>1, <3>2
      <3> QED BY <3>1, <3>3
    <2> QED BY <2>2 DEF Point
  <1> QED BY <1>2, <1>4, <1>6 DEF Ladder

\* A ladder that is cut short is a shorter ladder.
LEMMA ShortLadder ==
    ASSUME NEW points, Gridlike(points), Len(points) = 1, NEW prices, Prefix(prices, points),
           Len(prices) # 0, Len(prices) < Product(SizesOf(points), 1, 1),
           NEW cut, cut = <<SubSeq(points[1], 1, Len(prices))>>
    PROVE  prices = Grid(cut)
  <1>1. PICK sizes, shorter : sizes = SizesOf(points) /\ shorter = SizesOf(cut)
    OBVIOUS
  <1>2. PICK X : Sized(X, points, sizes, 1)
    BY <1>1 DEF Gridlike
  <1>3. PICK ladder : ladder = points[1]
    OBVIOUS
  <1>4. PICK m \in Nat \ {0} : m = sizes[1]
    BY <1>2 DEF Sized
  <1>5. ladder \in Seq(X) /\ Len(ladder) = m
    BY <1>2, <1>3, <1>4 DEF Sized
  <1>6. /\ Product(sizes, 1, 1) = m
        /\ \A i \in 0..(m - 1) : Point(points, sizes, 1, i) = [a \in 1..1 |-> ladder[i + 1]]
    <2>1. Ladder(points, sizes)
      BY <1>2, OneAxis
    <2> QED BY <1>3, <1>4, <2>1 DEF Ladder
  <1>7. PICK k \in Nat \ {0} : k = Len(prices)
    BY DEF Prefix
  <1>8. k < m
    BY <1>1, <1>6, <1>7
  <1>9. PICK part : part = SubSeq(ladder, 1, k)
    OBVIOUS
  <1>10. part \in Seq(X) /\ Len(part) = k /\ \A i \in 1..k : part[i] = ladder[i]
    <2>1. 1 \in Int /\ k \in Int /\ \A i \in 1..k : ladder[i] \in X
      BY <1>5, <1>8
    <2>2. /\ part \in Seq(X) /\ Len(part) = IF 1 <= k THEN k - 1 + 1 ELSE 0
          /\ \A i \in 1..(k - 1 + 1) : part[i] = ladder[1 + i - 1]
      BY <1>9, <2>1, SubSeqProperties
    <2> QED BY <2>2
  <1>11. DOMAIN cut = 1..1 /\ cut[1] = part /\ Len(cut) = 1
    <2>1. cut = <<part>>
      BY <1>3, <1>7, <1>9
    <2> QED BY <2>1
  <1>12. DOMAIN shorter = 1..1 /\ shorter[1] = k
    BY <1>1, <1>10, <1>11 DEF SizesOf
  <1>13. Sized(X, cut, shorter, 1)
    <2>1. ASSUME NEW a \in 1..1
          PROVE  cut[a] \in Seq(X) /\ shorter[a] = Len(cut[a]) /\ shorter[a] \in Nat \ {0}
      <3>1. a = 1
        OBVIOUS
      <3> QED BY <1>7, <1>10, <1>11, <1>12, <3>1
    <2> QED BY <1>11, <2>1 DEF Sized
  <1>14. Gridlike(cut)
    BY <1>1, <1>11, <1>13 DEF Gridlike
  <1>15. /\ Product(shorter, 1, 1) = k
         /\ \A i \in 0..(k - 1) : Point(cut, shorter, 1, i) = [a \in 1..1 |-> part[i + 1]]
    <2>1. Ladder(cut, shorter)
      BY <1>13, OneAxis
    <2>2. shorter[1] = k /\ cut[1] = part
      BY <1>11, <1>12
    <2> QED BY <2>1, <2>2 DEF Ladder
  <1>16. Prefix(prices, cut)
    <2>1. ASSUME NEW i \in 0..(k - 1) PROVE prices[i + 1] = PointOf(cut, i)
      <3>1. prices[i + 1] = Point(points, sizes, 1, i)
        BY <1>1, <1>7 DEF Prefix, PointOf
      <3>2. i \in 0..(m - 1) /\ i + 1 \in 1..k
        BY <1>8
      <3>3. prices[i + 1] = [a \in 1..1 |-> ladder[i + 1]]
        BY <1>6, <3>1, <3>2
      <3>4. part[i + 1] = ladder[i + 1]
        BY <1>10, <3>2
      <3>5. PointOf(cut, i) = [a \in 1..1 |-> part[i + 1]]
        BY <1>1, <1>11, <1>15 DEF PointOf
      <3> QED BY <3>3, <3>4, <3>5
    <2> QED BY <1>7, <2>1 DEF Prefix
  <1> QED BY <1>1, <1>7, <1>11, <1>14, <1>15, <1>16, WholeGrid

\* The axes that are answered with so many prices, and the prices with the axes.
Cut(points, k) ==
    IF k = Product(SizesOf(points), 1, Len(points)) THEN points
    ELSE IF Len(points) = 1 THEN <<SubSeq(points[1], 1, k)>> ELSE <<>>
OfTheGrid(axes, prices) == IF axes # <<>> THEN prices = Grid(axes) ELSE Len(prices) >= 1

LEMMA TrimmedGrid ==
    ASSUME NEW points, Gridlike(points), NEW prices, Prefix(prices, points), Len(prices) # 0,
           Len(prices) <= Product(SizesOf(points), 1, Len(points)),
           NEW axes, axes = Cut(points, Len(prices))
    PROVE  OfTheGrid(axes, prices)
  <1>1. PICK total, k : total = Product(SizesOf(points), 1, Len(points)) /\ k = Len(prices)
    OBVIOUS
  <1>2. k \in Nat \ {0}
    BY <1>1 DEF Prefix
  <1>3. total \in Nat
    BY <1>1, TotalCounts
  <1>4. CASE k = total
    <2>1. axes = points /\ prices = Grid(points)
      BY <1>1, <1>4, WholeGrid DEF Cut
    <2> QED BY <1>1, <1>2, <2>1 DEF OfTheGrid
  <1>5. CASE k # total
    <2>1. CASE Len(points) = 1
      <3>1. PICK cut : cut = <<SubSeq(points[1], 1, k)>>
        OBVIOUS
      <3>2. axes = cut
        BY <1>1, <1>5, <2>1, <3>1 DEF Cut
      <3>3. k < Product(SizesOf(points), 1, 1)
        BY <1>1, <1>2, <1>3, <1>5, <2>1
      <3>4. prices = Grid(cut)
        BY <1>1, <1>2, <2>1, <3>1, <3>3, ShortLadder
      <3> QED BY <1>1, <1>2, <3>2, <3>4 DEF OfTheGrid
    <2>2. CASE Len(points) # 1
      <3>1. axes = <<>>
        BY <1>1, <1>5, <2>2 DEF Cut
      <3> QED BY <1>1, <1>2, <3>1 DEF OfTheGrid
    <2> QED BY <2>1, <2>2
  <1> QED BY <1>4, <1>5

\* A sweep under way has priced the first points of its grid, and the quotes of its
\* axes are at the last of them.
Walking(sw, axes, quotes) ==
    /\ Gridlike(sw.points)
    /\ \A a, b \in DOMAIN sw.points : axes[a].quote = axes[b].quote => a = b
    /\ sw.done \in Nat /\ Prefix(sw.prices, sw.points) /\ Len(sw.prices) = sw.done
    /\ sw.done # 0 => \A a \in DOMAIN sw.points : quotes[axes[a].quote] = sw.points[a][sw.at[a]]
GridInv ==
    /\ sweep = NoSweep \/ Walking(sweep, Asked.axes, graph.quotes)
    /\ PricesAreTheGrid

\* A step that answers no sweep, and moves none.
Quiet ==
    /\ \A k \in DOMAIN posts' :
         posts'[k].code = "swept" => \E j \in DOMAIN posts : posts'[k] = posts[j]
    /\ \/ sweep' = NoSweep
       \/ sweep' = sweep /\ Asked' = Asked /\ graph'.quotes = graph.quotes

LEMMA QuietGrid == ASSUME GridInv, Quiet PROVE GridInv'
  <1>1. PricesAreTheGrid'
    <2>1. ASSUME NEW k \in DOMAIN posts', posts'[k].code = "swept"
          PROVE  IF posts'[k].axes # <<>> THEN posts'[k].prices = Grid(posts'[k].axes)
                 ELSE Len(posts'[k].prices) >= 1
      <3>1. PICK j \in DOMAIN posts : posts'[k] = posts[j]
        BY <2>1 DEF Quiet
      <3> QED BY <2>1, <3>1 DEF GridInv, PricesAreTheGrid
    <2> QED BY <2>1 DEF PricesAreTheGrid
  <1>2. sweep' = NoSweep \/ Walking(sweep', Asked.axes', graph'.quotes)
    BY DEF Quiet, GridInv
  <1> QED BY <1>1, <1>2 DEF GridInv

\* One answer more, and not of a sweep.
LEMMA Answered ==
    ASSUME Repeated(posts), NEW x, posts' = Append(posts, x), x.code # "swept"
    PROVE  \A k \in DOMAIN posts' :
             posts'[k].code = "swept" => \E j \in DOMAIN posts : posts'[k] = posts[j]
  <1>1. /\ Len(posts) \in Nat
        /\ DOMAIN posts = 1..Len(posts) /\ DOMAIN posts' = 1..(Len(posts) + 1)
        /\ \A i \in 1..Len(posts) : posts'[i] = posts[i]
        /\ posts'[Len(posts) + 1] = x
    BY Appended
  <1>2. ASSUME NEW k \in DOMAIN posts', posts'[k].code = "swept"
        PROVE  \E j \in DOMAIN posts : posts'[k] = posts[j]
    <2>1. k # Len(posts) + 1
      BY <1>1, <1>2
    <2>2. k \in DOMAIN posts /\ posts'[k] = posts[k]
      BY <1>1, <2>1
    <2> QED BY <2>2
  <1> QED BY <1>2

LEMMA AnswerQuiet ==
    ASSUME Inv, NEW code, code # "swept", posts' = Append(posts, Terminal(code)), sweep' = NoSweep
    PROVE  Quiet
  <1>1. Repeated(posts)
    BY DEF Inv, LoopInv
  <1>2. PICK x : x = Terminal(code)
    OBVIOUS
  <1>3. x.code # "swept"
    BY <1>2 DEF Terminal
  <1>4. posts' = Append(posts, x)
    BY <1>2
  <1> QED BY <1>1, <1>3, <1>4, Answered DEF Quiet

LEMMA DropQuiet == ASSUME Inv, Drop PROVE Quiet
  <1>1. Repeated(posts)
    BY DEF Inv, LoopInv
  <1>2. PICK a, b : a = Terminal("error") /\ b = [Terminal("died") EXCEPT !.id = 0]
    OBVIOUS
  <1>3. a.code = "error" /\ b.code = "died"
    BY <1>2 DEF Terminal
  <1>4. posts' = posts \o <<a, b>> /\ sweep' = NoSweep
    BY <1>2 DEF Drop
  <1>5. PICK X : X = Range(posts) \union {a, b}
    OBVIOUS
  <1>6. posts \in Seq(X) /\ <<a, b>> \in Seq(X)
    <2>1. posts \in Seq(Range(posts)) /\ Range(posts) \subseteq X /\ a \in X /\ b \in X
      BY <1>1, <1>5 DEF Repeated
    <2> QED BY <2>1
  <1>7. PICK n \in Nat : n = Len(posts) /\ DOMAIN posts = 1..n
    BY <1>1, RepeatedFacts
  <1>8. /\ DOMAIN posts' = 1..(n + 2) /\ \A k \in 1..n : posts'[k] = posts[k]
        /\ posts'[n + 1] = a /\ posts'[n + 2] = b
    <2>1. PICK two : two = <<a, b>>
      OBVIOUS
    <2>2. two \in Seq(X) /\ Len(two) = 2 /\ two[1] = a /\ two[2] = b
      BY <1>6, <2>1
    <2>3. posts' = posts \o two
      BY <1>4, <2>1
    <2>c. PICK all : all = posts \o two
      OBVIOUS
    <2>d. /\ all \in Seq(X) /\ Len(all) = Len(posts) + Len(two)
          /\ \A k \in 1..(Len(posts) + Len(two)) :
               all[k] = IF k <= Len(posts) THEN posts[k] ELSE two[k - Len(posts)]
      BY <1>6, <2>2, <2>c, ConcatProperties
    <2>4. /\ posts' \in Seq(X) /\ Len(posts') = n + 2
          /\ \A k \in 1..(n + 2) : posts'[k] = IF k <= n THEN posts[k] ELSE two[k - n]
      BY <1>7, <2>2, <2>3, <2>c, <2>d
    <2>p. /\ n + 1 \in 1..(n + 2) /\ ~(n + 1 <= n) /\ (n + 1) - n = 1
          /\ n + 2 \in 1..(n + 2) /\ ~(n + 2 <= n) /\ (n + 2) - n = 2
      OBVIOUS
    <2>q. PICK y, z : y = n + 1 /\ z = n + 2
      OBVIOUS
    <2>r. posts'[y] = two[y - n] /\ posts'[z] = two[z - n]
      BY <2>4, <2>p, <2>q
    <2>5. posts'[n + 1] = two[1] /\ posts'[n + 2] = two[2]
      BY <2>p, <2>q, <2>r
    <2> QED BY <2>2, <2>4, <2>5
  <1>9. ASSUME NEW k \in DOMAIN posts', posts'[k].code = "swept"
        PROVE  \E j \in DOMAIN posts : posts'[k] = posts[j]
    <2>1. k # n + 1 /\ k # n + 2
      BY <1>3, <1>8, <1>9
    <2>2. k \in 1..n
      BY <1>8, <2>1
    <2> QED BY <1>7, <1>8, <2>2
  <1> QED BY <1>4, <1>9 DEF Quiet

\* Nothing of the loop answers a sweep, and what is queued behind one leaves it.
LEMMA LoopQuiet == ASSUME Inv, OpenSession \/ Loop PROVE Quiet
  <1>1. LoopInv /\ SweepInv
    BY DEF Inv
  <1>2. CASE OpenSession
    <2>1. phase = "opening" /\ UNCHANGED <<posts, sweep>>
      BY <1>2 DEF OpenSession
    <2>2. graph.refused
      BY <2>1 DEF Inv, GraphInv
    <2>3. sweep' = NoSweep
      BY <1>1, <2>1, <2>2 DEF SweepInv
    <2> QED BY <2>1, <2>3 DEF Quiet
  <1>3. CASE Kill \/ LandDeath
    <2>1. posts' = <<>> /\ sweep' = NoSweep
      BY <1>3 DEF Kill, LandDeath, Rebuild
    <2>2. DOMAIN posts' = {}
      BY <2>1
    <2> QED BY <2>1, <2>2 DEF Quiet
  <1>4. CASE LandAnswer
    <2>1. posts # <<>> /\ posts' = Tail(posts) /\ UNCHANGED <<script, graph, queue, sweep>>
      BY <1>4 DEF LandAnswer
    <2>2. \A k \in DOMAIN posts' : posts'[k] = posts[k + 1] /\ k + 1 \in DOMAIN posts
      <3>1. Repeated(posts)
        BY <1>1 DEF LoopInv
      <3> QED BY <2>1, <3>1, Tailed
    <2>3. Asked' = Asked
      BY <2>1 DEF Asked, Request
    <2> QED BY <2>1, <2>2, <2>3 DEF Quiet
  <1>5. CASE \E i \in DOMAIN script.requests : Send(i)
    <2>1. PICK i \in DOMAIN script.requests : Send(i)
      BY <1>5
    <2>2. PICK x : queue' = Append(queue, x) /\ UNCHANGED <<script, graph, sweep, posts>>
      BY <2>1 DEF Send
    <2>3. CASE sweep = NoSweep
      BY <2>2, <2>3 DEF Quiet
    <2>4. CASE sweep # NoSweep
      <3>1. queue # <<>> /\ Repeated(queue)
        BY <1>1, <2>4 DEF SweepInv, LoopInv
      <3>2. Head(queue') = Head(queue)
        BY <2>2, <3>1, Headed
      <3>3. Asked' = Asked
        BY <2>2, <3>2 DEF Asked, Request
      <3> QED BY <2>2, <3>3 DEF Quiet
    <2> QED BY <2>3, <2>4
  <1> QED BY <1>2, <1>3, <1>4, <1>5 DEF Loop

\* Of the thread's steps, a sweep is moved by its own, and answered when it ends.
LEMMA ThreadQuiet ==
    ASSUME Inv, Thread, ~BeginSweep, ~SweepPoint, ~SweepFinish
    PROVE  Quiet
  <1>1. CASE RefuseUpdate \/ RefuseSweep \/ ServeWithoutGraph
    <2>1. Answer("error") /\ sweep = NoSweep
      <3>1. CASE ServeWithoutGraph
        BY <3>1 DEF ServeWithoutGraph, Inv, SweepInv
      <3>2. CASE RefuseUpdate \/ RefuseSweep
        BY <3>2 DEF RefuseUpdate, RefuseSweep, Serving
      <3> QED BY <1>1, <3>1, <3>2
    <2>2. posts' = Append(posts, Terminal("error")) /\ sweep' = NoSweep
      BY <2>1 DEF Answer
    <2> QED BY <2>2, AnswerQuiet
  <1>2. CASE ServePrice
    <2>1. PICK code \in {"error", "result"} : Answer(code)
      BY <1>2 DEF ServePrice
    <2>2. sweep = NoSweep
      BY <1>2 DEF ServePrice, Serving
    <2>3. posts' = Append(posts, Terminal(code)) /\ sweep' = NoSweep
      BY <2>1, <2>2 DEF Answer
    <2> QED BY <2>3, AnswerQuiet
  <1>3. CASE Apply
    <2>1. posts' = Append(posts, Terminal("ack")) /\ sweep' = NoSweep
      BY <1>3 DEF Apply, Serving
    <2> QED BY <2>1, AnswerQuiet
  <1>4. CASE ApplyPartly
    <2>1. posts' = Append(posts, Terminal("error")) /\ sweep' = NoSweep
      BY <1>4 DEF ApplyPartly, Serving
    <2> QED BY <2>1, AnswerQuiet
  <1>5. CASE ApplyBreaks \/ ServeDirty \/ SweepDirty \/ SweepBreaks
    <2>1. Drop
      BY <1>5 DEF ApplyBreaks, ServeDirty, SweepDirty, SweepBreaks
    <2> QED BY <2>1, DropQuiet
  <1>6. CASE SweepFails
    <2>1. PICK read : EndSweep(read, Terminal("error"))
      BY <1>6 DEF SweepFails
    <2>2. posts' = Append(posts, Terminal("error")) /\ sweep' = NoSweep
      BY <2>1 DEF EndSweep
    <2> QED BY <2>2, AnswerQuiet
  <1> QED BY <1>1, <1>2, <1>3, <1>4, <1>5, <1>6 DEF Thread

LEMMA BeginGrid == ASSUME Inv, GridInv, BeginSweep PROVE GridInv'
  <1>1. LoopInv
    BY DEF Inv
  <1>2. PICK points :
          points = [a \in DOMAIN Asked.axes |->
                       PointsOf(Asked.axes[a], graph.quotes[Asked.axes[a].quote])]
    OBVIOUS
  <1>3. /\ queue # <<>> /\ Asked.kind = "sweep" /\ Plans(Asked.axes)
        /\ \E at : sweep' = [running |-> TRUE, before |-> graph.quotes, done |-> 0,
                             points |-> points, at |-> at, prices |-> <<>>]
        /\ UNCHANGED <<queue, posts, loop>>
    BY <1>2 DEF BeginSweep, Serving, Asked
  <1>4. PICK axes : axes = Asked.axes
    OBVIOUS
  <1>5. /\ Repeated(axes)
        /\ \A a \in DOMAIN axes : Repeated(axes[a].values) /\ axes[a].steps \in Nat
    BY <1>1, <1>3, <1>4, AskedFacts DEF Sendable
  <1>6. Plans(axes)
    BY <1>3, <1>4
  <1>7. /\ Len(points) \in Nat \ {0} /\ DOMAIN points = DOMAIN axes
        /\ \E X : Sized(X, points, SizesOf(points), Len(points))
    <2>1. PICK originals : originals = [a \in DOMAIN axes |-> graph.quotes[axes[a].quote]]
      OBVIOUS
    <2>2. points = [a \in DOMAIN axes |-> PointsOf(axes[a], originals[a])]
      BY <1>2, <1>4, <2>1
    <2>3. PICK sizes : sizes = [a \in DOMAIN points |-> Len(points[a])]
      OBVIOUS
    <2>4. /\ Len(points) \in Nat \ {0} /\ DOMAIN points = DOMAIN axes
          /\ \E X : Sized(X, points, [a \in DOMAIN points |-> Len(points[a])], Len(points))
      BY <1>5, <1>6, <2>2, SomeOfASweep
    <2> QED BY <2>3, <2>4 DEF SizesOf
  <1>8. ASSUME NEW a \in DOMAIN axes, NEW b \in DOMAIN axes, axes[a].quote = axes[b].quote
        PROVE  a = b
    <2>1. a \in Nat /\ b \in Nat
      BY <1>5, RepeatedFacts
    <2>2. ~(a < b) /\ ~(b < a)
      BY <1>6, <1>8 DEF Plans
    <2> QED BY <2>1, <2>2
  <1>9. Asked' = Asked
    BY <1>3 DEF Asked, Request, loop
  <1>10. /\ sweep'.done = 0 /\ sweep'.points = points /\ sweep'.prices = <<>>
    BY <1>3
  <1>11. Prefix(sweep'.prices, points) /\ Len(sweep'.prices) = 0
    <2>1. PICK s : s = sweep'.prices
      OBVIOUS
    <2>2. s = <<>>
      BY <1>10, <2>1
    <2>3. Repeated(s) /\ Len(s) = 0
      BY <2>2 DEF Repeated
    <2>4. Len(s) \in Nat /\ \A i \in 0..(Len(s) - 1) : s[i + 1] = PointOf(points, i)
      BY <2>3
    <2> QED BY <2>1, <2>3, <2>4 DEF Prefix
  <1>12. Walking(sweep', axes, graph'.quotes)
    <2>1. Gridlike(sweep'.points)
      BY <1>7, <1>10 DEF Gridlike
    <2>2. \A a, b \in DOMAIN sweep'.points : axes[a].quote = axes[b].quote => a = b
      BY <1>7, <1>8, <1>10
    <2>3. sweep'.done = 0 /\ sweep'.done \in Nat
      BY <1>10
    <2>4. Prefix(sweep'.prices, sweep'.points) /\ Len(sweep'.prices) = sweep'.done
      BY <1>10, <1>11
    <2> QED BY <2>1, <2>2, <2>3, <2>4 DEF Walking
  <1>13. PricesAreTheGrid'
    BY <1>3 DEF GridInv, PricesAreTheGrid
  <1> QED BY <1>4, <1>9, <1>12, <1>13 DEF GridInv

\* At each point the quotes of the axes are at its coordinates: those that were not
\* written are already there.
LEMMA AtCoordinates ==
    ASSUME Inv, GridInv, sweep.running, NEW a \in Axes
    PROVE  /\ AtPoint[Asked.axes[a].quote] = PointOf(sweep.points, sweep.done)[a]
           /\ AtPoint[Asked.axes[a].quote] = sweep.points[a][Coordinates(sweep.done)[a]]
  <1>1. Sweeping(sweep, Asked, graph.quotes)
    BY UnderWay
  <1>2. Walking(sweep, Asked.axes, graph.quotes)
    <2>1. sweep # NoSweep
      BY DEF NoSweep
    <2> QED BY <2>1 DEF GridInv
  <1>3. PICK q, at : q = Asked.axes[a].quote /\ at = Coordinates(sweep.done)
    OBVIOUS
  <1>4. q \in Quotes
    BY <1>1, <1>3 DEF Sweeping, Quotes, Axes
  <1>5. (CHOOSE b \in Axes : Asked.axes[b].quote = q) = a
    BY <1>2, <1>3 DEF Walking, Axes
  <1>6. AtPoint[q] = IF \E b \in Moved(at) : Asked.axes[b].quote = q
                     THEN sweep.points[a][at[a]] ELSE graph.quotes[q]
    BY <1>3, <1>4, <1>5 DEF AtPoint
  <1>7. AtPoint[q] = sweep.points[a][at[a]]
    <2>1. CASE a \in Moved(at)
      BY <1>3, <1>6, <2>1
    <2>2. CASE a \notin Moved(at)
      <3>1. sweep.done # 0 /\ sweep.at[a] = at[a]
        BY <2>2 DEF Moved
      <3>2. graph.quotes[q] = sweep.points[a][sweep.at[a]]
        BY <1>2, <1>3, <3>1 DEF Walking, Axes
      <3> QED BY <1>6, <3>1, <3>2
    <2> QED BY <2>1, <2>2
  <1>8. PointOf(sweep.points, sweep.done)[a] = sweep.points[a][at[a]]
    <2>1. PICK n, sizes : n = Len(sweep.points) /\ sizes = SizesOf(sweep.points)
      OBVIOUS
    <2>2. DOMAIN sweep.points = 1..n
      BY <1>2, <2>1 DEF Walking, Gridlike, Sized
    <2>3. at[a] = ((sweep.done \div Product(sizes, a + 1, n)) % sizes[a]) + 1
      BY <1>3, <2>1 DEF Coordinates, Lengths, SizesOf
    <2>4. Point(sweep.points, sizes, n, sweep.done)[a] =
            sweep.points[a][((sweep.done \div Product(sizes, a + 1, n)) % sizes[a]) + 1]
      BY <2>2 DEF Point, Axes
    <2> QED BY <2>1, <2>3, <2>4 DEF PointOf
  <1> QED BY <1>3, <1>7, <1>8

\* A point that is priced is the next of the grid.
LEMMA PricedFacts ==
    ASSUME Inv, GridInv, sweep.running
    PROVE  Prefix(Priced, sweep.points) /\ Len(Priced) = sweep.done + 1
  <1>1. Walking(sweep, Asked.axes, graph.quotes)
    <2>1. sweep # NoSweep
      BY DEF NoSweep
    <2> QED BY <2>1 DEF GridInv
  <1>n. PICK n \in Nat : n = sweep.done
    BY <1>1 DEF Walking
  <1>2. PICK points, prices : points = sweep.points /\ prices = sweep.prices
    OBVIOUS
  <1>3. Prefix(prices, points) /\ Len(prices) = n
    BY <1>1, <1>2, <1>n DEF Walking
  <1>4. PICK x : x = [a \in Axes |-> AtPoint[Asked.axes[a].quote]]
    OBVIOUS
  <1>5. x = PointOf(points, n)
    <2>1. PICK p : p = PointOf(points, n)
      OBVIOUS
    <2>2. p = [a \in Axes |-> p[a]]
      <3>1. Axes = 1..Len(points)
        BY <1>1, <1>2 DEF Walking, Gridlike, Sized, Axes
      <3> QED BY <2>1, <3>1 DEF PointOf, Point
    <2>3. ASSUME NEW a \in Axes PROVE AtPoint[Asked.axes[a].quote] = p[a]
      BY <1>2, <1>n, <2>1, AtCoordinates
    <2>4. x = [a \in Axes |-> p[a]]
      BY <1>4, <2>3
    <2> QED BY <2>1, <2>2, <2>4
  <1>6. PICK next : next = Append(prices, x)
    OBVIOUS
  <1>7. /\ Repeated(next) /\ Len(next) = n + 1
        /\ \A i \in 1..n : next[i] = prices[i]
        /\ next[n + 1] = x
    <2>1. Repeated(prices)
      BY <1>3 DEF Prefix
    <2> QED BY <1>3, <1>6, <2>1, Appended
  <1>8. ASSUME NEW i \in 0..n PROVE next[i + 1] = PointOf(points, i)
    <2>1. CASE i = n
      BY <1>5, <1>7, <2>1
    <2>2. CASE i # n
      <3>1. i \in 0..(n - 1) /\ i + 1 \in 1..n
        BY <2>2
      <3>2. prices[i + 1] = PointOf(points, i)
        BY <1>3, <3>1 DEF Prefix
      <3> QED BY <1>7, <3>1, <3>2
    <2> QED BY <2>1, <2>2
  <1>9. Prefix(next, points)
    <2>1. Len(next) - 1 = n /\ Len(next) \in Nat
      BY <1>7
    <2> QED BY <1>7, <1>8, <2>1 DEF Prefix
  <1>10. Priced = next
    BY <1>2, <1>4, <1>6 DEF Priced
  <1> QED BY <1>2, <1>n, <1>7, <1>9, <1>10

LEMMA SweepPointGrid == ASSUME Inv, GridInv, SweepPoint PROVE GridInv'
  <1>1. /\ sweep.running /\ graph' = There /\ UNCHANGED <<queue, posts, script>>
        /\ sweep' = [sweep EXCEPT !.done = @ + 1, !.at = Coordinates(sweep.done), !.prices = Priced]
    BY DEF SweepPoint, loop
  <1>2. Walking(sweep, Asked.axes, graph.quotes)
    <2>1. sweep # NoSweep
      BY <1>1 DEF NoSweep
    <2> QED BY <2>1 DEF GridInv
  <1>3. PICK at, prices : at = Coordinates(sweep.done) /\ prices = Priced
    OBVIOUS
  <1>4. Prefix(prices, sweep.points) /\ Len(prices) = sweep.done + 1
    BY <1>1, <1>3, PricedFacts
  <1>5. Asked' = Asked
    BY <1>1 DEF Asked, Request
  <1>6. graph'.quotes = AtPoint
    <2>1. There.quotes = AtPoint
      BY <1>1, AtPointFacts
    <2> QED BY <1>1, <2>1
  <1>7. /\ sweep'.done = sweep.done + 1 /\ sweep'.points = sweep.points
        /\ sweep'.at = at /\ sweep'.prices = prices
    <2>1. DOMAIN sweep = {"running", "before", "done", "points", "at", "prices"}
      BY <1>1, UnderWay DEF Sweeping
    <2>2. sweep' = [sweep EXCEPT !.done = @ + 1, !.at = at, !.prices = prices]
      BY <1>1, <1>3
    <2> QED BY <2>1, <2>2
  <1>8. ASSUME NEW a \in DOMAIN sweep.points
        PROVE  AtPoint[Asked.axes[a].quote] = sweep.points[a][at[a]]
    <2>1. a \in Axes
      BY DEF Axes
    <2> QED BY <1>1, <1>3, <2>1, AtCoordinates
  <1>9. Walking(sweep', Asked.axes, AtPoint)
    <2>1. /\ Gridlike(sweep'.points) /\ sweep'.done \in Nat
          /\ \A a, b \in DOMAIN sweep'.points : Asked.axes[a].quote = Asked.axes[b].quote => a = b
      BY <1>2, <1>7 DEF Walking
    <2>2. Prefix(sweep'.prices, sweep'.points) /\ Len(sweep'.prices) = sweep'.done
      BY <1>4, <1>7
    <2>3. \A a \in DOMAIN sweep'.points :
             AtPoint[Asked.axes[a].quote] = sweep'.points[a][sweep'.at[a]]
      BY <1>7, <1>8
    <2> QED BY <2>1, <2>2, <2>3 DEF Walking
  <1>10. PricesAreTheGrid'
    BY <1>1 DEF GridInv, PricesAreTheGrid
  <1> QED BY <1>5, <1>6, <1>9, <1>10 DEF GridInv

\* What a sweep answers, whole or stopped.
LEMMA SweepFinishGrid == ASSUME Inv, GridInv, SweepFinish PROVE GridInv'
  <1>1. sweep.running /\ Repeated(posts)
    BY DEF SweepFinish, Inv, LoopInv
  <1>2. PICK drawn, axes, prices :
          /\ EndSweep(Asked.uses,
                IF drawn
                THEN [Terminal("swept") EXCEPT !.axes = axes, !.prices = prices]
                ELSE Terminal("error"))
          /\ axes = Trimmed(sweep.points, sweep.done + 1) /\ prices = Priced
    BY DEF SweepFinish
  <1>3. PICK swept, failed :
          /\ swept = [Terminal("swept") EXCEPT !.axes = axes, !.prices = prices]
          /\ failed = Terminal("error")
    OBVIOUS
  <1>4. swept.code = "swept" /\ swept.axes = axes /\ swept.prices = prices /\ failed.code = "error"
    BY <1>3 DEF Terminal
  <1>5. EndSweep(Asked.uses, IF drawn THEN swept ELSE failed)
    BY <1>2, <1>3
  <1>6. PICK x \in {swept, failed} : EndSweep(Asked.uses, x)
    BY <1>5
  <1>7. posts' = Append(posts, x) /\ sweep' = NoSweep
    BY <1>6 DEF EndSweep
  <1>8. CASE x = failed
    <2>1. x.code # "swept"
      BY <1>4, <1>8
    <2>2. Quiet
      BY <1>1, <1>7, <2>1, Answered DEF Quiet
    <2> QED BY <2>2, QuietGrid
  <1>9. CASE x = swept
    <2>1. Walking(sweep, Asked.axes, graph.quotes)
      <3>1. sweep # NoSweep
        BY <1>1 DEF NoSweep
      <3> QED BY <3>1 DEF GridInv
    <2>2. PICK points : points = sweep.points
      OBVIOUS
    <2>3. PICK k \in Nat \ {0} : k = sweep.done + 1
      BY <2>1 DEF Walking
    <2>4. Gridlike(points) /\ Prefix(prices, points) /\ Len(prices) = k
      BY <1>1, <1>2, <2>1, <2>2, <2>3, PricedFacts DEF Walking
    <2>5. k <= Product(SizesOf(points), 1, Len(points))
      <3>1. PICK total : total = Product(SizesOf(points), 1, Len(points))
        OBVIOUS
      <3>2. sweep.done < total
        BY <1>1, <2>2, <3>1, UnderWay DEF Sweeping, SizesOf
      <3>3. total \in Nat /\ sweep.done \in Nat
        BY <2>1, <2>4, <3>1, TotalCounts DEF Walking
      <3> QED BY <2>3, <3>1, <3>2, <3>3
    <2>6. axes = Cut(points, Len(prices))
      BY <1>2, <2>2, <2>3, <2>4 DEF Trimmed, Total, Lengths, SizesOf, Cut
    <2>7. OfTheGrid(axes, prices)
      BY <2>3, <2>4, <2>5, <2>6, TrimmedGrid
    <2>8. /\ Len(posts) \in Nat
          /\ DOMAIN posts = 1..Len(posts) /\ DOMAIN posts' = 1..(Len(posts) + 1)
          /\ \A i \in 1..Len(posts) : posts'[i] = posts[i]
          /\ posts'[Len(posts) + 1] = x
      BY <1>1, <1>7, Appended
    <2>9. ASSUME NEW i \in DOMAIN posts', posts'[i].code = "swept"
          PROVE  IF posts'[i].axes # <<>> THEN posts'[i].prices = Grid(posts'[i].axes)
                 ELSE Len(posts'[i].prices) >= 1
      <3>1. CASE i = Len(posts) + 1
        <4>1. posts'[i].axes = axes /\ posts'[i].prices = prices
          BY <1>4, <1>9, <2>8, <3>1
        <4> QED BY <2>7, <4>1 DEF OfTheGrid
      <3>2. CASE i # Len(posts) + 1
        <4>1. i \in DOMAIN posts /\ posts'[i] = posts[i]
          BY <2>8, <3>2
        <4> QED BY <2>9, <4>1 DEF GridInv, PricesAreTheGrid
      <3> QED BY <3>1, <3>2
    <2>10. PricesAreTheGrid'
      BY <2>9 DEF PricesAreTheGrid
    <2> QED BY <1>7, <2>10 DEF GridInv, NoSweep
  <1> QED BY <1>6, <1>8, <1>9

LEMMA StepGrid == ASSUME Inv, GridInv, [Next]_vars PROVE GridInv'
  <1>1. CASE OpenSession \/ Loop
    BY <1>1, LoopQuiet, QuietGrid
  <1>2. CASE Thread
    <2>1. CASE BeginSweep
      BY <2>1, BeginGrid
    <2>2. CASE SweepPoint
      BY <2>2, SweepPointGrid
    <2>3. CASE SweepFinish
      BY <2>3, SweepFinishGrid
    <2>4. CASE ~BeginSweep /\ ~SweepPoint /\ ~SweepFinish
      <3>1. Quiet
        BY <1>2, <2>4, ThreadQuiet
      <3> QED BY <3>1, QuietGrid
    <2> QED BY <2>1, <2>2, <2>3, <2>4
  <1>3. CASE UNCHANGED vars
    <2>1. UNCHANGED <<script, graph, queue, sweep, posts>>
      BY <1>3 DEF vars, seat
    <2>2. Asked' = Asked
      BY <2>1 DEF Asked, Request
    <2>3. Quiet
      BY <2>1, <2>2 DEF Quiet
    <2> QED BY <2>3, QuietGrid
  <1> QED BY <1>1, <1>2, <1>3 DEF Next

\* The prices of a sweep are those of its grid, for every number of axes and of points
\* on each, wherever it was stopped: with every axis given, one per combination in
\* nested order, and with none, a grid that was cut short (serveScenario's strides,
\* its writes of what moved, the trimming of its axes).
THEOREM SessionPricesAreTheGrid == Spec => []PricesAreTheGrid
  <1>1. Init => GridInv
    <2> SUFFICES ASSUME Init PROVE GridInv
      OBVIOUS
    <2>1. sweep = NoSweep /\ posts = <<>>
      BY DEF Init
    <2>2. DOMAIN posts = {}
      BY <2>1
    <2> QED BY <2>1, <2>2 DEF GridInv, PricesAreTheGrid
  <1>2. Inv /\ GridInv /\ [Next]_vars => GridInv'
    BY StepGrid
  <1>3. GridInv => PricesAreTheGrid
    BY DEF GridInv
  <1> QED BY <1>1, <1>2, <1>3, Invariance, PTL DEF Spec
=============================================================================
