-------------------------------- MODULE Market --------------------------------
(***************************************************************************)
(* The market a session is built from (Session's constructor in            *)
(* session/session.cpp): objects of an OpenSession, in the order sent, in  *)
(* one namespace, each naming objects before it.                           *)
(*                                                                         *)
(* A value is an integer; a correlation is in tenths, so One is 1.0.  A    *)
(* Number names a quote and moves with it, or is a constant.  "wrong" has  *)
(* the fields of an object, beyond those it is modelled with, that are     *)
(* refused when they are read: a tenor that does not parse, a flag left    *)
(* unset, an extrapolation that is not built.  A curve and a volatility    *)
(* are the quotes they observe; what QuantLib computes from them, and what *)
(* its own constructors refuse, is left out.                               *)
(***************************************************************************)
EXTENDS Conventions, FiniteSets, SequencesExt, TLC

CONSTANTS
    MaxLabels,      \* kMaxCorrelationLabels
    MaxAxisPoints   \* kMaxSurfaceAxisPoints

ASSUME MarketAssumption == MaxLabels \in Nat /\ MaxAxisPoints \in Nat

One == 10
None == ""

Live(q) == [source |-> "quote", quote |-> q, value |-> 0]
Fixed(v) == [source |-> "fixed", quote |-> None, value |-> v]

NoGraph == [quotes |-> <<>>, curves |-> <<>>, vols |-> <<>>, indices |-> <<>>,
            correlations |-> <<>>, fixings |-> <<>>, ids |-> <<>>, waiting |-> {},
            refused |-> FALSE]

\* number(): a quote of the graph, or a constant.
Resolves(g, n) == n.source = "fixed" \/ (n.source = "quote" /\ n.quote \in DOMAIN g.quotes)
\* fixedNumber(): where only a constant can be read.
Constant(n) == n.source = "fixed"
Number(quotes, n) == IF n.source = "quote" THEN quotes[n.quote] ELSE n.value
Observed(ns) == {n.quote : n \in {m \in ns : m.source = "quote"}}
-----------------------------------------------------------------------------
(* Correlations *)

\* Real positive semi-definiteness up to three labels, where the entries are in
\* range and symmetric: a necessary condition beyond.
Possible(m) ==
    \A i, j, k \in DOMAIN m :
        i < j /\ j < k =>
            LET a == m[i][j]
                b == m[j][k]
                c == m[i][k]
            IN One * One * One + 2 * a * b * c >= One * (a * a + b * b + c * c)

\* checkCorrelation, on the values the entries have.
IsCorrelation(m) ==
    /\ \A i, j \in DOMAIN m : m[i][j] \in -One..One /\ m[i][j] = m[j][i]
    /\ \A i \in DOMAIN m : m[i][i] = One
    /\ Possible(m)
Matrix(quotes, entries) ==
    [i \in DOMAIN entries |-> [j \in DOMAIN entries |-> Number(quotes, entries[i][j])]]
-----------------------------------------------------------------------------
(* One object on the graph of those before it *)

\* An interpolated curve copies its nodes, so they are constants; it starts today.
NodesBuild(o, interpolator) ==
    /\ o.interpolator \in {"UNSPECIFIED", interpolator}
    /\ Len(o.nodes) >= 2
    /\ \A k \in DOMAIN o.nodes : IsDate(o.nodes[k].date) /\ Constant(o.nodes[k].value)
    /\ o.nodes[1].date.day = 0

\* buildHelper: the rate lives on a quote, and the index is there for its
\* conventions.  The helper discounts on the curve it builds.  Only a swap reads
\* more than the tenor of its pillar.
PillarBuilds(g, p) ==
    /\ p.quote \in DOMAIN g.quotes
    /\ p.index \in DOMAIN g.indices
    /\ p.discount = None
    /\ p.kind \in {"DEPOSIT", "SWAP", "OIS"}
    /\ "tenor" \notin p.wrong /\ (p.kind = "SWAP" => p.wrong = {})
    /\ p.kind = "OIS" => g.indices[p.index].family = "OVERNIGHT"

\* makeCurve: the traits and interpolators that are compiled in.
Compiled(o) ==
    /\ o.traits \in {"DISCOUNT", "ZERO_YIELD", "FORWARD_RATE"}
    /\ o.interpolator \in {"LINEAR", "LOG_LINEAR", "CUBIC"}

CurveBuilds(g, o) ==
    /\ IsDayCounter(o.day_counter)
    /\ \/ /\ o.shape = "flat" /\ Resolves(g, o.rate)
          /\ o.compounding \in Compoundings /\ o.frequency \in Frequencies
       \/ /\ o.shape = "zero" /\ NodesBuild(o, "LINEAR") /\ IsCalendar(o.calendar)
          /\ o.compounding \in Compoundings /\ o.frequency \in Frequencies
       \/ o.shape = "discount" /\ NodesBuild(o, "LOG_LINEAR")
       \/ /\ o.shape = "bootstrap" /\ o.pillars # <<>> /\ Compiled(o)
          /\ \A k \in DOMAIN o.pillars : PillarBuilds(g, o.pillars[k])

\* The quotes a curve moves with: copied nodes observe nothing.
CurveFeeds(o) ==
    CASE o.shape = "flat" -> Observed({o.rate})
      [] o.shape = "bootstrap" -> {o.pillars[k].quote : k \in DOMAIN o.pillars}
      [] OTHER -> {}

\* The surface is refused before either axis is multiplied by the other.
VolatilityBuilds(g, o) ==
    /\ IsDayCounter(o.day_counter) /\ o.wrong = {}
    /\ \/ o.shape = "constant" /\ Resolves(g, o.volatility)
       \/ /\ o.shape = "variance_curve" /\ o.nodes # <<>>
          /\ \A k \in DOMAIN o.nodes : Constant(o.nodes[k])
       \/ /\ o.shape = "variance_surface"
          /\ o.expiries <= MaxAxisPoints /\ o.strikes <= MaxAxisPoints
          /\ Len(o.nodes) = o.expiries * o.strikes
          /\ \A k \in DOMAIN o.nodes : Constant(o.nodes[k])
VolatilityFeeds(o) == IF o.shape = "constant" THEN Observed({o.volatility}) ELSE {}

IndexBuilds(o) ==
    /\ IsDayCounter(o.day_counter) /\ IsCalendar(o.calendar)
    /\ o.name # None
    /\ \/ o.family = "IBOR" /\ o.convention \in BusinessDayConventions /\ o.wrong = {}
       \/ o.family = "OVERNIGHT"

CorrelationBuilds(g, o) ==
    /\ Len(o.labels) \in 2..MaxLabels
    /\ IsInjective(o.labels) /\ None \notin Range(o.labels)
    /\ Len(o.entries) = Len(o.labels)
    /\ \A i \in DOMAIN o.entries : Len(o.entries[i]) = Len(o.labels)
    /\ \A i, j \in DOMAIN o.entries : Resolves(g, o.entries[i][j])
    /\ IsCorrelation(Matrix(g.quotes, o.entries))

FixingsBuild(g, o) ==
    /\ o.index \in DOMAIN g.indices
    /\ \A k \in DOMAIN o.rows : IsDate(o.rows[k].date)

Builds(g, o) ==
    CASE o.kind = "quote" -> TRUE
      [] o.kind = "curve" -> CurveBuilds(g, o)
      [] o.kind = "volatility" -> VolatilityBuilds(g, o)
      [] o.kind = "index" -> IndexBuilds(o)
      [] o.kind = "correlation" -> CorrelationBuilds(g, o)
      [] o.kind = "fixings" -> FixingsBuild(g, o)
      [] OTHER -> FALSE
-----------------------------------------------------------------------------
(* The graph it leaves *)

\* A map with one entry set, there before or not.
Put(map, key, value) == [x \in DOMAIN map \union {key} |-> IF x = key THEN value ELSE map[x]]

\* applyFixings: QuantLib keeps fixings by the index's name and the day, and a
\* later one takes the place of an earlier.
Fix(fixings, g, index, row) == Put(fixings, <<g.indices[index].name, row.date.day>>, row.value)
WithFixings(g, index, rows) ==
    [g EXCEPT !.fixings = FoldLeft(LAMBDA f, r : Fix(f, g, index, r), @, rows)]

\* Variant for mutation testing: a curve does not reach the indices that wait.
WithCurveUnlinked(g, o) ==
    [g EXCEPT !.curves = Put(@, o.id, [feeds |-> CurveFeeds(o)]),
              !.waiting = {w \in @ : w[1] # o.id}]
\* A curve, and the indices that were waiting for it.
WithCurve(g, o) ==
    [g EXCEPT !.curves = Put(@, o.id, [feeds |-> CurveFeeds(o)]),
              !.indices = [i \in DOMAIN @ |->
                  IF <<o.id, i>> \in g.waiting THEN [@[i] EXCEPT !.linked = TRUE] ELSE @[i]],
              !.waiting = {w \in @ : w[1] # o.id}]

\* An index forecasts off a curve that is there, or off one still to come, or off
\* none for past fixings only.
WithIndex(g, o) ==
    LET there == o.forwards \in DOMAIN g.curves
    IN [g EXCEPT !.indices = Put(@, o.id, [name |-> o.name, family |-> o.family,
                                              forwards |-> o.forwards, linked |-> there]),
                 !.waiting = IF there \/ o.forwards = None THEN @
                             ELSE @ \union {<<o.forwards, o.id>>}]

With(g, o) ==
    CASE o.kind = "quote" -> [g EXCEPT !.quotes = Put(@, o.id, o.value)]
      [] o.kind = "curve" -> WithCurve(g, o)
      [] o.kind = "volatility" -> [g EXCEPT !.vols = Put(@, o.id, [feeds |-> VolatilityFeeds(o)])]
      [] o.kind = "index" -> WithIndex(g, o)
      [] o.kind = "correlation" -> [g EXCEPT !.correlations = Put(@, o.id, o.entries)]
      [] o.kind = "fixings" -> WithFixings(g, o.index, o.rows)

\* buildMarket, one object: ids are one namespace, fixings included.
Add(g, o) ==
    IF ~g.refused /\ o.id # None /\ o.id \notin Range(g.ids) /\ Builds(g, o)
    THEN [With(g, o) EXCEPT !.ids = Append(@, o.id)]
    ELSE [g EXCEPT !.refused = TRUE]

\* The session's constructor: no index may be left waiting.
Build(market) ==
    LET g == FoldLeft(Add, NoGraph, market)
    IN [g EXCEPT !.refused = @ \/ g.waiting # {}]
=============================================================================
