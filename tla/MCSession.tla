------------------------------- MODULE MCSession -------------------------------
(***************************************************************************)
(* Small instances of Session: markets sent in every order or with one     *)
(* object wrong, and four clients that write, price and sweep.             *)
(***************************************************************************)
EXTENDS Session

Iso(n) == [form |-> "iso", day |-> n]
Serial(n) == [form |-> "serial", day |-> n]
Row(d, v) == [date |-> d, value |-> v]
Act360 == [family |-> "ACTUAL_360", convention |-> "UNSPECIFIED", calendar |-> <<>>]
Node(name) == [name |-> name, market |-> "UNSPECIFIED"]
Target == (<<>> :> Node("TARGET"))
Joint == (<<>> :> Node("JOINT")) @@ (<<1>> :> Node("TARGET")) @@ (<<2>> :> Node("JAPAN"))
Deep == Joint @@ (<<1, 1>> :> Node("TARGET")) @@ (<<1, 2>> :> Node("TARGET"))

Quote(q, v) == [id |-> q, kind |-> "quote", value |-> v]
Flat(c, n) == [id |-> c, kind |-> "curve", shape |-> "flat", rate |-> n, day_counter |-> Act360,
               compounding |-> "SIMPLE", frequency |-> "ANNUAL"]
Copied(c, shape, n) ==
    [id |-> c, kind |-> "curve", shape |-> shape, interpolator |-> "UNSPECIFIED", day_counter |-> Act360,
     compounding |-> "SIMPLE", frequency |-> "ANNUAL", calendar |-> Target,
     nodes |-> <<Row(Iso(0), Fixed(1)), Row(Serial(1), n)>>]
Pillar(kind, q, i) == [kind |-> kind, quote |-> q, index |-> i, discount |-> None, wrong |-> {}]
Boot(c, pillars) == [id |-> c, kind |-> "curve", shape |-> "bootstrap", day_counter |-> Act360,
                     traits |-> "DISCOUNT", interpolator |-> "LOG_LINEAR", pillars |-> pillars]
Index(i, name, family, c) ==
    [id |-> i, kind |-> "index", name |-> name, family |-> family, forwards |-> c,
     day_counter |-> Act360, calendar |-> Target, convention |-> "FOLLOWING", wrong |-> {}]
Vol(v, n) == [id |-> v, kind |-> "volatility", shape |-> "constant", volatility |-> n,
              day_counter |-> Act360, wrong |-> {}]
Surface(v, nodes) == [id |-> v, kind |-> "volatility", shape |-> "variance_surface", nodes |-> nodes,
                      expiries |-> 2, strikes |-> 1, day_counter |-> Act360, wrong |-> {}]
Fixings(f, i, rows) == [id |-> f, kind |-> "fixings", index |-> i, rows |-> rows]
Correlation(r, n) ==
    [id |-> r, kind |-> "correlation", labels |-> <<"a", "b", "c">>,
     entries |-> <<<<Fixed(10), Fixed(9), n>>, <<Fixed(9), Fixed(10), Fixed(9)>>,
                   <<n, Fixed(9), Fixed(10)>>>>]

\* A label more than the limit.
Wide(r) == [id |-> r, kind |-> "correlation", labels |-> <<"a", "b", "c", "d">>,
            entries |-> [i \in 1..4 |-> [j \in 1..4 |-> Fixed(10)]]]

\* Everything a market may hold, each object on those before it but for the index,
\* which waits for the curve that is built on its conventions.
Whole == <<Quote("q1", 2), Quote("q2", 8), Index("i1", "N", "IBOR", "c1"),
           Boot("c1", <<Pillar("DEPOSIT", "q1", "i1")>>), Index("i2", "N", "OVERNIGHT", None),
           Correlation("r1", Live("q2"))>>
Few == <<Quote("q1", 2), Index("i1", "N", "IBOR", "c1"), Boot("c1", <<Pillar("DEPOSIT", "q1", "i1")>>),
         Fixings("f1", "i1", <<Row(Iso(0), 1)>>), Vol("v1", Live("q1"))>>
Orders(market) == {[k \in DOMAIN market |-> market[p[k]]] : p \in Permutations(DOMAIN market)}

\* One object more than Whole has.
More == {
    Quote("q1", 1), Quote(None, 1), [id |-> "x", kind |-> "unset"],
    Flat("c2", Live("q2")), Flat("c2", Live("q9")), [Flat("c2", Fixed(1)) EXCEPT !.compounding = "UNSPECIFIED"],
    Copied("c2", "zero", Fixed(1)), Copied("c2", "zero", Live("q1")), Copied("c2", "discount", Fixed(1)),
    [Copied("c2", "discount", Fixed(1)) EXCEPT !.nodes[1].date.day = 1],
    [Copied("c2", "zero", Fixed(1)) EXCEPT !.interpolator = "LOG_LINEAR"],
    Boot("c2", <<>>), Boot("c2", <<Pillar("OIS", "q1", "i2")>>), Boot("c2", <<Pillar("OIS", "q1", "i1")>>),
    Boot("c2", <<Pillar("SWAP", "q1", "i9")>>), Boot("c2", <<[Pillar("SWAP", "q1", "i1") EXCEPT !.discount = "c1"]>>),
    [Boot("c2", <<Pillar("SWAP", "q1", "i1")>>) EXCEPT !.traits = "UNSPECIFIED"],
    Vol("v1", Live("q1")), Vol("v1", Live("q9")), Surface("v1", <<Fixed(1), Fixed(2)>>),
    Surface("v1", <<Fixed(1)>>), [Surface("v1", <<Fixed(1), Live("q1")>>) EXCEPT !.strikes = 1],
    [Surface("v1", <<Fixed(1), Fixed(2)>>) EXCEPT !.expiries = 1, !.strikes = 2],
    [Surface("v1", <<Fixed(1), Fixed(2), Fixed(3)>>) EXCEPT !.expiries = 3],
    [Vol("v1", Fixed(1)) EXCEPT !.shape = "variance_curve"] @@ [nodes |-> <<Fixed(1)>>],
    Index("i3", "M", "IBOR", "c9"), Index("i3", "M", "OVERNIGHT", "c1"), Index("i3", None, "IBOR", None),
    [Index("i3", "M", "IBOR", None) EXCEPT !.calendar = Joint],
    [Index("i3", "M", "IBOR", None) EXCEPT !.calendar = Deep],
    [Index("i3", "M", "IBOR", None) EXCEPT !.calendar = (<<>> :> Node("UNITED_STATES"))],
    [Index("i3", "M", "IBOR", None) EXCEPT !.day_counter.family = "BUSINESS_252"],
    [Index("i3", "M", "IBOR", None) EXCEPT !.day_counter.family = "THIRTY_360"],
    [Index("i3", "M", "IBOR", None) EXCEPT !.convention = "UNSPECIFIED"],
    Boot("c2", <<[Pillar("DEPOSIT", "q1", "i1") EXCEPT !.wrong = {"tenor"}]>>),
    Boot("c2", <<[Pillar("OIS", "q1", "i2") EXCEPT !.wrong = {"fixed_frequency"}]>>),
    Boot("c2", <<[Pillar("SWAP", "q1", "i1") EXCEPT !.wrong = {"fixed_frequency"}]>>),
    [Copied("c2", "zero", Fixed(1)) EXCEPT !.calendar = Deep],
    [Copied("c2", "discount", Fixed(1)) EXCEPT !.calendar = Deep],
    [Surface("v1", <<Fixed(1), Fixed(2)>>) EXCEPT !.wrong = {"time_extrapolation"}],
    [Index("i3", "M", "OVERNIGHT", None) EXCEPT !.wrong = {"tenor"}],
    [Index("i3", "M", "IBOR", None) EXCEPT !.wrong = {"end_of_month"}],
    Fixings("fixings:i1", "i1", <<Row(Iso(0), 1)>>), Fixings("f2", "i1", <<Row(Iso(-9), 1)>>),
    Fixings("f2", "i9", <<>>),
    Correlation("r2", Live("q1")), Correlation("r2", Fixed(8)), Correlation("r2", Fixed(5)),
    Correlation("r2", Fixed(11)), Wide("r2"),
    [Correlation("r2", Fixed(9)) EXCEPT !.labels = <<"a", "b", "a">>],
    [Correlation("r2", Fixed(9)) EXCEPT !.entries[1][1] = Live("q2")]}

Drafts == Orders(Few) \union {Append(Whole, o) : o \in More}

Axis(q, by, values, keep) ==
    [quote |-> q, by |-> by, values |-> values, begin |-> 0, end |-> 0, steps |-> 0, keep |-> keep,
     plot |-> "UNSPECIFIED"]
Line(q, from, to, steps) ==
    [Axis(q, "linear", <<>>, FALSE) EXCEPT !.begin = from, !.end = to, !.steps = steps]
Plot(axis, kind) == [axis EXCEPT !.plot = kind]

Update(quotes, fixings, force) == [kind |-> "update", quotes |-> quotes, fixings |-> fixings, force |-> force]
Write(q, v) == [quote |-> q, value |-> v]
Series(i, rows) == [index |-> i, rows |-> rows]
Price(uses) == [kind |-> "price", uses |-> uses]
Sweep(axes, uses) == [kind |-> "sweep", axes |-> axes, uses |-> uses]

\* Writes that end in a correlation none can have, fixings of two indices of one
\* name, and a grid that keeps one axis.
Dragged == [market |-> Append(Whole, Fixings("fixings:i2", "i1", <<Row(Iso(1), 3)>>)), requests |-> <<
    Update(<<Write("q1", 3), Write("q1", 4)>>,
           <<Series("i1", <<Row(Iso(0), 5), Row(Iso(0), 6)>>), Series("i2", <<Row(Serial(1), 7)>>)>>, FALSE),
    Update(<<Write("q2", 5)>>, <<>>, TRUE),
    Price({"c1", "r1"}),
    Sweep(<<Axis("q1", "explicit", <<6, 7>>, TRUE), Line("q2", 8, 10, 3)>>, {"c1", "r1"})>>]

\* A relative sweep that keeps its value behind the write of another, an update that
\* fails half-way, and one that names what is not there.
Overtaking == [market |-> Whole, requests |-> <<
    Update(<<Write("q1", 3)>>, <<>>, FALSE),
    Sweep(<<Axis("q1", "relative", <<1, 2>>, TRUE)>>, {"c1"}),
    Update(<<Write("q1", 5)>>, <<Series("i1", <<Row(Iso(0), 1), Row(Iso(-9), 2), Row(Iso(1), 3)>>)>>, FALSE),
    Update(<<Write("q1", 6)>>, <<Series("i9", <<>>)>>, FALSE)>>]

\* Sweeps that are refused, before a point or after them all, and one of a dirty graph.
Refusing == [market |-> Append(Few, Quote("q2", 1)), requests |-> <<
    Sweep(<<Axis("q1", "explicit", <<6, 7>>, FALSE), Axis("q2", "explicit", <<3, 4, 5>>, FALSE)>>, {}),
    Sweep(<<Line("q1", 4, 6, 3), Axis("q2", "explicit", <<7, 8>>, FALSE)>>, {"c1"}),
    Sweep(<<Plot(Axis("q1", "explicit", <<8>>, TRUE), "LEG_NPV")>>, {"c1"}),
    Sweep(<<Line("q1", 4, 6, 1)>>, {}),
    Update(<<>>, <<Series("i1", <<Row(Iso(-9), 2)>>)>>, FALSE)>>]

\* A point more than the limit, and an axis without points.
Long == [market |-> Few, requests |-> <<
    Sweep(<<Axis("q1", "explicit", [k \in 1..7 |-> k], FALSE)>>, {}),
    Sweep(<<Axis("q1", "unset", <<>>, TRUE)>>, {})>>]

MCScripts == {Dragged, Overtaking, Refusing, Long} \union {[market |-> m, requests |-> <<>>] : m \in Drafts}
=============================================================================
