------------------------------- MODULE MCPricing -------------------------------
(***************************************************************************)
(* Small instances of Pricing: every combination of style, exercise,       *)
(* method and payoff, every field of a request sent or wrong in turn,      *)
(* every simulation of a 3-bit machine, swaps, and books.                  *)
(***************************************************************************)
EXTENDS Pricing

NoMc == [seed |-> 0, samples |-> 0, every |-> 0]
AnMc == [seed |-> 5, samples |-> 2, every |-> 0]
Option == [instrument |-> "option", style |-> "vanilla", exercise |-> "EUROPEAN", payoff |-> "plain",
           type |-> "CALL", method |-> "ANALYTIC", process |-> "UNSPECIFIED", assets |-> 1,
           quanto |-> FALSE, form |-> "NONE", approximation |-> "NONE", tree |-> "NONE",
           grid |-> "NONE", given |-> {}, wrong |-> {}, over |-> {}, asked |-> <<>>, quantity |-> "ZERO_RATE", mc |-> NoMc, legs |-> <<>>]

\* Each style as it is usually sent.
Styles == {
    Option, [Option EXCEPT !.style = "barrier"], [Option EXCEPT !.style = "double_barrier"],
    [Option EXCEPT !.style = "forward_start", !.payoff = "percentage_strike"],
    [Option EXCEPT !.style = "asian", !.form = "GEOMETRIC"],
    [Option EXCEPT !.style = "asian", !.form = "ARITHMETIC", !.given = {"fixing_dates"}],
    [Option EXCEPT !.style = "asian", !.form = "GEOMETRIC", !.given = {"fixing_dates"}],
    [Option EXCEPT !.style = "lookback"], [Option EXCEPT !.style = "lookback", !.payoff = "floating"],
    [Option EXCEPT !.style = "compound"],
    [Option EXCEPT !.style = "cliquet", !.payoff = "percentage_strike"],
    [Option EXCEPT !.style = "cliquet", !.payoff = "percentage_strike", !.given = {"performance"}],
    [Option EXCEPT !.style = "chooser", !.type = "UNSPECIFIED"],
    [Option EXCEPT !.style = "chooser", !.type = "UNSPECIFIED", !.given = {"put_strike", "put_expiry"}],
    [Option EXCEPT !.style = "digital"], [Option EXCEPT !.style = "spread"]}
    \union {[Option EXCEPT !.style = "basket", !.form = f, !.assets = n] :
                f \in {"MIN", "SPREAD", "AVERAGE"}, n \in 1..3}

MethodNames == {"ANALYTIC", "LATTICE", "FINITE_DIFFERENCE", "MONTE_CARLO", "INTEGRAL", "UNSPECIFIED"}
\* A request with the method, and the block for it in one of two ways.
Ways(s, method) ==
    LET r == [s EXCEPT !.method = method]
    IN CASE method = "LATTICE" -> {[r EXCEPT !.tree = p] : p \in {"COX_ROSS_RUBINSTEIN", "TIAN"}}
         [] method = "FINITE_DIFFERENCE" ->
              {[r EXCEPT !.grid = "FINE"], [r EXCEPT !.grid = "DOUGLAS", !.given = @ \union {"custom"}]}
         [] method = "ANALYTIC" -> {r, [r EXCEPT !.approximation = "JU_QUADRATIC"]}
         [] method = "MONTE_CARLO" -> {[r EXCEPT !.mc = AnMc]}
         [] OTHER -> {r}

Combined ==
    UNION {Ways([s EXCEPT !.exercise = x, !.quanto = q], m) :
           s \in Styles, x \in {"EUROPEAN", "AMERICAN", "BERMUDAN"}, m \in MethodNames, q \in BOOLEAN}
    \union {[s EXCEPT !.payoff = p, !.exercise = x, !.given = @ \union g] :
               s \in Styles,
               p \in {"cash_or_nothing", "percentage_strike", "floating", "super_fund", "super_share"},
               x \in {"EUROPEAN", "AMERICAN", "BERMUDAN"}, g \in {{}, {"payoff_at_expiry"}}}

\* Each that an engine prices, with every field it may send but a sweep: those of its own
\* messages, and of another method's block.
WithOneMore ==
    UNION {{[r EXCEPT !.given = @ \union {f}] : f \in Sendable(r) \ {"scenarios"}}
           \union {[r EXCEPT !.mc = [AnMc EXCEPT !.every = 1]], [r EXCEPT !.grid = "FINE"],
                   [r EXCEPT !.tree = "COX_ROSS_RUBINSTEIN"], [r EXCEPT !.approximation = "JU_QUADRATIC"]} :
           r \in {c \in Combined : Chosen(c) # {}}}
    \union {[r EXCEPT !.process = p, !.given = @ \union g] :
               r \in Styles, p \in {"BLACK", "BLACK_SCHOLES", "HESTON"}, g \in {{}, {"dividend_curve"}}}

\* Fields whose values may be refused, wherever they are.
Readable == {"spot", "dates", "strike", "payoff_at_expiry", "steps", "time_steps", "level", "reset",
    "performance", "fixing_dates", "running_extremum", "daughter_payoff", "correlation",
    "reset_dates", "choice_date", "put_strike", "fx_curve"}
WithOneWrong == {[r EXCEPT !.wrong = {f}] : r \in Styles, f \in Readable}
    \union {[Option EXCEPT !.over = {"steps"}], [Option EXCEPT !.instrument = "bond"],
            [Option EXCEPT !.given = {"curve_samples"}, !.quantity = "VARIANCE"],
            [Option EXCEPT !.given = {"curve_samples"}, !.wrong = {"curve_samples"}]}

\* Every simulation: seeds and batches up to the width, paths up to the limit and one over.
Simulation(seed, samples, every) ==
    [Option EXCEPT !.method = "MONTE_CARLO",
                   !.mc = [seed |-> seed, samples |-> samples, every |-> every]]
Simulations == {Simulation(s, n, b) : s \in 0..(W - 1), n \in 0..(MaxSamples + 1), b \in 0..(W - 1)}

Asked ==
    {[r EXCEPT !.asked = a, !.given = @ \union g] :
        r \in {[s EXCEPT !.method = m, !.mc = AnMc] :
                   s \in {t \in Styles : t.style \in {"vanilla", "barrier", "cliquet", "basket"}},
                   m \in {"ANALYTIC", "MONTE_CARLO"}},
        a \in {<<"NPV", "DELTA", "GAMMA">>, <<"GAMMA", "THETA_PER_DAY", "GAMMA">>,
               <<"QRHO", "IMPLIED_VOLATILITY">>, <<"DELTA", "LEG_NPV">>},
        g \in {{"implied_volatility"}, {"additional", "implied_volatility"}}}
    \union {[Simulation(1, 2, 1) EXCEPT !.asked = <<"DELTA">>],
            [Option EXCEPT !.quanto = TRUE, !.asked = <<"QRHO", "IMPLIED_VOLATILITY">>,
                           !.given = {"implied_volatility"}],
            [Option EXCEPT !.asked = <<"IMPLIED_VOLATILITY">>],
            [Option EXCEPT !.asked = <<"IMPLIED_VOLATILITY">>, !.given = {"implied_volatility"},
                           !.wrong = {"target_price"}]}

Leg(kind, pays, given, wrong) == [kind |-> kind, pays |-> pays, given |-> given, wrong |-> wrong]
FixedLeg == Leg("FIXED", TRUE, {}, {})
IborLeg == Leg("IBOR", FALSE, {}, {})
Swap(legs, asked, given) ==
    [Option EXCEPT !.instrument = "swap", !.method = "DISCOUNTING", !.legs = legs, !.asked = asked,
                   !.given = given]
Swaps ==
    {Swap(legs, asked, given) :
        legs \in {<<FixedLeg, IborLeg>>, <<IborLeg, FixedLeg>>, <<FixedLeg>>, <<FixedLeg, FixedLeg>>,
                  <<FixedLeg, IborLeg, IborLeg>>},
        asked \in {<<>>, <<"FAIR_RATE", "LEG_NPV">>, <<"DELTA">>},
        given \in {{}, {"cashflows"}, {"additional"}}}
    \union {Swap(<<FixedLeg, Leg("IBOR", FALSE, {f}, {})>>, <<>>, {}) :
               f \in {"caps", "floors", "discount_curve", "currency", "in_arrears", "fixing_days",
                      "spreads", "gearings"}}
    \union {Swap(<<FixedLeg, Leg(k, FALSE, {}, {f})>>, <<>>, {}) :
               k \in {"IBOR", "CMS"}, f \in {"maturity", "notionals", "index", "pays"}}
    \union {[Swap(<<FixedLeg, IborLeg>>, <<>>, {}) EXCEPT !.method = "ANALYTIC"]}

Single(r, spoilt) == [book |-> FALSE, dirty |-> spoilt, requests |-> <<r>>]
Rows == {Option, [Option EXCEPT !.style = "digital"], [Option EXCEPT !.given = {"scenarios"}],
         Simulation(7, 3, 2)}
Books == {[book |-> TRUE, dirty |-> d, requests |-> rows] :
             d \in BOOLEAN, rows \in UNION {[1..n -> Rows] : n \in 0..3} \union {[k \in 1..4 |-> Option]}}

MCCalls ==
    {Single(r, FALSE) : r \in Combined \union WithOneMore \union WithOneWrong \union Simulations
                              \union Asked \union Swaps}
    \union {Single(Option, TRUE)} \union Books
=============================================================================
