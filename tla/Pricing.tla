-------------------------------- MODULE Pricing --------------------------------
(***************************************************************************)
(* What a session prices and with which engine, a Monte Carlo run in       *)
(* batches, what a price reports of the results it was asked for, and a    *)
(* book of trades (Session::price and what it calls in session/session.cpp,*)
(* Worker::serveBatch in session/worker.cpp).                              *)
(*                                                                         *)
(* A request is the choices that select an engine ("NONE", UNSPECIFIED or  *)
(* zero when not made), and two sets of field names: the other optional    *)
(* fields it sends ("given"; a flag is given when it is true, an earliest  *)
(* exercise date when it is after today), and those whose value the reader *)
(* refuses ("wrong": an unknown id, a date that does not parse or is out   *)
(* of order, a number that is not positive, an enum or a flag left         *)
(* unspecified).  "over" names the sizes beyond their limit.  Prices are   *)
(* QuantLib's and left out; an engine may fail on any request, and         *)
(* publishes any of the results it could have.                             *)
(***************************************************************************)
EXTENDS Integers, Sequences, FiniteSets, SequencesExt, FiniteSetsExt

CONSTANTS
    Calls,       \* what is served: one price, or a book of them
    W,           \* 2 to the width of a seed and of a count of paths
    MaxSamples,  \* kMaxMcSamples
    MaxBatches,  \* kMaxMcBatches
    MaxEntries   \* kMaxBatchEntries

ASSUME SizesAssumption ==
    /\ {W, MaxSamples, MaxBatches, MaxEntries} \subseteq Nat \ {0}
    /\ MaxSamples < W

\* The optional fields of the schema, by the message that has them.
StyleFields(s) ==
    CASE s = "barrier" -> {"monitoring_dates", "window_start", "window_end", "rebate"}
      [] s = "double_barrier" -> {"rebate"}
      [] s = "forward_start" -> {"performance"}
      [] s = "asian" -> {"fixing_dates", "running_average", "past_fixings"}
      [] s = "lookback" -> {"window_start"}
      [] s = "compound" -> {"mother_payoff", "mother_exercise"}
      [] s = "basket" -> {"weights"}
      [] s = "cliquet" -> {"local_cap", "local_floor", "global_cap", "global_floor", "performance"}
      [] s = "chooser" -> {"call_strike", "call_expiry", "put_strike", "put_expiry"}
      [] OTHER -> {}
\* The parameter blocks of an engine.  Nothing ties the block that is sent to the method
\* that is named, so a request may send any.
Blocks == {"ANALYTIC", "LATTICE", "FINITE_DIFFERENCE", "MONTE_CARLO", "FOURIER"}
BlockFields(m) ==
    CASE m = "ANALYTIC" -> {"approximation"}
      [] m = "LATTICE" -> {"tree"}
      [] m = "FINITE_DIFFERENCE" -> {"grid", "custom"}
      [] m = "MONTE_CARLO" -> {"seed", "samples", "every", "low_discrepancy", "antithetic_variate",
                               "brownian_bridge", "control_variate", "time_steps_per_year",
                               "absolute_tolerance"}
      [] m = "FOURIER" -> {"fourier"}
\* Those that are choices are fields of the request's record.
BlockChoices == {"approximation", "tree", "grid", "seed", "samples", "every"}
AllBlocks == UNION {BlockFields(m) : m \in Blocks}
EngineFields == AllBlocks \ BlockChoices
OptionFields(r) ==
    IF r.instrument = "swap" THEN {}
    ELSE StyleFields(r.style) \union
         {"dividends", "dividend_curve", "label", "earliest_date", "payoff_at_expiry"}
Sendable(r) ==
    OptionFields(r) \union EngineFields
        \union {"model", "additional", "cashflows", "curve_samples", "scenarios",
                "implied_volatility"}
LegFields == {"caps", "floors", "discount_curve", "currency", "in_arrears", "fixing_days",
              "spreads", "gearings"}

\* A request comes off the wire, so it has the fields of its own messages only, and
\* numbers of their width.  A price on its own is not a sweep.
ASSUME CallsAssumption ==
    \A c \in Calls :
        /\ c.book \in BOOLEAN /\ c.dirty \in BOOLEAN
        /\ Len(c.requests) \in Nat /\ DOMAIN c.requests = 1..Len(c.requests)
        /\ c.book \/ Len(c.requests) = 1
        /\ \A i \in DOMAIN c.requests :
             LET r == c.requests[i]
             IN /\ r.quanto \in BOOLEAN
                /\ r.given \subseteq Sendable(r)
                /\ c.book \/ "scenarios" \notin r.given
                /\ \A k \in DOMAIN r.legs : r.legs[k].given \subseteq LegFields
                /\ Len(r.asked) \in Nat /\ DOMAIN r.asked = 1..Len(r.asked)
                /\ {r.mc.seed, r.mc.samples, r.mc.every} \subseteq 0..(W - 1)

VARIABLES
    call,       \* the call being served
    dirty,      \* Session::dirty_
    stop,       \* Worker::stopRequested_
    run,        \* the simulation under way: the seed and the paths of each batch
    entries,    \* outcomes so far
    abandoned,  \* BatchResult.abandoned_after
    code        \* serving, answered, or refused as a whole

vars == <<call, dirty, stop, run, entries, abandoned, code>>

Right(r, fields) == r.wrong \intersect fields = {}
Unset(r, fields) == r.given \intersect fields = {}
European(r) == r.exercise = "EUROPEAN"
Binary(r) == r.payoff \in {"cash_or_nothing", "asset_or_nothing"}
-----------------------------------------------------------------------------
(* What is checked before anything is built *)

\* Variant for mutation testing: rounded up by adding, which wraps.
BatchesByAdding(mc) == ((mc.samples + mc.every - 1) % W) \div mc.every
\* How many batches; divided, so that nothing near the top of the range wraps.
Batches(mc) == mc.samples \div mc.every + (IF mc.samples % mc.every # 0 THEN 1 ELSE 0)

EngineLimits(r) ==
    /\ r.over = {}
    /\ r.mc.samples <= MaxSamples
    /\ r.mc.every > 0 => Batches(r.mc) <= MaxBatches

\* Fields that are taken over the wire and built nowhere.
EngineRead(r) == Unset(r, {"model", "low_discrepancy"})

Servable(r) ==
    /\ EngineLimits(r) /\ EngineRead(r)
    /\ "IMPLIED_VOLATILITY" \in Range(r.asked) =>
          "implied_volatility" \in r.given /\ Right(r, {"target_price"})
    /\ "cashflows" \in r.given => r.instrument = "swap"
-----------------------------------------------------------------------------
(* The parts of an option *)

EquityGraph(r) ==
    /\ Right(r, {"spot", "discount_curve", "dividend_curve", "volatility"})
    /\ \/ r.process \in {"UNSPECIFIED", "BLACK_SCHOLES_MERTON", "GARMAN_KOHLHAGEN", "BLACK"}
       \/ r.process = "BLACK_SCHOLES" /\ Unset(r, {"dividend_curve"})
    /\ r.quanto => Right(r, {"fx_curve", "fx_volatility", "fx_correlation"})

PayoffBuilds(r) ==
    /\ r.type \in {"CALL", "PUT"}
    /\ \/ r.payoff \in {"plain", "percentage_strike"} /\ Right(r, {"strike"})
       \/ r.payoff \in {"asset_or_nothing", "cash_or_nothing", "gap", "super_fund", "super_share"}

ExerciseBuilds(r) ==
    /\ r.exercise \in {"EUROPEAN", "AMERICAN", "BERMUDAN"} /\ Right(r, {"dates"})
    /\ ~European(r) => Right(r, {"payoff_at_expiry"})
    /\ r.exercise = "AMERICAN" => Right(r, {"earliest_date"})

\* Before the style is looked at.
OptionBuilds(r) ==
    /\ r.assets >= 1 /\ (r.style = "basket" \/ r.assets = 1)
    /\ Unset(r, {"dividends"})
    /\ r.method # "UNSPECIFIED"
    /\ EquityGraph(r) /\ ExerciseBuilds(r)
-----------------------------------------------------------------------------
(* The parts of an engine *)

PresetGrid(r) == r.grid \in {"COARSE", "STANDARD", "FINE"}
\* The explicit scheme is in the schema and refused.
Scheme(r) ==
    r.grid \in {"DOUGLAS", "CRANK_NICOLSON", "IMPLICIT_EULER", "CRAIG_SNEYD", "HUNDSDORFER"}
\* A grid under quanto is one of those compiled in.
FdGrid(r) ==
    IF "custom" \in r.given THEN ~r.quanto /\ Right(r, {"time_steps", "asset_steps"}) /\ Scheme(r)
    ELSE PresetGrid(r)

Lattice(r) ==
    /\ Right(r, {"steps"}) /\ ~r.quanto
    /\ r.tree \in {"COX_ROSS_RUBINSTEIN", "JARROW_RUDD", "ADDITIVE_EQUIPROBABILITIES",
                   "TRIGEORGIS", "TIAN", "LEISEN_REIMER", "JOSHI4"}

Approximation(r) ==
    r.approximation \in {"BARONE_ADESI_WHALEY", "BJERKSUND_STENSLAND", "JU_QUADRATIC"}

\* Variant for mutation testing: what is not taken is let by.
UnreadVariatesTaken(r, taken) == TRUE
UnreadVariates(r, taken) ==
    Unset(r, {"antithetic_variate", "brownian_bridge", "control_variate"} \ taken)

Simulates(r, taken) ==
    /\ r.method = "MONTE_CARLO"
    /\ r.mc.seed # 0 /\ r.mc.samples > 0
    /\ UnreadVariates(r, taken)
-----------------------------------------------------------------------------
(* The styles: whether an engine prices a request *)

Vanilla(r, e) ==
    /\ PayoffBuilds(r)
    /\ IF r.quanto
       THEN /\ European(r)
            /\ \/ e = "QuantoFdVanilla" /\ r.method = "FINITE_DIFFERENCE" /\ FdGrid(r)
               \/ e = "QuantoEuropean" /\ r.method = "ANALYTIC"
       ELSE \/ e = "AnalyticDigitalAmerican" /\ r.method = "ANALYTIC" /\ ~European(r) /\ Binary(r)
            \/ e = "AnalyticEuropean" /\ r.method = "ANALYTIC" /\ European(r)
            \/ /\ e = "AmericanApproximation" /\ r.method = "ANALYTIC"
               /\ ~European(r) /\ ~Binary(r) /\ Approximation(r)
            \/ e = "Integral" /\ r.method = "INTEGRAL" /\ European(r)
            \/ e = "BinomialVanilla" /\ r.method = "LATTICE" /\ Lattice(r)
            \/ e = "FdVanilla" /\ r.method = "FINITE_DIFFERENCE" /\ FdGrid(r)
            \/ /\ European(r) /\ Simulates(r, {})
               /\ e = IF r.mc.every > 0 THEN "Batched" ELSE "McEuropean"

\* A binary payoff on a barrier is a knock digital.
KnockDigital(r) ==
    /\ r.method = "ANALYTIC" /\ r.exercise = "AMERICAN"
    /\ "payoff_at_expiry" \in r.given /\ Unset(r, {"earliest_date", "rebate"})

Barrier(r, e) ==
    /\ PayoffBuilds(r)
    /\ Right(r, {"level", "barrier_type"})
    /\ Unset(r, {"monitoring_dates", "window_start", "window_end"})
    /\ IF r.quanto
       THEN /\ ~Binary(r) /\ European(r)
            /\ \/ e = "QuantoFdBarrier" /\ r.method = "FINITE_DIFFERENCE" /\ FdGrid(r)
               \/ e = "QuantoBarrier" /\ r.method = "ANALYTIC"
       ELSE \/ e = "AnalyticBinaryBarrier" /\ Binary(r) /\ KnockDigital(r)
            \/ /\ ~Binary(r)
               /\ \/ /\ e = "AnalyticBarrier" /\ r.method = "ANALYTIC"
                     /\ European(r) /\ r.payoff = "plain"
                  \/ e = "FdBarrier" /\ r.method = "FINITE_DIFFERENCE" /\ FdGrid(r)
                  \/ /\ e = "BinomialBarrier" /\ r.method = "LATTICE"
                     /\ Right(r, {"steps"}) /\ r.tree = "COX_ROSS_RUBINSTEIN"
                  \/ e = "McBarrier" /\ Simulates(r, {})

DoubleBarrier(r, e) ==
    /\ PayoffBuilds(r)
    /\ Right(r, {"level", "barrier_type"}) /\ European(r) /\ r.method = "ANALYTIC"
    /\ e = IF r.quanto THEN "QuantoDoubleBarrier" ELSE "AnalyticDoubleBarrier"

\* The strike is filled in by the engine, and performance chooses it.
ForwardStart(r, e) ==
    /\ r.payoff = "percentage_strike" /\ European(r) /\ r.method = "ANALYTIC"
    /\ Right(r, {"strike", "reset", "performance"})
    /\ r.type \in {"CALL", "PUT"}
    /\ e = IF r.quanto THEN "QuantoForward" ELSE "ForwardVanilla"

\* No fixing dates is a continuous average.
Asian(r, e) ==
    /\ PayoffBuilds(r)
    /\ r.form \in {"ARITHMETIC", "GEOMETRIC"} /\ European(r) /\ ~r.quanto
    /\ IF "fixing_dates" \notin r.given
       THEN e = "ContinuousAsian" /\ r.form = "GEOMETRIC" /\ r.method = "ANALYTIC"
       ELSE /\ Right(r, {"fixing_dates"})
            /\ \/ e = "DiscreteAsian" /\ r.form = "GEOMETRIC" /\ r.method = "ANALYTIC"
               \/ e = "McAsian" /\ r.form = "ARITHMETIC" /\ Simulates(r, {"control_variate"})

\* Variant for mutation testing: priced as if it were not quanto.
LookbackOfAny(r, e) ==
    /\ European(r) /\ r.method = "ANALYTIC" /\ Unset(r, {"window_start"})
    /\ Right(r, {"running_extremum"})
    /\ \/ e = "FloatingLookback" /\ r.payoff = "floating" /\ r.type \in {"CALL", "PUT"}
       \/ e = "FixedLookback" /\ r.payoff # "floating" /\ PayoffBuilds(r)
Lookback(r, e) ==
    /\ European(r) /\ ~r.quanto /\ r.method = "ANALYTIC" /\ Unset(r, {"window_start"})
    /\ Right(r, {"running_extremum"})
    /\ \/ e = "FloatingLookback" /\ r.payoff = "floating" /\ r.type \in {"CALL", "PUT"}
       \/ e = "FixedLookback" /\ r.payoff # "floating" /\ PayoffBuilds(r)

Compound(r, e) ==
    /\ Unset(r, {"mother_payoff", "mother_exercise"})
    /\ ~r.quanto /\ r.method = "ANALYTIC" /\ European(r)
    /\ r.payoff = "plain" /\ PayoffBuilds(r)
    /\ Right(r, {"daughter_payoff", "daughter_exercise"})
    /\ e = "AnalyticCompound"

\* The closed forms are for two assets; a third, or an average, is simulated.
Basket(r, e) ==
    /\ r.assets >= 2 /\ ~r.quanto /\ European(r) /\ r.payoff = "plain" /\ PayoffBuilds(r)
    /\ Right(r, {"correlation", "label"})
    /\ r.form \in {"MIN", "MAX", "SPREAD", "AVERAGE"}
    /\ r.form # "AVERAGE" => Unset(r, {"weights"})
    /\ Right(r, {"weights"})
    /\ r.form = "SPREAD" => r.assets = 2
    /\ \/ e = "Kirk" /\ r.method = "ANALYTIC" /\ r.assets = 2 /\ r.form = "SPREAD"
       \/ e = "Stulz" /\ r.method = "ANALYTIC" /\ r.assets = 2 /\ r.form \in {"MIN", "MAX"}
       \/ e = "McBasket" /\ Simulates(r, {"antithetic_variate", "brownian_bridge"})

\* QuantLib carries no cap or floor to the engine.
Cliquet(r, e) ==
    /\ Unset(r, {"local_cap", "local_floor", "global_cap", "global_floor"})
    /\ ~r.quanto /\ European(r)
    /\ r.payoff = "percentage_strike" /\ r.type \in {"CALL", "PUT"}
    /\ Right(r, {"strike", "reset_dates", "performance"})
    /\ \/ e = "AnalyticPerformance" /\ r.method = "ANALYTIC" /\ "performance" \in r.given
       \/ e = "AnalyticCliquet" /\ r.method = "ANALYTIC" /\ "performance" \notin r.given
       \/ /\ e = "McPerformance" /\ "performance" \in r.given
          /\ Simulates(r, {"antithetic_variate", "brownian_bridge"})

\* A put expiry of its own makes it the complex one, and needs a put strike.
Chooser(r, e) ==
    /\ Unset(r, {"call_strike", "call_expiry"})
    /\ ~r.quanto /\ r.method = "ANALYTIC" /\ European(r)
    /\ r.payoff = "plain" /\ r.type = "UNSPECIFIED"
    /\ Right(r, {"strike", "day_counters", "choice_date"})
    /\ IF "put_expiry" \in r.given
       THEN /\ e = "ComplexChooser"
            /\ "put_strike" \in r.given /\ Right(r, {"put_strike", "put_expiry"})
       ELSE e = "SimpleChooser" /\ Unset(r, {"put_strike"})

\* A spread and a digital are in the schema as styles and priced as others.
PricesOption(r, e) ==
    /\ OptionBuilds(r)
    /\ \/ r.style = "vanilla" /\ Vanilla(r, e)
       \/ r.style = "barrier" /\ Barrier(r, e)
       \/ r.style = "double_barrier" /\ DoubleBarrier(r, e)
       \/ r.style = "forward_start" /\ ForwardStart(r, e)
       \/ r.style = "asian" /\ Asian(r, e)
       \/ r.style = "lookback" /\ Lookback(r, e)
       \/ r.style = "compound" /\ Compound(r, e)
       \/ r.style = "basket" /\ Basket(r, e)
       \/ r.style = "cliquet" /\ Cliquet(r, e)
       \/ r.style = "chooser" /\ Chooser(r, e)
-----------------------------------------------------------------------------
(* Swaps *)

\* The termination convention is the schedule's own when it is not given.
ScheduleBuilds(leg) ==
    Right(leg, {"start", "maturity", "calendar", "convention", "termination_convention",
                "frequency", "date_generation", "end_of_month"})

LegBuilds(leg) ==
    /\ ScheduleBuilds(leg) /\ Right(leg, {"day_counter", "notionals"})
    /\ \/ leg.kind = "FIXED" /\ Right(leg, {"rate"})
       \/ /\ leg.kind = "IBOR" /\ Right(leg, {"index", "in_arrears"})
          /\ Unset(leg, {"caps", "floors", "discount_curve", "currency"})

PricesSwap(r, e) ==
    /\ e = "Discounting" /\ r.method = "DISCOUNTING"
    /\ Len(r.legs) >= 2
    /\ \A i \in DOMAIN r.legs : LegBuilds(r.legs[i]) /\ Right(r.legs[i], {"pays"})
    /\ \E i, j \in DOMAIN r.legs : r.legs[i].pays # r.legs[j].pays
    /\ "FAIR_RATE" \in Range(r.asked) =>
         Len(r.legs) = 2 /\ r.legs[1].kind = "FIXED" /\ r.legs[2].kind = "IBOR"
    /\ Right(r, {"discount_curve"})
-----------------------------------------------------------------------------
(* The price *)

Engines == {"QuantoFdVanilla", "QuantoEuropean", "AnalyticDigitalAmerican", "AnalyticEuropean",
    "AmericanApproximation", "Integral", "BinomialVanilla", "FdVanilla", "Batched", "McEuropean",
    "QuantoFdBarrier", "QuantoBarrier", "AnalyticBinaryBarrier", "AnalyticBarrier", "FdBarrier",
    "BinomialBarrier", "McBarrier", "QuantoDoubleBarrier", "AnalyticDoubleBarrier",
    "QuantoForward", "ForwardVanilla", "ContinuousAsian", "DiscreteAsian", "McAsian",
    "FloatingLookback", "FixedLookback", "AnalyticCompound", "Kirk", "Stulz", "McBasket",
    "AnalyticPerformance", "AnalyticCliquet", "McPerformance", "ComplexChooser", "SimpleChooser",
    "Discounting"}

\* Session::price: the engine a request is priced with, if it is.
Chosen(r) == {e \in Engines :
    /\ Servable(r)
    /\ \/ r.instrument = "option" /\ PricesOption(r, e)
       \/ r.instrument = "swap" /\ PricesSwap(r, e)}

\* The curves are sampled after the price, and refused then.
Sampled(r) ==
    "curve_samples" \in r.given =>
        /\ Right(r, {"curve_samples", "sampled_object", "sample_compounding"})
        /\ r.quantity \in {"ZERO_RATE", "FORWARD_RATE", "DISCOUNT_FACTOR", "BLACK_VOLATILITY"}

\* The kinds an instrument has: those of one asset, and those that are mixed in.
Quantos == {"QuantoFdVanilla", "QuantoEuropean", "QuantoFdBarrier", "QuantoBarrier",
            "QuantoDoubleBarrier", "QuantoForward"}
Inverts == {"QuantoBarrier", "AnalyticDigitalAmerican", "AnalyticEuropean", "AnalyticBinaryBarrier",
            "AnalyticBarrier", "AnalyticDoubleBarrier"}
Has(e, kind) ==
    CASE kind \in {"DELTA", "GAMMA"} -> e # "Discounting"
      [] kind = "THETA_PER_DAY" -> e \notin {"Kirk", "Stulz", "McBasket", "Discounting"}
      [] kind = "QRHO" -> e \in Quantos
      [] kind = "IMPLIED_VOLATILITY" -> e \in Inverts
      [] kind \in {"LEG_NPV", "FAIR_RATE"} -> e = "Discounting"
      [] OTHER -> FALSE

\* What the cliquet engines publish as a literal zero.
Zeroed(e) ==
    CASE e = "AnalyticCliquet" -> {"GAMMA"}
      [] e \in {"AnalyticPerformance", "McPerformance"} -> {"DELTA", "GAMMA"}
      [] OTHER -> {}

\* run(): one kind of those asked for, and whether it grew the results.
\* Variant for mutation testing: a placeholder is fetched like any other.
CollectZeros(r, e, published, out, kind) ==
    LET grown == out.results \union (IF Has(e, kind) THEN {kind} \intersect published ELSE {})
    IN [results |-> grown,
        unavailable |-> out.unavailable \union
            (IF grown = out.results /\ kind # "NPV" THEN {kind} ELSE {})]
Collect(r, e, published, out, kind) ==
    LET found == kind \notin Zeroed(e) /\ Has(e, kind) /\ kind \in published
        grown == out.results \union (IF found THEN {kind} ELSE {})
    IN [results |-> grown,
        unavailable |-> out.unavailable \union
            (IF grown = out.results /\ kind # "NPV" THEN {kind} ELSE {})]

\* The engine's own results first, of an option, when they are asked for.
Collected(r, e, published) ==
    FoldLeft(LAMBDA out, kind : Collect(r, e, published, out, kind),
             [results |-> IF "additional" \in r.given /\ e # "Discounting" THEN published ELSE {},
              unavailable |-> {}],
             r.asked)
-----------------------------------------------------------------------------
(* Serving *)

Outcome(c) == [code |-> c, engine |-> "", results |-> {}, unavailable |-> {}, run |-> <<>>]
Current == call.requests[Len(entries) + 1]
Size == Len(call.requests)

Init ==
    /\ call \in Calls /\ dirty = call.dirty
    /\ stop = FALSE /\ run = <<>> /\ entries = <<>> /\ abandoned = 0 /\ code = "serving"

\* The supervisor's thread.
RequestStop ==
    /\ code = "serving" /\ ~stop /\ stop' = TRUE
    /\ UNCHANGED <<call, dirty, run, entries, abandoned, code>>

RefuseBook ==
    /\ code = "serving" /\ call.book /\ Size \notin 1..MaxEntries
    /\ code' = "refused"
    /\ UNCHANGED <<call, dirty, stop, run, entries, abandoned>>

\* The next entry is to be looked at, or is being simulated.
Open ==
    /\ code = "serving" /\ abandoned = 0 /\ Len(entries) < Size
    /\ call.book => Size <= MaxEntries

\* A sweep in a book: the next entry is taken with no look at the stop flag.
Nested == call.book /\ "scenarios" \in Current.given
RefuseNested ==
    /\ Open /\ Nested
    /\ entries' = Append(entries, Outcome("refused"))
    /\ UNCHANGED <<call, dirty, stop, run, abandoned, code>>

\* Variant for mutation testing: the simulation is not put away.
DoneRunning(outcome) ==
    /\ entries' = Append(entries, outcome)
    /\ abandoned' = IF call.book /\ (dirty \/ stop) THEN Len(entries') ELSE abandoned
    /\ code' = IF call.book THEN code ELSE "answered"
    /\ dirty' = (dirty /\ call.book)
    /\ UNCHANGED <<call, stop, run>>
\* An entry is done.  A single price is answered with it, and a dirty graph dropped;
\* in a book, a dirty graph or a stop ends the book here.
Done(outcome) ==
    /\ entries' = Append(entries, outcome)
    /\ run' = <<>>
    /\ abandoned' = IF call.book /\ (dirty \/ stop) THEN Len(entries') ELSE abandoned
    /\ code' = IF call.book THEN code ELSE "answered"
    /\ dirty' = (dirty /\ call.book)
    /\ UNCHANGED <<call, stop>>

PriceDirty == Open /\ ~Nested /\ dirty /\ Done(Outcome("failed"))
Refuse == Open /\ ~Nested /\ ~dirty /\ Chosen(Current) = {} /\ Done(Outcome("refused"))

\* One engine call, which nothing interrupts.
Price ==
    /\ Open /\ ~Nested /\ ~dirty
    /\ \E e \in Chosen(Current) \ {"Batched"} :
         \/ Done(Outcome("failed"))
         \/ Sampled(Current) /\ \E published \in SUBSET (Range(Current.asked) \union {"GAMMA"}) :
                LET out == Collected(Current, e, published)
                IN Done([Outcome("price") EXCEPT !.engine = e, !.results = out.results,
                                                 !.unavailable = out.unavailable])
         \/ ~Sampled(Current) /\ Done(Outcome("refused"))

\* What is no Error of QuantLib's is caught by nobody in a book, and the whole of it
\* is answered with the failure.
Escape ==
    /\ call.book /\ Open /\ ~Nested /\ ~dirty /\ Chosen(Current) # {}
    /\ run' = <<>> /\ code' = "refused"
    /\ UNCHANGED <<call, dirty, stop, entries, abandoned>>
-----------------------------------------------------------------------------
(* A simulation in batches *)

\* The sum may wrap to zero, which would seed from the clock.
BatchSeed(mc, i) == LET s == (mc.seed + i) % W IN IF s = 0 THEN 1 ELSE s

ThisBatch(mc, i) == Min({mc.every, mc.samples - i * mc.every})

Simulating == Open /\ ~Nested /\ ~dirty /\ Chosen(Current) = {"Batched"}

\* Only a price on its own has someone to ask after each batch, the last included.
NextBatch ==
    /\ Simulating /\ Len(run) < Batches(Current.mc)
    /\ LET i == Len(run)
           batch == [seed |-> BatchSeed(Current.mc, i), paths |-> ThisBatch(Current.mc, i)]
       IN \/ Done(Outcome("failed"))
          \/ ~call.book /\ stop /\ Done(Outcome("cancelled"))
          \/ /\ call.book \/ ~stop
             /\ run' = Append(run, batch)
             /\ UNCHANGED <<call, dirty, stop, entries, abandoned, code>>

\* What is asked for besides the price is not looked at.
FinishBatches ==
    /\ Simulating /\ Len(run) = Batches(Current.mc)
    /\ Done(IF Sampled(Current) THEN [Outcome("price") EXCEPT !.engine = "Batched", !.run = run]
            ELSE Outcome("refused"))
-----------------------------------------------------------------------------
\* Variant for mutation testing: the reason is read off the stop flag.
FinishByFlag ==
    /\ code = "serving" /\ call.book /\ Size \in 1..MaxEntries
    /\ abandoned > 0 \/ Len(entries) = Size
    /\ entries' = entries \o [i \in 1..(Size - Len(entries)) |->
                                  Outcome(IF stop THEN "cancelled" ELSE "failed")]
    /\ code' = "answered" /\ dirty' = FALSE
    /\ UNCHANGED <<call, stop, run, abandoned>>
\* The book is answered: what was not attempted carries the reason, and a dirty
\* graph is dropped.
Finish ==
    /\ code = "serving" /\ call.book /\ Size \in 1..MaxEntries
    /\ abandoned > 0 \/ Len(entries) = Size
    /\ entries' = entries \o [i \in 1..(Size - Len(entries)) |->
                                  Outcome(IF dirty THEN "failed" ELSE "cancelled")]
    /\ code' = "answered" /\ dirty' = FALSE
    /\ UNCHANGED <<call, stop, run, abandoned>>

Next == \/ RequestStop \/ RefuseBook \/ RefuseNested \/ PriceDirty \/ Refuse \/ Price
        \/ Escape \/ NextBatch \/ FinishBatches \/ Finish
Spec == Init /\ [][Next]_vars
-----------------------------------------------------------------------------
(* Properties *)

Attempted == IF abandoned > 0 THEN abandoned ELSE Size
Priced == {i \in DOMAIN entries : entries[i].code = "price"}

\* One engine at most prices a request, an entry is an outcome, and there is a
\* simulation under way only for the entry after those that are done (Session::price,
\* Worker::serveBatch).
TypeOK ==
    /\ dirty \in BOOLEAN /\ stop \in BOOLEAN
    /\ code \in {"serving", "answered", "refused"}
    /\ Len(entries) <= Size /\ abandoned \in 0..Len(entries)
    /\ \A i \in DOMAIN entries : entries[i].code \in {"price", "refused", "failed", "cancelled"}
    /\ run # <<>> => Open
    /\ \A i \in DOMAIN call.requests : Cardinality(Chosen(call.requests[i])) <= 1

Simulators == {"McEuropean", "Batched", "McBarrier", "McAsian", "McBasket", "McPerformance"}
Grids == {"FdVanilla", "FdBarrier", "QuantoFdVanilla", "QuantoFdBarrier"}

\* What a request sends: its optional fields and the choices it makes.
Sent(r) ==
    r.given
    \union (IF r.approximation # "NONE" THEN {"approximation"} ELSE {})
    \union (IF r.tree # "NONE" THEN {"tree"} ELSE {})
    \union (IF r.grid # "NONE" THEN {"grid"} ELSE {})
    \union (IF r.mc.seed # 0 THEN {"seed"} ELSE {})
    \union (IF r.mc.samples # 0 THEN {"samples"} ELSE {})
    \union (IF r.mc.every # 0 THEN {"every"} ELSE {})
    \union (IF r.instrument = "option" /\ r.type # "UNSPECIFIED" THEN {"type"} ELSE {})

\* Of the engine's parameter blocks, what the engine that is built is handed.
ReadOfBlock(e) ==
    (CASE e = "AmericanApproximation" -> {"approximation"}
       [] e \in {"BinomialVanilla", "BinomialBarrier"} -> {"tree"}
       [] e \in {"FdVanilla", "FdBarrier"} -> {"grid", "custom"}
       [] e \in {"QuantoFdVanilla", "QuantoFdBarrier"} -> {"grid"}
       [] e \in Simulators -> {"seed", "samples"}
       [] OTHER -> {})
    \union (CASE e = "Batched" -> {"every", "time_steps_per_year"}
              [] e \in {"McEuropean", "McBarrier"} -> {"time_steps_per_year"}
              [] e = "McBasket" -> {"time_steps_per_year", "antithetic_variate", "brownian_bridge"}
              [] e = "McPerformance" -> {"antithetic_variate", "brownian_bridge"}
              [] e = "McAsian" -> {"control_variate"}
              [] OTHER -> {})

\* Of the fields of a style.
ReadOfStyle(r, e) ==
    CASE e \in {"AnalyticBarrier", "FdBarrier", "BinomialBarrier", "McBarrier", "QuantoBarrier",
                "QuantoFdBarrier", "AnalyticDoubleBarrier", "QuantoDoubleBarrier"} -> {"rebate"}
      [] e \in {"ForwardVanilla", "QuantoForward", "AnalyticCliquet", "AnalyticPerformance",
                "McPerformance"} -> {"performance"}
      [] e \in {"DiscreteAsian", "McAsian"} -> {"fixing_dates", "running_average", "past_fixings"}
      [] e = "McBasket" -> {"label"} \union (IF r.form = "AVERAGE" THEN {"weights"} ELSE {})
      [] e \in {"Kirk", "Stulz"} -> {"label"}
      [] e = "ComplexChooser" -> {"put_strike", "put_expiry"}
      [] OTHER -> {}

Inverted(r, e) == "IMPLIED_VOLATILITY" \in Range(r.asked) /\ e \in Inverts
TypeIsUnread(r) == r.payoff \in {"super_fund", "super_share"}

\* The fields of a request that are read for the engine it selects.
Reads(r, e) ==
    ReadOfBlock(e) \union ReadOfStyle(r, e) \union {"curve_samples"}
    \union (IF r.process # "BLACK" THEN {"dividend_curve"} ELSE {})
    \union (CASE r.exercise = "AMERICAN" -> {"earliest_date", "payoff_at_expiry"}
              [] r.exercise = "BERMUDAN" -> {"payoff_at_expiry"}
              [] OTHER -> {})
    \union (IF TypeIsUnread(r) THEN {} ELSE {"type"})
    \union (IF e = "Discounting" THEN {"cashflows"} ELSE {})
    \union (IF e \in {"Batched", "Discounting"} THEN {} ELSE {"additional"})
    \union (IF Inverted(r, e) THEN {"implied_volatility"} ELSE {})

\* Of a parameter block, what is taken and dropped: the whole of a block that is another
\* method's (but for the generator of a simulation, which is refused wherever it is),
\* an approximation where the exercise or the style has a formula of its own, a
\* tolerance, a batch size of what is not simulated in batches, and the steps of the
\* two simulations that step on dates.
BlocksBut(m) == UNION {BlockFields(k) : k \in Blocks \ {m}}
DroppedOfBlock(r, e) ==
    (BlocksBut(r.method) \ {"low_discrepancy"})
    \union (IF r.method = "ANALYTIC" /\ e # "AmericanApproximation" THEN {"approximation"} ELSE {})
    \union (IF r.method = "MONTE_CARLO" THEN {"absolute_tolerance"} ELSE {})
    \union (IF e \in Simulators \ {"Batched", "McEuropean"} THEN {"every"} ELSE {})
    \union (IF e \in {"McAsian", "McPerformance"} THEN {"time_steps_per_year"} ELSE {})

\* And besides: a dividend yield under PROCESS_BLACK, an exercise's options where its
\* type has none, a label outside a basket, the type of a payoff that has none, the
\* history of an average with no fixing dates, the engine's own results of a batched
\* run and of a swap, and what to invert where nothing is inverted.
Dropped(r, e) ==
    DroppedOfBlock(r, e)
    \union (IF r.process = "BLACK" THEN {"dividend_curve"} ELSE {})
    \union (IF r.exercise = "AMERICAN" THEN {} ELSE {"earliest_date"})
    \union (IF European(r) THEN {"payoff_at_expiry"} ELSE {})
    \union (IF r.style # "basket" THEN {"label"} ELSE {})
    \union (IF TypeIsUnread(r) THEN {"type"} ELSE {})
    \union (IF e = "ContinuousAsian" THEN {"running_average", "past_fixings"} ELSE {})
    \union (IF e \in {"Batched", "Discounting"} THEN {"additional"} ELSE {})
    \union (IF Inverted(r, e) THEN {} ELSE {"implied_volatility"})

\* "A parameter a client can see us take and cannot see us ignore is the defect this
\* schema exists to avoid" (fdEngineFor): every field that a priced request sends is
\* read for its engine, or is one of Dropped, and not both; and a floating leg of a swap
\* sends none that is not built.
NothingIgnored ==
    \A i \in Priced :
        LET r == call.requests[i]
            e == entries[i].engine
        IN /\ \A f \in Sent(r) : (f \in Reads(r, e)) # (f \in Dropped(r, e))
           /\ r.instrument = "swap" =>
                \A k \in DOMAIN r.legs : r.legs[k].kind = "IBOR" =>
                    r.legs[k].given \subseteq {"in_arrears", "fixing_days", "spreads", "gearings"}

\* The table of styles, exercises, methods and quanto, and the rules of a knock digital
\* (doc/HANDLERS.md).
Documented(r) ==
    /\ r.style = "basket" \/ r.assets = 1
    /\ r.quanto => r.style \in {"vanilla", "barrier", "double_barrier", "forward_start"}
    /\ European(r) \/ (~r.quanto /\ r.style \in {"vanilla", "barrier"})
    /\ CASE r.style = "vanilla" ->
              \/ r.method \in {"ANALYTIC", "FINITE_DIFFERENCE"}
              \/ r.method = "LATTICE" /\ ~r.quanto
              \/ r.method \in {"INTEGRAL", "MONTE_CARLO"} /\ ~r.quanto /\ European(r)
         [] r.style = "barrier" /\ Binary(r) ->
              /\ r.method = "ANALYTIC" /\ r.exercise = "AMERICAN" /\ ~r.quanto
              /\ "payoff_at_expiry" \in r.given /\ Unset(r, {"earliest_date", "rebate"})
         [] r.style = "barrier" /\ ~Binary(r) ->
              \/ r.method = "ANALYTIC" /\ European(r)
              \/ r.method = "FINITE_DIFFERENCE" /\ r.exercise \in {"EUROPEAN", "AMERICAN"}
              \/ r.method = "LATTICE" /\ ~r.quanto /\ r.exercise \in {"EUROPEAN", "AMERICAN"}
              \/ r.method = "MONTE_CARLO" /\ ~r.quanto /\ European(r)
         [] r.style = "asian" -> r.method = IF r.form = "GEOMETRIC" THEN "ANALYTIC" ELSE "MONTE_CARLO"
         [] r.style = "cliquet" ->
              r.method = "ANALYTIC" \/ (r.method = "MONTE_CARLO" /\ "performance" \in r.given)
         [] r.style = "basket" ->
              r.assets >= 2 /\ (r.method = "MONTE_CARLO" \/ (r.method = "ANALYTIC" /\ r.assets = 2))
         [] r.style \in {"double_barrier", "forward_start", "lookback", "compound", "chooser"} ->
              r.method = "ANALYTIC"
         [] OTHER -> FALSE

\* Two kinds of barrier have no row and are priced, for no exercise is looked at there:
\* a simulated one that is not European, and a Bermudan one on a lattice or a grid.
Undocumented(r) ==
    /\ r.style = "barrier" /\ ~r.quanto /\ ~Binary(r)
    /\ \/ r.method = "MONTE_CARLO" /\ r.exercise \in {"AMERICAN", "BERMUDAN"}
       \/ r.method \in {"LATTICE", "FINITE_DIFFERENCE"} /\ r.exercise = "BERMUDAN"

\* An option that is priced is a row of the documented table, or one of the two kinds of
\* barrier that it leaves out (Session::priceOption).
PricedAsDocumented ==
    \A i \in Priced :
        LET r == call.requests[i]
        IN r.instrument = "option" => Documented(r) \/ Undocumented(r)

\* "An engine that cannot supply a result you asked for names the absence"
\* (doc/HANDLERS.md): what is asked for is a result or is unavailable, and not both,
\* and a placeholder is no result.  It is not so of a batched run, which looks at
\* neither, and of a kind that is asked for twice or is among the engine's own.
AskedIsAnswered ==
    \A i \in Priced :
        LET r == call.requests[i]
            out == entries[i]
            own == "additional" \in r.given
        IN /\ out.unavailable \subseteq Range(r.asked)
           /\ \A n \in DOMAIN r.asked :
                LET kind == r.asked[n]
                    twice == \E m \in DOMAIN r.asked : m # n /\ r.asked[m] = kind
                IN kind = "NPV" \/ out.engine = "Batched" \/ twice \/ own
                   \/ ((kind \in out.results) # (kind \in out.unavailable))
           /\ own \/ out.results \intersect Zeroed(out.engine) = {}

\* A batched price is of all the paths that were asked for, in no more batches than
\* the limit, none of them seeded from the clock; two batches share a seed only when
\* the seeds wrapped over zero (priceInBatches, checkEngineLimits).
BatchesAddUp ==
    \A i \in Priced :
        LET mc == call.requests[i].mc
            done == entries[i].run
            seeds == {done[k].seed : k \in DOMAIN done}
        IN entries[i].engine = "Batched" =>
            /\ FoldLeft(LAMBDA sum, b : sum + b.paths, 0, done) = mc.samples
            /\ \A k \in DOMAIN done : done[k].paths \in 1..mc.every
            /\ Len(done) <= MaxBatches
            /\ 0 \notin seeds
            /\ Cardinality(seeds) >= Len(done) - (IF mc.seed + Len(done) > W THEN 1 ELSE 0)

\* A book that is answered has one entry per trade, in order: a sweep in it is refused,
\* what came after the trade that ended it carries why, and a book that ran to its end
\* has nothing cancelled.  A dirty graph prices nothing (serveBatch).
BooksAreWhole ==
    code = "answered" /\ call.book =>
        /\ Len(entries) = Size
        /\ \A i \in 1..Attempted :
            /\ entries[i].code # "cancelled"
            /\ "scenarios" \in call.requests[i].given => entries[i].code = "refused"
        /\ \A i \in (Attempted + 1)..Size :
            entries[i].code = IF call.dirty THEN "failed" ELSE "cancelled"
        /\ abandoned > 0 => call.dirty \/ stop
        /\ call.dirty => Priced = {}
=============================================================================
