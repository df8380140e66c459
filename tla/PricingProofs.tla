----------------------------- MODULE PricingProofs -----------------------------
(***************************************************************************)
(* Theorems about what is priced and with what, for every set of calls the *)
(* schema allows and every limit: one engine at most prices a request, it  *)
(* is a documented one, it is handed every field that was sent, and a book *)
(* is answered row by row.                                                 *)
(***************************************************************************)
EXTENDS Pricing, FiniteSetTheorems, SequenceTheorems, TLAPS

\* The folds of a price: the results collected, and the paths of its batches.
Collecting == INSTANCE FoldProofs WITH
    Op <- LAMBDA c, out, kind : Collect(c.request, c.engine, c.published, out, kind)
Adding == INSTANCE FoldProofs WITH Op <- LAMBDA c, sum, b : sum + b.paths

-----------------------------------------------------------------------------
(* One engine at most *)

LEMMA OneVanilla ==
    ASSUME NEW r, NEW e, NEW f, r.quanto \in BOOLEAN, Vanilla(r, e), Vanilla(r, f) PROVE e = f
  BY DEF Vanilla, Simulates, European, Binary

LEMMA OneBarrier ==
    ASSUME NEW r, NEW e, NEW f, r.quanto \in BOOLEAN, Barrier(r, e), Barrier(r, f) PROVE e = f
  BY DEF Barrier, Simulates, Binary

LEMMA OneDoubleBarrier ==
    ASSUME NEW r, NEW e, NEW f, DoubleBarrier(r, e), DoubleBarrier(r, f) PROVE e = f
  BY DEF DoubleBarrier

LEMMA OneForwardStart ==
    ASSUME NEW r, NEW e, NEW f, ForwardStart(r, e), ForwardStart(r, f) PROVE e = f
  BY DEF ForwardStart

LEMMA OneAsian ==
    ASSUME NEW r, NEW e, NEW f, Asian(r, e), Asian(r, f) PROVE e = f
  BY DEF Asian, Simulates

LEMMA OneLookback ==
    ASSUME NEW r, NEW e, NEW f, Lookback(r, e), Lookback(r, f) PROVE e = f
  BY DEF Lookback

LEMMA OneCompound ==
    ASSUME NEW r, NEW e, NEW f, Compound(r, e), Compound(r, f) PROVE e = f
  BY DEF Compound

LEMMA OneBasket ==
    ASSUME NEW r, NEW e, NEW f, Basket(r, e), Basket(r, f) PROVE e = f
  BY DEF Basket, Simulates

LEMMA OneCliquet ==
    ASSUME NEW r, NEW e, NEW f, Cliquet(r, e), Cliquet(r, f) PROVE e = f
  BY DEF Cliquet, Simulates

LEMMA OneChooser ==
    ASSUME NEW r, NEW e, NEW f, Chooser(r, e), Chooser(r, f) PROVE e = f
  BY DEF Chooser

LEMMA OneEngine ==
    ASSUME NEW r, r.quanto \in BOOLEAN, NEW e \in Chosen(r), NEW f \in Chosen(r) PROVE e = f
  <1>1. CASE r.instrument = "option"
    <2>1. PricesOption(r, e) /\ PricesOption(r, f)
      BY <1>1 DEF Chosen
    <2> QED BY <2>1, OneVanilla, OneBarrier, OneDoubleBarrier, OneForwardStart, OneAsian,
            OneLookback, OneCompound, OneBasket, OneCliquet, OneChooser DEF PricesOption
  <1>2. CASE r.instrument = "swap"
    BY <1>2 DEF Chosen, PricesSwap
  <1> QED BY <1>1, <1>2 DEF Chosen

LEMMA OneEngineAtMost ==
    ASSUME NEW r, r.quanto \in BOOLEAN PROVE Cardinality(Chosen(r)) <= 1
  <1>1. CASE Chosen(r) = {}
    BY <1>1, FS_EmptySet
  <1>2. CASE Chosen(r) # {}
    <2>1. PICK e \in Chosen(r) : TRUE
      BY <1>2
    <2>2. Chosen(r) = {e}
      BY <2>1, OneEngine
    <2>3. Cardinality({e}) = 1
      BY FS_Singleton
    <2> QED BY <2>2, <2>3
  <1> QED BY <1>1, <1>2
-----------------------------------------------------------------------------
(* What is priced is documented *)

LEMMA DocumentedVanilla ==
    ASSUME NEW r, NEW e, r.quanto \in BOOLEAN, r.style = "vanilla", r.assets = 1, Vanilla(r, e)
    PROVE  Documented(r)
  BY DEF Vanilla, Documented, Simulates, European

\* With the two kinds of barrier that have no row.
LEMMA DocumentedBarrier ==
    ASSUME NEW r, NEW e, r.quanto \in BOOLEAN, r.style = "barrier", r.assets = 1, Barrier(r, e),
           r.exercise \in {"EUROPEAN", "AMERICAN", "BERMUDAN"}
    PROVE  Documented(r) \/ Undocumented(r)
  <1>1. CASE Binary(r)
    <2>1. ~r.quanto /\ KnockDigital(r)
      BY <1>1 DEF Barrier
    <2> QED BY <1>1, <2>1 DEF Documented, KnockDigital, European
  <1>2. CASE ~Binary(r) /\ r.quanto
    BY <1>2 DEF Barrier, Documented, European
  <1>3. CASE ~Binary(r) /\ ~r.quanto
    BY <1>3 DEF Barrier, Documented, Undocumented, Simulates, European
  <1> QED BY <1>1, <1>2, <1>3

LEMMA DocumentedBasket ==
    ASSUME NEW r, NEW e, r.quanto \in BOOLEAN, r.style = "basket", Basket(r, e) PROVE Documented(r)
  BY DEF Basket, Simulates, Documented

LEMMA DocumentedOther ==
    ASSUME NEW r, NEW e, r.quanto \in BOOLEAN, r.assets = 1,
           r.style \notin {"vanilla", "barrier", "basket"}, PricesOption(r, e)
    PROVE  Documented(r)
  BY DEF PricesOption, DoubleBarrier, ForwardStart, Asian, Lookback, Compound, Cliquet, Chooser,
         Simulates, Documented

LEMMA ChosenIsDocumented ==
    ASSUME NEW r, r.quanto \in BOOLEAN, NEW e \in Chosen(r), r.instrument = "option"
    PROVE  Documented(r) \/ Undocumented(r)
  <1>1. PricesOption(r, e) /\ OptionBuilds(r)
    BY DEF Chosen, PricesOption
  <1>2. /\ r.assets = 1 \/ r.style = "basket"
        /\ r.exercise \in {"EUROPEAN", "AMERICAN", "BERMUDAN"}
    BY <1>1 DEF OptionBuilds, ExerciseBuilds
  <1>3. CASE r.style = "vanilla"
    BY <1>1, <1>2, <1>3, DocumentedVanilla DEF PricesOption
  <1>4. CASE r.style = "barrier"
    BY <1>1, <1>2, <1>4, DocumentedBarrier DEF PricesOption
  <1>5. CASE r.style = "basket"
    BY <1>1, <1>5, DocumentedBasket DEF PricesOption
  <1>6. CASE r.style \notin {"vanilla", "barrier", "basket"}
    BY <1>1, <1>2, <1>6, DocumentedOther
  <1> QED BY <1>3, <1>4, <1>5, <1>6
-----------------------------------------------------------------------------
(* What is sent is read *)

\* The engine that is built goes with the method, and what its arm of the switch has
\* looked at in the parameter block.
EngineIs(r, e) ==
    /\ \/ r.method = "ANALYTIC" /\ e \notin Simulators \union Grids
                \union {"Integral", "BinomialVanilla", "BinomialBarrier", "Discounting"}
       \/ r.method = "INTEGRAL" /\ e = "Integral"
       \/ r.method = "LATTICE" /\ e \in {"BinomialVanilla", "BinomialBarrier"}
       \/ r.method = "FINITE_DIFFERENCE" /\ e \in Grids
       \/ r.method = "MONTE_CARLO" /\ e \in Simulators
       \/ r.method = "DISCOUNTING" /\ e = "Discounting"
    /\ e \in {"QuantoFdVanilla", "QuantoFdBarrier"} => "custom" \notin r.given
    /\ e = "McEuropean" => ~(r.mc.every > 0)
    /\ e \in {"McEuropean", "Batched", "McBarrier"} => UnreadVariates(r, {})
    /\ e \in {"McBasket", "McPerformance"} =>
           UnreadVariates(r, {"antithetic_variate", "brownian_bridge"})
    /\ e = "McAsian" => UnreadVariates(r, {"control_variate"})

LEMMA EngineOfVanilla ==
    ASSUME NEW r, NEW e, r.quanto \in BOOLEAN, Vanilla(r, e) PROVE EngineIs(r, e)
  <1>1. CASE r.quanto
    BY <1>1 DEF Vanilla, EngineIs, FdGrid, Simulators, Grids
  <1>2. CASE ~r.quanto
    BY <1>2 DEF Vanilla, EngineIs, Simulates, Simulators, Grids
  <1> QED BY <1>1, <1>2

LEMMA EngineOfBarrier ==
    ASSUME NEW r, NEW e, r.quanto \in BOOLEAN, Barrier(r, e) PROVE EngineIs(r, e)
  <1>1. CASE r.quanto
    BY <1>1 DEF Barrier, EngineIs, FdGrid, Simulators, Grids
  <1>2. CASE ~r.quanto
    BY <1>2 DEF Barrier, EngineIs, Simulates, KnockDigital, Simulators, Grids
  <1> QED BY <1>1, <1>2

LEMMA EngineOfOther ==
    ASSUME NEW r, NEW e, PricesOption(r, e), r.style \notin {"vanilla", "barrier"}
    PROVE  EngineIs(r, e)
  <1>1. ASSUME \/ DoubleBarrier(r, e) \/ ForwardStart(r, e) \/ Lookback(r, e)
               \/ Compound(r, e) \/ Chooser(r, e)
        PROVE  EngineIs(r, e)
    BY <1>1 DEF DoubleBarrier, ForwardStart, Lookback, Compound, Chooser, EngineIs, Simulators, Grids
  <1>2. ASSUME Asian(r, e) PROVE EngineIs(r, e)
    BY <1>2 DEF Asian, Simulates, EngineIs, Simulators, Grids
  <1>3. ASSUME Basket(r, e) PROVE EngineIs(r, e)
    BY <1>3 DEF Basket, Simulates, EngineIs, Simulators, Grids
  <1>4. ASSUME Cliquet(r, e) PROVE EngineIs(r, e)
    BY <1>4 DEF Cliquet, Simulates, EngineIs, Simulators, Grids
  <1> QED BY <1>1, <1>2, <1>3, <1>4 DEF PricesOption

LEMMA EngineOf ==
    ASSUME NEW r, r.quanto \in BOOLEAN, NEW e \in Chosen(r) PROVE EngineIs(r, e)
  <1>1. CASE r.instrument = "option"
    <2>1. PricesOption(r, e)
      BY <1>1 DEF Chosen
    <2>2. CASE r.style = "vanilla"
      BY <2>1, <2>2, EngineOfVanilla DEF PricesOption
    <2>3. CASE r.style = "barrier"
      BY <2>1, <2>3, EngineOfBarrier DEF PricesOption
    <2> QED BY <2>1, <2>2, <2>3, EngineOfOther
  <1>2. CASE r.instrument = "swap"
    BY <1>2 DEF Chosen, PricesSwap, EngineIs, Simulators, Grids
  <1> QED BY <1>1, <1>2 DEF Chosen

\* The fields of the parameter blocks, of a style, and the others.
OfBlocks == {"approximation", "tree", "grid", "custom", "seed", "samples", "every",
             "low_discrepancy", "antithetic_variate", "brownian_bridge", "control_variate",
             "time_steps_per_year", "absolute_tolerance", "fourier"}
OfStyles == {"rebate", "performance", "fixing_dates", "running_average", "past_fixings", "label",
             "weights", "put_strike", "put_expiry"}
OfAll == {"dividend_curve", "earliest_date", "payoff_at_expiry", "type", "additional",
          "curve_samples", "implied_volatility"}

LEMMA OtherBlocks ==
    ASSUME NEW m, NEW f
    PROVE  f \in BlocksBut(m) <=>
             \/ m # "ANALYTIC" /\ f = "approximation"
             \/ m # "LATTICE" /\ f = "tree"
             \/ m # "FINITE_DIFFERENCE" /\ f \in {"grid", "custom"}
             \/ m # "MONTE_CARLO" /\ f \in BlockFields("MONTE_CARLO")
             \/ m # "FOURIER" /\ f = "fourier"
  BY DEF BlocksBut, Blocks, BlockFields

LEMMA BlockOnly ==
    ASSUME NEW r, NEW e, NEW f \in OfBlocks
    PROVE  /\ f \in Reads(r, e) <=> f \in ReadOfBlock(e)
           /\ f \in Dropped(r, e) <=> f \in DroppedOfBlock(r, e)
  BY DEF OfBlocks, Reads, Dropped, ReadOfStyle

\* What is sent of a parameter block is read or dropped, and not both, whichever block it
\* is of and whatever the method.
LEMMA ReadBlock ==
    ASSUME NEW r, NEW e, EngineIs(r, e), EngineRead(r), r.mc.every \in Nat, "every" \notin r.given,
           NEW f \in Sent(r), f \in OfBlocks
    PROVE  (f \in Reads(r, e)) # (f \in Dropped(r, e))
  <1> DEFINE other == f \in BlocksBut(r.method)
  <1>1. f # "low_discrepancy"
    BY DEF Sent, EngineRead, Unset
  <1>2. /\ e \in {"QuantoFdVanilla", "QuantoFdBarrier"} => f # "custom"
        /\ e = "McEuropean" => f # "every"
        /\ e \in {"McEuropean", "Batched", "McBarrier"} =>
               f \notin {"antithetic_variate", "brownian_bridge", "control_variate"}
        /\ e \in {"McBasket", "McPerformance"} => f # "control_variate"
        /\ e = "McAsian" => f \notin {"antithetic_variate", "brownian_bridge"}
    <2>1. f \in r.given \/ f \in {"approximation", "tree", "grid", "seed", "samples", "every", "type"}
      BY DEF Sent
    <2>2. f = "every" => r.mc.every > 0
      BY DEF Sent
    <2> QED BY <2>1, <2>2 DEF EngineIs, UnreadVariates, Unset
  <1>3. f \in DroppedOfBlock(r, e) <=>
          \/ other
          \/ r.method = "ANALYTIC" /\ e # "AmericanApproximation" /\ f = "approximation"
          \/ r.method = "MONTE_CARLO" /\ f = "absolute_tolerance"
          \/ e \in Simulators \ {"Batched", "McEuropean"} /\ f = "every"
          \/ e \in {"McAsian", "McPerformance"} /\ f = "time_steps_per_year"
    BY <1>1 DEF DroppedOfBlock
  <1>4. other <=> 
             \/ r.method # "ANALYTIC" /\ f = "approximation"
             \/ r.method # "LATTICE" /\ f = "tree"
             \/ r.method # "FINITE_DIFFERENCE" /\ f \in {"grid", "custom"}
             \/ r.method # "MONTE_CARLO" /\ f \in BlockFields("MONTE_CARLO")
             \/ r.method # "FOURIER" /\ f = "fourier"
    BY OtherBlocks
  <1> HIDE DEF other
  <1>5. (f \in ReadOfBlock(e)) # (f \in DroppedOfBlock(r, e))
    <2>1. CASE r.method \in {"ANALYTIC", "INTEGRAL", "DISCOUNTING"}
      BY <1>1, <1>3, <1>4, <2>1 DEF EngineIs, ReadOfBlock, OfBlocks, BlockFields, Simulators, Grids
    <2>2. CASE r.method \in {"LATTICE", "FINITE_DIFFERENCE"}
      BY <1>1, <1>2, <1>3, <1>4, <2>2 DEF EngineIs, ReadOfBlock, OfBlocks, BlockFields, Simulators, Grids
    <2>3. CASE r.method = "MONTE_CARLO"
      BY <1>1, <1>2, <1>3, <1>4, <2>3 DEF EngineIs, ReadOfBlock, OfBlocks, BlockFields, Simulators, Grids
    <2> QED BY <2>1, <2>2, <2>3 DEF EngineIs
  <1> QED BY <1>5, BlockOnly

\* The fields that are no style's and no method's.
LEMMA ReadOfAll ==
    ASSUME NEW r, NEW e, r.exercise \in {"EUROPEAN", "AMERICAN", "BERMUDAN"}, NEW f \in OfAll
    PROVE  (f \in Reads(r, e)) # (f \in Dropped(r, e))
  <1>1. f \notin ReadOfBlock(e) /\ f \notin ReadOfStyle(r, e)
    BY DEF OfAll, ReadOfBlock, ReadOfStyle
  <1>2. f \notin DroppedOfBlock(r, e)
    BY OtherBlocks DEF OfAll, DroppedOfBlock, BlockFields
  <1>3. CASE f \in {"dividend_curve", "type", "curve_samples"}
    BY <1>1, <1>2, <1>3 DEF Reads, Dropped
  <1>4. CASE f \in {"earliest_date", "payoff_at_expiry"}
    BY <1>1, <1>2, <1>4 DEF Reads, Dropped, European
  <1>5. CASE f \in {"additional", "implied_volatility"}
    BY <1>1, <1>2, <1>5 DEF Reads, Dropped
  <1> QED BY <1>3, <1>4, <1>5 DEF OfAll

LEMMA StyleOnly ==
    ASSUME NEW r, NEW e, NEW f \in OfStyles
    PROVE  /\ f \in Reads(r, e) <=> f \in ReadOfStyle(r, e)
           /\ f \in Dropped(r, e) <=>
                \/ f = "label" /\ r.style # "basket"
                \/ f \in {"running_average", "past_fixings"} /\ e = "ContinuousAsian"
  <1>1. f \notin ReadOfBlock(e)
    BY DEF OfStyles, ReadOfBlock
  <1>2. f \notin DroppedOfBlock(r, e)
    BY OtherBlocks DEF OfStyles, DroppedOfBlock, BlockFields
  <1>3. f \in Reads(r, e) <=> f \in ReadOfStyle(r, e)
    BY <1>1 DEF OfStyles, Reads
  <1>4. f \in Dropped(r, e) <=>
            \/ f = "label" /\ r.style # "basket"
            \/ f \in {"running_average", "past_fixings"} /\ e = "ContinuousAsian"
    BY <1>2 DEF OfStyles, Dropped
  <1> QED BY <1>3, <1>4

\* The fields of a style, with the label, which every option has.
LEMMA ReadStyle ==
    ASSUME NEW r, NEW e, r.quanto \in BOOLEAN, PricesOption(r, e),
           NEW f \in {"label"} \union StyleFields(r.style), f \in r.given
    PROVE  (f \in Reads(r, e)) # (f \in Dropped(r, e))
  <1>1. SUFFICES /\ f \in OfStyles
                 /\ f \in ReadOfStyle(r, e) <=>
                      ~(\/ f = "label" /\ r.style # "basket"
                        \/ f \in {"running_average", "past_fixings"} /\ e = "ContinuousAsian")
    BY StyleOnly
  <1>2. CASE r.style = "vanilla"
    BY <1>2 DEF PricesOption, Vanilla, StyleFields, OfStyles, ReadOfStyle
  <1>3. CASE r.style = "barrier"
    <2>1. Barrier(r, e)
      BY <1>3 DEF PricesOption
    <2>2. f \in {"label", "rebate"}
      BY <1>3, <2>1 DEF Barrier, StyleFields, Unset
    <2>3. e = "AnalyticBinaryBarrier" => f # "rebate"
      BY <2>1 DEF Barrier, KnockDigital, Unset
    <2> QED BY <1>3, <2>1, <2>2, <2>3 DEF Barrier, OfStyles, ReadOfStyle
  <1>4. CASE r.style = "double_barrier"
    BY <1>4 DEF PricesOption, DoubleBarrier, StyleFields, OfStyles, ReadOfStyle
  <1>5. CASE r.style = "forward_start"
    BY <1>5 DEF PricesOption, ForwardStart, StyleFields, OfStyles, ReadOfStyle
  <1>6. CASE r.style = "asian"
    BY <1>6 DEF PricesOption, Asian, StyleFields, OfStyles, ReadOfStyle
  <1>7. CASE r.style = "lookback"
    BY <1>7 DEF PricesOption, Lookback, StyleFields, OfStyles, ReadOfStyle, Unset
  <1>8. CASE r.style = "compound"
    BY <1>8 DEF PricesOption, Compound, StyleFields, OfStyles, ReadOfStyle, Unset
  <1>9. CASE r.style = "basket"
    <2>1. Basket(r, e)
      BY <1>9 DEF PricesOption
    <2>2. f = "label" \/ (f = "weights" /\ r.form = "AVERAGE" /\ e = "McBasket")
      BY <1>9, <2>1 DEF Basket, StyleFields, Unset
    <2> QED BY <1>9, <2>1, <2>2 DEF Basket, OfStyles, ReadOfStyle
  <1>10. CASE r.style = "cliquet"
    <2>1. Cliquet(r, e)
      BY <1>10 DEF PricesOption
    <2>2. f \in {"label", "performance"}
      BY <1>10, <2>1 DEF Cliquet, StyleFields, Unset
    <2> QED BY <1>10, <2>1, <2>2 DEF Cliquet, OfStyles, ReadOfStyle
  <1>11. CASE r.style = "chooser"
    <2>1. Chooser(r, e)
      BY <1>11 DEF PricesOption
    <2>2. f = "label" \/ (f \in {"put_strike", "put_expiry"} /\ e = "ComplexChooser")
      BY <1>11, <2>1 DEF Chooser, StyleFields, Unset
    <2> QED BY <1>11, <2>1, <2>2 DEF Chooser, OfStyles, ReadOfStyle
  <1> QED BY <1>2, <1>3, <1>4, <1>5, <1>6, <1>7, <1>8, <1>9, <1>10, <1>11 DEF PricesOption

\* Every field a priced request sends is read for its engine, or among those that are
\* known to be dropped.
Handed(r, e) ==
    /\ \A f \in Sent(r) : (f \in Reads(r, e)) # (f \in Dropped(r, e))
    /\ r.instrument = "swap" =>
         \A k \in DOMAIN r.legs : r.legs[k].kind = "IBOR" =>
             r.legs[k].given \subseteq {"in_arrears", "fixing_days", "spreads", "gearings"}

LEMMA SentIsSendable ==
    ASSUME NEW r, r.given \subseteq Sendable(r)
    PROVE  Sent(r) \subseteq OptionFields(r) \union OfBlocks
               \union {"type", "model", "additional", "cashflows", "curve_samples", "scenarios",
                       "implied_volatility"}
  <1>1. EngineFields \subseteq OfBlocks
    BY DEF EngineFields, AllBlocks, Blocks, BlockFields, OfBlocks
  <1>2. Sent(r) \subseteq r.given \union OfBlocks \union {"type"}
    BY DEF Sent, OfBlocks
  <1> QED BY <1>1, <1>2 DEF Sendable

LEMMA AllHanded ==
    ASSUME NEW r, r.quanto \in BOOLEAN, r.given \subseteq Sendable(r), "scenarios" \notin r.given,
           r.mc.every \in Nat,
           \A k \in DOMAIN r.legs : r.legs[k].given \subseteq LegFields,
           NEW e \in Chosen(r)
    PROVE  Handed(r, e)
  <1>0. Servable(r) /\ EngineRead(r) /\ EngineIs(r, e) /\ "every" \notin r.given
    <2>1. "every" \notin OptionFields(r) /\ "every" \notin EngineFields
      <3>1. "every" \notin EngineFields
        BY DEF EngineFields, BlockChoices
      <3>2. "every" \notin StyleFields(r.style)
        BY DEF StyleFields
      <3> QED BY <3>1, <3>2 DEF OptionFields
    <2>2. "every" \notin r.given
      BY <2>1 DEF Sendable
    <2> QED BY <2>2, EngineOf DEF Chosen, Servable
  <1>1. CASE r.instrument = "option"
    <2>1. PricesOption(r, e) /\ OptionBuilds(r) /\ r.instrument # "swap"
      BY <1>1 DEF Chosen, PricesOption
    <2>2. r.exercise \in {"EUROPEAN", "AMERICAN", "BERMUDAN"}
      BY <2>1 DEF OptionBuilds, ExerciseBuilds
    <2>3. ASSUME NEW f \in Sent(r) PROVE (f \in Reads(r, e)) # (f \in Dropped(r, e))
      <3>1. f \notin {"dividends", "model", "cashflows", "scenarios"}
        BY <1>0, <1>1, <2>1 DEF Sent, Servable, OptionBuilds, EngineRead, Unset
      <3>2. f \in OfBlocks \union OfAll \union {"label"} \union StyleFields(r.style)
        BY <1>1, <2>3, <3>1, SentIsSendable DEF OptionFields, OfAll
      <3>3. CASE f \in OfBlocks
        BY <1>0, <2>3, <3>3, ReadBlock
      <3>4. CASE f \in OfAll
        BY <2>2, <3>4, ReadOfAll
      <3>5. CASE f \in {"label"} \union StyleFields(r.style) /\ f \notin OfBlocks
        <4>1. f # "type"
          BY <3>5 DEF StyleFields
        <4>2. f \in r.given
          BY <2>3, <3>5, <4>1 DEF Sent, OfBlocks
        <4> QED BY <2>1, <3>5, <4>2, ReadStyle
      <3> QED BY <3>2, <3>3, <3>4, <3>5
    <2> QED BY <2>1, <2>3 DEF Handed
  <1>2. CASE r.instrument = "swap"
    <2>1. PricesSwap(r, e) /\ e = "Discounting"
      BY <1>2 DEF Chosen, PricesSwap
    <2>2. ASSUME NEW f \in Sent(r) PROVE (f \in Reads(r, e)) # (f \in Dropped(r, e))
      <3>1. f \notin {"model", "scenarios", "type"}
        <4>1. "model" \notin r.given
          BY <1>0 DEF EngineRead, Unset
        <4>2. "type" \notin r.given
          BY <1>2 DEF Sendable, OptionFields, EngineFields, AllBlocks, Blocks, BlockFields
        <4> QED BY <1>2, <2>2, <4>1, <4>2 DEF Sent
      <3>2. f \in OfBlocks \union {"additional", "cashflows", "curve_samples", "implied_volatility"}
        BY <1>2, <2>2, <3>1, SentIsSendable DEF OptionFields
      <3>3. CASE f \in OfBlocks
        BY <1>0, <2>2, <3>3, ReadBlock
      <3>4. CASE f \in {"additional", "cashflows", "curve_samples", "implied_volatility"}
        <4>1. f \notin DroppedOfBlock(r, e) /\ f \notin ReadOfBlock(e) /\ f \notin ReadOfStyle(r, e)
          BY <2>1, <3>4, OtherBlocks DEF DroppedOfBlock, BlockFields, ReadOfBlock, ReadOfStyle,
             Simulators
        <4> QED BY <2>1, <3>4, <4>1 DEF Reads, Dropped
      <3> QED BY <3>2, <3>3, <3>4
    <2>3. ASSUME NEW k \in DOMAIN r.legs, r.legs[k].kind = "IBOR"
          PROVE  r.legs[k].given \subseteq {"in_arrears", "fixing_days", "spreads", "gearings"}
      <3>1. LegBuilds(r.legs[k])
        BY <2>1 DEF PricesSwap
      <3>2. Unset(r.legs[k], {"caps", "floors", "discount_curve", "currency"})
        BY <2>3, <3>1 DEF LegBuilds
      <3> QED BY <3>2 DEF Unset, LegFields
    <2> QED BY <2>2, <2>3 DEF Handed
  <1> QED BY <1>1, <1>2 DEF Chosen
-----------------------------------------------------------------------------
(* What is collected *)

LEMMA CollectLadder ==
    ASSUME NEW n \in Nat, NEW r, NEW e, NEW published, NEW base, NEW m, DOMAIN m = 1..n
    PROVE  \E s : /\ s[0] = base
                  /\ \A i \in 0..(n - 1) : s[i + 1] = Collect(r, e, published, s[i], m[i + 1])
                  /\ Collecting!FoldOf([request |-> r, engine |-> e, published |-> published],
                                       base, m) = s[n]
  <1>1. PICK c : c = [request |-> r, engine |-> e, published |-> published]
    OBVIOUS
  <1>2. c.request = r /\ c.engine = e /\ c.published = published
    BY <1>1
  <1>3. \E s : /\ s[0] = base
               /\ \A i \in 0..(n - 1) :
                    s[i + 1] = Collect(c.request, c.engine, c.published, s[i], m[i + 1])
               /\ Collecting!FoldOf(c, base, m) = s[n]
    BY Collecting!FoldLadder
  <1> QED BY <1>1, <1>2, <1>3

\* One kind that is asked for: it is a result or unavailable, once.
LEMMA CollectFacts ==
    ASSUME NEW r, NEW e, NEW published, NEW out, NEW kind, NEW next,
           next = Collect(r, e, published, out, kind)
    PROVE  /\ out.results \subseteq next.results
           /\ next.results \subseteq out.results \union {kind}
           /\ next.results \intersect Zeroed(e) = out.results \intersect Zeroed(e)
           /\ out.unavailable \subseteq next.unavailable
           /\ next.unavailable \subseteq out.unavailable \union {kind}
           /\ kind # "NPV" /\ kind \notin out.results /\ kind \notin out.unavailable
                => ((kind \in next.results) # (kind \in next.unavailable))
  <1> DEFINE found == kind \notin Zeroed(e) /\ Has(e, kind) /\ kind \in published
             grown == out.results \union (IF found THEN {kind} ELSE {})
             short == IF grown = out.results /\ kind # "NPV" THEN {kind} ELSE {}
  <1>1. next.results = grown /\ next.unavailable = out.unavailable \union short
    BY DEF Collect
  <1>2. CASE found
    <2>1. grown = out.results \union {kind} /\ kind \notin Zeroed(e)
      BY <1>2
    <2>2. kind \notin out.results => grown # out.results
      BY <2>1
    <2>3. short = {} \/ (short = {kind} /\ grown = out.results)
      OBVIOUS
    <2> HIDE DEF grown, short, found
    <2> QED BY <1>1, <2>1, <2>2, <2>3
  <1>3. CASE ~found
    <2>1. grown = out.results /\ (kind # "NPV" => short = {kind}) /\ short \subseteq {kind}
      BY <1>3
    <2> HIDE DEF grown, short, found
    <2> QED BY <1>1, <2>1
  <1> QED BY <1>2, <1>3

LEMMA CollectedFacts ==
    ASSUME NEW r, Len(r.asked) \in Nat, DOMAIN r.asked = 1..Len(r.asked), NEW e, NEW published
    PROVE  LET out == Collected(r, e, published)
               own == "additional" \in r.given
           IN /\ out.unavailable \subseteq Range(r.asked)
              /\ own \/ out.results \intersect Zeroed(e) = {}
              /\ own \/ \A n \in DOMAIN r.asked :
                   \/ r.asked[n] = "NPV"
                   \/ \E m \in DOMAIN r.asked : m # n /\ r.asked[m] = r.asked[n]
                   \/ (r.asked[n] \in out.results) # (r.asked[n] \in out.unavailable)
  <1> DEFINE own == "additional" \in r.given
             start == [results |-> IF own /\ e # "Discounting" THEN published ELSE {},
                       unavailable |-> {}]
             n == Len(r.asked)
             Alone(k) == \A m \in 1..n : m # k => r.asked[m] # r.asked[k]
  <1>1. PICK m : m = r.asked /\ DOMAIN m = 1..n
    OBVIOUS
  <1>2. PICK s : /\ s[0] = start
                 /\ \A i \in 0..(n - 1) : s[i + 1] = Collect(r, e, published, s[i], r.asked[i + 1])
                 /\ Collected(r, e, published) = s[n]
    <2>1. Collected(r, e, published)
            = Collecting!FoldOf([request |-> r, engine |-> e, published |-> published],
                                  start, r.asked)
      BY DEF Collected, FoldLeft, MapThenFoldSet, Max, Collecting!FoldOf, Collecting!Max
    <2>2. n \in Nat
      OBVIOUS
    <2> HIDE DEF start, n
    <2>3. \E s : /\ s[0] = start
                 /\ \A i \in 0..(n - 1) : s[i + 1] = Collect(r, e, published, s[i], m[i + 1])
                 /\ Collecting!FoldOf([request |-> r, engine |-> e, published |-> published],
                                      start, m) = s[n]
      BY <1>1, <2>2, CollectLadder
    <2> QED BY <1>1, <2>1, <2>3
  <1> DEFINE seen(i) == {r.asked[k] : k \in 1..i}
             P(i) ==
               /\ s[i].unavailable \subseteq seen(i)
               /\ own \/ s[i].results \subseteq seen(i)
               /\ own \/ s[i].results \intersect Zeroed(e) = {}
               /\ own \/ \A k \in 1..i : Alone(k) /\ r.asked[k] # "NPV" =>
                            ((r.asked[k] \in s[i].results) # (r.asked[k] \in s[i].unavailable))
             T == {i \in Nat : P(i)}
  <1>3. 0 \in T
    <2>1. s[0].unavailable = {} /\ (own \/ s[0].results = {})
      BY <1>2
    <2> QED BY <2>1
  <1>4. ASSUME NEW i \in 0..(n - 1), i \in T PROVE i + 1 \in T
    <2> DEFINE kind == r.asked[i + 1]
    <2>1. s[i + 1] = Collect(r, e, published, s[i], kind)
      BY <1>2
    <2>2. P(i) /\ i \in Nat /\ i + 1 \in 1..n
      BY <1>4
    <2>3. seen(i + 1) = seen(i) \union {kind}
      BY <2>2
    <2> DEFINE out == s[i]
               next == s[i + 1]
    <2>4. /\ out.results \subseteq next.results
          /\ next.results \subseteq out.results \union {kind}
          /\ next.results \intersect Zeroed(e) = out.results \intersect Zeroed(e)
          /\ out.unavailable \subseteq next.unavailable
          /\ next.unavailable \subseteq out.unavailable \union {kind}
          /\ kind # "NPV" /\ kind \notin out.results /\ kind \notin out.unavailable
                => ((kind \in next.results) # (kind \in next.unavailable))
      <3> HIDE DEF kind, out, next
      <3>1. next = Collect(r, e, published, out, kind)
        BY <2>1 DEF next, out
      <3> QED BY <3>1, CollectFacts
    <2>5. ASSUME ~own, NEW k \in 1..(i + 1), Alone(k), r.asked[k] # "NPV"
          PROVE  (r.asked[k] \in next.results) # (r.asked[k] \in next.unavailable)
      <3>1. CASE k \in 1..i
        <4>1. r.asked[k] # kind
          BY <2>2, <2>5, <3>1
        <4>2. (r.asked[k] \in out.results) # (r.asked[k] \in out.unavailable)
          BY <2>2, <2>5, <3>1
        <4> HIDE DEF kind, out, next
        <4> QED BY <2>4, <4>1, <4>2
      <3>2. CASE k = i + 1
        <4>1. kind \notin seen(i)
          BY <2>2, <2>5, <3>2
        <4>2. kind \notin out.results /\ kind \notin out.unavailable /\ kind # "NPV"
          BY <2>2, <2>5, <3>2, <4>1
        <4>3. r.asked[k] = kind
          BY <3>2
        <4> HIDE DEF kind, out, next
        <4> QED BY <2>4, <4>2, <4>3
      <3> QED BY <2>2, <3>1, <3>2
    <2>6. /\ next.unavailable \subseteq seen(i + 1)
          /\ own \/ next.results \subseteq seen(i + 1)
          /\ own \/ next.results \intersect Zeroed(e) = {}
      <3>1. /\ out.unavailable \subseteq seen(i)
            /\ own \/ out.results \subseteq seen(i)
            /\ own \/ out.results \intersect Zeroed(e) = {}
        BY <2>2
      <3> HIDE DEF kind, out, next, seen, own
      <3> QED BY <2>3, <2>4, <3>1
    <2>7. P(i + 1)
      BY <2>5, <2>6
    <2> QED BY <2>2, <2>7
  <1>5. n \in T
    <2>1. n \in Nat
      OBVIOUS
    <2> HIDE DEF T, n
    <2>2. \A i \in 0..n : i \in T
      BY <1>3, <1>4, <2>1, Collecting!UpTo
    <2> QED BY <2>1, <2>2
  <1>6. P(n) /\ Collected(r, e, published) = s[n]
    BY <1>2, <1>5
  <1>7. seen(n) = Range(r.asked)
    BY DEF Range
  <1> HIDE DEF seen
  <1> QED BY <1>6, <1>7

\* What was asked for is answered, by the engine's results or by name.
Answers(r, out) ==
    /\ out.unavailable \subseteq Range(r.asked)
    /\ \A n \in DOMAIN r.asked :
         LET kind == r.asked[n]
             twice == \E m \in DOMAIN r.asked : m # n /\ r.asked[m] = kind
             own == "additional" \in r.given
         IN kind = "NPV" \/ out.engine = "Batched" \/ twice \/ own
            \/ ((kind \in out.results) # (kind \in out.unavailable))
    /\ "additional" \in r.given \/ out.results \intersect Zeroed(out.engine) = {}

LEMMA CollectedAnswers ==
    ASSUME NEW r, Len(r.asked) \in Nat, DOMAIN r.asked = 1..Len(r.asked), NEW e, NEW published,
           NEW x, x.engine = e, x.results = Collected(r, e, published).results,
           x.unavailable = Collected(r, e, published).unavailable
    PROVE  Answers(r, x)
  <1>1. PICK out : out = Collected(r, e, published)
    OBVIOUS
  <1>2. /\ out.unavailable \subseteq Range(r.asked)
        /\ "additional" \in r.given \/ out.results \intersect Zeroed(e) = {}
        /\ "additional" \in r.given \/ \A n \in DOMAIN r.asked :
             \/ r.asked[n] = "NPV"
             \/ \E m \in DOMAIN r.asked : m # n /\ r.asked[m] = r.asked[n]
             \/ (r.asked[n] \in out.results) # (r.asked[n] \in out.unavailable)
    BY <1>1, CollectedFacts
  <1>3. x.engine = e /\ x.results = out.results /\ x.unavailable = out.unavailable
    BY <1>1
  <1> QED BY <1>2, <1>3 DEF Answers
-----------------------------------------------------------------------------
(* The batches of a simulation *)

IsSequence(s) == s \in Seq({s[i] : i \in DOMAIN s})

LEMMA Multiples ==
    ASSUME NEW i \in Nat, NEW j \in Nat, NEW b \in Nat, i <= j PROVE i * b <= j * b
  <1>1. PICK k \in Nat : j = i + k
    <2>1. j - i \in Nat /\ j = i + (j - i)
      OBVIOUS
    <2> QED BY <2>1
  <1>2. j * b = i * b + k * b /\ k * b \in Nat /\ i * b \in Nat
    BY <1>1
  <1> QED BY <1>2

\* The remainder is a batch of its own.
LEMMA BatchesFacts ==
    ASSUME NEW mc, mc.samples \in Nat \ {0}, mc.every \in Nat \ {0}
    PROVE  \E q \in Nat, rest \in Nat :
             /\ mc.samples = q * mc.every + rest /\ rest < mc.every
             /\ Batches(mc) = q + (IF rest # 0 THEN 1 ELSE 0)
             /\ \A i \in 0..(q - 1) : ThisBatch(mc, i) = mc.every
             /\ ThisBatch(mc, q) = rest
  <1>1. PICK samples, every : samples = mc.samples /\ every = mc.every
    OBVIOUS
  <1>2. samples \in Nat \ {0} /\ every \in Nat \ {0}
    BY <1>1
  <1>3. PICK q, rest : q = samples \div every /\ rest = samples % every
    OBVIOUS
  <1>4. q \in Nat /\ rest \in Nat /\ rest < every
    BY <1>2, <1>3
  <1>5. samples = q * every + rest
    BY <1>2, <1>3
  <1>6. Batches(mc) = q + (IF rest # 0 THEN 1 ELSE 0)
    BY <1>1, <1>3 DEF Batches
  <1>7. ASSUME NEW i \in 0..(q - 1) PROVE ThisBatch(mc, i) = every
    <2>1. i + 1 \in Nat /\ i + 1 <= q /\ i \in Nat
      BY <1>4
    <2>2. (i + 1) * every <= q * every
      BY <1>2, <1>4, <2>1, Multiples
    <2>3. (i + 1) * every = i * every + every /\ i * every \in Nat /\ q * every \in Nat
      BY <1>2, <1>4, <2>1
    <2>4. PICK left : left = samples - i * every
      OBVIOUS
    <2>5. left \in Int /\ every <= left
      BY <1>2, <1>4, <1>5, <2>2, <2>3, <2>4
    <2>6. Min({every, left}) = every
      BY <1>2, <2>5 DEF Min
    <2> QED BY <1>1, <2>4, <2>6 DEF ThisBatch
  <1>8. ThisBatch(mc, q) = rest
    <2>1. q * every \in Nat
      BY <1>2, <1>4
    <2>2. samples - q * every = rest
      BY <1>4, <1>5, <2>1
    <2>3. Min({every, rest}) = rest
      BY <1>2, <1>4 DEF Min
    <2> QED BY <1>1, <2>2, <2>3 DEF ThisBatch
  <1> QED BY <1>1, <1>4, <1>5, <1>6, <1>7, <1>8

\* The batches of a simulation that have been run.
Batched(done, mc) ==
    /\ IsSequence(done) /\ Len(done) <= Batches(mc)
    /\ \A k \in DOMAIN done :
          done[k] = [seed |-> BatchSeed(mc, k - 1), paths |-> ThisBatch(mc, k - 1)]

LEMMA AddLadder ==
    ASSUME NEW n \in Nat, NEW m, DOMAIN m = 1..n
    PROVE  \E s : /\ s[0] = 0
                  /\ \A i \in 0..(n - 1) : s[i + 1] = s[i] + m[i + 1].paths
                  /\ Adding!FoldOf({}, 0, m) = s[n]
  BY Adding!FoldLadder

LEMMA PathsAddUp ==
    ASSUME NEW mc, mc.samples \in Nat \ {0}, mc.every \in Nat \ {0},
           NEW done, Batched(done, mc), Len(done) = Batches(mc)
    PROVE  /\ FoldLeft(LAMBDA sum, b : sum + b.paths, 0, done) = mc.samples
           /\ \A k \in DOMAIN done : done[k].paths \in 1..mc.every
  <1>1. PICK q \in Nat, rest \in Nat :
             /\ mc.samples = q * mc.every + rest /\ rest < mc.every
             /\ Batches(mc) = q + (IF rest # 0 THEN 1 ELSE 0)
             /\ \A i \in 0..(q - 1) : ThisBatch(mc, i) = mc.every
             /\ ThisBatch(mc, q) = rest
    BY BatchesFacts
  <1>2. PICK n, every : n = Len(done) /\ every = mc.every
    OBVIOUS
  <1>3. n \in Nat /\ DOMAIN done = 1..n /\ every \in Nat \ {0}
        /\ (IF rest = 0 THEN n = q ELSE n = q + 1)
    <2>1. done \in Seq({done[i] : i \in DOMAIN done})
      BY DEF Batched, IsSequence
    <2> QED BY <1>1, <1>2, <2>1, LenProperties
  <1>4. ASSUME NEW k \in 1..n PROVE done[k].paths = ThisBatch(mc, k - 1)
    <2>1. done[k] = [seed |-> BatchSeed(mc, k - 1), paths |-> ThisBatch(mc, k - 1)]
      BY <1>3 DEF Batched
    <2> QED BY <2>1
  <1>5. ASSUME NEW k \in 1..q PROVE done[k].paths = every
    <2>1. k \in 1..n /\ k - 1 \in 0..(q - 1)
      BY <1>3
    <2> QED BY <1>1, <1>2, <1>4, <2>1
  <1>6. ASSUME rest # 0 PROVE n = q + 1 /\ done[n].paths = rest
    <2>1. n = q + 1 /\ n \in 1..n /\ n - 1 = q
      BY <1>3, <1>6
    <2> QED BY <1>1, <1>4, <2>1
  <1>7. PICK s : /\ s[0] = 0
                 /\ \A i \in 0..(n - 1) : s[i + 1] = s[i] + done[i + 1].paths
                 /\ FoldLeft(LAMBDA sum, b : sum + b.paths, 0, done) = s[n]
    <2>1. FoldLeft(LAMBDA sum, b : sum + b.paths, 0, done) = Adding!FoldOf({}, 0, done)
      BY DEF FoldLeft, MapThenFoldSet, Max, Adding!FoldOf, Adding!Max
    <2>2. \E s : /\ s[0] = 0
                 /\ \A i \in 0..(n - 1) : s[i + 1] = s[i] + done[i + 1].paths
                 /\ Adding!FoldOf({}, 0, done) = s[n]
      BY <1>3, AddLadder
    <2> QED BY <2>1, <2>2
  <1>8. s[q] = q * every
    <2> DEFINE T == {i \in Nat : s[i] = i * every}
    <2>1. 0 \in T
      <3>1. 0 * every = 0
        BY <1>3
      <3> QED BY <1>7, <3>1
    <2>2. ASSUME NEW i \in 0..(q - 1), i \in T PROVE i + 1 \in T
      <3>1. i \in 0..(n - 1) /\ i + 1 \in 1..q /\ i + 1 \in Nat
        BY <1>3
      <3>2. s[i + 1] = s[i] + every /\ s[i] = i * every
        BY <1>5, <1>7, <2>2, <3>1
      <3>3. (i + 1) * every = i * every + every
        BY <1>3
      <3> QED BY <3>1, <3>2, <3>3
    <2>3. \A i \in 0..q : i \in T
      <3> HIDE DEF T
      <3> QED BY <2>1, <2>2, Adding!UpTo
    <2> QED BY <2>3
  <1>9. s[n] = mc.samples
    <2>1. CASE rest = 0
      BY <1>1, <1>2, <1>3, <1>8, <2>1
    <2>2. CASE rest # 0
      <3>1. q \in 0..(n - 1) /\ n = q + 1
        BY <1>3, <2>2
      <3>2. s[n] = q * every + rest
        BY <1>6, <1>7, <1>8, <2>2, <3>1
      <3> QED BY <1>1, <1>2, <3>2
    <2> QED BY <2>1, <2>2
  <1>10. ASSUME NEW k \in 1..n PROVE done[k].paths \in 1..every
    <2>1. CASE k \in 1..q
      <3>1. done[k].paths = every
        BY <1>5, <2>1
      <3> QED BY <1>3, <3>1
    <2>2. CASE k \notin 1..q
      <3>1. rest # 0 /\ k = n
        BY <1>3, <2>2
      <3>2. done[k].paths = rest
        BY <1>6, <3>1
      <3> QED BY <1>1, <1>2, <3>1, <3>2
    <2> QED BY <2>1, <2>2
  <1> QED BY <1>2, <1>3, <1>7, <1>9, <1>10

LEMMA SeedsApart ==
    ASSUME NEW mc, W \in Nat, mc.seed \in 1..(W - 1),
           NEW done, Batched(done, mc), Len(done) < W
    PROVE  LET seeds == {done[k].seed : k \in DOMAIN done}
           IN /\ 0 \notin seeds
              /\ Cardinality(seeds) >= Len(done) - (IF mc.seed + Len(done) > W THEN 1 ELSE 0)
  <1>1. PICK n, seed : n = Len(done) /\ seed = mc.seed
    OBVIOUS
  <1>2. n \in Nat /\ DOMAIN done = 1..n /\ seed \in 1..(W - 1) /\ n < W
    <2>1. done \in Seq({done[i] : i \in DOMAIN done})
      BY DEF Batched, IsSequence
    <2> QED BY <1>1, <2>1, LenProperties
  <1> DEFINE seeds == {done[k].seed : k \in 1..n}
             D == (1..n) \ {W - seed + 1}
  <1>3. ASSUME NEW k \in 1..n
        PROVE  done[k].seed = IF (seed + (k - 1)) % W = 0 THEN 1 ELSE (seed + (k - 1)) % W
    <2>1. done[k] = [seed |-> BatchSeed(mc, k - 1), paths |-> ThisBatch(mc, k - 1)]
      BY <1>2 DEF Batched
    <2>2. done[k].seed = BatchSeed(mc, k - 1)
      BY <2>1
    <2> QED BY <1>1, <2>2 DEF BatchSeed
  <1>4. ASSUME NEW k \in 1..n
        PROVE  (seed + (k - 1)) % W
                 = IF k < W - seed + 1 THEN seed + (k - 1) ELSE seed + (k - 1) - W
    <2>1. PICK x : x = seed + (k - 1)
      OBVIOUS
    <2>2. x \in Nat /\ x < 2 * W /\ W \in Nat \ {0}
      BY <1>2, <2>1
    <2>3. x < W => x % W = x
      BY <2>2
    <2>4. x >= W => x % W = x - W
      BY <2>2
    <2>5. k < W - seed + 1 <=> x < W
      BY <1>2, <2>1
    <2> QED BY <1>2, <2>1, <2>2, <2>3, <2>4, <2>5
  <1>5. ASSUME NEW k \in 1..n PROVE done[k].seed \in 1..W
    <2>1. (seed + (k - 1)) % W \in 0..W
      BY <1>2, <1>4
    <2> QED BY <1>2, <1>3, <2>1
  <1>6. ASSUME NEW k \in D
        PROVE  /\ k < W - seed + 1 => done[k].seed = seed + (k - 1)
               /\ k > W - seed + 1 => done[k].seed = seed + (k - 1) - W
    <2>1. k \in 1..n /\ k # W - seed + 1
      OBVIOUS
    <2> HIDE DEF D
    <2>2. k < W - seed + 1 => done[k].seed = seed + (k - 1)
      <3>1. ASSUME k < W - seed + 1 PROVE (seed + (k - 1)) % W = seed + (k - 1)
        BY <1>4, <2>1, <3>1
      <3>2. seed + (k - 1) # 0
        BY <1>2, <2>1
      <3> QED BY <1>3, <2>1, <3>1, <3>2
    <2>3. k > W - seed + 1 => done[k].seed = seed + (k - 1) - W
      <3>1. ASSUME k > W - seed + 1 PROVE (seed + (k - 1)) % W = seed + (k - 1) - W
        BY <1>2, <1>4, <2>1, <3>1
      <3>2. k > W - seed + 1 => seed + (k - 1) - W # 0
        BY <1>2, <2>1
      <3> QED BY <1>3, <2>1, <3>1, <3>2
    <2> QED BY <2>2, <2>3
  <1>7. ASSUME NEW j \in D, NEW k \in D, done[j].seed = done[k].seed PROVE j = k
    <2>1. j \in 1..n /\ k \in 1..n /\ j # W - seed + 1 /\ k # W - seed + 1
      OBVIOUS
    <2>2. /\ j < W - seed + 1 => done[j].seed = seed + (j - 1)
          /\ j > W - seed + 1 => done[j].seed = seed + (j - 1) - W
          /\ k < W - seed + 1 => done[k].seed = seed + (k - 1)
          /\ k > W - seed + 1 => done[k].seed = seed + (k - 1) - W
      BY <1>6
    <2> HIDE DEF D
    <2>3. PICK shared : shared = done[j].seed /\ shared = done[k].seed
      BY <1>7
    <2>4. /\ shared = seed + (j - 1) \/ shared = seed + (j - 1) - W
          /\ shared = seed + (k - 1) \/ shared = seed + (k - 1) - W
      BY <1>2, <2>1, <2>2, <2>3
    <2>5. ASSUME j - k \in {W, -W} PROVE FALSE
      BY <1>2, <2>1, <2>5
    <2>6. j - k \in {0, W, -W}
      BY <1>2, <2>1, <2>4
    <2> QED BY <2>1, <2>5, <2>6
  <1>8. IsFiniteSet(seeds)
    <2>1. IsFiniteSet(1..W)
      BY FS_Interval
    <2>2. seeds \in SUBSET (1..W)
      BY <1>5
    <2> HIDE DEF seeds
    <2> QED BY <2>1, <2>2, FS_Subset
  <1>9. Cardinality(D) <= Cardinality(seeds)
    <2> DEFINE f == [k \in D |-> done[k].seed]
    <2>1. f \in [D -> seeds]
      OBVIOUS
    <2>2. \A j, k \in D : f[j] = f[k] => j = k
      BY <1>7
    <2> HIDE DEF f, D, seeds
    <2>3. f \in Injection(D, seeds)
      BY <2>1, <2>2 DEF Injection, IsInjective
    <2> QED BY <1>8, <2>3, FS_Injection
  <1>10. Cardinality(D) = IF W - seed + 1 \in 1..n THEN n - 1 ELSE n
    <2>1. IsFiniteSet(1..n) /\ Cardinality(1..n) = n
      <3>1. 1 \in Int /\ n \in Int
        BY <1>2
      <3>2. IsFiniteSet(1..n) /\ Cardinality(1..n) = IF 1 > n THEN 0 ELSE n - 1 + 1
        BY <3>1, FS_Interval
      <3> QED BY <1>2, <3>2
    <2>2. PICK x : x = W - seed + 1
      OBVIOUS
    <2>3. Cardinality((1..n) \ {x}) = IF x \in 1..n THEN n - 1 ELSE n
      BY <2>1, FS_RemoveElement
    <2> QED BY <2>2, <2>3
  <1>11. Cardinality(D) >= n - (IF seed + n > W THEN 1 ELSE 0)
    <2>1. W - seed + 1 \in 1..n <=> seed + n > W
      BY <1>2
    <2> HIDE DEF D
    <2> QED BY <1>2, <1>10, <2>1
  <1>12. Cardinality(seeds) >= n - (IF seed + n > W THEN 1 ELSE 0)
    <2>1. Cardinality(seeds) \in Nat /\ Cardinality(D) \in Nat
      <3>1. Cardinality(D) \in Nat
        BY <1>2, <1>10
      <3> HIDE DEF D, seeds
      <3> QED BY <1>8, <3>1, FS_CardinalityType
    <2> HIDE DEF D, seeds
    <2>2. n - (IF seed + n > W THEN 1 ELSE 0) \in Int
      BY <1>2
    <2> QED BY <1>9, <1>11, <2>1, <2>2
  <1>13. 0 \notin seeds
    BY <1>5
  <1> QED BY <1>1, <1>2, <1>12, <1>13

\* A batched price is of the paths that were asked for, seeded apart.
AddsUp(mc, out) ==
    LET done == out.run
        seeds == {done[k].seed : k \in DOMAIN done}
    IN out.engine = "Batched" =>
        /\ FoldLeft(LAMBDA sum, b : sum + b.paths, 0, done) = mc.samples
        /\ \A k \in DOMAIN done : done[k].paths \in 1..mc.every
        /\ Len(done) <= MaxBatches
        /\ 0 \notin seeds
        /\ Cardinality(seeds) >= Len(done) - (IF mc.seed + Len(done) > W THEN 1 ELSE 0)

\* What is checked before a simulation in batches is begun.
LEMMA BatchedIsLimited ==
    ASSUME NEW r, "Batched" \in Chosen(r),
           {r.mc.seed, r.mc.samples, r.mc.every} \subseteq 0..(W - 1)
    PROVE  /\ W \in Nat /\ r.mc.seed \in 1..(W - 1)
           /\ r.mc.samples \in Nat \ {0} /\ r.mc.every \in Nat \ {0}
           /\ r.mc.samples < W /\ Batches(r.mc) <= MaxBatches
  <1>1. PricesOption(r, "Batched") /\ EngineLimits(r)
    BY DEF Chosen, PricesSwap, Servable
  <1>2. r.style = "vanilla" /\ Vanilla(r, "Batched")
    BY <1>1 DEF PricesOption, Barrier, DoubleBarrier, ForwardStart, Asian, Lookback, Compound,
       Basket, Cliquet, Chooser
  <1>3. r.mc.every > 0 /\ Simulates(r, {})
    BY <1>2 DEF Vanilla
  <1> QED BY <1>1, <1>2, <1>3, SizesAssumption DEF Simulates, EngineLimits

LEMMA BatchedAddsUp ==
    ASSUME NEW r, "Batched" \in Chosen(r),
           {r.mc.seed, r.mc.samples, r.mc.every} \subseteq 0..(W - 1),
           NEW x, Batched(x.run, r.mc), Len(x.run) = Batches(r.mc)
    PROVE  AddsUp(r.mc, x)
  <1>1. PICK mc, done : mc = r.mc /\ done = x.run
    OBVIOUS
  <1>2. /\ W \in Nat /\ mc.seed \in 1..(W - 1)
        /\ mc.samples \in Nat \ {0} /\ mc.every \in Nat \ {0}
        /\ mc.samples < W /\ Batches(mc) <= MaxBatches
    BY <1>1, BatchedIsLimited
  <1>3. Batched(done, mc) /\ Len(done) = Batches(mc)
    BY <1>1
  <1>4. /\ FoldLeft(LAMBDA sum, b : sum + b.paths, 0, done) = mc.samples
        /\ \A k \in DOMAIN done : done[k].paths \in 1..mc.every
    BY <1>2, <1>3, PathsAddUp
  <1>5. Batches(mc) < W
    <2>1. PICK q \in Nat, rest \in Nat :
             /\ mc.samples = q * mc.every + rest
             /\ Batches(mc) = q + (IF rest # 0 THEN 1 ELSE 0)
      BY <1>2, BatchesFacts
    <2>2. PICK every : every = mc.every
      OBVIOUS
    <2>3. q * every \in Nat /\ q <= q * every
      <3>1. every \in Nat \ {0}
        BY <1>2, <2>2
      <3>2. 1 * q <= every * q
        BY <3>1, Multiples
      <3> QED BY <3>1, <3>2
    <2>4. Batches(mc) <= q * every + rest
      BY <2>1, <2>3
    <2> QED BY <1>2, <2>1, <2>2, <2>3, <2>4
  <1>6. /\ 0 \notin {done[k].seed : k \in DOMAIN done}
        /\ Cardinality({done[k].seed : k \in DOMAIN done})
             >= Len(done) - (IF mc.seed + Len(done) > W THEN 1 ELSE 0)
    BY <1>2, <1>3, <1>5, SeedsApart
  <1>7. Len(done) <= MaxBatches
    BY <1>2, <1>3
  <1> QED BY <1>1, <1>4, <1>6, <1>7 DEF AddsUp
-----------------------------------------------------------------------------
(* The invariant of a call being served *)

Codes == {"price", "refused", "failed", "cancelled"}

ServeInv ==
    /\ call \in Calls /\ IsSequence(entries)
    /\ dirty \in BOOLEAN /\ stop \in BOOLEAN
    /\ code \in {"serving", "answered", "refused"}
    /\ Len(entries) <= Size /\ abandoned \in 0..Len(entries)
    /\ \A i \in DOMAIN entries : entries[i].code \in Codes
    /\ run # <<>> => Open /\ ~Nested

\* A price was made by an engine that the request selects, not of a sweep, and is of
\* all that was asked for.
PricedRight(r, x) ==
    /\ x.engine \in Chosen(r) /\ "scenarios" \notin r.given
    /\ Answers(r, x) /\ AddsUp(r.mc, x)

PriceInv ==
    \A i \in DOMAIN entries :
        entries[i].code = "price" => PricedRight(call.requests[i], entries[i])

\* The simulation under way is of the current trade.
RunInv == run # <<>> => Batched(run, Current.mc)

\* A trade that was attempted has an answer of its own.
RowInv ==
    \A i \in DOMAIN entries :
        /\ entries[i].code # "cancelled"
        /\ "scenarios" \in call.requests[i].given => entries[i].code = "refused"
        /\ call.dirty => entries[i].code # "price"

BookInv ==
    code = "serving" =>
        /\ dirty = call.dirty
        /\ abandoned > 0 => abandoned = Len(entries) /\ (dirty \/ stop)
        /\ call.book => RowInv

\* An entry that the current trade may have.
Fits(x) ==
    /\ x.code \in Codes
    /\ call.book => x.code # "cancelled"
    /\ Nested => x.code = "refused"
    /\ x.code = "price" =>
         /\ ~dirty /\ ~Nested /\ x.engine \in Chosen(Current)
         /\ Answers(Current, x) /\ AddsUp(Current.mc, x)

LEMMA Appended ==
    ASSUME NEW s, IsSequence(s), NEW x
    PROVE  /\ IsSequence(Append(s, x))
           /\ Len(s) \in Nat /\ Len(Append(s, x)) = Len(s) + 1
           /\ DOMAIN s = 1..Len(s) /\ DOMAIN Append(s, x) = 1..(Len(s) + 1)
           /\ \A i \in 1..Len(s) : Append(s, x)[i] = s[i]
           /\ Append(s, x)[Len(s) + 1] = x
  <1> DEFINE X == {s[i] : i \in DOMAIN s}
             Y == X \union {x}
             t == Append(s, x)
  <1>1. s \in Seq(X) /\ s \in Seq(Y) /\ x \in Y
    <2>1. s \in Seq(X)
      BY DEF IsSequence
    <2>2. X \subseteq Y
      OBVIOUS
    <2> QED BY <2>1, <2>2
  <1> HIDE DEF X, Y
  <1>2. /\ t \in Seq(Y) /\ Len(t) = Len(s) + 1
        /\ \A i \in 1..Len(s) : t[i] = s[i]
        /\ t[Len(s) + 1] = x
    BY <1>1, AppendProperties
  <1>3. /\ Len(s) \in Nat /\ DOMAIN s = 1..Len(s) /\ DOMAIN t = 1..(Len(s) + 1)
    BY <1>1, <1>2, LenProperties
  <1>4. t \in Seq({t[i] : i \in DOMAIN t})
    <2>1. \A i \in 1..Len(t) : t[i] \in {t[k] : k \in DOMAIN t}
      BY <1>2, <1>3
    <2> QED BY <1>2, <2>1, LenProperties
  <1> QED BY <1>1, <1>2, <1>3, <1>4 DEF IsSequence

LEMMA CallFacts ==
    ASSUME ServeInv
    PROVE  /\ call.book \in BOOLEAN /\ call.dirty \in BOOLEAN
           /\ Size \in Nat /\ DOMAIN call.requests = 1..Size
           /\ Len(entries) \in Nat /\ DOMAIN entries = 1..Len(entries)
           /\ abandoned \in Nat
           /\ ~call.book => Size = 1
           /\ \A i \in 1..Size : ~call.book => "scenarios" \notin call.requests[i].given
  <1>1. call \in Calls /\ Len(entries) \in Nat /\ DOMAIN entries = 1..Len(entries)
    <2>1. entries \in Seq({entries[i] : i \in DOMAIN entries})
      BY DEF ServeInv, IsSequence
    <2> QED BY <2>1, LenProperties DEF ServeInv
  <1>2. abandoned \in Nat
    BY <1>1 DEF ServeInv
  <1> QED BY <1>1, <1>2, CallsAssumption DEF Size

LEMMA NothingBatched ==
    ASSUME NEW mc, Len(<<>>) <= Batches(mc) PROVE Batched(<<>>, mc)
  BY DEF Batched, IsSequence

LEMMA MoreBatched ==
    ASSUME NEW s, NEW mc, Batched(s, mc), Batches(mc) \in Nat, Len(s) < Batches(mc),
           NEW x, x = [seed |-> BatchSeed(mc, Len(s)), paths |-> ThisBatch(mc, Len(s))]
    PROVE  Batched(Append(s, x), mc)
  <1>1. PICK t : t = Append(s, x)
    OBVIOUS
  <1>2. /\ IsSequence(t) /\ Len(s) \in Nat /\ Len(t) = Len(s) + 1
        /\ DOMAIN s = 1..Len(s) /\ DOMAIN t = 1..(Len(s) + 1)
        /\ \A i \in 1..Len(s) : t[i] = s[i]
        /\ t[Len(s) + 1] = x
    BY <1>1, Appended DEF Batched
  <1>3. PICK n : n = Len(s)
    OBVIOUS
  <1>4. ASSUME NEW k \in 1..(n + 1)
        PROVE  t[k] = [seed |-> BatchSeed(mc, k - 1), paths |-> ThisBatch(mc, k - 1)]
    <2>1. CASE k = n + 1
      <3>1. k - 1 = n
        BY <1>2, <1>3, <2>1
      <3> QED BY <1>2, <1>3, <2>1, <3>1
    <2>2. CASE k \in 1..n
      BY <1>2, <1>3, <2>2 DEF Batched
    <2> QED BY <1>2, <1>3, <2>1, <2>2
  <1>5. Len(t) <= Batches(mc)
    BY <1>2
  <1> QED BY <1>1, <1>2, <1>3, <1>4, <1>5 DEF Batched

\* A step that answers the current trade with x.
Takes(x) ==
    /\ Open /\ Fits(x)
    /\ entries' = Append(entries, x) /\ call' = call /\ stop' = stop
    /\ \/ Done(x)
       \/ run = <<>> /\ call.book /\ UNCHANGED <<dirty, run, abandoned, code>> /\ Nested

LEMMA OutcomeFacts ==
    ASSUME NEW c
    PROVE  /\ Outcome(c).code = c
           /\ \A e, results, unavailable :
                LET x == [Outcome(c) EXCEPT !.engine = e, !.results = results,
                                            !.unavailable = unavailable]
                IN x.code = c /\ x.engine = e /\ x.results = results
                   /\ x.unavailable = unavailable
           /\ \A e :
                LET x == [Outcome(c) EXCEPT !.engine = e, !.run = run]
                IN x.code = c /\ x.engine = e /\ x.run = run /\ x.results = {}
                   /\ x.unavailable = {}
  BY DEF Outcome

LEMMA AnEntryIsTaken ==
    ASSUME ServeInv, RunInv,
           \/ RefuseNested \/ PriceDirty \/ Refuse \/ Price \/ NextBatch \/ FinishBatches
    PROVE  \/ \E x : Takes(x)
           \/ /\ Open /\ ~Nested /\ RunInv'
              /\ UNCHANGED <<call, dirty, stop, entries, abandoned, code>>
  <1>0. ASSUME NEW x, Open, ~Nested, Done(x), x.code \in Codes,
               call.book => x.code # "cancelled",
               x.code = "price" => /\ ~dirty /\ x.engine \in Chosen(Current)
                                   /\ Answers(Current, x) /\ AddsUp(Current.mc, x)
        PROVE  \E y : Takes(y)
    <2>1. Takes(x)
      BY <1>0 DEF Takes, Fits, Done
    <2> QED BY <2>1
  <1>a. \A c : Outcome(c).code = c
    BY OutcomeFacts
  <1>b. ASSUME Open
        PROVE  /\ Len(Current.asked) \in Nat /\ DOMAIN Current.asked = 1..Len(Current.asked)
               /\ {Current.mc.seed, Current.mc.samples, Current.mc.every} \subseteq 0..(W - 1)
    <2>1. Len(entries) + 1 \in DOMAIN call.requests
      BY <1>b, CallFacts DEF Open
    <2> QED BY <2>1, CallsAssumption DEF ServeInv, Current
  <1>1. CASE RefuseNested
    <2>1. Takes(Outcome("refused"))
      BY <1>1, <1>a DEF RefuseNested, Takes, Fits, Codes, ServeInv, Nested
    <2> QED BY <2>1
  <1>2. CASE PriceDirty
    <2>1. Open /\ ~Nested /\ Done(Outcome("failed"))
      BY <1>2 DEF PriceDirty
    <2> QED BY <1>0, <1>a, <2>1 DEF Codes
  <1>3. CASE Refuse
    <2>1. Open /\ ~Nested /\ Done(Outcome("refused"))
      BY <1>3 DEF Refuse
    <2> QED BY <1>0, <1>a, <2>1 DEF Codes
  <1>4. CASE Price
    <2>1. Open /\ ~Nested /\ ~dirty
      BY <1>4 DEF Price
    <2>2. PICK e \in Chosen(Current) \ {"Batched"} :
            \/ Done(Outcome("failed"))
            \/ \E published \in SUBSET (Range(Current.asked) \union {"GAMMA"}) :
                 LET out == Collected(Current, e, published)
                 IN Done([Outcome("price") EXCEPT !.engine = e, !.results = out.results,
                                                  !.unavailable = out.unavailable])
            \/ Done(Outcome("refused"))
      BY <1>4 DEF Price
    <2>3. CASE Done(Outcome("failed")) \/ Done(Outcome("refused"))
      BY <1>0, <1>a, <2>1, <2>3 DEF Codes
    <2>4. ASSUME NEW published,
                 LET out == Collected(Current, e, published)
                 IN Done([Outcome("price") EXCEPT !.engine = e, !.results = out.results,
                                                  !.unavailable = out.unavailable])
          PROVE  \E x : Takes(x)
      <3>1. PICK results, unavailable :
              /\ results = Collected(Current, e, published).results
              /\ unavailable = Collected(Current, e, published).unavailable
        OBVIOUS
      <3>2. PICK x : x = [Outcome("price") EXCEPT !.engine = e, !.results = results,
                                                  !.unavailable = unavailable]
        OBVIOUS
      <3>3. x.code = "price" /\ x.engine = e /\ x.results = results
            /\ x.unavailable = unavailable
        BY <3>2, OutcomeFacts
      <3>4. Done(x)
        BY <2>4, <3>1, <3>2
      <3>5. PICK r : r = Current
        OBVIOUS
      <3>6. Len(r.asked) \in Nat /\ DOMAIN r.asked = 1..Len(r.asked)
        BY <1>b, <2>1, <3>5
      <3>7. Answers(Current, x)
        <4>1. Answers(r, x)
          BY <3>1, <3>3, <3>5, <3>6, CollectedAnswers
        <4> QED BY <3>5, <4>1
      <3>8. AddsUp(Current.mc, x)
        BY <2>2, <3>3 DEF AddsUp
      <3> QED BY <1>0, <2>1, <2>2, <3>3, <3>4, <3>7, <3>8 DEF Codes
    <2> QED BY <2>2, <2>3, <2>4
  <1>5. CASE NextBatch
    <2>1. Open /\ ~Nested
      BY <1>5 DEF NextBatch, Simulating
    <2>2. \/ Done(Outcome("failed"))
          \/ ~call.book /\ Done(Outcome("cancelled"))
          \/ /\ run' = Append(run, [seed |-> BatchSeed(Current.mc, Len(run)),
                                     paths |-> ThisBatch(Current.mc, Len(run))])
             /\ UNCHANGED <<call, dirty, stop, entries, abandoned, code>>
      BY <1>5 DEF NextBatch
    <2>3. CASE Done(Outcome("failed"))
      BY <1>0, <1>a, <2>1, <2>3 DEF Codes
    <2>4. CASE ~call.book /\ Done(Outcome("cancelled"))
      BY <1>0, <1>a, <2>1, <2>4 DEF Codes
    <2>5. CASE /\ run' = Append(run, [seed |-> BatchSeed(Current.mc, Len(run)),
                                      paths |-> ThisBatch(Current.mc, Len(run))])
               /\ UNCHANGED <<call, dirty, stop, entries, abandoned, code>>
      <3>1. Current' = Current
        BY <2>5 DEF Current
      <3>2. Len(run) < Batches(Current.mc)
        BY <1>5 DEF NextBatch
      <3>3. PICK mc, x : /\ mc = Current.mc
                         /\ x = [seed |-> BatchSeed(mc, Len(run)), paths |-> ThisBatch(mc, Len(run))]
        OBVIOUS
      <3>4. Batches(mc) \in Nat
        <4>1. {Current.mc.samples, Current.mc.every} \subseteq Nat /\ "Batched" \in Chosen(Current)
              /\ {Current.mc.seed, Current.mc.samples, Current.mc.every} \subseteq 0..(W - 1)
          BY <1>5, <1>b, <2>1, SizesAssumption DEF NextBatch, Simulating
        <4>2. PICK r : r = Current
          OBVIOUS
        <4>3. mc.samples \in Nat \ {0} /\ mc.every \in Nat \ {0}
          BY <3>3, <4>1, <4>2, BatchedIsLimited
        <4> QED BY <4>3, BatchesFacts
      <3>5. Batched(run, mc)
        <4>1. CASE run = <<>>
          <5>1. Len(run) = 0 /\ Len(run) <= Batches(mc)
            BY <3>2, <3>3, <3>4, <4>1
          <5> QED BY <4>1, <5>1, NothingBatched
        <4>2. CASE run # <<>>
          BY <3>3, <4>2 DEF RunInv
        <4> QED BY <4>1, <4>2
      <3>6. Batched(Append(run, x), mc)
        BY <3>2, <3>3, <3>4, <3>5, MoreBatched
      <3>7. run' = Append(run, x)
        BY <2>5, <3>3
      <3>8. RunInv'
        BY <3>1, <3>3, <3>6, <3>7 DEF RunInv
      <3> QED BY <2>1, <2>5, <3>8
    <2> QED BY <2>2, <2>3, <2>4, <2>5
  <1>6. CASE FinishBatches
    <2>1. Open /\ ~Nested /\ ~dirty /\ "Batched" \in Chosen(Current)
      BY <1>6 DEF FinishBatches, Simulating
    <2>2. CASE Done(Outcome("refused"))
      BY <1>0, <1>a, <2>1, <2>2 DEF Codes
    <2>3. CASE Done([Outcome("price") EXCEPT !.engine = "Batched", !.run = run])
      <3>1. PICK x : x = [Outcome("price") EXCEPT !.engine = "Batched", !.run = run]
        OBVIOUS
      <3>2. x.code = "price" /\ x.engine = "Batched" /\ x.run = run /\ x.results = {}
            /\ x.unavailable = {}
        BY <3>1, OutcomeFacts
      <3>3. Done(x)
        BY <2>3, <3>1
      <3>4. Answers(Current, x)
        BY <3>2 DEF Answers
      <3>5. PICK r : r = Current
        OBVIOUS
      <3>6. Batched(run, r.mc) /\ Len(run) = Batches(r.mc)
        <4>1. Len(run) = Batches(Current.mc)
          BY <1>6 DEF FinishBatches
        <4> QED BY <3>5, <4>1, NothingBatched DEF RunInv
      <3>7. AddsUp(Current.mc, x)
        <4>1. {r.mc.seed, r.mc.samples, r.mc.every} \subseteq 0..(W - 1) /\ "Batched" \in Chosen(r)
          BY <1>b, <2>1, <3>5
        <4>2. AddsUp(r.mc, x)
          BY <3>2, <3>6, <4>1, BatchedAddsUp
        <4> QED BY <3>5, <4>2
      <3> QED BY <1>0, <2>1, <3>2, <3>3, <3>4, <3>7 DEF Codes
    <2> QED BY <1>6, <2>2, <2>3 DEF FinishBatches
  <1> QED BY <1>1, <1>2, <1>3, <1>4, <1>5, <1>6

LEMMA TakesKeeps ==
    ASSUME ServeInv, NEW x, Takes(x) PROVE ServeInv'
  <1>1. /\ IsSequence(entries)' /\ Len(entries') = Len(entries) + 1
        /\ DOMAIN entries' = 1..(Len(entries) + 1)
        /\ \A i \in 1..Len(entries) : entries'[i] = entries[i]
        /\ entries'[Len(entries) + 1] = x
    BY Appended DEF ServeInv, Takes, IsSequence
  <1>2. Size \in Nat /\ Len(entries) \in Nat /\ Size' = Size /\ abandoned = 0
    BY CallFacts DEF Takes, Size, Open
  <1>3. (call \in Calls)' /\ (stop \in BOOLEAN)' /\ (dirty \in BOOLEAN)'
    BY CallFacts DEF ServeInv, Takes, Done
  <1>4. (code \in {"serving", "answered", "refused"})'
    BY DEF ServeInv, Takes, Done
  <1>5. (Len(entries) <= Size)'
    <2>1. Len(entries) < Size
      BY DEF Takes, Open
    <2> QED BY <1>1, <1>2, <2>1
  <1>6. (abandoned \in 0..Len(entries))'
    <2>1. abandoned' \in {0, Len(entries')}
      BY <1>2 DEF Takes, Done
    <2> QED BY <1>1, <1>2, <2>1
  <1>7. (\A i \in DOMAIN entries : entries[i].code \in Codes)'
    <2>1. x.code \in Codes
      BY DEF Takes, Fits
    <2>2. \A i \in 1..Len(entries) : entries[i].code \in Codes
      BY CallFacts DEF ServeInv
    <2>3. ASSUME NEW i \in 1..(Len(entries) + 1) PROVE entries'[i].code \in Codes
      BY <1>1, <1>2, <2>1, <2>2, <2>3
    <2> QED BY <1>1, <2>3
  <1>8. run' = <<>>
    BY DEF Takes, Done
  <1> QED BY <1>1, <1>3, <1>4, <1>5, <1>6, <1>7, <1>8 DEF ServeInv

LEMMA TakesKeepsPrices ==
    ASSUME ServeInv, PriceInv, NEW x, Takes(x) PROVE PriceInv'
  <1>1. /\ DOMAIN entries' = 1..(Len(entries) + 1) /\ Len(entries) \in Nat
        /\ DOMAIN entries = 1..Len(entries)
        /\ \A i \in 1..Len(entries) : entries'[i] = entries[i]
        /\ entries'[Len(entries) + 1] = x
    BY Appended DEF ServeInv, Takes
  <1>2. call' = call
    BY DEF Takes
  <1>3. ASSUME x.code = "price" PROVE PricedRight(call.requests[Len(entries) + 1], x)
    <2>1. /\ x.engine \in Chosen(Current) /\ ~Nested
          /\ Answers(Current, x) /\ AddsUp(Current.mc, x)
      BY <1>3 DEF Takes, Fits
    <2>2. Len(entries) + 1 \in 1..Size
      BY <1>1, CallFacts DEF Takes, Open
    <2>3. "scenarios" \notin Current.given
      BY <2>1, <2>2, CallFacts DEF Nested, Current
    <2> QED BY <2>1, <2>3 DEF PricedRight, Current
  <1>4. ASSUME NEW i \in 1..(Len(entries) + 1), entries'[i].code = "price"
        PROVE  PricedRight(call.requests[i], entries'[i])
    <2>1. CASE i = Len(entries) + 1
      BY <1>1, <1>3, <1>4, <2>1
    <2>2. CASE i \in 1..Len(entries)
      BY <1>1, <1>4, <2>2 DEF PriceInv
    <2> QED BY <1>1, <2>1, <2>2
  <1>5. ASSUME NEW i \in DOMAIN entries', entries'[i].code = "price"
        PROVE  PricedRight(call'.requests[i], entries'[i])
    BY <1>1, <1>2, <1>4, <1>5
  <1> QED BY <1>5 DEF PriceInv

LEMMA TakesKeepsBook ==
    ASSUME ServeInv, BookInv, NEW x, Takes(x) PROVE BookInv'
  <1> SUFFICES ASSUME code' = "serving"
               PROVE  /\ dirty' = call.dirty
                      /\ abandoned' > 0 => abandoned' = Len(entries') /\ (dirty' \/ stop')
                      /\ call.book => RowInv'
    BY DEF BookInv, Takes
  <1>1. /\ DOMAIN entries' = 1..(Len(entries) + 1) /\ Len(entries) \in Nat
        /\ DOMAIN entries = 1..Len(entries)
        /\ \A i \in 1..Len(entries) : entries'[i] = entries[i]
        /\ entries'[Len(entries) + 1] = x
    BY Appended DEF ServeInv, Takes
  <1>2. code = "serving" /\ call.book /\ dirty = call.dirty /\ abandoned = 0 /\ RowInv
        /\ call' = call /\ stop' = stop
    BY DEF Takes, Open, Done, BookInv
  <1>3. dirty' = dirty
    BY <1>2, CallFacts DEF Takes, Done
  <1>4. abandoned' > 0 => abandoned' = Len(entries') /\ (dirty' \/ stop')
    BY <1>2, <1>3 DEF Takes, Done
  <1>5. /\ x.code # "cancelled"
        /\ "scenarios" \in call.requests[Len(entries) + 1].given => x.code = "refused"
        /\ call.dirty => x.code # "price"
    BY <1>2 DEF Takes, Fits, Nested, Current
  <1>6. ASSUME NEW i \in 1..(Len(entries) + 1)
        PROVE  /\ entries'[i].code # "cancelled"
               /\ "scenarios" \in call.requests[i].given => entries'[i].code = "refused"
               /\ call.dirty => entries'[i].code # "price"
    <2>1. CASE i = Len(entries) + 1
      BY <1>1, <1>5, <2>1
    <2>2. CASE i \in 1..Len(entries)
      BY <1>1, <1>2, <2>2 DEF RowInv
    <2> QED BY <1>1, <2>1, <2>2
  <1>7. RowInv'
    BY <1>1, <1>2, <1>6 DEF RowInv
  <1> QED BY <1>2, <1>3, <1>4, <1>7

\* Nothing but the simulation moves while a trade is priced.
LEMMA BatchKeeps ==
    ASSUME ServeInv, Open, ~Nested, UNCHANGED <<call, dirty, stop, entries, abandoned, code>>
    PROVE  ServeInv'
  BY DEF ServeInv, IsSequence, Open, Nested, Current, Size

\* The rows that a book is completed with.
LEMMA Completed ==
    ASSUME ServeInv, Finish
    PROVE  /\ IsSequence(entries)' /\ Len(entries') = Size /\ DOMAIN entries' = 1..Size
           /\ \A i \in 1..Len(entries) : entries'[i] = entries[i]
           /\ \A i \in (Len(entries) + 1)..Size :
                  entries'[i].code = IF dirty THEN "failed" ELSE "cancelled"
  <1> DEFINE why == Outcome(IF dirty THEN "failed" ELSE "cancelled")
             n == Size - Len(entries)
             rest == [i \in 1..n |-> why]
             X == {entries[i] : i \in DOMAIN entries} \union {why}
  <1>1. Size \in Nat /\ Len(entries) \in Nat /\ DOMAIN entries = 1..Len(entries)
        /\ Len(entries) <= Size
    BY CallFacts DEF ServeInv
  <1>2. n \in Nat
    BY <1>1
  <1>3. entries \in Seq(X)
    <2>1. entries \in Seq({entries[i] : i \in DOMAIN entries})
      BY DEF ServeInv, IsSequence
    <2> DEFINE Y == {entries[i] : i \in DOMAIN entries}
    <2>2. Y \subseteq X
      OBVIOUS
    <2> HIDE DEF X, Y
    <2>3. \A i \in DOMAIN entries : entries[i] \in X
      BY <2>2 DEF Y
    <2> QED BY <1>1, <2>1, <2>3, LenProperties
  <1>4. rest \in Seq(X) /\ Len(rest) = n
    <2>1. why \in X
      OBVIOUS
    <2> HIDE DEF X, why, n
    <2>2. rest \in [1..n -> X]
      BY <2>1
    <2> HIDE DEF rest
    <2>3. rest \in Seq(X)
      BY <1>2, <2>2
    <2> QED BY <1>2, <2>2, <2>3, LenProperties
  <1>5. entries' = entries \o rest
    BY DEF Finish
  <1>6. why.code = IF dirty THEN "failed" ELSE "cancelled"
    BY DEF Outcome
  <1>7. \A i \in 1..n : rest[i] = why
    OBVIOUS
  <1> HIDE DEF X, rest, why
  <1>8. /\ entries' \in Seq(X) /\ Len(entries') = Len(entries) + n
        /\ \A i \in 1..Len(entries) : entries'[i] = entries[i]
        /\ \A i \in 1..n : entries'[Len(entries) + i] = rest[i]
    BY <1>1, <1>2, <1>3, <1>4, <1>5
  <1>9. Len(entries') = Size /\ DOMAIN entries' = 1..Size
    BY <1>1, <1>8, LenProperties
  <1>10. ASSUME NEW i \in (Len(entries) + 1)..Size
         PROVE  entries'[i].code = IF dirty THEN "failed" ELSE "cancelled"
    <2>1. i - Len(entries) \in 1..n /\ i = Len(entries) + (i - Len(entries))
      BY <1>1
    <2> QED BY <1>6, <1>7, <1>8, <2>1
  <1>11. IsSequence(entries)'
    <2>1. \A i \in 1..Len(entries') : entries'[i] \in {entries'[k] : k \in DOMAIN entries'}
      BY <1>9
    <2> QED BY <1>8, <2>1, LenProperties DEF IsSequence
  <1> QED BY <1>8, <1>9, <1>10, <1>11

LEMMA FinishKeeps ==
    ASSUME ServeInv, BookInv, Finish PROVE ServeInv' /\ BookInv' /\ BooksAreWhole'
  <1>1. /\ IsSequence(entries)' /\ Len(entries') = Size /\ DOMAIN entries' = 1..Size
        /\ \A i \in 1..Len(entries) : entries'[i] = entries[i]
        /\ \A i \in (Len(entries) + 1)..Size :
               entries'[i].code = IF dirty THEN "failed" ELSE "cancelled"
    BY Completed
  <1>2. /\ call.book /\ call' = call /\ stop' = stop /\ run' = run /\ abandoned' = abandoned
        /\ code' = "answered" /\ dirty' = FALSE /\ code = "serving"
        /\ abandoned > 0 \/ Len(entries) = Size
    BY DEF Finish
  <1>3. /\ Size \in Nat /\ Size' = Size /\ Len(entries) \in Nat /\ Len(entries) <= Size
        /\ DOMAIN entries = 1..Len(entries) /\ abandoned \in Nat /\ abandoned \in 0..Len(entries)
    BY <1>2, CallFacts DEF ServeInv, Size
  <1>4. /\ dirty = call.dirty /\ RowInv
        /\ abandoned > 0 => abandoned = Len(entries) /\ (dirty \/ stop)
    BY <1>2 DEF BookInv
  <1>5. run = <<>>
    <2>1. abandoned # 0 \/ ~(Len(entries) < Size)
      <3>1. CASE abandoned > 0
        BY <3>1
      <3>2. CASE Len(entries) = Size
        BY <1>3, <3>2
      <3> QED BY <1>2, <3>1, <3>2
    <2> QED BY <2>1 DEF ServeInv, Open
  <1>6. ServeInv'
    <2>1. (\A i \in DOMAIN entries : entries[i].code \in Codes)'
      <3>1. ASSUME NEW i \in 1..Size PROVE entries'[i].code \in Codes
        <4>1. CASE i \in 1..Len(entries)
          BY <1>1, <1>3, <4>1 DEF ServeInv
        <4>2. CASE i \in (Len(entries) + 1)..Size
          BY <1>1, <4>2 DEF Codes
        <4> QED BY <1>3, <4>1, <4>2
      <3> QED BY <1>1, <3>1
    <2>2. (abandoned \in 0..Len(entries))'
      <3>1. abandoned \in 0..Size
        BY <1>3
      <3> QED BY <1>1, <1>2, <3>1
    <2>3. (Len(entries) <= Size)'
      BY <1>1, <1>3
    <2>4. call' \in Calls /\ stop' \in BOOLEAN
      BY <1>2 DEF ServeInv
    <2> QED BY <1>1, <1>2, <1>5, <2>1, <2>2, <2>3, <2>4 DEF ServeInv
  <1>7. BookInv'
    BY <1>2 DEF BookInv
  <1>8. BooksAreWhole'
    <2>1. Attempted' = Len(entries)
      BY <1>2, <1>3, <1>4 DEF Attempted
    <2>2. ASSUME NEW i \in 1..Len(entries)
          PROVE  /\ entries'[i].code # "cancelled"
                 /\ "scenarios" \in call.requests[i].given => entries'[i].code = "refused"
                 /\ call.dirty => entries'[i].code # "price"
      BY <1>1, <1>3, <1>4, <2>2 DEF RowInv
    <2>3. \A i \in (Len(entries) + 1)..Size :
              entries'[i].code = IF call.dirty THEN "failed" ELSE "cancelled"
      BY <1>1, <1>4
    <2>4. call.dirty => Priced' = {}
      <3>1. ASSUME call.dirty, NEW i \in 1..Size PROVE entries'[i].code # "price"
        <4>1. CASE i \in 1..Len(entries)
          BY <2>2, <3>1, <4>1
        <4>2. CASE i \in (Len(entries) + 1)..Size
          BY <2>3, <4>2
        <4> QED BY <1>3, <4>1, <4>2
      <3> QED BY <1>1, <3>1 DEF Priced
    <2>5. abandoned' > 0 => call.dirty \/ stop'
      BY <1>2, <1>4
    <2>6. Len(entries') = Size'
      BY <1>1, <1>3
    <2> QED BY <1>2, <1>3, <2>1, <2>2, <2>3, <2>4, <2>5, <2>6 DEF BooksAreWhole
  <1> QED BY <1>6, <1>7, <1>8

LEMMA FinishKeepsPrices ==
    ASSUME ServeInv, PriceInv, Finish PROVE PriceInv'
  <1>1. /\ DOMAIN entries' = 1..Size
        /\ \A i \in 1..Len(entries) : entries'[i] = entries[i]
        /\ \A i \in (Len(entries) + 1)..Size :
               entries'[i].code = IF dirty THEN "failed" ELSE "cancelled"
    BY Completed
  <1>2. Size \in Nat /\ Len(entries) \in Nat /\ DOMAIN entries = 1..Len(entries) /\ call' = call
    BY CallFacts DEF Finish
  <1>3. ASSUME NEW i \in 1..Size, entries'[i].code = "price"
        PROVE  PricedRight(call.requests[i], entries'[i])
    <2>1. CASE i \in 1..Len(entries)
      BY <1>1, <1>2, <1>3, <2>1 DEF PriceInv
    <2>2. CASE i \in (Len(entries) + 1)..Size
      BY <1>1, <1>3, <2>2
    <2> QED BY <1>2, <2>1, <2>2
  <1>4. ASSUME NEW i \in DOMAIN entries', entries'[i].code = "price"
        PROVE  PricedRight(call'.requests[i], entries'[i])
    BY <1>1, <1>2, <1>3, <1>4
  <1> QED BY <1>4 DEF PriceInv

-----------------------------------------------------------------------------
(* The theorems *)

Serving == ServeInv /\ RunInv /\ PriceInv /\ BookInv /\ BooksAreWhole

LEMMA ServingInit == Init => Serving
  <1> SUFFICES ASSUME Init PROVE Serving
    OBVIOUS
  <1>1. entries = <<>> /\ Len(entries) = 0 /\ DOMAIN entries = {}
    BY DEF Init
  <1>2. call \in Calls /\ Len(call.requests) \in Nat /\ call.dirty \in BOOLEAN
    BY CallsAssumption DEF Init
  <1>3. IsSequence(entries)
    BY <1>1 DEF IsSequence
  <1>4. ServeInv
    <2>1. Len(entries) <= Size /\ abandoned \in 0..Len(entries)
      BY <1>1, <1>2 DEF Init, Size
    <2>2. call \in Calls /\ dirty \in BOOLEAN /\ stop \in BOOLEAN /\ run = <<>>
          /\ code \in {"serving", "answered", "refused"}
      BY <1>2 DEF Init
    <2> QED BY <1>1, <1>3, <2>1, <2>2 DEF ServeInv
  <1> QED BY <1>1, <1>4 DEF Init, Serving, PriceInv, RunInv, BookInv, RowInv, BooksAreWhole

LEMMA ServingStep == Serving /\ [Next]_vars => Serving'
  <1> SUFFICES ASSUME Serving, [Next]_vars PROVE Serving'
    OBVIOUS
  <1>0. ServeInv /\ RunInv /\ PriceInv /\ BookInv /\ BooksAreWhole
    BY DEF Serving
  <1>1. CASE RequestStop
    <2>1. ServeInv'
      BY <1>0, <1>1 DEF RequestStop, ServeInv, IsSequence, Open, Nested, Current, Size
    <2>2. RunInv' /\ PriceInv' /\ BookInv' /\ BooksAreWhole'
      BY <1>0, <1>1 DEF RequestStop, RunInv, Current, PriceInv, BookInv, RowInv, BooksAreWhole
    <2> QED BY <2>1, <2>2 DEF Serving
  <1>2. CASE RefuseBook
    <2>1. ServeInv'
      BY <1>0, <1>2, CallFacts DEF RefuseBook, ServeInv, IsSequence, Open, Size
    <2>2. RunInv' /\ PriceInv' /\ BookInv' /\ BooksAreWhole'
      BY <1>0, <1>2 DEF RefuseBook, RunInv, Current, PriceInv, BookInv, BooksAreWhole
    <2> QED BY <2>1, <2>2 DEF Serving
  <1>6. CASE Escape
    <2>1. ServeInv'
      BY <1>0, <1>6, CallFacts DEF Escape, ServeInv, IsSequence, Open, Size
    <2>2. RunInv' /\ PriceInv' /\ BookInv' /\ BooksAreWhole'
      BY <1>0, <1>6 DEF Escape, RunInv, Current, PriceInv, BookInv, BooksAreWhole
    <2> QED BY <2>1, <2>2 DEF Serving
  <1>3. CASE RefuseNested \/ PriceDirty \/ Refuse \/ Price \/ NextBatch \/ FinishBatches
    <2>1. CASE \E x : Takes(x)
      <3>1. PICK x : Takes(x)
        BY <2>1
      <3>2. ServeInv' /\ PriceInv' /\ BookInv'
        BY <1>0, <3>1, TakesKeeps, TakesKeepsPrices, TakesKeepsBook
      <3>3. ~(code' = "answered" /\ call'.book)
        BY <3>1 DEF Takes, Open, Done
      <3>4. RunInv'
        BY <3>1 DEF Takes, Done, RunInv
      <3> QED BY <3>2, <3>3, <3>4 DEF Serving, BooksAreWhole
    <2>2. CASE Open /\ ~Nested /\ RunInv' /\ UNCHANGED <<call, dirty, stop, entries, abandoned, code>>
      <3>1. ServeInv'
        BY <1>0, <2>2, BatchKeeps
      <3>2. PriceInv' /\ BookInv'
        BY <1>0, <2>2 DEF PriceInv, BookInv, RowInv
      <3>3. code' # "answered"
        BY <2>2 DEF Open
      <3> QED BY <2>2, <3>1, <3>2, <3>3 DEF Serving, BooksAreWhole
    <2> QED BY <1>0, <1>3, <2>1, <2>2, AnEntryIsTaken
  <1>4. CASE Finish
    <2>1. ServeInv' /\ BookInv' /\ BooksAreWhole' /\ PriceInv'
      BY <1>0, <1>4, FinishKeeps, FinishKeepsPrices
    <2>2. run' = <<>>
      BY <2>1, <1>4 DEF Finish, ServeInv, Open
    <2> QED BY <2>1, <2>2 DEF Serving, RunInv
  <1>5. CASE UNCHANGED vars
    <2>1. ServeInv'
      BY <1>0, <1>5 DEF vars, ServeInv, IsSequence, Open, Nested, Current, Size
    <2>2. RunInv' /\ PriceInv' /\ BookInv' /\ BooksAreWhole'
      BY <1>0, <1>5 DEF vars, RunInv, Current, PriceInv, BookInv, RowInv, BooksAreWhole, Size, Attempted, Priced
    <2> QED BY <2>1, <2>2 DEF Serving
  <1> QED BY <1>1, <1>2, <1>3, <1>4, <1>5, <1>6 DEF Next

LEMMA AlwaysServing == Spec => []Serving
  BY ServingInit, ServingStep, PTL DEF Spec

\* A request of a call is one the schema allows.
LEMMA RequestFacts ==
    ASSUME ServeInv, NEW i \in DOMAIN call.requests
    PROVE  /\ call.requests[i].quanto \in BOOLEAN
           /\ call.requests[i].given \subseteq Sendable(call.requests[i])
           /\ call.requests[i].mc.every \in Nat
           /\ \A k \in DOMAIN call.requests[i].legs :
                  call.requests[i].legs[k].given \subseteq LegFields
  BY CallsAssumption, SizesAssumption DEF ServeInv

\* Every request of every call selects one engine at most, an entry is an outcome, and
\* a simulation is under way only for the trade after those that are done
\* (Session::price, Worker::serveBatch).
THEOREM PricingTypeOK == Spec => []TypeOK
  <1>1. ASSUME Serving PROVE TypeOK
    <2>1. ServeInv
      BY <1>1 DEF Serving
    <2>2. \A i \in DOMAIN call.requests : Cardinality(Chosen(call.requests[i])) <= 1
      BY <2>1, RequestFacts, OneEngineAtMost
    <2> QED BY <2>1, <2>2 DEF TypeOK, ServeInv, Codes
  <1> QED BY <1>1, AlwaysServing, PTL

LEMMA PricedFacts ==
    ASSUME Serving, NEW i \in Priced
    PROVE  /\ i \in DOMAIN call.requests
           /\ entries[i].engine \in Chosen(call.requests[i])
           /\ "scenarios" \notin call.requests[i].given
           /\ Answers(call.requests[i], entries[i]) /\ AddsUp(call.requests[i].mc, entries[i])
  <1>1. ServeInv /\ PriceInv /\ i \in DOMAIN entries /\ entries[i].code = "price"
    BY DEF Serving, Priced
  <1>2. i \in DOMAIN call.requests
    BY <1>1, CallFacts DEF ServeInv
  <1> QED BY <1>1, <1>2 DEF PriceInv, PricedRight

\* Whatever option is priced is a row of the documented table of styles, methods,
\* exercises and quanto (doc/HANDLERS.md), but for the two kinds of barrier that the code
\* prices and the table has no row for: one that is not European and simulated, and a
\* Bermudan one on a lattice or a grid.  It is so of every request that the schema allows.
THEOREM PricingPricedAsDocumented == Spec => []PricedAsDocumented
  <1>1. ASSUME Serving PROVE PricedAsDocumented
    <2>1. ASSUME NEW i \in Priced, call.requests[i].instrument = "option"
          PROVE  Documented(call.requests[i]) \/ Undocumented(call.requests[i])
      <3>1. entries[i].engine \in Chosen(call.requests[i]) /\ i \in DOMAIN call.requests
        BY <1>1, PricedFacts
      <3>2. call.requests[i].quanto \in BOOLEAN
        BY <1>1, <3>1, RequestFacts DEF Serving
      <3> QED BY <2>1, <3>1, <3>2, ChosenIsDocumented
    <2> QED BY <2>1 DEF PricedAsDocumented
  <1> QED BY <1>1, AlwaysServing, PTL

\* "A parameter a client can see us take and cannot see us ignore is the defect": of
\* every request that is priced, with whatever parameter blocks and choices it sends,
\* every field that was sent is read for the engine or is one of those known to be
\* dropped, and not both (fdEngineFor and the other engine builders).
THEOREM PricingNothingIgnored == Spec => []NothingIgnored
  <1>1. ASSUME Serving PROVE NothingIgnored
    <2>1. ASSUME NEW i \in Priced
          PROVE  Handed(call.requests[i], entries[i].engine)
      <3>1. /\ entries[i].engine \in Chosen(call.requests[i]) /\ i \in DOMAIN call.requests
            /\ "scenarios" \notin call.requests[i].given
        BY <1>1, PricedFacts
      <3>2. /\ call.requests[i].quanto \in BOOLEAN
            /\ call.requests[i].given \subseteq Sendable(call.requests[i])
            /\ call.requests[i].mc.every \in Nat
            /\ \A k \in DOMAIN call.requests[i].legs :
                   call.requests[i].legs[k].given \subseteq LegFields
        BY <1>1, <3>1, RequestFacts DEF Serving
      <3> QED BY <3>1, <3>2, AllHanded
    <2> QED BY <2>1 DEF NothingIgnored, Handed
  <1> QED BY <1>1, AlwaysServing, PTL

\* A book that is answered has a row for every trade, each with its reason, whatever
\* stopped it and whenever (Worker::serveBatch).
THEOREM PricingBooksAreWhole == Spec => []BooksAreWhole
  BY AlwaysServing, PTL DEF Serving

\* What is asked for is a result or is named as unavailable, and not both, and a
\* placeholder is no result, for every list of what is asked for and whatever an engine
\* publishes (run, collect).
THEOREM PricingAskedIsAnswered == Spec => []AskedIsAnswered
  <1>1. ASSUME Serving PROVE AskedIsAnswered
    <2>1. ASSUME NEW i \in Priced PROVE Answers(call.requests[i], entries[i])
      BY <1>1, PricedFacts
    <2> QED BY <2>1 DEF AskedIsAnswered, Answers
  <1> QED BY <1>1, AlwaysServing, PTL

\* The batches of a simulation are of all the paths that were asked for, each of one at
\* least, no more of them than the limit, and seeded apart, for every seed, number of
\* paths and size of a batch within the width (priceInBatches, checkEngineLimits).
THEOREM PricingBatchesAddUp == Spec => []BatchesAddUp
  <1>1. ASSUME Serving PROVE BatchesAddUp
    <2>1. ASSUME NEW i \in Priced PROVE AddsUp(call.requests[i].mc, entries[i])
      BY <1>1, PricedFacts
    <2> QED BY <2>1 DEF BatchesAddUp, AddsUp
  <1> QED BY <1>1, AlwaysServing, PTL
=============================================================================
