----------------------------- MODULE Conventions -----------------------------
(***************************************************************************)
(* What ConventionRegistry (conventions/registry.cpp) makes of the         *)
(* conventions a frame names: the one they stand for, or a refusal.        *)
(* Nothing has a default: a field that is not set is refused.              *)
(***************************************************************************)
EXTENDS Integers, Sequences

CONSTANTS
    LastDay,        \* bound on the days, from the evaluation date to maxDate()
    MaxJointDepth   \* maxJointCalendarDepth_

ASSUME ConventionsAssumption == LastDay \in Nat \ {0} /\ MaxJointDepth \in Nat

\* The evaluation date is day 0 and two days before it are dates as well.
FirstDay == -2

\* A date is one day in two spellings.
IsDate(d) == d.form \in {"iso", "serial"} /\ d.day \in FirstDay..LastDay

BusinessDayConventions == {"FOLLOWING", "MODIFIED_FOLLOWING", "PRECEDING",
    "MODIFIED_PRECEDING", "UNADJUSTED", "HALF_MONTH_MODIFIED_FOLLOWING", "NEAREST"}

Frequencies == {"NO_FREQUENCY", "ONCE", "ANNUAL", "SEMIANNUAL", "EVERY_FOURTH_MONTH",
    "QUARTERLY", "BIMONTHLY", "MONTHLY", "EVERY_FOURTH_WEEK", "BIWEEKLY", "WEEKLY", "DAILY"}

Compoundings == {"SIMPLE", "COMPOUNDED", "CONTINUOUS", "SIMPLE_THEN_COMPOUNDED",
    "COMPOUNDED_THEN_SIMPLE"}

\* A calendar is a tree: its nodes by their paths, the root at <<>>.
Members(c, path) == {p \in DOMAIN c : Len(p) = Len(path) + 1 /\ SubSeq(p, 1, Len(path)) = path}
Markets(name) ==
    CASE name = "UNITED_STATES" -> {"SETTLEMENT", "NYSE", "GOVERNMENT_BOND", "NERC",
                                    "LIBOR_IMPACT", "FEDERAL_RESERVE", "SOFR"}
      [] name = "UNITED_KINGDOM" -> {"SETTLEMENT", "EXCHANGE", "METALS"}
      [] OTHER -> {"UNSPECIFIED"}
IsCalendar(c) ==
    \A path \in DOMAIN c :
        LET node == c[path] IN
        /\ Len(path) <= MaxJointDepth
        /\ \/ node.name \in {"NULL_CALENDAR", "TARGET", "JAPAN", "SWITZERLAND", "CANADA",
                             "AUSTRALIA"}
           \/ /\ node.name \in {"UNITED_STATES", "UNITED_KINGDOM"}
              /\ node.market \in Markets(node.name)
           \/ /\ node.name = "JOINT"
              /\ \E p, q \in Members(c, path) : p # q

\* A day counter by family, with what some families need besides: a convention, or
\* a calendar.  The Act/Act forms that need a coupon schedule are refused here.
IsDayCounter(dc) ==
    \/ dc.family \in {"ACTUAL_360", "ACTUAL_365_FIXED", "ACTUAL_365_NO_LEAP",
                      "ONE_DAY_COUNTER", "SIMPLE_DAY_COUNTER"}
    \/ /\ dc.family = "BUSINESS_252"
       /\ dc.calendar # <<>> /\ IsCalendar(dc.calendar)
    \/ /\ dc.family = "THIRTY_360"
       /\ dc.convention \in {"USA", "BOND_BASIS", "EUROPEAN", "EUROBOND_BASIS", "ITALIAN",
                             "GERMAN", "ISMA", "ISDA", "NASD"}
    \/ /\ dc.family = "ACTUAL_ACTUAL"
       /\ dc.convention \in {"AA_ISDA", "AA_HISTORICAL", "AA_ACTUAL_365", "AA_AFB", "AA_EURO"}
=============================================================================
