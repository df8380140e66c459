------------------------------ MODULE Ordering ------------------------------
(***************************************************************************)
(* What both loops do with sequences of frames: put request ids in their   *)
(* order, and keep some of the frames, in theirs.                          *)
(***************************************************************************)
EXTENDS Naturals, Sequences, FiniteSets

\* A std::set or std::map of ids walked from its begin().
Ascending(ids) ==
    [k \in 1..Cardinality(ids) |->
        CHOOSE i \in ids : Cardinality({j \in ids : j <= i}) = k]

\* The frames at these places.
Kept(frames, places) == [k \in 1..Cardinality(places) |-> frames[Ascending(places)[k]]]

\* The sequence with every x taken out.
Without(q, x) == Kept(q, {k \in DOMAIN q : q[k] # x})
=============================================================================
