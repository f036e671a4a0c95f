------------------------------ MODULE Positions ------------------------------
(* The part of a list that a loop with a condition keeps.                   *)
EXTENDS Naturals, FiniteSets

\* The entries at some positions, in their order.
At(s, positions) ==
  [k \in 1..Cardinality(positions) |->
     s[CHOOSE i \in positions : Cardinality({j \in positions : j <= i}) = k]]
=============================================================================
