------------------------------- MODULE Lists -------------------------------
(***************************************************************************)
(* Lists by the places of their elements, as the program sorts, filters    *)
(* and splits them.                                                        *)
(***************************************************************************)
EXTENDS Integers, Sequences, FiniteSets, SequencesExt

\* A set of numbers from the least on: there are i up to the i-th.
InOrder(numbers) ==
  [i \in 1..Cardinality(numbers) |->
     CHOOSE n \in numbers : Cardinality({m \in numbers : m <= n}) = i]

\* The elements of s at those places, in their order.
Picked(s, places) == [i \in 1..Cardinality(places) |-> s[InOrder(places)[i]]]
=============================================================================
