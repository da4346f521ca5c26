------------------------------- MODULE Places --------------------------------
(* Sublists by the places of their elements: what filter(), findIndex() with    *)
(* splice(), and a loop that takes the first ones make of an array.  A set of    *)
(* places says at once what is kept, what goes and how many there are.           *)
EXTENDS Naturals, FiniteSets, Sequences

\* How many of the places come before i.
Rank(places, i) == Cardinality({j \in places : j < i})

Nth(places, n) == CHOOSE i \in places : Rank(places, i) = n - 1

\* The first n of the places.
Foremost(places, n) == {i \in places : Rank(places, i) < n}

\* The elements at the places, in their order.
Selected(list, places) == [n \in 1..Cardinality(places) |-> list[Nth(places, n)]]
=============================================================================
