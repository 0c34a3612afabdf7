--------------------------------- MODULE Places ---------------------------------
(***************************************************************************)
(* What the scans of the journals take from a file: the records at some of *)
(* its places, in their order.                                             *)
(***************************************************************************)
EXTENDS Naturals, Sequences, FiniteSets

\* The n-th number of a set.
Nth(numbers, n) == CHOOSE i \in numbers : Cardinality({j \in numbers : j <= i}) = n

RecordsAt(file, places) == [n \in 1..Cardinality(places) |-> file[Nth(places, n)]]
================================================================================
