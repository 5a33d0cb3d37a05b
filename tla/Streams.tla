------------------------------- MODULE Streams -------------------------------
(***************************************************************************)
(* The packets of a stream that are of some types.                         *)
(***************************************************************************)
EXTENDS Naturals, Sequences, FiniteSets

(* How many of the numbers are no greater than i.                          *)
Rank(numbers, i) == Cardinality({j \in numbers : j <= i})

(* In their order: SelectSeq, without recursion.                           *)
Selected(packets, types) ==
  LET positions == {i \in DOMAIN packets : packets[i].type \in types}
  IN  [k \in 1..Cardinality(positions) |->
         packets[CHOOSE i \in positions : Rank(positions, i) = k]]

=============================================================================
