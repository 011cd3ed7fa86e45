------------------------------ MODULE MCMahnwesen ------------------------------
(***************************************************************************)
(* A small instance of Mahnwesen for TLC: levels due after 1, 2 and 3 days.*)
(***************************************************************************)
EXTENDS Mahnwesen

JedenTagEine == [n \in 1 .. 3 |-> n]
===============================================================================
