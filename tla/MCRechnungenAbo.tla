---------------------------- MODULE MCRechnungenAbo ----------------------------
(***************************************************************************)
(* A small instance for TLC of Rechnungen beside Abo, the subscription of  *)
(* the tenant.  They share no row: one of them moves and the other stands  *)
(* still.                                                                  *)
(***************************************************************************)
EXTENDS MCRechnungen, Abo

ASSUME AboAssumption

VARIABLE bewegt

\* A first contract and a change take three events; a contract that is there has two.
AboInit == \E n \in 0 .. MaxEreignisse : InitMit(n) /\ n = MaxEreignisse - (IF vertraege = {} THEN 3 ELSE 2)

MCInit ==
  /\ Init
  /\ \/ bewegt = "rechnungen" /\ AInit /\ vertraege = {}
     \/ bewegt = "abo" /\ AboInit

MCNext ==
  /\ \/ bewegt = "rechnungen" /\ Next /\ UNCHANGED aVars
     \/ bewegt = "abo" /\ ANext /\ UNCHANGED vars
  /\ UNCHANGED bewegt

MCSpec == MCInit /\ [][MCNext]_<<bewegt, vars, aVars>>
===============================================================================
