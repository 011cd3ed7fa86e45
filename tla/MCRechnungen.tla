----------------------------- MODULE MCRechnungen -----------------------------
(***************************************************************************)
(* Small instances of Rechnungen for TLC.                                  *)
(***************************************************************************)
EXTENDS Rechnungen, TLC

\* The slots are interchangeable.
Symmetrie == Permutations(Slots)

\* Bound: only the first invoice ever gets the second amount.
NurDerErsteAnders ==
  /\ \A i \in IDs : belege[i].betrag = 2 => i = 1
  /\ \A s \in Slots : auftrag[s].betrag = 2 => auftrag[s].id = 1
===============================================================================
