----------------------------- MODULE MCKassenbuch -----------------------------
(***************************************************************************)
(* Small instances of Kassenbuch for TLC.                                  *)
(***************************************************************************)
EXTENDS Kassenbuch, TLC

\* The slots are interchangeable (used by safety runs only).
Symmetrie == Permutations(Slots)

\* Bound of the long run with all five retries: one slot reverses the first entry
\* while the other only books receipts and closes the day.
EinStornoVieleEinnahmen ==
  /\ \A z \in zeilen : z.stornoVon = 0 => z.typ = "einnahme"
  /\ \A s \in Slots : auftrag[s].op = "storno" => auftrag[s].id = 1
  /\ Cardinality({s \in Slots : auftrag[s].op = "storno"}) <= 1
  /\ \A s \in Slots : auftrag[s].op = "create" => auftrag[s].typ = "einnahme"
  /\ \A z \in zeilen : z.fest => z.id = 1
===============================================================================
