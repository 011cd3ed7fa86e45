--------------------------- MODULE KassenbuchRegeln ---------------------------
(***************************************************************************)
(* The pure arithmetic of the cash book (kassenbuch-rules.ts).  Amounts    *)
(* are whole cents: round2 keeps every stored amount a multiple of one     *)
(* cent and the half-cent tolerance of the code never decides between two  *)
(* such values, so the rules below are exact on integers.                  *)
(***************************************************************************)
EXTENDS Integers

Typen == {"einnahme", "ausgabe"}

vorzeichen(typ) == IF typ = "einnahme" THEN 1 ELSE -1

berechneKassenbestandNach(vorher, typ, betrag) ==
  vorher + vorzeichen(typ) * betrag

\* (Mutant: looks at the balance before the booking.)
BestandVorherNegativ(vorher, typ, betrag) == vorher < 0

wuerdeBestandNegativ(vorher, typ, betrag) ==
  berechneKassenbestandNach(vorher, typ, betrag) < 0

gegenTyp(typ) == IF typ = "einnahme" THEN "ausgabe" ELSE "einnahme"
===============================================================================
