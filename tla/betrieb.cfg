CONSTANTS
  Anfragen = {r1, r2}
  Personen = {p1, p2}
  Grenzen = {1, 2}
  MaxSitze = 3
  MaxTarifwechsel = 1
  Mitarbeiter = {m1}
  Niemand = Niemand
  Buchungen = {b1}
  Laeufe = {l1, l2}
  MaxTag = 1
  MaxAnfragen = 3
  MaxEntfernt = 1
  MaxLaeufe = 2
  MaxAbstuerze = 1
SPECIFICATION MCSpec
INVARIANTS Typen EinloesungStimmt BuchungEinmal  ErinnerungEinmal
PROPERTIES  JederKommtDran
CHECK_DEADLOCK FALSE
