CONSTANTS
  Einzeln = TRUE
  Varianten = {v1, v2}
  Niemand = Niemand
  Keiner = Niemand
  MaxLoeschungen = 1
  Belege = {x1, x2}
  Auftragssumme = 1
  Netto <- Einheitspreis
  Anfragen = {r1, r2}
  MaxAnfragen = 3
  MaxAnzahlungen = 3
  Personen = {u1, u2}
  Bestellungen = {p1}
  Mengen = {1, 2}
  MaxLager = 3
  MaxAbstuerze = 1
SPECIFICATION MCSpec
INVARIANTS Typen EinAuftragJeGruppe AngenommenStimmt EinLinkJeGruppe BindungStimmt BestandStimmt LieferungStimmt
PROPERTIES MarkerLoestSich
CHECK_DEADLOCK FALSE
