CONSTANTS
  Slots = {r1, r2}
  Betraege = {1}
  Retries = 1
  MaxBelege = 3
  MaxJahr = 1
  JeBelegEinzeln = FALSE
  Abstuerze = TRUE
  Anfragen = {r1, r2}
  Tarife = {t1, t2}
  Ohne = Ohne
  VonHand = {"active"}
  Einzeln = TRUE
  MaxVertraege = 2
  MaxKunden = 2
  MaxEreignisse = 5
SPECIFICATION MCSpec
SYMMETRY Symmetrie
INVARIANTS HoechstensEineStornorechnung AboStimmt GratismonatEinmal
PROPERTIES StornorechnungBleibt
