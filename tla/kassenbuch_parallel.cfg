SPECIFICATION Spec
CONSTANTS
  Slots = {s1, s2}
  Betraege = {1}
  Retries = 1
  MaxEintraege = 4
  MaxUhr = 1
  Gleichzeitig = {"create", "update", "remove", "festschreibenAlle", "storno"}
  Vorausdatierung = FALSE
SYMMETRY Symmetrie
INVARIANTS HoechstensEineGegenbuchung
PROPERTIES GegenbuchungEndgueltig
