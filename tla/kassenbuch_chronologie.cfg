SPECIFICATION Spec
CONSTANTS
  Slots = {s1, s2}
  Betraege = {1, 2}
  Retries = 5
  MaxEintraege = 2
  MaxUhr = 2
  Gleichzeitig = {"create", "festschreiben", "festschreibenAlle", "storno"}
  Vorausdatierung = TRUE
INVARIANTS Chronologie
