SPECIFICATION Spec
CONSTANTS
  Slots = {s1, s2}
  Betraege = {1}
  Retries = 5
  MaxEintraege = 2
  MaxUhr = 1
  Gleichzeitig = {"create", "update", "remove", "festschreiben", "festschreibenAlle", "storno"}
  Vorausdatierung = FALSE
PROPERTIES Unveraenderbar
