SPECIFICATION FairSpec
CONSTANTS
  Slots = {s1, s2}
  Betraege = {1, 2}
  Retries = 1
  MaxEintraege = 3
  MaxUhr = 2
  Gleichzeitig = {"create", "festschreiben", "festschreibenAlle", "storno"}
  Vorausdatierung = FALSE
INVARIANTS Lueckenlos Verkettung NieNegativ StornoSpiegelt Chronologie
PROPERTIES Unveraenderbar ImplementiertJournal 
