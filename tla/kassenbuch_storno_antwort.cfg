SPECIFICATION Spec
CONSTANTS
  Slots = {s1, s2}
  Betraege = {1}
  Retries = 5
  MaxEintraege = 8
  MaxUhr = 1
  Gleichzeitig = {"create", "storno"}
  Vorausdatierung = FALSE
CONSTRAINT EinStornoVieleEinnahmen
INVARIANTS SchonStorniertStimmt
