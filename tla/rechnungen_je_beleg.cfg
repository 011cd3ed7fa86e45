CONSTANTS
  Slots = {r1, r2}
  Betraege = {1, 2}
  Retries = 1
  MaxBelege = 3
  MaxJahr = 2
  JeBelegEinzeln = TRUE
  Abstuerze = TRUE
SPECIFICATION Spec
SYMMETRY Symmetrie
CONSTRAINT NurDerErsteAnders
INVARIANTS Lueckenlos 
PROPERTIES  KorrigiertBleibt
