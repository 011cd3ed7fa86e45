CONSTANTS
  Slots = {r1, r2}
  Betraege = {1}
  Retries = 1
  MaxBelege = 2
  MaxJahr = 1
  JeBelegEinzeln = FALSE
  Abstuerze = FALSE
SPECIFICATION Spec
SYMMETRY Symmetrie
INVARIANT Lueckenlos
