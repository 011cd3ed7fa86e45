CONSTANTS
  Belege = {b1}
  Anfragen = {r1, r2}
  Laeufe = {l1}
  Fristen <- JedenTagEine
  Zielstatus = {"bezahlt"}
  MaxAnfragen = 2
  MaxLaeufe = 1
  MaxVersand = 1
  MaxAbstuerze = 1
SPECIFICATION Spec
INVARIANTS TypeOK   
PROPERTIES   FaelligesWirdGemahnt
