--------------------------- MODULE KassenbuchProofs ---------------------------
(***************************************************************************)
(* Theorems about Kassenbuch for every number of requests, amounts,        *)
(* retries and bounds.  First, provided update and remove run alone        *)
(* (Gleichzeitig \subseteq Fortschreibend): the invariants of the table,   *)
(* the order of the booking dates, and that the table implements the       *)
(* journal of Kassenjournal.  Then what holds with everything overlapping. *)
(***************************************************************************)
EXTENDS Kassenbuch, Sequences, FiniteSetTheorems, WellFoundedInduction, TLAPS

Seriell == Gleichzeitig \subseteq Fortschreibend

-------------------------------------------------------------------------------
(***************************************************************************)
(* The inductive invariant: what the rows satisfy, and what every request  *)
(* in flight may still rely on when it writes.                             *)
(***************************************************************************)
Eindeutig ==
  \A y, z \in zeilen : y.nr = z.nr \/ y.id = z.id => y = z

Vergeben ==
  \A z \in zeilen : z.id \in 1 .. letzteId /\ z.nr >= 1 /\ z.bestandNach >= 0

OhneLuecke ==
  \A z \in zeilen : \A k \in 1 .. z.nr : \E y \in zeilen : y.nr = k

\* z could follow its predecessor: the row before it is in the table with the
\* balance that z's own balance was computed from.
Angeschlossen(z) ==
  \/ z.nr = 1 /\ z.bestandNach = berechneKassenbestandNach(0, z.typ, z.betrag)
  \/ \E y \in zeilen :
       /\ y.nr = z.nr - 1
       /\ z.bestandNach = berechneKassenbestandNach(y.bestandNach, z.typ, z.betrag)

IstLetzte(z) == \A y \in zeilen : y.nr <= z.nr

HatLetzte == zeilen # {} => \E z \in zeilen : IstLetzte(z)

\* z is the fixed ordinary entry that the counter-entry g reverses.
Original(z, g) ==
  /\ z.id = g.stornoVon /\ z.fest /\ z.stornoVon = 0
  /\ g.typ = gegenTyp(z.typ) /\ g.betrag = z.betrag

TabelleInv ==
  /\ Eindeutig /\ Vergeben /\ OhneLuecke /\ HatLetzte
  /\ \A z \in zeilen : Angeschlossen(z)
  /\ StornoSpiegelt

\* update and remove run alone.
Einzeln ==
  \A s, t \in Slots :
    ort[s] # "bereit" /\ auftrag[s].op \notin Fortschreibend /\ t # s
      => ort[t] = "bereit"

\* The row request s is about to insert.
Einfuegbar(s) ==
  ort[s] = "schreiben" /\ auftrag[s].op \in {"create", "storno"} =>
    LET e == entitaet[s]
    IN /\ e.nr >= 1 /\ e.bestandNach >= 0 /\ Angeschlossen(e)
       /\ auftrag[s].op = "create" => e.stornoVon = 0

\* The entry request s is reversing.
Stornierbar(s) ==
  ort[s] \in {"doppelt", "lesen", "schreiben", "schonStorniert"} /\ auftrag[s].op = "storno" =>
    LET g == entitaet[s]
    IN /\ g.fest /\ g.stornoVon # 0
       /\ \E z \in zeilen : Original(z, g) /\ (ort[s] = "schreiben" => z.nr < g.nr)

\* The draft request s found, still there and, once compared, still the last.
Bearbeitbar(s) ==
  ort[s] \in {"pruefen", "vorgaenger", "schreiben"} /\ auftrag[s].op \in {"update", "remove"} =>
    LET e == entitaet[s]
    IN \E z \in zeilen :
         /\ z.id = e.id /\ z.nr = e.nr /\ z.stornoVon = e.stornoVon
         /\ ~ z.fest /\ ~ e.fest
         /\ ort[s] # "pruefen" => IstLetzte(z)
         /\ ort[s] = "schreiben" /\ auftrag[s].op = "update" =>
              e.bestandNach >= 0 /\ Angeschlossen(e)

IInv ==
  /\ TypeOK
  /\ TabelleInv
  /\ Einzeln
  /\ \A s \in Slots : Einfuegbar(s) /\ Stornierbar(s) /\ Bearbeitbar(s)

-------------------------------------------------------------------------------
(***************************************************************************)
(* Reading the table.                                                      *)
(***************************************************************************)
\* loadLetzten returns nothing on an empty table and otherwise a row with the
\* highest number.
LEMMA LetzteZeile ==
  ASSUME HatLetzte
  PROVE  \/ zeilen = {} /\ loadLetzten = Leer
         \/ zeilen # {} /\ loadLetzten \in zeilen /\ IstLetzte(loadLetzten)
<1>1. CASE zeilen = {}
  BY <1>1 DEF loadLetzten
<1>2. CASE zeilen # {}
  <2>1. \E z \in zeilen : \A y \in zeilen : y.nr <= z.nr
    BY <1>2 DEF HatLetzte, IstLetzte
  <2>2. QED
    BY <1>2, <2>1 DEF loadLetzten, IstLetzte
<1>3. QED
  BY <1>1, <1>2

\* vorgaengerBestand returns the balance a row has to continue from.
LEMMA Vorgaenger ==
  ASSUME TypeOK, Eindeutig, Vergeben, OhneLuecke, NEW e \in zeilen
  PROVE  \/ e.nr = 1 /\ vorgaengerBestand(e.nr) = 0
         \/ \E y \in zeilen : y.nr = e.nr - 1 /\ vorgaengerBestand(e.nr) = y.bestandNach
<1> DEFINE davor == {y \in zeilen : y.nr < e.nr}
<1>0. \A z \in zeilen : z.nr \in Nat /\ z.nr >= 1
  BY DEF TypeOK, Zeile, Vergeben
<1>1. CASE e.nr = 1
  <2>1. davor = {}
    BY <1>0, <1>1
  <2>2. QED
    BY <1>1, <2>1 DEF vorgaengerBestand
<1>2. CASE e.nr # 1
  <2>1. e.nr - 1 \in 1 .. e.nr
    BY <1>0, <1>2
  <2>2. PICK y \in zeilen : y.nr = e.nr - 1
    BY <2>1 DEF OhneLuecke
  <2>3. y \in davor /\ \A x \in davor : x.nr <= y.nr
    BY <1>0, <2>2
  <2>4. \A z \in davor : (\A x \in davor : x.nr <= z.nr) => z = y
    BY <1>0, <2>2, <2>3 DEF Eindeutig
  <2>5. (CHOOSE z \in davor : \A x \in davor : x.nr <= z.nr) = y
    BY <2>3, <2>4
  <2>6. vorgaengerBestand(e.nr) = y.bestandNach
    BY <2>3, <2>5 DEF vorgaengerBestand
  <2>7. QED
    BY <2>2, <2>6
<1>3. QED
  BY <1>1, <1>2

-------------------------------------------------------------------------------
(***************************************************************************)
(* Writing the table.                                                      *)
(***************************************************************************)
\* A row that continues the journal and hits no unique index is the new last row.
LEMMA Einfuegen ==
  ASSUME TypeOK, TabelleInv, NEW z \in Zeile,
         z.id = letzteId + 1, letzteId' = letzteId + 1,
         z.nr >= 1, z.bestandNach >= 0, Angeschlossen(z), ~ Kollidiert(z),
         z.stornoVon # 0 =>
           z.fest /\ \E o \in zeilen : Original(o, z) /\ o.nr < z.nr,
         zeilen' = zeilen \cup {z}
  PROVE  TabelleInv'
<1>0. \A y \in zeilen : /\ y \in Zeile /\ y.nr \in Nat /\ y.id \in 1 .. letzteId
                        /\ y.id # z.id /\ y.nr >= 1
  BY DEF TypeOK, Zeile, TabelleInv, Vergeben
<1>1. z.nr \in Nat /\ letzteId \in Nat
  BY DEF Zeile, TypeOK
<1>2. \A y \in zeilen : y.nr # z.nr
  BY <1>0 DEF Kollidiert
<1>3. \A k \in 1 .. z.nr - 1 : \E y \in zeilen : y.nr = k
  BY <1>0, <1>1 DEF Angeschlossen, TabelleInv, OhneLuecke
<1>4. \A y \in zeilen : y.nr < z.nr
  <2> SUFFICES ASSUME NEW y \in zeilen, ~ (y.nr < z.nr) PROVE FALSE
    OBVIOUS
  <2>1. z.nr \in 1 .. y.nr
    BY <1>0, <1>1
  <2>2. QED
    BY <2>1, <1>2 DEF TabelleInv, OhneLuecke
<1>5. Eindeutig'
  BY <1>0, <1>2 DEF TabelleInv, Eindeutig
<1>6. Vergeben'
  BY <1>0, <1>1 DEF TabelleInv, Vergeben
<1>7. OhneLuecke'
  BY <1>0, <1>1, <1>3 DEF TabelleInv, OhneLuecke
<1>8. HatLetzte'
  BY <1>0, <1>1, <1>4 DEF HatLetzte, IstLetzte
<1>9. (\A y \in zeilen : Angeschlossen(y))'
  BY DEF TabelleInv, Angeschlossen
<1>10. StornoSpiegelt'
  <2> SUFFICES ASSUME NEW g \in zeilen', g.stornoVon # 0
               PROVE  /\ g.fest
                      /\ \E y \in zeilen' :
                           /\ y.id = g.stornoVon /\ y.fest /\ y.stornoVon = 0 /\ y.nr < g.nr
                           /\ g.typ = gegenTyp(y.typ) /\ g.betrag = y.betrag
                      /\ \A h \in zeilen' : h.stornoVon = g.stornoVon => h = g
    BY DEF StornoSpiegelt
  <2>1. CASE g = z
    <3>1. \A h \in zeilen : h.stornoVon # z.stornoVon
      BY <1>0, <2>1 DEF Kollidiert
    <3>2. QED
      BY <2>1, <3>1 DEF Original
  <2>2. CASE g \in zeilen
    <3>1. z.stornoVon # g.stornoVon
      BY <1>0, <2>2 DEF Kollidiert
    <3>2. QED
      BY <2>2, <3>1 DEF TabelleInv, StornoSpiegelt
  <2>3. QED
    BY <2>1, <2>2
<1>11. QED
  BY <1>5, <1>6, <1>7, <1>8, <1>9, <1>10 DEF TabelleInv

\* Every row is still there, with nothing changed but perhaps festgeschrieben set.
Fortgeschrieben ==
  \A z \in zeilen : \E w \in zeilen' :
    /\ w.id = z.id /\ w.nr = z.nr /\ w.typ = z.typ /\ w.betrag = z.betrag
    /\ w.bestandNach = z.bestandNach /\ w.stornoVon = z.stornoVon
    /\ z.fest => w.fest

\* Fixing drafts, whichever they are, leaves numbers, balances and references alone.
LEMMA Festschreiben ==
  ASSUME TypeOK, TabelleInv, NEW Z \in SUBSET zeilen, SchreibeFest(Z),
         letzteId' = letzteId
  PROVE  zeilen' \subseteq Zeile /\ Fortgeschrieben /\ TabelleInv'
<1> DEFINE Neu(z) == IF z \in Z THEN [z EXCEPT !.fest = TRUE] ELSE z
<1>1. zeilen' = {Neu(z) : z \in zeilen}
  BY DEF SchreibeFest
<1>2. \A z \in zeilen :
        /\ z \in Zeile /\ Neu(z) \in Zeile
        /\ Neu(z).id = z.id /\ Neu(z).nr = z.nr /\ Neu(z).typ = z.typ
        /\ Neu(z).betrag = z.betrag /\ Neu(z).bestandNach = z.bestandNach
        /\ Neu(z).stornoVon = z.stornoVon /\ (z.fest => Neu(z).fest)
  BY DEF TypeOK, Zeile
<1> HIDE DEF Neu
<1>3. \A w \in zeilen' : \E z \in zeilen : w = Neu(z)
  BY <1>1
<1>4. \A z \in zeilen : Neu(z) \in zeilen'
  BY <1>1
<1>5. Eindeutig'
  BY <1>2, <1>3 DEF Eindeutig, TabelleInv
<1>6. Vergeben'
  BY <1>2, <1>3 DEF Vergeben, TabelleInv
<1>7. OhneLuecke'
  <2> SUFFICES ASSUME NEW w \in zeilen', NEW k \in 1 .. w.nr
               PROVE  \E y \in zeilen' : y.nr = k
    BY DEF OhneLuecke
  <2>1. PICK z \in zeilen : w = Neu(z)
    BY <1>3
  <2>2. PICK y \in zeilen : y.nr = k
    BY <1>2, <2>1 DEF OhneLuecke, TabelleInv
  <2>3. QED
    BY <1>2, <1>4, <2>2
<1>8. HatLetzte'
  <2>1. CASE zeilen = {}
    BY <2>1, <1>3 DEF HatLetzte
  <2>2. CASE zeilen # {}
    <3>1. PICK z \in zeilen : IstLetzte(z)
      BY <2>2 DEF HatLetzte, TabelleInv
    <3>2. Neu(z) \in zeilen' /\ \A w \in zeilen' : w.nr <= Neu(z).nr
      BY <1>2, <1>3, <1>4, <3>1 DEF IstLetzte
    <3>3. QED
      BY <3>2 DEF HatLetzte, IstLetzte
  <2>3. QED
    BY <2>1, <2>2
<1>9. (\A z \in zeilen : Angeschlossen(z))'
  <2> SUFFICES ASSUME NEW w \in zeilen' PROVE Angeschlossen(w)'
    OBVIOUS
  <2>1. PICK z \in zeilen : w = Neu(z)
    BY <1>3
  <2>2. Angeschlossen(z)
    BY DEF TabelleInv
  <2>3. CASE z.nr = 1 /\ z.bestandNach = berechneKassenbestandNach(0, z.typ, z.betrag)
    BY <1>2, <2>1, <2>3 DEF Angeschlossen
  <2>4. ASSUME NEW y \in zeilen, y.nr = z.nr - 1,
               z.bestandNach = berechneKassenbestandNach(y.bestandNach, z.typ, z.betrag)
        PROVE  Angeschlossen(w)'
    BY <1>2, <1>4, <2>1, <2>4 DEF Angeschlossen
  <2>5. QED
    BY <2>2, <2>3, <2>4 DEF Angeschlossen
<1>10. StornoSpiegelt'
  <2> SUFFICES ASSUME NEW w \in zeilen', w.stornoVon # 0
               PROVE  /\ w.fest
                      /\ \E y \in zeilen' :
                           /\ y.id = w.stornoVon /\ y.fest /\ y.stornoVon = 0 /\ y.nr < w.nr
                           /\ w.typ = gegenTyp(y.typ) /\ w.betrag = y.betrag
                      /\ \A h \in zeilen' : h.stornoVon = w.stornoVon => h = w
    BY DEF StornoSpiegelt
  <2>1. PICK g \in zeilen : w = Neu(g)
    BY <1>3
  <2>2. g.stornoVon # 0
    BY <1>2, <2>1
  <2>3. PICK y \in zeilen : /\ y.id = g.stornoVon /\ y.fest /\ y.stornoVon = 0 /\ y.nr < g.nr
                            /\ g.typ = gegenTyp(y.typ) /\ g.betrag = y.betrag
    BY <2>2 DEF StornoSpiegelt, TabelleInv
  <2>4. Neu(y) \in zeilen' /\ Neu(y).id = w.stornoVon /\ Neu(y).fest /\ Neu(y).stornoVon = 0
          /\ Neu(y).nr < w.nr /\ w.typ = gegenTyp(Neu(y).typ) /\ w.betrag = Neu(y).betrag
    BY <1>2, <1>4, <2>1, <2>3
  <2>5. \A h \in zeilen : h.stornoVon = g.stornoVon => h = g
    BY <2>2 DEF StornoSpiegelt, TabelleInv
  <2>6. \A h \in zeilen' : h.stornoVon = w.stornoVon => h = w
    BY <1>2, <1>3, <2>1, <2>5
  <2>7. g.fest
    BY <2>2 DEF StornoSpiegelt, TabelleInv
  <2>8. QED
    BY <1>2, <2>1, <2>4, <2>6, <2>7
<1>11. zeilen' \subseteq Zeile /\ Fortgeschrieben
  BY <1>2, <1>3, <1>4 DEF Fortgeschrieben
<1>12. QED
  BY <1>5, <1>6, <1>7, <1>8, <1>9, <1>10, <1>11 DEF TabelleInv

\* Replacing the last row, a draft, by a row of its number that continues the
\* journal from the same predecessor.
LEMMA Aendern ==
  ASSUME TypeOK, TabelleInv, NEW z \in zeilen, NEW e \in Zeile,
         IstLetzte(z), ~ z.fest, e.id = z.id, e.nr = z.nr, e.stornoVon = z.stornoVon,
         e.bestandNach >= 0, Angeschlossen(e), save(e), letzteId' = letzteId
  PROVE  TabelleInv'
<1>0. \A y \in zeilen : /\ y \in Zeile /\ y.nr \in Nat /\ y.nr >= 1
                        /\ (y.id = e.id <=> y = z) /\ (y # z => y.nr < z.nr)
  <2>1. \A y \in zeilen : y \in Zeile /\ y.nr \in Nat /\ y.nr >= 1
    BY DEF TypeOK, Zeile, TabelleInv, Vergeben
  <2>2. \A y \in zeilen : (y.id = z.id => y = z) /\ (y.nr = z.nr => y = z)
    BY DEF TabelleInv, Eindeutig
  <2>3. \A y \in zeilen : y # z => y.nr < z.nr
    BY <2>1, <2>2 DEF IstLetzte
  <2>4. QED
    BY <2>1, <2>2, <2>3
<1>1. zeilen' = (zeilen \ {z}) \cup {e}
  BY <1>0 DEF save
<1>2. z.stornoVon = 0
  BY DEF TabelleInv, StornoSpiegelt
<1>3. Eindeutig'
  BY <1>0, <1>1 DEF TabelleInv, Eindeutig
<1>4. Vergeben'
  BY <1>0, <1>1 DEF TabelleInv, Vergeben
<1>5. OhneLuecke'
  <2> SUFFICES ASSUME NEW w \in zeilen', NEW k \in 1 .. w.nr
               PROVE  \E y \in zeilen' : y.nr = k
    BY DEF OhneLuecke
  <2>1. \E x \in zeilen : x.nr = w.nr
    BY <1>1
  <2>2. PICK y \in zeilen : y.nr = k
    BY <2>1 DEF TabelleInv, OhneLuecke
  <2>3. QED
    BY <1>1, <2>2
<1>6. HatLetzte'
  BY <1>0, <1>1 DEF HatLetzte, IstLetzte
<1>7. (\A y \in zeilen : Angeschlossen(y))'
  <2> SUFFICES ASSUME NEW w \in zeilen' PROVE Angeschlossen(w)'
    OBVIOUS
  <2>1. Angeschlossen(w) /\ w \in Zeile /\ w.nr <= z.nr /\ w.nr \in Nat
    BY <1>0, <1>1 DEF TabelleInv, Zeile
  <2>2. \A y \in zeilen : y.nr = w.nr - 1 => y \in zeilen'
    BY <1>0, <1>1, <2>1
  <2>3. QED
    BY <2>1, <2>2 DEF Angeschlossen
<1>8. StornoSpiegelt'
  <2> SUFFICES ASSUME NEW g \in zeilen', g.stornoVon # 0
               PROVE  /\ g.fest
                      /\ \E y \in zeilen' :
                           /\ y.id = g.stornoVon /\ y.fest /\ y.stornoVon = 0 /\ y.nr < g.nr
                           /\ g.typ = gegenTyp(y.typ) /\ g.betrag = y.betrag
                      /\ \A h \in zeilen' : h.stornoVon = g.stornoVon => h = g
    BY DEF StornoSpiegelt
  <2>1. g \in zeilen /\ g # z
    BY <1>1, <1>2
  <2>2. QED
    BY <1>1, <1>2, <2>1 DEF TabelleInv, StornoSpiegelt
<1>9. QED
  BY <1>3, <1>4, <1>5, <1>6, <1>7, <1>8 DEF TabelleInv

\* Taking the last row, a draft, away.
LEMMA Entfernen ==
  ASSUME TypeOK, TabelleInv, NEW z \in zeilen, IstLetzte(z), ~ z.fest,
         zeilen' = {y \in zeilen : y.id # z.id}, letzteId' = letzteId
  PROVE  TabelleInv'
<1>0. \A y \in zeilen : /\ y \in Zeile /\ y.nr \in Nat /\ y.nr >= 1
                        /\ (y.id = z.id <=> y = z) /\ (y # z => y.nr < z.nr)
  <2>1. \A y \in zeilen : y \in Zeile /\ y.nr \in Nat /\ y.nr >= 1
    BY DEF TypeOK, Zeile, TabelleInv, Vergeben
  <2>2. \A y \in zeilen : (y.id = z.id => y = z) /\ (y.nr = z.nr => y = z)
    BY DEF TabelleInv, Eindeutig
  <2>3. \A y \in zeilen : y # z => y.nr < z.nr
    BY <2>1, <2>2 DEF IstLetzte
  <2>4. QED
    BY <2>1, <2>2, <2>3
<1>1. zeilen' = zeilen \ {z}
  BY <1>0
<1>2. Eindeutig' /\ Vergeben'
  BY <1>1 DEF TabelleInv, Eindeutig, Vergeben
<1>3. OhneLuecke'
  <2> SUFFICES ASSUME NEW w \in zeilen', NEW k \in 1 .. w.nr
               PROVE  \E y \in zeilen' : y.nr = k
    BY DEF OhneLuecke
  <2>1. PICK y \in zeilen : y.nr = k
    BY <1>1 DEF TabelleInv, OhneLuecke
  <2>2. y # z
    BY <1>0, <1>1, <2>1
  <2>3. QED
    BY <1>1, <2>1, <2>2
<1>4. HatLetzte'
  <2> SUFFICES ASSUME NEW w \in zeilen' PROVE \E y \in zeilen' : \A x \in zeilen' : x.nr <= y.nr
    BY DEF HatLetzte, IstLetzte
  <2>1. z.nr - 1 \in 1 .. z.nr
    BY <1>0, <1>1
  <2>2. PICK y \in zeilen : y.nr = z.nr - 1
    BY <2>1 DEF TabelleInv, OhneLuecke
  <2>3. y \in zeilen' /\ \A x \in zeilen' : x.nr <= y.nr
    BY <1>0, <1>1, <2>2
  <2>4. QED
    BY <2>3
<1>5. (\A y \in zeilen : Angeschlossen(y))'
  <2> SUFFICES ASSUME NEW w \in zeilen' PROVE Angeschlossen(w)'
    OBVIOUS
  <2>1. Angeschlossen(w) /\ w.nr < z.nr /\ w.nr \in Nat
    BY <1>0, <1>1 DEF TabelleInv
  <2>2. \A y \in zeilen : y.nr = w.nr - 1 => y \in zeilen'
    BY <1>0, <1>1, <2>1
  <2>3. QED
    BY <2>1, <2>2 DEF Angeschlossen
<1>6. StornoSpiegelt'
  <2>1. z.stornoVon = 0
    BY DEF TabelleInv, StornoSpiegelt
  <2>2. QED
    BY <1>1, <2>1 DEF TabelleInv, StornoSpiegelt
<1>7. QED
  BY <1>2, <1>3, <1>4, <1>5, <1>6 DEF TabelleInv

-------------------------------------------------------------------------------
(***************************************************************************)
(* Requests in flight.                                                     *)
(***************************************************************************)
\* One step of request s: it was under way, its task does not change while it
\* goes on, and the other requests' own state stays as it is.
NurAnfrage(s) ==
  /\ ort[s] # "bereit"
  /\ ort'[s] = "bereit" \/ auftrag'[s] = auftrag[s]
  /\ \A t \in Slots \ {s} : /\ ort'[t] = ort[t] /\ auftrag'[t] = auftrag[t]
                            /\ entitaet'[t] = entitaet[t]

LEMMA SchrittIstEinzeln ==
  ASSUME TypeOK, NEW s \in Slots, Schritt(s)
  PROVE  NurAnfrage(s)
<1> USE DEF TypeOK, NurAnfrage
<1>1. \A o, z : Weiter(s, o, z) /\ ort[s] # "bereit" => NurAnfrage(s)
  BY DEF Weiter
<1>2. Antworte(s) /\ ort[s] # "bereit" => NurAnfrage(s)
  BY DEF Antworte
<1>3. \A o, z : Wiederhole(s, o, z) /\ ort[s] # "bereit" => NurAnfrage(s)
  BY DEF Wiederhole
<1> HIDE DEF TypeOK, NurAnfrage
<1>4. QED
  BY <1>1, <1>2, <1>3 DEF Schritt, Bei, NochNicht, FuegeEin, CreateLesen, CreateSchreiben,
     AenderungFinden, AenderungPruefen, UpdateVorgaenger, UpdateSchreiben,
     RemoveSchreiben, FestschreibenFinden, FestschreibenSchreiben, FestschreibenAlle,
     StornoFinden, StornoDoppelt, StornoLesen, StornoSchreiben, StornoAblehnen

LEMMA EinzelnBleibt ==
  ASSUME TypeOK, Einzeln, NEW s \in Slots, NurAnfrage(s)
  PROVE  Einzeln'
BY DEF Einzeln, NurAnfrage, TypeOK

\* What another request relies on survives every step that only adds rows or
\* fixes them.
LEMMA AndereBleiben ==
  ASSUME NEW t \in Slots, Fortgeschrieben, Einfuegbar(t), Stornierbar(t),
         ort'[t] = ort[t], auftrag'[t] = auftrag[t], entitaet'[t] = entitaet[t]
  PROVE  Einfuegbar(t)' /\ Stornierbar(t)'
<1>1. Einfuegbar(t)'
  <2>1. \A e : Angeschlossen(e) => Angeschlossen(e)'
    BY DEF Angeschlossen, Fortgeschrieben
  <2>2. QED
    BY <2>1 DEF Einfuegbar
<1>2. Stornierbar(t)'
  BY DEF Stornierbar, Original, Fortgeschrieben
<1>3. QED
  BY <1>1, <1>2

\* A step of a request that reads, or adds rows, or fixes them: the invariant
\* holds after it if it holds for the table and for the request itself.
LEMMA SchrittGenuegt ==
  ASSUME IInv, NEW s \in Slots, Schritt(s), TypeOK', TabelleInv', Fortgeschrieben,
         zeilen' = zeilen \/ auftrag[s].op \in Fortschreibend,
         Einfuegbar(s)', Stornierbar(s)', Bearbeitbar(s)'
  PROVE  IInv'
<1>1. NurAnfrage(s)
  BY SchrittIstEinzeln DEF IInv
<1>2. Einzeln'
  BY <1>1, EinzelnBleibt DEF IInv
<1>3. ASSUME NEW t \in Slots, t # s
      PROVE  Einfuegbar(t)' /\ Stornierbar(t)' /\ Bearbeitbar(t)'
  <2>1. ort'[t] = ort[t] /\ auftrag'[t] = auftrag[t] /\ entitaet'[t] = entitaet[t]
    BY <1>1, <1>3 DEF NurAnfrage
  <2>2. Einfuegbar(t)' /\ Stornierbar(t)'
    BY <2>1, AndereBleiben DEF IInv
  <2>3. Bearbeitbar(t)'
    <3>1. CASE zeilen' = zeilen
      <4>1. Bearbeitbar(t)
        BY DEF IInv
      <4>2. QED
        BY <2>1, <3>1, <4>1 DEF Bearbeitbar, Angeschlossen, IstLetzte
    <3>2. CASE auftrag[t].op \notin {"update", "remove"}
      BY <2>1, <3>2 DEF Bearbeitbar
    <3>3. CASE auftrag[t].op \in {"update", "remove"} /\ auftrag[s].op \in Fortschreibend
      <4>1. ort[t] = "bereit"
        BY <1>1, <1>3, <3>3 DEF IInv, Einzeln, NurAnfrage, Fortschreibend
      <4>2. QED
        BY <2>1, <4>1 DEF Bearbeitbar
    <3>4. QED
      BY <3>1, <3>2, <3>3
  <2>4. QED
    BY <2>2, <2>3
<1>4. QED
  BY <1>2, <1>3 DEF IInv

\* update and remove write while nobody else is under way.
LEMMA SchrittAllein ==
  ASSUME IInv, NEW s \in Slots, Schritt(s), TypeOK', TabelleInv',
         auftrag[s].op \in {"update", "remove"}, ort'[s] = "bereit"
  PROVE  IInv'
<1>1. NurAnfrage(s)
  BY SchrittIstEinzeln DEF IInv
<1>2. Einzeln'
  BY <1>1, EinzelnBleibt DEF IInv
<1>3. \A t \in Slots : ort'[t] = "bereit"
  BY <1>1 DEF IInv, Einzeln, NurAnfrage, Fortschreibend
<1>4. QED
  BY <1>2, <1>3 DEF IInv, Einfuegbar, Stornierbar, Bearbeitbar

-------------------------------------------------------------------------------
(***************************************************************************)
(* Types and the three ways a step of a request ends.                      *)
(***************************************************************************)
LEMMA Bestand ==
  ASSUME NEW v \in Int, NEW typ \in Typen, NEW betrag \in Nat
  PROVE  /\ berechneKassenbestandNach(v, typ, betrag) \in Int
         /\ ~ wuerdeBestandNegativ(v, typ, betrag) =>
              berechneKassenbestandNach(v, typ, betrag) >= 0
         /\ gegenTyp(typ) \in Typen
BY DEF berechneKassenbestandNach, wuerdeBestandNegativ, vorzeichen, gegenTyp, Typen

LEMMA Grundwerte == Leer \in Zeile /\ Ruhe \in Auftrag
BY DEF Leer, Ruhe, FuerEintrag, Zeile, Auftrag, Typen, Operationen

LEMMA TypDerSchritte ==
  ASSUME TypeOK, NEW s \in Slots, zeilen' \subseteq Zeile, letzteId' \in Nat
  PROVE  /\ Antworte(s) => TypeOK'
         /\ \A o \in Orte, z \in Zeile : Weiter(s, o, z) \/ Wiederhole(s, o, z) => TypeOK'
<1>1. Antworte(s) => TypeOK'
  <2>1. 0 \in 0 .. Retries /\ "bereit" \in Orte
    BY KassenbuchAssumption DEF Orte
  <2>2. QED
    BY <2>1, Grundwerte DEF TypeOK, Antworte
<1>2. \A o \in Orte, z \in Zeile : Weiter(s, o, z) => TypeOK'
  BY DEF TypeOK, Weiter
<1>3. \A o \in Orte, z \in Zeile : Wiederhole(s, o, z) => TypeOK'
  <2>1. \A v \in 0 .. Retries : v < Retries => v + 1 \in 0 .. Retries
    BY KassenbuchAssumption
  <2>2. QED
    BY <2>1 DEF TypeOK, Wiederhole
<1>4. QED
  BY <1>1, <1>2, <1>3

LEMMA TabelleBleibt ==
  ASSUME TabelleInv, UNCHANGED <<zeilen, letzteId>>
  PROVE  TabelleInv' /\ Fortgeschrieben
<1>1. TabelleInv'
  BY DEF TabelleInv, Eindeutig, Vergeben, OhneLuecke, HatLetzte, IstLetzte, Angeschlossen,
         StornoSpiegelt
<1>2. QED
  BY <1>1 DEF Fortgeschrieben

\* A step that only reads the table.
LEMMA LesenGenuegt ==
  ASSUME IInv, NEW s \in Slots, Schritt(s), UNCHANGED <<zeilen, letzteId>>,
         TypeOK', Einfuegbar(s)', Stornierbar(s)', Bearbeitbar(s)'
  PROVE  IInv'
BY TabelleBleibt, SchrittGenuegt DEF IInv

\* A request that ends without writing.
LEMMA AntwortGenuegt ==
  ASSUME IInv, NEW s \in Slots, Schritt(s), UNCHANGED <<zeilen, letzteId>>, Antworte(s)
  PROVE  IInv'
<1>1. TypeOK'
  BY TypDerSchritte DEF IInv, TypeOK
<1>2. ort'[s] = "bereit"
  BY DEF Antworte, IInv, TypeOK
<1>3. Einfuegbar(s)' /\ Stornierbar(s)' /\ Bearbeitbar(s)'
  BY <1>2 DEF Einfuegbar, Stornierbar, Bearbeitbar
<1>4. QED
  BY <1>1, <1>3, LesenGenuegt

\* A step that leaves request s at o with the row z in memory.
LEMMA WeiterSetzt ==
  ASSUME TypeOK, NEW s \in Slots, NEW o, NEW z, Weiter(s, o, z) \/ Wiederhole(s, o, z)
  PROVE  ort'[s] = o /\ entitaet'[s] = z /\ auftrag'[s] = auftrag[s]
BY DEF TypeOK, Weiter, Wiederhole

\* A row computed from the last one continues the journal.
LEMMA NachLetzter ==
  ASSUME TypeOK, TabelleInv, NEW z \in Zeile, z.nr = loadLetzten.nr + 1,
         z.bestandNach = berechneKassenbestandNach(loadLetzten.bestandNach, z.typ, z.betrag)
  PROVE  Angeschlossen(z)
<1>1. CASE zeilen = {} /\ loadLetzten = Leer
  BY <1>1 DEF Angeschlossen, Leer
<1>2. CASE loadLetzten \in zeilen
  <2>1. loadLetzten.nr \in Nat
    BY <1>2 DEF TypeOK, Zeile
  <2>2. loadLetzten.nr = z.nr - 1
    BY <2>1
  <2>3. QED
    BY <1>2, <2>2 DEF Angeschlossen
<1>3. QED
  BY <1>1, <1>2, LetzteZeile DEF TabelleInv

-------------------------------------------------------------------------------
(***************************************************************************)
(* create                                                                  *)
(***************************************************************************)
LEMMA CreateLesenErhaelt ==
  ASSUME IInv, NEW s \in Slots, CreateLesen(s)
  PROVE  IInv'
<1> DEFINE a == auftrag[s]
           last == loadLetzten
           datum == IF a.datum = 0 THEN uhr ELSE a.datum
           z == [id |-> 0, nr |-> last.nr + 1, datum |-> datum, typ |-> a.typ,
                 betrag |-> a.betrag,
                 bestandNach |-> berechneKassenbestandNach(last.bestandNach, a.typ, a.betrag),
                 fest |-> FALSE, stornoVon |-> 0]
<1>1. TypeOK /\ TabelleInv /\ Schritt(s) /\ UNCHANGED <<zeilen, letzteId>>
  BY DEF IInv, Schritt, CreateLesen
<1>2. CASE Antworte(s)
  BY <1>1, <1>2, AntwortGenuegt
<1>3. CASE ~ wuerdeBestandNegativ(last.bestandNach, a.typ, a.betrag)
           /\ Weiter(s, "schreiben", z)
  <2>1. a.typ \in Typen /\ a.betrag \in Nat /\ a.datum \in Nat /\ a.op = "create"
    BY <1>1 DEF TypeOK, Auftrag, CreateLesen, Bei
  <2>2. last \in Zeile
    BY <1>1, LetzteZeile, Grundwerte DEF TypeOK, TabelleInv
  <2>3. last.nr \in Nat /\ last.bestandNach \in Int
    BY <2>2 DEF Zeile
  <2>4. datum \in Nat
    BY <1>1, <2>1 DEF TypeOK
  <2>5. z.bestandNach \in Int /\ z.bestandNach >= 0
    BY <1>3, <2>1, <2>3, Bestand
  <2>6. z \in Zeile
    BY <2>1, <2>3, <2>4, <2>5 DEF Zeile
  <2>7. Angeschlossen(z)
    BY <1>1, <2>6, NachLetzter
  <2> HIDE DEF z
  <2>8. TypeOK'
    BY <1>1, <1>3, <2>6, TypDerSchritte DEF TypeOK, Orte
  <2>9. ort'[s] = "schreiben" /\ entitaet'[s] = z /\ auftrag'[s] = auftrag[s]
    BY <1>1, <1>3, WeiterSetzt
  <2>10. z.nr >= 1 /\ z.stornoVon = 0
    BY <2>3 DEF z
  <2>11. Einfuegbar(s)'
    BY <1>1, <2>5, <2>7, <2>9, <2>10 DEF Einfuegbar, Angeschlossen
  <2>12. Stornierbar(s)' /\ Bearbeitbar(s)'
    BY <2>1, <2>9 DEF Stornierbar, Bearbeitbar
  <2>13. QED
    BY <1>1, <2>8, <2>11, <2>12, LesenGenuegt
<1>4. QED
  BY <1>2, <1>3 DEF CreateLesen

\* A successful INSERT ends the request and leaves a correct table.
LEMMA FuegeEinErhaelt ==
  ASSUME IInv, NEW s \in Slots, Schritt(s), FuegeEin(s), ort[s] = "schreiben",
         auftrag[s].op \in {"create", "storno"}
  PROVE  IInv'
<1> DEFINE e == entitaet[s]
           z == [e EXCEPT !.id = letzteId + 1]
<1>1. TypeOK /\ TabelleInv /\ Einfuegbar(s) /\ Stornierbar(s)
  BY DEF IInv
<1>2. e \in Zeile /\ letzteId \in Nat
  BY <1>1 DEF TypeOK
<1>3. /\ z \in Zeile /\ z.id = letzteId + 1 /\ z.nr = e.nr /\ z.typ = e.typ
      /\ z.betrag = e.betrag /\ z.bestandNach = e.bestandNach /\ z.fest = e.fest
      /\ z.stornoVon = e.stornoVon
  BY <1>2 DEF Zeile
<1>4. ~ Kollidiert(z) /\ save(z) /\ letzteId' = letzteId + 1 /\ Antworte(s)
  BY DEF FuegeEin
<1> HIDE DEF z
<1>5. z.nr >= 1 /\ z.bestandNach >= 0 /\ Angeschlossen(z)
  BY <1>1, <1>3 DEF Einfuegbar, Angeschlossen
<1>6. z.stornoVon # 0 => z.fest /\ \E o \in zeilen : Original(o, z) /\ o.nr < z.nr
  BY <1>1, <1>3 DEF Einfuegbar, Stornierbar, Original
<1>7. zeilen' = zeilen \cup {z}
  <2>1. \A y \in zeilen : y.id # z.id
    BY <1>1, <1>2, <1>3 DEF TabelleInv, Vergeben
  <2>2. QED
    BY <1>4, <2>1 DEF save
<1>8. TabelleInv'
  BY <1>1, <1>3, <1>4, <1>5, <1>6, <1>7, Einfuegen
<1>9. TypeOK'
  BY <1>1, <1>2, <1>3, <1>4, <1>7, TypDerSchritte DEF TypeOK
<1>10. Fortgeschrieben
  BY <1>7 DEF Fortgeschrieben
<1>11. Einfuegbar(s)' /\ Stornierbar(s)' /\ Bearbeitbar(s)'
  BY <1>1, <1>4 DEF Antworte, TypeOK, Einfuegbar, Stornierbar, Bearbeitbar
<1>12. QED
  BY <1>8, <1>9, <1>10, <1>11, SchrittGenuegt DEF Fortschreibend

LEMMA CreateSchreibenErhaelt ==
  ASSUME IInv, NEW s \in Slots, CreateSchreiben(s)
  PROVE  IInv'
<1>1. /\ TypeOK /\ Schritt(s) /\ ort[s] = "schreiben" /\ auftrag[s].op = "create"
  BY DEF IInv, Schritt, CreateSchreiben, Bei
<1>2. CASE FuegeEin(s)
  BY <1>1, <1>2, FuegeEinErhaelt
<1>3. CASE Wiederhole(s, "lesen", Leer)
  <2>1. UNCHANGED <<zeilen, letzteId>>
    BY <1>3 DEF Wiederhole
  <2>2. ort'[s] = "lesen" /\ auftrag'[s] = auftrag[s]
    BY <1>1, <1>3, WeiterSetzt
  <2>3. TypeOK'
    BY <1>1, <1>3, <2>1, Grundwerte, TypDerSchritte DEF TypeOK, Orte
  <2>4. Einfuegbar(s)' /\ Stornierbar(s)' /\ Bearbeitbar(s)'
    BY <1>1, <2>2 DEF Einfuegbar, Stornierbar, Bearbeitbar
  <2>5. QED
    BY <1>1, <2>1, <2>3, <2>4, LesenGenuegt
<1>4. CASE NochNicht(s)
  BY <1>1, <1>4, AntwortGenuegt DEF NochNicht
<1>5. QED
  BY <1>2, <1>3, <1>4 DEF CreateSchreiben

-------------------------------------------------------------------------------
(***************************************************************************)
(* update and remove                                                       *)
(***************************************************************************)
LEMMA AenderungFindenErhaelt ==
  ASSUME IInv, NEW s \in Slots, AenderungFinden(s)
  PROVE  IInv'
<1>1. /\ TypeOK /\ Schritt(s) /\ auftrag[s].op \in {"update", "remove"}
      /\ UNCHANGED <<zeilen, letzteId>>
  BY DEF IInv, Schritt, AenderungFinden, Bei
<1>2. CASE Antworte(s)
  BY <1>1, <1>2, AntwortGenuegt
<1>3. ASSUME NEW z \in Gefunden(s), ~ z.fest, Weiter(s, "pruefen", z)
      PROVE  IInv'
  <2>1. z \in zeilen /\ z \in Zeile
    BY <1>1 DEF Gefunden, TypeOK
  <2>2. ort'[s] = "pruefen" /\ entitaet'[s] = z /\ auftrag'[s] = auftrag[s]
    BY <1>1, <1>3, WeiterSetzt
  <2>3. TypeOK'
    BY <1>1, <1>3, <2>1, TypDerSchritte DEF TypeOK, Orte
  <2>4. Einfuegbar(s)' /\ Stornierbar(s)' /\ Bearbeitbar(s)'
    BY <1>1, <1>3, <2>1, <2>2 DEF Einfuegbar, Stornierbar, Bearbeitbar
  <2>5. QED
    BY <1>1, <2>3, <2>4, LesenGenuegt
<1>4. QED
  BY <1>2, <1>3 DEF AenderungFinden

LEMMA AenderungPruefenErhaelt ==
  ASSUME IInv, NEW s \in Slots, AenderungPruefen(s)
  PROVE  IInv'
<1> DEFINE e == entitaet[s]
           o == IF auftrag[s].op = "update" THEN "vorgaenger" ELSE "schreiben"
<1>1. /\ TypeOK /\ TabelleInv /\ Schritt(s) /\ auftrag[s].op \in {"update", "remove"}
      /\ ort[s] = "pruefen" /\ UNCHANGED <<zeilen, letzteId>>
  BY DEF IInv, Schritt, AenderungPruefen, Bei
<1>2. CASE Antworte(s)
  BY <1>1, <1>2, AntwortGenuegt
<1>3. CASE loadLetzten.id = e.id /\ Weiter(s, o, e)
  <2>1. PICK z \in zeilen : /\ z.id = e.id /\ z.nr = e.nr /\ z.stornoVon = e.stornoVon
                            /\ ~ z.fest /\ ~ e.fest
    BY <1>1 DEF IInv, Bearbeitbar
  <2>2. loadLetzten \in zeilen /\ IstLetzte(loadLetzten)
    BY <1>1, <2>1, LetzteZeile DEF TabelleInv
  <2>3. IstLetzte(z)
    BY <1>1, <1>3, <2>1, <2>2 DEF TabelleInv, Eindeutig
  <2>4. ort'[s] = o /\ entitaet'[s] = e /\ auftrag'[s] = auftrag[s]
    BY <1>1, <1>3, WeiterSetzt
  <2>5. TypeOK'
    BY <1>1, <1>3, TypDerSchritte DEF TypeOK, Orte
  <2>6. Einfuegbar(s)' /\ Stornierbar(s)'
    BY <1>1, <2>4 DEF Einfuegbar, Stornierbar
  <2>7. Bearbeitbar(s)'
    <3>1. ~ (ort'[s] = "schreiben" /\ auftrag'[s].op = "update")
      BY <2>4
    <3>2. IstLetzte(z)'
      BY <1>1, <2>3 DEF IstLetzte
    <3>3. QED
      BY <1>1, <2>1, <2>4, <3>1, <3>2 DEF Bearbeitbar
  <2>8. QED
    BY <1>1, <2>5, <2>6, <2>7, LesenGenuegt
<1>4. QED
  BY <1>2, <1>3 DEF AenderungPruefen

LEMMA UpdateVorgaengerErhaelt ==
  ASSUME IInv, NEW s \in Slots, UpdateVorgaenger(s)
  PROVE  IInv'
<1> DEFINE a == auftrag[s]
           e == entitaet[s]
           vorher == vorgaengerBestand(e.nr)
           w == [e EXCEPT !.typ = a.typ, !.betrag = a.betrag,
                   !.bestandNach = berechneKassenbestandNach(vorher, a.typ, a.betrag)]
<1>1. /\ TypeOK /\ TabelleInv /\ Schritt(s) /\ a.op = "update"
      /\ ort[s] = "vorgaenger" /\ UNCHANGED <<zeilen, letzteId>>
  BY DEF IInv, Schritt, UpdateVorgaenger, Bei
<1>2. CASE Antworte(s)
  BY <1>1, <1>2, AntwortGenuegt
<1>3. CASE ~ wuerdeBestandNegativ(vorher, a.typ, a.betrag) /\ Weiter(s, "schreiben", w)
  <2>1. PICK z \in zeilen : /\ z.id = e.id /\ z.nr = e.nr /\ z.stornoVon = e.stornoVon
                            /\ ~ z.fest /\ ~ e.fest /\ IstLetzte(z)
    BY <1>1 DEF IInv, Bearbeitbar
  <2>2. \/ z.nr = 1 /\ vorher = 0
        \/ \E y \in zeilen : y.nr = z.nr - 1 /\ vorher = y.bestandNach
    BY <1>1, <2>1, Vorgaenger DEF TabelleInv
  <2>3. vorher \in Int
    BY <1>1, <2>2 DEF TypeOK, Zeile
  <2>4. a.typ \in Typen /\ a.betrag \in Nat /\ e \in Zeile
    BY <1>1 DEF TypeOK, Auftrag
  <2>5. LET b == berechneKassenbestandNach(vorher, a.typ, a.betrag) IN b \in Int /\ b >= 0
    BY <1>3, <2>3, <2>4, Bestand
  <2>6. /\ w \in Zeile /\ w.id = z.id /\ w.nr = z.nr /\ w.stornoVon = z.stornoVon
        /\ ~ w.fest /\ w.bestandNach >= 0
        /\ w.bestandNach = berechneKassenbestandNach(vorher, w.typ, w.betrag)
    BY <2>1, <2>4, <2>5 DEF Zeile
  <2> HIDE DEF w
  <2>7. Angeschlossen(w)
    BY <2>2, <2>6 DEF Angeschlossen
  <2>8. ort'[s] = "schreiben" /\ entitaet'[s] = w /\ auftrag'[s] = auftrag[s]
    BY <1>1, <1>3, WeiterSetzt
  <2>9. TypeOK'
    BY <1>1, <1>3, <2>6, TypDerSchritte DEF TypeOK, Orte
  <2>10. Einfuegbar(s)' /\ Stornierbar(s)'
    BY <1>1, <2>8 DEF Einfuegbar, Stornierbar
  <2>11. Bearbeitbar(s)'
    <3>1. PICK c \in Zeile : c = w
      BY <2>6
    <3>2. IstLetzte(z)' /\ Angeschlossen(c)'
      BY <1>1, <2>1, <2>7, <3>1 DEF IstLetzte, Angeschlossen
    <3>3. QED
      BY <1>1, <2>1, <2>6, <2>8, <3>1, <3>2 DEF Bearbeitbar
  <2>12. QED
    BY <1>1, <2>9, <2>10, <2>11, LesenGenuegt
<1>4. QED
  BY <1>2, <1>3 DEF UpdateVorgaenger

LEMMA UpdateSchreibenErhaelt ==
  ASSUME IInv, NEW s \in Slots, UpdateSchreiben(s)
  PROVE  IInv'
<1> DEFINE e == entitaet[s]
<1>1. /\ TypeOK /\ TabelleInv /\ Schritt(s) /\ auftrag[s].op = "update" /\ ort[s] = "schreiben"
  BY DEF IInv, Schritt, UpdateSchreiben, Bei
<1>2. CASE save(e) /\ Antworte(s) /\ UNCHANGED letzteId
  <2>1. PICK z \in zeilen : /\ z.id = e.id /\ z.nr = e.nr /\ z.stornoVon = e.stornoVon
                            /\ ~ z.fest /\ ~ e.fest /\ IstLetzte(z)
                            /\ e.bestandNach >= 0 /\ Angeschlossen(e)
    BY <1>1 DEF IInv, Bearbeitbar
  <2>2. e \in Zeile /\ zeilen' \subseteq Zeile
    BY <1>1, <1>2 DEF TypeOK, save
  <2>3. TabelleInv'
    BY <1>1, <1>2, <2>1, <2>2, Aendern
  <2>4. TypeOK'
    BY <1>1, <1>2, <2>2, TypDerSchritte DEF TypeOK
  <2>5. ort'[s] = "bereit"
    BY <1>1, <1>2 DEF Antworte, TypeOK
  <2>6. QED
    BY <1>1, <2>3, <2>4, <2>5, SchrittAllein
<1>3. CASE Wiederhole(s, "finden", Leer)
  <2>1. UNCHANGED <<zeilen, letzteId>>
    BY <1>3 DEF Wiederhole
  <2>2. ort'[s] = "finden" /\ auftrag'[s] = auftrag[s]
    BY <1>1, <1>3, WeiterSetzt
  <2>3. TypeOK'
    BY <1>1, <1>3, <2>1, Grundwerte, TypDerSchritte DEF TypeOK, Orte
  <2>4. Einfuegbar(s)' /\ Stornierbar(s)' /\ Bearbeitbar(s)'
    BY <1>1, <2>2 DEF Einfuegbar, Stornierbar, Bearbeitbar
  <2>5. QED
    BY <1>1, <2>1, <2>3, <2>4, LesenGenuegt
<1>4. CASE NochNicht(s)
  BY <1>1, <1>4, AntwortGenuegt DEF NochNicht
<1>5. QED
  BY <1>2, <1>3, <1>4 DEF UpdateSchreiben

LEMMA RemoveSchreibenErhaelt ==
  ASSUME IInv, NEW s \in Slots, RemoveSchreiben(s)
  PROVE  IInv'
<1>1. /\ TypeOK /\ TabelleInv /\ Schritt(s) /\ auftrag[s].op = "remove" /\ ort[s] = "schreiben"
      /\ zeilen' = {z \in zeilen : z.id # entitaet[s].id} /\ Antworte(s) /\ letzteId' = letzteId
  BY DEF IInv, Schritt, RemoveSchreiben, Bei
<1>2. PICK z \in zeilen : z.id = entitaet[s].id /\ ~ z.fest /\ IstLetzte(z)
  BY <1>1 DEF IInv, Bearbeitbar
<1>3. TabelleInv'
  BY <1>1, <1>2, Entfernen
<1>4. TypeOK'
  BY <1>1, TypDerSchritte DEF TypeOK
<1>5. ort'[s] = "bereit"
  BY <1>1 DEF Antworte, TypeOK
<1>6. QED
  BY <1>1, <1>3, <1>4, <1>5, SchrittAllein

-------------------------------------------------------------------------------
(***************************************************************************)
(* festschreiben and festschreibenAlle                                     *)
(***************************************************************************)
LEMMA FestschreibenFindenErhaelt ==
  ASSUME IInv, NEW s \in Slots, FestschreibenFinden(s)
  PROVE  IInv'
<1>1. /\ TypeOK /\ Schritt(s) /\ auftrag[s].op = "festschreiben"
      /\ UNCHANGED <<zeilen, letzteId>>
  BY DEF IInv, Schritt, FestschreibenFinden, Bei
<1>2. CASE Antworte(s)
  BY <1>1, <1>2, AntwortGenuegt
<1>3. ASSUME NEW z \in Gefunden(s), Weiter(s, "schreiben", z)
      PROVE  IInv'
  <2>1. z \in Zeile
    BY <1>1 DEF Gefunden, TypeOK
  <2>2. auftrag'[s] = auftrag[s]
    BY <1>1, <1>3, WeiterSetzt
  <2>3. TypeOK'
    BY <1>1, <1>3, <2>1, TypDerSchritte DEF TypeOK, Orte
  <2>4. Einfuegbar(s)' /\ Stornierbar(s)' /\ Bearbeitbar(s)'
    BY <1>1, <2>2 DEF Einfuegbar, Stornierbar, Bearbeitbar
  <2>5. QED
    BY <1>1, <2>3, <2>4, LesenGenuegt
<1>4. QED
  BY <1>2, <1>3 DEF FestschreibenFinden

\* Both UPDATEs fix a set of drafts and end their request.
LEMMA FixierenErhaelt ==
  ASSUME IInv, NEW s \in Slots, Schritt(s), NEW Z \in SUBSET zeilen, SchreibeFest(Z),
         auftrag[s].op \in Fortschreibend, Antworte(s), letzteId' = letzteId
  PROVE  IInv'
<1>1. TypeOK /\ TabelleInv
  BY DEF IInv
<1>2. zeilen' \subseteq Zeile /\ Fortgeschrieben /\ TabelleInv'
  BY <1>1, Festschreiben
<1>3. TypeOK'
  BY <1>1, <1>2, TypDerSchritte DEF TypeOK
<1>4. Einfuegbar(s)' /\ Stornierbar(s)' /\ Bearbeitbar(s)'
  BY <1>1 DEF Antworte, TypeOK, Einfuegbar, Stornierbar, Bearbeitbar
<1>5. QED
  BY <1>2, <1>3, <1>4, SchrittGenuegt

LEMMA FestschreibenSchreibenErhaelt ==
  ASSUME IInv, NEW s \in Slots, FestschreibenSchreiben(s) \/ FestschreibenAlle(s)
  PROVE  IInv'
<1>1. Schritt(s) /\ auftrag[s].op \in Fortschreibend /\ Antworte(s) /\ letzteId' = letzteId
  BY DEF Schritt, FestschreibenSchreiben, FestschreibenAlle, Bei, Fortschreibend
<1>2. \E Z \in SUBSET zeilen : SchreibeFest(Z)
  BY DEF FestschreibenSchreiben, FestschreibenAlle
<1>3. QED
  BY <1>1, <1>2, FixierenErhaelt

-------------------------------------------------------------------------------
(***************************************************************************)
(* storno                                                                  *)
(***************************************************************************)
LEMMA StornoFindenErhaelt ==
  ASSUME IInv, NEW s \in Slots, StornoFinden(s)
  PROVE  IInv'
<1>1. /\ TypeOK /\ TabelleInv /\ Schritt(s) /\ auftrag[s].op = "storno"
      /\ UNCHANGED <<zeilen, letzteId>>
  BY DEF IInv, Schritt, StornoFinden, Bei
<1>2. CASE Antworte(s)
  BY <1>1, <1>2, AntwortGenuegt
<1>3. ASSUME NEW z \in Gefunden(s), z.fest, z.stornoVon = 0, NEW g,
             g = Gegenbuchung(gegenTyp(z.typ), z.betrag, z.id),
             Weiter(s, "doppelt", g)
      PROVE  IInv'
  <2>1. z \in zeilen /\ z \in Zeile /\ z.id # 0
    BY <1>1 DEF Gefunden, TypeOK, TabelleInv, Vergeben
  <2>2. gegenTyp(z.typ) \in Typen
    BY DEF gegenTyp, Typen
  <2>3. g \in Zeile /\ g.typ = gegenTyp(z.typ) /\ g.betrag = z.betrag /\ g.fest
          /\ g.stornoVon = z.id
    BY <1>3, <2>1, <2>2 DEF Zeile, Gegenbuchung
  <2>4. ort'[s] = "doppelt" /\ entitaet'[s] = g /\ auftrag'[s] = auftrag[s]
    BY <1>1, <1>3, WeiterSetzt
  <2>5. TypeOK'
    BY <1>1, <1>3, <2>3, TypDerSchritte DEF TypeOK, Orte
  <2>6. Stornierbar(s)'
    BY <1>1, <1>3, <2>1, <2>3, <2>4 DEF Stornierbar, Original
  <2>7. Einfuegbar(s)' /\ Bearbeitbar(s)'
    BY <1>1, <2>4 DEF Einfuegbar, Bearbeitbar
  <2>8. QED
    BY <1>1, <2>5, <2>6, <2>7, LesenGenuegt
<1>4. QED
  BY <1>2, <1>3 DEF StornoFinden

LEMMA StornoDoppeltErhaelt ==
  ASSUME IInv, NEW s \in Slots, StornoDoppelt(s)
  PROVE  IInv'
<1>1. /\ TypeOK /\ Schritt(s) /\ auftrag[s].op = "storno" /\ ort[s] = "doppelt"
      /\ UNCHANGED <<zeilen, letzteId>>
  BY DEF IInv, Schritt, StornoDoppelt, Bei
<1>2. PICK o \in {"schonStorniert", "lesen"} : Weiter(s, o, entitaet[s])
  BY DEF StornoDoppelt
<1>3. ort'[s] = o /\ entitaet'[s] = entitaet[s] /\ auftrag'[s] = auftrag[s]
  BY <1>1, <1>2, WeiterSetzt
<1>4. TypeOK'
  BY <1>1, <1>2, TypDerSchritte DEF TypeOK, Orte
<1>5. Stornierbar(s)
  BY DEF IInv
<1>6. Einfuegbar(s)' /\ Stornierbar(s)' /\ Bearbeitbar(s)'
  BY <1>1, <1>3, <1>5 DEF Einfuegbar, Stornierbar, Original, Bearbeitbar
<1>7. QED
  BY <1>1, <1>4, <1>6, LesenGenuegt

LEMMA StornoLesenErhaelt ==
  ASSUME IInv, NEW s \in Slots, StornoLesen(s)
  PROVE  IInv'
<1> DEFINE e == entitaet[s]
           last == loadLetzten
           b == berechneKassenbestandNach(last.bestandNach, e.typ, e.betrag)
           w == [id |-> 0, nr |-> last.nr + 1, datum |-> uhr, typ |-> e.typ,
                 betrag |-> e.betrag, bestandNach |-> b, fest |-> TRUE,
                 stornoVon |-> e.stornoVon]
<1>1. /\ TypeOK /\ TabelleInv /\ Schritt(s) /\ auftrag[s].op = "storno" /\ ort[s] = "lesen"
      /\ UNCHANGED <<zeilen, letzteId>>
  BY DEF IInv, Schritt, StornoLesen, Bei
<1>2. CASE Antworte(s)
  BY <1>1, <1>2, AntwortGenuegt
<1>3. CASE ~ wuerdeBestandNegativ(last.bestandNach, e.typ, e.betrag)
           /\ Weiter(s, "schreiben", w)
  <2>1. PICK z \in zeilen : Original(z, e) /\ e.fest /\ e.stornoVon # 0
    BY <1>1 DEF IInv, Stornierbar
  <2>2. last \in zeilen /\ z.nr <= last.nr
    BY <1>1, <2>1, LetzteZeile DEF TabelleInv, IstLetzte
  <2>3. /\ last.nr \in Nat /\ last.bestandNach \in Int /\ uhr \in Nat /\ z.nr \in Nat
        /\ e \in Zeile /\ e.typ \in Typen /\ e.betrag \in Nat
    BY <1>1, <2>2 DEF TypeOK, Zeile
  <2>4. b \in Int /\ b >= 0
    BY <1>3, <2>3, Bestand
  <2>5. /\ w \in Zeile /\ w.nr = last.nr + 1 /\ w.bestandNach >= 0 /\ w.fest = e.fest
        /\ w.stornoVon = e.stornoVon /\ w.typ = e.typ /\ w.betrag = e.betrag
        /\ w.bestandNach = berechneKassenbestandNach(last.bestandNach, w.typ, w.betrag)
    <3>1. e.stornoVon \in Nat /\ e.fest = TRUE
      BY <2>1, <2>3 DEF Zeile
    <3> HIDE DEF b
    <3>2. w \in Zeile
      BY <2>3, <2>4, <3>1 DEF Zeile
    <3>3. /\ w.nr = last.nr + 1 /\ w.bestandNach >= 0 /\ w.fest = e.fest
          /\ w.stornoVon = e.stornoVon /\ w.typ = e.typ /\ w.betrag = e.betrag
          /\ w.bestandNach = b
      BY <2>4, <3>1
    <3>4. QED
      BY <3>2, <3>3 DEF b
  <2> HIDE DEF w
  <2>6. PICK c \in Zeile : c = w
    BY <2>5
  <2>7. Angeschlossen(c)
    BY <1>1, <2>5, <2>6, NachLetzter
  <2>8. ort'[s] = "schreiben" /\ entitaet'[s] = c /\ auftrag'[s] = auftrag[s]
    BY <1>1, <1>3, <2>6, WeiterSetzt
  <2>9. TypeOK'
    BY <1>1, <1>3, <2>5, TypDerSchritte DEF TypeOK, Orte
  <2>10. Einfuegbar(s)'
    BY <1>1, <2>3, <2>5, <2>6, <2>7, <2>8 DEF Einfuegbar, Angeschlossen
  <2>11. Stornierbar(s)'
    <3>1. z.nr < c.nr
      BY <2>2, <2>3, <2>5, <2>6
    <3>2. Original(z, c) /\ c.fest /\ c.stornoVon # 0
      BY <2>1, <2>5, <2>6 DEF Original
    <3>3. QED
      BY <1>1, <2>8, <3>1, <3>2 DEF Stornierbar, Original
  <2>12. Bearbeitbar(s)'
    BY <1>1, <2>8 DEF Bearbeitbar
  <2>13. QED
    BY <1>1, <2>9, <2>10, <2>11, <2>12, LesenGenuegt
<1>4. QED
  BY <1>2, <1>3 DEF StornoLesen

LEMMA StornoSchreibenErhaelt ==
  ASSUME IInv, NEW s \in Slots, StornoSchreiben(s)
  PROVE  IInv'
<1> DEFINE e == entitaet[s]
           w == Gegenbuchung(e.typ, e.betrag, e.stornoVon)
<1>1. /\ TypeOK /\ Schritt(s) /\ auftrag[s].op = "storno" /\ ort[s] = "schreiben"
      /\ Stornierbar(s)
  BY DEF IInv, Schritt, StornoSchreiben, Bei
<1>2. CASE FuegeEin(s)
  BY <1>1, <1>2, FuegeEinErhaelt
<1>3. CASE Wiederhole(s, "doppelt", w)
  <2>1. UNCHANGED <<zeilen, letzteId>>
    BY <1>3 DEF Wiederhole
  <2>2. ort'[s] = "doppelt" /\ entitaet'[s] = w /\ auftrag'[s] = auftrag[s]
    BY <1>1, <1>3, WeiterSetzt
  <2>3. w \in Zeile /\ w.fest = e.fest /\ w.stornoVon = e.stornoVon /\ w.typ = e.typ
          /\ w.betrag = e.betrag
    <3>1. e \in Zeile /\ e.fest
      BY <1>1 DEF TypeOK, Stornierbar
    <3>2. QED
      BY <3>1 DEF Zeile, Gegenbuchung
  <2> HIDE DEF w
  <2>4. TypeOK'
    BY <1>1, <1>3, <2>1, <2>3, TypDerSchritte DEF TypeOK, Orte
  <2>5. Stornierbar(s)'
    BY <1>1, <2>1, <2>2, <2>3 DEF Stornierbar, Original
  <2>6. Einfuegbar(s)' /\ Bearbeitbar(s)'
    BY <1>1, <2>2 DEF Einfuegbar, Bearbeitbar
  <2>7. QED
    BY <1>1, <2>1, <2>4, <2>5, <2>6, LesenGenuegt
<1>4. CASE Weiter(s, "schonStorniert", e) /\ UNCHANGED <<zeilen, letzteId>>
  <2>1. ort'[s] = "schonStorniert" /\ entitaet'[s] = e /\ auftrag'[s] = auftrag[s]
    BY <1>1, <1>4, WeiterSetzt
  <2>2. TypeOK'
    BY <1>1, <1>4, TypDerSchritte DEF TypeOK, Orte
  <2>3. Einfuegbar(s)' /\ Stornierbar(s)' /\ Bearbeitbar(s)'
    BY <1>1, <1>4, <2>1 DEF Einfuegbar, Stornierbar, Original, Bearbeitbar
  <2>4. QED
    BY <1>1, <1>4, <2>2, <2>3, LesenGenuegt
<1>5. QED
  BY <1>2, <1>3, <1>4 DEF StornoSchreiben

LEMMA StornoAblehnenErhaelt ==
  ASSUME IInv, NEW s \in Slots, StornoAblehnen(s)
  PROVE  IInv'
BY AntwortGenuegt DEF StornoAblehnen, NochNicht, Schritt

-------------------------------------------------------------------------------
(***************************************************************************)
(* Requests that begin, the clock, and stuttering.                         *)
(***************************************************************************)
\* A request only begins while no update or remove is under way, and these only
\* while nothing is.
LEMMA NimmErhaelt ==
  ASSUME Seriell, IInv, NEW s \in Slots, NEW a \in Auftrag, NEW o \in Orte,
         \/ o = "finden"
         \/ o = "lesen" /\ a.op = "create"
         \/ o = "schreiben" /\ a.op = "festschreibenAlle",
         Nimm(s, a, o)
  PROVE  IInv'
<1>1. /\ TypeOK /\ UNCHANGED <<zeilen, letzteId, entitaet>> /\ ort[s] = "bereit"
      /\ ort'[s] = o /\ auftrag'[s] = a
      /\ \A t \in Slots \ {s} : ort'[t] = ort[t] /\ auftrag'[t] = auftrag[t]
  BY DEF Nimm, IInv, TypeOK
<1>2. TypeOK'
  BY <1>1 DEF TypeOK, Nimm
<1>3. TabelleInv'
  BY <1>1, TabelleBleibt DEF IInv
<1>4. Einzeln'
  <2>1. CASE AlleBereit
    BY <1>1, <2>1 DEF Einzeln, AlleBereit
  <2>2. CASE /\ a.op \in Gleichzeitig
             /\ \A t \in Slots : ort[t] # "bereit" => auftrag[t].op \in Gleichzeitig
    BY <1>1, <2>2 DEF Einzeln, Seriell
  <2>3. QED
    BY <2>1, <2>2 DEF Nimm, DarfBeginnen
<1>5. ASSUME NEW t \in Slots
      PROVE  Einfuegbar(t)' /\ Stornierbar(t)' /\ Bearbeitbar(t)'
  <2>1. CASE t = s
    <3>1. ort'[t] # "schreiben" \/ auftrag'[t].op = "festschreibenAlle"
      BY <1>1, <2>1
    <3>2. ort'[t] \in {"finden", "lesen", "schreiben"}
            /\ (ort'[t] = "lesen" => auftrag'[t].op # "storno")
      BY <1>1, <2>1
    <3>3. Einfuegbar(t)'
      BY <3>1 DEF Einfuegbar
    <3>4. Stornierbar(t)'
      BY <3>1, <3>2 DEF Stornierbar
    <3>5. Bearbeitbar(t)'
      BY <3>1, <3>2 DEF Bearbeitbar
    <3>6. QED
      BY <3>3, <3>4, <3>5
  <2>2. CASE t # s
    <3>1. ort'[t] = ort[t] /\ auftrag'[t] = auftrag[t] /\ entitaet'[t] = entitaet[t]
      BY <1>1, <2>2
    <3>2. Einfuegbar(t) /\ Stornierbar(t) /\ Bearbeitbar(t)
      BY DEF IInv
    <3>3. QED
      BY <1>1, <3>1, <3>2 DEF Einfuegbar, Stornierbar, Bearbeitbar, Angeschlossen, Original,
         IstLetzte
  <2>3. QED
    BY <2>1, <2>2
<1>6. QED
  BY <1>2, <1>3, <1>4, <1>5 DEF IInv

LEMMA BeginnErhaelt ==
  ASSUME Seriell, IInv, NEW s \in Slots, Beginn(s)
  PROVE  IInv'
<1> USE DEF Auftrag, Operationen, Orte
<1>1. uhr \in Nat /\ letzteId \in Nat /\ Ruhe \in Auftrag
  BY Grundwerte DEF IInv, TypeOK
<1>2. CASE NimmCreate(s)
  <2>1. PICK typ \in Typen, betrag \in Betraege, datum \in Buchungsdaten :
          Nimm(s, [op |-> "create", id |-> 0, typ |-> typ, betrag |-> betrag,
                   datum |-> datum], "lesen")
    BY <1>2 DEF NimmCreate
  <2>2. betrag \in Nat /\ datum \in Nat
    BY <1>1, KassenbuchAssumption DEF Buchungsdaten
  <2>3. QED
    BY <2>1, <2>2, NimmErhaelt
<1>3. CASE NimmAenderung(s)
  <2>1. PICK id \in 1 .. letzteId :
          \/ Nimm(s, FuerEintrag("remove", id), "finden")
          \/ \E typ \in Typen, betrag \in Betraege :
               Nimm(s, [op |-> "update", id |-> id, typ |-> typ, betrag |-> betrag,
                        datum |-> 0], "finden")
    BY <1>3 DEF NimmAenderung
  <2>2. FuerEintrag("remove", id) \in Auftrag
    BY <1>1 DEF FuerEintrag, Typen
  <2>3. Betraege \subseteq Nat /\ id \in Nat
    BY <1>1, KassenbuchAssumption
  <2>4. QED
    BY <2>1, <2>2, <2>3, NimmErhaelt
<1>4. CASE NimmFestschreiben(s)
  <2>1. FuerEintrag("festschreibenAlle", 0) \in Auftrag
          /\ FuerEintrag("festschreibenAlle", 0).op = "festschreibenAlle"
    BY <1>1 DEF FuerEintrag, Typen
  <2>2. \A id \in 1 .. letzteId : FuerEintrag("festschreiben", id) \in Auftrag
    BY <1>1 DEF FuerEintrag, Typen
  <2>3. CASE Nimm(s, FuerEintrag("festschreibenAlle", 0), "schreiben")
    BY <2>1, <2>3, NimmErhaelt
  <2>4. ASSUME NEW id \in 1 .. letzteId,
               Nimm(s, FuerEintrag("festschreiben", id), "finden")
        PROVE  IInv'
    BY <2>2, <2>4, NimmErhaelt
  <2>5. QED
    BY <1>4, <2>3, <2>4 DEF NimmFestschreiben
<1>5. CASE NimmStorno(s)
  <2>1. PICK id \in 1 .. letzteId : Nimm(s, FuerEintrag("storno", id), "finden")
    BY <1>5 DEF NimmStorno
  <2>2. FuerEintrag("storno", id) \in Auftrag
    BY <1>1 DEF FuerEintrag, Typen
  <2>3. QED
    BY <2>1, <2>2, NimmErhaelt
<1>6. QED
  BY <1>2, <1>3, <1>4, <1>5 DEF Beginn

\* Nothing in the invariant but its type speaks of the clock.
LEMMA RuheErhaelt ==
  ASSUME IInv, Tick \/ UNCHANGED vars
  PROVE  IInv'
<1>1. UNCHANGED <<zeilen, letzteId, ort, auftrag, entitaet, versuch>>
  BY DEF Tick, vars
<1>2. TypeOK'
  BY <1>1 DEF IInv, TypeOK, Tick, vars
<1>3. TabelleInv'
  BY <1>1, TabelleBleibt DEF IInv
<1>4. Einzeln'
  BY <1>1 DEF IInv, Einzeln
<1>5. ASSUME NEW s \in Slots
      PROVE  Einfuegbar(s)' /\ Stornierbar(s)' /\ Bearbeitbar(s)'
  <2>1. Einfuegbar(s) /\ Stornierbar(s) /\ Bearbeitbar(s)
    BY DEF IInv
  <2>2. QED
    BY <1>1, <2>1 DEF Einfuegbar, Stornierbar, Bearbeitbar, Angeschlossen, Original, IstLetzte
<1>6. QED
  BY <1>2, <1>3, <1>4, <1>5 DEF IInv

-------------------------------------------------------------------------------
(***************************************************************************)
(* The invariant and what it gives.                                        *)
(***************************************************************************)
LEMMA SchrittErhaelt ==
  ASSUME IInv, NEW s \in Slots, Schritt(s)
  PROVE  IInv'
<1>1. CASE CreateLesen(s)
  BY <1>1, CreateLesenErhaelt
<1>2. CASE CreateSchreiben(s)
  BY <1>2, CreateSchreibenErhaelt
<1>3. CASE AenderungFinden(s)
  BY <1>3, AenderungFindenErhaelt
<1>4. CASE AenderungPruefen(s)
  BY <1>4, AenderungPruefenErhaelt
<1>5. CASE UpdateVorgaenger(s)
  BY <1>5, UpdateVorgaengerErhaelt
<1>6. CASE UpdateSchreiben(s)
  BY <1>6, UpdateSchreibenErhaelt
<1>7. CASE RemoveSchreiben(s)
  BY <1>7, RemoveSchreibenErhaelt
<1>8. CASE FestschreibenFinden(s)
  BY <1>8, FestschreibenFindenErhaelt
<1>9. CASE StornoFinden(s)
  BY <1>9, StornoFindenErhaelt
<1>10. CASE StornoDoppelt(s)
  BY <1>10, StornoDoppeltErhaelt
<1>11. CASE StornoLesen(s)
  BY <1>11, StornoLesenErhaelt
<1>12. CASE StornoSchreiben(s)
  BY <1>12, StornoSchreibenErhaelt
<1>13. CASE StornoAblehnen(s)
  BY <1>13, StornoAblehnenErhaelt
<1>14. CASE FestschreibenSchreiben(s) \/ FestschreibenAlle(s)
  BY <1>14, FestschreibenSchreibenErhaelt
<1>15. QED
  BY <1>1, <1>2, <1>3, <1>4, <1>5, <1>6, <1>7, <1>8, <1>9, <1>10, <1>11, <1>12, <1>13, <1>14
  DEF Schritt

LEMMA AnfangErfuellt == Init => IInv
<1> SUFFICES ASSUME Init PROVE IInv
  OBVIOUS
<1>1. TypeOK
  BY Grundwerte, KassenbuchAssumption DEF Init, TypeOK, Orte
<1>2. TabelleInv
  BY DEF Init, TabelleInv, Eindeutig, Vergeben, OhneLuecke, HatLetzte, StornoSpiegelt
<1>3. \A s \in Slots : ort[s] = "bereit"
  BY DEF Init
<1>4. QED
  BY <1>1, <1>2, <1>3 DEF IInv, Einzeln, Einfuegbar, Stornierbar, Bearbeitbar

\* Every state of the service satisfies the invariant: whatever requests are in
\* flight, what each of them still relies on is true.
THEOREM Induktion ==
  ASSUME Seriell
  PROVE  Spec => []IInv
<1>1. IInv /\ [Next]_vars => IInv'
  BY BeginnErhaelt, SchrittErhaelt, RuheErhaelt DEF Next
<1>2. QED
  BY <1>1, AnfangErfuellt, PTL DEF Spec

\* laufendeNummer stays gap-free and unique (create, update, remove, storno).
THEOREM NummernLueckenlos ==
  ASSUME Seriell
  PROVE  Spec => []Lueckenlos
<1>1. IInv => Lueckenlos
  BY DEF IInv, TabelleInv, Eindeutig, OhneLuecke, Lueckenlos
<1>2. QED
  BY <1>1, Induktion, PTL

\* Every stored balance continues its predecessor's (create, update, storno).
THEOREM SaldenVerkettet ==
  ASSUME Seriell
  PROVE  Spec => []Verkettung
<1>1. IInv => Verkettung
  BY DEF IInv, TabelleInv, Angeschlossen, Verkettung
<1>2. QED
  BY <1>1, Induktion, PTL

\* A counter-entry is fixed, mirrors a fixed earlier entry and is its only one.
THEOREM GegenbuchungSpiegelt ==
  ASSUME Seriell
  PROVE  Spec => []StornoSpiegelt
<1>1. IInv => StornoSpiegelt
  BY DEF IInv, TabelleInv
<1>2. QED
  BY <1>1, Induktion, PTL

\* No row ever stores a negative balance (bestandNach, "Nie negativ").
SaldoNieNegativ == \A z \in zeilen : z.bestandNach >= 0

THEOREM KasseNieUnterNull ==
  ASSUME Seriell
  PROVE  Spec => []SaldoNieNegativ
<1>1. IInv => SaldoNieNegativ
  BY DEF IInv, TabelleInv, Vergeben, SaldoNieNegativ
<1>2. QED
  BY <1>1, Induktion, PTL

\* No step touches a fixed row: an insert takes a fresh id, a change or removal the
\* draft that was found, the conditional UPDATE only drafts.
LEMMA FesteBleiben ==
  ASSUME IInv, [Next]_vars
  PROVE  \A z \in zeilen : z.fest => z \in zeilen'
<1> SUFFICES ASSUME NEW x \in zeilen, x.fest PROVE x \in zeilen'
  OBVIOUS
<1>0. x.id \in 1 .. letzteId /\ letzteId \in Nat
  BY DEF IInv, TypeOK, TabelleInv, Vergeben
<1>1. CASE UNCHANGED zeilen
  BY <1>1
<1>2. ASSUME NEW s \in Slots, FuegeEin(s)
      PROVE  x \in zeilen'
  <2>1. [entitaet[s] EXCEPT !.id = letzteId + 1].id = letzteId + 1
    BY DEF IInv, TypeOK, Zeile
  <2>2. x.id # letzteId + 1
    BY <1>0
  <2>3. QED
    BY <1>2, <2>1, <2>2 DEF FuegeEin, save
<1>3. ASSUME NEW s \in Slots, Bei(s, "update", "schreiben") \/ Bei(s, "remove", "schreiben"),
             save(entitaet[s]) \/ zeilen' = {z \in zeilen : z.id # entitaet[s].id}
      PROVE  x \in zeilen'
  <2>1. PICK z \in zeilen : z.id = entitaet[s].id /\ ~ z.fest
    BY <1>3 DEF IInv, Bearbeitbar, Bei
  <2>2. x.id # entitaet[s].id
    BY <2>1 DEF IInv, TabelleInv, Eindeutig
  <2>3. QED
    BY <1>3, <2>2 DEF save
<1>4. ASSUME NEW s \in Slots, FestschreibenSchreiben(s) \/ FestschreibenAlle(s)
      PROVE  x \in zeilen'
  BY <1>4 DEF FestschreibenSchreiben, FestschreibenAlle, SchreibeFest
<1>5. ASSUME NEW s \in Slots, Beginn(s)
      PROVE  UNCHANGED zeilen
  BY <1>5 DEF Beginn, NimmCreate, NimmAenderung, NimmFestschreiben, NimmStorno, Nimm
<1>6. ASSUME NEW s \in Slots, Schritt(s)
      PROVE  x \in zeilen'
  <2>1. CASE CreateSchreiben(s) \/ StornoSchreiben(s)
    BY <1>1, <1>2, <2>1 DEF CreateSchreiben, StornoSchreiben, Wiederhole, NochNicht
  <2>2. CASE UpdateSchreiben(s)
    BY <1>1, <1>3, <2>2 DEF UpdateSchreiben, Wiederhole, NochNicht
  <2>3. CASE RemoveSchreiben(s)
    BY <1>3, <2>3 DEF RemoveSchreiben
  <2>4. CASE FestschreibenSchreiben(s) \/ FestschreibenAlle(s)
    BY <1>4, <2>4
  <2>5. CASE \/ CreateLesen(s) \/ AenderungFinden(s) \/ AenderungPruefen(s)
             \/ UpdateVorgaenger(s) \/ FestschreibenFinden(s) \/ StornoFinden(s)
             \/ StornoDoppelt(s) \/ StornoLesen(s) \/ StornoAblehnen(s)
    BY <1>1, <2>5 DEF CreateLesen, AenderungFinden, AenderungPruefen, UpdateVorgaenger,
       FestschreibenFinden, StornoFinden, StornoDoppelt, StornoLesen, StornoAblehnen,
       NochNicht
  <2>6. QED
    BY <1>6, <2>1, <2>2, <2>3, <2>4, <2>5 DEF Schritt
<1>7. QED
  BY <1>1, <1>5, <1>6 DEF Next, Tick, vars

\* A fixed row never changes and never disappears, so long as update and remove
\* run alone (with them the run kassenbuch_unveraenderbar shows how it does).
THEOREM FestBleibtFest ==
  ASSUME Seriell
  PROVE  Spec => Unveraenderbar
<1>1. IInv /\ [Next]_vars => [\A z \in zeilen : z.fest => z \in zeilen']_vars
  BY FesteBleiben
<1>2. QED
  BY <1>1, Induktion, PTL DEF Spec, Unveraenderbar
-------------------------------------------------------------------------------
(***************************************************************************)
(* How a step changes the table, for the two results that follow.          *)
(***************************************************************************)
LEMMA TabellenSchritt ==
  ASSUME NEW s \in Slots, Schritt(s)
  PROVE  \/ UNCHANGED zeilen
         \/ Bei(s, "create", "schreiben") /\ FuegeEin(s)
         \/ Bei(s, "storno", "schreiben") /\ FuegeEin(s)
         \/ Bei(s, "update", "schreiben") /\ save(entitaet[s])
         \/ RemoveSchreiben(s) \/ FestschreibenSchreiben(s) \/ FestschreibenAlle(s)
BY DEF Schritt, CreateLesen, CreateSchreiben, AenderungFinden, AenderungPruefen,
   UpdateVorgaenger, UpdateSchreiben, FestschreibenFinden, StornoFinden, StornoDoppelt, StornoLesen, StornoSchreiben,
   StornoAblehnen, Wiederhole, NochNicht

\* z is entitaet[s] with its id: the new last row, which hits no unique index.
NeueLetzte(s, z) ==
  LET e == entitaet[s]
  IN /\ z.id = letzteId + 1 /\ z.nr = e.nr /\ z.datum = e.datum /\ z.typ = e.typ
     /\ z.betrag = e.betrag /\ z.bestandNach = e.bestandNach /\ z.fest = e.fest
     /\ z.stornoVon = e.stornoVon
     /\ zeilen' = zeilen \cup {z}
     /\ \A y \in zeilen : /\ y.nr < z.nr /\ y.id # z.id
                          /\ z.stornoVon # 0 => y.stornoVon # z.stornoVon

LEMMA NeueZeile ==
  ASSUME IInv, NEW s \in Slots, FuegeEin(s), ort[s] = "schreiben",
         auftrag[s].op \in {"create", "storno"}
  PROVE  \E z \in Zeile : NeueLetzte(s, z)
<1> DEFINE e == entitaet[s]
           z == [e EXCEPT !.id = letzteId + 1]
<1>1. e \in Zeile /\ letzteId \in Nat /\ Angeschlossen(e) /\ e.nr >= 1
  BY DEF IInv, TypeOK, Einfuegbar
<1>2. /\ z \in Zeile /\ z.id = letzteId + 1 /\ z.nr = e.nr /\ z.datum = e.datum
      /\ z.typ = e.typ /\ z.betrag = e.betrag /\ z.bestandNach = e.bestandNach
      /\ z.fest = e.fest /\ z.stornoVon = e.stornoVon
  BY <1>1 DEF Zeile
<1>3. ~ Kollidiert(z) /\ save(z)
  BY DEF FuegeEin
<1> HIDE DEF z
<1>4. \A y \in zeilen : y \in Zeile /\ y.nr \in Nat /\ y.nr >= 1 /\ y.id \in 1 .. letzteId
  BY DEF IInv, TypeOK, Zeile, TabelleInv, Vergeben
<1>5. \A y \in zeilen : /\ y.id # z.id /\ y.nr # z.nr
                        /\ z.stornoVon # 0 => y.stornoVon # z.stornoVon
  BY <1>1, <1>2, <1>3, <1>4 DEF Kollidiert
<1>6. \A y \in zeilen : y.nr < z.nr
  <2> SUFFICES ASSUME NEW y \in zeilen, ~ (y.nr < z.nr) PROVE FALSE
    OBVIOUS
  <2>1. z.nr \in 1 .. y.nr
    BY <1>1, <1>2, <1>4 DEF Zeile
  <2>2. QED
    BY <2>1, <1>5 DEF IInv, TabelleInv, OhneLuecke
<1>7. zeilen' = zeilen \cup {z}
  BY <1>3, <1>5 DEF save
<1>8. QED
  BY <1>2, <1>5, <1>6, <1>7 DEF NeueLetzte

\* update and remove meet the last row, a draft, with entitaet[s]'s number.
LetzterEntwurf(s, z) ==
  LET e == entitaet[s]
  IN /\ z.id = e.id /\ z.nr = e.nr /\ z.stornoVon = 0 /\ e.stornoVon = 0
     /\ ~ z.fest /\ ~ e.fest
     /\ \A y \in zeilen : (y.id = e.id <=> y = z) /\ (y # z => y.nr < z.nr)

LEMMA GeaenderteZeile ==
  ASSUME IInv, NEW s \in Slots, ort[s] = "schreiben", auftrag[s].op \in {"update", "remove"}
  PROVE  \E z \in zeilen : LetzterEntwurf(s, z)
<1>1. PICK z \in zeilen : /\ z.id = entitaet[s].id /\ z.nr = entitaet[s].nr
                          /\ z.stornoVon = entitaet[s].stornoVon
                          /\ ~ z.fest /\ ~ entitaet[s].fest /\ IstLetzte(z)
  BY DEF IInv, Bearbeitbar
<1>2. \A y \in zeilen : (y.id = z.id => y = z) /\ (y.nr = z.nr => y = z)
  BY DEF IInv, TabelleInv, Eindeutig
<1>3. \A y \in zeilen : y.nr \in Nat /\ y.nr <= z.nr
  BY <1>1 DEF IInv, TypeOK, Zeile, IstLetzte
<1>4. z.stornoVon = 0
  BY <1>1 DEF IInv, TabelleInv, StornoSpiegelt
<1>5. QED
  BY <1>1, <1>2, <1>3, <1>4 DEF LetzterEntwurf

-------------------------------------------------------------------------------
(***************************************************************************)
(* Booking dates.  When no request names a date in the future, no row is   *)
(* dated after the clock, and then a storno, which never compares dates,   *)
(* cannot be dated before the row it follows.                              *)
(***************************************************************************)
\* The row request s is about to insert is not dated before its predecessors.
Datierbar(s) ==
  ort[s] = "schreiben" /\ auftrag[s].op \in {"create", "storno"} =>
    /\ entitaet[s].datum <= uhr
    /\ \A z \in zeilen : z.nr < entitaet[s].nr => z.datum <= entitaet[s].datum

\* The row request s is about to write back has the date it was found with.
DatumBehalten(s) ==
  ort[s] \in {"pruefen", "vorgaenger", "schreiben"} /\ auftrag[s].op \in {"update", "remove"} =>
    \A z \in zeilen : z.id = entitaet[s].id => z.datum = entitaet[s].datum

DatenInv ==
  /\ Chronologie
  /\ \A z \in zeilen : z.datum <= uhr
  /\ \A s \in Slots : auftrag[s].datum <= uhr /\ Datierbar(s) /\ DatumBehalten(s)

\* The rows after the step are rows of before, by id, number and date.
DatenBleiben ==
  \A w \in zeilen' : \E z \in zeilen : w.id = z.id /\ w.nr = z.nr /\ w.datum = z.datum

LEMMA DatenGehalten ==
  ASSUME DatenInv, DatenBleiben, UNCHANGED uhr
  PROVE  /\ Chronologie' /\ (\A z \in zeilen : z.datum <= uhr)'
         /\ \A t \in Slots :
              ort'[t] = ort[t] /\ auftrag'[t] = auftrag[t] /\ entitaet'[t] = entitaet[t] =>
                Datierbar(t)' /\ DatumBehalten(t)'
<1>1. Chronologie'
  BY DEF DatenInv, Chronologie, DatenBleiben
<1>2. (\A z \in zeilen : z.datum <= uhr)'
  BY DEF DatenInv, DatenBleiben
<1>3. ASSUME NEW t \in Slots, ort'[t] = ort[t], auftrag'[t] = auftrag[t],
             entitaet'[t] = entitaet[t]
      PROVE  Datierbar(t)' /\ DatumBehalten(t)'
  <2>1. Datierbar(t) /\ DatumBehalten(t)
    BY DEF DatenInv
  <2>2. QED
    BY <1>3, <2>1 DEF Datierbar, DatumBehalten, DatenBleiben
<1>4. QED
  BY <1>1, <1>2, <1>3

\* An inserted row is dated after all others, and whoever still has to insert one was
\* computed from a number that is taken now.
LEMMA DatenNachInsert ==
  ASSUME IInv, DatenInv, NEW s \in Slots, ort[s] = "schreiben",
         auftrag[s].op \in {"create", "storno"}, FuegeEin(s)
  PROVE  /\ Chronologie' /\ (\A z \in zeilen : z.datum <= uhr)'
         /\ \A t \in Slots \ {s} :
              ort'[t] = ort[t] /\ auftrag'[t] = auftrag[t] /\ entitaet'[t] = entitaet[t] =>
                Datierbar(t)' /\ DatumBehalten(t)'
<1>1. PICK z \in Zeile : NeueLetzte(s, z)
  BY NeueZeile
<1>2. UNCHANGED uhr
  BY DEF FuegeEin, Antworte
<1>3. \A y \in zeilen : y.datum <= z.datum /\ y.nr < z.nr
  BY <1>1 DEF NeueLetzte, DatenInv, Datierbar
<1>4. z.datum <= uhr
  BY <1>1 DEF NeueLetzte, DatenInv, Datierbar
<1>5. \A y \in zeilen' : y.nr \in Nat /\ y.datum \in Nat
  BY <1>1 DEF NeueLetzte, IInv, TypeOK, Zeile
<1>6. Chronologie'
  BY <1>1, <1>3, <1>5 DEF NeueLetzte, DatenInv, Chronologie
<1>7. (\A y \in zeilen : y.datum <= uhr)'
  BY <1>1, <1>2, <1>4 DEF NeueLetzte, DatenInv
<1>8. ASSUME NEW t \in Slots \ {s}, ort'[t] = ort[t], auftrag'[t] = auftrag[t],
             entitaet'[t] = entitaet[t]
      PROVE  Datierbar(t)' /\ DatumBehalten(t)'
  <2>1. Datierbar(t)'
    <3> SUFFICES ASSUME ort[t] = "schreiben", auftrag[t].op \in {"create", "storno"}
                 PROVE  ~ (z.nr < entitaet[t].nr)
      BY <1>1, <1>2, <1>8 DEF NeueLetzte, DatenInv, Datierbar
    <3>1. Angeschlossen(entitaet[t]) /\ entitaet[t].nr \in Nat /\ z.nr \in Nat /\ z.nr >= 1
      BY <1>1 DEF IInv, Einfuegbar, TypeOK, Zeile, NeueLetzte
    <3>2. QED
      BY <1>3, <3>1 DEF Angeschlossen
  <2>2. DatumBehalten(t)'
    <3>1. auftrag[t].op \in {"update", "remove"} => ort[t] = "bereit"
      BY <1>8 DEF IInv, Einzeln, Fortschreibend
    <3>2. QED
      BY <1>8, <3>1 DEF DatumBehalten
  <2>3. QED
    BY <2>1, <2>2
<1>9. QED
  BY <1>6, <1>7, <1>8

\* The dates of the table, and those of all other requests, after a step.
LEMMA DatenNachSchritt ==
  ASSUME IInv, DatenInv, NEW s \in Slots, Schritt(s)
  PROVE  /\ Chronologie' /\ (\A z \in zeilen : z.datum <= uhr)'
         /\ \A t \in Slots \ {s} : Datierbar(t)' /\ DatumBehalten(t)'
<1>1. UNCHANGED uhr
  BY DEF Schritt, CreateLesen, CreateSchreiben, AenderungFinden, AenderungPruefen,
     UpdateVorgaenger, UpdateSchreiben, RemoveSchreiben, FestschreibenFinden,
     FestschreibenSchreiben, FestschreibenAlle, StornoFinden, StornoDoppelt, StornoLesen,
     StornoSchreiben, StornoAblehnen, Wiederhole, NochNicht, Weiter, Antworte, FuegeEin
<1>2. NurAnfrage(s)
  BY SchrittIstEinzeln DEF IInv
<1>3. CASE ort[s] = "schreiben" /\ auftrag[s].op \in {"create", "storno"} /\ FuegeEin(s)
  BY <1>2, <1>3, DatenNachInsert DEF NurAnfrage
<1>4. CASE DatenBleiben
  BY <1>1, <1>2, <1>4, DatenGehalten DEF NurAnfrage
<1>5. CASE Bei(s, "update", "schreiben") /\ save(entitaet[s])
  <2>1. PICK z \in zeilen : LetzterEntwurf(s, z)
    BY <1>5, GeaenderteZeile DEF Bei
  <2>2. entitaet[s].datum = z.datum
    BY <1>5, <2>1 DEF DatenInv, DatumBehalten, Bei, LetzterEntwurf
  <2>3. DatenBleiben
    BY <1>5, <2>1, <2>2 DEF save, DatenBleiben, LetzterEntwurf
  <2>4. QED
    BY <2>3, <1>4
<1>6. CASE UNCHANGED zeilen \/ RemoveSchreiben(s)
  BY <1>4, <1>6 DEF DatenBleiben, RemoveSchreiben
<1>7. ASSUME NEW Z \in SUBSET zeilen, SchreibeFest(Z)
      PROVE  DatenBleiben
  <2>1. \A z \in zeilen : LET w == [z EXCEPT !.fest = TRUE]
                          IN w.id = z.id /\ w.nr = z.nr /\ w.datum = z.datum
    BY DEF IInv, TypeOK, Zeile
  <2>2. QED
    BY <1>7, <2>1 DEF SchreibeFest, DatenBleiben
<1>8. FestschreibenSchreiben(s) \/ FestschreibenAlle(s) => DatenBleiben
  BY <1>7 DEF FestschreibenSchreiben, FestschreibenAlle
<1>9. QED
  BY <1>3, <1>4, <1>5, <1>6, <1>8, TabellenSchritt DEF Bei

\* What the request itself holds after its step.
LEMMA EigeneDaten ==
  ASSUME IInv, DatenInv, NEW s \in Slots, Schritt(s)
  PROVE  auftrag'[s].datum <= uhr' /\ Datierbar(s)' /\ DatumBehalten(s)'
<1> DEFINE Ziel == /\ auftrag'[s].datum <= uhr' /\ Datierbar(s)' /\ DatumBehalten(s)'
<1>0. TypeOK /\ HatLetzte /\ uhr \in Nat /\ auftrag[s].datum \in Nat /\ auftrag[s].datum <= uhr
  BY DEF IInv, TypeOK, TabelleInv, DatenInv, Auftrag
<1>1. CASE Antworte(s)
  <2>1. ort'[s] = "bereit" /\ auftrag'[s].datum = 0 /\ uhr' = uhr
    BY <1>0, <1>1 DEF TypeOK, Antworte, Ruhe, FuerEintrag
  <2>2. QED
    BY <1>0, <2>1 DEF Datierbar, DatumBehalten
<1>2. ASSUME NEW o, NEW z, Weiter(s, o, z) \/ Wiederhole(s, o, z),
             o \in {"schreiben", "pruefen", "vorgaenger"} =>
               auftrag[s].op \notin {"create", "storno", "update", "remove"}
      PROVE  Ziel
  <2>1. ort'[s] = o /\ auftrag'[s] = auftrag[s] /\ uhr' = uhr
    BY <1>0, <1>2, WeiterSetzt DEF Weiter, Wiederhole
  <2>2. QED
    BY <1>0, <1>2, <2>1 DEF Datierbar, DatumBehalten
<1>3. ASSUME UNCHANGED zeilen, NEW z \in Zeile, Weiter(s, "schreiben", z),
             auftrag[s].op \in {"create", "storno"}, z.nr = loadLetzten.nr + 1,
             z.datum <= uhr, loadLetzten.datum <= z.datum
      PROVE  Ziel
  <2>1. /\ ort'[s] = "schreiben" /\ auftrag'[s] = auftrag[s] /\ entitaet'[s] = z /\ uhr' = uhr
    BY <1>0, <1>3, WeiterSetzt DEF Weiter
  <2>2. ASSUME NEW y \in zeilen PROVE y.datum <= z.datum
    <3>1. loadLetzten \in zeilen /\ y.nr <= loadLetzten.nr
      BY <1>0, LetzteZeile DEF IstLetzte
    <3>2. y.datum <= loadLetzten.datum
      <4>1. CASE y.nr < loadLetzten.nr
        BY <3>1, <4>1 DEF DatenInv, Chronologie
      <4>2. CASE y.nr = loadLetzten.nr
        <5>1. y = loadLetzten
          BY <3>1, <4>2 DEF IInv, TabelleInv, Eindeutig
        <5>2. QED
          BY <3>1, <5>1 DEF IInv, TypeOK, Zeile
      <4>3. y.nr < loadLetzten.nr \/ y.nr = loadLetzten.nr
        <5>1. y \in Zeile /\ loadLetzten \in Zeile
          BY <1>0, <3>1 DEF TypeOK
        <5>2. y.nr \in Nat /\ loadLetzten.nr \in Nat
          BY <5>1 DEF Zeile
        <5>3. QED
          BY <3>1, <5>2
      <4>4. QED
        BY <4>1, <4>2, <4>3
    <3>3. y.datum \in Nat /\ loadLetzten.datum \in Nat /\ z.datum \in Nat
      BY <1>0, <3>1 DEF TypeOK, Zeile
    <3>4. QED
      BY <1>3, <3>2, <3>3
  <2>3. QED
    BY <1>0, <1>3, <2>1, <2>2 DEF Datierbar, DatumBehalten
<1>4. ASSUME UNCHANGED zeilen, NEW z, NEW o, Weiter(s, o, z),
             auftrag[s].op \in {"update", "remove"},
             \A y \in zeilen : y.id = z.id => y.datum = z.datum
      PROVE  Ziel
  <2>1. ort'[s] = o /\ auftrag'[s] = auftrag[s] /\ entitaet'[s] = z /\ uhr' = uhr
    BY <1>0, <1>4, WeiterSetzt DEF Weiter
  <2>2. QED
    BY <1>0, <1>4, <2>1 DEF Datierbar, DatumBehalten
<1> HIDE DEF Ziel
<1>5. CASE CreateLesen(s) /\ ~ Antworte(s)
  <2> DEFINE a == auftrag[s]
             datum == IF a.datum = 0 THEN uhr ELSE a.datum
             z == [id |-> 0, nr |-> loadLetzten.nr + 1, datum |-> datum, typ |-> a.typ,
                   betrag |-> a.betrag,
                   bestandNach |-> berechneKassenbestandNach(loadLetzten.bestandNach, a.typ,
                                                             a.betrag),
                   fest |-> FALSE, stornoVon |-> 0]
  <2>1. Weiter(s, "schreiben", z) /\ UNCHANGED zeilen /\ auftrag[s].op = "create"
          /\ ~ IstRueckdatierung(datum, loadLetzten)
    BY <1>5 DEF CreateLesen, Bei
  <2>2. IInv'
    BY <1>5, CreateLesenErhaelt
  <2>3. z \in Zeile
    BY <1>0, <2>1, <2>2, WeiterSetzt DEF IInv, TypeOK
  <2>4. loadLetzten.datum \in Nat
    BY <1>0, LetzteZeile, Grundwerte DEF TypeOK, Zeile
  <2>5. z.datum <= uhr /\ loadLetzten.datum <= z.datum /\ z.nr = loadLetzten.nr + 1
    BY <1>0, <2>1, <2>4 DEF IstRueckdatierung
  <2> HIDE DEF z
  <2>6. QED
    BY <1>3, <2>1, <2>3, <2>5 DEF Ziel
<1>6. CASE StornoLesen(s) /\ ~ Antworte(s)
  <2> DEFINE e == entitaet[s]
             z == [id |-> 0, nr |-> loadLetzten.nr + 1, datum |-> uhr, typ |-> e.typ,
                   betrag |-> e.betrag,
                   bestandNach |-> berechneKassenbestandNach(loadLetzten.bestandNach, e.typ,
                                                             e.betrag),
                   fest |-> TRUE, stornoVon |-> e.stornoVon]
  <2>1. Weiter(s, "schreiben", z) /\ UNCHANGED zeilen /\ auftrag[s].op = "storno"
    BY <1>6 DEF StornoLesen, Bei
  <2>2. IInv'
    BY <1>6, StornoLesenErhaelt
  <2>3. z \in Zeile
    BY <1>0, <2>1, <2>2, WeiterSetzt DEF IInv, TypeOK
  <2>4. loadLetzten.datum <= uhr
    BY <1>0, LetzteZeile DEF DatenInv, Leer
  <2>5. z.datum = uhr /\ z.nr = loadLetzten.nr + 1
    OBVIOUS
  <2> HIDE DEF z
  <2>6. QED
    BY <1>0, <1>3, <2>1, <2>3, <2>4, <2>5 DEF Ziel
<1>7. CASE AenderungFinden(s) /\ ~ Antworte(s)
  <2>1. PICK z \in Gefunden(s) : Weiter(s, "pruefen", z)
    BY <1>7 DEF AenderungFinden
  <2>2. z \in zeilen /\ UNCHANGED zeilen /\ auftrag[s].op \in {"update", "remove"}
    BY <1>7 DEF Gefunden, AenderungFinden, Bei
  <2>3. \A y \in zeilen : y.id = z.id => y.datum = z.datum
    BY <2>2 DEF IInv, TabelleInv, Eindeutig
  <2>4. QED
    BY <1>4, <2>1, <2>2, <2>3 DEF Ziel
<1>8. CASE (AenderungPruefen(s) \/ UpdateVorgaenger(s)) /\ ~ Antworte(s)
  <2>1. /\ ort[s] \in {"pruefen", "vorgaenger"} /\ auftrag[s].op \in {"update", "remove"}
        /\ UNCHANGED zeilen
    BY <1>8 DEF AenderungPruefen, UpdateVorgaenger, Bei
  <2> DEFINE e == entitaet[s]
             a == auftrag[s]
             w == [e EXCEPT !.typ = a.typ, !.betrag = a.betrag,
                     !.bestandNach = berechneKassenbestandNach(vorgaengerBestand(e.nr), a.typ,
                                                               a.betrag)]
  <2>2. PICK o, z : Weiter(s, o, z) /\ z.id = e.id /\ z.datum = e.datum
    <3>1. e \in Zeile
      BY <1>0 DEF TypeOK
    <3>2. w.id = e.id /\ w.datum = e.datum
      BY <3>1 DEF Zeile
    <3>3. (\E o : Weiter(s, o, e)) \/ Weiter(s, "schreiben", w)
      BY <1>8 DEF AenderungPruefen, UpdateVorgaenger
    <3> HIDE DEF w, e
    <3>4. QED
      BY <3>2, <3>3
  <2>3. \A y \in zeilen : y.id = z.id => y.datum = z.datum
    BY <2>1, <2>2 DEF DatenInv, DatumBehalten
  <2>4. QED
    BY <1>4, <2>1, <2>2, <2>3 DEF Ziel
<1>9. CASE (FestschreibenFinden(s) \/ StornoFinden(s) \/ StornoDoppelt(s)) /\ ~ Antworte(s)
  <2>1. \E z, o : Weiter(s, o, z) /\ (o = "schreiben" => auftrag[s].op = "festschreiben")
                  /\ o \notin {"pruefen", "vorgaenger"}
    BY <1>9 DEF FestschreibenFinden, StornoFinden, StornoDoppelt, Bei
  <2>2. QED
    BY <1>2, <2>1 DEF Ziel
<1>10. CASE (CreateSchreiben(s) \/ UpdateSchreiben(s) \/ StornoSchreiben(s)) /\ ~ Antworte(s)
  <2>1. \E z, o : (Weiter(s, o, z) \/ Wiederhole(s, o, z))
                  /\ o \in {"lesen", "finden", "doppelt", "schonStorniert"}
    BY <1>10 DEF CreateSchreiben, UpdateSchreiben, StornoSchreiben, FuegeEin, NochNicht
  <2>2. QED
    BY <1>2, <2>1 DEF Ziel
<1>11. QED
  BY <1>1, <1>5, <1>6, <1>7, <1>8, <1>9, <1>10 DEF Ziel, Schritt, RemoveSchreiben,
     FestschreibenSchreiben, FestschreibenAlle, StornoAblehnen, NochNicht

LEMMA DatenSchritt ==
  ASSUME IInv, DatenInv, NEW s \in Slots, Schritt(s)
  PROVE  DatenInv'
<1>1. \A t \in Slots \ {s} : auftrag'[t].datum <= uhr'
  BY SchrittIstEinzeln DEF IInv, DatenInv, NurAnfrage, Schritt, CreateLesen, CreateSchreiben,
     AenderungFinden, AenderungPruefen, UpdateVorgaenger, UpdateSchreiben, RemoveSchreiben,
     FestschreibenFinden, FestschreibenSchreiben, FestschreibenAlle, StornoFinden,
     StornoDoppelt, StornoLesen, StornoSchreiben, StornoAblehnen, Wiederhole, NochNicht,
     Weiter, Antworte, FuegeEin
<1>2. QED
  BY <1>1, DatenNachSchritt, EigeneDaten DEF DatenInv

\* A request that begins names no date after the clock.
LEMMA DatenBeginn ==
  ASSUME ~ Vorausdatierung, IInv, DatenInv, NEW s \in Slots, Beginn(s)
  PROVE  DatenInv'
<1>1. uhr \in Nat
  BY DEF IInv, TypeOK
<1>2. PICK a, o : /\ Nimm(s, a, o) /\ a.datum <= uhr /\ o \in {"finden", "lesen", "schreiben"}
                  /\ o = "schreiben" => a.op = "festschreibenAlle"
  <2>1. \A op, id : FuerEintrag(op, id).datum = 0 /\ FuerEintrag(op, id).op = op
    BY DEF FuerEintrag
  <2>2. \A d \in Buchungsdaten : d <= uhr
    BY <1>1 DEF Buchungsdaten
  <2>3. CASE NimmCreate(s)
    BY <2>2, <2>3 DEF NimmCreate
  <2>4. CASE NimmAenderung(s)
    <3>1. \E a : Nimm(s, a, "finden") /\ a.datum = 0
      <4>1. PICK id \in 1 .. letzteId :
              \/ Nimm(s, FuerEintrag("remove", id), "finden")
              \/ \E typ \in Typen, betrag \in Betraege :
                   Nimm(s, [op |-> "update", id |-> id, typ |-> typ, betrag |-> betrag,
                            datum |-> 0], "finden")
        BY <2>4 DEF NimmAenderung
      <4>2. \A typ, betrag : [op |-> "update", id |-> id, typ |-> typ, betrag |-> betrag,
                              datum |-> 0].datum = 0
        OBVIOUS
      <4>3. QED
        BY <2>1, <4>1, <4>2
    <3>2. QED
      BY <1>1, <3>1
  <2>5. CASE NimmFestschreiben(s) \/ NimmStorno(s)
    BY <1>1, <2>1, <2>5 DEF NimmFestschreiben, NimmStorno
  <2>6. QED
    BY <2>3, <2>4, <2>5 DEF Beginn
<1>3. /\ UNCHANGED <<zeilen, uhr, entitaet>> /\ ort'[s] = o /\ auftrag'[s] = a
      /\ \A t \in Slots \ {s} : ort'[t] = ort[t] /\ auftrag'[t] = auftrag[t]
  BY <1>2 DEF Nimm, IInv, TypeOK
<1>4. DatenBleiben
  BY <1>3 DEF DatenBleiben
<1>5. \A t \in Slots \ {s} : Datierbar(t)' /\ DatumBehalten(t)' /\ auftrag'[t].datum <= uhr'
  BY <1>3, <1>4, DatenGehalten DEF DatenInv
<1>6. Datierbar(s)' /\ DatumBehalten(s)' /\ auftrag'[s].datum <= uhr'
  BY <1>2, <1>3 DEF Datierbar, DatumBehalten
<1>7. QED
  BY <1>3, <1>4, <1>5, <1>6, DatenGehalten DEF DatenInv

\* The clock only moves forward.
LEMMA DatenRuhe ==
  ASSUME IInv, DatenInv, Tick \/ UNCHANGED vars
  PROVE  DatenInv'
<1>1. UNCHANGED <<zeilen, ort, auftrag, entitaet>> /\ uhr \in Nat /\ uhr <= uhr' /\ uhr' \in Nat
  BY DEF Tick, vars, IInv, TypeOK
<1>2. \A z \in zeilen : z.datum \in Nat
  BY DEF IInv, TypeOK, Zeile
<1>3. \A t \in Slots : entitaet[t].datum \in Nat /\ auftrag[t].datum \in Nat
  BY DEF IInv, TypeOK, Zeile, Auftrag
<1>4. ASSUME NEW t \in Slots
      PROVE  auftrag'[t].datum <= uhr' /\ Datierbar(t)' /\ DatumBehalten(t)'
  <2>1. auftrag[t].datum <= uhr /\ Datierbar(t) /\ DatumBehalten(t)
    BY DEF DatenInv
  <2>2. QED
    BY <1>1, <1>3, <2>1 DEF Datierbar, DatumBehalten
<1>5. QED
  BY <1>1, <1>2, <1>4 DEF DatenInv, Chronologie

\* Booking dates follow the numbers (create compares them, storno does not), so long as
\* no request names a date in the future; kassenbuch_chronologie shows what happens else.
THEOREM DatenGeordnet ==
  ASSUME Seriell, ~ Vorausdatierung
  PROVE  Spec => []Chronologie
<1>1. Init => DatenInv
  BY DEF Init, DatenInv, Chronologie, Datierbar, DatumBehalten, Ruhe, FuerEintrag
<1>2. IInv /\ DatenInv /\ [Next]_vars => DatenInv'
  BY DatenBeginn, DatenSchritt, DatenRuhe DEF Next
<1>3. DatenInv => Chronologie
  BY DEF DatenInv
<1>4. QED
  BY <1>1, <1>2, <1>3, Induktion, PTL DEF Spec

-------------------------------------------------------------------------------
(***************************************************************************)
(* The table implements the journal: read in the order of its numbers, it  *)
(* changes only as Kassenjournal says.                                     *)
(***************************************************************************)
\* What request s books is an amount a request may name; create books drafts.
Buchbar(s) ==
  /\ ort[s] # "bereit" /\ auftrag[s].op \in {"create", "update"} =>
       auftrag[s].betrag \in Betraege
  /\ ort[s] = "schreiben" /\ auftrag[s].op \in {"create", "update"} =>
       entitaet[s].betrag \in Betraege
  /\ ort[s] = "schreiben" /\ auftrag[s].op = "create" => ~ entitaet[s].fest

BuchInv == \A s \in Slots : Buchbar(s)

LEMMA BuchbarSchritt ==
  ASSUME IInv, BuchInv, NEW s \in Slots, Schritt(s)
  PROVE  BuchInv'
<1>1. NurAnfrage(s)
  BY SchrittIstEinzeln DEF IInv
<1>2. \A t \in Slots \ {s} : Buchbar(t)'
  BY <1>1 DEF BuchInv, Buchbar, NurAnfrage
<1>3. TypeOK /\ ort[s] # "bereit" /\ Buchbar(s)
  BY <1>1 DEF IInv, BuchInv, NurAnfrage
<1>4. CASE Antworte(s)
  BY <1>2, <1>3, <1>4 DEF Antworte, TypeOK, BuchInv, Buchbar
<1>5. ASSUME NEW o, NEW z, Weiter(s, o, z) \/ Wiederhole(s, o, z),
             o = "schreiben" => \/ auftrag[s].op \notin {"create", "update"}
                                \/ z.betrag = auftrag[s].betrag
                                   /\ (auftrag[s].op = "create" => ~ z.fest)
      PROVE  BuchInv'
  <2>1. ort'[s] = o /\ auftrag'[s] = auftrag[s] /\ entitaet'[s] = z
    BY <1>3, <1>5, WeiterSetzt
  <2>2. Buchbar(s)'
    BY <1>3, <1>5, <2>1 DEF Buchbar
  <2>3. QED
    BY <1>2, <2>2 DEF BuchInv
<1>6. CASE CreateLesen(s) /\ ~ Antworte(s)
  <2>1. PICK z : Weiter(s, "schreiben", z) /\ z.betrag = auftrag[s].betrag /\ ~ z.fest
    BY <1>6 DEF CreateLesen
  <2>2. QED
    BY <1>5, <2>1
<1>7. CASE UpdateVorgaenger(s) /\ ~ Antworte(s)
  <2> DEFINE e == entitaet[s]
             a == auftrag[s]
             w == [e EXCEPT !.typ = a.typ, !.betrag = a.betrag,
                     !.bestandNach = berechneKassenbestandNach(vorgaengerBestand(e.nr), a.typ,
                                                               a.betrag)]
  <2>1. Weiter(s, "schreiben", w) /\ a.op = "update"
    BY <1>7 DEF UpdateVorgaenger, Bei
  <2>2. e \in Zeile
    BY <1>3 DEF TypeOK
  <2>3. w.betrag = a.betrag
    BY <2>2 DEF Zeile
  <2> HIDE DEF w
  <2>4. QED
    BY <1>5, <2>1, <2>3
<1>8. CASE ~ Antworte(s) /\ ~ CreateLesen(s) /\ ~ UpdateVorgaenger(s)
  <2>1. \E o, z : /\ Weiter(s, o, z) \/ Wiederhole(s, o, z)
                  /\ o = "schreiben" => auftrag[s].op \notin {"create", "update"}
    BY <1>8 DEF Schritt, CreateSchreiben, AenderungFinden, AenderungPruefen, UpdateSchreiben,
       RemoveSchreiben, FestschreibenFinden, FestschreibenSchreiben, FestschreibenAlle,
       StornoFinden, StornoDoppelt, StornoLesen, StornoSchreiben, StornoAblehnen, FuegeEin,
       NochNicht, Bei
  <2>2. QED
    BY <1>5, <2>1
<1>9. QED
  BY <1>4, <1>6, <1>7, <1>8

LEMMA BuchbarBeginn ==
  ASSUME IInv, BuchInv, NEW s \in Slots, Beginn(s)
  PROVE  BuchInv'
<1>1. PICK a, o : /\ Nimm(s, a, o)
                  /\ o = "schreiben" => a.op = "festschreibenAlle"
                  /\ a.op \in {"create", "update"} => a.betrag \in Betraege
  <2>1. \A op, id : FuerEintrag(op, id).op = op
    BY DEF FuerEintrag
  <2>2. CASE NimmCreate(s)
    BY <2>2 DEF NimmCreate
  <2>3. CASE NimmAenderung(s)
    <3>1. PICK id \in 1 .. letzteId :
            \/ Nimm(s, FuerEintrag("remove", id), "finden")
            \/ \E typ \in Typen, betrag \in Betraege :
                 Nimm(s, [op |-> "update", id |-> id, typ |-> typ, betrag |-> betrag,
                          datum |-> 0], "finden")
      BY <2>3 DEF NimmAenderung
    <3>2. \A typ, betrag : [op |-> "update", id |-> id, typ |-> typ, betrag |-> betrag,
                            datum |-> 0].betrag = betrag
      OBVIOUS
    <3>3. \E a : /\ Nimm(s, a, "finden")
                 /\ a.op \in {"create", "update"} => a.betrag \in Betraege
      <4>1. CASE Nimm(s, FuerEintrag("remove", id), "finden")
        BY <2>1, <4>1
      <4>2. ASSUME NEW typ \in Typen, NEW betrag \in Betraege, NEW a,
                   a = [op |-> "update", id |-> id, typ |-> typ, betrag |-> betrag,
                        datum |-> 0],
                   Nimm(s, a, "finden")
            PROVE  /\ Nimm(s, a, "finden")
                   /\ a.op \in {"create", "update"} => a.betrag \in Betraege
        BY <3>2, <4>2
      <4>3. QED
        BY <3>1, <4>1, <4>2
    <3>4. QED
      BY <3>3
  <2>4. CASE NimmFestschreiben(s) \/ NimmStorno(s)
    BY <2>1, <2>4 DEF NimmFestschreiben, NimmStorno
  <2>5. QED
    BY <2>2, <2>3, <2>4 DEF Beginn
<1>2. /\ UNCHANGED entitaet /\ ort'[s] = o /\ auftrag'[s] = a
      /\ \A t \in Slots \ {s} : ort'[t] = ort[t] /\ auftrag'[t] = auftrag[t]
  BY <1>1 DEF Nimm, IInv, TypeOK
<1>3. QED
  BY <1>1, <1>2 DEF BuchInv, Buchbar

\* A set whose rows carry the numbers 1 .. N, one each, has N rows.
LEMMA Zaehlung ==
  ASSUME NEW T, NEW N \in Nat, \A z \in T : z.nr \in 1 .. N,
         \A y, z \in T : y.nr = z.nr => y = z, \A n \in 1 .. N : \E z \in T : z.nr = n
  PROVE  Cardinality(T) = N
<1> DEFINE f == [n \in 1 .. N |-> CHOOSE z \in T : z.nr = n]
<1>1. \A n \in 1 .. N : f[n] \in T /\ f[n].nr = n
  OBVIOUS
<1>2. f \in Bijection(1 .. N, T)
  <2>1. f \in [1 .. N -> T]
    BY <1>1
  <2>2. \A z \in T : f[z.nr] = z
    BY <1>1
  <2>3. f \in Injection(1 .. N, T)
    BY <1>1, <2>1 DEF Injection, IsInjective
  <2>4. f \in Surjection(1 .. N, T)
    BY <2>1, <2>2 DEF Surjection
  <2>5. QED
    BY <2>3, <2>4 DEF Bijection
<1>3. ExistsBijection(1 .. N, T)
  BY <1>2 DEF ExistsBijection
<1>4. IsFiniteSet(1 .. N) /\ Cardinality(1 .. N) = N
  BY FS_Interval
<1>5. QED
  BY <1>3, <1>4, FS_Bijection

\* The number of the entry that z reverses, 0 for an ordinary entry.
StornoNr(z) == IF z.stornoVon = 0 THEN 0 ELSE NrVonId(z.stornoVon)

Eintrag(z) ==
  [typ |-> z.typ, betrag |-> z.betrag, saldo |-> z.bestandNach, fest |-> z.fest,
   storno |-> StornoNr(z)]

\* The journal has one entry for each row, at the row's number.
Anzahl == Cardinality(zeilen)

Lesbar ==
  /\ Anzahl \in Nat
  /\ \A z \in zeilen : /\ z.nr \in 1 .. Anzahl /\ JournalDerZeilen[z.nr] = Eintrag(z)
                       /\ NrVonId(z.id) = z.nr
  /\ \A n \in 1 .. Anzahl : \E z \in zeilen : z.nr = n

LEMMA JournalLesbar == TypeOK /\ TabelleInv => Lesbar
<1> SUFFICES ASSUME TypeOK, TabelleInv PROVE Lesbar
  OBVIOUS
<1>1. \A z \in zeilen : z.nr \in Nat /\ z.nr >= 1
  BY DEF TypeOK, Zeile, TabelleInv, Vergeben
<1>2. \A y, z \in zeilen : (y.nr = z.nr => y = z) /\ (y.id = z.id => y = z)
  BY DEF TabelleInv, Eindeutig
<1>3. PICK N \in Nat : /\ \A z \in zeilen : z.nr \in 1 .. N
                       /\ \A n \in 1 .. N : \E z \in zeilen : z.nr = n
  <2>1. CASE zeilen = {}
    BY <2>1
  <2>2. CASE zeilen # {}
    <3>1. PICK z \in zeilen : IstLetzte(z)
      BY <2>2 DEF TabelleInv, HatLetzte
    <3>2. QED
      BY <1>1, <3>1 DEF IstLetzte, TabelleInv, OhneLuecke
  <2>3. QED
    BY <2>1, <2>2
<1>4. Anzahl = N
  BY <1>2, <1>3, Zaehlung DEF Anzahl
<1>5. ASSUME NEW z \in zeilen
      PROVE  JournalDerZeilen[z.nr] = Eintrag(z) /\ NrVonId(z.id) = z.nr
  <2>1. Nr(z.nr) = z
    BY <1>2 DEF Nr
  <2>2. NrVonId(z.id) = z.nr
    BY <1>2 DEF NrVonId
  <2>3. z.nr \in 1 .. N
    BY <1>3
  <2>4. QED
    BY <1>4, <2>1, <2>2, <2>3 DEF JournalDerZeilen, Eintrag, StornoNr, Anzahl
<1>6. QED
  BY <1>3, <1>4, <1>5 DEF Lesbar

LEMMA JournalLesbarDanach == TypeOK' /\ TabelleInv' => Lesbar'
BY JournalLesbar, PTL

\* What a counter-entry points to does not move: its original is fixed.
LEMMA VerweisBleibt ==
  ASSUME IInv, IInv', \A z \in zeilen : z.fest => z \in zeilen', NEW y \in zeilen, NEW w,
         w.stornoVon = y.stornoVon
  PROVE  StornoNr(w)' = StornoNr(y)
<1>1. CASE y.stornoVon = 0
  BY <1>1 DEF StornoNr
<1>2. CASE y.stornoVon # 0
  <2>1. PICK o \in zeilen : o.id = y.stornoVon /\ o.fest
    BY <1>2 DEF IInv, TabelleInv, StornoSpiegelt
  <2>2. Lesbar /\ Lesbar'
    BY JournalLesbar, JournalLesbarDanach DEF IInv
  <2>3. NrVonId(o.id) = o.nr
    BY <2>2 DEF Lesbar
  <2>4. NrVonId(o.id)' = o.nr
    BY <2>1, <2>2 DEF Lesbar
  <2>5. QED
    BY <1>2, <2>1, <2>3, <2>4 DEF StornoNr
<1>3. QED
  BY <1>1, <1>2

\* The entry of a row that stays as it is stays as it is.
LEMMA EintragBleibt ==
  ASSUME IInv, IInv', \A z \in zeilen : z.fest => z \in zeilen', NEW y \in zeilen, y \in zeilen'
  PROVE  /\ y.nr \in DOMAIN JournalDerZeilen /\ y.nr \in DOMAIN JournalDerZeilen'
         /\ JournalDerZeilen'[y.nr] = JournalDerZeilen[y.nr]
<1>1. Lesbar /\ Lesbar'
  BY JournalLesbar, JournalLesbarDanach DEF IInv
<1>2. JournalDerZeilen[y.nr] = Eintrag(y) /\ JournalDerZeilen'[y.nr] = Eintrag(y)'
  BY <1>1 DEF Lesbar
<1>3. StornoNr(y)' = StornoNr(y)
  BY VerweisBleibt
<1>4. y.nr \in DOMAIN JournalDerZeilen /\ y.nr \in DOMAIN JournalDerZeilen'
  BY <1>1 DEF Lesbar, JournalDerZeilen, Anzahl
<1>5. QED
  BY <1>2, <1>3, <1>4 DEF Eintrag

\* Kassenjournal's arithmetic is that of the cash book.
LEMMA JRegeln ==
  /\ J!Typen = Typen
  /\ \A v, typ, betrag :
       /\ J!berechneKassenbestandNach(v, typ, betrag) = berechneKassenbestandNach(v, typ, betrag)
       /\ J!wuerdeBestandNegativ(v, typ, betrag) = wuerdeBestandNegativ(v, typ, betrag)
       /\ J!gegenTyp(typ) = gegenTyp(typ)
BY DEF J!Typen, J!berechneKassenbestandNach, J!vorzeichen, J!wuerdeBestandNegativ, J!gegenTyp,
   Typen, berechneKassenbestandNach, wuerdeBestandNegativ, vorzeichen, gegenTyp

LEMMA IstFolge ==
  ASSUME NEW N \in Nat, NEW S, NEW f \in [1 .. N -> S]
  PROVE  f \in Seq(S) /\ Len(f) = N
OBVIOUS

\* f followed by e, and f without its last element.
LEMMA Angehaengt ==
  ASSUME NEW N \in Nat, NEW f, NEW g, NEW e, f = [n \in 1 .. N |-> f[n]],
         g = [n \in 1 .. N + 1 |-> g[n]], \A n \in 1 .. N : g[n] = f[n], g[N + 1] = e
  PROVE  Len(f) = N /\ g = Append(f, e)
<1> DEFINE S == {f[n] : n \in 1 .. N} \cup {e}
<1>1. f \in [1 .. N -> S]
  OBVIOUS
<1> HIDE DEF S
<1>2. f \in Seq(S) /\ Len(f) = N
  BY <1>1, IstFolge
<1>3. e \in S
  BY DEF S
<1>4. /\ Append(f, e) \in Seq(S) /\ Len(Append(f, e)) = N + 1
      /\ \A n \in 1 .. N : Append(f, e)[n] = f[n]
      /\ Append(f, e)[N + 1] = e
  BY <1>2, <1>3
<1>5. Append(f, e) = [n \in 1 .. N + 1 |-> Append(f, e)[n]]
  BY <1>4
<1>6. \A n \in 1 .. N + 1 : n \in 1 .. N \/ n = N + 1
  OBVIOUS
<1>7. \A n \in 1 .. N + 1 : g[n] = Append(f, e)[n]
  BY <1>4, <1>6
<1>8. QED
  BY <1>2, <1>5, <1>7

LEMMA Gekuerzt ==
  ASSUME NEW N \in Nat, N # 0, NEW f, NEW g, f = [n \in 1 .. N |-> f[n]],
         g = [n \in 1 .. N - 1 |-> g[n]], \A n \in 1 .. N - 1 : g[n] = f[n]
  PROVE  Len(f) = N /\ g = SubSeq(f, 1, N - 1)
<1> DEFINE S == {f[n] : n \in 1 .. N}
<1>1. f \in [1 .. N -> S]
  OBVIOUS
<1> HIDE DEF S
<1>2. f \in Seq(S) /\ Len(f) = N
  BY <1>1, IstFolge
<1>3. SubSeq(f, 1, N - 1) = [n \in 1 .. N - 1 |-> f[n]]
  BY <1>2
<1>4. QED
  BY <1>2, <1>3

\* The journal is a sequence of the rows, with a length.
LEMMA JournalForm ==
  ASSUME IInv
  PROVE  /\ Anzahl \in Nat
         /\ JournalDerZeilen = [n \in 1 .. Anzahl |-> JournalDerZeilen[n]]
         /\ DOMAIN JournalDerZeilen = 1 .. Anzahl
BY JournalLesbar DEF IInv, Lesbar, JournalDerZeilen, Anzahl

LEMMA JournalFormDanach ==
  IInv' => /\ Anzahl' \in Nat
           /\ JournalDerZeilen' = [n \in 1 .. Anzahl' |-> JournalDerZeilen'[n]]
           /\ DOMAIN JournalDerZeilen' = 1 .. Anzahl'
BY JournalLesbarDanach DEF IInv, Lesbar, JournalDerZeilen, Anzahl

\* The balance that a row continues is that of the journal before its number.
LEMMA SaldoDavor ==
  ASSUME IInv, NEW e \in Zeile, e.nr >= 1, Angeschlossen(e)
  PROVE  e.bestandNach = berechneKassenbestandNach(J!SaldoBis(e.nr - 1), e.typ, e.betrag)
<1>1. Lesbar
  BY JournalLesbar DEF IInv
<1>2. CASE e.nr = 1 /\ e.bestandNach = berechneKassenbestandNach(0, e.typ, e.betrag)
  BY <1>2 DEF J!SaldoBis
<1>3. ASSUME NEW y \in zeilen, y.nr = e.nr - 1,
             e.bestandNach = berechneKassenbestandNach(y.bestandNach, e.typ, e.betrag)
      PROVE  e.bestandNach = berechneKassenbestandNach(J!SaldoBis(e.nr - 1), e.typ, e.betrag)
  <2>1. y.nr # 0
    BY <1>1 DEF Lesbar
  <2>2. JournalDerZeilen[y.nr].saldo = y.bestandNach
    <3>1. JournalDerZeilen[y.nr] = Eintrag(y)
      BY <1>1 DEF Lesbar
    <3>2. QED
      BY <3>1 DEF Eintrag
  <2>3. QED
    BY <1>3, <2>1, <2>2 DEF J!SaldoBis
<1>4. QED
  BY <1>2, <1>3 DEF Angeschlossen

\* An inserted row is a booking at the end of the journal.
LEMMA InsertBucht ==
  ASSUME IInv, IInv', \A z \in zeilen : z.fest => z \in zeilen', NEW s \in Slots,
         ort[s] = "schreiben", auftrag[s].op \in {"create", "storno"},
         NEW z \in Zeile, NeueLetzte(s, z)
  PROVE  J!Buche(z.typ, z.betrag, z.fest, StornoNr(z)')
<1> DEFINE N == Anzahl
           M == Anzahl'
<1>1. Lesbar /\ Lesbar' /\ N \in Nat /\ M \in Nat
  BY JournalLesbar, JournalLesbarDanach DEF IInv, Lesbar
<1>2. z \in zeilen' /\ z.nr \in 1 .. M /\ Angeschlossen(z) /\ z.bestandNach >= 0
  <2>1. Angeschlossen(entitaet[s]) /\ entitaet[s].bestandNach >= 0
    BY DEF IInv, Einfuegbar
  <2>2. z \in zeilen'
    BY DEF NeueLetzte
  <2>3. QED
    BY <1>1, <2>1, <2>2 DEF NeueLetzte, Angeschlossen, Lesbar
<1>3. z.nr = N + 1
  <2>1. \A n \in 1 .. N : n < z.nr
    BY <1>1 DEF Lesbar, NeueLetzte
  <2>2. z.nr <= N + 1
    BY <1>1, <1>2 DEF Lesbar, Angeschlossen
  <2>3. QED
    BY <1>1, <1>2, <2>1, <2>2
<1>4. M = N + 1
  <2>1. \A w \in zeilen' : w.nr = z.nr \/ w.nr < z.nr
    BY DEF NeueLetzte
  <2>2. \E w \in zeilen' : w.nr = M
    BY <1>1, <1>2 DEF Lesbar
  <2>3. QED
    BY <1>1, <1>2, <1>3, <2>1, <2>2
<1>5. \A n \in 1 .. N : JournalDerZeilen'[n] = JournalDerZeilen[n]
  <2> SUFFICES ASSUME NEW n \in 1 .. N PROVE JournalDerZeilen'[n] = JournalDerZeilen[n]
    OBVIOUS
  <2>1. PICK y \in zeilen : y.nr = n
    BY <1>1 DEF Lesbar
  <2>2. y \in zeilen'
    BY DEF NeueLetzte
  <2>3. QED
    BY <2>1, <2>2, EintragBleibt
<1>6. JournalDerZeilen'[N + 1] = Eintrag(z)'
  BY <1>1, <1>2, <1>3 DEF Lesbar
<1>7. Len(JournalDerZeilen) = N /\ JournalDerZeilen' = Append(JournalDerZeilen, Eintrag(z)')
  <2>1. JournalDerZeilen' = [n \in 1 .. N + 1 |-> JournalDerZeilen'[n]]
    BY <1>4, JournalFormDanach
  <2>2. JournalDerZeilen = [n \in 1 .. N |-> JournalDerZeilen[n]]
    BY JournalForm
  <2> HIDE DEF N
  <2>3. QED
    BY <1>1, <1>5, <1>6, <2>1, <2>2, Angehaengt
<1>8. z.bestandNach = berechneKassenbestandNach(J!SaldoBis(N), z.typ, z.betrag)
  <2>1. z.nr >= 1 /\ z.nr - 1 = N
    BY <1>1, <1>3
  <2>2. QED
    BY <1>2, <2>1, SaldoDavor
<1>9. ~ wuerdeBestandNegativ(J!SaldoBis(N), z.typ, z.betrag)
  <2>1. z.bestandNach \in Int
    BY DEF Zeile
  <2>2. QED
    BY <1>2, <1>8, <2>1 DEF wuerdeBestandNegativ
<1>10. QED
  BY <1>7, <1>8, <1>9, JRegeln DEF J!Buche, Eintrag

LEMMA CreateLegtAn ==
  ASSUME IInv, IInv', BuchInv, \A z \in zeilen : z.fest => z \in zeilen', NEW s \in Slots,
         Bei(s, "create", "schreiben"), FuegeEin(s)
  PROVE  J!JNext
<1>1. ort[s] = "schreiben" /\ auftrag[s].op = "create"
  BY DEF Bei
<1>2. PICK z \in Zeile : NeueLetzte(s, z)
  BY <1>1, NeueZeile
<1>3. z.typ \in Typen /\ z.betrag \in Betraege /\ z.fest = FALSE /\ z.stornoVon = 0
  BY <1>1, <1>2 DEF NeueLetzte, BuchInv, Buchbar, IInv, Einfuegbar, Zeile
<1>4. StornoNr(z)' = 0
  BY <1>3 DEF StornoNr
<1>5. J!Buche(z.typ, z.betrag, FALSE, 0)
  BY <1>1, <1>2, <1>3, <1>4, InsertBucht
<1>6. QED
  BY <1>3, <1>5, JRegeln DEF J!JNext, J!Anlegen

LEMMA StornoStorniert ==
  ASSUME IInv, IInv', \A z \in zeilen : z.fest => z \in zeilen', NEW s \in Slots,
         Bei(s, "storno", "schreiben"), FuegeEin(s)
  PROVE  J!JNext
<1>1. ort[s] = "schreiben" /\ auftrag[s].op = "storno"
  BY DEF Bei
<1>2. PICK z \in Zeile : NeueLetzte(s, z)
  BY <1>1, NeueZeile
<1>3. PICK o \in zeilen : Original(o, z) /\ z.fest /\ z.stornoVon # 0
  BY <1>1, <1>2 DEF IInv, Stornierbar, NeueLetzte, Original
<1>4. Lesbar /\ Lesbar'
  BY JournalLesbar, JournalLesbarDanach DEF IInv
<1>5. o \in zeilen' /\ o.nr \in DOMAIN JournalDerZeilen /\ o.nr # 0
  <2>1. o.nr \in 1 .. Anzahl /\ Anzahl \in Nat
    BY <1>4 DEF Lesbar
  <2>2. QED
    BY <1>2, <2>1, JournalForm DEF NeueLetzte
<1>6. StornoNr(z)' = o.nr
  BY <1>3, <1>4, <1>5 DEF StornoNr, Original, Lesbar
<1>7. /\ JournalDerZeilen[o.nr].fest /\ JournalDerZeilen[o.nr].storno = 0
      /\ JournalDerZeilen[o.nr].typ = o.typ /\ JournalDerZeilen[o.nr].betrag = o.betrag
  <2>1. JournalDerZeilen[o.nr] = Eintrag(o)
    BY <1>4 DEF Lesbar
  <2>2. o.fest /\ StornoNr(o) = 0
    BY <1>3 DEF Original, StornoNr
  <2>3. QED
    BY <2>1, <2>2 DEF Eintrag
<1>8. \A k \in DOMAIN JournalDerZeilen : JournalDerZeilen[k].storno # o.nr
  <2> SUFFICES ASSUME NEW k \in DOMAIN JournalDerZeilen,
                      JournalDerZeilen[k].storno = o.nr
               PROVE  FALSE
    OBVIOUS
  <2>1. PICK y \in zeilen : y.nr = k
    BY <1>4, JournalForm DEF Lesbar
  <2>2. StornoNr(y) = o.nr
    <3>1. JournalDerZeilen[k] = Eintrag(y)
      BY <1>4, <2>1 DEF Lesbar
    <3>2. QED
      BY <3>1 DEF Eintrag
  <2>3. y.stornoVon # 0 /\ NrVonId(y.stornoVon) = o.nr
    BY <1>5, <2>2 DEF StornoNr
  <2>4. PICK x \in zeilen : x.id = y.stornoVon
    BY <2>3 DEF IInv, TabelleInv, StornoSpiegelt
  <2>5. x.nr = o.nr
    BY <1>4, <2>3, <2>4 DEF Lesbar
  <2>6. x = o
    BY <2>5 DEF IInv, TabelleInv, Eindeutig
  <2>7. QED
    BY <1>2, <1>3, <2>4, <2>6 DEF NeueLetzte, Original
<1>9. z.fest = TRUE /\ z.typ = gegenTyp(o.typ) /\ z.betrag = o.betrag
  BY <1>3 DEF Original, Zeile
<1>10. J!Buche(gegenTyp(o.typ), o.betrag, TRUE, o.nr)
  BY <1>1, <1>2, <1>6, <1>9, InsertBucht
<1>11. J!Storniere(o.nr)
  <2> DEFINE j == JournalDerZeilen[o.nr]
  <2>1. J!gegenTyp(j.typ) = gegenTyp(o.typ) /\ j.betrag = o.betrag
    BY <1>7, JRegeln
  <2>2. J!Buche(J!gegenTyp(j.typ), j.betrag, TRUE, o.nr)
    BY <1>10, <2>1, Zenon
  <2>3. QED
    BY <1>7, <1>8, <2>2 DEF J!Storniere
<1>12. QED
  BY <1>5, <1>11 DEF J!JNext

LEMMA Ersetzt ==
  ASSUME NEW N \in Nat, NEW f, NEW g, NEW r, N # 0, f = [n \in 1 .. N |-> f[n]],
         g = [n \in 1 .. N |-> g[n]], \A n \in 1 .. N : n # N => g[n] = f[n], g[N] = r
  PROVE  g = [f EXCEPT ![N] = r]
OBVIOUS

LEMMA EintragErsetzt ==
  ASSUME NEW t, NEW m, NEW v, NEW u, NEW n, NEW w, NEW fest, NEW storno, NEW j,
         j = [typ |-> t, betrag |-> m, saldo |-> v, fest |-> fest, storno |-> storno]
  PROVE  [typ |-> u, betrag |-> n, saldo |-> w, fest |-> fest, storno |-> storno]
           = [j EXCEPT !.typ = u, !.betrag = n, !.saldo = w]
<1> DEFINE T == {t, m, v, u, n, w, fest, storno}
           R == [typ : T, betrag : T, saldo : T, fest : T, storno : T]
<1>1. j \in R /\ u \in T /\ n \in T /\ w \in T /\ j.fest = fest /\ j.storno = storno
  OBVIOUS
<1> HIDE DEF T
<1>2. PICK q : q = [j EXCEPT !.typ = u, !.betrag = n, !.saldo = w]
  OBVIOUS
<1>3. q \in R
  BY <1>1, <1>2
<1>4. q.typ = u /\ q.betrag = n /\ q.saldo = w /\ q.fest = fest /\ q.storno = storno
  BY <1>1, <1>2
<1>5. q = [typ |-> u, betrag |-> n, saldo |-> w, fest |-> fest, storno |-> storno]
  BY <1>3, <1>4
<1>6. QED
  BY <1>2, <1>5

\* The last draft has the highest number.
LEMMA EntwurfIstLetzter ==
  ASSUME IInv, NEW s \in Slots, NEW z \in zeilen, LetzterEntwurf(s, z)
  PROVE  /\ z.nr = Anzahl /\ Anzahl \in Nat /\ Anzahl # 0
         /\ \A y \in zeilen : y # z => y.nr # Anzahl
<1>1. Lesbar
  BY JournalLesbar DEF IInv
<1>2. z.nr \in 1 .. Anzahl /\ Anzahl \in Nat
  BY <1>1 DEF Lesbar
<1>3. \E y \in zeilen : y.nr = Anzahl
  BY <1>1, <1>2 DEF Lesbar
<1>4. \A y \in zeilen : y = z \/ y.nr < z.nr
  BY DEF LetzterEntwurf
<1>5. z.nr = Anzahl
  BY <1>2, <1>3, <1>4
<1>6. QED
  BY <1>2, <1>4, <1>5

LEMMA UpdateAendertLetzte ==
  ASSUME IInv, IInv', BuchInv, \A z \in zeilen : z.fest => z \in zeilen', NEW s \in Slots,
         Bei(s, "update", "schreiben"), save(entitaet[s])
  PROVE  J!JNext
<1> DEFINE N == Anzahl
<1>0. PICK e \in Zeile : e = entitaet[s]
  BY DEF IInv, TypeOK
<1>1. ort[s] = "schreiben" /\ auftrag[s].op = "update"
  BY DEF Bei
<1>2. PICK z \in zeilen : LetzterEntwurf(s, z)
  BY <1>1, GeaenderteZeile
<1>3. /\ e.typ \in Typen /\ e.betrag \in Betraege /\ e.bestandNach \in Int
      /\ e.bestandNach >= 0 /\ Angeschlossen(e) /\ e.fest = FALSE
  <2>1. e.betrag \in Betraege
    BY <1>0, <1>1 DEF BuchInv, Buchbar
  <2>2. e.bestandNach >= 0 /\ Angeschlossen(e) /\ ~ e.fest
    BY <1>0, <1>1 DEF IInv, Bearbeitbar
  <2>3. QED
    BY <2>1, <2>2 DEF Zeile
<1>4. Lesbar /\ Lesbar'
  BY JournalLesbar, JournalLesbarDanach DEF IInv
<1>5. z.nr = N /\ e.nr = N /\ N \in Nat /\ N # 0 /\ \A y \in zeilen : y # z => y.nr # N
  BY <1>0, <1>2, EntwurfIstLetzter DEF LetzterEntwurf
<1>6. e \in zeilen' /\ \A w \in zeilen' : w = e \/ (w \in zeilen /\ w # z)
  BY <1>0, <1>2 DEF save, LetzterEntwurf
<1>7. \A y \in zeilen : y # z => y \in zeilen'
  BY <1>0, <1>2 DEF save, LetzterEntwurf
<1>8. Anzahl' = N
  <2>1. e.nr \in 1 .. Anzahl' /\ Anzahl' \in Nat
    BY <1>4, <1>6 DEF Lesbar
  <2>2. \E w \in zeilen' : w.nr = Anzahl'
    BY <1>4, <2>1 DEF Lesbar
  <2>3. \A w \in zeilen' : w.nr <= N
    BY <1>4, <1>5, <1>6 DEF Lesbar
  <2>4. QED
    BY <1>5, <2>1, <2>2, <2>3
<1>9. JournalDerZeilen[N] = Eintrag(z) /\ JournalDerZeilen'[N] = Eintrag(e)'
  BY <1>4, <1>5, <1>6 DEF Lesbar
<1>10. StornoNr(z) = 0 /\ StornoNr(e)' = 0 /\ z.fest = FALSE
  <2>1. z.fest = FALSE /\ z.stornoVon = 0 /\ e.stornoVon = z.stornoVon
    <3>1. z \in Zeile
      BY DEF IInv, TypeOK
    <3>2. QED
      BY <1>0, <1>2, <3>1 DEF LetzterEntwurf, Zeile
  <2>2. StornoNr(e)' = StornoNr(z)
    BY <2>1, VerweisBleibt
  <2>3. QED
    BY <2>1, <2>2 DEF StornoNr
<1>11. \A n \in 1 .. N : n # N => JournalDerZeilen'[n] = JournalDerZeilen[n]
  <2> SUFFICES ASSUME NEW n \in 1 .. N, n # N PROVE JournalDerZeilen'[n] = JournalDerZeilen[n]
    OBVIOUS
  <2>1. PICK y \in zeilen : y.nr = n
    BY <1>4 DEF Lesbar
  <2>2. y \in zeilen'
    BY <1>5, <1>7, <2>1
  <2>3. QED
    BY <2>1, <2>2, EintragBleibt
<1>12. e.bestandNach = berechneKassenbestandNach(J!SaldoBis(N - 1), e.typ, e.betrag)
  BY <1>3, <1>5, SaldoDavor
<1>13. ~ wuerdeBestandNegativ(J!SaldoBis(N - 1), e.typ, e.betrag)
  BY <1>3, <1>12 DEF wuerdeBestandNegativ
<1> DEFINE f == JournalDerZeilen
<1>14. f = [n \in 1 .. N |-> f[n]] /\ f' = [n \in 1 .. N |-> f'[n]] /\ Len(f) = N
  <2>1. f = [n \in 1 .. N |-> f[n]] /\ f' = [n \in 1 .. N |-> f'[n]]
    BY <1>8, JournalForm, JournalFormDanach
  <2> HIDE DEF f, N
  <2>2. Len(f) = N
    BY <1>5, <2>1
  <2>3. QED
    BY <2>1, <2>2
<1>15. f' = [f EXCEPT ![N] = [@ EXCEPT !.typ = e.typ, !.betrag = e.betrag,
               !.saldo = berechneKassenbestandNach(J!SaldoBis(N - 1), e.typ, e.betrag)]]
  <2> DEFINE b == berechneKassenbestandNach(J!SaldoBis(N - 1), e.typ, e.betrag)
  <2>1. f'[N] = [typ |-> e.typ, betrag |-> e.betrag, saldo |-> b, fest |-> FALSE, storno |-> 0]
    BY <1>3, <1>9, <1>10, <1>12 DEF Eintrag
  <2>2. f[N] = [typ |-> z.typ, betrag |-> z.betrag, saldo |-> z.bestandNach, fest |-> FALSE,
                storno |-> 0]
    BY <1>9, <1>10 DEF Eintrag
  <2> HIDE DEF b, f, N
  <2>3. PICK j : j = f[N]
    OBVIOUS
  <2>4. j = [typ |-> z.typ, betrag |-> z.betrag, saldo |-> z.bestandNach, fest |-> FALSE,
             storno |-> 0]
    BY <2>2, <2>3, Zenon
  <2>5. PICK r : r = [j EXCEPT !.typ = e.typ, !.betrag = e.betrag, !.saldo = b]
    OBVIOUS
  <2>6. [typ |-> e.typ, betrag |-> e.betrag, saldo |-> b, fest |-> FALSE, storno |-> 0] = r
    BY <2>4, <2>5, EintragErsetzt, Zenon
  <2>7. f' = [f EXCEPT ![N] = r]
    <3>1. f'[N] = r
      BY <2>1, <2>6, Zenon
    <3>2. QED
      BY <1>5, <1>11, <1>14, <3>1, Ersetzt DEF f
  <2>8. QED
    BY <2>3, <2>5, <2>7 DEF b
<1>16. N > 0 /\ ~ f[N].fest
  BY <1>5, <1>9, <1>10 DEF Eintrag
<1>17. J!AendereLetzte
  <2> HIDE DEF f, N
  <2>1. QED
    BY <1>3, <1>13, <1>14, <1>15, <1>16, JRegeln DEF J!AendereLetzte, f
<1>18. QED
  BY <1>17 DEF J!JNext

LEMMA RemoveEntferntLetzte ==
  ASSUME IInv, IInv', \A z \in zeilen : z.fest => z \in zeilen', NEW s \in Slots,
         RemoveSchreiben(s)
  PROVE  J!JNext
<1> DEFINE N == Anzahl
           f == JournalDerZeilen
<1>1. ort[s] = "schreiben" /\ auftrag[s].op = "remove"
        /\ zeilen' = {z \in zeilen : z.id # entitaet[s].id}
  BY DEF RemoveSchreiben, Bei
<1>2. PICK z \in zeilen : LetzterEntwurf(s, z)
  BY <1>1, GeaenderteZeile
<1>3. Lesbar /\ Lesbar'
  BY JournalLesbar, JournalLesbarDanach DEF IInv
<1>4. z.nr = N /\ N \in Nat /\ N # 0 /\ \A y \in zeilen : y # z => y.nr # N
  BY <1>2, EntwurfIstLetzter
<1>5. zeilen' = zeilen \ {z}
  BY <1>1, <1>2 DEF LetzterEntwurf
<1>6. Anzahl' = N - 1
  <2>1. \A w \in zeilen' : w.nr \in 1 .. N - 1
    BY <1>3, <1>4, <1>5 DEF Lesbar
  <2>2. \A n \in 1 .. N - 1 : \E w \in zeilen' : w.nr = n
    <3> SUFFICES ASSUME NEW n \in 1 .. N - 1 PROVE \E w \in zeilen' : w.nr = n
      OBVIOUS
    <3>1. n \in 1 .. N /\ n # N
      BY <1>4
    <3>2. QED
      BY <1>3, <1>4, <1>5, <3>1 DEF Lesbar
  <2>3. \A y, w \in zeilen' : y.nr = w.nr => y = w
    BY DEF IInv, TabelleInv, Eindeutig
  <2>4. N - 1 \in Nat
    BY <1>4
  <2> HIDE DEF N
  <2>5. Cardinality(zeilen') = N - 1
    BY <2>1, <2>2, <2>3, <2>4, Zaehlung
  <2>6. QED
    BY <2>5 DEF Anzahl
<1>7. \A n \in 1 .. N - 1 : f'[n] = f[n]
  <2> SUFFICES ASSUME NEW n \in 1 .. N - 1 PROVE f'[n] = f[n]
    OBVIOUS
  <2>1. n \in 1 .. N /\ n # N
    BY <1>4
  <2>2. PICK y \in zeilen : y.nr = n
    BY <1>3, <2>1 DEF Lesbar
  <2>3. y \in zeilen'
    BY <1>4, <1>5, <2>1, <2>2
  <2>4. QED
    BY <2>2, <2>3, EintragBleibt
<1>8. f = [n \in 1 .. N |-> f[n]] /\ f' = [n \in 1 .. N - 1 |-> f'[n]]
  BY <1>6, JournalForm, JournalFormDanach
<1>9. ~ f[N].fest
  <2>1. f[N] = Eintrag(z) /\ ~ z.fest
    BY <1>2, <1>3, <1>4 DEF Lesbar, LetzterEntwurf
  <2>2. QED
    BY <2>1 DEF Eintrag
<1> HIDE DEF f, N
<1>10. Len(f) = N /\ f' = SubSeq(f, 1, N - 1)
  BY <1>4, <1>7, <1>8, Gekuerzt
<1>11. f # << >>
  BY <1>4, <1>10
<1>12. J!EntferneLetzte
  BY <1>9, <1>10, <1>11 DEF J!EntferneLetzte, f
<1>13. QED
  BY <1>12 DEF J!JNext

LEMMA EintragFest ==
  ASSUME NEW t, NEW m, NEW v, NEW fest, NEW storno, NEW x, NEW j,
         j = [typ |-> t, betrag |-> m, saldo |-> v, fest |-> fest, storno |-> storno]
  PROVE  [typ |-> t, betrag |-> m, saldo |-> v, fest |-> x, storno |-> storno]
           = [j EXCEPT !.fest = x]
<1> DEFINE T == {t, m, v, fest, storno, x}
           R == [typ : T, betrag : T, saldo : T, fest : T, storno : T]
<1>1. j \in R /\ x \in T /\ j.typ = t /\ j.betrag = m /\ j.saldo = v /\ j.storno = storno
  OBVIOUS
<1> HIDE DEF T
<1>2. PICK q : q = [j EXCEPT !.fest = x]
  OBVIOUS
<1>3. q \in R
  BY <1>1, <1>2
<1>4. q.typ = t /\ q.betrag = m /\ q.saldo = v /\ q.fest = x /\ q.storno = storno
  BY <1>1, <1>2
<1>5. q = [typ |-> t, betrag |-> m, saldo |-> v, fest |-> x, storno |-> storno]
  BY <1>3, <1>4
<1>6. QED
  BY <1>2, <1>5

\* Fixing the drafts up to a number fixes the journal up to its place.
LEMMA FixierenSchreibtFest ==
  ASSUME IInv, IInv', \A z \in zeilen : z.fest => z \in zeilen', NEW m \in Nat,
         SchreibeFest({z \in zeilen : ~ z.fest /\ z.nr <= m})
  PROVE  [J!JNext]_JournalDerZeilen
<1> DEFINE N == Anzahl
           f == JournalDerZeilen
           Neu(y) == IF ~ y.fest /\ y.nr <= m THEN [y EXCEPT !.fest = TRUE] ELSE y
<1>1. Lesbar /\ Lesbar' /\ N \in Nat
  BY JournalLesbar, JournalLesbarDanach DEF IInv, Lesbar
<1>2. zeilen' = {Neu(y) : y \in zeilen}
  BY DEF SchreibeFest
<1>3. \A y \in zeilen : /\ Neu(y).nr = y.nr /\ Neu(y).typ = y.typ /\ Neu(y).betrag = y.betrag
                        /\ Neu(y).bestandNach = y.bestandNach /\ Neu(y).stornoVon = y.stornoVon
                        /\ Neu(y).fest = (y.fest \/ y.nr <= m)
  BY DEF IInv, TypeOK, Zeile
<1>4. \A y \in zeilen : Neu(y) \in zeilen'
  BY <1>2
<1>5. \A w \in zeilen' : \E y \in zeilen : w = Neu(y)
  BY <1>2
<1> HIDE DEF Neu
<1>6. Anzahl' = N
  <2>1. \A w \in zeilen' : w.nr \in 1 .. N
    BY <1>1, <1>3, <1>5 DEF Lesbar
  <2>2. \A n \in 1 .. N : \E w \in zeilen' : w.nr = n
    BY <1>1, <1>3, <1>4 DEF Lesbar
  <2>3. \A y, w \in zeilen' : y.nr = w.nr => y = w
    BY DEF IInv, TabelleInv, Eindeutig
  <2> HIDE DEF N
  <2>4. Cardinality(zeilen') = N
    BY <1>1, <2>1, <2>2, <2>3, Zaehlung
  <2>5. QED
    BY <2>4 DEF Anzahl
<1>7. \A n \in 1 .. N : f'[n] = IF n <= m THEN [f[n] EXCEPT !.fest = TRUE] ELSE f[n]
  <2> SUFFICES ASSUME NEW n \in 1 .. N
               PROVE  f'[n] = IF n <= m THEN [f[n] EXCEPT !.fest = TRUE] ELSE f[n]
    OBVIOUS
  <2>1. PICK y \in zeilen : y.nr = n
    BY <1>1 DEF Lesbar
  <2>2. PICK w \in zeilen' : w = Neu(y)
    BY <1>4
  <2>3. f[n] = Eintrag(y) /\ f'[n] = Eintrag(w)'
    BY <1>1, <1>3, <2>1, <2>2 DEF Lesbar
  <2>4. StornoNr(w)' = StornoNr(y)
    BY <1>3, <2>2, VerweisBleibt
  <2>5. /\ w.typ = y.typ /\ w.betrag = y.betrag /\ w.bestandNach = y.bestandNach
        /\ w.fest = (y.fest \/ n <= m) /\ y.fest \in BOOLEAN
    BY <1>3, <2>1, <2>2 DEF IInv, TypeOK, Zeile
  <2>6. PICK r : r = StornoNr(y)
    OBVIOUS
  <2>7. f[n] = [typ |-> y.typ, betrag |-> y.betrag, saldo |-> y.bestandNach, fest |-> y.fest,
                storno |-> r]
    BY <2>3, <2>6 DEF Eintrag
  <2>8. f'[n] = [typ |-> y.typ, betrag |-> y.betrag, saldo |-> y.bestandNach,
                 fest |-> (y.fest \/ n <= m), storno |-> r]
    BY <2>3, <2>4, <2>5, <2>6 DEF Eintrag
  <2> HIDE DEF f, N
  <2>9. CASE n <= m
    <3>1. (y.fest \/ n <= m) = TRUE
      BY <2>9
    <3>2. f'[n] = [typ |-> y.typ, betrag |-> y.betrag, saldo |-> y.bestandNach, fest |-> TRUE,
                   storno |-> r]
      BY <2>8, <3>1, Zenon
    <3>3. PICK j : j = f[n]
      OBVIOUS
    <3>4. j = [typ |-> y.typ, betrag |-> y.betrag, saldo |-> y.bestandNach, fest |-> y.fest,
               storno |-> r]
      BY <2>7, <3>3, Zenon
    <3>5. PICK x : x = TRUE
      OBVIOUS
    <3>6. [typ |-> y.typ, betrag |-> y.betrag, saldo |-> y.bestandNach, fest |-> x,
           storno |-> r] = [j EXCEPT !.fest = x]
      BY <3>4, EintragFest
    <3>7. f'[n] = [j EXCEPT !.fest = x]
      BY <3>2, <3>5, <3>6, Zenon
    <3>8. QED
      BY <2>9, <3>3, <3>5, <3>7
  <2>10. CASE ~ (n <= m)
    BY <2>5, <2>7, <2>8, <2>10
  <2>11. QED
    BY <2>9, <2>10
<1>8. DOMAIN f = 1 .. N /\ f = [n \in 1 .. N |-> f[n]] /\ f' = [n \in 1 .. N |-> f'[n]]
  BY <1>6, JournalForm, JournalFormDanach
<1> HIDE DEF f, N
<1>9. CASE m = 0 \/ N = 0
  <2>1. \A n \in 1 .. N : f'[n] = f[n]
    <3>1. \A n \in 1 .. N : ~ (n <= m)
      BY <1>1, <1>9
    <3>2. QED
      BY <1>7, <3>1
  <2>2. QED
    BY <1>8, <2>1 DEF f
<1>10. CASE m # 0 /\ N # 0
  <2>1. PICK k \in 1 .. N : \A n \in 1 .. N : n <= m <=> n <= k
    <3>1. CASE m <= N
      BY <1>10, <3>1
    <3>2. CASE ~ (m <= N)
      BY <1>1, <1>10, <3>2
    <3>3. QED
      BY <3>1, <3>2
  <2>2. f' = [n \in DOMAIN f |-> IF n <= k THEN [f[n] EXCEPT !.fest = TRUE] ELSE f[n]]
    BY <1>7, <1>8, <2>1
  <2>3. J!SchreibeFestBis(k) /\ k \in DOMAIN JournalDerZeilen
    BY <1>8, <2>1, <2>2 DEF J!SchreibeFestBis, f
  <2>4. QED
    BY <2>3 DEF J!JNext
<1>11. QED
  BY <1>9, <1>10

LEMMA FestschreibenSchreibtFest ==
  ASSUME IInv, IInv', \A z \in zeilen : z.fest => z \in zeilen', NEW s \in Slots,
         FestschreibenSchreiben(s) \/ FestschreibenAlle(s)
  PROVE  [J!JNext]_JournalDerZeilen
<1>1. CASE FestschreibenSchreiben(s)
  <2>1. PICK m \in Nat : m = entitaet[s].nr
    BY DEF IInv, TypeOK, Zeile
  <2>2. SchreibeFest({z \in zeilen : ~ z.fest /\ z.nr <= m})
    BY <1>1, <2>1 DEF FestschreibenSchreiben
  <2>3. QED
    BY <2>2, FixierenSchreibtFest
<1>2. CASE FestschreibenAlle(s)
  <2>1. PICK m \in Nat : m = Anzahl
    BY JournalForm
  <2>2. {z \in zeilen : ~ z.fest} = {z \in zeilen : ~ z.fest /\ z.nr <= m}
    BY <2>1, JournalLesbar DEF IInv, Lesbar
  <2>3. SchreibeFest({z \in zeilen : ~ z.fest /\ z.nr <= m})
    BY <1>2, <2>2 DEF FestschreibenAlle
  <2>4. QED
    BY <2>3, FixierenSchreibtFest
<1>3. QED
  BY <1>1, <1>2

\* While the rows stay, the journal stays.
LEMMA JournalRuht ==
  ASSUME IInv, IInv', UNCHANGED zeilen
  PROVE  UNCHANGED JournalDerZeilen
<1>1. Lesbar /\ Anzahl' = Anzahl
  BY JournalLesbar DEF IInv, Anzahl
<1>2. \A n \in 1 .. Anzahl : JournalDerZeilen'[n] = JournalDerZeilen[n]
  <2> SUFFICES ASSUME NEW n \in 1 .. Anzahl PROVE JournalDerZeilen'[n] = JournalDerZeilen[n]
    OBVIOUS
  <2>1. PICK y \in zeilen : y.nr = n
    BY <1>1 DEF Lesbar
  <2>2. QED
    BY <2>1, EintragBleibt
<1>3. QED
  BY <1>1, <1>2, JournalForm, JournalFormDanach

\* Every step of the service is one step of the journal or none.
LEMMA SchrittImJournal ==
  ASSUME Seriell, IInv, BuchInv, [Next]_vars
  PROVE  [J!JNext]_JournalDerZeilen
<1>1. IInv'
  BY BeginnErhaelt, SchrittErhaelt, RuheErhaelt DEF Next
<1>2. \A z \in zeilen : z.fest => z \in zeilen'
  BY FesteBleiben
<1>3. CASE UNCHANGED zeilen
  BY <1>1, <1>3, JournalRuht
<1>4. ASSUME NEW s \in Slots, Schritt(s)
      PROVE  [J!JNext]_JournalDerZeilen
  BY <1>1, <1>2, <1>3, <1>4, TabellenSchritt, CreateLegtAn, StornoStorniert,
     UpdateAendertLetzte, RemoveEntferntLetzte, FestschreibenSchreibtFest
<1>5. ASSUME NEW s \in Slots, Beginn(s)
      PROVE  UNCHANGED zeilen
  BY <1>5 DEF Beginn, NimmCreate, NimmAenderung, NimmFestschreiben, NimmStorno, Nimm
<1>6. CASE Tick \/ UNCHANGED vars
  BY <1>3, <1>6 DEF Tick, vars
<1>7. QED
  BY <1>3, <1>4, <1>5, <1>6 DEF Next

\* The table with its concurrent requests implements the atomic journal: numbers without
\* a gap, chained balances, corrections only at the end and only of drafts, one mirrored
\* counter-entry per fixed entry.
THEOREM JournalImplementiert ==
  ASSUME Seriell
  PROVE  Spec => ImplementiertJournal
<1>1. Init => J!JInit /\ BuchInv
  <2> SUFFICES ASSUME Init PROVE J!JInit /\ BuchInv
    OBVIOUS
  <2>1. BuchInv
    BY DEF Init, BuchInv, Buchbar
  <2>2. Anzahl = 0
    BY FS_EmptySet DEF Init, Anzahl
  <2>3. JournalDerZeilen = [n \in 1 .. 0 |-> JournalDerZeilen[n]]
    BY <2>2, AnfangErfuellt, JournalForm
  <2>4. QED
    BY <2>1, <2>3 DEF J!JInit
<1>2. IInv /\ BuchInv /\ [Next]_vars => BuchInv'
  <2>1. ASSUME BuchInv, Tick \/ UNCHANGED vars PROVE BuchInv'
    BY <2>1 DEF Tick, vars, BuchInv, Buchbar
  <2>2. QED
    BY <2>1, BuchbarBeginn, BuchbarSchritt DEF Next
<1>3. IInv /\ BuchInv /\ [Next]_vars => [J!JNext]_JournalDerZeilen
  BY SchrittImJournal
<1>4. QED
  BY <1>1, <1>2, <1>3, Induktion, PTL DEF Spec, ImplementiertJournal, J!JSpec

-------------------------------------------------------------------------------
(***************************************************************************)
(* With everything overlapping, as the code allows: the types, and that a  *)
(* counter-entry is the only one of its entry and stays as it is.  Numbers *)
(* and balances are out of reach: a row may go while others are computed   *)
(* from it.  But an id belongs to a counter-entry or to an ordinary one for*)
(* ever, and that is all it takes.                                         *)
(***************************************************************************)

OhneStorno(i) == \A z \in zeilen : z.id = i => z.stornoVon = 0

\* Any rows have a last one (the table is finite).
Gereiht == \A S \in SUBSET zeilen : S # {} => \E z \in S : \A y \in S : y.nr <= z.nr

Gegenbuchungen ==
  /\ \A y, z \in zeilen : y.id = z.id => y = z
  /\ \A z \in zeilen : z.id \in 1 .. letzteId
  /\ \A g \in zeilen : g.stornoVon # 0 =>
       g.fest /\ g.stornoVon \in 1 .. letzteId /\ OhneStorno(g.stornoVon)
  /\ \A g, h \in zeilen : g.stornoVon # 0 /\ h.stornoVon = g.stornoVon => h = g

\* Whoever changes or removes a row has an ordinary one in memory, and so has whoever
\* reverses one.
Ordentlich(s) ==
  LET e == entitaet[s]
      op == auftrag[s].op
  IN /\ ort[s] \in {"pruefen", "vorgaenger", "schreiben"} /\ op \in {"update", "remove"} =>
          e.id \in 1 .. letzteId /\ e.stornoVon = 0 /\ OhneStorno(e.id)
     /\ ort[s] \in {"doppelt", "lesen", "schreiben"} /\ op = "storno" =>
          e.fest /\ e.stornoVon \in 1 .. letzteId /\ OhneStorno(e.stornoVon)
     /\ ort[s] = "schreiben" /\ op = "create" => e.stornoVon = 0

PInv ==
  /\ TypeOK
  /\ Gereiht
  /\ Gegenbuchungen
  /\ \A s \in Slots : Ordentlich(s)

-------------------------------------------------------------------------------
(***************************************************************************)
(* What a step may do to the table.                                        *)
(***************************************************************************)
Schonend ==
  /\ zeilen' \subseteq Zeile /\ letzteId' \in Nat /\ letzteId <= letzteId'
  /\ Gereiht' /\ Gegenbuchungen'
  /\ \A i \in 1 .. letzteId : OhneStorno(i) => OhneStorno(i)'
  /\ \A z \in zeilen : z.stornoVon # 0 => z \in zeilen'

LEMMA LesenSchont ==
  ASSUME PInv, UNCHANGED <<zeilen, letzteId>>
  PROVE  Schonend
<1>1. Gereiht' /\ Gegenbuchungen'
  BY DEF PInv, Gereiht, Gegenbuchungen, OhneStorno
<1>2. QED
  BY <1>1 DEF PInv, TypeOK, Schonend, OhneStorno

LEMMA EinfuegenSchont ==
  ASSUME PInv, NEW s \in Slots, FuegeEin(s), ort[s] = "schreiben",
         auftrag[s].op \in {"create", "storno"}
  PROVE  Schonend
<1> DEFINE e == entitaet[s]
           z == [e EXCEPT !.id = letzteId + 1]
<1>1. e \in Zeile /\ letzteId \in Nat /\ zeilen \subseteq Zeile
  BY DEF PInv, TypeOK
<1>2. z \in Zeile /\ z.id = letzteId + 1 /\ z.nr \in Nat /\ z.fest = e.fest /\ z.stornoVon = e.stornoVon
  BY <1>1 DEF Zeile
<1>3. ~ Kollidiert(z) /\ save(z) /\ letzteId' = letzteId + 1
  BY DEF FuegeEin
<1>4. z.stornoVon # 0 => z.fest /\ z.stornoVon \in 1 .. letzteId /\ OhneStorno(z.stornoVon)
  BY <1>2 DEF PInv, Ordentlich
<1> HIDE DEF z
<1>5. \A y \in zeilen : y.id \in 1 .. letzteId /\ y.id # z.id /\ y.nr \in Nat
  BY <1>1, <1>2 DEF PInv, Gegenbuchungen, Zeile
<1>6. zeilen' = zeilen \cup {z}
  BY <1>3, <1>5 DEF save
<1>7. \A y \in zeilen : z.stornoVon # 0 => y.stornoVon # z.stornoVon
  BY <1>3, <1>5 DEF Kollidiert
<1>8. Gereiht'
  <2> SUFFICES ASSUME NEW S \in SUBSET zeilen', S # {}
               PROVE  \E x \in S : \A y \in S : y.nr <= x.nr
    BY DEF Gereiht
  <2>1. S \ {z} \in SUBSET zeilen
    BY <1>6
  <2>2. CASE S \ {z} = {}
    BY <1>2, <2>2
  <2>3. CASE S \ {z} # {}
    <3>1. PICK x \in S \ {z} : \A y \in S \ {z} : y.nr <= x.nr
      BY <2>1, <2>3 DEF PInv, Gereiht
    <3>2. x.nr \in Nat /\ \A y \in S : y.nr \in Nat
      BY <1>2, <1>5, <1>6, <2>1, <3>1
    <3>3. CASE x.nr <= z.nr /\ z \in S
      BY <1>2, <3>1, <3>2, <3>3
    <3>4. CASE ~ (x.nr <= z.nr) \/ z \notin S
      BY <1>2, <3>1, <3>2, <3>4
    <3>5. QED
      BY <3>3, <3>4
  <2>4. QED
    BY <2>2, <2>3
<1>9. \A i \in 1 .. letzteId : OhneStorno(i) => OhneStorno(i)'
  BY <1>1, <1>2, <1>6 DEF OhneStorno
<1>10. Gegenbuchungen'
  <2>1. (\A y, x \in zeilen : y.id = x.id => y = x)'
    BY <1>5, <1>6 DEF PInv, Gegenbuchungen
  <2>2. (\A y \in zeilen : y.id \in 1 .. letzteId)'
    BY <1>1, <1>2, <1>3, <1>5, <1>6
  <2>3. ASSUME NEW g \in zeilen', g.stornoVon # 0
        PROVE  g.fest /\ g.stornoVon \in 1 .. letzteId' /\ OhneStorno(g.stornoVon)'
    <3>1. g.fest /\ g.stornoVon \in 1 .. letzteId /\ OhneStorno(g.stornoVon)
      BY <1>4, <1>6, <2>3 DEF PInv, Gegenbuchungen
    <3>2. OhneStorno(g.stornoVon)'
      BY <1>9, <3>1
    <3>3. QED
      BY <1>1, <1>3, <3>1, <3>2
  <2>4. (\A g, h \in zeilen : g.stornoVon # 0 /\ h.stornoVon = g.stornoVon => h = g)'
    BY <1>6, <1>7 DEF PInv, Gegenbuchungen
  <2>5. QED
    BY <2>1, <2>2, <2>3, <2>4 DEF Gegenbuchungen
<1>11. QED
  BY <1>1, <1>2, <1>3, <1>6, <1>8, <1>9, <1>10 DEF Schonend

\* update saves an ordinary row, over the one of its id or anew if that is gone.
LEMMA AendernSchont ==
  ASSUME PInv, NEW e \in Zeile, save(e), letzteId' = letzteId,
         e.id \in 1 .. letzteId, e.stornoVon = 0, OhneStorno(e.id)
  PROVE  Schonend
<1>1. letzteId \in Nat /\ zeilen \subseteq Zeile /\ e.nr \in Nat /\ \A y \in zeilen : y.nr \in Nat
  BY DEF PInv, TypeOK, Zeile
<1>2. zeilen' = {y \in zeilen : y.id # e.id} \cup {e}
  BY DEF save
<1>3. Gereiht'
  <2> SUFFICES ASSUME NEW S \in SUBSET zeilen', S # {}
               PROVE  \E x \in S : \A y \in S : y.nr <= x.nr
    BY DEF Gereiht
  <2>1. S \ {e} \in SUBSET zeilen
    BY <1>2
  <2>2. CASE S \ {e} = {}
    BY <1>1, <2>2
  <2>3. CASE S \ {e} # {}
    <3>1. PICK x \in S \ {e} : \A y \in S \ {e} : y.nr <= x.nr
      BY <2>1, <2>3 DEF PInv, Gereiht
    <3>2. x.nr \in Nat /\ \A y \in S : y.nr \in Nat
      BY <1>1, <2>1, <3>1
    <3>3. CASE x.nr <= e.nr /\ e \in S
      BY <1>1, <3>1, <3>2, <3>3
    <3>4. CASE ~ (x.nr <= e.nr) \/ e \notin S
      BY <1>1, <3>1, <3>2, <3>4
    <3>5. QED
      BY <3>3, <3>4
  <2>4. QED
    BY <2>2, <2>3
<1>4. \A i \in 1 .. letzteId : OhneStorno(i) => OhneStorno(i)'
  BY <1>2 DEF OhneStorno
<1>5. Gegenbuchungen'
  <2>1. (\A y, x \in zeilen : y.id = x.id => y = x)'
    BY <1>2 DEF PInv, Gegenbuchungen
  <2>2. (\A y \in zeilen : y.id \in 1 .. letzteId)'
    BY <1>2 DEF PInv, Gegenbuchungen
  <2>3. ASSUME NEW g \in zeilen', g.stornoVon # 0
        PROVE  g.fest /\ g.stornoVon \in 1 .. letzteId' /\ OhneStorno(g.stornoVon)'
    <3>1. g.fest /\ g.stornoVon \in 1 .. letzteId /\ OhneStorno(g.stornoVon)
      BY <1>2, <2>3 DEF PInv, Gegenbuchungen
    <3>2. QED
      BY <1>4, <3>1
  <2>4. (\A g, h \in zeilen : g.stornoVon # 0 /\ h.stornoVon = g.stornoVon => h = g)'
    BY <1>2 DEF PInv, Gegenbuchungen
  <2>5. QED
    BY <2>1, <2>2, <2>3, <2>4 DEF Gegenbuchungen
<1>6. \A z \in zeilen : z.stornoVon # 0 => z \in zeilen'
  BY <1>2 DEF OhneStorno
<1>7. QED
  BY <1>1, <1>2, <1>3, <1>4, <1>5, <1>6 DEF Schonend

LEMMA EntfernenSchont ==
  ASSUME PInv, NEW i, zeilen' = {z \in zeilen : z.id # i}, letzteId' = letzteId, OhneStorno(i)
  PROVE  Schonend
<1>1. letzteId \in Nat /\ zeilen' \subseteq Zeile /\ zeilen' \subseteq zeilen
  BY DEF PInv, TypeOK
<1>2. Gereiht'
  BY <1>1 DEF PInv, Gereiht
<1>3. \A j \in 1 .. letzteId : OhneStorno(j) => OhneStorno(j)'
  BY <1>1 DEF OhneStorno
<1>4. Gegenbuchungen'
  BY <1>1, <1>3 DEF PInv, Gegenbuchungen
<1>5. \A z \in zeilen : z.stornoVon # 0 => z \in zeilen'
  BY DEF OhneStorno
<1>6. QED
  BY <1>1, <1>2, <1>3, <1>4, <1>5 DEF Schonend

LEMMA FixierenSchont ==
  ASSUME PInv, NEW Z \in SUBSET {z \in zeilen : ~ z.fest}, SchreibeFest(Z), letzteId' = letzteId
  PROVE  Schonend
<1> DEFINE Neu(z) == IF z \in Z THEN [z EXCEPT !.fest = TRUE] ELSE z
<1>1. zeilen' = {Neu(z) : z \in zeilen}
  BY DEF SchreibeFest
<1>2. \A z \in zeilen :
        /\ Neu(z) \in Zeile /\ Neu(z).id = z.id /\ Neu(z).nr = z.nr
        /\ Neu(z).stornoVon = z.stornoVon /\ (z.fest => Neu(z) = z)
  BY DEF PInv, TypeOK, Zeile
<1> HIDE DEF Neu
<1>3. Gereiht'
  <2> SUFFICES ASSUME NEW S \in SUBSET zeilen', S # {}
               PROVE  \E x \in S : \A y \in S : y.nr <= x.nr
    BY DEF Gereiht
  <2> DEFINE P == {z \in zeilen : Neu(z) \in S}
  <2>1. P \in SUBSET zeilen /\ P # {}
    BY <1>1
  <2>2. PICK x \in P : \A y \in P : y.nr <= x.nr
    BY <2>1 DEF PInv, Gereiht
  <2>3. \A w \in S : \E y \in P : w = Neu(y)
    BY <1>1
  <2>4. Neu(x) \in S /\ \A w \in S : w.nr <= Neu(x).nr
    BY <1>2, <2>2, <2>3
  <2>5. QED
    BY <2>4
<1>4. \A j \in 1 .. letzteId : OhneStorno(j) => OhneStorno(j)'
  BY <1>1, <1>2 DEF OhneStorno
<1>5. Gegenbuchungen'
  <2>1. (\A y, x \in zeilen : y.id = x.id => y = x)'
    BY <1>1, <1>2 DEF PInv, Gegenbuchungen
  <2>2. (\A y \in zeilen : y.id \in 1 .. letzteId)'
    BY <1>1, <1>2 DEF PInv, Gegenbuchungen
  <2>3. ASSUME NEW w \in zeilen', w.stornoVon # 0
        PROVE  w \in zeilen /\ w.fest /\ w.stornoVon \in 1 .. letzteId' /\ OhneStorno(w.stornoVon)'
    <3>1. PICK g \in zeilen : w = Neu(g)
      BY <1>1
    <3>2. g.fest /\ g.stornoVon \in 1 .. letzteId /\ OhneStorno(g.stornoVon) /\ g = w
      BY <1>2, <2>3, <3>1 DEF PInv, Gegenbuchungen
    <3>3. QED
      BY <1>4, <3>2
  <2>4. (\A g, h \in zeilen : g.stornoVon # 0 /\ h.stornoVon = g.stornoVon => h = g)'
    BY <2>3 DEF PInv, Gegenbuchungen
  <2>5. QED
    BY <2>1, <2>2, <2>3, <2>4 DEF Gegenbuchungen
<1>6. \A z \in zeilen : z.stornoVon # 0 => z \in zeilen'
  BY <1>1, <1>2 DEF PInv, Gegenbuchungen
<1>7. QED
  BY <1>1, <1>2, <1>3, <1>4, <1>5, <1>6 DEF Schonend, PInv, TypeOK

LEMMA SchrittSchont ==
  ASSUME PInv, NEW s \in Slots, Schritt(s)
  PROVE  Schonend
<1>1. CASE UNCHANGED <<zeilen, letzteId>>
  BY <1>1, LesenSchont
<1>2. CASE CreateSchreiben(s) \/ StornoSchreiben(s)
  <2>1. ort[s] = "schreiben" /\ auftrag[s].op \in {"create", "storno"}
    BY <1>2 DEF CreateSchreiben, StornoSchreiben, Bei
  <2>2. FuegeEin(s) \/ UNCHANGED <<zeilen, letzteId>>
    BY <1>2 DEF CreateSchreiben, StornoSchreiben, Wiederhole, NochNicht
  <2>3. QED
    BY <1>1, <2>1, <2>2, EinfuegenSchont
<1>3. CASE UpdateSchreiben(s)
  <2>1. ort[s] = "schreiben" /\ auftrag[s].op = "update" /\ entitaet[s] \in Zeile
    BY <1>3 DEF UpdateSchreiben, Bei, PInv, TypeOK
  <2>2. \/ save(entitaet[s]) /\ letzteId' = letzteId
        \/ UNCHANGED <<zeilen, letzteId>>
    BY <1>3 DEF UpdateSchreiben, Wiederhole, NochNicht
  <2>3. entitaet[s].id \in 1 .. letzteId /\ entitaet[s].stornoVon = 0 /\ OhneStorno(entitaet[s].id)
    BY <2>1 DEF PInv, Ordentlich
  <2>4. QED
    BY <1>1, <2>1, <2>2, <2>3, AendernSchont
<1>4. CASE RemoveSchreiben(s)
  <2>1. OhneStorno(entitaet[s].id)
    BY <1>4 DEF RemoveSchreiben, Bei, PInv, Ordentlich
  <2>2. QED
    BY <1>4, <2>1, EntfernenSchont DEF RemoveSchreiben
<1>5. CASE FestschreibenSchreiben(s) \/ FestschreibenAlle(s)
  <2>1. PICK Z \in SUBSET {z \in zeilen : ~ z.fest} : SchreibeFest(Z)
    BY <1>5 DEF FestschreibenSchreiben, FestschreibenAlle
  <2>2. QED
    BY <1>5, <2>1, FixierenSchont DEF FestschreibenSchreiben, FestschreibenAlle
<1>6. CASE \/ CreateLesen(s) \/ AenderungFinden(s) \/ AenderungPruefen(s)
           \/ UpdateVorgaenger(s) \/ FestschreibenFinden(s) \/ StornoFinden(s)
           \/ StornoDoppelt(s) \/ StornoLesen(s) \/ StornoAblehnen(s)
  BY <1>1, <1>6 DEF CreateLesen, AenderungFinden, AenderungPruefen, UpdateVorgaenger,
     FestschreibenFinden, StornoFinden, StornoDoppelt, StornoLesen, StornoAblehnen, NochNicht
<1>7. QED
  BY <1>2, <1>3, <1>4, <1>5, <1>6 DEF Schritt

-------------------------------------------------------------------------------
(***************************************************************************)
(* Requests in flight.                                                     *)
(***************************************************************************)
\* The other requests may rely on what they relied on.
LEMMA AndereBleibenOrdentlich ==
  ASSUME PInv, Schonend, NEW t \in Slots,
         ort'[t] = ort[t], auftrag'[t] = auftrag[t], entitaet'[t] = entitaet[t]
  PROVE  Ordentlich(t)'
<1>1. Ordentlich(t) /\ letzteId \in Nat
  BY DEF PInv, TypeOK
<1>2. \A i \in 1 .. letzteId : i \in 1 .. letzteId' /\ (OhneStorno(i) => OhneStorno(i)')
  BY <1>1 DEF Schonend
<1>3. QED
  BY <1>1, <1>2 DEF Ordentlich

LEMMA LetzteIstZeile ==
  ASSUME PInv
  PROVE  /\ loadLetzten \in Zeile /\ loadLetzten.nr \in Nat /\ loadLetzten.bestandNach \in Int
         /\ \A n : vorgaengerBestand(n) \in Int
<1>1. loadLetzten \in Zeile
  <2>1. HatLetzte
    BY DEF PInv, Gereiht, HatLetzte, IstLetzte
  <2>2. QED
    BY <2>1, LetzteZeile, Grundwerte DEF PInv, TypeOK
<1>2. ASSUME NEW n PROVE vorgaengerBestand(n) \in Int
  <2> DEFINE davor == {y \in zeilen : y.nr < n}
  <2>1. CASE davor = {}
    BY <2>1 DEF vorgaengerBestand
  <2>2. CASE davor # {}
    <3>1. \E z \in davor : \A y \in davor : y.nr <= z.nr
      BY <2>2 DEF PInv, Gereiht
    <3>2. (CHOOSE z \in davor : \A y \in davor : y.nr <= z.nr) \in zeilen
      BY <3>1
    <3>3. QED
      BY <2>2, <3>2 DEF vorgaengerBestand, PInv, TypeOK, Zeile
  <2>3. QED
    BY <2>1, <2>2
<1>3. QED
  BY <1>1, <1>2 DEF Zeile

\* A step that leaves request s at o with z in memory.
LEMMA WeiterGut ==
  ASSUME PInv, Schonend, NEW s \in Slots, NEW o \in Orte, NEW z \in Zeile,
         Weiter(s, o, z) \/ Wiederhole(s, o, z),
         o \in {"pruefen", "vorgaenger", "schreiben"} /\ auftrag[s].op \in {"update", "remove"} =>
           z.id \in 1 .. letzteId /\ z.stornoVon = 0 /\ OhneStorno(z.id),
         o \in {"doppelt", "lesen", "schreiben"} /\ auftrag[s].op = "storno" =>
           z.fest /\ z.stornoVon \in 1 .. letzteId /\ OhneStorno(z.stornoVon),
         o = "schreiben" /\ auftrag[s].op = "create" => z.stornoVon = 0
  PROVE  TypeOK' /\ Ordentlich(s)'
<1>1. TypeOK'
  BY TypDerSchritte DEF PInv, Schonend
<1>2. ort'[s] = o /\ entitaet'[s] = z /\ auftrag'[s] = auftrag[s]
  BY WeiterSetzt DEF PInv
<1>3. letzteId \in Nat
  BY DEF PInv, TypeOK
<1>4. \A i \in 1 .. letzteId : i \in 1 .. letzteId' /\ (OhneStorno(i) => OhneStorno(i)')
  BY <1>3 DEF Schonend
<1>5. QED
  BY <1>1, <1>2, <1>4 DEF Ordentlich

LEMMA AntwortGut ==
  ASSUME PInv, Schonend, NEW s \in Slots, Antworte(s)
  PROVE  TypeOK' /\ Ordentlich(s)'
<1>1. TypeOK'
  BY TypDerSchritte DEF PInv, Schonend
<1>2. ort'[s] = "bereit"
  BY DEF Antworte, PInv, TypeOK
<1>3. QED
  BY <1>1, <1>2 DEF Ordentlich

LEMMA CreateGut ==
  ASSUME PInv, Schonend, NEW s \in Slots, CreateLesen(s) \/ CreateSchreiben(s)
  PROVE  TypeOK' /\ Ordentlich(s)'
<1> DEFINE a == auftrag[s]
           last == loadLetzten
           datum == IF a.datum = 0 THEN uhr ELSE a.datum
           b == berechneKassenbestandNach(last.bestandNach, a.typ, a.betrag)
           z == [id |-> 0, nr |-> last.nr + 1, datum |-> datum, typ |-> a.typ, betrag |-> a.betrag,
                 bestandNach |-> b, fest |-> FALSE, stornoVon |-> 0]
<1>1. auftrag[s].op = "create"
  BY DEF CreateLesen, CreateSchreiben, Bei
<1>2. CASE Antworte(s)
  BY <1>2, AntwortGut
<1>3. CASE Weiter(s, "schreiben", z)
  <2>1. a.typ \in Typen /\ a.betrag \in Nat /\ a.datum \in Nat /\ uhr \in Nat
    BY DEF PInv, TypeOK, Auftrag
  <2>2. last.nr \in Nat /\ last.bestandNach \in Int
    BY LetzteIstZeile
  <2>3. b \in Int
    BY <2>1, <2>2, Bestand
  <2> HIDE DEF b
  <2>4. z \in Zeile /\ z.stornoVon = 0
    BY <2>1, <2>2, <2>3 DEF Zeile
  <2> HIDE DEF z
  <2>5. QED
    BY <1>1, <1>3, <2>4, WeiterGut DEF Orte
<1>4. CASE Wiederhole(s, "lesen", Leer)
  BY <1>1, <1>4, WeiterGut, Grundwerte DEF Orte
<1>5. QED
  BY <1>2, <1>3, <1>4 DEF CreateLesen, CreateSchreiben, FuegeEin, NochNicht

LEMMA AenderungGut ==
  ASSUME PInv, Schonend, NEW s \in Slots,
         \/ AenderungFinden(s) \/ AenderungPruefen(s) \/ UpdateVorgaenger(s)
         \/ UpdateSchreiben(s) \/ RemoveSchreiben(s)
  PROVE  TypeOK' /\ Ordentlich(s)'
<1> DEFINE a == auftrag[s]
           e == entitaet[s]
           b == berechneKassenbestandNach(vorgaengerBestand(e.nr), a.typ, a.betrag)
           w == [e EXCEPT !.typ = a.typ, !.betrag = a.betrag, !.bestandNach = b]
<1>1. a.op \in {"update", "remove"} /\ e \in Zeile
  BY DEF AenderungFinden, AenderungPruefen, UpdateVorgaenger, UpdateSchreiben,
         RemoveSchreiben, Bei, PInv, TypeOK
<1>2. CASE Antworte(s)
  BY <1>2, AntwortGut
<1>3. CASE AenderungFinden(s) /\ ~ Antworte(s)
  <2>1. PICK z \in Gefunden(s) : ~ z.fest /\ Weiter(s, "pruefen", z)
    BY <1>3 DEF AenderungFinden
  <2>2. z \in zeilen /\ z \in Zeile
    BY DEF Gefunden, PInv, TypeOK
  <2>3. z.id \in 1 .. letzteId /\ z.stornoVon = 0 /\ OhneStorno(z.id)
    BY <2>1, <2>2 DEF PInv, Gegenbuchungen, OhneStorno
  <2>4. QED
    BY <1>1, <2>1, <2>2, <2>3, WeiterGut DEF Orte
<1>4. CASE AenderungPruefen(s) /\ ~ Antworte(s)
  <2>1. PICK o \in {"vorgaenger", "schreiben"} : Weiter(s, o, e)
    BY <1>4 DEF AenderungPruefen
  <2>2. e.id \in 1 .. letzteId /\ e.stornoVon = 0 /\ OhneStorno(e.id)
    BY <1>1, <1>4 DEF PInv, Ordentlich, AenderungPruefen, Bei
  <2>3. QED
    BY <1>1, <2>1, <2>2, WeiterGut DEF Orte
<1>5. CASE UpdateVorgaenger(s) /\ ~ Antworte(s)
  <2>1. Weiter(s, "schreiben", w)
    BY <1>5 DEF UpdateVorgaenger
  <2>2. e.id \in 1 .. letzteId /\ e.stornoVon = 0 /\ OhneStorno(e.id)
    BY <1>1, <1>5 DEF PInv, Ordentlich, UpdateVorgaenger, Bei
  <2>3. a.typ \in Typen /\ a.betrag \in Nat
    BY DEF PInv, TypeOK, Auftrag
  <2>4. b \in Int
    BY <2>3, LetzteIstZeile, Bestand
  <2> HIDE DEF b
  <2>5. w \in Zeile /\ w.id = e.id /\ w.stornoVon = e.stornoVon
    BY <1>1, <2>3, <2>4 DEF Zeile
  <2> HIDE DEF w
  <2>6. QED
    BY <1>1, <2>1, <2>2, <2>5, WeiterGut DEF Orte
<1>6. CASE Wiederhole(s, "finden", Leer)
  BY <1>1, <1>6, WeiterGut, Grundwerte DEF Orte
<1>7. QED
  BY <1>2, <1>3, <1>4, <1>5, <1>6 DEF UpdateSchreiben, RemoveSchreiben, NochNicht

LEMMA FestschreibenGut ==
  ASSUME PInv, Schonend, NEW s \in Slots,
         FestschreibenFinden(s) \/ FestschreibenSchreiben(s) \/ FestschreibenAlle(s)
  PROVE  TypeOK' /\ Ordentlich(s)'
<1>1. CASE Antworte(s)
  BY <1>1, AntwortGut
<1>2. CASE FestschreibenFinden(s) /\ ~ Antworte(s)
  <2>1. PICK z \in Gefunden(s) : Weiter(s, "schreiben", z)
    BY <1>2 DEF FestschreibenFinden
  <2>2. z \in Zeile /\ auftrag[s].op = "festschreiben"
    BY <1>2 DEF Gefunden, PInv, TypeOK, FestschreibenFinden, Bei
  <2>3. QED
    BY <2>1, <2>2, WeiterGut DEF Orte
<1>3. QED
  BY <1>1, <1>2 DEF FestschreibenSchreiben, FestschreibenAlle

LEMMA StornoGut ==
  ASSUME PInv, Schonend, NEW s \in Slots,
         \/ StornoFinden(s) \/ StornoDoppelt(s) \/ StornoLesen(s)
         \/ StornoSchreiben(s) \/ StornoAblehnen(s)
  PROVE  TypeOK' /\ Ordentlich(s)'
<1> DEFINE e == entitaet[s]
           last == loadLetzten
           b == berechneKassenbestandNach(last.bestandNach, e.typ, e.betrag)
           w == [id |-> 0, nr |-> last.nr + 1, datum |-> uhr, typ |-> e.typ,
                 betrag |-> e.betrag, bestandNach |-> b, fest |-> TRUE,
                 stornoVon |-> e.stornoVon]
           v == Gegenbuchung(e.typ, e.betrag, e.stornoVon)
<1>1. auftrag[s].op = "storno" /\ e \in Zeile /\ uhr \in Nat
  BY DEF StornoFinden, StornoDoppelt, StornoLesen, StornoSchreiben, StornoAblehnen, Bei,
         PInv, TypeOK
<1>2. ort[s] \in {"doppelt", "lesen", "schreiben"} =>
        e.fest /\ e.stornoVon \in 1 .. letzteId /\ OhneStorno(e.stornoVon)
  BY <1>1 DEF PInv, Ordentlich
<1>3. CASE Antworte(s)
  BY <1>3, AntwortGut
<1>4. CASE StornoFinden(s) /\ ~ Antworte(s)
  <2>1. PICK z \in Gefunden(s) : /\ z.stornoVon = 0
                                 /\ Weiter(s, "doppelt", Gegenbuchung(gegenTyp(z.typ), z.betrag, z.id))
    BY <1>4 DEF StornoFinden
  <2>2. z \in zeilen /\ z \in Zeile
    BY DEF Gefunden, PInv, TypeOK
  <2>3. z.id \in 1 .. letzteId /\ OhneStorno(z.id)
    BY <2>1, <2>2 DEF PInv, Gegenbuchungen, OhneStorno
  <2> DEFINE g == Gegenbuchung(gegenTyp(z.typ), z.betrag, z.id)
  <2>4. g \in Zeile /\ g.fest /\ g.stornoVon = z.id
    BY <2>2 DEF Gegenbuchung, Zeile, gegenTyp, Typen
  <2>5. Weiter(s, "doppelt", g)
    BY <2>1
  <2> HIDE DEF g
  <2>6. QED
    BY <1>1, <2>3, <2>4, <2>5, WeiterGut DEF Orte
<1>5. CASE StornoDoppelt(s)
  <2>1. PICK o \in {"schonStorniert", "lesen"} : Weiter(s, o, e)
    BY <1>5 DEF StornoDoppelt
  <2>2. ort[s] = "doppelt"
    BY <1>5 DEF StornoDoppelt, Bei
  <2>3. QED
    BY <1>1, <1>2, <2>1, <2>2, WeiterGut DEF Orte
<1>6. CASE StornoLesen(s) /\ ~ Antworte(s)
  <2>1. Weiter(s, "schreiben", w) /\ ort[s] = "lesen"
    BY <1>6 DEF StornoLesen, Bei
  <2>2. last.nr \in Nat /\ last.bestandNach \in Int /\ e.typ \in Typen /\ e.betrag \in Nat
          /\ e.stornoVon \in Nat
    BY <1>1, LetzteIstZeile DEF Zeile
  <2>3. b \in Int
    BY <2>2, Bestand
  <2> HIDE DEF b
  <2>4. w \in Zeile /\ w.fest /\ w.stornoVon = e.stornoVon
    BY <1>1, <2>2, <2>3 DEF Zeile
  <2> HIDE DEF w
  <2>5. QED
    BY <1>1, <1>2, <2>1, <2>4, WeiterGut DEF Orte
<1>7. CASE StornoSchreiben(s) /\ ~ Antworte(s)
  <2>1. Wiederhole(s, "doppelt", v) \/ Weiter(s, "schonStorniert", e)
    BY <1>7 DEF StornoSchreiben, FuegeEin
  <2>2. ort[s] = "schreiben"
    BY <1>7 DEF StornoSchreiben, Bei
  <2>3. v \in Zeile /\ v.fest /\ v.stornoVon = e.stornoVon
    BY <1>1 DEF Gegenbuchung, Zeile
  <2> HIDE DEF v
  <2>4. QED
    BY <1>1, <1>2, <2>1, <2>2, <2>3, WeiterGut DEF Orte
<1>8. QED
  BY <1>3, <1>4, <1>5, <1>6, <1>7 DEF StornoAblehnen, NochNicht

-------------------------------------------------------------------------------
(***************************************************************************)
(* The invariant and what it gives.                                        *)
(***************************************************************************)
LEMMA SchrittGut ==
  ASSUME PInv, NEW s \in Slots, Schritt(s)
  PROVE  PInv'
<1>1. Schonend
  BY SchrittSchont
<1>2. TypeOK' /\ Ordentlich(s)'
  BY <1>1, CreateGut, AenderungGut, FestschreibenGut, StornoGut DEF Schritt
<1>3. NurAnfrage(s)
  BY SchrittIstEinzeln DEF PInv
<1>4. ASSUME NEW t \in Slots, t # s PROVE Ordentlich(t)'
  BY <1>1, <1>3, <1>4, AndereBleibenOrdentlich DEF NurAnfrage
<1>5. QED
  BY <1>1, <1>2, <1>4 DEF PInv, Schonend

LEMMA BeginnGut ==
  ASSUME PInv, NEW s \in Slots, Beginn(s)
  PROVE  PInv'
<1> USE DEF Auftrag, Operationen, Orte
<1>1. uhr \in Nat /\ letzteId \in Nat /\ Betraege \subseteq Nat /\ MaxUhr \in Nat
  BY KassenbuchAssumption DEF PInv, TypeOK
<1>2. UNCHANGED <<zeilen, letzteId, uhr, entitaet, versuch>>
  BY DEF Beginn, NimmCreate, NimmAenderung, NimmFestschreiben, NimmStorno, Nimm
<1>3. PICK a \in Auftrag, o \in Orte :
        /\ Nimm(s, a, o)
        /\ \/ o = "finden" \/ (o = "lesen" /\ a.op = "create")
           \/ (o = "schreiben" /\ a.op = "festschreibenAlle")
  <2>1. CASE NimmCreate(s)
    <3>1. PICK typ \in Typen, betrag \in Betraege, datum \in Buchungsdaten :
            Nimm(s, [op |-> "create", id |-> 0, typ |-> typ, betrag |-> betrag, datum |-> datum], "lesen")
      BY <2>1 DEF NimmCreate
    <3>2. betrag \in Nat /\ datum \in Nat
      BY <1>1 DEF Buchungsdaten
    <3>3. [op |-> "create", id |-> 0, typ |-> typ, betrag |-> betrag, datum |-> datum] \in Auftrag
      BY <3>2
    <3>4. QED
      BY <3>1, <3>3
  <2>2. CASE NimmAenderung(s)
    <3>1. PICK id \in 1 .. letzteId :
            \/ Nimm(s, FuerEintrag("remove", id), "finden")
            \/ \E typ \in Typen, betrag \in Betraege :
                 Nimm(s, [op |-> "update", id |-> id, typ |-> typ, betrag |-> betrag, datum |-> 0], "finden")
      BY <2>2 DEF NimmAenderung
    <3>2. FuerEintrag("remove", id) \in Auftrag
      BY <1>1 DEF FuerEintrag, Typen
    <3>3. \A typ \in Typen, betrag \in Betraege :
            [op |-> "update", id |-> id, typ |-> typ, betrag |-> betrag, datum |-> 0] \in Auftrag
      BY <1>1
    <3>4. QED
      BY <3>1, <3>2, <3>3
  <2>3. CASE NimmFestschreiben(s)
    <3>1. FuerEintrag("festschreibenAlle", 0) \in Auftrag
            /\ FuerEintrag("festschreibenAlle", 0).op = "festschreibenAlle"
      BY <1>1 DEF FuerEintrag, Typen
    <3>2. \A id \in 1 .. letzteId : FuerEintrag("festschreiben", id) \in Auftrag
      BY <1>1 DEF FuerEintrag, Typen
    <3>3. QED
      BY <2>3, <3>1, <3>2 DEF NimmFestschreiben
  <2>4. CASE NimmStorno(s)
    <3>1. PICK id \in 1 .. letzteId : Nimm(s, FuerEintrag("storno", id), "finden")
      BY <2>4 DEF NimmStorno
    <3>2. FuerEintrag("storno", id) \in Auftrag
      BY <1>1 DEF FuerEintrag, Typen
    <3>3. QED
      BY <3>1, <3>2
  <2>5. QED
    BY <2>1, <2>2, <2>3, <2>4 DEF Beginn
<1>4. Schonend
  BY <1>2, LesenSchont
<1>5. TypeOK'
  BY <1>2, <1>3 DEF PInv, TypeOK, Nimm
<1>6. ASSUME NEW t \in Slots PROVE Ordentlich(t)'
  <2>1. CASE t = s
    <3>1. ort'[s] = o /\ auftrag'[s] = a
      BY <1>3 DEF Nimm, PInv, TypeOK
    <3>2. QED
      BY <1>3, <2>1, <3>1 DEF Ordentlich
  <2>2. CASE t # s
    <3>1. ort'[t] = ort[t] /\ auftrag'[t] = auftrag[t] /\ entitaet'[t] = entitaet[t]
      BY <1>2, <1>3, <2>2 DEF Nimm, PInv, TypeOK
    <3>2. QED
      BY <1>4, <3>1, AndereBleibenOrdentlich
  <2>3. QED
    BY <2>1, <2>2
<1>7. QED
  BY <1>4, <1>5, <1>6 DEF PInv, Schonend

LEMMA TickGut ==
  ASSUME PInv, Tick \/ UNCHANGED vars
  PROVE  PInv'
<1>1. UNCHANGED <<zeilen, letzteId, ort, auftrag, entitaet, versuch>>
  BY DEF Tick, vars
<1>2. TypeOK'
  BY <1>1 DEF PInv, TypeOK, Tick, vars
<1>3. Schonend
  BY <1>1, LesenSchont
<1>4. ASSUME NEW t \in Slots PROVE Ordentlich(t)'
  BY <1>1, <1>3, AndereBleibenOrdentlich
<1>5. QED
  BY <1>2, <1>3, <1>4 DEF PInv, Schonend

LEMMA AnfangGut == Init => PInv
<1> SUFFICES ASSUME Init PROVE PInv
  OBVIOUS
<1>1. TypeOK
  BY Grundwerte, KassenbuchAssumption DEF Init, TypeOK, Orte
<1>2. Gereiht /\ Gegenbuchungen
  BY DEF Init, Gereiht, Gegenbuchungen
<1>3. \A s \in Slots : ort[s] = "bereit"
  BY DEF Init
<1>4. QED
  BY <1>1, <1>2, <1>3 DEF PInv, Ordentlich

\* Whatever overlaps, an id is that of a counter-entry or of an ordinary row for ever, in the
\* table and in the memory of every request.
THEOREM InvarianteParallel == Spec => []PInv
<1>1. PInv /\ [Next]_vars => PInv'
  BY BeginnGut, SchrittGut, TickGut DEF Next
<1>2. QED
  BY <1>1, AnfangGut, PTL DEF Spec

\* Every variable keeps its type: no handler ever computes with a row that is not there.
THEOREM TypKorrekt == Spec => []TypeOK
<1>1. PInv => TypeOK
  BY DEF PInv
<1>2. QED
  BY <1>1, InvarianteParallel, PTL

\* An entry is reversed at most once and a counter-entry never (storno), even while stale
\* rows are saved and removed around it.
THEOREM EineGegenbuchung == Spec => []HoechstensEineGegenbuchung
<1>1. PInv => HoechstensEineGegenbuchung
  BY DEF PInv, Gegenbuchungen, OhneStorno, HoechstensEineGegenbuchung
<1>2. QED
  BY <1>1, InvarianteParallel, PTL

\* No stale row is ever saved over a counter-entry, and none is removed (update, remove).
THEOREM GegenbuchungBleibt == Spec => GegenbuchungEndgueltig
<1>1. PInv /\ [Next]_vars => [\A z \in zeilen : z.stornoVon # 0 => z \in zeilen']_vars
  <2> SUFFICES ASSUME PInv, Next
               PROVE  \A z \in zeilen : z.stornoVon # 0 => z \in zeilen'
    OBVIOUS
  <2>1. CASE Tick
    BY <2>1 DEF Tick
  <2>2. ASSUME NEW s \in Slots, Beginn(s)
        PROVE  \A z \in zeilen : z.stornoVon # 0 => z \in zeilen'
    BY <2>2 DEF Beginn, NimmCreate, NimmAenderung, NimmFestschreiben, NimmStorno, Nimm
  <2>3. ASSUME NEW s \in Slots, Schritt(s)
        PROVE  \A z \in zeilen : z.stornoVon # 0 => z \in zeilen'
    BY <2>3, SchrittSchont DEF Schonend
  <2>4. QED
    BY <2>1, <2>2, <2>3 DEF Next
<1>2. QED
  BY <1>1, InvarianteParallel, PTL DEF Spec, GegenbuchungEndgueltig

-------------------------------------------------------------------------------
(***************************************************************************)
(* What the amounts of a set of rows add up to.  The sum over a set is a   *)
(* recursive function on its subsets; the lemmas say that it exists, that  *)
(* it does not depend on the order, and what a further row does to it.     *)
(***************************************************************************)
\* Among subsets of a finite set there is a smallest one: the induction of this section
\* looks at a smallest counterexample.
LEMMA Kleinste ==
  ASSUME NEW S, IsFiniteSet(S), NEW T \in SUBSET SUBSET S, T # {}
  PROVE  \E x \in T : \A y \in T : ~ (y \subseteq x /\ y # x)
<1>1. IsWellFoundedOn(StrictSubsetOrdering(S), FiniteSubsetsOf(S))
  BY FS_StrictSubsetOrderingWellFounded
<1>2. FiniteSubsetsOf(S) = SUBSET S
  BY FS_FiniteSubsetsOfFinite
<1>3. \E x \in T : \A y \in T : ~ (<<y, x>> \in StrictSubsetOrdering(S))
  BY <1>1, <1>2, WFMin
<1>4. QED
  BY <1>3 DEF StrictSubsetOrdering

\* The row that MapThenSumSet takes next, the equation its sum satisfies, and the sum.
Erste(s) == CHOOSE x \in s : TRUE

Summiert(g, D) ==
  g = [s \in SUBSET D |-> IF s = {} THEN 0 ELSE Erste(s).betrag + g[s \ {Erste(s)}]]

Gesamt(S) == (CHOOSE g : Summiert(g, S))[S]

\* MapThenSumSet is that sum.
LEMMA GesamtIst ==
  ASSUME NEW S
  PROVE  MapThenSumSet(LAMBDA y : y.betrag, S) = Gesamt(S)
BY DEF MapThenSumSet, MapThenFoldSet, Gesamt, Summiert, Erste

LEMMA ErsteDarin ==
  ASSUME NEW s, s # {}
  PROVE  Erste(s) \in s
BY DEF Erste

\* A function that satisfies the equation, at one set.
LEMMA SummiertSchritt ==
  ASSUME NEW g, NEW D, Summiert(g, D), NEW s \in SUBSET D
  PROVE  g[s] = IF s = {} THEN 0 ELSE Erste(s).betrag + g[s \ {Erste(s)}]
<1> DEFINE G == [t \in SUBSET D |-> IF t = {} THEN 0 ELSE Erste(t).betrag + g[t \ {Erste(t)}]]
<1>1. g = G
  BY DEF Summiert
<1> HIDE DEF G
<1>2. g[s] = G[s]
  BY <1>1
<1>3. G[s] = IF s = {} THEN 0 ELSE Erste(s).betrag + g[s \ {Erste(s)}]
  BY DEF G
<1>4. QED
  BY <1>2, <1>3

\* Two solutions of the equation agree wherever both are defined.
LEMMA SummiertEindeutig ==
  ASSUME NEW S, IsFiniteSet(S), NEW D \in SUBSET S, NEW g, Summiert(g, S), NEW h, Summiert(h, D)
  PROVE  g[D] = h[D]
<1> DEFINE T == {s \in SUBSET D : g[s] # h[s]}
<1>1. SUFFICES ASSUME T # {} PROVE FALSE
  OBVIOUS
<1>2. IsFiniteSet(D)
  BY FS_Subset
<1>3. PICK s \in T : \A y \in T : ~ (y \subseteq s /\ y # s)
  <2>1. T \in SUBSET SUBSET D
    OBVIOUS
  <2> HIDE DEF T
  <2>2. QED
    BY <1>1, <1>2, <2>1, Kleinste
<1>4. s \in SUBSET D /\ s \in SUBSET S
  OBVIOUS
<1>5. CASE s = {}
  BY <1>3, <1>4, <1>5, SummiertSchritt
<1>6. CASE s # {}
  <2> DEFINE u == s \ {Erste(s)}
  <2>1. u \in SUBSET D /\ u \subseteq s /\ u # s
    BY <1>4, <1>6, ErsteDarin
  <2>2. u \notin T
    BY <1>3, <2>1
  <2>3. g[u] = h[u]
    BY <2>1, <2>2
  <2>4. g[s] = Erste(s).betrag + g[u] /\ h[s] = Erste(s).betrag + h[u]
    BY <1>4, <1>6, SummiertSchritt
  <2>5. QED
    BY <1>3, <2>3, <2>4
<1>7. QED
  BY <1>5, <1>6

\* The equation has a solution on every finite set.
LEMMA SummiertGibt ==
  ASSUME NEW S, IsFiniteSet(S)
  PROVE  \E g : Summiert(g, S)
<1> DEFINE T == {D \in SUBSET S : \A g : ~ Summiert(g, D)}
<1>1. SUFFICES ASSUME T # {} PROVE FALSE
  OBVIOUS
<1>2. PICK D \in T : \A y \in T : ~ (y \subseteq D /\ y # D)
  <2>1. T \in SUBSET SUBSET S
    OBVIOUS
  <2> HIDE DEF T
  <2>2. QED
    BY <1>1, <2>1, Kleinste
<1>3. D \in SUBSET S
  OBVIOUS
<1>4. ASSUME NEW u \in SUBSET D, u # D
      PROVE  Summiert(CHOOSE g : Summiert(g, u), u)
  <2>1. u \in SUBSET S /\ u \notin T
    BY <1>2, <1>3, <1>4
  <2>2. \E g : Summiert(g, u)
    BY <2>1
  <2>3. QED
    BY <2>2
<1> DEFINE g == [s \in SUBSET D |-> IF s = {} THEN 0 ELSE Erste(s).betrag + Gesamt(s \ {Erste(s)})]
<1>5. ASSUME NEW s \in SUBSET D, s # {}
      PROVE  g[s \ {Erste(s)}] = Gesamt(s \ {Erste(s)})
  <2> DEFINE u == s \ {Erste(s)}
  <2>1. u \in SUBSET D /\ u # D
    BY <1>5, ErsteDarin
  <2> DEFINE h == CHOOSE k : Summiert(k, u)
  <2>2. Summiert(h, u)
    BY <1>4, <2>1
  <2>3. Gesamt(u) = h[u]
    BY DEF Gesamt
  <2> HIDE DEF h
  <2>4. CASE u = {}
    <3>1. h[u] = 0
      BY <2>2, <2>4, SummiertSchritt
    <3>2. QED
      BY <2>1, <2>3, <2>4, <3>1
  <2>5. CASE u # {}
    <3> DEFINE v == u \ {Erste(u)}
               k == CHOOSE l : Summiert(l, v)
    <3>1. v \in SUBSET D /\ v # D /\ v \in SUBSET u
      BY <2>1
    <3>2. Summiert(k, v)
      BY <1>4, <3>1
    <3>3. Gesamt(v) = k[v]
      BY DEF Gesamt
    <3>4. IsFiniteSet(u)
      BY <1>3, <2>1, FS_Subset
    <3> HIDE DEF k, v, u
    <3>5. h[v] = k[v]
      BY <2>2, <3>1, <3>2, <3>4, SummiertEindeutig
    <3>6. h[u] = Erste(u).betrag + h[v]
      BY <2>2, <2>5, SummiertSchritt DEF v
    <3>7. g[u] = Erste(u).betrag + Gesamt(v)
      BY <2>1, <2>5 DEF v
    <3>8. QED
      BY <2>3, <3>3, <3>5, <3>6, <3>7 DEF u
  <2>6. QED
    BY <2>4, <2>5
<1>6. Summiert(g, D)
  <2> DEFINE G == [s \in SUBSET D |-> IF s = {} THEN 0 ELSE Erste(s).betrag + g[s \ {Erste(s)}]]
  <2>1. ASSUME NEW s \in SUBSET D
        PROVE  g[s] = G[s]
    <3>1. CASE s = {}
      BY <3>1
    <3>2. CASE s # {}
      <4>1. g[s \ {Erste(s)}] = Gesamt(s \ {Erste(s)})
        BY <1>5, <3>2
      <4>2. g[s] = Erste(s).betrag + Gesamt(s \ {Erste(s)})
        BY <3>2
      <4> HIDE DEF g
      <4>3. QED
        BY <3>2, <4>1, <4>2
    <3>3. QED
      BY <3>1, <3>2
  <2>2. g = [s \in SUBSET D |-> g[s]] /\ G = [s \in SUBSET D |-> G[s]]
    OBVIOUS
  <2> HIDE DEF g
  <2>3. g = G
    <3> HIDE DEF G
    <3>1. QED
      BY <2>1, <2>2
  <2>4. QED
    BY <2>3 DEF Summiert
<1>7. QED
  BY <1>2, <1>6

\* The sum is that of the set without its first row, and the first row's amount.
LEMMA GesamtSchritt ==
  ASSUME NEW S, IsFiniteSet(S)
  PROVE  Gesamt(S) = IF S = {} THEN 0 ELSE Erste(S).betrag + Gesamt(S \ {Erste(S)})
<1> DEFINE g == CHOOSE h : Summiert(h, S)
           D == S \ {Erste(S)}
           k == CHOOSE h : Summiert(h, D)
<1>1. Summiert(g, S)
  BY SummiertGibt
<1>2. IsFiniteSet(D)
  BY FS_Subset
<1>3. Summiert(k, D)
  BY <1>2, SummiertGibt
<1>4. Gesamt(S) = g[S] /\ Gesamt(D) = k[D]
  BY DEF Gesamt
<1> HIDE DEF g, k
<1>5. g[S] = IF S = {} THEN 0 ELSE Erste(S).betrag + g[D]
  BY <1>1, SummiertSchritt
<1>6. g[D] = k[D]
  BY <1>1, <1>3, SummiertEindeutig
<1>7. QED
  BY <1>4, <1>5, <1>6

\* The rows that are summed up hold natural amounts.
Bezahlt(S) == IsFiniteSet(S) /\ \A y \in S : y.betrag \in Nat

\* The sum of natural amounts is a natural number.
LEMMA GesamtTyp ==
  ASSUME NEW S, Bezahlt(S)
  PROVE  Gesamt(S) \in Nat
<1> DEFINE T == {D \in SUBSET S : Gesamt(D) \notin Nat}
<1>1. SUFFICES ASSUME T # {} PROVE FALSE
  OBVIOUS
<1>2. PICK D \in T : \A y \in T : ~ (y \subseteq D /\ y # D)
  <2>1. T \in SUBSET SUBSET S
    OBVIOUS
  <2> HIDE DEF T
  <2>2. QED
    BY <1>1, <2>1, Kleinste DEF Bezahlt
<1>3. D \in SUBSET S /\ IsFiniteSet(D) /\ Gesamt(D) \notin Nat
  BY FS_Subset DEF Bezahlt
<1>4. D # {}
  <2> HIDE DEF T
  <2>1. Gesamt(D) = IF D = {} THEN 0 ELSE Erste(D).betrag + Gesamt(D \ {Erste(D)})
    BY <1>3, GesamtSchritt
  <2>2. QED
    BY <1>3, <2>1
<1>5. Erste(D) \in D
  BY <1>4, ErsteDarin
<1>6. D \ {Erste(D)} \notin T
  BY <1>2, <1>5
<1>7. Gesamt(D \ {Erste(D)}) \in Nat
  BY <1>3, <1>6
<1>8. Erste(D).betrag \in Nat
  BY <1>3, <1>5 DEF Bezahlt
<1>9. Gesamt(D) = Erste(D).betrag + Gesamt(D \ {Erste(D)})
  BY <1>3, <1>4, GesamtSchritt
<1>10. QED
  BY <1>3, <1>7, <1>8, <1>9

\* The order in which the rows are summed up does not matter.
LEMMA GesamtOhne ==
  ASSUME NEW S, Bezahlt(S), NEW x \in S
  PROVE  Gesamt(S) = x.betrag + Gesamt(S \ {x})
<1> DEFINE T == {D \in SUBSET S : \E d \in D : Gesamt(D) # d.betrag + Gesamt(D \ {d})}
<1>1. SUFFICES ASSUME T # {} PROVE FALSE
  OBVIOUS
<1>2. PICK D \in T : \A y \in T : ~ (y \subseteq D /\ y # D)
  <2>1. T \in SUBSET SUBSET S
    OBVIOUS
  <2> HIDE DEF T
  <2>2. QED
    BY <1>1, <2>1, Kleinste DEF Bezahlt
<1>3. \A E \in SUBSET S : IsFiniteSet(E) /\ Bezahlt(E) /\ Gesamt(E) \in Nat
  BY FS_Subset, GesamtTyp DEF Bezahlt
<1>4. D \in SUBSET S
  OBVIOUS
<1>5. PICK d \in D : Gesamt(D) # d.betrag + Gesamt(D \ {d})
  OBVIOUS
<1> DEFINE c == Erste(D)
<1>6. c \in D
  BY <1>5, ErsteDarin
<1>7. Gesamt(D) = c.betrag + Gesamt(D \ {c})
  BY <1>3, <1>4, <1>6, GesamtSchritt
<1>8. c # d
  BY <1>5, <1>7
<1>9. D \ {c} \notin T /\ D \ {d} \notin T
  BY <1>2, <1>6
<1>10. Gesamt(D \ {c}) = d.betrag + Gesamt((D \ {c}) \ {d})
  BY <1>4, <1>8, <1>9
<1>11. Gesamt(D \ {d}) = c.betrag + Gesamt((D \ {d}) \ {c})
  BY <1>4, <1>6, <1>8, <1>9
<1>12. (D \ {c}) \ {d} = (D \ {d}) \ {c}
  OBVIOUS
<1>13. /\ c.betrag \in Nat /\ d.betrag \in Nat
       /\ Gesamt((D \ {d}) \ {c}) \in Nat /\ Gesamt(D \ {c}) \in Nat /\ Gesamt(D \ {d}) \in Nat
  BY <1>3, <1>4, <1>6 DEF Bezahlt
<1> HIDE DEF c, T
<1>14. QED
  BY <1>5, <1>7, <1>10, <1>11, <1>12, <1>13

\* One more row adds its amount.
LEMMA GesamtMit ==
  ASSUME NEW S, Bezahlt(S), NEW x, x \notin S, x.betrag \in Nat
  PROVE  Gesamt(S \cup {x}) = x.betrag + Gesamt(S)
<1>1. Bezahlt(S \cup {x})
  BY FS_AddElement DEF Bezahlt
<1>2. (S \cup {x}) \ {x} = S
  OBVIOUS
<1>3. QED
  BY <1>1, <1>2, GesamtOhne

\* The rows of a type up to number n.
VomTyp(n, typ) == {y \in zeilen : y.nr <= n /\ y.typ = typ}

\* The balance that a row stores is what the receipts up to it add up to, less the
\* payments: what NieNegativ counts.
LEMMA SaldoIstSumme ==
  ASSUME zeilen \subseteq Zeile, IsFiniteSet(zeilen),
         \A z \in zeilen : z.nr >= 1 /\ Angeschlossen(z),
         \A y, z \in zeilen : y.nr = z.nr => y = z
  PROVE  \A z \in zeilen :
           z.bestandNach = Gesamt(VomTyp(z.nr, "einnahme")) - Gesamt(VomTyp(z.nr, "ausgabe"))
<1> DEFINE Stimmt(z) ==
             z.bestandNach = Gesamt(VomTyp(z.nr, "einnahme")) - Gesamt(VomTyp(z.nr, "ausgabe"))
           Bis(z) == {y \in zeilen : y.nr <= z.nr}
           T == {Bis(z) : z \in {y \in zeilen : ~ Stimmt(y)}}
<1>1. SUFFICES ASSUME T # {} PROVE FALSE
  <2>1. ASSUME NEW z \in zeilen, ~ Stimmt(z)
        PROVE  T # {}
    <3>1. Bis(z) \in T
      BY <2>1
    <3>2. QED
      BY <3>1
  <2> HIDE DEF T
  <2>2. QED
    BY <2>1
<1>2. PICK D \in T : \A y \in T : ~ (y \subseteq D /\ y # D)
  <2>1. T \in SUBSET SUBSET zeilen
    OBVIOUS
  <2> HIDE DEF T
  <2>2. QED
    BY <1>1, <2>1, Kleinste
<1>3. PICK z \in zeilen : ~ Stimmt(z) /\ D = Bis(z)
  OBVIOUS
<1>4. /\ z.nr \in Nat /\ z.nr >= 1 /\ z.betrag \in Nat /\ z.bestandNach \in Int
      /\ z.typ \in {"einnahme", "ausgabe"}
  BY DEF Zeile, Typen
<1>5. \A n, typ : Bezahlt(VomTyp(n, typ))
  BY FS_Subset DEF Bezahlt, VomTyp, Zeile
<1>6. \A n, typ : Gesamt(VomTyp(n, typ)) \in Nat
  BY <1>5, GesamtTyp
<1>7. \A n : n = z.nr - 1 => z \notin VomTyp(n, z.typ)
  BY <1>4 DEF VomTyp
<1> DEFINE n == z.nr - 1
<1>8. /\ VomTyp(z.nr, z.typ) = VomTyp(n, z.typ) \cup {z}
      /\ \A typ : typ # z.typ => VomTyp(z.nr, typ) = VomTyp(n, typ)
  <2>1. \A y \in zeilen : y.nr <= z.nr <=> y.nr <= n \/ y = z
    BY <1>4 DEF Zeile
  <2>2. QED
    BY <2>1 DEF VomTyp
<1>9. Gesamt(VomTyp(z.nr, z.typ)) = z.betrag + Gesamt(VomTyp(n, z.typ))
  BY <1>4, <1>5, <1>7, <1>8, GesamtMit
<1> DEFINE vorher == Gesamt(VomTyp(n, "einnahme")) - Gesamt(VomTyp(n, "ausgabe"))
<1>10. z.bestandNach # berechneKassenbestandNach(vorher, z.typ, z.betrag)
  <2>1. \/ /\ z.typ = "einnahme"
           /\ Gesamt(VomTyp(z.nr, "einnahme")) = z.betrag + Gesamt(VomTyp(n, "einnahme"))
           /\ Gesamt(VomTyp(z.nr, "ausgabe")) = Gesamt(VomTyp(n, "ausgabe"))
        \/ /\ z.typ = "ausgabe"
           /\ Gesamt(VomTyp(z.nr, "ausgabe")) = z.betrag + Gesamt(VomTyp(n, "ausgabe"))
           /\ Gesamt(VomTyp(z.nr, "einnahme")) = Gesamt(VomTyp(n, "einnahme"))
    BY <1>4, <1>8, <1>9
  <2>2. \A typ : Gesamt(VomTyp(n, typ)) \in Nat
    BY <1>6
  <2>3. z.bestandNach # Gesamt(VomTyp(z.nr, "einnahme")) - Gesamt(VomTyp(z.nr, "ausgabe"))
    BY <1>3
  <2> HIDE DEF n, T
  <2>4. QED
    BY <1>4, <2>1, <2>2, <2>3 DEF berechneKassenbestandNach, vorzeichen
<1>11. CASE z.nr = 1
  <2>1. \A typ : VomTyp(n, typ) = {}
    BY <1>11 DEF VomTyp, Zeile
  <2>2. \A typ : Gesamt(VomTyp(n, typ)) = 0
    BY <1>5, <2>1, GesamtSchritt DEF Bezahlt
  <2>3. z.bestandNach = berechneKassenbestandNach(0, z.typ, z.betrag)
    <3>1. \A y \in zeilen : y.nr # z.nr - 1
      BY <1>11 DEF Zeile
    <3>2. QED
      BY <3>1 DEF Angeschlossen
  <2> HIDE DEF n
  <2>4. vorher = 0
    BY <2>2
  <2>5. QED
    BY <1>10, <2>3, <2>4
<1>12. CASE z.nr # 1
  <2>1. PICK y \in zeilen :
          /\ y.nr = n
          /\ z.bestandNach = berechneKassenbestandNach(y.bestandNach, z.typ, z.betrag)
    BY <1>12 DEF Angeschlossen
  <2>2. Bis(y) \subseteq D /\ z \notin Bis(y) /\ z \in D
    BY <1>3, <1>4, <2>1 DEF Zeile
  <2>3. Stimmt(y)
    BY <1>2, <2>2
  <2>4. y.bestandNach = vorher
    BY <2>1, <2>3
  <2>5. QED
    BY <1>10, <2>1, <2>4
<1>13. QED
  BY <1>11, <1>12

LEMMA ZeilenEndlich == TypeOK /\ TabelleInv => IsFiniteSet(zeilen)
<1> SUFFICES ASSUME TypeOK, TabelleInv PROVE IsFiniteSet(zeilen)
  OBVIOUS
<1> DEFINE f == [z \in zeilen |-> z.nr]
<1>1. Anzahl \in Nat /\ \A z \in zeilen : z.nr \in 1 .. Anzahl
  BY JournalLesbar DEF Lesbar
<1>2. \A y, z \in zeilen : y.nr = z.nr => y = z
  BY DEF TabelleInv, Eindeutig
<1>3. f \in Injection(zeilen, 1 .. Anzahl)
  BY <1>1, <1>2 DEF Injection, IsInjective
<1>4. IsFiniteSet(1 .. Anzahl)
  BY <1>1, FS_Interval
<1>5. QED
  BY <1>3, <1>4, FS_Injection

\* The money in the till, counted from the amounts of the receipts and payments and not
\* from the stored balances, never falls below zero (create, update, storno).
THEOREM GeldNieNegativ ==
  ASSUME Seriell
  PROVE  Spec => []NieNegativ
<1>1. IInv => NieNegativ
  <2> SUFFICES ASSUME IInv PROVE NieNegativ
    OBVIOUS
  <2>1. TypeOK /\ TabelleInv /\ IsFiniteSet(zeilen)
    BY ZeilenEndlich DEF IInv
  <2>2. /\ zeilen \subseteq Zeile
        /\ \A z \in zeilen : z.nr >= 1 /\ z.bestandNach >= 0 /\ Angeschlossen(z)
        /\ \A y, z \in zeilen : y.nr = z.nr => y = z
    BY <2>1 DEF TypeOK, TabelleInv, Vergeben, Eindeutig
  <2>3. ASSUME NEW z \in zeilen
        PROVE  Gesamt(VomTyp(z.nr, "einnahme")) >= Gesamt(VomTyp(z.nr, "ausgabe"))
    <3>1. \A n, typ : Gesamt(VomTyp(n, typ)) \in Nat
      <4>1. \A n, typ : Bezahlt(VomTyp(n, typ))
        BY <2>1, <2>2, FS_Subset DEF Bezahlt, VomTyp, Zeile
      <4>2. QED
        BY <4>1, GesamtTyp
    <3>2. z.bestandNach = Gesamt(VomTyp(z.nr, "einnahme")) - Gesamt(VomTyp(z.nr, "ausgabe"))
      BY <2>1, <2>2, SaldoIstSumme
    <3>3. z.bestandNach >= 0
      BY <2>2
    <3>4. QED
      BY <3>1, <3>2, <3>3
  <2>4. \A S : MapThenSumSet(LAMBDA y : y.betrag, S) = Gesamt(S)
    BY GesamtIst
  <2>5. QED
    BY <2>3, <2>4 DEF NieNegativ, VomTyp
<1>2. QED
  BY <1>1, Induktion, PTL
===============================================================================
