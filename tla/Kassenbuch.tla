------------------------------ MODULE Kassenbuch ------------------------------
(***************************************************************************)
(* The cash book service of one tenant (kassenbuch.service.ts): the table  *)
(* kassenbuch_eintraege and the HTTP requests that work on it.  Between    *)
(* two awaits a request runs alone, so each database call is one step and  *)
(* requests interleave at the calls, with the row they have in memory in   *)
(* entitaet.  repo.save makes the stored row equal to the one in memory,   *)
(* whatever happened to it meanwhile, and inserts it again when it is gone *)
(* (its own comparing SELECT and the write are one step here); the two     *)
(* unique indexes of the table make it fail, and withUniqueRetry then      *)
(* repeats the operation.  Audit entries and texts are left out.           *)
(***************************************************************************)
EXTENDS FiniteSetsExt, KassenbuchRegeln

CONSTANTS
  Slots,             \* the requests the server works on at the same time
  Betraege,          \* the amounts, in cents, a request may book
  Retries,           \* withUniqueRetry's retries (5 in the code)
  MaxEintraege,      \* bound: how many rows are ever inserted
  MaxUhr,            \* bound: the last instant of the clock
  Gleichzeitig,      \* the operations that may overlap with others: the code
                     \* overlaps all of them, an operation that is not listed
                     \* is only started alone and runs alone
  Vorausdatierung    \* whether requests name booking dates in the future

Operationen ==
  {"create", "update", "remove", "festschreiben", "festschreibenAlle", "storno"}

\* The operations that only add rows or set festgeschrieben.
Fortschreibend == {"create", "festschreiben", "festschreibenAlle", "storno"}

ASSUME KassenbuchAssumption ==
  /\ Betraege \subseteq Nat \ {0}
  /\ Retries \in Nat /\ MaxEintraege \in Nat /\ MaxUhr \in Nat \ {0}
  /\ Gleichzeitig \subseteq Operationen
  /\ Vorausdatierung \in BOOLEAN

VARIABLES
  zeilen,     \* the rows of the table
  letzteId,   \* the id of the row inserted last; ids are never given twice
  uhr,        \* the server's clock
  ort,        \* where in its operation each request waits
  auftrag,    \* what each request was asked to do
  entitaet,   \* the row each request holds in memory
  versuch     \* how often withUniqueRetry has repeated the operation

vars == <<zeilen, letzteId, uhr, ort, auftrag, entitaet, versuch>>

Zeile == [id : Nat, nr : Nat, datum : Nat, typ : Typen, betrag : Nat,
          bestandNach : Int, fest : BOOLEAN, stornoVon : Nat]

\* "No row": the balance and the number a first entry starts from.  stornoVon = 0
\* is the column's NULL.
Leer == [id |-> 0, nr |-> 0, datum |-> 0, typ |-> "einnahme", betrag |-> 0,
         bestandNach |-> 0, fest |-> FALSE, stornoVon |-> 0]

Auftrag == [op : Operationen, id : Nat, typ : Typen, betrag : Nat, datum : Nat]

\* A task without a payload; Ruhe is that of a slot that is not in use.
FuerEintrag(op, id) ==
  [op |-> op, id |-> id, typ |-> "einnahme", betrag |-> 0, datum |-> 0]

Ruhe == FuerEintrag("create", 0)

Orte == {"bereit", "finden", "pruefen", "vorgaenger", "doppelt", "lesen",
         "schreiben", "schonStorniert"}

-------------------------------------------------------------------------------
(***************************************************************************)
(* The table.                                                              *)
(***************************************************************************)
loadLetzten ==
  IF zeilen = {} THEN Leer ELSE CHOOSE z \in zeilen : \A y \in zeilen : y.nr <= z.nr

vorgaengerBestand(nr) ==
  LET davor == {y \in zeilen : y.nr < nr}
  IN IF davor = {} THEN 0
     ELSE (CHOOSE z \in davor : \A y \in davor : y.nr <= z.nr).bestandNach

\* (Mutants: the table without one of its two unique indexes.)
KollidiertOhneNummernIndex(z) ==
  \E y \in zeilen : y.id # z.id /\ z.stornoVon # 0 /\ y.stornoVon = z.stornoVon

KollidiertOhneStornoIndex(z) == \E y \in zeilen : y.id # z.id /\ y.nr = z.nr

\* The unique indexes (tenantId, laufendeNummer) and, on counter-entries only,
\* (tenantId, stornoVonId).
Kollidiert(z) ==
  \E y \in zeilen :
    /\ y.id # z.id
    /\ y.nr = z.nr \/ (z.stornoVon # 0 /\ y.stornoVon = z.stornoVon)

save(z) == zeilen' = {y \in zeilen : y.id # z.id} \cup {z}

-------------------------------------------------------------------------------
(***************************************************************************)
(* The course of a request.                                                *)
(***************************************************************************)
AlleBereit == \A t \in Slots : ort[t] = "bereit"

DarfBeginnen(op) ==
  \/ AlleBereit
  \/ /\ op \in Gleichzeitig
     /\ \A t \in Slots : ort[t] # "bereit" => auftrag[t].op \in Gleichzeitig

Einfuegende == {t \in Slots : ort[t] # "bereit" /\ auftrag[t].op \in {"create", "storno"}}

Weiter(s, o, z) ==
  /\ ort' = [ort EXCEPT ![s] = o]
  /\ entitaet' = [entitaet EXCEPT ![s] = z]
  /\ UNCHANGED <<uhr, auftrag, versuch>>

\* The handler returns or throws: the request is over.
Antworte(s) ==
  /\ ort' = [ort EXCEPT ![s] = "bereit"]
  /\ auftrag' = [auftrag EXCEPT ![s] = Ruhe]
  /\ entitaet' = [entitaet EXCEPT ![s] = Leer]
  /\ versuch' = [versuch EXCEPT ![s] = 0]
  /\ UNCHANGED uhr

\* (Mutant: repeating only the INSERT, for ever.)
WiederholeNurInsert(s, o, z) == UNCHANGED vars

\* A unique violation: the next attempt starts at o with z, the part of the row
\* that was computed before the loop; after the last attempt the error leaves it.
Wiederhole(s, o, z) ==
  /\ versuch[s] < Retries
  /\ versuch' = [versuch EXCEPT ![s] = @ + 1]
  /\ ort' = [ort EXCEPT ![s] = o]
  /\ entitaet' = [entitaet EXCEPT ![s] = z]
  /\ UNCHANGED <<zeilen, letzteId, uhr, auftrag>>

Nimm(s, a, o) ==
  /\ ort[s] = "bereit"
  /\ DarfBeginnen(a.op)
  /\ ort' = [ort EXCEPT ![s] = o]
  /\ auftrag' = [auftrag EXCEPT ![s] = a]
  /\ UNCHANGED <<zeilen, letzteId, uhr, entitaet, versuch>>

Bei(s, op, o) == ort[s] = o /\ auftrag[s].op = op

\* The row of the first query of update, remove, festschreiben and storno.
Gefunden(s) == {z \in zeilen : z.id = auftrag[s].id}

NochNicht(s) == Antworte(s) /\ UNCHANGED <<zeilen, letzteId>>

-------------------------------------------------------------------------------
(***************************************************************************)
(* create                                                                  *)
(***************************************************************************)
Buchungsdaten == {0} \cup (IF Vorausdatierung THEN 1 .. MaxUhr ELSE 1 .. uhr)

NimmCreate(s) ==
  /\ Cardinality(Einfuegende) < MaxEintraege - letzteId
  /\ \E typ \in Typen, betrag \in Betraege, datum \in Buchungsdaten :
       Nimm(s, [op |-> "create", id |-> 0, typ |-> typ, betrag |-> betrag,
                datum |-> datum], "lesen")

\* (Mutant: no look at the last row's date.)
NieRueckdatiert(datum, last) == FALSE

IstRueckdatierung(datum, last) == datum < last.datum

\* Reads the last row and computes the new one from it, or refuses (400).
CreateLesen(s) ==
  LET a == auftrag[s]
      last == loadLetzten
      datum == IF a.datum = 0 THEN uhr ELSE a.datum
  IN /\ Bei(s, "create", "lesen")
     /\ UNCHANGED <<zeilen, letzteId>>
     /\ \/ /\ \/ IstRueckdatierung(datum, last)
              \/ wuerdeBestandNegativ(last.bestandNach, a.typ, a.betrag)
           /\ Antworte(s)
        \/ /\ ~ IstRueckdatierung(datum, last)
           /\ ~ wuerdeBestandNegativ(last.bestandNach, a.typ, a.betrag)
           /\ Weiter(s, "schreiben",
                [id |-> 0, nr |-> last.nr + 1, datum |-> datum, typ |-> a.typ,
                 betrag |-> a.betrag,
                 bestandNach |->
                   berechneKassenbestandNach(last.bestandNach, a.typ, a.betrag),
                 fest |-> FALSE, stornoVon |-> 0])

\* (Mutant: the number is drawn at the INSERT, the balance before it.)
FuegeEinNeueNummer(s) ==
  LET z == [entitaet[s] EXCEPT !.id = letzteId + 1, !.nr = loadLetzten.nr + 1]
  IN /\ ~ Kollidiert(z)
     /\ save(z)
     /\ letzteId' = letzteId + 1
     /\ Antworte(s)

\* INSERT: a fresh id and no collision with a unique index.
FuegeEin(s) ==
  LET z == [entitaet[s] EXCEPT !.id = letzteId + 1]
  IN /\ ~ Kollidiert(z)
     /\ save(z)
     /\ letzteId' = letzteId + 1
     /\ Antworte(s)

CreateSchreiben(s) ==
  /\ Bei(s, "create", "schreiben")
  /\ \/ FuegeEin(s)
     \/ /\ Kollidiert(entitaet[s])
        /\ \/ Wiederhole(s, "lesen", Leer)
           \/ versuch[s] = Retries /\ NochNicht(s)

-------------------------------------------------------------------------------
(***************************************************************************)
(* update and remove: only the last row, and only while it is a draft      *)
(* (assertBearbeitbar looks at the row found first, then at the last one). *)
(* An update that leaves a field out repeats the old value, one of those   *)
(* it may name.                                                            *)
(***************************************************************************)
NimmAenderung(s) ==
  \E id \in 1 .. letzteId :
    \/ Nimm(s, FuerEintrag("remove", id), "finden")
    \/ \E typ \in Typen, betrag \in Betraege :
         Nimm(s, [op |-> "update", id |-> id, typ |-> typ, betrag |-> betrag,
                  datum |-> 0], "finden")

\* (Mutant: festgeschrieben is not looked at.)
AenderungFindenOhnePruefung(s) ==
  /\ Bei(s, "update", "finden") \/ Bei(s, "remove", "finden")
  /\ UNCHANGED <<zeilen, letzteId>>
  /\ \/ \E z \in Gefunden(s) : Weiter(s, "pruefen", z)
     \/ Gefunden(s) = {} /\ Antworte(s)

AenderungFinden(s) ==
  /\ Bei(s, "update", "finden") \/ Bei(s, "remove", "finden")
  /\ UNCHANGED <<zeilen, letzteId>>
  /\ \/ \E z \in Gefunden(s) : ~ z.fest /\ Weiter(s, "pruefen", z)
     \/ (\A z \in Gefunden(s) : z.fest) /\ Antworte(s)

AenderungPruefen(s) ==
  /\ Bei(s, "update", "pruefen") \/ Bei(s, "remove", "pruefen")
  /\ UNCHANGED <<zeilen, letzteId>>
  /\ \/ /\ loadLetzten.id = entitaet[s].id
        /\ Weiter(s, IF auftrag[s].op = "update" THEN "vorgaenger" ELSE "schreiben",
                  entitaet[s])
     \/ loadLetzten.id # entitaet[s].id /\ Antworte(s)

UpdateVorgaenger(s) ==
  LET a == auftrag[s]
      vorher == vorgaengerBestand(entitaet[s].nr)
  IN /\ Bei(s, "update", "vorgaenger")
     /\ UNCHANGED <<zeilen, letzteId>>
     /\ \/ wuerdeBestandNegativ(vorher, a.typ, a.betrag) /\ Antworte(s)
        \/ /\ ~ wuerdeBestandNegativ(vorher, a.typ, a.betrag)
           /\ Weiter(s, "schreiben",
                [entitaet[s] EXCEPT !.typ = a.typ, !.betrag = a.betrag,
                   !.bestandNach = berechneKassenbestandNach(vorher, a.typ, a.betrag)])

\* Saves the row as it was loaded, festgeschrieben included.
UpdateSchreiben(s) ==
  /\ Bei(s, "update", "schreiben")
  /\ \/ /\ ~ Kollidiert(entitaet[s])
        /\ save(entitaet[s])
        /\ Antworte(s)
        /\ UNCHANGED letzteId
     \/ /\ Kollidiert(entitaet[s])
        /\ \/ Wiederhole(s, "finden", Leer)
           \/ versuch[s] = Retries /\ NochNicht(s)

RemoveSchreiben(s) ==
  /\ Bei(s, "remove", "schreiben")
  /\ zeilen' = {z \in zeilen : z.id # entitaet[s].id}
  /\ Antworte(s)
  /\ UNCHANGED letzteId

-------------------------------------------------------------------------------
(***************************************************************************)
(* festschreiben and festschreibenAlle                                     *)
(***************************************************************************)
NimmFestschreiben(s) ==
  \/ \E id \in 1 .. letzteId :
       Nimm(s, FuerEintrag("festschreiben", id), "finden")
  \/ Nimm(s, FuerEintrag("festschreibenAlle", 0), "schreiben")

FestschreibenFinden(s) ==
  /\ Bei(s, "festschreiben", "finden")
  /\ UNCHANGED <<zeilen, letzteId>>
  /\ \/ \E z \in Gefunden(s) : ~ z.fest /\ Weiter(s, "schreiben", z)
     \/ (\A z \in Gefunden(s) : z.fest) /\ Antworte(s)

SchreibeFest(Z) == zeilen' = (zeilen \ Z) \cup {[z EXCEPT !.fest = TRUE] : z \in Z}

\* (Mutant: fixes the one entry only.)
FestschreibenNurZiel(s) ==
  /\ Bei(s, "festschreiben", "schreiben")
  /\ SchreibeFest({z \in zeilen : ~ z.fest /\ z.nr = entitaet[s].nr})
  /\ Antworte(s)
  /\ UNCHANGED letzteId

\* One conditional UPDATE fixes the drafts up to the number read before.
FestschreibenSchreiben(s) ==
  /\ Bei(s, "festschreiben", "schreiben")
  /\ SchreibeFest({z \in zeilen : ~ z.fest /\ z.nr <= entitaet[s].nr})
  /\ Antworte(s)
  /\ UNCHANGED letzteId

FestschreibenAlle(s) ==
  /\ Bei(s, "festschreibenAlle", "schreiben")
  /\ SchreibeFest({z \in zeilen : ~ z.fest})
  /\ Antworte(s)
  /\ UNCHANGED letzteId

-------------------------------------------------------------------------------
(***************************************************************************)
(* storno                                                                  *)
(***************************************************************************)
NimmStorno(s) ==
  /\ Cardinality(Einfuegende) < MaxEintraege - letzteId
  /\ \E id \in 1 .. letzteId :
       Nimm(s, FuerEintrag("storno", id), "finden")

\* A counter-entry that has no place in the journal yet.
Gegenbuchung(typ, betrag, von) ==
  [id |-> 0, nr |-> 0, datum |-> 0, typ |-> typ, betrag |-> betrag, bestandNach |-> 0,
   fest |-> TRUE, stornoVon |-> von]

\* (Mutant: a draft can be reversed too.)
StornoFindenAuchEntwurf(s) ==
  /\ Bei(s, "storno", "finden")
  /\ UNCHANGED <<zeilen, letzteId>>
  /\ \/ \E z \in Gefunden(s) :
          /\ z.stornoVon = 0
          /\ Weiter(s, "doppelt", Gegenbuchung(gegenTyp(z.typ), z.betrag, z.id))
     \/ /\ \A z \in Gefunden(s) : z.stornoVon # 0
        /\ Antworte(s)

\* Only a fixed entry that is no counter-entry itself can be reversed; direction
\* and amount of the counter-entry are taken from it once, before the loop.
StornoFinden(s) ==
  /\ Bei(s, "storno", "finden")
  /\ UNCHANGED <<zeilen, letzteId>>
  /\ \/ \E z \in Gefunden(s) :
          /\ z.fest /\ z.stornoVon = 0
          /\ Weiter(s, "doppelt", Gegenbuchung(gegenTyp(z.typ), z.betrag, z.id))
     \/ /\ \A z \in Gefunden(s) : ~ z.fest \/ z.stornoVon # 0
        /\ Antworte(s)

StornoDoppelt(s) ==
  /\ Bei(s, "storno", "doppelt")
  /\ UNCHANGED <<zeilen, letzteId>>
  /\ Weiter(s, IF \E z \in zeilen : z.stornoVon = auftrag[s].id
               THEN "schonStorniert" ELSE "lesen", entitaet[s])

StornoLesen(s) ==
  LET e == entitaet[s]
      last == loadLetzten
  IN /\ Bei(s, "storno", "lesen")
     /\ UNCHANGED <<zeilen, letzteId>>
     /\ \/ wuerdeBestandNegativ(last.bestandNach, e.typ, e.betrag) /\ Antworte(s)
        \/ /\ ~ wuerdeBestandNegativ(last.bestandNach, e.typ, e.betrag)
           /\ Weiter(s, "schreiben",
                [id |-> 0, nr |-> last.nr + 1, datum |-> uhr, typ |-> e.typ,
                 betrag |-> e.betrag,
                 bestandNach |->
                   berechneKassenbestandNach(last.bestandNach, e.typ, e.betrag),
                 fest |-> TRUE, stornoVon |-> e.stornoVon])

\* Every unique violation that outlives the retries is reported as "bereits
\* storniert", whichever of the two indexes it came from.
StornoSchreiben(s) ==
  /\ Bei(s, "storno", "schreiben")
  /\ \/ FuegeEin(s)
     \/ /\ Kollidiert(entitaet[s])
        /\ \/ Wiederhole(s, "doppelt", Gegenbuchung(entitaet[s].typ, entitaet[s].betrag,
                                                 entitaet[s].stornoVon))
           \/ /\ versuch[s] = Retries
              /\ Weiter(s, "schonStorniert", entitaet[s])
              /\ UNCHANGED <<zeilen, letzteId>>

\* The 409 "Dieser Eintrag wurde bereits storniert" goes out.
StornoAblehnen(s) == Bei(s, "storno", "schonStorniert") /\ NochNicht(s)

-------------------------------------------------------------------------------
Init ==
  /\ zeilen = {}
  /\ letzteId = 0
  /\ uhr = 1
  /\ ort = [s \in Slots |-> "bereit"]
  /\ auftrag = [s \in Slots |-> Ruhe]
  /\ entitaet = [s \in Slots |-> Leer]
  /\ versuch = [s \in Slots |-> 0]

Tick ==
  /\ uhr < MaxUhr
  /\ uhr' = uhr + 1
  /\ UNCHANGED <<zeilen, letzteId, ort, auftrag, entitaet, versuch>>

Beginn(s) == NimmCreate(s) \/ NimmAenderung(s) \/ NimmFestschreiben(s) \/ NimmStorno(s)

Schritt(s) ==
  \/ CreateLesen(s) \/ CreateSchreiben(s)
  \/ AenderungFinden(s) \/ AenderungPruefen(s)
  \/ UpdateVorgaenger(s) \/ UpdateSchreiben(s) \/ RemoveSchreiben(s)
  \/ FestschreibenFinden(s) \/ FestschreibenSchreiben(s) \/ FestschreibenAlle(s)
  \/ StornoFinden(s) \/ StornoDoppelt(s) \/ StornoLesen(s)
  \/ StornoSchreiben(s) \/ StornoAblehnen(s)

Next == Tick \/ \E s \in Slots : Beginn(s) \/ Schritt(s)

\* The event loop resumes every handler whose query has answered.
Fairness == \A s \in Slots : WF_vars(Schritt(s))

Spec == Init /\ [][Next]_vars
FairSpec == Spec /\ Fairness

-------------------------------------------------------------------------------
(***************************************************************************)
(* Properties.                                                             *)
(***************************************************************************)

\* Every row, every request and every history variable has the form its code gives it.
TypeOK ==
  /\ zeilen \subseteq Zeile
  /\ letzteId \in Nat
  /\ uhr \in Nat
  /\ ort \in [Slots -> Orte]
  /\ auftrag \in [Slots -> Auftrag]
  /\ entitaet \in [Slots -> Zeile]
  /\ versuch \in [Slots -> 0 .. Retries]

\* laufendeNummer is gap-free and unique: the numbers in use are 1, 2, ... up to
\* the highest, one row each (entity comment "Lueckenlose, fortlaufende
\* laufendeNummer"), whatever mix of requests created and reversed entries.
Lueckenlos ==
  /\ \A z \in zeilen : \A k \in 1 .. z.nr : \E y \in zeilen : y.nr = k
  /\ \A y, z \in zeilen : y.nr = z.nr => y = z

\* Every row's balance is its predecessor's balance plus or minus its amount
\* ("Verkettung"): no request stored a balance computed from an outdated last row.
Verkettung ==
  \A z \in zeilen :
    \/ z.nr = 1 /\ z.bestandNach = berechneKassenbestandNach(0, z.typ, z.betrag)
    \/ \E y \in zeilen :
         /\ y.nr = z.nr - 1
         /\ z.bestandNach = berechneKassenbestandNach(y.bestandNach, z.typ, z.betrag)

\* The money in the till: all receipts minus all payments never fall below zero
\* after any number, counted from the amounts and not from the stored balances.
NieNegativ ==
  \A z \in zeilen :
    LET Summe(typ) == MapThenSumSet(LAMBDA y : y.betrag,
                                    {y \in zeilen : y.nr <= z.nr /\ y.typ = typ})
    IN Summe("einnahme") >= Summe("ausgabe")

\* A counter-entry is fixed from the start and mirrors a fixed ordinary entry with
\* a lower number; an entry never has two counter-entries.
StornoSpiegelt ==
  \A g \in zeilen : g.stornoVon # 0 =>
    /\ g.fest
    /\ \E z \in zeilen :
         /\ z.id = g.stornoVon /\ z.fest /\ z.stornoVon = 0 /\ z.nr < g.nr
         /\ g.typ = gegenTyp(z.typ) /\ g.betrag = z.betrag
    /\ \A h \in zeilen : h.stornoVon = g.stornoVon => h = g

\* A fixed row never changes and never disappears (entity comment: "ein
\* FESTGESCHRIEBENER Eintrag darf nicht mehr geaendert oder geloescht werden").
Unveraenderbar == [][\A z \in zeilen : z.fest => z \in zeilen']_vars

\* Booking dates follow the numbers (entity comment: "Chronologisch >= Datum des
\* Vorgaengers").
Chronologie == \A y, z \in zeilen : y.nr < z.nr => y.datum <= z.datum

\* A stored counter-entry is final even while drafts are changed, deleted and
\* fixed around it: no stale row in some request's memory ever overwrites it
\* (comment in storno: "eine Korrektur ist endgueltig").
GegenbuchungEndgueltig == [][\A z \in zeilen : z.stornoVon # 0 => z \in zeilen']_vars

\* However requests race, an entry is reversed at most once and a counter-entry
\* never: the look before the insert alone does not ensure it.
HoechstensEineGegenbuchung ==
  \A g, h \in zeilen :
    g.stornoVon # 0 => /\ h.stornoVon = g.stornoVon => h = g
                       /\ h.id = g.stornoVon => h.stornoVon = 0

\* A storno that is answered with "bereits storniert" found its entry reversed.
SchonStorniertStimmt ==
  \A s \in Slots : ort[s] = "schonStorniert" =>
    \E z \in zeilen : z.stornoVon = auftrag[s].id

\* Every request is answered: withUniqueRetry gives up after its retries, so no
\* request goes round for ever while others keep taking its number.
JederWirdBeantwortet == \A s \in Slots : ort[s] # "bereit" ~> ort[s] = "bereit"

-------------------------------------------------------------------------------
(***************************************************************************)
(* The journal the table stands for: position n holds the row numbered n,  *)
(* and a counter-entry points to its original's number instead of its id.  *)
(***************************************************************************)
Nr(n) == CHOOSE z \in zeilen : z.nr = n

NrVonId(id) == (CHOOSE z \in zeilen : z.id = id).nr

JournalDerZeilen ==
  [n \in 1 .. Cardinality(zeilen) |->
     LET z == Nr(n)
     IN [typ |-> z.typ, betrag |-> z.betrag, saldo |-> z.bestandNach, fest |-> z.fest,
         storno |-> IF z.stornoVon = 0 THEN 0 ELSE NrVonId(z.stornoVon)]]

J == INSTANCE Kassenjournal WITH journal <- JournalDerZeilen

\* The table with its concurrent requests implements the atomic journal.
ImplementiertJournal == J!JSpec
===============================================================================
