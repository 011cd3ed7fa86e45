--------------------------- MODULE RechnungenProofs ---------------------------
(***************************************************************************)
(* Theorems about Rechnungen for every number of requests, amounts,        *)
(* retries and bounds.  The first part needs no assumption: requests       *)
(* overlap and crash at will.  In the second, requests on the same         *)
(* invoice do not overlap (JeBelegEinzeln).                                *)
(***************************************************************************)
EXTENDS Rechnungen, FiniteSetTheorems, TLAPS

-------------------------------------------------------------------------------
(***************************************************************************)
(* The table as a sequence.                                                *)
(***************************************************************************)
\* Append keeps the old rows and puts the new one behind them.
LEMMA Anhaengen ==
  ASSUME NEW q \in Seq(Beleg), NEW b \in Beleg
  PROVE  /\ Append(q, b) \in Seq(Beleg)
         /\ Len(Append(q, b)) = Len(q) + 1
         /\ \A i \in 1 .. Len(q) : Append(q, b)[i] = q[i]
         /\ Append(q, b)[Len(q) + 1] = b
  OBVIOUS

\* An update of one row keeps the others.
LEMMA Ersetzen ==
  ASSUME NEW q \in Seq(Beleg), NEW id \in 1 .. Len(q), NEW b \in Beleg,
         NEW r, r = [q EXCEPT ![id] = b]
  PROVE  /\ r \in Seq(Beleg)
         /\ Len(r) = Len(q)
         /\ r[id] = b
         /\ \A i \in 1 .. Len(q) : i # id => r[i] = q[i]
  OBVIOUS

LEMMA ZeilenTyp ==
  ASSUME TypeOK
  PROVE  /\ Len(belege) \in Nat
         /\ \A i \in IDs : belege[i] \in Beleg
  BY DEF TypeOK, IDs

-------------------------------------------------------------------------------
(***************************************************************************)
(* The inductive invariant of the corrections.                             *)
(***************************************************************************)
\* The Stornorechnungen in the table.
StornoTabelle ==
  \A g \in IDs : belege[g].stornoVon # 0 =>
    /\ belege[g].status = "bezahlt"
    /\ belege[g].stornoVon \in IDs
    /\ belege[belege[g].stornoVon].stornoVon = 0
    /\ \A h \in IDs : belege[h].stornoVon = belege[g].stornoVon => h = g

\* A request about to write a row back has its stornoVon right, and a Stornorechnung
\* is written back as it is.
Rueckschrift(s) ==
  \/ ort[s] \in {"schreiben", "festsetzen"}
  \/ ort[s] = "zaehlen" /\ auftrag[s].op = "changeStatus"
  => LET b == belege[auftrag[s].id]
     IN /\ entitaet[s].stornoVon = b.stornoVon
        /\ b.stornoVon # 0 => ort[s] = "schreiben" /\ entitaet[s] = b

\* A request about to insert a Stornorechnung has one for an ordinary invoice.
Korrektur(s) ==
  auftrag[s].op = "stornorechnung" /\ ort[s] \in {"doppelt", "zaehlen", "einfuegen", "verweis"}
  => /\ entitaet[s].stornoVon = auftrag[s].id
     /\ entitaet[s].status = "bezahlt"
     /\ belege[auftrag[s].id].stornoVon = 0
     /\ ort[s] = "verweis" => \E i \in IDs : belege[i].stornoVon = auftrag[s].id

Stand(s) ==
  ort[s] # "bereit" => auftrag[s].id \in IDs /\ Rueckschrift(s) /\ Korrektur(s)

IInv == TypeOK /\ StornoTabelle /\ \A s \in Slots : Stand(s)

\* What no step does to the rows.
Bewahrt ==
  /\ Len(belege') \in Nat /\ Len(belege) <= Len(belege')
  /\ \A i \in IDs : /\ belege'[i].stornoVon = belege[i].stornoVon
                    /\ belege[i].stornoVon # 0 => belege'[i] = belege[i]

\* A step of s leaves the other requests alone.
Nur(s) ==
  \A t \in Slots \ {s} :
    ort'[t] = ort[t] /\ auftrag'[t] = auftrag[t] /\ entitaet'[t] = entitaet[t]

TypRest ==
  /\ jahr' \in Nat
  /\ ort' \in [Slots -> Orte]
  /\ auftrag' \in [Slots -> Auftrag]
  /\ entitaet' \in [Slots -> Beleg]
  /\ versuch' \in [Slots -> 0 .. Retries]

LEMMA EntwurfTyp ==
  /\ \A betrag \in Int : Entwurf(betrag) \in Beleg
  /\ Ruhe \in Auftrag
  BY DEF Entwurf, Beleg, Status, Ruhe, Fuer, Auftrag, Operationen

\* A request that a step of another one leaves alone keeps what it relies on.
LEMMA FremderStand ==
  ASSUME TypeOK, Bewahrt, NEW t \in Slots, Stand(t),
         ort'[t] = ort[t], auftrag'[t] = auftrag[t], entitaet'[t] = entitaet[t]
  PROVE  Stand(t)'
<1> SUFFICES ASSUME ort[t] # "bereit"
             PROVE  auftrag[t].id \in IDs' /\ Rueckschrift(t)' /\ Korrektur(t)'
  BY DEF Stand
<1> DEFINE id == auftrag[t].id
<1>1. Len(belege) \in Nat /\ \A i \in IDs : i \in IDs'
  BY ZeilenTyp DEF Bewahrt, IDs
<1>2. id \in IDs /\ Rueckschrift(t) /\ Korrektur(t)
  BY DEF Stand
<1>3. /\ belege'[id].stornoVon = belege[id].stornoVon
      /\ belege[id].stornoVon # 0 => belege'[id] = belege[id]
  BY <1>2 DEF Bewahrt
<1>4. Rueckschrift(t)'
  BY <1>2, <1>3 DEF Rueckschrift
<1>5. Korrektur(t)'
  BY <1>1, <1>2, <1>3 DEF Korrektur, Bewahrt
<1>6. QED
  BY <1>1, <1>2, <1>4, <1>5

\* The corrections in the table survive an update that preserves the rows.
LEMMA GleicheTabelle ==
  ASSUME TypeOK, StornoTabelle, Bewahrt, Len(belege') = Len(belege)
  PROVE  StornoTabelle'
<1>1. IDs' = IDs
  BY DEF IDs
<1>2. QED
  BY <1>1 DEF StornoTabelle, Bewahrt

LEMMA Unveraendert ==
  ASSUME TypeOK, belege' = belege
  PROVE  Bewahrt
  BY ZeilenTyp DEF Bewahrt

LEMMA AntwortTyp ==
  ASSUME TypeOK, NEW s \in Slots, Antworte(s)
  PROVE  TypRest /\ Nur(s) /\ Stand(s)'
<1>1. ASSUME Retries \in Nat PROVE TypRest
  BY <1>1, EntwurfTyp DEF TypeOK, Antworte, TypRest, Orte
<1>2. Nur(s)
  BY DEF TypeOK, Antworte, Nur
<1>3. Stand(s)'
  BY DEF TypeOK, Antworte, Stand
<1>4. QED
  BY <1>1, <1>2, <1>3, RechnungenAssumption DEF RechnungenAssumption

LEMMA WeiterTyp ==
  ASSUME TypeOK, NEW s \in Slots, NEW o \in Orte, NEW b \in Beleg, Weiter(s, o, b)
  PROVE  /\ TypRest /\ Nur(s)
         /\ ort'[s] = o /\ entitaet'[s] = b /\ auftrag'[s] = auftrag[s]
  BY DEF TypeOK, Weiter, TypRest, Nur

LEMMA WiederholeTyp ==
  ASSUME TypeOK, NEW s \in Slots, NEW o \in Orte, Wiederhole(s, o)
  PROVE  /\ TypRest /\ Nur(s) /\ belege' = belege
         /\ \/ Stand(s)'
            \/ ort'[s] = o /\ entitaet'[s] = entitaet[s] /\ auftrag'[s] = auftrag[s]
<1>1. CASE Lehneab(s)
  BY <1>1, AntwortTyp DEF Lehneab
<1>2. CASE /\ versuch[s] < Retries
           /\ versuch' = [versuch EXCEPT ![s] = @ + 1]
           /\ ort' = [ort EXCEPT ![s] = o]
           /\ UNCHANGED <<belege, jahr, auftrag, entitaet>>
  BY <1>2, RechnungenAssumption DEF TypeOK, TypRest, Nur, RechnungenAssumption
<1>3. QED
  BY <1>1, <1>2 DEF Wiederhole

-------------------------------------------------------------------------------
(***************************************************************************)
(* Every step of a request preserves the invariant.                        *)
(***************************************************************************)
Gut(s) == TypeOK' /\ Bewahrt /\ StornoTabelle' /\ Nur(s) /\ Stand(s)'

\* A step that only reads.
LEMMA Lesend ==
  ASSUME IInv, NEW s \in Slots, belege' = belege, TypRest, Nur(s), Stand(s)'
  PROVE  Gut(s)
<1>1. Bewahrt
  BY Unveraendert DEF IInv
<1>2. StornoTabelle'
  BY <1>1, GleicheTabelle DEF IInv
<1>3. TypeOK'
  BY DEF IInv, TypeOK, TypRest
<1>4. QED
  BY <1>1, <1>2, <1>3 DEF Gut

\* A step that ends a request without a write.
LEMMA Ablehnend ==
  ASSUME IInv, NEW s \in Slots, Antworte(s), belege' = belege
  PROVE  Gut(s)
  BY AntwortTyp, Lesend DEF IInv

\* A step that writes one row back.
LEMMA Zurueckschreibend ==
  ASSUME IInv, NEW s \in Slots, NEW id \in IDs, NEW b \in Beleg,
         b.stornoVon = belege[id].stornoVon, b.stornoVon # 0 => b = belege[id],
         save(id, b), Antworte(s)
  PROVE  Gut(s)
<1>1. belege \in Seq(Beleg) /\ id \in 1 .. Len(belege)
  BY DEF IInv, TypeOK, IDs
<1>2. /\ belege' \in Seq(Beleg) /\ Len(belege') = Len(belege) /\ belege'[id] = b
      /\ \A i \in 1 .. Len(belege) : i # id => belege'[i] = belege[i]
  BY <1>1, Ersetzen DEF save
<1>3. Bewahrt
  BY <1>1, <1>2 DEF Bewahrt, IDs
<1>4. StornoTabelle'
  BY <1>2, <1>3, GleicheTabelle DEF IInv
<1>5. TypRest /\ Nur(s) /\ Stand(s)'
  BY AntwortTyp DEF IInv
<1>6. TypeOK'
  BY <1>2, <1>5 DEF TypeOK, TypRest
<1>7. QED
  BY <1>3, <1>4, <1>5, <1>6 DEF Gut

LEMMA UpdateFindenGut ==
  ASSUME IInv, NEW s \in Slots, UpdateFinden(s)
  PROVE  Gut(s)
<1> DEFINE id == auftrag[s].id
           b == belege[id]
           neu == [b EXCEPT !.betrag = auftrag[s].betrag]
<1>1. id \in IDs /\ b \in Beleg /\ auftrag[s] \in Auftrag /\ TypeOK
  BY ZeilenTyp DEF IInv, Stand, UpdateFinden, Bei, TypeOK
<1>2. CASE Antworte(s)
  BY <1>2, Ablehnend DEF UpdateFinden
<1>3. CASE ~ istFestgesetzt(b.status) /\ Weiter(s, "schreiben", neu)
  <2>1. neu \in Beleg /\ neu.stornoVon = b.stornoVon
    BY <1>1 DEF Beleg, Auftrag
  <2>2. b.stornoVon = 0
    BY <1>1, <1>3 DEF IInv, StornoTabelle, istFestgesetzt
  <2>3. /\ TypRest /\ Nur(s)
        /\ ort'[s] = "schreiben" /\ entitaet'[s] = neu /\ auftrag'[s] = auftrag[s]
    BY <1>1, <1>3, <2>1, WeiterTyp DEF Orte
  <2>4. belege' = belege
    BY DEF UpdateFinden
  <2>5. Stand(s)'
    BY <1>1, <2>1, <2>2, <2>3, <2>4 DEF Stand, Rueckschrift, Korrektur, IDs
  <2>6. QED
    BY <2>3, <2>4, <2>5, Lesend
<1>4. QED
  BY <1>2, <1>3 DEF UpdateFinden

LEMMA ChangeStatusFindenGut ==
  ASSUME IInv, NEW s \in Slots, ChangeStatusFinden(s)
  PROVE  Gut(s)
<1> DEFINE id == auftrag[s].id
           b == belege[id]
           neu == [b EXCEPT !.status = auftrag[s].status]
           muss == auftrag[s].status = "offen" /\ b.nummer = 0
           o == IF muss THEN "zaehlen" ELSE "schreiben"
<1>1. /\ id \in IDs /\ b \in Beleg /\ auftrag[s] \in Auftrag /\ TypeOK
      /\ auftrag[s].op = "changeStatus"
  BY ZeilenTyp DEF IInv, Stand, ChangeStatusFinden, Bei, TypeOK
<1>2. CASE Antworte(s)
  BY <1>2, Ablehnend DEF ChangeStatusFinden
<1>3. CASE ~ Abgeschlossen(b) /\ Weiter(s, o, neu)
  <2>1. neu \in Beleg /\ neu.stornoVon = b.stornoVon /\ b.stornoVon = 0
    BY <1>1, <1>3 DEF Beleg, Auftrag, Abgeschlossen
  <2>2. o \in Orte /\ o # "verweis"
    BY DEF Orte
  <2>3. TypRest /\ Nur(s) /\ ort'[s] = o /\ entitaet'[s] = neu /\ auftrag'[s] = auftrag[s]
    BY <1>1, <1>3, <2>1, <2>2, WeiterTyp
  <2>4. belege' = belege
    BY DEF ChangeStatusFinden
  <2>5. Stand(s)'
    BY <1>1, <2>1, <2>2, <2>3, <2>4 DEF Stand, Rueckschrift, Korrektur, IDs
  <2>6. QED
    BY <2>3, <2>4, <2>5, Lesend
<1>4. QED
  BY <1>2, <1>3 DEF ChangeStatusFinden

LEMMA MarkPaidFindenGut ==
  ASSUME IInv, NEW s \in Slots, MarkPaidFinden(s)
  PROVE  Gut(s)
<1> DEFINE id == auftrag[s].id
           b == belege[id]
           neu == [b EXCEPT !.status = "bezahlt"]
<1>1. /\ id \in IDs /\ b \in Beleg /\ TypeOK
      /\ auftrag[s].op = "markPaid"
  BY ZeilenTyp DEF IInv, Stand, MarkPaidFinden, Bei
<1>2. CASE Antworte(s)
  BY <1>2, Ablehnend DEF MarkPaidFinden
<1>3. CASE Weiter(s, "schreiben", neu)
  <2>1. neu \in Beleg /\ neu.stornoVon = b.stornoVon
    BY <1>1 DEF Beleg, Status
  <2>2. b.stornoVon # 0 => neu = b
    BY <1>1 DEF IInv, StornoTabelle, Beleg
  <2>3. /\ TypRest /\ Nur(s)
        /\ ort'[s] = "schreiben" /\ entitaet'[s] = neu /\ auftrag'[s] = auftrag[s]
    BY <1>1, <1>3, <2>1, WeiterTyp DEF Orte
  <2>4. belege' = belege
    BY DEF MarkPaidFinden
  <2>5. Stand(s)'
    BY <1>1, <2>1, <2>2, <2>3, <2>4 DEF Stand, Rueckschrift, Korrektur, IDs
  <2>6. QED
    BY <2>3, <2>4, <2>5, Lesend
<1>4. QED
  BY <1>2, <1>3 DEF MarkPaidFinden

LEMMA NummernTyp ==
  ASSUME TypeOK
  PROVE  \A j : /\ IsFiniteSet(Nummeriert(j))
                /\ Cardinality(Nummeriert(j)) \in Nat
<1> SUFFICES ASSUME NEW j
             PROVE  IsFiniteSet(Nummeriert(j)) /\ Cardinality(Nummeriert(j)) \in Nat
  OBVIOUS
<1>1. IsFiniteSet(IDs)
  BY ZeilenTyp, FS_Interval DEF IDs
<1>2. Nummeriert(j) \subseteq IDs
  BY DEF Nummeriert
<1>3. QED
  BY <1>1, <1>2, FS_Subset, FS_CardinalityType

LEMMA ZaehlenGut ==
  ASSUME IInv, NEW s \in Slots, ChangeStatusZaehlen(s) \/ StornorechnungZaehlen(s)
  PROVE  Gut(s)
<1> DEFINE neu == [entitaet[s] EXCEPT !.nummer = nextSequentialNumber, !.nrJahr = jahr]
           id == auftrag[s].id
<1>1. /\ TypeOK /\ id \in IDs /\ entitaet[s] \in Beleg /\ nextSequentialNumber \in Nat
      /\ jahr \in Nat /\ ort[s] = "zaehlen" /\ belege' = belege
  BY NummernTyp DEF IInv, Stand, TypeOK, nextSequentialNumber, ChangeStatusZaehlen,
                    StornorechnungZaehlen, Zaehlen, Bei
<1>2. neu \in Beleg /\ neu.stornoVon = entitaet[s].stornoVon /\ neu.status = entitaet[s].status
  BY <1>1 DEF Beleg
<1>3. Rueckschrift(s) /\ Korrektur(s)
  BY <1>1 DEF IInv, Stand
<1>4. CASE ChangeStatusZaehlen(s)
  <2>1. auftrag[s].op = "changeStatus" /\ Weiter(s, "festsetzen", neu)
    BY <1>4 DEF ChangeStatusZaehlen, Zaehlen, Bei
  <2>2. /\ TypRest /\ Nur(s)
        /\ ort'[s] = "festsetzen" /\ entitaet'[s] = neu /\ auftrag'[s] = auftrag[s]
    BY <1>1, <1>2, <2>1, WeiterTyp DEF Orte
  <2>3. belege[id].stornoVon = 0 /\ neu.stornoVon = 0
    BY <1>1, <1>2, <1>3, <2>1 DEF Rueckschrift
  <2>4. Stand(s)'
    BY <1>1, <2>1, <2>2, <2>3 DEF Stand, Rueckschrift, Korrektur, IDs
  <2>5. QED
    BY <1>1, <2>2, <2>4, Lesend
<1>5. CASE StornorechnungZaehlen(s)
  <2>1. auftrag[s].op = "stornorechnung" /\ Weiter(s, "einfuegen", neu)
    BY <1>5 DEF StornorechnungZaehlen, Zaehlen, Bei
  <2>2. /\ TypRest /\ Nur(s)
        /\ ort'[s] = "einfuegen" /\ entitaet'[s] = neu /\ auftrag'[s] = auftrag[s]
    BY <1>1, <1>2, <2>1, WeiterTyp DEF Orte
  <2>3. Stand(s)'
    BY <1>1, <1>2, <1>3, <2>1, <2>2 DEF Stand, Rueckschrift, Korrektur, IDs
  <2>4. QED
    BY <1>1, <2>2, <2>3, Lesend
<1>6. QED
  BY <1>4, <1>5

LEMMA ChangeStatusFestsetzenGut ==
  ASSUME IInv, NEW s \in Slots, ChangeStatusFestsetzen(s)
  PROVE  Gut(s)
<1> DEFINE id == auftrag[s].id
<1>1. /\ TypeOK /\ id \in IDs /\ entitaet[s] \in Beleg
      /\ ort[s] = "festsetzen" /\ auftrag[s].op = "changeStatus"
  BY DEF IInv, Stand, TypeOK, ChangeStatusFestsetzen, Bei
<1>2. belege[id].stornoVon = 0 /\ entitaet[s].stornoVon = 0
  BY <1>1 DEF IInv, Stand, Rueckschrift
<1>3. CASE save(id, entitaet[s]) /\ Antworte(s)
  BY <1>1, <1>2, <1>3, Zurueckschreibend
<1>4. CASE Wiederhole(s, "zaehlen")
  <2>1. /\ TypRest /\ Nur(s) /\ belege' = belege
        /\ \/ Stand(s)'
           \/ ort'[s] = "zaehlen" /\ entitaet'[s] = entitaet[s] /\ auftrag'[s] = auftrag[s]
    BY <1>1, <1>4, WiederholeTyp DEF Orte
  <2>2. Stand(s)'
    BY <1>1, <1>2, <2>1 DEF Stand, Rueckschrift, Korrektur, IDs
  <2>3. QED
    BY <2>1, <2>2, Lesend
<1>5. QED
  BY <1>3, <1>4 DEF ChangeStatusFestsetzen

LEMMA SchreibenGut ==
  ASSUME IInv, NEW s \in Slots, Schreiben(s)
  PROVE  Gut(s)
<1> DEFINE id == auftrag[s].id
<1>1. TypeOK /\ id \in IDs /\ entitaet[s] \in Beleg /\ ort[s] = "schreiben"
  BY DEF IInv, Stand, TypeOK, Schreiben
<1>2. Rueckschrift(s) /\ Korrektur(s)
  BY <1>1 DEF IInv, Stand
<1>3. CASE save(id, entitaet[s]) /\ Antworte(s)
  BY <1>1, <1>2, <1>3, Zurueckschreibend DEF Rueckschrift
<1>4. CASE Wiederhole(s, "schreiben")
  <2>1. /\ TypRest /\ Nur(s) /\ belege' = belege
        /\ \/ Stand(s)'
           \/ ort'[s] = "schreiben" /\ entitaet'[s] = entitaet[s] /\ auftrag'[s] = auftrag[s]
    BY <1>1, <1>4, WiederholeTyp DEF Orte
  <2>2. Stand(s)'
    BY <1>1, <1>2, <2>1 DEF Stand, Rueckschrift, Korrektur, IDs
  <2>3. QED
    BY <2>1, <2>2, Lesend
<1>5. CASE Lehneab(s)
  BY <1>5, Ablehnend DEF Lehneab
<1>6. QED
  BY <1>3, <1>4, <1>5 DEF Schreiben

LEMMA StornorechnungFindenGut ==
  ASSUME IInv, NEW s \in Slots, StornorechnungFinden(s)
  PROVE  Gut(s)
<1> DEFINE id == auftrag[s].id
           o == belege[id]
           neu == [nummer |-> 0, nrJahr |-> 0, status |-> "bezahlt",
                   betrag |-> - o.betrag, stornoVon |-> id, storniertDurch |-> 0]
<1>1. /\ TypeOK /\ id \in IDs /\ o \in Beleg /\ id \in Nat
      /\ auftrag[s].op = "stornorechnung" /\ belege' = belege
  BY ZeilenTyp DEF IInv, Stand, StornorechnungFinden, Bei, IDs
<1>2. CASE Antworte(s)
  BY <1>1, <1>2, Ablehnend
<1>3. CASE Stornierbar(o) /\ Weiter(s, "doppelt", neu)
  <2>1. neu \in Beleg /\ neu.stornoVon = id /\ neu.status = "bezahlt"
    BY <1>1 DEF Beleg, Status
  <2>2. o.stornoVon = 0
    BY <1>3 DEF Stornierbar
  <2>3. /\ TypRest /\ Nur(s)
        /\ ort'[s] = "doppelt" /\ entitaet'[s] = neu /\ auftrag'[s] = auftrag[s]
    BY <1>1, <1>3, <2>1, WeiterTyp DEF Orte
  <2>4. Stand(s)'
    BY <1>1, <2>1, <2>2, <2>3 DEF Stand, Rueckschrift, Korrektur, IDs
  <2>5. QED
    BY <1>1, <2>3, <2>4, Lesend
<1>4. QED
  BY <1>2, <1>3 DEF StornorechnungFinden

LEMMA StornorechnungDoppeltGut ==
  ASSUME IInv, NEW s \in Slots, StornorechnungDoppelt(s)
  PROVE  Gut(s)
<1>1. /\ TypeOK /\ auftrag[s].id \in IDs /\ entitaet[s] \in Beleg /\ ort[s] = "doppelt"
      /\ auftrag[s].op = "stornorechnung" /\ belege' = belege
  BY DEF IInv, Stand, StornorechnungDoppelt, Bei, TypeOK
<1>2. Korrektur(s)
  BY <1>1 DEF IInv, Stand
<1>3. CASE Antworte(s)
  BY <1>1, <1>3, Ablehnend
<1>4. CASE Weiter(s, "zaehlen", entitaet[s])
  <2>1. /\ TypRest /\ Nur(s)
        /\ ort'[s] = "zaehlen" /\ entitaet'[s] = entitaet[s] /\ auftrag'[s] = auftrag[s]
    BY <1>1, <1>4, WeiterTyp DEF Orte
  <2>2. Stand(s)'
    BY <1>1, <1>2, <2>1 DEF Stand, Rueckschrift, Korrektur, IDs
  <2>3. QED
    BY <1>1, <2>1, <2>2, Lesend
<1>5. QED
  BY <1>3, <1>4 DEF StornorechnungDoppelt

\* The insert: no row reverses the same invoice yet, or the unique index had refused it.
LEMMA StornorechnungEinfuegenGut ==
  ASSUME IInv, NEW s \in Slots, StornorechnungEinfuegen(s)
  PROVE  Gut(s)
<1> DEFINE id == auftrag[s].id
           b == entitaet[s]
           n == Len(belege) + 1
<1>1. /\ TypeOK /\ id \in IDs /\ b \in Beleg /\ belege \in Seq(Beleg) /\ Len(belege) \in Nat
      /\ ort[s] = "einfuegen" /\ auftrag[s].op = "stornorechnung"
  BY DEF IInv, Stand, TypeOK, StornorechnungEinfuegen, Bei
<1>2. b.stornoVon = id /\ b.status = "bezahlt" /\ belege[id].stornoVon = 0
  BY <1>1 DEF IInv, Stand, Korrektur
<1>3. CASE /\ ~ Kollidiert(0, b)
           /\ belege' = Append(belege, b)
           /\ Weiter(s, "verweis", b)
  <2>1. /\ belege' \in Seq(Beleg) /\ Len(belege') = n /\ belege'[n] = b
        /\ \A i \in IDs : belege'[i] = belege[i]
    BY <1>1, <1>3, Anhaengen DEF IDs
  <2>2. IDs' = IDs \cup {n} /\ id \in IDs' /\ n \notin IDs /\ id # 0
    BY <1>1, <2>1 DEF IDs
  <2>3. \A i \in IDs : belege[i].stornoVon # id
    BY <1>1, <1>2, <1>3, <2>2 DEF Kollidiert, IDs
  <2>4. Bewahrt
    BY <1>1, <2>1 DEF Bewahrt, IDs
  <2>5. StornoTabelle'
    <3>1. ASSUME NEW g \in IDs', belege'[g].stornoVon # 0
          PROVE  /\ belege'[g].status = "bezahlt"
                 /\ belege'[g].stornoVon \in IDs'
                 /\ belege'[belege'[g].stornoVon].stornoVon = 0
                 /\ \A h \in IDs' : belege'[h].stornoVon = belege'[g].stornoVon => h = g
      <4>1. CASE g = n
        BY <1>2, <2>1, <2>2, <2>3, <4>1, <1>1
      <4>2. CASE g \in IDs
        <5>1. /\ belege'[g] = belege[g] /\ belege[g].status = "bezahlt"
              /\ belege[g].stornoVon \in IDs
              /\ belege[belege[g].stornoVon].stornoVon = 0
              /\ \A h \in IDs : belege[h].stornoVon = belege[g].stornoVon => h = g
          BY <2>1, <3>1, <4>2 DEF IInv, StornoTabelle
        <5>2. belege[g].stornoVon # id
          BY <2>3, <4>2
        <5>3. QED
          BY <1>2, <2>1, <2>2, <5>1, <5>2
      <4>3. QED
        BY <2>2, <4>1, <4>2
    <3>2. QED
      BY <3>1 DEF StornoTabelle
  <2>6. /\ TypRest /\ Nur(s)
        /\ ort'[s] = "verweis" /\ entitaet'[s] = b /\ auftrag'[s] = auftrag[s]
    BY <1>1, <1>3, WeiterTyp DEF Orte
  <2>7. Stand(s)'
    BY <1>1, <1>2, <2>1, <2>2, <2>6 DEF Stand, Rueckschrift, Korrektur
  <2>8. TypeOK'
    BY <2>1, <2>6 DEF TypeOK, TypRest
  <2>9. QED
    BY <2>4, <2>5, <2>6, <2>7, <2>8 DEF Gut
<1>4. CASE Wiederhole(s, "doppelt")
  <2>1. /\ TypRest /\ Nur(s) /\ belege' = belege
        /\ \/ Stand(s)'
           \/ ort'[s] = "doppelt" /\ entitaet'[s] = b /\ auftrag'[s] = auftrag[s]
    BY <1>1, <1>4, WiederholeTyp DEF Orte
  <2>2. Stand(s)'
    BY <1>1, <1>2, <2>1 DEF Stand, Rueckschrift, Korrektur, IDs
  <2>3. QED
    BY <2>1, <2>2, Lesend
<1>5. QED
  BY <1>3, <1>4 DEF StornorechnungEinfuegen

LEMMA StornorechnungVerweisGut ==
  ASSUME IInv, NEW s \in Slots, StornorechnungVerweis(s)
  PROVE  Gut(s)
<1> DEFINE id == auftrag[s].id
           b == belege[id]
           neu == [b EXCEPT !.storniertDurch = StornoId(id)]
<1>1. /\ TypeOK /\ id \in IDs /\ b \in Beleg /\ ort[s] = "verweis" /\ Antworte(s)
      /\ auftrag[s].op = "stornorechnung"
  BY ZeilenTyp DEF IInv, Stand, StornorechnungVerweis, Bei
<1>2. b.stornoVon = 0 /\ \E i \in IDs : belege[i].stornoVon = id
  BY <1>1 DEF IInv, Stand, Korrektur
<1>3. StornoId(id) \in IDs
  BY <1>2 DEF StornoId
<1>4. neu \in Beleg /\ neu.stornoVon = 0
  <2> HIDE DEF id, b
  <2>1. StornoId(id) \in Nat
    BY <1>3 DEF IDs
  <2>2. QED
    BY <1>1, <1>2, <2>1 DEF Beleg
<1>5. CASE save(id, neu)
  BY <1>1, <1>2, <1>4, <1>5, Zurueckschreibend
<1>6. CASE belege' = belege
  BY <1>1, <1>6, Ablehnend
<1>7. QED
  BY <1>5, <1>6 DEF StornorechnungVerweis

-------------------------------------------------------------------------------
\* Every step of a request that is under way.
LEMMA SchrittGut ==
  ASSUME IInv, NEW s \in Slots, Schritt(s)
  PROVE  Gut(s)
  BY UpdateFindenGut, ChangeStatusFindenGut, MarkPaidFindenGut, ZaehlenGut,
     ChangeStatusFestsetzenGut, SchreibenGut, StornorechnungFindenGut,
     StornorechnungDoppeltGut, StornorechnungEinfuegenGut, StornorechnungVerweisGut
  DEF Schritt

\* A request is accepted.
LEMMA BeginnGut ==
  ASSUME IInv, NEW s \in Slots, Beginn(s)
  PROVE  Gut(s)
<1>1. PICK a \in Auftrag : a.id \in IDs /\ Nimm(s, a)
  <2>1. CASE NimmUpdate(s)
    <3>1. PICK id \in IDs, betrag \in Betraege :
            Nimm(s, [op |-> "update", id |-> id, betrag |-> betrag, status |-> "entwurf"])
      BY <2>1 DEF NimmUpdate
    <3>2. [op |-> "update", id |-> id, betrag |-> betrag, status |-> "entwurf"] \in Auftrag
      BY RechnungenAssumption DEF RechnungenAssumption, Auftrag, Operationen, Status, IDs
    <3>3. QED
      BY <3>1, <3>2
  <2>2. CASE NimmChangeStatus(s)
    <3>1. PICK id \in IDs, st \in Status :
            Nimm(s, [op |-> "changeStatus", id |-> id, betrag |-> 0, status |-> st])
      BY <2>2 DEF NimmChangeStatus
    <3>2. [op |-> "changeStatus", id |-> id, betrag |-> 0, status |-> st] \in Auftrag
      BY DEF Auftrag, Operationen, IDs
    <3>3. QED
      BY <3>1, <3>2
  <2>3. CASE NimmMarkPaid(s) \/ NimmStornorechnung(s)
    <3>1. PICK id \in IDs, op \in {"markPaid", "stornorechnung"} : Nimm(s, Fuer(op, id))
      BY <2>3 DEF NimmMarkPaid, NimmStornorechnung
    <3>2. Fuer(op, id) \in Auftrag /\ Fuer(op, id).id = id
      BY DEF Fuer, Auftrag, Operationen, Status, IDs
    <3>3. QED
      BY <3>1, <3>2
  <2>4. QED
    BY <2>1, <2>2, <2>3 DEF Beginn
<1>2. /\ belege' = belege /\ TypRest /\ Nur(s)
      /\ ort'[s] = "finden" /\ auftrag'[s] = a
  BY <1>1 DEF IInv, TypeOK, Nimm, TypRest, Nur, Orte
<1>3. Stand(s)'
  BY <1>1, <1>2 DEF Stand, Rueckschrift, Korrektur, IDs
<1>4. QED
  BY <1>2, <1>3, Lesend

\* A draft is appended.
LEMMA CreateGut ==
  ASSUME IInv, Create
  PROVE  IInv' /\ Bewahrt
<1>1. PICK betrag \in Betraege : belege' = Append(belege, Entwurf(betrag))
  BY DEF Create
<1>2. Entwurf(betrag) \in Beleg /\ Entwurf(betrag).stornoVon = 0
  BY RechnungenAssumption, EntwurfTyp DEF RechnungenAssumption, Entwurf
<1>3. /\ belege \in Seq(Beleg) /\ Len(belege) \in Nat /\ TypeOK
      /\ ort' = ort /\ auftrag' = auftrag /\ entitaet' = entitaet
      /\ jahr' = jahr /\ versuch' = versuch
  BY DEF IInv, TypeOK, Create
<1>4. /\ belege' \in Seq(Beleg) /\ Len(belege') = Len(belege) + 1
      /\ belege'[Len(belege) + 1].stornoVon = 0
      /\ \A i \in IDs : belege'[i] = belege[i]
  BY <1>1, <1>2, <1>3, Anhaengen DEF IDs
<1>5. Bewahrt
  BY <1>3, <1>4 DEF Bewahrt, IDs
<1>6. StornoTabelle'
  <2>1. IDs' = IDs \cup {Len(belege) + 1}
    BY <1>3, <1>4 DEF IDs
  <2>2. ASSUME NEW g \in IDs', belege'[g].stornoVon # 0
        PROVE  /\ belege'[g].status = "bezahlt"
               /\ belege'[g].stornoVon \in IDs'
               /\ belege'[belege'[g].stornoVon].stornoVon = 0
               /\ \A h \in IDs' : belege'[h].stornoVon = belege'[g].stornoVon => h = g
    <3>1. g \in IDs /\ belege'[g] = belege[g]
      BY <1>4, <2>1, <2>2
    <3>2. /\ belege[g].status = "bezahlt"
          /\ belege[g].stornoVon \in IDs
          /\ belege[belege[g].stornoVon].stornoVon = 0
          /\ \A h \in IDs : belege[h].stornoVon = belege[g].stornoVon => h = g
      BY <2>2, <3>1 DEF IInv, StornoTabelle
    <3>3. QED
      BY <1>4, <2>1, <2>2, <3>1, <3>2
  <2>3. QED
    BY <2>2 DEF StornoTabelle
<1>7. \A t \in Slots : Stand(t)'
  BY <1>3, <1>5, FremderStand DEF IInv
<1>8. TypeOK'
  BY <1>3, <1>4 DEF TypeOK
<1>9. QED
  BY <1>5, <1>6, <1>7, <1>8 DEF IInv

\* The year turns.
LEMMA JahreswechselGut ==
  ASSUME IInv, Jahreswechsel
  PROVE  IInv' /\ Bewahrt
<1>1. /\ TypeOK' /\ belege' = belege
      /\ ort' = ort /\ auftrag' = auftrag /\ entitaet' = entitaet
  BY DEF IInv, TypeOK, Jahreswechsel
<1>2. Bewahrt
  BY <1>1, Unveraendert DEF IInv
<1>3. StornoTabelle'
  BY <1>1, <1>2, GleicheTabelle DEF IInv
<1>4. \A t \in Slots : Stand(t)'
  BY <1>1, <1>2, FremderStand DEF IInv
<1>5. QED
  BY <1>1, <1>2, <1>3, <1>4 DEF IInv

\* The process dies: nothing is in memory any more.
LEMMA AbsturzGut ==
  ASSUME IInv, Absturz
  PROVE  IInv' /\ Bewahrt
<1>1. belege' = belege /\ \A t \in Slots : ort'[t] = "bereit"
  BY DEF Absturz
<1>2. TypeOK'
  BY EntwurfTyp, RechnungenAssumption DEF IInv, TypeOK, Absturz, Orte, RechnungenAssumption
<1>3. Bewahrt
  BY <1>1, Unveraendert DEF IInv
<1>4. StornoTabelle'
  BY <1>1, <1>3, GleicheTabelle DEF IInv
<1>5. \A t \in Slots : Stand(t)'
  BY <1>1 DEF Stand
<1>6. QED
  BY <1>2, <1>3, <1>4, <1>5 DEF IInv

LEMMA InitGut ==
  ASSUME Init
  PROVE  IInv
<1>1. TypeOK
  BY EntwurfTyp, RechnungenAssumption DEF Init, TypeOK, Orte, RechnungenAssumption
<1>2. IDs = {}
  BY DEF Init, IDs
<1>3. QED
  BY <1>1, <1>2 DEF Init, IInv, StornoTabelle, Stand

LEMMA NextGut ==
  ASSUME IInv, [Next]_vars
  PROVE  IInv' /\ Bewahrt
<1>1. CASE UNCHANGED vars
  <2>1. /\ belege' = belege /\ ort' = ort /\ auftrag' = auftrag /\ entitaet' = entitaet
        /\ TypeOK'
    BY <1>1 DEF vars, IInv, TypeOK
  <2>2. Bewahrt
    BY <2>1, Unveraendert DEF IInv
  <2>3. StornoTabelle'
    BY <2>1, <2>2, GleicheTabelle DEF IInv
  <2>4. \A t \in Slots : Stand(t)'
    BY <2>1, <2>2, FremderStand DEF IInv
  <2>5. QED
    BY <2>1, <2>2, <2>3, <2>4 DEF IInv
<1>2. ASSUME NEW s \in Slots, Beginn(s) \/ Schritt(s)
      PROVE  IInv' /\ Bewahrt
  <2>1. Gut(s)
    BY <1>2, BeginnGut, SchrittGut
  <2>2. \A t \in Slots : Stand(t)'
    BY <2>1, FremderStand DEF Gut, Nur, IInv
  <2>3. QED
    BY <2>1, <2>2 DEF Gut, IInv
<1>3. QED
  BY <1>1, <1>2, CreateGut, JahreswechselGut, AbsturzGut DEF Next

\* The invariant holds in every state, however requests overlap and crash.
THEOREM Induktion == Spec => []IInv
<1>1. Init => IInv
  BY InitGut
<1>2. IInv /\ [Next]_vars => IInv'
  BY NextGut
<1>3. QED
  BY <1>1, <1>2, PTL DEF Spec

\* Every variable keeps its type: the numbers, ids and amounts that requests write are
\* well formed and withUniqueRetry never exceeds its retries.
THEOREM TypKorrekt == Spec => []TypeOK
<1>1. IInv => TypeOK
  BY DEF IInv
<1>2. QED
  BY <1>1, Induktion, PTL

\* erstelleStornorechnung: however many requests race and crash, an invoice has at most
\* one Stornorechnung and a Stornorechnung none.
THEOREM EineStornorechnung == Spec => []HoechstensEineStornorechnung
<1>1. IInv => HoechstensEineStornorechnung
  BY DEF IInv, StornoTabelle, HoechstensEineStornorechnung
<1>2. QED
  BY <1>1, Induktion, PTL

\* Whole rows that are written back late never change a stored Stornorechnung.
THEOREM StornorechnungUnveraendert == Spec => StornorechnungBleibt
<1>1. IInv /\ [Next]_vars =>
        [\A i \in IDs : belege[i].stornoVon # 0 => belege'[i] = belege[i]]_vars
  BY NextGut DEF Bewahrt
<1>2. QED
  BY <1>1, Induktion, PTL DEF Spec, StornorechnungBleibt

-------------------------------------------------------------------------------
(***************************************************************************)
(* Where requests on the same invoice do not overlap (JeBelegEinzeln);     *)
(* requests on different invoices overlap and the process crashes at will. *)
(* The inductive invariant adds what the numbers of a year and the rows    *)
(* have to do with each other.                                             *)
(***************************************************************************)

\* The numbers of one year are 1, ..., their count, each once.
Kreis(j) ==
  /\ {belege[i].nummer : i \in Nummeriert(j)} = 1 .. Cardinality(Nummeriert(j))
  /\ \A i, k \in Nummeriert(j) : belege[i].nummer = belege[k].nummer => i = k

Kreise == \A j \in Nat : Kreis(j)

\* A number belongs to an invoice that left its draft, and the other way round, except
\* for drafts that were thrown away.
Zeile(b) ==
  /\ b.status \in {"offen", "bezahlt"} => b.nummer # 0
  /\ b.status = "entwurf" => b.nummer = 0 /\ b.storniertDurch = 0

Zeilen == \A i \in IDs : Zeile(belege[i])

Getrennt ==
  \A s, t \in Slots : ort[s] # "bereit" /\ ort[t] # "bereit" /\ s # t
                        => auftrag[s].id # auftrag[t].id

\* n is the next number of year j, or one that others took since it was counted.
Gezaehlt(n, j) == n \in 1 .. Cardinality(Nummeriert(j)) + 1

\* What b may become without touching an issued or corrected invoice.
Darf(b, neu) ==
  /\ b.status # "entwurf" =>
       /\ neu.status # "entwurf"
       /\ b.status = "storniert" => neu.status = "storniert"
       /\ neu.nummer = b.nummer /\ neu.nrJahr = b.nrJahr /\ neu.betrag = b.betrag
  /\ b.storniertDurch # 0 => neu = b

\* What a request holds in memory still fits the row it is about to write.
Passt(s) ==
  LET b == belege[auftrag[s].id]
      e == entitaet[s]
  IN /\ ort[s] = "schreiben" =>
          Darf(b, e) /\ e.nummer = b.nummer /\ e.nrJahr = b.nrJahr /\ Zeile(e)
     /\ ort[s] = "festsetzen" \/ (ort[s] = "zaehlen" /\ auftrag[s].op = "changeStatus") =>
          /\ b.status = "entwurf" /\ b.nummer = 0 /\ b.storniertDurch = 0
          /\ e.status = "offen" /\ e.betrag = b.betrag
     /\ ort[s] \in {"festsetzen", "einfuegen"} => Gezaehlt(e.nummer, e.nrJahr)
     /\ auftrag[s].op = "stornorechnung"
          /\ ort[s] \in {"doppelt", "zaehlen", "einfuegen", "verweis"} =>
          b.status # "entwurf" /\ b.nummer # 0 /\ e.betrag = - b.betrag

EInv ==
  /\ IInv /\ Kreise /\ Zeilen /\ Getrennt /\ StornoHebtAuf
  /\ \A s \in Slots : ort[s] # "bereit" => Passt(s)

-------------------------------------------------------------------------------
(***************************************************************************)
(* The number ranges.                                                      *)
(***************************************************************************)
\* A step that leaves the numbered rows of a year alone leaves its range alone.
LEMMA KreisGleich ==
  ASSUME NEW j \in Nat, Kreis(j), Nummeriert(j)' = Nummeriert(j),
         \A i \in Nummeriert(j) : belege'[i].nummer = belege[i].nummer
  PROVE  Kreis(j)' /\ Cardinality(Nummeriert(j)') = Cardinality(Nummeriert(j))
<1>1. {belege'[i].nummer : i \in Nummeriert(j)'} = {belege[i].nummer : i \in Nummeriert(j)}
  OBVIOUS
<1>2. QED
  BY <1>1 DEF Kreis

\* A row that gets the count plus one extends the range.
LEMMA KreisNeu ==
  ASSUME TypeOK, NEW j \in Nat, Kreis(j), NEW k, k \notin Nummeriert(j),
         Nummeriert(j)' = Nummeriert(j) \cup {k},
         \A i \in Nummeriert(j) : belege'[i].nummer = belege[i].nummer,
         belege'[k].nummer = Cardinality(Nummeriert(j)) + 1
  PROVE  Kreis(j)' /\ Cardinality(Nummeriert(j)') = Cardinality(Nummeriert(j)) + 1
<1> DEFINE N == Nummeriert(j)
           c == Cardinality(N)
<1>1. IsFiniteSet(N) /\ c \in Nat
  BY NummernTyp
<1>2. Cardinality(Nummeriert(j)') = c + 1
  <2>1. Cardinality(N \cup {k}) = Cardinality(N) + 1
    BY <1>1, FS_AddElement
  <2>2. Nummeriert(j)' = N \cup {k}
    OBVIOUS
  <2>3. QED
    BY <2>1, <2>2
<1>3. {belege'[i].nummer : i \in N \cup {k}} = {belege[i].nummer : i \in N} \cup {c + 1}
  OBVIOUS
<1>4. {belege'[i].nummer : i \in N \cup {k}} = 1 .. (c + 1)
  <2>1. {belege[i].nummer : i \in N} = 1 .. c
    BY DEF Kreis
  <2>2. (1 .. c) \cup {c + 1} = 1 .. (c + 1)
    BY <1>1
  <2>3. QED
    BY <1>3, <2>1, <2>2
<1>5. \A i \in N : belege[i].nummer \in 1 .. c
  BY DEF Kreis
<1>6. \A i, l \in N \cup {k} : belege'[i].nummer = belege'[l].nummer => i = l
  BY <1>1, <1>5 DEF Kreis
<1>7. QED
  BY <1>2, <1>4, <1>6 DEF Kreis

\* A counted number that no row of the year has is the next one.
LEMMA FreieNummer ==
  ASSUME TypeOK, NEW j \in Nat, Kreis(j), NEW n, Gezaehlt(n, j),
         \A i \in Nummeriert(j) : belege[i].nummer # n
  PROVE  n = Cardinality(Nummeriert(j)) + 1
<1>1. Cardinality(Nummeriert(j)) \in Nat
  BY NummernTyp
<1>2. n \notin 1 .. Cardinality(Nummeriert(j))
  BY DEF Kreis
<1>3. QED
  BY <1>1, <1>2 DEF Gezaehlt
Wachsend ==
  \A j \in Nat : /\ Cardinality(Nummeriert(j))' \in Nat
                 /\ Cardinality(Nummeriert(j)) <= Cardinality(Nummeriert(j))'

\* A step that neither numbers a row nor renumbers one.
LEMMA KreiseGleich ==
  ASSUME TypeOK, Kreise, Len(belege') \in Nat, Len(belege) <= Len(belege'),
         \A i \in IDs : /\ belege'[i].nummer = belege[i].nummer
                        /\ belege'[i].nrJahr = belege[i].nrJahr,
         \A i \in IDs' \ IDs : belege'[i].nummer = 0
  PROVE  Kreise' /\ Wachsend
<1>1. ASSUME NEW j \in Nat
      PROVE  Kreis(j)' /\ Cardinality(Nummeriert(j)') = Cardinality(Nummeriert(j))
  <2>1. Nummeriert(j) \subseteq IDs /\ IDs \subseteq IDs'
    BY ZeilenTyp DEF Nummeriert, IDs
  <2>2. Nummeriert(j)' = Nummeriert(j)
    BY <2>1 DEF Nummeriert
  <2>3. QED
    BY <2>1, <2>2, KreisGleich DEF Kreise
<1>2. \A j \in Nat : Cardinality(Nummeriert(j)) \in Nat
  BY NummernTyp
<1>3. QED
  BY <1>1, <1>2 DEF Kreise, Wachsend

\* A step that gives one row without a number a counted one nobody else has.
LEMMA KreiseNeu ==
  ASSUME TypeOK, Kreise, NEW k \in IDs', NEW n, NEW y \in Nat, Gezaehlt(n, y),
         IDs' = IDs \cup {k},
         k \in IDs => belege[k].nummer = 0,
         belege'[k].nummer = n, belege'[k].nrJahr = y,
         \A i \in IDs \ {k} : belege'[i] = belege[i],
         \A i \in IDs \ {k} : belege[i].nummer = n => belege[i].nrJahr # y
  PROVE  Kreise' /\ Wachsend
<1> DEFINE c == Cardinality(Nummeriert(y))
<1>1. \A j \in Nat : Cardinality(Nummeriert(j)) \in Nat
  BY NummernTyp
<1>2. \A j : Nummeriert(j) \subseteq IDs \ {k}
  BY DEF Nummeriert
<1>3. n = c + 1
  <2>1. \A i \in Nummeriert(y) : belege[i].nummer # n
    BY <1>2 DEF Nummeriert
  <2>2. QED
    BY <2>1, FreieNummer DEF Kreise
<1>4. Kreis(y)' /\ Cardinality(Nummeriert(y)') = c + 1
  <2>1. n # 0
    BY <1>1, <1>3
  <2>2. Nummeriert(y)' = Nummeriert(y) \cup {k}
    BY <1>2, <2>1 DEF Nummeriert
  <2>3. QED
    BY <1>2, <1>3, <2>2, KreisNeu DEF Kreise
<1>5. ASSUME NEW j \in Nat, j # y
      PROVE  Kreis(j)' /\ Cardinality(Nummeriert(j)') = Cardinality(Nummeriert(j))
  <2>1. Nummeriert(j)' = Nummeriert(j)
    BY <1>2, <1>5 DEF Nummeriert
  <2>2. QED
    BY <1>2, <2>1, KreisGleich DEF Kreise
<1>6. QED
  BY <1>1, <1>4, <1>5 DEF Kreise, Wachsend

-------------------------------------------------------------------------------
(***************************************************************************)
(* Every step of a request preserves the invariant.                        *)
(***************************************************************************)
\* A step of s touches only its own invoice among the old rows.
NurZeile(s) == \A i \in IDs : i # auftrag[s].id => belege'[i] = belege[i]

Erlaubt == \A i \in IDs : Darf(belege[i], belege'[i])

EGut(s) ==
  /\ Kreise' /\ Wachsend /\ Zeilen' /\ StornoHebtAuf'
  /\ NurZeile(s) /\ Erlaubt
  /\ ort'[s] # "bereit" => Passt(s)'

\* What another request holds still fits its row.
LEMMA FremdPasst ==
  ASSUME TypeOK, NEW t \in Slots, auftrag[t].id \in IDs, Passt(t), Wachsend,
         belege'[auftrag[t].id] = belege[auftrag[t].id],
         ort'[t] = ort[t], auftrag'[t] = auftrag[t], entitaet'[t] = entitaet[t]
  PROVE  Passt(t)'
<1> DEFINE e == entitaet[t]
<1>1. e.nrJahr \in Nat
  BY DEF TypeOK, Beleg
<1>2. Gezaehlt(e.nummer, e.nrJahr) => Gezaehlt(entitaet[t].nummer, entitaet[t].nrJahr)'
  <2> DEFINE c == Cardinality(Nummeriert(e.nrJahr))
             d == Cardinality(Nummeriert(e.nrJahr))'
  <2>1. c \in Nat /\ d \in Nat /\ c <= d
    BY <1>1, NummernTyp DEF Wachsend
  <2>2. 1 .. (c + 1) \subseteq 1 .. (d + 1)
    BY <2>1
  <2>3. Cardinality(Nummeriert(entitaet[t].nrJahr))' = d
    OBVIOUS
  <2>4. QED
    BY <2>2, <2>3 DEF Gezaehlt
<1>3. QED
  BY <1>2 DEF Passt

Hebt(g) ==
  LET o == belege[belege[g].stornoVon]
  IN o.nummer # 0 /\ o.status # "entwurf" /\ o.betrag + belege[g].betrag = 0

\* A correction in the table keeps cancelling its original.
LEMMA HebtAlt ==
  ASSUME EInv, Bewahrt, Erlaubt, NEW g \in IDs, belege[g].stornoVon # 0
  PROVE  Hebt(g)'
<1> DEFINE v == belege[g].stornoVon
           o == belege[v]
<1>1. v \in IDs /\ o.nummer # 0 /\ o.status # "entwurf" /\ o.betrag + belege[g].betrag = 0
  BY DEF EInv, IInv, StornoTabelle, StornoHebtAuf
<1>2. belege'[g] = belege[g]
  BY DEF Bewahrt
<1>3. belege'[v].nummer = o.nummer /\ belege'[v].status # "entwurf" /\ belege'[v].betrag = o.betrag
  BY <1>1 DEF Erlaubt, Darf
<1>4. QED
  BY <1>1, <1>2, <1>3 DEF Hebt

\* So they all do when no Stornorechnung is added.
LEMMA HebtWeiterAuf ==
  ASSUME EInv, Bewahrt, Erlaubt, \A g \in IDs' \ IDs : belege'[g].stornoVon = 0
  PROVE  StornoHebtAuf'
<1>1. ASSUME NEW g \in IDs', belege'[g].stornoVon # 0
      PROVE  Hebt(g)'
  <2>1. g \in IDs /\ belege[g].stornoVon # 0
    BY <1>1 DEF Bewahrt
  <2>2. QED
    BY <2>1, HebtAlt
<1>2. QED
  BY <1>1 DEF StornoHebtAuf, Hebt

\* A step that only reads.
LEMMA ELesend ==
  ASSUME EInv, NEW s \in Slots, belege' = belege, ort'[s] # "bereit" => Passt(s)'
  PROVE  EGut(s)
<1>1. TypeOK /\ Bewahrt /\ IDs' = IDs
  BY Unveraendert DEF EInv, IInv, IDs
<1>2. Erlaubt /\ NurZeile(s)
  BY DEF Erlaubt, Darf, NurZeile
<1>3. Kreise' /\ Wachsend
  BY <1>1, ZeilenTyp, KreiseGleich DEF EInv
<1>4. StornoHebtAuf'
  BY <1>1, <1>2, HebtWeiterAuf
<1>5. Zeilen'
  BY <1>1 DEF EInv, Zeilen
<1>6. QED
  BY <1>2, <1>3, <1>4, <1>5 DEF EGut

\* A step that ends a request without a write.
LEMMA EAblehnend ==
  ASSUME EInv, NEW s \in Slots, Antworte(s), belege' = belege
  PROVE  EGut(s)
<1>1. ort'[s] = "bereit"
  BY DEF EInv, IInv, TypeOK, Antworte
<1>2. QED
  BY <1>1, ELesend

\* A step that writes a row back under the number it has.
LEMMA EZurueckschreibend ==
  ASSUME EInv, NEW s \in Slots, auftrag[s].id \in IDs, NEW b \in Beleg, Gut(s),
         Darf(belege[auftrag[s].id], b), Zeile(b),
         b.nummer = belege[auftrag[s].id].nummer, b.nrJahr = belege[auftrag[s].id].nrJahr,
         save(auftrag[s].id, b), Antworte(s)
  PROVE  EGut(s)
<1> DEFINE id == auftrag[s].id
<1>1. TypeOK /\ belege \in Seq(Beleg) /\ id \in 1 .. Len(belege) /\ Bewahrt
  BY DEF EInv, IInv, TypeOK, IDs, Gut
<1>2. /\ Len(belege') = Len(belege) /\ belege'[id] = b
      /\ \A i \in 1 .. Len(belege) : i # id => belege'[i] = belege[i]
  BY <1>1, Ersetzen DEF save
<1>3. IDs' = IDs /\ \A i \in IDs : i = id \/ belege'[i] = belege[i]
  BY <1>2 DEF IDs
<1>4. Erlaubt /\ NurZeile(s)
  BY <1>2, <1>3 DEF Erlaubt, Darf, NurZeile
<1>5. Kreise' /\ Wachsend
  <2>1. \A i \in IDs : belege'[i].nummer = belege[i].nummer /\ belege'[i].nrJahr = belege[i].nrJahr
    BY <1>2, <1>3
  <2>2. QED
    BY <1>1, <1>2, <1>3, <2>1, KreiseGleich DEF EInv, IDs
<1>6. StornoHebtAuf'
  BY <1>1, <1>3, <1>4, HebtWeiterAuf
<1>7. Zeilen'
  BY <1>2, <1>3 DEF EInv, Zeilen
<1>8. ort'[s] = "bereit"
  BY <1>1 DEF TypeOK, Antworte
<1>9. QED
  BY <1>4, <1>5, <1>6, <1>7, <1>8 DEF EGut

LEMMA UpdateFindenE ==
  ASSUME EInv, NEW s \in Slots, UpdateFinden(s)
  PROVE  EGut(s)
<1> DEFINE b == belege[auftrag[s].id]
           neu == [b EXCEPT !.betrag = auftrag[s].betrag]
<1>1. /\ TypeOK /\ auftrag[s].id \in IDs /\ b \in Beleg /\ auftrag[s] \in Auftrag
      /\ auftrag[s].op = "update" /\ belege' = belege /\ Zeile(b)
  BY ZeilenTyp DEF EInv, IInv, Stand, UpdateFinden, Bei, TypeOK, Zeilen
<1>2. CASE Antworte(s)
  BY <1>1, <1>2, EAblehnend
<1>3. CASE ~ istFestgesetzt(b.status) /\ Weiter(s, "schreiben", neu)
  <2>1. /\ neu \in Beleg /\ neu.nummer = b.nummer /\ neu.nrJahr = b.nrJahr
        /\ neu.status = "entwurf" /\ neu.storniertDurch = b.storniertDurch
        /\ b.status = "entwurf"
    BY <1>1, <1>3 DEF Beleg, Auftrag, istFestgesetzt
  <2>2. Darf(b, neu) /\ Zeile(neu)
    BY <1>1, <2>1 DEF Darf, Zeile
  <2>3. ort'[s] = "schreiben" /\ entitaet'[s] = neu /\ auftrag'[s] = auftrag[s]
    BY <1>1, <1>3, <2>1, WeiterTyp DEF Orte
  <2>4. Passt(s)'
    BY <1>1, <2>1, <2>2, <2>3 DEF Passt
  <2>5. QED
    BY <1>1, <2>4, ELesend
<1>4. QED
  BY <1>2, <1>3 DEF UpdateFinden

LEMMA ChangeStatusFindenE ==
  ASSUME EInv, NEW s \in Slots, ChangeStatusFinden(s)
  PROVE  EGut(s)
<1> DEFINE b == belege[auftrag[s].id]
           st == auftrag[s].status
           neu == [b EXCEPT !.status = st]
           muss == st = "offen" /\ b.nummer = 0
           o == IF muss THEN "zaehlen" ELSE "schreiben"
<1>1. /\ TypeOK /\ auftrag[s].id \in IDs /\ b \in Beleg /\ auftrag[s] \in Auftrag
      /\ auftrag[s].op = "changeStatus" /\ belege' = belege /\ Zeile(b)
  BY ZeilenTyp DEF EInv, IInv, Stand, ChangeStatusFinden, Bei, TypeOK, Zeilen
<1>2. CASE Antworte(s)
  BY <1>1, <1>2, EAblehnend
<1>3. CASE ~ Abgeschlossen(b) /\ statuswechselErlaubt(b.status, st) /\ Weiter(s, o, neu)
  <2>1. /\ neu \in Beleg /\ neu.nummer = b.nummer /\ neu.nrJahr = b.nrJahr
        /\ neu.status = st /\ neu.storniertDurch = b.storniertDurch /\ neu.betrag = b.betrag
        /\ b.storniertDurch = 0 /\ b.status \in Status /\ st \in Status
    BY <1>1, <1>3 DEF Beleg, Auftrag, Abgeschlossen
  <2>2. /\ st # b.status => /\ b.status # "storniert" /\ st # "entwurf"
                            /\ st = "bezahlt" => b.status = "offen"
    BY <1>3, <2>1 DEF statuswechselErlaubt, RECHNUNG_UEBERGAENGE, Status
  <2>3. o \in Orte
    BY DEF Orte
  <2>4. ort'[s] = o /\ entitaet'[s] = neu /\ auftrag'[s] = auftrag[s]
    BY <1>1, <1>3, <2>1, <2>3, WeiterTyp
  <2>5. CASE muss
    <3>1. b.status = "entwurf"
      BY <1>1, <2>1, <2>2, <2>5, <1>3
         DEF Zeile, Status, statuswechselErlaubt, RECHNUNG_UEBERGAENGE
    <3>2. Passt(s)'
      BY <1>1, <2>1, <2>4, <2>5, <3>1 DEF Passt
    <3>3. QED
      BY <1>1, <3>2, ELesend
  <2>6. CASE ~ muss
    <3>1. Darf(b, neu)
      BY <2>1, <2>2 DEF Darf
    <3>2. Zeile(neu)
      BY <1>1, <2>1, <2>2, <2>6 DEF Zeile
    <3>3. Passt(s)'
      BY <1>1, <2>1, <2>4, <2>6, <3>1, <3>2 DEF Passt
    <3>4. QED
      BY <1>1, <3>3, ELesend
  <2>7. QED
    BY <2>5, <2>6
<1>4. QED
  BY <1>2, <1>3 DEF ChangeStatusFinden

LEMMA MarkPaidFindenE ==
  ASSUME EInv, NEW s \in Slots, MarkPaidFinden(s)
  PROVE  EGut(s)
<1> DEFINE b == belege[auftrag[s].id]
           neu == [b EXCEPT !.status = "bezahlt"]
<1>1. /\ TypeOK /\ auftrag[s].id \in IDs /\ b \in Beleg
      /\ auftrag[s].op = "markPaid" /\ belege' = belege /\ Zeile(b)
  BY ZeilenTyp DEF EInv, IInv, Stand, MarkPaidFinden, Bei, Zeilen
<1>2. CASE Antworte(s)
  BY <1>1, <1>2, EAblehnend
<1>3. CASE Bezahlbar(b) /\ Weiter(s, "schreiben", neu)
  <2>1. /\ neu \in Beleg /\ neu.nummer = b.nummer /\ neu.nrJahr = b.nrJahr
        /\ neu.status = "bezahlt" /\ neu.betrag = b.betrag
    BY <1>1 DEF Beleg, Status
  <2>2. b.storniertDurch = 0 /\ b.status \in {"offen", "bezahlt"}
    BY <1>1, <1>3 DEF Bezahlbar, statuswechselErlaubt, RECHNUNG_UEBERGAENGE, Beleg, Status
  <2>3. Darf(b, neu) /\ Zeile(neu)
    BY <1>1, <2>1, <2>2 DEF Darf, Zeile
  <2>4. ort'[s] = "schreiben" /\ entitaet'[s] = neu /\ auftrag'[s] = auftrag[s]
    BY <1>1, <1>3, <2>1, WeiterTyp DEF Orte
  <2>5. Passt(s)'
    BY <1>1, <2>1, <2>3, <2>4 DEF Passt
  <2>6. QED
    BY <1>1, <2>5, ELesend
<1>4. QED
  BY <1>2, <1>3 DEF MarkPaidFinden

LEMMA ZaehlenE ==
  ASSUME EInv, NEW s \in Slots, ChangeStatusZaehlen(s) \/ StornorechnungZaehlen(s)
  PROVE  EGut(s)
<1> DEFINE n == nextSequentialNumber
           neu == [entitaet[s] EXCEPT !.nummer = n, !.nrJahr = jahr]
           c == Cardinality(Nummeriert(jahr))
<1>1. /\ TypeOK /\ entitaet[s] \in Beleg /\ jahr \in Nat /\ ort[s] = "zaehlen"
      /\ belege' = belege /\ Passt(s)
  BY DEF EInv, IInv, TypeOK, ChangeStatusZaehlen, StornorechnungZaehlen, Zaehlen, Bei
<1>2. c \in Nat /\ n = c + 1 /\ n \in Nat
  BY <1>1, NummernTyp DEF nextSequentialNumber
<1>3. /\ neu \in Beleg /\ neu.nummer = n /\ neu.nrJahr = jahr
      /\ neu.status = entitaet[s].status /\ neu.betrag = entitaet[s].betrag
  <2> HIDE DEF n
  <2>1. QED
    BY <1>1, <1>2 DEF Beleg
<1>5. CASE ChangeStatusZaehlen(s)
  <2>1. auftrag[s].op = "changeStatus" /\ Weiter(s, "festsetzen", neu)
    BY <1>5 DEF ChangeStatusZaehlen, Zaehlen, Bei
  <2>2. ort'[s] = "festsetzen" /\ entitaet'[s] = neu /\ auftrag'[s] = auftrag[s] /\ jahr' = jahr
    BY <1>1, <1>3, <2>1, WeiterTyp DEF Orte, Weiter
  <2>3. Gezaehlt(n, jahr)'
    BY <1>1, <1>2, <2>2 DEF Gezaehlt, Nummeriert, IDs, nextSequentialNumber
  <2>4. Passt(s)'
    BY <1>1, <1>2, <1>3, <2>1, <2>2, <2>3 DEF Passt, Gezaehlt, Nummeriert, IDs
  <2>5. QED
    BY <1>1, <2>4, ELesend
<1>6. CASE StornorechnungZaehlen(s)
  <2>1. auftrag[s].op = "stornorechnung" /\ Weiter(s, "einfuegen", neu)
    BY <1>6 DEF StornorechnungZaehlen, Zaehlen, Bei
  <2>2. ort'[s] = "einfuegen" /\ entitaet'[s] = neu /\ auftrag'[s] = auftrag[s] /\ jahr' = jahr
    BY <1>1, <1>3, <2>1, WeiterTyp DEF Orte, Weiter
  <2>3. Passt(s)'
    BY <1>1, <1>2, <1>3, <2>1, <2>2 DEF Passt, Gezaehlt, Nummeriert, IDs
  <2>4. QED
    BY <1>1, <2>3, ELesend
<1>7. QED
  BY <1>5, <1>6

\* The number reaches the draft: the unique index lets only the next one through.
LEMMA ChangeStatusFestsetzenE ==
  ASSUME EInv, NEW s \in Slots, ChangeStatusFestsetzen(s)
  PROVE  EGut(s)
<1> DEFINE id == auftrag[s].id
           b == belege[id]
           e == entitaet[s]
<1>1. /\ TypeOK /\ belege \in Seq(Beleg) /\ id \in IDs /\ e \in Beleg /\ b \in Beleg
      /\ ort[s] = "festsetzen" /\ auftrag[s].op = "changeStatus" /\ Passt(s)
  BY ZeilenTyp DEF EInv, IInv, Stand, TypeOK, ChangeStatusFestsetzen, Bei
<1>2. /\ b.status = "entwurf" /\ b.nummer = 0 /\ b.storniertDurch = 0
      /\ e.status = "offen" /\ e.betrag = b.betrag /\ Gezaehlt(e.nummer, e.nrJahr)
  BY <1>1 DEF Passt
<1>3. CASE ~ Kollidiert(id, e) /\ save(id, e) /\ Antworte(s)
  <2>1. /\ Len(belege') = Len(belege) /\ belege'[id] = e
        /\ \A i \in IDs : i # id => belege'[i] = belege[i]
    BY <1>1, <1>3, Ersetzen DEF save, IDs
  <2>2. IDs' = IDs
    BY <2>1 DEF IDs
  <2>3. e.nummer # 0
    <3>1. Cardinality(Nummeriert(e.nrJahr)) \in Nat
      BY <1>1, NummernTyp
    <3>2. QED
      BY <1>2, <3>1 DEF Gezaehlt
  <2>4. \A i \in IDs \ {id} : belege[i].nummer = e.nummer => belege[i].nrJahr # e.nrJahr
    BY <1>3, <2>3 DEF Kollidiert
  <2>5. Kreise' /\ Wachsend
    <3>1. e.nrJahr \in Nat /\ id \in IDs' /\ IDs' = IDs \cup {id} /\ Kreise
      BY <1>1, <2>2 DEF Beleg, EInv
    <3>2. \A i \in IDs \ {id} : belege'[i] = belege[i]
      BY <2>1
    <3>3. QED
      BY <1>1, <1>2, <2>1, <2>4, <3>1, <3>2, KreiseNeu
  <2>6. Erlaubt /\ NurZeile(s)
    BY <1>2, <2>1 DEF Erlaubt, Darf, NurZeile
  <2>7. Bewahrt
    BY ChangeStatusFestsetzenGut DEF EInv, Gut
  <2>8. StornoHebtAuf'
    BY <2>2, <2>6, <2>7, HebtWeiterAuf
  <2>9. Zeilen'
    BY <1>2, <2>1, <2>2, <2>3 DEF EInv, Zeilen, Zeile
  <2>10. ort'[s] = "bereit"
    BY <1>1, <1>3 DEF TypeOK, Antworte
  <2>11. QED
    BY <2>5, <2>6, <2>8, <2>9, <2>10 DEF EGut
<1>4. CASE Wiederhole(s, "zaehlen")
  <2>1. belege' = belege /\ auftrag' \in [Slots -> Auftrag]
    BY <1>1, <1>4, WiederholeTyp DEF Orte, TypRest
  <2>2. ort'[s] # "bereit" =>
          ort'[s] = "zaehlen" /\ entitaet'[s] = e /\ auftrag'[s] = auftrag[s]
    BY <1>1, <1>4 DEF TypeOK, Wiederhole, Lehneab, Antworte
  <2>3. ort'[s] # "bereit" => Passt(s)'
    BY <1>1, <1>2, <2>1, <2>2 DEF Passt
  <2>4. QED
    BY <2>1, <2>3, ELesend
<1>5. QED
  BY <1>3, <1>4 DEF ChangeStatusFestsetzen

LEMMA SchreibenE ==
  ASSUME EInv, NEW s \in Slots, Schreiben(s)
  PROVE  EGut(s)
<1> DEFINE id == auftrag[s].id
           e == entitaet[s]
<1>1. TypeOK /\ id \in IDs /\ e \in Beleg /\ ort[s] = "schreiben" /\ Passt(s)
  BY DEF EInv, IInv, Stand, TypeOK, Schreiben
<1>2. Darf(belege[id], e) /\ Zeile(e) /\ e.nummer = belege[id].nummer /\ e.nrJahr = belege[id].nrJahr
  BY <1>1 DEF Passt
<1>3. CASE save(id, e) /\ Antworte(s)
  BY <1>1, <1>2, <1>3, SchreibenGut, EZurueckschreibend DEF EInv
<1>4. CASE Wiederhole(s, "schreiben")
  <2>1. belege' = belege
    BY <1>1, <1>4, WiederholeTyp DEF Orte
  <2>2. ort'[s] # "bereit" =>
          ort'[s] = "schreiben" /\ entitaet'[s] = e /\ auftrag'[s] = auftrag[s]
    BY <1>1, <1>4 DEF TypeOK, Wiederhole, Lehneab, Antworte
  <2>3. ort'[s] # "bereit" => Passt(s)'
    BY <1>1, <1>2, <2>1, <2>2 DEF Passt
  <2>4. QED
    BY <2>1, <2>3, ELesend
<1>5. CASE Lehneab(s)
  BY <1>5, EAblehnend DEF Lehneab
<1>6. QED
  BY <1>3, <1>4, <1>5 DEF Schreiben

LEMMA StornorechnungFindenE ==
  ASSUME EInv, NEW s \in Slots, StornorechnungFinden(s)
  PROVE  EGut(s)
<1> DEFINE id == auftrag[s].id
           o == belege[id]
           neu == [nummer |-> 0, nrJahr |-> 0, status |-> "bezahlt",
                   betrag |-> - o.betrag, stornoVon |-> id, storniertDurch |-> 0]
<1>1. /\ TypeOK /\ id \in IDs /\ o \in Beleg /\ id \in Nat
      /\ auftrag[s].op = "stornorechnung" /\ belege' = belege
  BY ZeilenTyp DEF EInv, IInv, Stand, StornorechnungFinden, Bei, IDs
<1>2. CASE Antworte(s)
  BY <1>1, <1>2, EAblehnend
<1>3. CASE Stornierbar(o) /\ Weiter(s, "doppelt", neu)
  <2>1. neu \in Beleg /\ neu.betrag = - o.betrag
    BY <1>1 DEF Beleg, Status
  <2>2. o.nummer # 0 /\ o.status # "entwurf"
    BY <1>3 DEF Stornierbar
  <2>3. ort'[s] = "doppelt" /\ entitaet'[s] = neu /\ auftrag'[s] = auftrag[s]
    BY <1>1, <1>3, <2>1, WeiterTyp DEF Orte
  <2>4. Passt(s)'
    BY <1>1, <2>1, <2>2, <2>3 DEF Passt
  <2>5. QED
    BY <1>1, <2>4, ELesend
<1>4. QED
  BY <1>2, <1>3 DEF StornorechnungFinden

LEMMA StornorechnungDoppeltE ==
  ASSUME EInv, NEW s \in Slots, StornorechnungDoppelt(s)
  PROVE  EGut(s)
<1>1. /\ TypeOK /\ entitaet[s] \in Beleg /\ ort[s] = "doppelt" /\ Passt(s)
      /\ auftrag[s].op = "stornorechnung" /\ belege' = belege
  BY DEF EInv, IInv, StornorechnungDoppelt, Bei, TypeOK
<1>2. CASE Antworte(s)
  BY <1>1, <1>2, EAblehnend
<1>3. CASE Weiter(s, "zaehlen", entitaet[s])
  <2>1. ort'[s] = "zaehlen" /\ entitaet'[s] = entitaet[s] /\ auftrag'[s] = auftrag[s]
    BY <1>1, <1>3, WeiterTyp DEF Orte
  <2>2. Passt(s)'
    BY <1>1, <2>1 DEF Passt
  <2>3. QED
    BY <1>1, <2>2, ELesend
<1>4. QED
  BY <1>2, <1>3 DEF StornorechnungDoppelt

\* The Stornorechnung takes the next number of its year and cancels what is stored.
LEMMA StornorechnungEinfuegenE ==
  ASSUME EInv, NEW s \in Slots, StornorechnungEinfuegen(s)
  PROVE  EGut(s)
<1> DEFINE id == auftrag[s].id
           b == entitaet[s]
           n == Len(belege) + 1
<1>1. /\ TypeOK /\ id \in IDs /\ b \in Beleg /\ belege \in Seq(Beleg) /\ Len(belege) \in Nat
      /\ ort[s] = "einfuegen" /\ auftrag[s].op = "stornorechnung" /\ Passt(s)
      /\ belege[id] \in Beleg
  BY ZeilenTyp DEF EInv, IInv, Stand, TypeOK, StornorechnungEinfuegen, Bei
<1>2. b.stornoVon = id /\ b.status = "bezahlt"
  BY <1>1 DEF EInv, IInv, Stand, Korrektur
<1>3. /\ belege[id].status # "entwurf" /\ belege[id].nummer # 0
      /\ b.betrag = - belege[id].betrag /\ Gezaehlt(b.nummer, b.nrJahr)
  BY <1>1 DEF Passt
<1>4. CASE /\ ~ Kollidiert(0, b)
           /\ belege' = Append(belege, b)
           /\ Weiter(s, "verweis", b)
  <2>1. /\ Len(belege') = n /\ belege'[n] = b
        /\ \A i \in IDs : belege'[i] = belege[i]
    BY <1>1, <1>4, Anhaengen DEF IDs
  <2>2. IDs' = IDs \cup {n} /\ n \notin IDs /\ n \in IDs' /\ 0 \notin IDs
    BY <1>1, <2>1 DEF IDs
  <2>3. b.nrJahr \in Nat /\ b.nummer # 0
    <3>1. b.nrJahr \in Nat /\ Cardinality(Nummeriert(b.nrJahr)) \in Nat
      BY <1>1, NummernTyp DEF Beleg
    <3>2. QED
      BY <1>3, <3>1 DEF Gezaehlt
  <2>4. Kreise' /\ Wachsend
    <3>1. \A i \in IDs \ {n} : belege[i].nummer = b.nummer => belege[i].nrJahr # b.nrJahr
      BY <1>4, <2>2, <2>3 DEF Kollidiert
    <3>2. TypeOK /\ Kreise /\ \A i \in IDs \ {n} : belege'[i] = belege[i]
      BY <1>1, <2>1 DEF EInv
    <3>3. QED
      BY <1>3, <2>1, <2>2, <2>3, <3>1, <3>2, KreiseNeu
  <2>5. Erlaubt /\ NurZeile(s)
    BY <2>1 DEF Erlaubt, Darf, NurZeile
  <2>6. Bewahrt
    BY StornorechnungEinfuegenGut DEF EInv, Gut
  <2>7. StornoHebtAuf'
    <3>1. ASSUME NEW g \in IDs', belege'[g].stornoVon # 0
          PROVE  Hebt(g)'
      <4>1. CASE g = n
        <5>1. belege'[g].stornoVon = id /\ belege'[id] = belege[id] /\ belege'[g] = b
          BY <1>1, <1>2, <2>1, <4>1
        <5>2. belege[id].betrag + b.betrag = 0
          <6>1. \A x \in Int : x + (- x) = 0
            OBVIOUS
          <6>2. belege[id].betrag \in Int
            BY <1>1 DEF Beleg
          <6>3. QED
            BY <1>3, <6>1, <6>2
        <5>3. QED
          BY <1>3, <5>1, <5>2 DEF Hebt
      <4>2. CASE g \in IDs
        BY <2>1, <2>5, <2>6, <3>1, <4>2, HebtAlt
      <4>3. QED
        BY <2>2, <4>1, <4>2
    <3>2. QED
      BY <3>1 DEF StornoHebtAuf, Hebt
  <2>8. Zeilen'
    BY <1>2, <2>1, <2>2, <2>3 DEF EInv, Zeilen, Zeile
  <2>9. ort'[s] = "verweis" /\ entitaet'[s] = b /\ auftrag'[s] = auftrag[s]
    BY <1>1, <1>4, WeiterTyp DEF Orte
  <2>10. Passt(s)'
    BY <1>1, <1>3, <2>1, <2>9 DEF Passt
  <2>11. QED
    BY <2>4, <2>5, <2>7, <2>8, <2>10 DEF EGut
<1>5. CASE Wiederhole(s, "doppelt")
  <2>1. belege' = belege
    BY <1>1, <1>5, WiederholeTyp DEF Orte
  <2>2. ort'[s] # "bereit" =>
          ort'[s] = "doppelt" /\ entitaet'[s] = b /\ auftrag'[s] = auftrag[s]
    BY <1>1, <1>5 DEF TypeOK, Wiederhole, Lehneab, Antworte
  <2>3. ort'[s] # "bereit" => Passt(s)'
    BY <1>1, <1>3, <2>1, <2>2 DEF Passt
  <2>4. QED
    BY <2>1, <2>3, ELesend
<1>6. QED
  BY <1>4, <1>5 DEF StornorechnungEinfuegen

LEMMA StornorechnungVerweisE ==
  ASSUME EInv, NEW s \in Slots, StornorechnungVerweis(s)
  PROVE  EGut(s)
<1> DEFINE id == auftrag[s].id
           b == belege[id]
           neu == [b EXCEPT !.storniertDurch = StornoId(id)]
<1>1. /\ TypeOK /\ id \in IDs /\ b \in Beleg /\ ort[s] = "verweis" /\ Antworte(s)
      /\ auftrag[s].op = "stornorechnung" /\ Passt(s) /\ Zeile(b)
  BY ZeilenTyp DEF EInv, IInv, Stand, StornorechnungVerweis, Bei, Zeilen
<1>2. b.status # "entwurf"
  BY <1>1 DEF Passt
<1>3. StornoId(id) \in IDs
  BY <1>1 DEF EInv, IInv, Stand, Korrektur, StornoId
<1>4. /\ neu \in Beleg /\ neu.nummer = b.nummer /\ neu.nrJahr = b.nrJahr
      /\ neu.status = b.status /\ neu.betrag = b.betrag
  BY <1>1, <1>3 DEF Beleg, IDs
<1>5. CASE b.storniertDurch = 0 /\ save(id, neu)
  <2>1. Darf(b, neu) /\ Zeile(neu)
    BY <1>1, <1>2, <1>4, <1>5 DEF Darf, Zeile
  <2>2. QED
    BY <1>1, <1>4, <1>5, <2>1, StornorechnungVerweisGut, EZurueckschreibend DEF EInv
<1>6. CASE belege' = belege
  BY <1>1, <1>6, EAblehnend
<1>7. QED
  BY <1>5, <1>6 DEF StornorechnungVerweis

-------------------------------------------------------------------------------
(***************************************************************************)
(* The specification.                                                      *)
(***************************************************************************)
LEMMA SchrittE ==
  ASSUME EInv, NEW s \in Slots, Schritt(s)
  PROVE  EGut(s)
  BY UpdateFindenE, ChangeStatusFindenE, MarkPaidFindenE, ZaehlenE,
     ChangeStatusFestsetzenE, SchreibenE, StornorechnungFindenE,
     StornorechnungDoppeltE, StornorechnungEinfuegenE, StornorechnungVerweisE
  DEF Schritt

\* An order that is taken is alone on its invoice.
LEMMA NimmGetrennt ==
  ASSUME JeBelegEinzeln, TypeOK, Getrennt, NEW s \in Slots, NEW a, Nimm(s, a)
  PROVE  Getrennt'
<1>1. \A t \in Slots : ort[t] = "bereit" \/ auftrag[t].id # a.id
  BY DEF Nimm
<1>2. /\ ort'[s] = "finden" /\ auftrag'[s] = a
      /\ \A t \in Slots \ {s} : ort'[t] = ort[t] /\ auftrag'[t] = auftrag[t]
  BY DEF TypeOK, Nimm
<1>3. QED
  BY <1>1, <1>2 DEF Getrennt

LEMMA BeginnE ==
  ASSUME JeBelegEinzeln, EInv, NEW s \in Slots, Beginn(s)
  PROVE  EGut(s) /\ Getrennt'
<1>1. PICK a : Nimm(s, a)
  BY DEF Beginn, NimmUpdate, NimmChangeStatus, NimmMarkPaid, NimmStornorechnung
<1>2. TypeOK /\ Getrennt
  BY DEF EInv, IInv
<1>3. belege' = belege /\ ort'[s] = "finden"
  BY <1>1, <1>2 DEF TypeOK, Nimm
<1>4. Passt(s)'
  BY <1>3 DEF Passt
<1>5. QED
  BY <1>1, <1>2, <1>3, <1>4, ELesend, NimmGetrennt

\* The requests that a step of s leaves alone keep what they rely on.
LEMMA AndereE ==
  ASSUME EInv, NEW s \in Slots, ort[s] # "bereit", EGut(s), Gut(s)
  PROVE  \A t \in Slots : ort'[t] # "bereit" => Passt(t)'
<1> SUFFICES ASSUME NEW t \in Slots, ort'[t] # "bereit"
             PROVE  Passt(t)'
  OBVIOUS
<1>1. CASE t = s
  BY <1>1 DEF EGut
<1>2. CASE t # s
  <2>1. ort'[t] = ort[t] /\ auftrag'[t] = auftrag[t] /\ entitaet'[t] = entitaet[t]
    BY <1>2 DEF Gut, Nur
  <2>2. TypeOK /\ auftrag[t].id \in IDs /\ Passt(t) /\ Wachsend
    BY <2>1 DEF EInv, IInv, Stand, EGut
  <2>3. auftrag[t].id # auftrag[s].id
    BY <1>2, <2>1 DEF EInv, Getrennt
  <2>4. belege'[auftrag[t].id] = belege[auftrag[t].id]
    BY <2>2, <2>3 DEF EGut, NurZeile
  <2>5. QED
    BY <2>1, <2>2, <2>4, FremdPasst
<1>3. QED
  BY <1>1, <1>2

\* A step that leaves the rows and the requests alone.
LEMMA RuhendE ==
  ASSUME EInv, IInv', belege' = belege, ort' = ort, auftrag' = auftrag, entitaet' = entitaet
  PROVE  EInv' /\ Erlaubt
<1>1. TypeOK /\ Bewahrt /\ IDs' = IDs
  BY Unveraendert DEF EInv, IInv, IDs
<1>2. Erlaubt
  BY DEF Erlaubt, Darf
<1>3. Kreise' /\ Wachsend
  BY <1>1, ZeilenTyp, KreiseGleich DEF EInv
<1>4. Zeilen' /\ Getrennt'
  BY <1>1 DEF EInv, Zeilen, Getrennt
<1>5. StornoHebtAuf'
  BY <1>1, <1>2, HebtWeiterAuf
<1>6. \A t \in Slots : ort'[t] # "bereit" => Passt(t)'
  BY <1>1, <1>3, FremdPasst DEF EInv, IInv, Stand
<1>7. QED
  BY <1>2, <1>3, <1>4, <1>5, <1>6 DEF EInv

LEMMA CreateE ==
  ASSUME EInv, Create
  PROVE  EInv' /\ Erlaubt
<1>1. PICK betrag \in Betraege : belege' = Append(belege, Entwurf(betrag))
  BY DEF Create
<1>2. /\ Entwurf(betrag) \in Beleg /\ Entwurf(betrag).stornoVon = 0
      /\ Entwurf(betrag).nummer = 0 /\ Zeile(Entwurf(betrag))
  BY RechnungenAssumption, EntwurfTyp DEF RechnungenAssumption, Entwurf, Zeile
<1>3. /\ belege \in Seq(Beleg) /\ Len(belege) \in Nat /\ TypeOK
      /\ ort' = ort /\ auftrag' = auftrag /\ entitaet' = entitaet
  BY DEF EInv, IInv, TypeOK, Create
<1>4. /\ Len(belege') = Len(belege) + 1
      /\ belege'[Len(belege) + 1] = Entwurf(betrag)
      /\ \A i \in IDs : belege'[i] = belege[i]
  BY <1>1, <1>2, <1>3, Anhaengen DEF IDs
<1>5. IDs' = IDs \cup {Len(belege) + 1}
  BY <1>3, <1>4 DEF IDs
<1>6. IInv' /\ Bewahrt
  BY CreateGut DEF EInv
<1>7. Erlaubt
  BY <1>4 DEF Erlaubt, Darf
<1>8. Kreise' /\ Wachsend
  <2>1. \A i \in IDs' \ IDs : belege'[i].nummer = 0
    BY <1>2, <1>4, <1>5
  <2>2. Len(belege') \in Nat /\ Len(belege) <= Len(belege')
    BY <1>3, <1>4
  <2>3. QED
    BY <1>3, <1>4, <2>1, <2>2, KreiseGleich DEF EInv
<1>9. StornoHebtAuf'
  BY <1>2, <1>4, <1>5, <1>6, <1>7, HebtWeiterAuf
<1>10. Zeilen' /\ Getrennt'
  BY <1>2, <1>3, <1>4, <1>5 DEF EInv, Zeilen, Getrennt
<1>11. \A t \in Slots : ort'[t] # "bereit" => Passt(t)'
  BY <1>3, <1>4, <1>8, FremdPasst DEF EInv, IInv, Stand
<1>12. QED
  BY <1>6, <1>7, <1>8, <1>9, <1>10, <1>11 DEF EInv

LEMMA AbsturzE ==
  ASSUME EInv, Absturz
  PROVE  EInv' /\ Erlaubt
<1>1. belege' = belege /\ \A t \in Slots : ort'[t] = "bereit"
  BY DEF Absturz
<1>2. IInv' /\ Bewahrt /\ TypeOK /\ IDs' = IDs
  BY <1>1, AbsturzGut DEF EInv, IInv, IDs
<1>3. Erlaubt
  BY <1>1 DEF Erlaubt, Darf
<1>4. Kreise'
  BY <1>1, <1>2, ZeilenTyp, KreiseGleich DEF EInv
<1>5. Zeilen' /\ Getrennt'
  BY <1>1, <1>2 DEF EInv, Zeilen, Getrennt
<1>6. StornoHebtAuf'
  BY <1>2, <1>3, HebtWeiterAuf
<1>7. QED
  BY <1>1, <1>2, <1>3, <1>4, <1>5, <1>6 DEF EInv

LEMMA InitE ==
  ASSUME Init
  PROVE  EInv
<1>1. IInv /\ IDs = {} /\ \A s \in Slots : ort[s] = "bereit"
  BY InitGut DEF Init, IDs
<1>2. ASSUME NEW j \in Nat
      PROVE  Kreis(j)
  <2>1. Nummeriert(j) = {} /\ Cardinality({}) = 0
    BY <1>1, FS_EmptySet DEF Nummeriert
  <2>2. QED
    BY <2>1 DEF Kreis
<1>3. QED
  BY <1>1, <1>2 DEF EInv, Kreise, Zeilen, Getrennt, StornoHebtAuf

LEMMA NextE ==
  ASSUME JeBelegEinzeln, EInv, [Next]_vars
  PROVE  EInv' /\ Erlaubt
<1>1. IInv'
  BY NextGut DEF EInv
<1>2. CASE UNCHANGED vars \/ Jahreswechsel
  BY <1>1, <1>2, RuhendE DEF vars, Jahreswechsel
<1>3. ASSUME NEW s \in Slots, Schritt(s)
      PROVE  EInv' /\ Erlaubt
  <2>1. EGut(s) /\ Gut(s)
    BY <1>3, SchrittE, SchrittGut DEF EInv
  <2>2. ort[s] # "bereit"
    BY <1>3 DEF Schritt, UpdateFinden, ChangeStatusFinden, MarkPaidFinden,
       ChangeStatusZaehlen, ChangeStatusFestsetzen, Schreiben, StornorechnungFinden,
       StornorechnungDoppelt, StornorechnungZaehlen, StornorechnungEinfuegen,
       StornorechnungVerweis, Zaehlen, Bei
  <2>3. \A t \in Slots : ort'[t] # "bereit" => Passt(t)'
    BY <2>1, <2>2, AndereE
  <2>4. Getrennt'
    <3>1. auftrag'[s].id = auftrag[s].id \/ ort'[s] = "bereit"
      BY <1>3 DEF EInv, IInv, TypeOK, Schritt, UpdateFinden, ChangeStatusFinden,
         MarkPaidFinden, ChangeStatusZaehlen, ChangeStatusFestsetzen, Schreiben,
         StornorechnungFinden, StornorechnungDoppelt, StornorechnungZaehlen,
         StornorechnungEinfuegen, StornorechnungVerweis, Zaehlen,
         Weiter, Antworte, Wiederhole, Lehneab
    <3>2. QED
      BY <2>1, <2>2, <3>1 DEF EInv, Getrennt, Gut, Nur
  <2>5. QED
    BY <1>1, <2>1, <2>3, <2>4 DEF EInv, EGut
<1>4. ASSUME NEW s \in Slots, Beginn(s)
      PROVE  EInv' /\ Erlaubt
  <2>1. EGut(s) /\ Gut(s) /\ Getrennt'
    BY <1>4, BeginnE, BeginnGut DEF EInv
  <2>2. belege' = belege
    BY <1>4 DEF Beginn, NimmUpdate, NimmChangeStatus, NimmMarkPaid, NimmStornorechnung, Nimm
  <2>3. ASSUME NEW t \in Slots, ort'[t] # "bereit"
        PROVE  Passt(t)'
    <3>1. CASE t = s
      BY <2>1, <2>3, <3>1 DEF EGut
    <3>2. CASE t # s
      BY <2>1, <2>2, <2>3, <3>2, FremdPasst DEF EInv, IInv, Stand, EGut, Gut, Nur
    <3>3. QED
      BY <3>1, <3>2
  <2>4. QED
    BY <1>1, <2>1, <2>3 DEF EInv, EGut
<1>5. QED
  BY <1>2, <1>3, <1>4, CreateE, AbsturzE DEF Next

\* The invariant holds in every state when requests on one invoice do not overlap.
THEOREM InduktionEinzeln ==
  ASSUME JeBelegEinzeln
  PROVE  Spec => []EInv
<1>1. Init => EInv
  BY InitE
<1>2. EInv /\ [Next]_vars => EInv'
  BY NextE
<1>3. QED
  BY <1>1, <1>2, PTL DEF Spec

\* numbering.ts, changeStatus, erstelleStornorechnung: the counted numbers of each year
\* are gap-free, whichever requests on other invoices race for them, whatever crashes
\* and whenever the year turns between the count and the save.
THEOREM NummernLueckenlos ==
  ASSUME JeBelegEinzeln
  PROVE  Spec => []Lueckenlos
<1>1. EInv => Lueckenlos
  BY DEF EInv, IInv, TypeOK, Kreise, Kreis, Lueckenlos
<1>2. QED
  BY <1>1, InduktionEinzeln, PTL

\* erstelleStornorechnung: a Stornorechnung and its original sum to zero.
THEOREM StornoHebtOriginalAuf ==
  ASSUME JeBelegEinzeln
  PROVE  Spec => []StornoHebtAuf
<1>1. EInv => StornoHebtAuf
  BY DEF EInv
<1>2. QED
  BY <1>1, InduktionEinzeln, PTL

\* update, changeStatus, markPaid: an issued invoice keeps number and content.
THEOREM FestgesetztUnveraendert ==
  ASSUME JeBelegEinzeln
  PROVE  Spec => FestgesetztBleibt
<1>1. EInv /\ [Next]_vars =>
        [\A i \in IDs : belege[i].status # "entwurf" =>
           LET b == belege[i]
               neu == belege'[i]
           IN /\ neu.status # "entwurf"
              /\ b.status = "storniert" => neu.status = "storniert"
              /\ <<neu.nummer, neu.nrJahr, neu.betrag>> = <<b.nummer, b.nrJahr, b.betrag>>]_vars
  BY NextE DEF Erlaubt, Darf
<1>2. QED
  BY <1>1, InduktionEinzeln, PTL DEF Spec, FestgesetztBleibt

\* markPaid, changeStatus: an invoice that carries the mark of its correction stays as it is.
THEOREM KorrigiertUnveraendert ==
  ASSUME JeBelegEinzeln
  PROVE  Spec => KorrigiertBleibt
<1>1. EInv /\ [Next]_vars =>
        [\A i \in IDs : belege[i].storniertDurch # 0 => belege'[i] = belege[i]]_vars
  BY NextE DEF Erlaubt, Darf
<1>2. QED
  BY <1>1, InduktionEinzeln, PTL DEF Spec, KorrigiertBleibt

===============================================================================
