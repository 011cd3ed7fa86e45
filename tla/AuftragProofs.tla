----------------------------- MODULE AuftragProofs -----------------------------
(***************************************************************************)
(* Theorems about what surrounds an order, for every number of requests and*)
(* all bounds: Angebote, Anzahlungen, Lager, and the composition of the    *)
(* three that MCAuftrag checks.                                            *)
(***************************************************************************)
EXTENDS MCAuftrag, TLAPS

-------------------------------------------------------------------------------
(***************************************************************************)
(* Angebote: the inductive invariant of the acceptance.                    *)
(***************************************************************************)
\* A request that holds in memory the row it has read.
HatGelesen(a) == ort[a] \notin {"bereit", "lesen", "gruppieren"}

Sperrt(a) == ort[a] \in {"pruefen", "einfuegen"}

\* createAngebotsSet works alone, before there is any order.
Alleine(a) ==
  /\ auftraege = {}
  /\ ort[a] = "lesen" => Angelegte # Varianten
  /\ \A b \in Anfragen \ {a} : ort[b] = "bereit"

\* What a request relies on: membership in the set is as it has read it, it holds the locks
\* it has taken, and no member of its set has an order when it is about to insert one.
Stand(a) ==
  ort[a] # "bereit" =>
    /\ auftrag[a].nr # 0
    /\ auftrag[a].op = "anlegen" => Alleine(a) /\ ~ HatGelesen(a)
    /\ auftrag[a].op # "anlegen" \/ ort[a] = "gruppieren" => angebote[auftrag[a].id].angelegt
    /\ HatGelesen(a) => /\ entitaet[a].angelegt
                        /\ entitaet[a].gruppe = angebote[auftrag[a].id].gruppe
    /\ Sperrt(a) => \A v \in SperrScope(a) : sperre[v] = a
    /\ ort[a] = "einfuegen" => SperrScope(a) \cap auftraege = {}

IInv ==
  /\ TypeOK
  /\ auftraege \subseteq Angelegte /\ Mitglieder \subseteq Angelegte
  /\ EinAuftragJeGruppe
  /\ \A a \in Anfragen : Stand(a)

\* What only createAngebotsSet does to the rows.
Bewahrt ==
  /\ angebote' \in [Varianten -> Zeile]
  /\ \A v \in Varianten : /\ angebote'[v].angelegt = angebote[v].angelegt
                          /\ angebote'[v].gruppe = angebote[v].gruppe

\* A step of a leaves the other requests and their locks alone.
Nur(a) ==
  \A b \in Anfragen \ {a} :
    /\ ort'[b] = ort[b] /\ auftrag'[b] = auftrag[b] /\ entitaet'[b] = entitaet[b]
    /\ \A v \in Varianten : sperre[v] = b => sperre'[v] = b

\* While a request of another kind runs, no set is being created.
NichtBeimAnlegen(a) ==
  \A b \in Anfragen \ {a} : ort[b] # "bereit" => auftrag[b].op # "anlegen"

TypRest ==
  /\ einzeln' \in BOOLEAN
  /\ sperre' \in [Varianten -> Anfragen \cup {Niemand}]
  /\ ort' \in [Anfragen -> {"bereit", "lesen", "gruppieren", "sperren", "pruefen", "einfuegen",
                            "schreiben", "setzen", "antworten"}]
  /\ auftrag' \in [Anfragen -> [op : Operationen, id : Varianten, nr : 0 .. MaxAnfragen]]
  /\ entitaet' \in [Anfragen -> Zeile]
  /\ zaehler' \in [anfragen : 0 .. MaxAnfragen, loeschungen : 0 .. MaxLoeschungen,
                   abstuerze : 0 .. MaxAbstuerze]

LEMMA Konstanten ==
  /\ NichtAngelegt \in Zeile
  /\ ~ NichtAngelegt.angelegt /\ ~ NichtAngelegt.gruppe /\ NichtAngelegt.link = 0
  /\ Ruhe \in [op : Operationen, id : Varianten, nr : 0 .. MaxAnfragen]
  BY AngeboteAssumption
  DEF AngeboteAssumption, NichtAngelegt, Zeile, AngebotStatus, Ruhe, Operationen

\* An update of one row keeps the others.
LEMMA Ersetzen ==
  ASSUME NEW f \in [Varianten -> Zeile], NEW id \in Varianten, NEW b \in Zeile,
         NEW g, g = [f EXCEPT ![id] = b]
  PROVE  /\ g \in [Varianten -> Zeile]
         /\ g[id] = b
         /\ \A v \in Varianten \ {id} : g[v] = f[v]
  OBVIOUS

LEMMA Link ==
  ASSUME NEW n \in 0 .. MaxAnfragen, n # 0
  PROVE  n \in 1 .. MaxAnfragen
  BY AngeboteAssumption DEF AngeboteAssumption

LEMMA GleicheMengen ==
  ASSUME Bewahrt
  PROVE  Angelegte' = Angelegte /\ Mitglieder' = Mitglieder
  BY DEF Bewahrt, Angelegte, Mitglieder

LEMMA Unveraendert ==
  ASSUME TypeOK, angebote' = angebote
  PROVE  Bewahrt
  BY DEF TypeOK, Bewahrt

\* A request keeps what it relies on if a step leaves it and its locks alone and brings no
\* order into the rows it has locked.
LEMMA FremderStand ==
  ASSUME TypeOK, Bewahrt, NEW b \in Anfragen, Stand(b),
         ort'[b] = ort[b], auftrag'[b] = auftrag[b], entitaet'[b] = entitaet[b],
         \A v \in Varianten : sperre[v] = b => sperre'[v] = b,
         ort[b] = "einfuegen" => SperrScope(b) \cap auftraege' \subseteq auftraege,
         ort[b] # "bereit" /\ auftrag[b].op = "anlegen" => Alleine(b)'
  PROVE  Stand(b)'
<1> SUFFICES ASSUME ort[b] # "bereit"
             PROVE  Stand(b)'
  BY DEF Stand
<1>1. Mitglieder' = Mitglieder
  BY GleicheMengen
<1>2. SperrScope(b)' = SperrScope(b) /\ SperrScope(b) \subseteq Varianten
  BY <1>1 DEF SperrScope, TypeOK, Mitglieder
<1>3. HatGelesen(b)' = HatGelesen(b) /\ Sperrt(b)' = Sperrt(b)
  BY DEF HatGelesen, Sperrt
<1>4. auftrag[b].id \in Varianten
  BY DEF TypeOK
<1>5. Sperrt(b) => \A v \in SperrScope(b)' : sperre'[v] = b
  BY <1>2 DEF Stand
<1>6. ort[b] = "einfuegen" => SperrScope(b)' \cap auftraege' = {}
  BY <1>2 DEF Stand
<1>7. QED
  BY <1>3, <1>4, <1>5, <1>6 DEF Stand, Bewahrt

LEMMA WeiterTyp ==
  ASSUME TypeOK, NEW a \in Anfragen, NEW b \in Zeile,
         NEW o \in {"lesen", "gruppieren", "sperren", "pruefen", "einfuegen", "schreiben",
                    "setzen", "antworten"},
         Weiter(a, o, b),
         sperre' \in [Varianten -> Anfragen \cup {Niemand}],
         \A v \in Varianten : sperre[v] \in Anfragen => sperre'[v] = sperre[v]
  PROVE  /\ TypRest /\ Nur(a)
         /\ ort'[a] = o /\ entitaet'[a] = b /\ auftrag' = auftrag
  BY DEF TypeOK, Weiter, TypRest, Nur

LEMMA BeendeTyp ==
  ASSUME TypeOK, NEW a \in Anfragen, Beende(a)
  PROVE  TypRest /\ Nur(a) /\ Stand(a)' /\ ort'[a] = "bereit"
<1>1. TypRest
  BY Konstanten DEF TypeOK, Beende, TypRest, Freigabe
<1>2. Nur(a)
  BY DEF TypeOK, Beende, Nur, Freigabe
<1>3. ort'[a] = "bereit"
  BY DEF TypeOK, Beende
<1>4. QED
  BY <1>1, <1>2, <1>3 DEF Stand

\* A request that runs and creates no set runs beside none that does.
LEMMA NichtAlleine ==
  ASSUME IInv, NEW a \in Anfragen, ort[a] # "bereit"
  PROVE  NichtBeimAnlegen(a)
  BY DEF IInv, Stand, Alleine, NichtBeimAnlegen

\* The step of a request that creates no set and inserts no order.
LEMMA Ruhig ==
  ASSUME IInv, NEW a \in Anfragen, NichtBeimAnlegen(a), TypRest, Bewahrt,
         auftraege' = auftraege, links' \subseteq 1 .. MaxAnfragen, Nur(a), Stand(a)'
  PROVE  IInv'
<1>1. TypeOK'
  BY DEF IInv, TypeOK, TypRest, Bewahrt
<1>2. (auftraege \subseteq Angelegte /\ Mitglieder \subseteq Angelegte)' /\ EinAuftragJeGruppe'
  BY GleicheMengen DEF IInv, EinAuftragJeGruppe
<1>3. \A b \in Anfragen \ {a} : Stand(b)'
  BY FremderStand DEF IInv, Nur, NichtBeimAnlegen
<1>4. QED
  BY <1>1, <1>2, <1>3 DEF IInv

LEMMA LehneabGut ==
  ASSUME IInv, NEW a \in Anfragen, ort[a] # "bereit", Lehneab(a)
  PROVE  IInv'
  BY BeendeTyp, NichtAlleine, Unveraendert, Ruhig DEF IInv, TypeOK, Lehneab

-------------------------------------------------------------------------------
(***************************************************************************)
(* The steps.                                                              *)
(***************************************************************************)
LEMMA NimmGut ==
  ASSUME IInv, NEW a \in Anfragen, NEW op \in Operationen, NEW id \in Varianten,
         Nimm(a, op, id),
         op = "anlegen" => Angelegte = {},
         op # "anlegen" => id \in Angelegte
  PROVE  IInv'
<1>1. zaehler.anfragen + 1 \in 1 .. MaxAnfragen
  BY AngeboteAssumption DEF IInv, TypeOK, Nimm, AngeboteAssumption
<1>2. /\ TypRest /\ Nur(a) /\ Bewahrt /\ auftraege' = auftraege /\ links' = links
      /\ sperre' = sperre /\ angebote' = angebote
      /\ ort'[a] = "lesen" /\ auftrag'[a] = [op |-> op, id |-> id, nr |-> zaehler.anfragen + 1]
  BY <1>1, AngeboteAssumption
  DEF IInv, TypeOK, Nimm, TypRest, Nur, Bewahrt, AngeboteAssumption
<1>3. NichtBeimAnlegen(a)
  BY DEF Nimm, Vertraeglich, Laufende, NichtBeimAnlegen
<1>4. ASSUME op = "anlegen" PROVE Alleine(a)'
  <2>1. auftraege' = {} /\ Angelegte' = {}
    BY <1>2, <1>4, GleicheMengen DEF IInv
  <2>2. ASSUME NEW b \in Anfragen \ {a} PROVE ort'[b] = "bereit"
    BY <1>2, <1>3, <1>4, <2>2 DEF IInv, TypeOK, Stand, Nur, NichtBeimAnlegen, Angelegte
  <2>3. QED
    BY <2>1, <2>2, AngeboteAssumption DEF Alleine, AngeboteAssumption
<1>5. Stand(a)'
  BY <1>1, <1>2, <1>4 DEF Stand, HatGelesen, Sperrt, Angelegte
<1>6. QED
  BY <1>2, <1>3, <1>5, Ruhig DEF IInv, TypeOK

LEMMA SetAnlegenGut ==
  ASSUME IInv, NEW a \in Anfragen, SetAnlegen(a)
  PROVE  IInv'
<1> DEFINE id == CHOOSE v \in Varianten \ Angelegte : TRUE
<1>1. ort[a] = "lesen" /\ auftrag[a].op = "anlegen" /\ Alleine(a) /\ auftrag[a].nr # 0 /\ TypeOK
  BY DEF SetAnlegen, Bei, IInv, Stand
<1>2. id \in Varianten \ Angelegte
  BY <1>1 DEF Alleine, Angelegte
<1> HIDE DEF id
<1>3. /\ auftrag' = [auftrag EXCEPT ![a].id = id]
      /\ auftrag'[a].id = id /\ auftrag'[a].op = "anlegen" /\ auftrag'[a].nr # 0
      /\ auftrag' \in [Anfragen -> [op : Operationen, id : Varianten, nr : 0 .. MaxAnfragen]]
  BY <1>1, <1>2 DEF SetAnlegen, TypeOK, id
<1>4. angebote' = [angebote EXCEPT ![id].angelegt = TRUE]
  BY <1>3 DEF SetAnlegen
<1>5. /\ angebote' \in [Varianten -> Zeile]
      /\ \A v \in Varianten : angebote'[v].gruppe = angebote[v].gruppe
      /\ \A v \in Varianten : v = id \/ angebote[v].angelegt => angebote'[v].angelegt
  <2> DEFINE neu == [angebote[id] EXCEPT !.angelegt = TRUE]
  <2>1. angebote[id] \in Zeile
    BY <1>1, <1>2 DEF TypeOK
  <2>2. neu \in Zeile /\ neu.gruppe = angebote[id].gruppe /\ neu.angelegt
    BY <2>1 DEF Zeile
  <2>3. angebote' = [angebote EXCEPT ![id] = neu]
    BY <1>4
  <2> HIDE DEF neu
  <2>4. QED
    BY <1>1, <1>2, <2>2, <2>3, Ersetzen DEF TypeOK
<1>6. /\ auftraege' = auftraege /\ auftraege = {}
      /\ ort' = [ort EXCEPT ![a] = "gruppieren"]
  BY <1>1 DEF SetAnlegen, Alleine
<1>7. TypeOK'
  BY <1>1, <1>3, <1>5, <1>6 DEF SetAnlegen, TypeOK
<1>8. \A b \in Anfragen \ {a} : ort'[b] = "bereit"
  BY <1>1, <1>6 DEF Alleine, TypeOK
<1>9. ort'[a] = "gruppieren"
  BY <1>1, <1>6 DEF TypeOK
<1>10. \A b \in Anfragen : Stand(b)'
  BY <1>2, <1>3, <1>5, <1>6, <1>8, <1>9 DEF Stand, Alleine, HatGelesen, Sperrt
<1>11. (auftraege \subseteq Angelegte /\ Mitglieder \subseteq Angelegte)'
  BY <1>5, <1>6 DEF IInv, Mitglieder, Angelegte
<1>12. QED
  BY <1>6, <1>7, <1>10, <1>11 DEF IInv, EinAuftragJeGruppe

LEMMA SetGruppierenGut ==
  ASSUME IInv, NEW a \in Anfragen, SetGruppieren(a)
  PROVE  IInv'
<1> DEFINE id == auftrag[a].id
<1>1. ort[a] = "gruppieren" /\ auftrag[a].op = "anlegen" /\ Alleine(a) /\ auftrag[a].nr # 0
      /\ TypeOK /\ id \in Varianten /\ angebote[id].angelegt
  BY DEF SetGruppieren, Bei, IInv, Stand, TypeOK
<1>2. angebote' = [angebote EXCEPT ![id].gruppe = TRUE]
  BY DEF SetGruppieren
<1>3. /\ angebote' \in [Varianten -> Zeile]
      /\ \A v \in Varianten : /\ angebote'[v].angelegt = angebote[v].angelegt
                              /\ v # id => angebote'[v].gruppe = angebote[v].gruppe
  <2> DEFINE neu == [angebote[id] EXCEPT !.gruppe = TRUE]
  <2>1. angebote[id] \in Zeile
    BY <1>1, <1>2 DEF TypeOK
  <2>2. neu \in Zeile /\ neu.angelegt = angebote[id].angelegt
    BY <2>1 DEF Zeile
  <2>3. angebote' = [angebote EXCEPT ![id] = neu]
    BY <1>2
  <2> HIDE DEF neu
  <2>4. /\ angebote' \in [Varianten -> Zeile] /\ angebote'[id] = neu
        /\ \A v \in Varianten \ {id} : angebote'[v] = angebote[v]
    BY <1>1, <2>2, <2>3, Ersetzen DEF TypeOK
  <2>5. QED
    BY <2>2, <2>4
<1>4. Angelegte' = Angelegte
  BY <1>3 DEF Angelegte
<1>5. auftraege' = auftraege /\ auftraege = {} /\ links' = links /\ Mitglieder' \subseteq Angelegte
  BY <1>1, <1>3 DEF SetGruppieren, Alleine, IInv, Mitglieder, Angelegte
<1>6. CASE Beende(a)
  <2>1. TypRest /\ Nur(a) /\ Stand(a)' /\ ort'[a] = "bereit"
    BY <1>1, <1>6, BeendeTyp
  <2>2. \A b \in Anfragen : Stand(b)'
    BY <1>1, <2>1 DEF Stand, Alleine, Nur
  <2>3. QED
    BY <1>1, <1>3, <1>4, <1>5, <2>1, <2>2 DEF IInv, TypeOK, TypRest, EinAuftragJeGruppe
<1>7. CASE Angelegte # Varianten /\ Weiter(a, "lesen", NichtAngelegt) /\ UNCHANGED sperre
  <2>1. TypRest /\ Nur(a) /\ ort'[a] = "lesen" /\ auftrag' = auftrag
    BY <1>1, <1>7, WeiterTyp, Konstanten DEF TypeOK
  <2>2. \A b \in Anfragen \ {a} : ort'[b] = "bereit"
    BY <1>1, <2>1 DEF Alleine, Nur
  <2>3. \A b \in Anfragen : Stand(b)'
    BY <1>1, <1>4, <1>5, <1>7, <2>1, <2>2 DEF Stand, Alleine, HatGelesen, Sperrt
  <2>4. QED
    BY <1>1, <1>3, <1>4, <1>5, <2>1, <2>3 DEF IInv, TypeOK, TypRest, EinAuftragJeGruppe
<1>8. QED
  BY <1>6, <1>7 DEF SetGruppieren

LEMMA AnnahmeLesenGut ==
  ASSUME IInv, NEW a \in Anfragen, AnnahmeLesen(a)
  PROVE  IInv'
<1> DEFINE id == auftrag[a].id
<1>1. ort[a] = "lesen" /\ auftrag[a].op = "annahme" /\ Stand(a) /\ TypeOK
      /\ id \in Varianten /\ angebote[id] \in Zeile
  BY DEF AnnahmeLesen, Bei, IInv, TypeOK
<1>2. /\ TypRest /\ Nur(a) /\ auftrag' = auftrag
      /\ ort'[a] = "sperren" /\ entitaet'[a] = angebote[id]
  BY <1>1, WeiterTyp DEF AnnahmeLesen, TypeOK
<1>3. /\ Bewahrt /\ NichtBeimAnlegen(a) /\ angebote' = angebote /\ auftraege' = auftraege
      /\ links' = links
  BY <1>1, Unveraendert, NichtAlleine DEF AnnahmeLesen
<1>4. Stand(a)'
  BY <1>1, <1>2, <1>3 DEF Stand, HatGelesen, Sperrt
<1>5. QED
  BY <1>1, <1>2, <1>3, <1>4, Ruhig DEF TypeOK

LEMMA AnnahmeSperrenGut ==
  ASSUME IInv, NEW a \in Anfragen, AnnahmeSperren(a)
  PROVE  IInv'
<1>1. ort[a] = "sperren" /\ auftrag[a].op = "annahme" /\ Stand(a) /\ TypeOK /\ entitaet[a] \in Zeile
  BY DEF AnnahmeSperren, Bei, IInv, TypeOK
<1>2. /\ sperre' \in [Varianten -> Anfragen \cup {Niemand}]
      /\ \A v \in Varianten : sperre[v] \in Anfragen => sperre'[v] = sperre[v]
      /\ \A v \in Varianten : v \in SperrScope(a) => sperre'[v] = a
  BY <1>1, AngeboteAssumption DEF AnnahmeSperren, TypeOK, AngeboteAssumption
<1>3. /\ TypRest /\ Nur(a) /\ auftrag' = auftrag
      /\ ort'[a] = "pruefen" /\ entitaet'[a] = entitaet[a]
  BY <1>1, <1>2, WeiterTyp DEF AnnahmeSperren
<1>4. /\ Bewahrt /\ NichtBeimAnlegen(a) /\ angebote' = angebote /\ auftraege' = auftraege
      /\ links' = links
  BY <1>1, Unveraendert, NichtAlleine DEF AnnahmeSperren
<1>5. SperrScope(a)' = SperrScope(a) /\ SperrScope(a) \subseteq Varianten
  BY <1>1, <1>3, <1>4 DEF SperrScope, Mitglieder, TypeOK
<1>6. \A v \in SperrScope(a)' : sperre'[v] = a
  BY <1>2, <1>5
<1>7. Stand(a)'
  BY <1>1, <1>3, <1>4, <1>6 DEF Stand, HatGelesen, Sperrt
<1>8. QED
  BY <1>1, <1>3, <1>4, <1>7, Ruhig DEF TypeOK

LEMMA AnnahmePruefenGut ==
  ASSUME IInv, NEW a \in Anfragen, AnnahmePruefen(a)
  PROVE  IInv'
<1>1. ort[a] = "pruefen" /\ auftrag[a].op = "annahme" /\ Stand(a) /\ TypeOK /\ entitaet[a] \in Zeile
  BY DEF AnnahmePruefen, Bei, IInv, TypeOK
<1>2. CASE Lehneab(a)
  BY <1>1, <1>2, LehneabGut
<1>3. CASE /\ Annehmbar(a)
           /\ Weiter(a, "einfuegen", entitaet[a])
           /\ UNCHANGED <<angebote, auftraege, sperre, links>>
  <2>1. /\ TypRest /\ Nur(a) /\ auftrag' = auftrag
        /\ ort'[a] = "einfuegen" /\ entitaet'[a] = entitaet[a]
    BY <1>1, <1>3, WeiterTyp DEF TypeOK
  <2>2. Bewahrt /\ NichtBeimAnlegen(a) /\ angebote' = angebote /\ auftraege' = auftraege
    BY <1>1, <1>3, Unveraendert, NichtAlleine
  <2>3. SperrScope(a)' = SperrScope(a)
    BY <2>1, <2>2 DEF SperrScope, Mitglieder
  <2>4. SperrScope(a) \cap auftraege = {}
    BY <1>3 DEF Annehmbar, Bestehend, GruppenIds, SperrScope
  <2>5. Stand(a)'
    BY <1>1, <1>3, <2>1, <2>2, <2>3, <2>4 DEF Stand, HatGelesen, Sperrt
  <2>6. QED
    BY <1>1, <1>3, <2>1, <2>2, <2>5, Ruhig DEF TypeOK
<1>4. QED
  BY <1>2, <1>3 DEF AnnahmePruefen

\* The rows as an acceptance leaves them.
LEMMA NachAnnahmeTyp ==
  ASSUME TypeOK, NEW id \in Varianten, NEW b \in Zeile,
         b.angelegt = angebote[id].angelegt, b.gruppe = angebote[id].gruppe,
         angebote' = NachAnnahme(id, b)
  PROVE  Bewahrt
<1> DEFINE neu == [b EXCEPT !.gewaehlt = TRUE, !.status = "angenommen",
                            !.gueltig = angebote[id].gueltig]
           abgelehnt(z) == [z EXCEPT !.status = "abgelehnt", !.gewaehlt = FALSE]
<1>1. \A v \in Varianten : angebote[v] \in Zeile
  BY DEF TypeOK
<1>2. neu \in Zeile /\ neu.angelegt = b.angelegt /\ neu.gruppe = b.gruppe
  <2>1. angebote[id].gueltig \in BOOLEAN
    BY <1>1 DEF Zeile
  <2>2. QED
    BY <2>1 DEF Zeile, AngebotStatus
<1>3. ASSUME NEW z \in Zeile
      PROVE  /\ abgelehnt(z) \in Zeile
             /\ abgelehnt(z).angelegt = z.angelegt /\ abgelehnt(z).gruppe = z.gruppe
  BY <1>3 DEF Zeile, AngebotStatus
<1>4. angebote' = [v \in Varianten |->
                     IF v = id THEN neu
                     ELSE IF b.gruppe /\ angebote[v].gruppe THEN abgelehnt(angebote[v])
                     ELSE angebote[v]]
  BY DEF NachAnnahme
<1> HIDE DEF neu, abgelehnt
<1>5. ASSUME NEW v \in Varianten
      PROVE  /\ angebote'[v] \in Zeile
             /\ angebote'[v].angelegt = angebote[v].angelegt
             /\ angebote'[v].gruppe = angebote[v].gruppe
  <2>1. \/ v = id /\ angebote'[v] = neu
        \/ angebote'[v] = abgelehnt(angebote[v])
        \/ angebote'[v] = angebote[v]
    BY <1>4
  <2>2. QED
    BY <2>1, <1>1, <1>2, <1>3
<1>6. angebote' \in [Varianten -> Zeile]
  <2>1. angebote' = [v \in Varianten |-> angebote'[v]]
    BY <1>4
  <2>2. QED
    BY <1>5, <2>1
<1>7. QED
  BY <1>5, <1>6 DEF Bewahrt

\* The order is inserted: the locks keep the other requests that are about to insert one
\* out of the same set.
LEMMA AnnahmeFestschreibenGut ==
  ASSUME IInv, NEW a \in Anfragen, AnnahmeFestschreiben(a)
  PROVE  IInv'
<1> DEFINE id == auftrag[a].id
<1>1. /\ ort[a] = "einfuegen" /\ auftrag[a].op = "annahme" /\ Stand(a) /\ TypeOK
      /\ entitaet[a] \in Zeile /\ id \in Varianten
  BY DEF AnnahmeFestschreiben, Bei, IInv, TypeOK
<1>2. /\ angebote[id].angelegt /\ entitaet[a].angelegt
      /\ entitaet[a].gruppe = angebote[id].gruppe
      /\ \A v \in SperrScope(a) : sperre[v] = a
      /\ SperrScope(a) \cap auftraege = {}
  BY <1>1 DEF Stand, HatGelesen, Sperrt
<1>3. auftraege' = auftraege \cup {id} /\ angebote' = NachAnnahme(id, entitaet[a]) /\ links' = links
  BY DEF AnnahmeFestschreiben
<1>4. Bewahrt
  <2>1. entitaet[a].angelegt = angebote[id].angelegt
    <3>1. entitaet[a].angelegt \in BOOLEAN /\ angebote[id].angelegt \in BOOLEAN
      BY <1>1 DEF TypeOK, Zeile
    <3>2. QED
      BY <1>2, <3>1
  <2>2. QED
    BY <1>1, <1>2, <1>3, <2>1, NachAnnahmeTyp
<1>5. Angelegte' = Angelegte /\ Mitglieder' = Mitglieder
  BY <1>4, GleicheMengen
<1>6. /\ TypRest /\ Nur(a) /\ Stand(a)' /\ NichtBeimAnlegen(a)
  BY <1>1, BeendeTyp, NichtAlleine DEF AnnahmeFestschreiben
<1>7. id \in SperrScope(a)
  BY <1>1, <1>2 DEF SperrScope, Mitglieder
<1>8. ASSUME NEW b \in Anfragen \ {a} PROVE Stand(b)'
  <2>1. Stand(b)
    BY DEF IInv
  <2>2. ort[b] = "einfuegen" => id \notin SperrScope(b)
    BY <1>2, <1>7, <2>1 DEF Stand, Sperrt
  <2>3. QED
    BY <1>1, <1>3, <1>4, <1>6, <2>1, <2>2, FremderStand DEF Nur, NichtBeimAnlegen
<1>9. TypeOK'
  BY <1>1, <1>3, <1>4, <1>6 DEF TypeOK, TypRest, Bewahrt
<1>10. (auftraege \subseteq Angelegte /\ Mitglieder \subseteq Angelegte)'
  BY <1>1, <1>2, <1>3, <1>5 DEF IInv, Angelegte
<1>11. EinAuftragJeGruppe'
  <2>1. id \in Mitglieder => Mitglieder \cap auftraege = {}
    BY <1>2 DEF SperrScope, Mitglieder
  <2>2. QED
    BY <1>3, <1>5, <2>1 DEF IInv, EinAuftragJeGruppe
<1>12. QED
  BY <1>6, <1>8, <1>9, <1>10, <1>11 DEF IInv

LEMMA AenderungLesenGut ==
  ASSUME IInv, NEW a \in Anfragen, AenderungLesen(a)
  PROVE  IInv'
<1> DEFINE id == auftrag[a].id
<1>1. /\ ort[a] = "lesen" /\ auftrag[a].op \in {"update", "status"} /\ Stand(a) /\ TypeOK
      /\ id \in Varianten /\ angebote[id] \in Zeile
  BY DEF AenderungLesen, IInv, TypeOK
<1>2. CASE Lehneab(a)
  BY <1>1, <1>2, LehneabGut
<1>3. CASE Weiter(a, "schreiben", angebote[id]) /\ UNCHANGED <<angebote, auftraege, sperre, links>>
  <2>1. /\ TypRest /\ Nur(a) /\ auftrag' = auftrag
        /\ ort'[a] = "schreiben" /\ entitaet'[a] = angebote[id]
    BY <1>1, <1>3, WeiterTyp DEF TypeOK
  <2>2. /\ Bewahrt /\ NichtBeimAnlegen(a) /\ angebote' = angebote /\ auftraege' = auftraege
    BY <1>1, <1>3, Unveraendert, NichtAlleine
  <2>3. Stand(a)'
    BY <1>1, <2>1, <2>2 DEF Stand, HatGelesen, Sperrt
  <2>4. QED
    BY <1>1, <1>3, <2>1, <2>2, <2>3, Ruhig DEF TypeOK
<1>4. QED
  BY <1>2, <1>3 DEF AenderungLesen

LEMMA AenderungSchreibenGut ==
  ASSUME IInv, NEW a \in Anfragen, AenderungSchreiben(a)
  PROVE  IInv'
<1> DEFINE id == auftrag[a].id
           neu == [entitaet[a] EXCEPT !.gueltig = angebote[id].gueltig]
<1>1. /\ ort[a] = "schreiben" /\ Stand(a) /\ TypeOK
      /\ id \in Varianten /\ angebote[id] \in Zeile /\ entitaet[a] \in Zeile
  BY DEF AenderungSchreiben, IInv, TypeOK
<1>2. /\ angebote[id].angelegt /\ entitaet[a].angelegt
      /\ entitaet[a].gruppe = angebote[id].gruppe
  BY <1>1 DEF Stand, HatGelesen
<1>3. neu \in Zeile /\ neu.angelegt = entitaet[a].angelegt /\ neu.gruppe = entitaet[a].gruppe
  <2>1. angebote[id].gueltig \in BOOLEAN
    BY <1>1 DEF Zeile
  <2>2. QED
    BY <1>1, <2>1 DEF Zeile
<1>4. entitaet[a].angelegt = angebote[id].angelegt
  <2>1. entitaet[a].angelegt \in BOOLEAN /\ angebote[id].angelegt \in BOOLEAN
    BY <1>1 DEF Zeile
  <2>2. QED
    BY <1>2, <2>1
<1>5. angebote' = [angebote EXCEPT ![id] = neu] \/ angebote' = angebote
  BY DEF AenderungSchreiben
<1> HIDE DEF neu
<1>6. Bewahrt
  <2>1. CASE angebote' = angebote
    BY <1>1, <2>1, Unveraendert
  <2>2. CASE angebote' = [angebote EXCEPT ![id] = neu]
    <3>1. /\ angebote' \in [Varianten -> Zeile] /\ angebote'[id] = neu
          /\ \A v \in Varianten \ {id} : angebote'[v] = angebote[v]
      BY <1>1, <1>3, <2>2, Ersetzen DEF TypeOK
    <3>2. neu.angelegt = angebote[id].angelegt /\ neu.gruppe = angebote[id].gruppe
      BY <1>2, <1>3, <1>4
    <3>3. QED
      BY <3>1, <3>2 DEF Bewahrt
  <2>3. QED
    BY <1>5, <2>1, <2>2
<1>7. TypRest /\ Nur(a) /\ Stand(a)' /\ NichtBeimAnlegen(a)
  BY <1>1, BeendeTyp, NichtAlleine DEF AenderungSchreiben
<1>8. QED
  BY <1>1, <1>6, <1>7, Ruhig DEF AenderungSchreiben, TypeOK

LEMMA TokenLesenGut ==
  ASSUME IInv, NEW a \in Anfragen, TokenLesen(a)
  PROVE  IInv'
<1> DEFINE id == auftrag[a].id
<1>1. /\ ort[a] = "lesen" /\ auftrag[a].op = "token" /\ Stand(a) /\ TypeOK
      /\ id \in Varianten /\ angebote[id] \in Zeile
  BY DEF TokenLesen, Bei, IInv, TypeOK
<1>2. /\ Bewahrt /\ NichtBeimAnlegen(a) /\ angebote' = angebote /\ auftraege' = auftraege
  BY <1>1, Unveraendert, NichtAlleine DEF TokenLesen
<1>3. links' \subseteq 1 .. MaxAnfragen
  <2>1. angebote[id].link \in 0 .. MaxAnfragen /\ links \subseteq 1 .. MaxAnfragen
    BY <1>1 DEF TypeOK, Zeile
  <2>2. links' = links \/ (angebote[id].link # 0 /\ links' = links \cup {angebote[id].link})
    BY DEF TokenLesen
  <2>3. QED
    BY <2>1, <2>2, Link
<1>4. CASE Beende(a)
  BY <1>1, <1>2, <1>3, <1>4, BeendeTyp, Ruhig
<1>5. CASE Weiter(a, "setzen", angebote[id]) /\ UNCHANGED <<angebote, auftraege, sperre, links>>
  <2>1. /\ TypRest /\ Nur(a) /\ auftrag' = auftrag
        /\ ort'[a] = "setzen" /\ entitaet'[a] = angebote[id]
    BY <1>1, <1>5, WeiterTyp DEF TypeOK
  <2>2. Stand(a)'
    BY <1>1, <1>2, <2>1 DEF Stand, HatGelesen, Sperrt
  <2>3. QED
    BY <1>2, <1>3, <2>1, <2>2, Ruhig
<1>6. QED
  BY <1>4, <1>5 DEF TokenLesen

LEMMA TokenSetzenGut ==
  ASSUME IInv, NEW a \in Anfragen, TokenSetzen(a)
  PROVE  IInv'
<1> DEFINE id == auftrag[a].id
           neu(z) == [z EXCEPT !.link = auftrag[a].nr]
<1>1. /\ ort[a] = "setzen" /\ auftrag[a].op = "token" /\ Stand(a) /\ TypeOK
      /\ id \in Varianten /\ entitaet[a] \in Zeile /\ auftrag[a].nr \in 0 .. MaxAnfragen
  BY DEF TokenSetzen, Bei, IInv, TypeOK
<1>2. ASSUME NEW z \in Zeile
      PROVE  neu(z) \in Zeile /\ neu(z).angelegt = z.angelegt /\ neu(z).gruppe = z.gruppe
  BY <1>1, <1>2 DEF Zeile
<1>3. angebote' = [v \in Varianten |-> IF v \in OhneLink(a) THEN neu(angebote[v]) ELSE angebote[v]]
  BY DEF TokenSetzen
<1> HIDE DEF neu
<1>4. Bewahrt
  BY <1>1, <1>2, <1>3 DEF TypeOK, Bewahrt
<1>5. /\ TypRest /\ Nur(a) /\ auftrag' = auftrag
      /\ ort'[a] = "antworten" /\ entitaet'[a] = entitaet[a]
  BY <1>1, WeiterTyp DEF TokenSetzen, TypeOK
<1>6. Stand(a)'
  BY <1>1, <1>4, <1>5 DEF Stand, HatGelesen, Sperrt, Bewahrt
<1>7. QED
  BY <1>1, <1>4, <1>5, <1>6, NichtAlleine, Ruhig DEF TokenSetzen, TypeOK

LEMMA TokenAntwortenGut ==
  ASSUME IInv, NEW a \in Anfragen, TokenAntworten(a)
  PROVE  IInv'
<1> DEFINE id == auftrag[a].id
<1>1. /\ ort[a] = "antworten" /\ Stand(a) /\ TypeOK /\ id \in Varianten /\ angebote[id] \in Zeile
      /\ auftrag[a].nr \in 0 .. MaxAnfragen
  BY DEF TokenAntworten, Bei, IInv, TypeOK
<1>2. links' \subseteq 1 .. MaxAnfragen
  <2>1. angebote[id].link \in 0 .. MaxAnfragen /\ links \subseteq 1 .. MaxAnfragen
        /\ auftrag[a].nr # 0
    BY <1>1 DEF TypeOK, Zeile, Stand
  <2>2. \E n \in {angebote[id].link, auftrag[a].nr} : n # 0 /\ links' = links \cup {n}
    BY <2>1 DEF TokenAntworten
  <2>3. QED
    BY <1>1, <2>1, <2>2, Link
<1>3. /\ Bewahrt /\ NichtBeimAnlegen(a) /\ auftraege' = auftraege
  BY <1>1, Unveraendert, NichtAlleine DEF TokenAntworten
<1>4. QED
  BY <1>1, <1>2, <1>3, BeendeTyp, Ruhig DEF TokenAntworten

-------------------------------------------------------------------------------
(***************************************************************************)
(* What happens beside the requests.                                       *)
(***************************************************************************)
LEMMA Daneben ==
  ASSUME IInv, Bewahrt, UNCHANGED <<einzeln, sperre, anfragen, links>>,
         auftraege' \subseteq auftraege,
         zaehler' \in [anfragen : 0 .. MaxAnfragen, loeschungen : 0 .. MaxLoeschungen,
                       abstuerze : 0 .. MaxAbstuerze]
  PROVE  IInv'
<1>1. TypeOK'
  BY DEF IInv, TypeOK, Bewahrt, anfragen
<1>2. Angelegte' = Angelegte /\ Mitglieder' = Mitglieder
  BY GleicheMengen
<1>3. (auftraege \subseteq Angelegte /\ Mitglieder \subseteq Angelegte)' /\ EinAuftragJeGruppe'
  BY <1>2 DEF IInv, EinAuftragJeGruppe
<1>4. ASSUME NEW b \in Anfragen PROVE Stand(b)'
  <2>1. Alleine(b) => Alleine(b)'
    BY <1>2 DEF Alleine, anfragen
  <2>2. TypeOK /\ Stand(b)
    BY DEF IInv
  <2>3. QED
    BY <2>1, <2>2, FremderStand DEF Stand, anfragen
<1>5. QED
  BY <1>1, <1>3, <1>4 DEF IInv

LEMMA LaeuftAbGut ==
  ASSUME IInv, NEW v \in Varianten, LaeuftAb(v)
  PROVE  IInv'
<1> DEFINE neu == [angebote[v] EXCEPT !.gueltig = FALSE]
<1>1. angebote[v] \in Zeile /\ TypeOK
  BY DEF IInv, TypeOK
<1>2. neu \in Zeile /\ neu.angelegt = angebote[v].angelegt /\ neu.gruppe = angebote[v].gruppe
  BY <1>1 DEF Zeile
<1>3. angebote' = [angebote EXCEPT ![v] = neu]
  BY DEF LaeuftAb
<1> HIDE DEF neu
<1>4. Bewahrt
  BY <1>1, <1>2, <1>3, Ersetzen DEF TypeOK, Bewahrt
<1>5. QED
  BY <1>1, <1>4, Daneben DEF LaeuftAb, TypeOK

LEMMA markAbgelaufenGut ==
  ASSUME IInv, markAbgelaufen
  PROVE  IInv'
<1> DEFINE neu(z) == [z EXCEPT !.status = "abgelaufen"]
<1>1. ASSUME NEW z \in Zeile
      PROVE  neu(z) \in Zeile /\ neu(z).angelegt = z.angelegt /\ neu(z).gruppe = z.gruppe
  BY <1>1 DEF Zeile, AngebotStatus
<1>2. angebote' = [v \in Varianten |-> IF v \in Abgelaufene THEN neu(angebote[v]) ELSE angebote[v]]
  BY DEF markAbgelaufen
<1> HIDE DEF neu
<1>3. Bewahrt
  BY <1>1, <1>2 DEF IInv, TypeOK, Bewahrt
<1>4. QED
  BY <1>3, Daneben DEF markAbgelaufen, IInv, TypeOK

LEMMA AuftragEntfernenGut ==
  ASSUME IInv, NEW v \in Varianten, AuftragEntfernen(v)
  PROVE  IInv'
<1>1. zaehler' \in [anfragen : 0 .. MaxAnfragen, loeschungen : 0 .. MaxLoeschungen,
                    abstuerze : 0 .. MaxAbstuerze]
  BY AngeboteAssumption DEF AuftragEntfernen, IInv, TypeOK, AngeboteAssumption
<1>2. Bewahrt
  BY Unveraendert DEF AuftragEntfernen, IInv
<1>3. QED
  BY <1>1, <1>2, Daneben DEF AuftragEntfernen

LEMMA AbsturzGut ==
  ASSUME IInv, Absturz
  PROVE  IInv'
<1>1. TypeOK'
  BY Konstanten, AngeboteAssumption DEF Absturz, IInv, TypeOK, AngeboteAssumption
<1>2. Angelegte' = Angelegte /\ Mitglieder' = Mitglieder
  BY DEF Absturz, Angelegte, Mitglieder
<1>3. \A b \in Anfragen : Stand(b)'
  BY DEF Absturz, Stand
<1>4. QED
  BY <1>1, <1>2, <1>3 DEF Absturz, IInv, EinAuftragJeGruppe

LEMMA InitGut ==
  ASSUME NEW z \in {Keine, Alle}, InitMit(z)
  PROVE  IInv
<1>1. TypeOK
  BY Konstanten, AngeboteAssumption
  DEF InitMit, Keine, Alle, TypeOK, AngeboteAssumption
<1>2. Mitglieder = {}
  BY Konstanten DEF InitMit, Mitglieder
<1>3. QED
  BY <1>1, <1>2 DEF InitMit, IInv, EinAuftragJeGruppe, Stand

LEMMA LegtAnGut ==
  ASSUME IInv, NEW a \in Anfragen, LegtAn(a)
  PROVE  IInv'
<1>1. CASE NimmAnlegen(a)
  <2>1. Ruhe.id \in Varianten
    BY AngeboteAssumption DEF Ruhe, AngeboteAssumption
  <2>2. QED
    BY <1>1, <2>1, NimmGut DEF NimmAnlegen, Operationen
<1>2. CASE SetAnlegen(a)
  BY <1>2, SetAnlegenGut
<1>3. CASE SetScheitert(a)
  BY <1>3, LehneabGut DEF SetScheitert, Bei
<1>4. CASE SetGruppieren(a)
  BY <1>4, SetGruppierenGut
<1>5. QED
  BY <1>1, <1>2, <1>3, <1>4 DEF LegtAn

LEMMA BeginnGut ==
  ASSUME IInv, NEW a \in Anfragen, NimmAnnahme(a) \/ NimmAenderung(a) \/ NimmToken(a)
  PROVE  IInv'
<1>1. PICK op \in Operationen \ {"anlegen"}, v \in Angelegte : Nimm(a, op, v)
  BY DEF NimmAnnahme, NimmAenderung, NimmToken, Operationen
<1>2. QED
  BY <1>1, NimmGut DEF Angelegte

LEMMA AnnahmeGut ==
  ASSUME IInv, NEW a \in Anfragen, Annahme(a)
  PROVE  IInv'
<1>1. CASE AnnahmeKollidiert(a)
  BY <1>1, LehneabGut DEF AnnahmeKollidiert, Bei
<1>2. QED
  BY <1>1, AnnahmeLesenGut, AnnahmeSperrenGut, AnnahmePruefenGut, AnnahmeFestschreibenGut
  DEF Annahme

LEMMA NextGut ==
  ASSUME IInv, [Next]_vars
  PROVE  IInv'
<1>1. CASE UNCHANGED vars
  <2>1. Bewahrt
    BY <1>1, Unveraendert DEF vars, IInv
  <2>2. QED
    BY <1>1, <2>1, Daneben DEF vars, IInv, TypeOK
<1>2. CASE \E a \in Anfragen :
             LegtAn(a) \/ NimmAnnahme(a) \/ Annahme(a) \/ Aenderung(a) \/ Token(a)
  BY <1>2, LegtAnGut, BeginnGut, AnnahmeGut, AenderungLesenGut, AenderungSchreibenGut,
     TokenLesenGut, TokenSetzenGut, TokenAntwortenGut DEF Aenderung, Token
<1>3. CASE (\E v \in Varianten : LaeuftAb(v) \/ AuftragEntfernen(v)) \/ markAbgelaufen \/ Absturz
  BY <1>3, LaeuftAbGut, AuftragEntfernenGut, markAbgelaufenGut, AbsturzGut
<1>4. QED
  BY <1>1, <1>2, <1>3 DEF Next

\* The invariant holds in every state, however the requests overlap.
THEOREM Induktion == Spec => []IInv
<1>1. Init => IInv
  BY InitGut DEF Init
<1>2. IInv /\ [Next]_vars => IInv'
  BY NextGut
<1>3. QED
  BY <1>1, <1>2, PTL DEF Spec

\* The rows, the locks and what the requests hold in memory keep their types: a request
\* never stores a row the code could not read, and the links are numbers of requests.
THEOREM TypKorrekt == Spec => []TypeOK
<1>1. IInv => TypeOK
  BY DEF IInv
<1>2. QED
  BY <1>1, Induktion, PTL

\* acceptAngebotCore: of the variants of one set at most one becomes an order, whatever
\* accepts, edits, expires, crashes or deletes beside it.
THEOREM NurEinAuftrag == Spec => []EinAuftragJeGruppe
<1>1. IInv => EinAuftragJeGruppe
  BY DEF IInv
<1>2. QED
  BY <1>1, Induktion, PTL

-------------------------------------------------------------------------------
(***************************************************************************)
(* Where edits, the status and the drawing of a link overlap no request    *)
(* of another kind (einzeln).  Acceptances overlap each other; expiry,     *)
(* deletions and crashes come at any time.  The inductive invariant says   *)
(* how decisions agree with the order, and links within a set.             *)
(***************************************************************************)

\* What Vertraeglich allows.
Paarweise ==
  \A a, b \in Anfragen :
    a # b /\ ort[a] # "bereit" /\ ort[b] # "bereit"
      => auftrag[a].op = auftrag[b].op /\ auftrag[a].op \in {"annahme", "token"}

\* The members of a set have the same link, if any; what has not been created has none.
Verlinkt ==
  /\ \A v \in Varianten : ~ angebote[v].angelegt => angebote[v].link = 0
  /\ \A v, w \in Mitglieder : angebote[v].link = angebote[w].link

LinkDa == \A n \in links : \E v \in Angelegte : angebote[v].link = n

\* The status that was read, or it has expired since.
StatusSeither(alt, neu) == neu = alt \/ (alt = "offen" /\ neu = "abgelaufen")

\* What a request has read is what it overwrites, as far as decision and link go.
Aktuell(a) ==
  LET b == angebote[auftrag[a].id]
  IN /\ ort[a] # "bereit" /\ auftrag[a].op = "anlegen" => \A v \in Varianten : angebote[v].link = 0
     /\ ort[a] \in {"sperren", "pruefen", "einfuegen"} =>
          auftrag[a].op = "annahme" /\ entitaet[a].link = b.link
     /\ ort[a] = "schreiben" =>
          /\ auftrag[a].op \in {"update", "status"}
          /\ entitaet[a].link = b.link /\ entitaet[a].gewaehlt = b.gewaehlt
          /\ StatusSeither(entitaet[a].status, b.status)
     /\ ort[a] = "antworten" => auftrag[a].op = "token" /\ b.link # 0

Geordnet == Paarweise /\ AngenommenStimmt /\ Verlinkt /\ LinkDa /\ \A a \in Anfragen : Aktuell(a)

EInv == IInv /\ (einzeln => Geordnet)

LinksBleiben == \A v \in Varianten : angebote'[v].link = angebote[v].link

EntscheidungBleibt ==
  \A v \in Varianten : /\ angebote'[v].status = angebote[v].status
                       /\ angebote'[v].gewaehlt = angebote[v].gewaehlt

-------------------------------------------------------------------------------
(***************************************************************************)
(* What a step has to keep.                                                *)
(***************************************************************************)
\* Another request keeps what it has read.
LEMMA FremdAktuell ==
  ASSUME TypeOK, NEW b \in Anfragen, Aktuell(b),
         ort'[b] = ort[b], auftrag'[b] = auftrag[b], entitaet'[b] = entitaet[b],
         \/ LinksBleiben
         \/ /\ auftrag[b].op = "token"
            /\ \A v \in Varianten : angebote[v].link # 0 => angebote'[v].link # 0,
         ort[b] = "schreiben" =>
           \A v \in Varianten : /\ angebote'[v].gewaehlt = angebote[v].gewaehlt
                                /\ StatusSeither(angebote[v].status, angebote'[v].status)
  PROVE  Aktuell(b)'
<1>1. auftrag[b].id \in Varianten
  BY DEF TypeOK
<1>2. CASE LinksBleiben
  BY <1>1, <1>2 DEF Aktuell, LinksBleiben, StatusSeither
<1>3. CASE /\ auftrag[b].op = "token"
           /\ \A v \in Varianten : angebote[v].link # 0 => angebote'[v].link # 0
  BY <1>1, <1>3 DEF Aktuell
<1>4. QED
  BY <1>2, <1>3

\* The running requests remain compatible when one of them goes on or ends.
LEMMA PaarweiseBleibt ==
  ASSUME Paarweise, NEW a \in Anfragen, ort[a] # "bereit", Nur(a),
         ort'[a] = "bereit" \/ auftrag'[a].op = auftrag[a].op
  PROVE  Paarweise'
  BY DEF Paarweise, Nur

LEMMA VerlinktBleibt ==
  ASSUME Verlinkt, Bewahrt, LinksBleiben
  PROVE  Verlinkt'
<1>1. Mitglieder' = Mitglieder /\ Mitglieder \subseteq Varianten
  BY GleicheMengen DEF Mitglieder
<1>2. QED
  BY <1>1 DEF Verlinkt, Bewahrt, LinksBleiben

LEMMA LinkDaBleibt ==
  ASSUME LinkDa, Bewahrt, LinksBleiben,
         \A n \in links' : n \in links \/ \E v \in Angelegte : angebote[v].link = n
  PROVE  LinkDa'
<1>1. Angelegte' = Angelegte /\ Angelegte \subseteq Varianten
  BY GleicheMengen DEF Angelegte
<1>2. QED
  BY <1>1 DEF LinkDa, LinksBleiben

LEMMA AngenommenBleibt ==
  ASSUME einzeln, AngenommenStimmt, TypeOK, Bewahrt, EntscheidungBleibt,
         auftraege' \subseteq auftraege
  PROVE  AngenommenStimmt'
<1>1. Mitglieder' = Mitglieder /\ Mitglieder \subseteq Varianten /\ auftraege \subseteq Varianten
  BY GleicheMengen DEF Mitglieder, TypeOK
<1>2. QED
  BY <1>1 DEF AngenommenStimmt, Bewahrt, EntscheidungBleibt

\* A step of a request that leaves decisions and links as they are.
LEMMA RuhigGeordnet ==
  ASSUME TypeOK, einzeln, Geordnet, NEW a \in Anfragen, Nur(a), Bewahrt, EntscheidungBleibt,
         LinksBleiben, auftraege' = auftraege,
         \A n \in links' : n \in links \/ \E v \in Angelegte : angebote[v].link = n,
         Paarweise', Aktuell(a)'
  PROVE  Geordnet'
<1>1. AngenommenStimmt' /\ Verlinkt' /\ LinkDa'
  BY VerlinktBleibt, LinkDaBleibt, AngenommenBleibt DEF Geordnet
<1>2. \A b \in Anfragen \ {a} : Aktuell(b)'
  BY FremdAktuell DEF Geordnet, Nur, EntscheidungBleibt, StatusSeither
<1>3. QED
  BY <1>1, <1>2 DEF Geordnet

LEMMA Stumm ==
  ASSUME angebote' = angebote
  PROVE  LinksBleiben /\ EntscheidungBleibt
  BY DEF LinksBleiben, EntscheidungBleibt

LEMMA BereitAktuell ==
  ASSUME NEW a \in Anfragen, ort'[a] = "bereit"
  PROVE  Aktuell(a)'
  BY DEF Aktuell

\* A request that ends and has changed no row.
LEMMA BeendeGeordnet ==
  ASSUME TypeOK, einzeln, Geordnet, NEW a \in Anfragen, ort[a] # "bereit", Beende(a),
         UNCHANGED <<angebote, auftraege>>,
         \A n \in links' : n \in links \/ \E v \in Angelegte : angebote[v].link = n
  PROVE  Geordnet'
  BY BeendeTyp, PaarweiseBleibt, Unveraendert, Stumm, BereitAktuell, RuhigGeordnet DEF Geordnet

LEMMA LehneabGeordnet ==
  ASSUME TypeOK, einzeln, Geordnet, NEW a \in Anfragen, ort[a] # "bereit", Lehneab(a)
  PROVE  Geordnet'
  BY BeendeGeordnet DEF Lehneab

\* A request that goes on and has changed no row.
LEMMA WeiterGeordnet ==
  ASSUME TypeOK, einzeln, Geordnet, NEW a \in Anfragen, ort[a] # "bereit", Nur(a),
         auftrag' = auftrag, UNCHANGED <<angebote, auftraege, links>>, Aktuell(a)'
  PROVE  Geordnet'
  BY PaarweiseBleibt, Unveraendert, Stumm, RuhigGeordnet DEF Geordnet

-------------------------------------------------------------------------------
(***************************************************************************)
(* The steps.                                                              *)
(***************************************************************************)
LEMMA NimmGeordnet ==
  ASSUME IInv, einzeln, Geordnet, NEW a \in Anfragen, NEW op \in Operationen,
         NEW id \in Varianten, Nimm(a, op, id), op = "anlegen" => Angelegte = {}
  PROVE  Geordnet'
<1>1. /\ Nur(a) /\ Bewahrt /\ auftraege' = auftraege /\ links' = links /\ angebote' = angebote
      /\ ort'[a] = "lesen" /\ auftrag'[a].op = op /\ TypeOK
  BY DEF IInv, TypeOK, Nimm, Nur, Bewahrt
<1>2. LinksBleiben /\ EntscheidungBleibt
  BY <1>1, Stumm
<1>3. Paarweise'
  <2>1. op # "anlegen" => \A b \in Anfragen \ {a} : ort[b] # "bereit" =>
          auftrag[b].op = op /\ op \in {"annahme", "token"}
    BY DEF Nimm, Vertraeglich, Laufende
  <2>2. op = "anlegen" => \A b \in Anfragen \ {a} : ort[b] = "bereit"
    BY DEF Nimm, Vertraeglich, Laufende
  <2>3. QED
    BY <1>1, <2>1, <2>2 DEF Geordnet, Paarweise, Nur
<1>4. Aktuell(a)'
  BY <1>1 DEF Aktuell, Geordnet, Verlinkt, Angelegte
<1>5. QED
  BY <1>1, <1>2, <1>3, <1>4, RuhigGeordnet

\* While a set is being created there is no order and no link.
LEMMA LegtAnGeordnet ==
  ASSUME IInv, einzeln, einzeln', Geordnet, NEW a \in Anfragen, SetAnlegen(a) \/ SetGruppieren(a)
  PROVE  Geordnet'
<1>1. /\ ort[a] # "bereit" /\ auftrag[a].op = "anlegen" /\ Alleine(a) /\ TypeOK
      /\ \A v \in Varianten : angebote[v].link = 0
  BY DEF SetAnlegen, SetGruppieren, Bei, IInv, Stand, Geordnet, Aktuell
<1>2. links = {}
  <2>1. ASSUME NEW n \in links PROVE FALSE
    <3>1. n = 0
      BY <1>1 DEF Geordnet, LinkDa, Angelegte
    <3>2. n \in 1 .. MaxAnfragen
      BY <1>1 DEF TypeOK
    <3>3. QED
      BY <3>1, <3>2
  <2>2. QED
    BY <2>1
<1>3. auftraege' = {} /\ links' = {}
  BY <1>1, <1>2 DEF SetAnlegen, SetGruppieren, Alleine
<1>4. \A v \in Varianten : angebote'[v].link = 0
  <2>1. \A v \in Varianten : angebote[v] \in Zeile
    BY <1>1 DEF TypeOK
  <2>2. CASE SetAnlegen(a)
    <3>1. PICK id : angebote' = [angebote EXCEPT ![id].angelegt = TRUE]
      BY <2>2 DEF SetAnlegen
    <3>2. \A v \in Varianten : [angebote[v] EXCEPT !.angelegt = TRUE].link = angebote[v].link
      BY <2>1 DEF Zeile
    <3>3. QED
      BY <1>1, <3>1, <3>2 DEF TypeOK
  <2>3. CASE SetGruppieren(a)
    <3>1. PICK id : angebote' = [angebote EXCEPT ![id].gruppe = TRUE]
      BY <2>3 DEF SetGruppieren
    <3>2. \A v \in Varianten : [angebote[v] EXCEPT !.gruppe = TRUE].link = angebote[v].link
      BY <2>1 DEF Zeile
    <3>3. QED
      BY <1>1, <3>1, <3>2 DEF TypeOK
  <2>4. QED
    BY <2>2, <2>3
<1>5. \A b \in Anfragen \ {a} : ort'[b] = "bereit"
  BY <1>1 DEF SetAnlegen, SetGruppieren, Beende, Weiter, Alleine, TypeOK
<1>6. ort'[a] \in {"bereit", "lesen", "gruppieren"}
  BY <1>1 DEF SetAnlegen, SetGruppieren, Beende, Weiter, TypeOK
<1>7. \A b \in Anfragen : Aktuell(b)'
  BY <1>4, <1>5, <1>6 DEF Aktuell
<1>8. Paarweise'
  BY <1>5 DEF Paarweise
<1>9. AngenommenStimmt' /\ LinkDa'
  BY <1>3 DEF AngenommenStimmt, LinkDa
<1>10. Verlinkt'
  BY <1>4 DEF Verlinkt, Mitglieder
<1>11. QED
  BY <1>7, <1>8, <1>9, <1>10 DEF Geordnet

LEMMA AnnahmeWeiterGeordnet ==
  ASSUME IInv, einzeln, Geordnet, NEW a \in Anfragen,
         AnnahmeLesen(a) \/ AnnahmeSperren(a) \/ AnnahmePruefen(a)
  PROVE  Geordnet'
<1>1. TypeOK /\ ort[a] # "bereit" /\ Aktuell(a) /\ auftrag[a].op = "annahme"
  BY DEF IInv, Geordnet, AnnahmeLesen, AnnahmeSperren, AnnahmePruefen, Bei
<1>2. CASE Lehneab(a)
  BY <1>1, <1>2, LehneabGeordnet
<1>3. ASSUME NEW o \in {"sperren", "pruefen", "einfuegen"}, NEW b \in Zeile,
             Weiter(a, o, b), b.link = angebote[auftrag[a].id].link,
             UNCHANGED <<angebote, auftraege, links>>,
             \A v \in Varianten : sperre[v] \in Anfragen => sperre'[v] = sperre[v]
      PROVE  Geordnet'
  <2>1. /\ ort'[a] = o /\ entitaet'[a] = b /\ auftrag' = auftrag /\ Nur(a)
    BY <1>1, <1>3 DEF TypeOK, Weiter, Nur
  <2>2. Aktuell(a)'
    BY <1>1, <1>3, <2>1 DEF Aktuell
  <2>3. QED
    BY <1>1, <1>3, <2>1, <2>2, WeiterGeordnet
<1>4. CASE AnnahmeLesen(a)
  <2>1. angebote[auftrag[a].id] \in Zeile
    BY <1>1 DEF TypeOK
  <2>2. QED
    BY <1>3, <1>4, <2>1 DEF AnnahmeLesen
<1>5. CASE AnnahmeSperren(a)
  <2>1. \A v \in Varianten : sperre[v] \in Anfragen => sperre'[v] = sperre[v]
    BY <1>1, <1>5, AngeboteAssumption DEF AnnahmeSperren, TypeOK, AngeboteAssumption
  <2>2. entitaet[a] \in Zeile /\ entitaet[a].link = angebote[auftrag[a].id].link
    BY <1>1, <1>5 DEF AnnahmeSperren, Bei, TypeOK, Aktuell
  <2>3. QED
    BY <1>3, <1>5, <2>1, <2>2 DEF AnnahmeSperren
<1>6. CASE Weiter(a, "einfuegen", entitaet[a]) /\ UNCHANGED <<angebote, auftraege, sperre, links>>
           /\ AnnahmePruefen(a)
  <2>1. entitaet[a] \in Zeile /\ entitaet[a].link = angebote[auftrag[a].id].link
    BY <1>1, <1>6 DEF AnnahmePruefen, Bei, TypeOK, Aktuell
  <2>2. QED
    BY <1>3, <1>6, <2>1
<1>7. QED
  BY <1>2, <1>4, <1>5, <1>6 DEF AnnahmePruefen

\* The chosen variant is accepted, and no other member of its set stays as it was; the orders
\* outside of the set keep their rows.
LEMMA AnnahmeFestschreibenGeordnet ==
  ASSUME IInv, einzeln, Geordnet, NEW a \in Anfragen, AnnahmeFestschreiben(a)
  PROVE  Geordnet'
<1> DEFINE id == auftrag[a].id
<1>1. /\ TypeOK /\ ort[a] = "einfuegen" /\ Stand(a) /\ Aktuell(a) /\ auftrag[a].op = "annahme"
      /\ id \in Varianten /\ entitaet[a] \in Zeile
  BY DEF IInv, Geordnet, AnnahmeFestschreiben, Bei, TypeOK
<1>2. /\ angebote[id].angelegt /\ entitaet[a].angelegt
      /\ entitaet[a].gruppe = angebote[id].gruppe
      /\ entitaet[a].link = angebote[id].link
      /\ SperrScope(a) \cap auftraege = {}
  BY <1>1 DEF Stand, HatGelesen, Aktuell
<1>3. auftraege' = auftraege \cup {id} /\ angebote' = NachAnnahme(id, entitaet[a]) /\ links' = links
  BY DEF AnnahmeFestschreiben
<1>4. Bewahrt
  <2>1. entitaet[a].angelegt \in BOOLEAN /\ angebote[id].angelegt \in BOOLEAN
    BY <1>1 DEF TypeOK, Zeile
  <2>2. entitaet[a].angelegt = angebote[id].angelegt
    BY <1>2, <2>1
  <2>3. QED
    BY <1>1, <1>2, <1>3, <2>2, NachAnnahmeTyp
<1>5. \A v \in Varianten : angebote[v] \in Zeile
  BY <1>1 DEF TypeOK
<1>6. /\ angebote'[id].status = "angenommen" /\ angebote'[id].gewaehlt
      /\ angebote'[id].link = entitaet[a].link
  BY <1>1, <1>3, <1>5 DEF NachAnnahme, Zeile
<1>7. ASSUME NEW v \in Varianten \ {id}, ~ (entitaet[a].gruppe /\ angebote[v].gruppe)
      PROVE  angebote'[v] = angebote[v]
  BY <1>3, <1>7 DEF NachAnnahme
<1>8. ASSUME NEW v \in Varianten \ {id}, entitaet[a].gruppe, angebote[v].gruppe
      PROVE  /\ angebote'[v].status = "abgelehnt" /\ ~ angebote'[v].gewaehlt
             /\ angebote'[v].link = angebote[v].link
  <2>1. angebote'[v] = [angebote[v] EXCEPT !.status = "abgelehnt", !.gewaehlt = FALSE]
    BY <1>3, <1>8 DEF NachAnnahme
  <2>2. QED
    BY <1>5, <2>1 DEF Zeile
<1>9. LinksBleiben
  BY <1>2, <1>6, <1>7, <1>8 DEF LinksBleiben
<1>10. Verlinkt' /\ LinkDa'
  BY <1>3, <1>4, <1>9, VerlinktBleibt, LinkDaBleibt DEF Geordnet
<1>11. AngenommenStimmt'
  <2>1. Mitglieder' = Mitglieder /\ Mitglieder \subseteq Varianten /\ auftraege \subseteq Varianten
    BY <1>1, <1>4, GleicheMengen DEF Mitglieder, TypeOK
  <2>2. angebote'[id].gruppe => \A w \in Mitglieder \ {id} :
          angebote'[w].status = "abgelehnt" /\ ~ angebote'[w].gewaehlt
    BY <1>1, <1>2, <1>4, <1>8 DEF Mitglieder, Bewahrt
  <2>3. ASSUME NEW v \in auftraege, v # id
        PROVE  /\ angebote'[v].status = "angenommen" /\ angebote'[v].gewaehlt
               /\ angebote'[v].gruppe => \A w \in Mitglieder \ {v} :
                    angebote'[w].status = "abgelehnt" /\ ~ angebote'[w].gewaehlt
    <3>1. ~ (entitaet[a].gruppe /\ angebote[v].gruppe)
      BY <1>2, <2>1, <2>3 DEF SperrScope, Mitglieder
    <3>2. angebote'[v] = angebote[v]
      BY <1>7, <2>1, <2>3, <3>1
    <3>3. angebote[v].gruppe => \A w \in Mitglieder : angebote'[w] = angebote[w]
      BY <1>2, <1>7, <2>1, <3>1 DEF Mitglieder
    <3>4. QED
      BY <2>3, <3>2, <3>3 DEF Geordnet, AngenommenStimmt
  <2>4. QED
    BY <1>3, <1>6, <2>1, <2>2, <2>3 DEF AngenommenStimmt
<1>12. Nur(a) /\ ort'[a] = "bereit"
  BY <1>1, BeendeTyp DEF AnnahmeFestschreiben
<1>13. \A b \in Anfragen : Aktuell(b)'
  <2>1. \A b \in Anfragen \ {a} : ort[b] # "bereit" => auftrag[b].op = "annahme"
    BY <1>1 DEF Geordnet, Paarweise
  <2>2. \A b \in Anfragen \ {a} : ort[b] # "schreiben"
    BY <2>1 DEF Geordnet, Aktuell
  <2>3. QED
    BY <1>1, <1>9, <1>12, <2>2, FremdAktuell, BereitAktuell DEF Geordnet, Nur
<1>14. QED
  BY <1>1, <1>10, <1>11, <1>12, <1>13, PaarweiseBleibt DEF Geordnet

LEMMA AenderungLesenGeordnet ==
  ASSUME IInv, einzeln, Geordnet, NEW a \in Anfragen, AenderungLesen(a)
  PROVE  Geordnet'
<1> DEFINE id == auftrag[a].id
<1>1. /\ TypeOK /\ ort[a] = "lesen" /\ auftrag[a].op \in {"update", "status"}
      /\ angebote[id] \in Zeile
  BY DEF IInv, AenderungLesen, TypeOK
<1>2. CASE Lehneab(a)
  BY <1>1, <1>2, LehneabGeordnet
<1>3. CASE Weiter(a, "schreiben", angebote[id]) /\ UNCHANGED <<angebote, auftraege, sperre, links>>
  <2>1. ort'[a] = "schreiben" /\ entitaet'[a] = angebote[id] /\ auftrag' = auftrag /\ Nur(a)
    BY <1>1, <1>3, WeiterTyp DEF TypeOK
  <2>2. Aktuell(a)'
    BY <1>1, <1>3, <2>1 DEF Aktuell, StatusSeither
  <2>3. QED
    BY <1>1, <1>3, <2>1, <2>2, WeiterGeordnet
<1>4. QED
  BY <1>2, <1>3 DEF AenderungLesen

\* The row that is written back takes no decision and no link back: where an order or
\* a rejection is stored, it was read.
LEMMA AenderungSchreibenGeordnet ==
  ASSUME IInv, einzeln, Geordnet, NEW a \in Anfragen, AenderungSchreiben(a)
  PROVE  Geordnet'
<1> DEFINE id == auftrag[a].id
           neu == [entitaet[a] EXCEPT !.gueltig = angebote[id].gueltig]
<1>1. /\ TypeOK /\ ort[a] = "schreiben" /\ Stand(a) /\ Aktuell(a)
      /\ auftrag[a].op \in {"update", "status"}
      /\ id \in Varianten /\ entitaet[a] \in Zeile /\ angebote[id] \in Zeile
      /\ Beende(a) /\ auftraege' = auftraege /\ links' = links
  BY DEF IInv, Geordnet, AenderungSchreiben, TypeOK, Aktuell
<1>2. CASE angebote' = angebote
  BY <1>1, <1>2, BeendeGeordnet
<1>3. CASE angebote' = [angebote EXCEPT ![id] = neu]
  <2>1. /\ entitaet[a].link = angebote[id].link
        /\ entitaet[a].gewaehlt = angebote[id].gewaehlt
        /\ StatusSeither(entitaet[a].status, angebote[id].status)
        /\ angebote[id].angelegt /\ entitaet[a].angelegt
        /\ entitaet[a].gruppe = angebote[id].gruppe
    BY <1>1 DEF Aktuell, Stand, HatGelesen
  <2>2. /\ neu \in Zeile /\ neu.link = entitaet[a].link /\ neu.gewaehlt = entitaet[a].gewaehlt
        /\ neu.status = entitaet[a].status /\ neu.gruppe = entitaet[a].gruppe
        /\ neu.angelegt = entitaet[a].angelegt
    <3>1. angebote[id].gueltig \in BOOLEAN
      BY <1>1 DEF Zeile
    <3>2. QED
      BY <1>1, <3>1 DEF Zeile
  <2>3. neu.angelegt = angebote[id].angelegt
    <3>1. entitaet[a].angelegt \in BOOLEAN /\ angebote[id].angelegt \in BOOLEAN
      BY <1>1 DEF Zeile
    <3>2. QED
      BY <2>1, <2>2, <3>1
  <2> HIDE DEF neu
  <2>4. /\ angebote' \in [Varianten -> Zeile] /\ angebote'[id] = neu
        /\ \A v \in Varianten \ {id} : angebote'[v] = angebote[v]
    BY <1>1, <1>3, <2>2, Ersetzen DEF TypeOK
  <2>5. Bewahrt
    <3>1. neu.gruppe = angebote[id].gruppe
      BY <2>1, <2>2
    <3>2. QED
      BY <2>3, <2>4, <3>1 DEF Bewahrt
  <2>6. LinksBleiben
    BY <2>1, <2>2, <2>4 DEF LinksBleiben
  <2>7. Mitglieder' = Mitglieder /\ Mitglieder \subseteq Varianten /\ auftraege \subseteq Varianten
    BY <1>1, <2>5, GleicheMengen DEF Mitglieder, TypeOK
  <2>8. \A v \in Varianten :
          /\ angebote[v].status \in {"angenommen", "abgelehnt"} =>
               angebote'[v].status = angebote[v].status
          /\ angebote'[v].gewaehlt = angebote[v].gewaehlt
    BY <2>1, <2>2, <2>4 DEF StatusSeither
  <2>9. AngenommenStimmt'
    BY <1>1, <2>5, <2>7, <2>8 DEF Geordnet, AngenommenStimmt, Bewahrt
  <2>10. Verlinkt' /\ LinkDa'
    BY <1>1, <2>5, <2>6, VerlinktBleibt, LinkDaBleibt DEF Geordnet
  <2>11. Nur(a) /\ ort'[a] = "bereit"
    BY <1>1, BeendeTyp
  <2>12. \A b \in Anfragen : ort'[b] = "bereit"
    BY <1>1, <2>11 DEF Geordnet, Paarweise, Nur
  <2>13. Paarweise' /\ \A b \in Anfragen : Aktuell(b)'
    BY <2>12, BereitAktuell DEF Paarweise
  <2>14. QED
    BY <2>9, <2>10, <2>13 DEF Geordnet
<1>4. QED
  BY <1>2, <1>3 DEF AenderungSchreiben

LEMMA TokenLesenGeordnet ==
  ASSUME IInv, einzeln, Geordnet, NEW a \in Anfragen, TokenLesen(a)
  PROVE  Geordnet'
<1> DEFINE id == auftrag[a].id
<1>1. /\ TypeOK /\ ort[a] = "lesen" /\ auftrag[a].op = "token" /\ Stand(a)
      /\ id \in Varianten /\ angebote[id] \in Zeile /\ angebote[id].angelegt
      /\ angebote' = angebote /\ auftraege' = auftraege
  BY DEF IInv, TokenLesen, Bei, TypeOK, Stand
<1>2. CASE Beende(a)
  <2>1. \A n \in links' : n \in links \/ \E v \in Angelegte : angebote[v].link = n
    BY <1>1 DEF TokenLesen, Angelegte
  <2>2. QED
    BY <1>1, <1>2, <2>1, BeendeGeordnet
<1>3. CASE Weiter(a, "setzen", angebote[id]) /\ UNCHANGED <<angebote, auftraege, sperre, links>>
  <2>1. ort'[a] = "setzen" /\ auftrag' = auftrag /\ Nur(a)
    BY <1>1, <1>3, WeiterTyp DEF TypeOK
  <2>2. Aktuell(a)'
    BY <1>1, <2>1 DEF Aktuell
  <2>3. QED
    BY <1>1, <1>3, <2>1, <2>2, WeiterGeordnet
<1>4. QED
  BY <1>2, <1>3 DEF TokenLesen

\* The link is set where there is none: in the whole set or nowhere in it.
LEMMA TokenSetzenGeordnet ==
  ASSUME IInv, einzeln, Geordnet, NEW a \in Anfragen, TokenSetzen(a)
  PROVE  Geordnet'
<1> DEFINE id == auftrag[a].id
           nr == auftrag[a].nr
           neu(z) == [z EXCEPT !.link = nr]
<1>1. /\ TypeOK /\ ort[a] = "setzen" /\ auftrag[a].op = "token" /\ Stand(a) /\ Verlinkt
      /\ id \in Varianten /\ nr \in 0 .. MaxAnfragen
      /\ auftraege' = auftraege /\ links' = links
  BY DEF IInv, TokenSetzen, Bei, TypeOK, Geordnet
<1>2. /\ nr # 0 /\ angebote[id].angelegt /\ entitaet[a].gruppe = angebote[id].gruppe
  BY <1>1 DEF Stand, HatGelesen
<1>3. ASSUME NEW z \in Zeile
      PROVE  /\ neu(z) \in Zeile /\ neu(z).link = nr
             /\ neu(z).angelegt = z.angelegt /\ neu(z).gruppe = z.gruppe
             /\ neu(z).status = z.status /\ neu(z).gewaehlt = z.gewaehlt
  BY <1>1, <1>3 DEF Zeile
<1>4. angebote' = [v \in Varianten |-> IF v \in OhneLink(a) THEN neu(angebote[v]) ELSE angebote[v]]
  BY DEF TokenSetzen
<1> HIDE DEF neu, nr
<1>5. \A v \in Varianten : angebote[v] \in Zeile
  BY <1>1 DEF TypeOK
<1>6. Bewahrt
  BY <1>3, <1>4, <1>5 DEF Bewahrt
<1>7. EntscheidungBleibt
  BY <1>3, <1>4, <1>5 DEF EntscheidungBleibt
<1>8. \A v \in Varianten :
        angebote'[v].link = IF v \in OhneLink(a) THEN nr ELSE angebote[v].link
  BY <1>3, <1>4, <1>5
<1>9. \A v \in OhneLink(a) : angebote[v].link = 0
  BY DEF OhneLink
<1>10. Mitglieder' = Mitglieder /\ Angelegte' = Angelegte /\ Mitglieder \subseteq Varianten
       /\ Angelegte \subseteq Varianten
  BY <1>6, GleicheMengen DEF Mitglieder, Angelegte
<1>11. OhneLink(a) \subseteq Angelegte
  BY <1>1, <1>2 DEF IInv, OhneLink, Angelegte
<1>12. Verlinkt'
  <2>1. \A v, w \in Mitglieder : v \in OhneLink(a) => w \in OhneLink(a)
    BY <1>1, <1>2 DEF OhneLink, Verlinkt, Mitglieder
  <2>2. \A v, w \in Mitglieder : angebote'[v].link = angebote'[w].link
    BY <1>1, <1>8, <1>10, <2>1 DEF Verlinkt
  <2>3. \A v \in Varianten : ~ angebote'[v].angelegt => angebote'[v].link = 0
    BY <1>1, <1>6, <1>8, <1>11 DEF Verlinkt, Bewahrt, Angelegte
  <2>4. QED
    BY <1>10, <2>2, <2>3 DEF Verlinkt
<1>13. LinkDa'
  <2>1. ASSUME NEW n \in links PROVE \E v \in Angelegte' : angebote'[v].link = n
    <3>1. PICK v \in Angelegte : angebote[v].link = n
      BY DEF Geordnet, LinkDa
    <3>2. n # 0
      <4>1. n \in 1 .. MaxAnfragen
        BY <1>1 DEF TypeOK
      <4>2. QED
        BY <4>1
    <3>3. QED
      BY <1>8, <1>9, <1>10, <3>1, <3>2
  <2>2. QED
    BY <1>1, <2>1 DEF LinkDa
<1>14. AngenommenStimmt'
  BY <1>1, <1>6, <1>7, AngenommenBleibt DEF Geordnet
<1>15. ort'[a] = "antworten" /\ auftrag' = auftrag /\ Nur(a)
  BY <1>1, WeiterTyp DEF TokenSetzen, TypeOK
<1>16. Paarweise'
  BY <1>1, <1>15, PaarweiseBleibt DEF Geordnet
<1>17. Aktuell(a)'
  <2>1. angebote'[id].link # 0
    BY <1>1, <1>2, <1>8 DEF OhneLink, Mitglieder
  <2>2. QED
    BY <1>1, <1>15, <2>1 DEF Aktuell
<1>18. ASSUME NEW b \in Anfragen \ {a} PROVE Aktuell(b)'
  <2>1. CASE ort[b] = "bereit"
    BY <1>15, <2>1, BereitAktuell DEF Nur
  <2>2. CASE ort[b] # "bereit"
    <3>1. auftrag[b].op = "token" /\ Aktuell(b)
      BY <1>1, <2>2 DEF Geordnet, Paarweise
    <3>2. ort[b] # "schreiben"
      BY <3>1 DEF Aktuell
    <3>3. \A v \in Varianten : angebote[v].link # 0 => angebote'[v].link # 0
      BY <1>8, <1>9
    <3>4. QED
      BY <1>1, <1>15, <3>1, <3>2, <3>3, FremdAktuell DEF Nur
  <2>3. QED
    BY <2>1, <2>2
<1>19. QED
  BY <1>12, <1>13, <1>14, <1>16, <1>17, <1>18 DEF Geordnet

LEMMA TokenAntwortenGeordnet ==
  ASSUME IInv, einzeln, Geordnet, NEW a \in Anfragen, TokenAntworten(a)
  PROVE  Geordnet'
<1> DEFINE id == auftrag[a].id
<1>1. /\ TypeOK /\ ort[a] = "antworten" /\ Stand(a) /\ Aktuell(a)
      /\ id \in Varianten /\ Beende(a) /\ UNCHANGED <<angebote, auftraege>>
  BY DEF IInv, TokenAntworten, Bei, TypeOK, Geordnet
<1>2. angebote[id].link # 0 /\ angebote[id].angelegt
  BY <1>1 DEF Aktuell, Stand
<1>3. \A n \in links' : n \in links \/ \E v \in Angelegte : angebote[v].link = n
  BY <1>1, <1>2 DEF TokenAntworten, Angelegte
<1>4. QED
  BY <1>1, <1>3, BeendeGeordnet

-------------------------------------------------------------------------------
(***************************************************************************)
(* What happens beside the requests, and all steps together.               *)
(***************************************************************************)
\* A step beside the requests that takes no decision back.
LEMMA DanebenGeordnet ==
  ASSUME TypeOK, einzeln, Geordnet, Bewahrt, LinksBleiben, UNCHANGED <<anfragen, links>>,
         auftraege' \subseteq auftraege,
         \A v \in Varianten : /\ angebote'[v].gewaehlt = angebote[v].gewaehlt
                              /\ StatusSeither(angebote[v].status, angebote'[v].status)
  PROVE  Geordnet'
<1>1. Verlinkt' /\ LinkDa'
  BY VerlinktBleibt, LinkDaBleibt DEF Geordnet
<1>2. AngenommenStimmt'
  <2>1. Mitglieder' = Mitglieder /\ Mitglieder \subseteq Varianten /\ auftraege \subseteq Varianten
    BY GleicheMengen DEF Mitglieder, TypeOK
  <2>2. QED
    BY <2>1 DEF Geordnet, AngenommenStimmt, StatusSeither, Bewahrt
<1>3. \A b \in Anfragen : Aktuell(b)'
  BY FremdAktuell DEF Geordnet, anfragen
<1>4. Paarweise'
  BY DEF Geordnet, Paarweise, anfragen
<1>5. QED
  BY <1>1, <1>2, <1>3, <1>4 DEF Geordnet

LEMMA LaeuftAbGeordnet ==
  ASSUME IInv, einzeln, Geordnet, NEW v \in Varianten, LaeuftAb(v)
  PROVE  Geordnet'
<1> DEFINE neu == [angebote[v] EXCEPT !.gueltig = FALSE]
<1>1. angebote[v] \in Zeile /\ TypeOK
  BY DEF IInv, TypeOK
<1>2. /\ neu \in Zeile /\ neu.angelegt = angebote[v].angelegt /\ neu.gruppe = angebote[v].gruppe
      /\ neu.link = angebote[v].link /\ neu.status = angebote[v].status
      /\ neu.gewaehlt = angebote[v].gewaehlt
  BY <1>1 DEF Zeile
<1>3. angebote' = [angebote EXCEPT ![v] = neu]
  BY DEF LaeuftAb
<1> HIDE DEF neu
<1>4. Bewahrt /\ LinksBleiben /\ EntscheidungBleibt
  BY <1>1, <1>2, <1>3, Ersetzen DEF TypeOK, Bewahrt, LinksBleiben, EntscheidungBleibt
<1>5. QED
  BY <1>1, <1>4, DanebenGeordnet DEF LaeuftAb, EntscheidungBleibt, StatusSeither

LEMMA markAbgelaufenGeordnet ==
  ASSUME IInv, einzeln, Geordnet, markAbgelaufen
  PROVE  Geordnet'
<1> DEFINE neu(z) == [z EXCEPT !.status = "abgelaufen"]
<1>1. ASSUME NEW z \in Zeile
      PROVE  /\ neu(z) \in Zeile /\ neu(z).angelegt = z.angelegt /\ neu(z).gruppe = z.gruppe
             /\ neu(z).link = z.link /\ neu(z).gewaehlt = z.gewaehlt
             /\ neu(z).status = "abgelaufen"
  BY <1>1 DEF Zeile, AngebotStatus
<1>2. angebote' = [v \in Varianten |-> IF v \in Abgelaufene THEN neu(angebote[v]) ELSE angebote[v]]
  BY DEF markAbgelaufen
<1> HIDE DEF neu
<1>3. TypeOK /\ \A v \in Varianten : angebote[v] \in Zeile
  BY DEF IInv, TypeOK
<1>4. Bewahrt /\ LinksBleiben
  BY <1>1, <1>2, <1>3 DEF Bewahrt, LinksBleiben
<1>5. \A v \in Varianten : /\ angebote'[v].gewaehlt = angebote[v].gewaehlt
                           /\ StatusSeither(angebote[v].status, angebote'[v].status)
  BY <1>1, <1>2, <1>3 DEF StatusSeither, Abgelaufene
<1>6. QED
  BY <1>3, <1>4, <1>5, DanebenGeordnet DEF markAbgelaufen

LEMMA AuftragEntfernenGeordnet ==
  ASSUME IInv, einzeln, Geordnet, NEW v \in Varianten, AuftragEntfernen(v)
  PROVE  Geordnet'
<1>1. Bewahrt /\ LinksBleiben /\ EntscheidungBleibt /\ TypeOK
  BY Unveraendert, Stumm DEF AuftragEntfernen, IInv
<1>2. QED
  BY <1>1, DanebenGeordnet DEF AuftragEntfernen, EntscheidungBleibt, StatusSeither

LEMMA AbsturzGeordnet ==
  ASSUME IInv, einzeln, Geordnet, Absturz
  PROVE  Geordnet'
<1>1. Bewahrt /\ LinksBleiben /\ EntscheidungBleibt /\ TypeOK
  BY Unveraendert, Stumm DEF Absturz, IInv
<1>2. \A b \in Anfragen : ort'[b] = "bereit"
  BY DEF Absturz
<1>3. Paarweise' /\ \A b \in Anfragen : Aktuell(b)'
  BY <1>2, BereitAktuell DEF Paarweise
<1>4. AngenommenStimmt' /\ Verlinkt' /\ LinkDa'
  BY <1>1, AngenommenBleibt, VerlinktBleibt, LinkDaBleibt DEF Geordnet, Absturz
<1>5. QED
  BY <1>3, <1>4 DEF Geordnet

LEMMA InitGeordnet ==
  ASSUME NEW z \in {Keine, Alle}, InitMit(z)
  PROVE  EInv
<1>1. \A b \in Anfragen : ort[b] = "bereit"
  BY DEF InitMit
<1>2. Paarweise /\ \A b \in Anfragen : Aktuell(b)
  BY <1>1 DEF Paarweise, Aktuell
<1>3. AngenommenStimmt /\ Verlinkt /\ LinkDa
  BY Konstanten DEF InitMit, AngenommenStimmt, Verlinkt, LinkDa, Mitglieder
<1>4. QED
  BY <1>2, <1>3, InitGut DEF EInv, Geordnet

LEMMA BeginnGeordnet ==
  ASSUME IInv, einzeln, Geordnet, NEW a \in Anfragen,
         NimmAnlegen(a) \/ NimmAnnahme(a) \/ NimmAenderung(a) \/ NimmToken(a)
  PROVE  Geordnet'
<1>1. CASE NimmAnlegen(a)
  <2>1. Ruhe.id \in Varianten
    BY AngeboteAssumption DEF Ruhe, AngeboteAssumption
  <2>2. QED
    BY <1>1, <2>1, NimmGeordnet DEF NimmAnlegen, Operationen
<1>2. CASE NimmAnnahme(a) \/ NimmAenderung(a) \/ NimmToken(a)
  <2>1. PICK op \in Operationen \ {"anlegen"}, v \in Angelegte : Nimm(a, op, v)
    BY <1>2 DEF NimmAnnahme, NimmAenderung, NimmToken, Operationen
  <2>2. QED
    BY <2>1, NimmGeordnet DEF Angelegte
<1>3. QED
  BY <1>1, <1>2

LEMMA EinzelnBleibt ==
  ASSUME IInv, [Next]_vars
  PROVE  einzeln' = einzeln
<1>1. CASE UNCHANGED vars
  BY <1>1 DEF vars
<1>2. ASSUME NEW a \in Anfragen, LegtAn(a) \/ NimmAnnahme(a) \/ Annahme(a)
      PROVE  einzeln' = einzeln
  BY <1>2 DEF LegtAn, NimmAnlegen, SetAnlegen, SetScheitert, SetGruppieren, NimmAnnahme, Annahme,
     AnnahmeLesen, AnnahmeSperren, AnnahmePruefen, AnnahmeFestschreiben, AnnahmeKollidiert,
     Nimm, Weiter, Lehneab, Beende
<1>3. ASSUME NEW a \in Anfragen, Aenderung(a) \/ Token(a)
      PROVE  einzeln' = einzeln
  BY <1>3 DEF Aenderung, NimmAenderung, AenderungLesen, AenderungSchreiben, Token, NimmToken,
     TokenLesen, TokenSetzen, TokenAntworten, Nimm, Weiter, Lehneab, Beende
<1>4. CASE (\E v \in Varianten : LaeuftAb(v) \/ AuftragEntfernen(v)) \/ markAbgelaufen \/ Absturz
  BY <1>4 DEF LaeuftAb, AuftragEntfernen, markAbgelaufen, Absturz
<1>5. QED
  BY <1>1, <1>2, <1>3, <1>4 DEF Next

LEMMA NextGeordnet ==
  ASSUME EInv, [Next]_vars
  PROVE  EInv'
<1>1. IInv' /\ IInv
  BY NextGut DEF EInv
<1> SUFFICES ASSUME einzeln'
             PROVE  Geordnet'
  BY <1>1 DEF EInv
<1>2. einzeln /\ Geordnet
  BY <1>1, EinzelnBleibt DEF EInv
<1>3. CASE UNCHANGED vars
  BY <1>1, <1>2, <1>3, Unveraendert, Stumm, DanebenGeordnet
  DEF vars, IInv, EntscheidungBleibt, StatusSeither
<1>4. ASSUME NEW a \in Anfragen, LegtAn(a) \/ NimmAnnahme(a) \/ Annahme(a)
      PROVE  Geordnet'
  <2>1. CASE SetScheitert(a) \/ AnnahmeKollidiert(a)
    BY <1>1, <1>2, <2>1, LehneabGeordnet DEF SetScheitert, AnnahmeKollidiert, Bei, IInv
  <2>2. QED
    BY <1>1, <1>2, <1>4, <2>1, BeginnGeordnet, LegtAnGeordnet, AnnahmeWeiterGeordnet,
       AnnahmeFestschreibenGeordnet DEF LegtAn, Annahme
<1>5. ASSUME NEW a \in Anfragen, Aenderung(a) \/ Token(a)
      PROVE  Geordnet'
  BY <1>1, <1>2, <1>5, BeginnGeordnet, AenderungLesenGeordnet, AenderungSchreibenGeordnet,
     TokenLesenGeordnet, TokenSetzenGeordnet, TokenAntwortenGeordnet DEF Aenderung, Token
<1>6. CASE (\E v \in Varianten : LaeuftAb(v) \/ AuftragEntfernen(v)) \/ markAbgelaufen \/ Absturz
  BY <1>1, <1>2, <1>6, LaeuftAbGeordnet, AuftragEntfernenGeordnet, markAbgelaufenGeordnet,
     AbsturzGeordnet
<1>7. QED
  BY <1>3, <1>4, <1>5, <1>6 DEF Next

THEOREM InduktionEinzeln == Spec => []EInv
<1>1. Init => EInv
  BY InitGeordnet DEF Init
<1>2. EInv /\ [Next]_vars => EInv'
  BY NextGeordnet
<1>3. QED
  BY <1>1, <1>2, PTL DEF Spec

\* acceptAngebotCore and markAbgelaufen: an offer with an order is accepted and chosen, and
\* every other variant of its set is rejected.
THEOREM AngenommenMitAuftrag == Spec => []AngenommenStimmt
<1>1. EInv => AngenommenStimmt
  BY DEF EInv, Geordnet, AngenommenStimmt
<1>2. QED
  BY <1>1, InduktionEinzeln, PTL

\* getOrCreateAngebotToken: every link that was handed out opens the whole set.
THEOREM EinLinkFuerAlle == Spec => []EinLinkJeGruppe
<1>1. ASSUME EInv PROVE EinLinkJeGruppe
  <2>1. ASSUME einzeln, NEW n \in links
        PROVE  \E v \in Angelegte :
                 /\ angebote[v].link = n
                 /\ angebote[v].gruppe => \A w \in Mitglieder : angebote[w].link = n
    <3>1. PICK v \in Angelegte : angebote[v].link = n
      BY <1>1, <2>1 DEF EInv, Geordnet, LinkDa
    <3>2. angebote[v].gruppe => v \in Mitglieder
      BY DEF Angelegte, Mitglieder
    <3>3. QED
      BY <1>1, <2>1, <3>1, <3>2 DEF EInv, Geordnet, Verlinkt
  <2>2. QED
    BY <2>1 DEF EinLinkJeGruppe
<1>2. QED
  BY <1>1, InduktionEinzeln, PTL

-------------------------------------------------------------------------------
(***************************************************************************)
(* Anzahlungen: the inductive invariant.                                   *)
(***************************************************************************)
ZLaeuft(a) == zOrt[a] # "bereit"

\* What ZVertraeglich keeps up.
Alleinig ==
  \A a, b \in Anfragen : a # b /\ ZLaeuft(a) /\ ZLaeuft(b) => zAuftrag[a].op = "schluss"

\* Numbers are given once.
Nummeriert ==
  /\ \A a \in Anfragen : ZLaeuft(a) => zAuftrag[a].nr \in 1 .. zZaehler.anfragen
  /\ \A a, b \in Anfragen : ZLaeuft(a) /\ ZLaeuft(b) /\ zAuftrag[a].nr = zAuftrag[b].nr => a = b
  /\ \A r \in schluss : r.nr \in 1 .. zZaehler.anfragen
  /\ \A x \in Belege : belege[x].fuer.art \in {"marker", "rechnung"} =>
       belege[x].fuer.nr \in 1 .. zZaehler.anfragen

Ungebunden(x) == belege[x].fuer.art \in {"frei", "basis"}

An(n) == {x \in Belege : belege[x].fuer = Marker(n)}

\* There is no final invoice of number n.
Ohne(n) ==
  /\ \A r \in schluss : r.nr # n
  /\ \A x \in Belege : belege[x].fuer # Rechnung(n)

\* How far a request has come: until the invoice is there, what it deducts is bound to the
\* marker, and afterwards the invoice is there.
ZStand(a) ==
   LET n == zAuftrag[a].nr
       x == zAuftrag[a].id
   IN ZLaeuft(a) =>
         /\ zAuftrag[a].op = "schluss" =>
              /\ zOrt[a] \in {"lesen", "beanspruchen", "rechnen", "freigeben", "anlegen", "umhaengen"}
              /\ zOrt[a] # "umhaengen" => Ohne(n)
              /\ zOrt[a] \in {"lesen", "beanspruchen"} => An(n) = {}
              /\ zOrt[a] = "beanspruchen" => \A y \in auswahl[a] : belege[y].status # "fehlt"
              /\ zOrt[a] = "anlegen" => auswahl[a] = An(n)
              /\ zOrt[a] = "umhaengen" => \E r \in schluss : r.nr = n
         /\ zAuftrag[a].op = "anzahlung" => Ungebunden(x) /\ zAuftrag[a].fuer \in {Frei, Basis}
         /\ zAuftrag[a].op = "status" \/ zOrt[a] = "kennzeichnen" => belege[x].status # "fehlt"
         /\ zOrt[a] = "schreiben" =>
              /\ zAuftrag[a].op = "status"
              /\ zEntitaet[a].fuer = belege[x].fuer /\ zEntitaet[a].status # "fehlt"

ZInv ==
  /\ ZTypeOK
  /\ Alleinig
  /\ Nummeriert
  /\ \A x \in Belege : belege[x].status = "fehlt" => belege[x].fuer = Frei
  /\ BindungStimmt
  /\ \A a \in Anfragen : ZStand(a)

-------------------------------------------------------------------------------
(***************************************************************************)
(* Frames.                                                                 *)
(***************************************************************************)
\* Only a moves among the requests.
ZNur(a) ==
   \A b \in Anfragen \ {a} : /\ zOrt'[b] = zOrt[b] /\ zAuftrag'[b] = zAuftrag[b]
                             /\ zEntitaet'[b] = zEntitaet[b] /\ auswahl'[b] = auswahl[b]

\* a goes on with what it does, or is done.
ZBleibt(a) == ZLaeuft(a) /\ (ZLaeuft(a)' => zAuftrag'[a] = zAuftrag[a])

\* No Anzahlung is bound or freed, and none gets lost.
ZUnveraendert ==
   /\ schluss' = schluss
   /\ \A x \in Belege : /\ belege'[x].fuer = belege[x].fuer
                        /\ belege'[x].status = "fehlt" => belege[x].status = "fehlt"

LEMMA ZKonstanten ==
  ASSUME AnzahlungenAssumption
  PROVE  /\ MaxAnzahlungen \in Nat
         /\ \A n \in 0 .. MaxAnzahlungen : Marker(n) \in Bezug /\ Rechnung(n) \in Bezug
         /\ Frei \in Bezug /\ Basis \in Bezug /\ Fehlt \in ZZeile
         /\ ZRuhe \in [op : ZOperationen, id : Belege, status : Status, fuer : Bezug, nr : 0 .. MaxAnzahlungen]
         /\ ZRuhe.op = "ruhe"
<1>1. MaxAnzahlungen \in Nat /\ ZRuhe.id \in Belege
  BY DEF AnzahlungenAssumption, ZRuhe
<1> QED
  BY <1>1 DEF Marker, Rechnung, Frei, Basis, Bezug, Fehlt, ZZeile, Status, ZOperationen, ZRuhe

\* Markers, invoices and NULL are different things.
LEMMA Bezuege ==
  /\ \A n, m : Marker(n) = Marker(m) => n = m
  /\ \A n, m : Rechnung(n) = Rechnung(m) => n = m
  /\ \A n, m : Marker(n) # Rechnung(m) /\ Marker(n) # Frei /\ Rechnung(n) # Frei
               /\ Marker(n) # Basis /\ Rechnung(n) # Basis
  /\ \A n : Marker(n).art = "marker" /\ Marker(n).nr = n /\ Rechnung(n).art = "rechnung" /\ Rechnung(n).nr = n
  /\ Frei.art = "frei" /\ Basis.art = "basis"
BY DEF Marker, Rechnung, Frei, Basis

LEMMA Bezugsarten ==
  ASSUME ZTypeOK, NEW x \in Belege
  PROVE  /\ belege[x].fuer.art = "marker" => belege[x].fuer = Marker(belege[x].fuer.nr)
         /\ belege[x].fuer.art = "rechnung" => belege[x].fuer = Rechnung(belege[x].fuer.nr)
<1>1. belege[x].fuer \in Bezug
  BY DEF ZTypeOK, ZZeile
<1> QED
  BY <1>1 DEF Bezug, Marker, Rechnung

LEMMA TabelleBleibt ==
  ASSUME ZInv, ZUnveraendert
  PROVE  /\ (\A x \in Belege : belege[x].status = "fehlt" => belege[x].fuer = Frei)'
         /\ BindungStimmt'
         /\ \A n : An(n)' = An(n) /\ (Ohne(n)' <=> Ohne(n))
         /\ \A x \in Belege : Ungebunden(x)' <=> Ungebunden(x)
<1>1. (\A x \in Belege : belege[x].status = "fehlt" => belege[x].fuer = Frei)'
  BY DEF ZInv, ZUnveraendert
<1>2. BindungStimmt'
  <2>1. (\A r \in schluss : r.abzug = {x \in Belege : belege[x].fuer \in {Marker(r.nr), Rechnung(r.nr)}})'
    BY DEF ZInv, ZUnveraendert, BindungStimmt
  <2>2. (\A x \in Belege : belege[x].fuer.art = "rechnung" =>
          \E r \in schluss : r.nr = belege[x].fuer.nr /\ x \in r.abzug)'
    BY DEF ZInv, ZUnveraendert, BindungStimmt
  <2> QED
    BY <2>1, <2>2 DEF BindungStimmt
<1>3. \A n : An(n)' = An(n) /\ (Ohne(n)' <=> Ohne(n))
  BY DEF ZUnveraendert, An, Ohne
<1>4. \A x \in Belege : Ungebunden(x)' <=> Ungebunden(x)
  BY DEF ZUnveraendert, Ungebunden
<1> QED
  BY <1>1, <1>2, <1>3, <1>4

\* A request that does not move keeps what it relies on.
LEMMA StandBleibt ==
  ASSUME ZInv, ZUnveraendert, NEW b \in Anfragen,
         zOrt'[b] = zOrt[b], zAuftrag'[b] = zAuftrag[b], zEntitaet'[b] = zEntitaet[b], auswahl'[b] = auswahl[b]
  PROVE  ZStand(b)'
<1>1. zAuftrag[b].id \in Belege /\ auswahl[b] \subseteq Belege
  BY DEF ZInv, ZTypeOK
<1>2. ZStand(b)
  BY DEF ZInv
<1> QED
  BY <1>1, <1>2, TabelleBleibt DEF ZStand, ZUnveraendert, ZLaeuft

LEMMA NummernBleiben ==
  ASSUME AnzahlungenAssumption, ZInv, NEW a \in Anfragen, ZNur(a), ZBleibt(a), ZTypeOK',
         zZaehler'.anfragen = zZaehler.anfragen,
         \A r \in schluss' : r \in schluss \/ r.nr = zAuftrag[a].nr,
         \A x \in Belege : \/ belege'[x].fuer = belege[x].fuer
                           \/ belege'[x].fuer \in {Frei, Basis, Marker(zAuftrag[a].nr), Rechnung(zAuftrag[a].nr)}
  PROVE  Alleinig' /\ Nummeriert'
<1>1. Alleinig /\ Nummeriert
  BY DEF ZInv
<1>2. \A b \in Anfragen : ZLaeuft(b)' => ZLaeuft(b) /\ zAuftrag'[b] = zAuftrag[b]
  BY DEF ZNur, ZBleibt, ZLaeuft
<1>3. Alleinig'
  BY <1>1, <1>2 DEF Alleinig
<1>4. (\A b \in Anfragen : ZLaeuft(b) => zAuftrag[b].nr \in 1 .. zZaehler.anfragen)'
  BY <1>1, <1>2 DEF Nummeriert
<1>5. (\A b, c \in Anfragen : ZLaeuft(b) /\ ZLaeuft(c) /\ zAuftrag[b].nr = zAuftrag[c].nr => b = c)'
  BY <1>1, <1>2 DEF Nummeriert
<1>6. zAuftrag[a].nr \in 1 .. zZaehler.anfragen
  BY <1>1 DEF Nummeriert, ZBleibt
<1>7. (\A r \in schluss : r.nr \in 1 .. zZaehler.anfragen)'
  BY <1>1, <1>6 DEF Nummeriert
<1>8. (\A x \in Belege : belege[x].fuer.art \in {"marker", "rechnung"} =>
         belege[x].fuer.nr \in 1 .. zZaehler.anfragen)'
  BY <1>1, <1>6, Bezuege DEF Nummeriert
<1> QED
  BY <1>3, <1>4, <1>5, <1>7, <1>8 DEF Nummeriert

\* A step of a that binds nothing.
LEMMA Still ==
  ASSUME AnzahlungenAssumption, ZInv, NEW a \in Anfragen, ZNur(a), ZBleibt(a), ZTypeOK',
         zZaehler' = zZaehler, ZUnveraendert, ZStand(a)'
  PROVE  ZInv'
<1>1. Alleinig' /\ Nummeriert'
  BY NummernBleiben DEF ZUnveraendert
<1>2. \A b \in Anfragen : b # a => ZStand(b)'
  BY StandBleibt DEF ZNur
<1> QED
  BY <1>1, <1>2, TabelleBleibt DEF ZInv

LEMMA ZWeiterTyp ==
  ASSUME ZTypeOK, NEW a \in Anfragen, NEW o \in Orte \ {"bereit"}, ZWeiter(a, o), ZLaeuft(a),
         \A b \in Anfragen \ {a} : zEntitaet'[b] = zEntitaet[b] /\ auswahl'[b] = auswahl[b]
  PROVE  /\ zOrt' \in [Anfragen -> Orte] /\ zOrt'[a] = o
         /\ UNCHANGED <<zAuftrag, abgebrochen, zZaehler>>
         /\ ZNur(a) /\ ZBleibt(a)
BY DEF ZTypeOK, ZWeiter, ZNur, ZBleibt, ZLaeuft

LEMMA ZBeendeTyp ==
  ASSUME AnzahlungenAssumption, ZTypeOK, NEW a \in Anfragen, ZBeende(a), ZLaeuft(a)
  PROVE  /\ zOrt' \in [Anfragen -> Orte] /\ ~ ZLaeuft(a)'
         /\ zAuftrag' \in [Anfragen -> [op : ZOperationen, id : Belege, status : Status, fuer : Bezug,
                                        nr : 0 .. MaxAnzahlungen]]
         /\ zEntitaet' \in [Anfragen -> ZZeile]
         /\ auswahl' \in [Anfragen -> SUBSET Belege]
         /\ UNCHANGED <<abgebrochen, zZaehler>>
         /\ ZNur(a) /\ ZBleibt(a)
         /\ ZStand(a)'
<1>1. zOrt'[a] = "bereit"
  BY DEF ZTypeOK, ZBeende
<1>2. ZStand(a)' /\ ~ ZLaeuft(a)'
  BY <1>1 DEF ZStand, ZLaeuft
<1> QED
  BY <1>1, <1>2, ZKonstanten DEF ZTypeOK, ZBeende, Orte, ZNur, ZBleibt, ZLaeuft

LEMMA ZLehneabGut ==
  ASSUME AnzahlungenAssumption, ZInv, NEW a \in Anfragen, ZLehneab(a), ZLaeuft(a)
  PROVE  ZInv'
<1>1. ZBeende(a) /\ UNCHANGED <<belege, schluss>> /\ ZTypeOK
  BY DEF ZLehneab, ZInv
<1>2. ZTypeOK'
  BY <1>1, ZBeendeTyp DEF ZTypeOK
<1>3. ZUnveraendert
  BY <1>1 DEF ZUnveraendert
<1> QED
  BY <1>1, <1>2, <1>3, ZBeendeTyp, Still

-------------------------------------------------------------------------------
(***************************************************************************)
(* Requests on one Anzahlung.                                              *)
(***************************************************************************)
LEMMA ZNimmGut ==
  ASSUME AnzahlungenAssumption, Einzeln, ZInv, NEW a \in Anfragen, Beginnt(a)
  PROVE  ZInv'
<1> DEFINE Auftraege == [op : ZOperationen, id : Belege, status : Status, fuer : Bezug, nr : 0 .. MaxAnzahlungen]
<1>1. PICK auf \in Auftraege :
        /\ ZNimm(a, auf)
        /\ \/ auf.op = "anzahlung" /\ belege[auf.id].status = "fehlt" /\ auf.fuer \in {Frei, Basis}
           \/ auf.op = "status" /\ belege[auf.id].status # "fehlt"
           \/ auf.op = "schluss"
  <2>1. CASE NimmAnzahlung(a)
    <3>1. PICK x \in Belege, f \in {Frei, Basis} :
            belege[x].status = "fehlt" /\ ZNimm(a, [ZRuhe EXCEPT !.op = "anzahlung", !.id = x, !.fuer = f])
      BY <2>1 DEF NimmAnzahlung
    <3>2. [ZRuhe EXCEPT !.op = "anzahlung", !.id = x, !.fuer = f] \in Auftraege
      BY ZKonstanten DEF ZOperationen
    <3> QED
      BY <3>1, <3>2 DEF ZRuhe
  <2>2. CASE NimmStatus(a)
    <3>1. PICK x \in Belege, z \in {"offen", "bezahlt", "storniert"} :
            belege[x].status # "fehlt" /\ ZNimm(a, [ZRuhe EXCEPT !.op = "status", !.id = x, !.status = z])
      BY <2>2 DEF NimmStatus
    <3>2. [ZRuhe EXCEPT !.op = "status", !.id = x, !.status = z] \in Auftraege
      BY ZKonstanten DEF ZOperationen, Status
    <3> QED
      BY <3>1, <3>2 DEF ZRuhe
  <2>3. CASE NimmSchluss(a)
    <3>1. [ZRuhe EXCEPT !.op = "schluss"] \in Auftraege
      BY ZKonstanten DEF ZOperationen
    <3> QED
      BY <2>3, <3>1 DEF NimmSchluss, ZRuhe
  <2> QED
    BY <2>1, <2>2, <2>3 DEF Beginnt
<1>2. PICK n \in 1 .. MaxAnzahlungen : n = zZaehler.anfragen + 1 /\ zZaehler.anfragen \in 0 .. MaxAnzahlungen
  <2>1. zZaehler.anfragen \in 0 .. MaxAnzahlungen
    BY DEF ZInv, ZTypeOK
  <2>2. zZaehler.anfragen < MaxAnzahlungen /\ MaxAnzahlungen \in Nat
    BY <1>1, ZKonstanten DEF ZNimm
  <2> QED
    BY <2>1, <2>2
<1>3. [auf EXCEPT !.nr = n] \in Auftraege
  BY <1>1, ZKonstanten
<1>4. /\ zOrt[a] = "bereit" /\ zOrt' = [zOrt EXCEPT ![a] = "lesen"]
      /\ zAuftrag' = [zAuftrag EXCEPT ![a] = [auf EXCEPT !.nr = n]]
      /\ zZaehler' = [zZaehler EXCEPT !.anfragen = n]
      /\ UNCHANGED <<belege, schluss, zEntitaet, auswahl, abgebrochen>>
  BY <1>1, <1>2 DEF ZNimm
<1>5. zZaehler' \in [anfragen : 0 .. MaxAnzahlungen, abstuerze : 0 .. MaxAbstuerze] /\ zZaehler'.anfragen = n
  <2>1. zZaehler \in [anfragen : 0 .. MaxAnzahlungen, abstuerze : 0 .. MaxAbstuerze]
    BY DEF ZInv, ZTypeOK
  <2>2. n \in 0 .. MaxAnzahlungen
    BY <1>2, ZKonstanten
  <2> QED
    BY <1>4, <2>1, <2>2
<1>6. ZTypeOK'
  BY <1>3, <1>4, <1>5 DEF ZInv, ZTypeOK, Orte
<1>7. zOrt'[a] = "lesen" /\ zAuftrag'[a] = [auf EXCEPT !.nr = n] /\ ZNur(a)
  BY <1>4 DEF ZInv, ZTypeOK, ZNur
<1>8. /\ zAuftrag'[a].op = auf.op /\ zAuftrag'[a].nr = n /\ zAuftrag'[a].id = auf.id
      /\ zAuftrag'[a].fuer = auf.fuer /\ auf.id \in Belege
  BY <1>1, <1>7
<1>9. ZUnveraendert
  BY <1>4 DEF ZUnveraendert
<1>10. \A b \in Anfragen : ZLaeuft(b) => zAuftrag[b].op = "schluss" /\ auf.op = "schluss"
  <2>1. ZLaufende \subseteq ({auf.op} \cap {"schluss"})
    BY <1>1 DEF ZNimm, ZVertraeglich
  <2> QED
    BY <2>1 DEF ZLaufende, ZLaeuft
<1>11. \A b \in Anfragen : b # a => (ZLaeuft(b)' <=> ZLaeuft(b)) /\ zAuftrag'[b] = zAuftrag[b]
  BY <1>7 DEF ZNur, ZLaeuft
<1>12. Alleinig'
  BY <1>8, <1>10, <1>11 DEF Alleinig
<1>13. Nummeriert'
  <2>1. Nummeriert
    BY DEF ZInv
  <2>2. (\A b \in Anfragen : ZLaeuft(b) => zAuftrag[b].nr \in 1 .. zZaehler.anfragen)'
    BY <1>2, <1>5, <1>8, <1>11, <2>1 DEF Nummeriert
  <2>3. (\A b, c \in Anfragen : ZLaeuft(b) /\ ZLaeuft(c) /\ zAuftrag[b].nr = zAuftrag[c].nr => b = c)'
    BY <1>2, <1>8, <1>11, <2>1 DEF Nummeriert
  <2>4. (\A r \in schluss : r.nr \in 1 .. zZaehler.anfragen)'
    BY <1>2, <1>4, <1>5, <2>1 DEF Nummeriert
  <2>5. (\A x \in Belege : belege[x].fuer.art \in {"marker", "rechnung"} =>
           belege[x].fuer.nr \in 1 .. zZaehler.anfragen)'
    BY <1>2, <1>4, <1>5, <2>1 DEF Nummeriert
  <2> QED
    BY <2>2, <2>3, <2>4, <2>5 DEF Nummeriert
<1>14. ZStand(a)'
  <2>1. auf.op = "schluss" => Ohne(n)' /\ An(n)' = {}
    <3>1. \A r \in schluss : r.nr # n
      BY <1>2 DEF ZInv, Nummeriert
    <3>2. \A x \in Belege : belege[x].fuer # Marker(n) /\ belege[x].fuer # Rechnung(n)
      BY <1>2, Bezuege DEF ZInv, Nummeriert
    <3>3. Ohne(n) /\ An(n) = {}
      BY <3>1, <3>2 DEF Ohne, An
    <3> QED
      BY <1>9, <3>3, TabelleBleibt
  <2>2. auf.op = "anzahlung" => Ungebunden(auf.id)'
    BY <1>1, <1>4, <1>8, Bezuege DEF ZInv, Ungebunden
  <2> QED
    BY <1>1, <1>4, <1>7, <1>8, <2>1, <2>2 DEF ZStand
<1>15. \A b \in Anfragen : b # a => ZStand(b)'
  BY <1>7, <1>9, StandBleibt DEF ZNur
<1> QED
  BY <1>6, <1>9, <1>12, <1>13, <1>14, <1>15, TabelleBleibt DEF ZInv

\* A row stays one when columns are written.
LEMMA Spalten ==
  ASSUME NEW b \in ZZeile
  PROVE  /\ \A s \in Status : /\ [b EXCEPT !.status = s] \in ZZeile
                              /\ [b EXCEPT !.status = s].status = s
                              /\ [b EXCEPT !.status = s].fuer = b.fuer
         /\ \A f \in Bezug : /\ [b EXCEPT !.fuer = f] \in ZZeile
                             /\ [b EXCEPT !.fuer = f].fuer = f
                             /\ [b EXCEPT !.fuer = f].status = b.status
                             /\ [b EXCEPT !.istAnzahlung = TRUE, !.fuer = f] \in ZZeile
                             /\ [b EXCEPT !.istAnzahlung = TRUE, !.fuer = f].fuer = f
                             /\ [b EXCEPT !.istAnzahlung = TRUE, !.fuer = f].status = b.status
         /\ [b EXCEPT !.korrigiert = TRUE] \in ZZeile
         /\ [b EXCEPT !.korrigiert = TRUE].fuer = b.fuer
         /\ [b EXCEPT !.korrigiert = TRUE].status = b.status
BY DEF ZZeile

LEMMA AnzahlungAnlegenGut ==
  ASSUME AnzahlungenAssumption, ZInv, NEW a \in Anfragen, AnzahlungAnlegen(a)
  PROVE  ZInv'
<1>1. PICK x \in Belege : x = zAuftrag[a].id
  BY DEF ZInv, ZTypeOK
<1>2. PICK b \in ZZeile : b = belege[x]
  BY DEF ZInv, ZTypeOK
<1>3. /\ ZBei(a, "anzahlung", "lesen") /\ ZWeiter(a, "kennzeichnen")
      /\ belege' = [belege EXCEPT ![x] = [b EXCEPT !.status = "entwurf"]]
      /\ UNCHANGED <<schluss, zEntitaet, auswahl>>
  BY <1>1, <1>2 DEF AnzahlungAnlegen
<1>4. /\ [b EXCEPT !.status = "entwurf"] \in ZZeile /\ [b EXCEPT !.status = "entwurf"].fuer = b.fuer
      /\ [b EXCEPT !.status = "entwurf"].status = "entwurf"
  BY Spalten DEF Status
<1>5. belege' \in [Belege -> ZZeile] /\ ZUnveraendert
  BY <1>2, <1>3, <1>4 DEF ZInv, ZTypeOK, ZUnveraendert
<1>6. /\ zOrt' \in [Anfragen -> Orte] /\ zOrt'[a] = "kennzeichnen" /\ ZLaeuft(a)
      /\ UNCHANGED <<zAuftrag, abgebrochen, zZaehler>>
      /\ ZNur(a) /\ ZBleibt(a)
  BY <1>3, ZWeiterTyp DEF ZInv, Orte, ZLaeuft, ZBei
<1>7. ZTypeOK'
  BY <1>3, <1>5, <1>6 DEF ZInv, ZTypeOK
<1>8. Ungebunden(x)' /\ zAuftrag[a].fuer \in {Frei, Basis}
  BY <1>1, <1>3, <1>5, <1>6, TabelleBleibt DEF ZInv, ZStand, ZBei
<1>9. ZStand(a)'
  <2>1. belege'[x].status = "entwurf"
    BY <1>3, <1>4 DEF ZInv, ZTypeOK
  <2> QED
    BY <1>1, <1>3, <1>6, <1>8, <2>1 DEF ZStand, ZBei
<1> QED
  BY <1>5, <1>6, <1>7, <1>9, Still

LEMMA AnzahlungKennzeichnenGut ==
  ASSUME AnzahlungenAssumption, ZInv, NEW a \in Anfragen, AnzahlungKennzeichnen(a)
  PROVE  ZInv'
<1>1. PICK x \in Belege : x = zAuftrag[a].id
  BY DEF ZInv, ZTypeOK
<1>2. PICK b \in ZZeile : b = belege[x]
  BY DEF ZInv, ZTypeOK
<1>3. PICK f \in Bezug : f = zAuftrag[a].fuer
  BY DEF ZInv, ZTypeOK
<1> DEFINE neu == [b EXCEPT !.istAnzahlung = TRUE, !.fuer = f]
<1>4. /\ ZBei(a, "anzahlung", "kennzeichnen") /\ ZBeende(a) /\ schluss' = schluss
      /\ belege' = [belege EXCEPT ![x] = neu]
  BY <1>1, <1>2, <1>3 DEF AnzahlungKennzeichnen
<1>5. neu \in ZZeile /\ neu.fuer = f /\ neu.status = b.status
  BY Spalten
<1>6. /\ belege' \in [Belege -> ZZeile] /\ belege'[x] = neu
      /\ \A y \in Belege : y # x => belege'[y] = belege[y]
  BY <1>4, <1>5 DEF ZInv, ZTypeOK
<1>7. ZLaeuft(a) /\ zAuftrag[a].op = "anzahlung"
  BY <1>4 DEF ZBei, ZLaeuft
<1>8. /\ ZNur(a) /\ ZBleibt(a) /\ ZStand(a)' /\ ~ ZLaeuft(a)'
      /\ UNCHANGED <<abgebrochen, zZaehler>>
  BY <1>4, <1>7, ZBeendeTyp DEF ZInv
<1>9. ZTypeOK'
  BY <1>4, <1>6, <1>7, ZBeendeTyp DEF ZInv, ZTypeOK
<1>10. \A c \in Anfragen : ~ ZLaeuft(c)'
  BY <1>7, <1>8 DEF ZInv, Alleinig, ZNur, ZLaeuft
<1>11. Ungebunden(x) /\ f \in {Frei, Basis} /\ f.art \in {"frei", "basis"}
  BY <1>1, <1>3, <1>7, Bezuege DEF ZInv, ZStand
<1>12. \A y \in Belege : \A n :
         /\ belege'[y].fuer = Marker(n) <=> belege[y].fuer = Marker(n)
         /\ belege'[y].fuer = Rechnung(n) <=> belege[y].fuer = Rechnung(n)
         /\ belege'[y].fuer.art = "rechnung" <=> belege[y].fuer.art = "rechnung"
         /\ belege'[y].fuer.art = "rechnung" => belege'[y].fuer = belege[y].fuer
  <2>1. \A g : g.art \in {"frei", "basis"} => g.art # "rechnung" /\ \A n : g # Marker(n) /\ g # Rechnung(n)
    BY Bezuege
  <2>2. /\ belege[x].fuer.art \in {"frei", "basis"} /\ belege'[x].fuer.art \in {"frei", "basis"}
        /\ \A y \in Belege : y # x => belege'[y].fuer = belege[y].fuer
    BY <1>5, <1>6, <1>11 DEF Ungebunden
  <2>3. SUFFICES ASSUME NEW y \in Belege
                 PROVE  \A n : /\ belege'[y].fuer = Marker(n) <=> belege[y].fuer = Marker(n)
                               /\ belege'[y].fuer = Rechnung(n) <=> belege[y].fuer = Rechnung(n)
                               /\ belege'[y].fuer.art = "rechnung" <=> belege[y].fuer.art = "rechnung"
                               /\ belege'[y].fuer.art = "rechnung" => belege'[y].fuer = belege[y].fuer
    OBVIOUS
  <2>4. CASE y = x
    BY <2>1, <2>2, <2>4
  <2>5. CASE y # x
    BY <2>2, <2>5
  <2> QED
    BY <2>4, <2>5
<1>13. Alleinig' /\ Nummeriert'
  <2>1. \A y \in Belege : belege'[y].fuer = belege[y].fuer \/ belege'[y].fuer \in {Frei, Basis}
    BY <1>5, <1>6, <1>11
  <2> QED
    BY <1>4, <1>8, <1>9, <2>1, NummernBleiben
<1>14. BindungStimmt'
  <2>1. (\A r \in schluss : r.abzug = {y \in Belege : belege[y].fuer \in {Marker(r.nr), Rechnung(r.nr)}})'
    BY <1>4, <1>12 DEF ZInv, BindungStimmt
  <2>2. (\A y \in Belege : belege[y].fuer.art = "rechnung" =>
          \E r \in schluss : r.nr = belege[y].fuer.nr /\ y \in r.abzug)'
    BY <1>4, <1>12 DEF ZInv, BindungStimmt
  <2> QED
    BY <2>1, <2>2 DEF BindungStimmt
<1>15. (\A y \in Belege : belege[y].status = "fehlt" => belege[y].fuer = Frei)'
  <2>1. b.status # "fehlt"
    BY <1>1, <1>2, <1>4, <1>7 DEF ZInv, ZStand, ZBei
  <2> QED
    BY <1>5, <1>6, <2>1 DEF ZInv
<1>16. \A c \in Anfragen : ZStand(c)'
  BY <1>10 DEF ZStand
<1> QED
  BY <1>9, <1>13, <1>14, <1>15, <1>16 DEF ZInv

LEMMA StatusLesenGut ==
  ASSUME AnzahlungenAssumption, ZInv, NEW a \in Anfragen, StatusLesen(a)
  PROVE  ZInv'
<1>1. PICK x \in Belege : x = zAuftrag[a].id
  BY DEF ZInv, ZTypeOK
<1>2. PICK b \in ZZeile : b = belege[x]
  BY DEF ZInv, ZTypeOK
<1>3. PICK z \in Status : z = zAuftrag[a].status
  BY DEF ZInv, ZTypeOK
<1>4. ZBei(a, "status", "lesen") /\ ZLaeuft(a)
  BY DEF StatusLesen, ZBei, ZLaeuft
<1>5. CASE ZLehneab(a)
  BY <1>4, <1>5, ZLehneabGut
<1>6. CASE /\ Erlaubt(b, z)
           /\ zEntitaet' = [zEntitaet EXCEPT ![a] = [b EXCEPT !.status = z]]
           /\ ZWeiter(a, "schreiben") /\ UNCHANGED <<belege, schluss, auswahl>>
  <2>1. /\ [b EXCEPT !.status = z] \in ZZeile /\ [b EXCEPT !.status = z].fuer = b.fuer
        /\ [b EXCEPT !.status = z].status = z
    BY Spalten
  <2>2. /\ zEntitaet' \in [Anfragen -> ZZeile] /\ zEntitaet'[a].fuer = b.fuer /\ zEntitaet'[a].status = z
        /\ \A c \in Anfragen \ {a} : zEntitaet'[c] = zEntitaet[c]
    BY <1>6, <2>1 DEF ZInv, ZTypeOK
  <2>3. /\ zOrt' \in [Anfragen -> Orte] /\ zOrt'[a] = "schreiben"
        /\ UNCHANGED <<zAuftrag, abgebrochen, zZaehler>> /\ ZNur(a) /\ ZBleibt(a)
    BY <1>4, <1>6, <2>2, ZWeiterTyp DEF ZInv, Orte
  <2>4. ZTypeOK' /\ ZUnveraendert
    BY <1>6, <2>2, <2>3 DEF ZInv, ZTypeOK, ZUnveraendert
  <2>5. b.status # "fehlt" /\ z # "fehlt"
    BY <1>1, <1>2, <1>4, <1>6 DEF ZInv, ZStand, Erlaubt, ZBei
  <2>6. ZStand(a)'
    BY <1>1, <1>2, <1>4, <1>6, <2>2, <2>3, <2>5 DEF ZStand, ZBei
  <2> QED
    BY <2>3, <2>4, <2>6, Still
<1> QED
  BY <1>1, <1>2, <1>3, <1>5, <1>6 DEF StatusLesen

LEMMA StatusSchreibenGut ==
  ASSUME AnzahlungenAssumption, ZInv, NEW a \in Anfragen, StatusSchreiben(a)
  PROVE  ZInv'
<1>1. /\ ZBei(a, "status", "schreiben") /\ ZLaeuft(a) /\ ZBeende(a) /\ schluss' = schluss
      /\ belege' = [belege EXCEPT ![zAuftrag[a].id] = zEntitaet[a]]
  BY DEF StatusSchreiben, ZBei, ZLaeuft
<1>2. /\ ZNur(a) /\ ZBleibt(a) /\ ZStand(a)' /\ UNCHANGED <<abgebrochen, zZaehler>>
  BY <1>1, ZBeendeTyp DEF ZInv
<1>3. belege' \in [Belege -> ZZeile]
  BY <1>1 DEF ZInv, ZTypeOK
<1>4. ZTypeOK'
  BY <1>1, <1>3, ZBeendeTyp DEF ZInv, ZTypeOK
<1>5. zEntitaet[a].fuer = belege[zAuftrag[a].id].fuer /\ zEntitaet[a].status # "fehlt"
  BY <1>1 DEF ZInv, ZStand, ZBei
<1>6. ZUnveraendert
  BY <1>1, <1>5 DEF ZInv, ZTypeOK, ZUnveraendert
<1> QED
  BY <1>2, <1>4, <1>6, Still

LEMMA StornorechnungGut ==
  ASSUME AnzahlungenAssumption, ZInv, NEW x \in Belege, Stornorechnung(x)
  PROVE  ZInv'
<1>1. PICK b \in ZZeile : b = belege[x]
  BY DEF ZInv, ZTypeOK
<1>2. /\ belege' = [belege EXCEPT ![x] = [b EXCEPT !.korrigiert = TRUE]]
      /\ UNCHANGED <<schluss, zOrt, zAuftrag, zEntitaet, auswahl, abgebrochen, zZaehler>>
  BY <1>1 DEF Stornorechnung, zAnfragen
<1>3. /\ [b EXCEPT !.korrigiert = TRUE] \in ZZeile /\ [b EXCEPT !.korrigiert = TRUE].fuer = b.fuer
      /\ [b EXCEPT !.korrigiert = TRUE].status = b.status
  BY Spalten
<1>4. belege' \in [Belege -> ZZeile] /\ ZUnveraendert
  BY <1>1, <1>2, <1>3 DEF ZInv, ZTypeOK, ZUnveraendert
<1>5. ZTypeOK'
  BY <1>2, <1>4 DEF ZInv, ZTypeOK
<1>6. Alleinig' /\ Nummeriert'
  BY <1>2, <1>4 DEF ZInv, Alleinig, Nummeriert, ZUnveraendert, ZLaeuft
<1>7. \A a \in Anfragen : ZStand(a)'
  BY <1>2, <1>4, StandBleibt
<1> QED
  BY <1>4, <1>5, <1>6, <1>7, TabelleBleibt DEF ZInv

-------------------------------------------------------------------------------
(***************************************************************************)
(* createFromOrder.                                                        *)
(***************************************************************************)
\* A step of a final invoice that binds or frees what is bound to its own number, or adds
\* itself: the others have other numbers.
LEMMA Schlussschritt ==
  ASSUME AnzahlungenAssumption, ZInv, NEW a \in Anfragen, zAuftrag[a].op = "schluss",
         NEW n, n = zAuftrag[a].nr,
         ZNur(a), ZBleibt(a), ZTypeOK', zZaehler' = zZaehler, ZStand(a)', BindungStimmt',
         schluss \subseteq schluss', \A r \in schluss' : r \in schluss \/ r.nr = n,
         \A x \in Belege :
           \/ belege'[x] = belege[x]
           \/ /\ belege[x].fuer \in {Frei, Marker(n)}
              /\ belege'[x].fuer \in {Frei, Marker(n), Rechnung(n)}
              /\ belege'[x].status = belege[x].status
              /\ belege[x].status = "fehlt" => belege'[x].fuer = Frei
  PROVE  ZInv'
<1>1. Alleinig' /\ Nummeriert'
  BY NummernBleiben
<1>2. \A x \in Belege : belege'[x].status = belege[x].status
  OBVIOUS
<1>3. (\A x \in Belege : belege[x].status = "fehlt" => belege[x].fuer = Frei)'
  BY DEF ZInv
<1>4. ASSUME NEW b \in Anfragen, b # a PROVE ZStand(b)'
  <2>1. SUFFICES ASSUME ZLaeuft(b)' PROVE ZStand(b)'
    BY DEF ZStand
  <2>2. /\ ZLaeuft(b) /\ zOrt'[b] = zOrt[b] /\ zAuftrag'[b] = zAuftrag[b]
        /\ zEntitaet'[b] = zEntitaet[b] /\ auswahl'[b] = auswahl[b]
    BY <1>4, <2>1 DEF ZNur, ZLaeuft
  <2>3. PICK m : m = zAuftrag[b].nr
    OBVIOUS
  <2>4. m # n /\ zAuftrag[b].op = "schluss"
    BY <1>4, <2>2, <2>3 DEF ZInv, Nummeriert, Alleinig, ZBleibt
  <2>5. \A x \in Belege : /\ belege'[x].fuer = Marker(m) <=> belege[x].fuer = Marker(m)
                          /\ belege'[x].fuer = Rechnung(m) <=> belege[x].fuer = Rechnung(m)
    BY <2>4, Bezuege
  <2>6. An(m)' = An(m)
    BY <2>5 DEF An
  <2>7. Ohne(m) => Ohne(m)'
    BY <2>4, <2>5 DEF Ohne
  <2>8. ZStand(b)
    BY DEF ZInv
  <2>9. auswahl[b] \subseteq Belege
    BY DEF ZInv, ZTypeOK
  <2> QED
    BY <1>2, <2>2, <2>3, <2>4, <2>6, <2>7, <2>8, <2>9 DEF ZStand
<1> QED
  BY <1>1, <1>3, <1>4 DEF ZInv

\* The bindings agree when no invoice's own change.
LEMMA BindungBleibt ==
  ASSUME ZInv, NEW n, schluss' = schluss, \A r \in schluss : r.nr # n,
         \A x \in Belege :
           \/ belege'[x].fuer = belege[x].fuer
           \/ belege[x].fuer \in {Frei, Marker(n)} /\ belege'[x].fuer \in {Frei, Marker(n)}
  PROVE  BindungStimmt'
<1>1. ASSUME NEW r \in schluss, NEW x \in Belege
      PROVE  belege'[x].fuer \in {Marker(r.nr), Rechnung(r.nr)} <=> belege[x].fuer \in {Marker(r.nr), Rechnung(r.nr)}
  BY Bezuege
<1>2. (\A r \in schluss : r.abzug = {x \in Belege : belege[x].fuer \in {Marker(r.nr), Rechnung(r.nr)}})'
  BY <1>1 DEF ZInv, BindungStimmt
<1>3. (\A x \in Belege : belege[x].fuer.art = "rechnung" =>
        \E r \in schluss : r.nr = belege[x].fuer.nr /\ x \in r.abzug)'
  BY Bezuege DEF ZInv, BindungStimmt
<1> QED
  BY <1>2, <1>3 DEF BindungStimmt

LEMMA SchlussLesenGut ==
  ASSUME AnzahlungenAssumption, ZInv, NEW a \in Anfragen, SchlussLesen(a)
  PROVE  ZInv'
<1>1. PICK n : n = zAuftrag[a].nr
  OBVIOUS
<1>2. PICK o \in {"anlegen", "beanspruchen"} :
        /\ ZWeiter(a, o) /\ (Kandidaten = {} <=> o = "anlegen")
  BY DEF SchlussLesen
<1>3. /\ ZBei(a, "schluss", "lesen") /\ ZLaeuft(a) /\ auswahl' = [auswahl EXCEPT ![a] = Kandidaten]
      /\ UNCHANGED <<belege, schluss, zEntitaet>>
  BY DEF SchlussLesen, ZBei, ZLaeuft
<1>4. /\ auswahl' \in [Anfragen -> SUBSET Belege] /\ auswahl'[a] = Kandidaten
      /\ \A b \in Anfragen \ {a} : auswahl'[b] = auswahl[b]
  BY <1>3 DEF ZInv, ZTypeOK, Kandidaten
<1>5. /\ zOrt' \in [Anfragen -> Orte] /\ zOrt'[a] = o
      /\ UNCHANGED <<zAuftrag, abgebrochen, zZaehler>> /\ ZNur(a) /\ ZBleibt(a)
  BY <1>2, <1>3, <1>4, ZWeiterTyp DEF ZInv, Orte
<1>6. ZTypeOK' /\ ZUnveraendert
  BY <1>3, <1>4, <1>5 DEF ZInv, ZTypeOK, ZUnveraendert
<1>7. Ohne(n)' /\ An(n)' = {}
  BY <1>1, <1>3, <1>6, TabelleBleibt DEF ZInv, ZStand, ZBei
<1>8. \A y \in Kandidaten : belege[y].status # "fehlt"
  BY DEF Kandidaten, Verrechenbar
<1>9. ZStand(a)'
  BY <1>1, <1>2, <1>3, <1>4, <1>5, <1>7, <1>8 DEF ZStand, ZBei
<1> QED
  BY <1>5, <1>6, <1>9, Still

LEMMA SchlussBeanspruchenGut ==
  ASSUME AnzahlungenAssumption, ZInv, NEW a \in Anfragen, SchlussBeanspruchen(a)
  PROVE  ZInv'
<1>1. PICK n \in 0 .. MaxAnzahlungen : n = zAuftrag[a].nr
  BY DEF ZInv, ZTypeOK
<1>2. /\ ZBei(a, "schluss", "beanspruchen") /\ ZLaeuft(a) /\ ZWeiter(a, "rechnen")
      /\ belege' = [x \in Belege |->
                      IF x \in auswahl[a] /\ Beanspruchbar(x)
                        THEN [belege[x] EXCEPT !.fuer = Marker(n)] ELSE belege[x]]
      /\ UNCHANGED <<schluss, zEntitaet, auswahl>>
  BY <1>1 DEF SchlussBeanspruchen, ZBei, ZLaeuft
<1>3. /\ zOrt' \in [Anfragen -> Orte] /\ zOrt'[a] = "rechnen"
      /\ UNCHANGED <<zAuftrag, abgebrochen, zZaehler>> /\ ZNur(a) /\ ZBleibt(a)
  BY <1>2, ZWeiterTyp DEF ZInv, Orte
<1>4. Marker(n) \in Bezug
  BY ZKonstanten
<1>5. ASSUME NEW x \in Belege
      PROVE  /\ belege'[x] \in ZZeile
             /\ \/ belege'[x] = belege[x]
                \/ /\ x \in auswahl[a] /\ belege[x].fuer = Frei /\ belege'[x].fuer = Marker(n)
                   /\ belege'[x].status = belege[x].status
  <2>1. PICK b \in ZZeile : b = belege[x]
    BY DEF ZInv, ZTypeOK
  <2>2. /\ [b EXCEPT !.fuer = Marker(n)] \in ZZeile /\ [b EXCEPT !.fuer = Marker(n)].fuer = Marker(n)
        /\ [b EXCEPT !.fuer = Marker(n)].status = b.status
    BY <1>4, Spalten
  <2> QED
    BY <1>2, <2>1, <2>2 DEF Beanspruchbar
<1>6. belege' \in [Belege -> ZZeile]
  BY <1>2, <1>5
<1>7. ZTypeOK'
  BY <1>2, <1>3, <1>6 DEF ZInv, ZTypeOK
<1>8. Ohne(n) /\ \A y \in auswahl[a] : belege[y].status # "fehlt"
  BY <1>1, <1>2 DEF ZInv, ZStand, ZBei
<1>9. Ohne(n)'
  BY <1>2, <1>5, <1>8, Bezuege DEF Ohne
<1>10. ZStand(a)'
  BY <1>1, <1>2, <1>3, <1>9 DEF ZStand, ZBei
<1>11. BindungStimmt'
  BY <1>2, <1>5, <1>8, BindungBleibt DEF Ohne
<1> QED
  BY <1>1, <1>2, <1>3, <1>5, <1>7, <1>8, <1>10, <1>11, Schlussschritt DEF ZBei

LEMMA SchlussRechnenGut ==
  ASSUME AnzahlungenAssumption, ZInv, NEW a \in Anfragen, SchlussRechnen(a)
  PROVE  ZInv'
<1>1. PICK n : n = zAuftrag[a].nr
  OBVIOUS
<1>2. PICK o \in {"freigeben", "anlegen"} : ZWeiter(a, o)
  BY DEF SchlussRechnen
<1>3. /\ ZBei(a, "schluss", "rechnen") /\ ZLaeuft(a) /\ auswahl' = [auswahl EXCEPT ![a] = An(n)]
      /\ UNCHANGED <<belege, schluss, zEntitaet>>
  BY <1>1 DEF SchlussRechnen, Geclaimt, An, ZBei, ZLaeuft
<1>4. /\ auswahl' \in [Anfragen -> SUBSET Belege] /\ auswahl'[a] = An(n)
      /\ \A b \in Anfragen \ {a} : auswahl'[b] = auswahl[b]
  BY <1>3 DEF ZInv, ZTypeOK, An
<1>5. /\ zOrt' \in [Anfragen -> Orte] /\ zOrt'[a] = o
      /\ UNCHANGED <<zAuftrag, abgebrochen, zZaehler>> /\ ZNur(a) /\ ZBleibt(a)
  BY <1>2, <1>3, <1>4, ZWeiterTyp DEF ZInv, Orte
<1>6. ZTypeOK' /\ ZUnveraendert
  BY <1>3, <1>4, <1>5 DEF ZInv, ZTypeOK, ZUnveraendert
<1>7. Ohne(n)' /\ An(n)' = An(n)
  BY <1>1, <1>3, <1>6, TabelleBleibt DEF ZInv, ZStand, ZBei
<1>8. ZStand(a)'
  BY <1>1, <1>2, <1>3, <1>4, <1>5, <1>7 DEF ZStand, ZBei
<1> QED
  BY <1>5, <1>6, <1>8, Still

LEMMA SchlussAnlegenGut ==
  ASSUME AnzahlungenAssumption, ZInv, NEW a \in Anfragen, SchlussAnlegen(a)
  PROVE  ZInv'
<1>1. PICK n \in 1 .. MaxAnzahlungen : n = zAuftrag[a].nr
  <2>1. zAuftrag[a].nr \in 1 .. zZaehler.anfragen /\ zZaehler.anfragen \in 0 .. MaxAnzahlungen
    BY DEF ZInv, ZTypeOK, Nummeriert, SchlussAnlegen, ZBei, ZLaeuft
  <2> QED
    BY <2>1, ZKonstanten
<1>2. /\ ZBei(a, "schluss", "anlegen") /\ ZLaeuft(a) /\ UNCHANGED belege
      /\ schluss' = schluss \cup {[nr |-> n, abzug |-> auswahl[a]]}
      /\ \/ auswahl[a] = {} /\ ZBeende(a)
         \/ auswahl[a] # {} /\ ZWeiter(a, "umhaengen") /\ UNCHANGED <<zEntitaet, auswahl>>
  BY <1>1 DEF SchlussAnlegen, ZBei, ZLaeuft
<1>3. Ohne(n) /\ auswahl[a] = An(n) /\ auswahl[a] \subseteq Belege
  BY <1>1, <1>2 DEF ZInv, ZStand, ZBei, ZTypeOK
<1>4. BindungStimmt'
  <2>1. ASSUME NEW r \in schluss'
        PROVE  r.abzug = {x \in Belege : belege'[x].fuer \in {Marker(r.nr), Rechnung(r.nr)}}
    <3>1. CASE r \in schluss
      BY <1>2, <3>1 DEF ZInv, BindungStimmt
    <3>2. CASE r = [nr |-> n, abzug |-> auswahl[a]]
      BY <1>2, <1>3, <3>2 DEF Ohne, An
    <3> QED
      BY <1>2, <3>1, <3>2
  <2>2. (\A x \in Belege : belege[x].fuer.art = "rechnung" =>
          \E r \in schluss : r.nr = belege[x].fuer.nr /\ x \in r.abzug)'
    BY <1>2 DEF ZInv, BindungStimmt
  <2> QED
    BY <2>1, <2>2 DEF BindungStimmt
<1>5. schluss' \subseteq [nr : 1 .. MaxAnzahlungen, abzug : SUBSET Belege]
  BY <1>2, <1>3 DEF ZInv, ZTypeOK
<1>6. schluss \subseteq schluss' /\ \A r \in schluss' : r \in schluss \/ r.nr = n
  BY <1>2
<1>7. CASE auswahl[a] = {} /\ ZBeende(a)
  <2>1. ZNur(a) /\ ZBleibt(a) /\ zZaehler' = zZaehler /\ ZStand(a)'
    BY <1>2, <1>7, ZBeendeTyp DEF ZInv
  <2>2. ZTypeOK'
    BY <1>2, <1>5, <1>7, ZBeendeTyp DEF ZInv, ZTypeOK
  <2> QED
    BY <1>1, <1>2, <1>4, <1>6, <2>1, <2>2, Schlussschritt DEF ZBei
<1>8. CASE ZWeiter(a, "umhaengen") /\ UNCHANGED <<zEntitaet, auswahl>>
  <2>1. /\ zOrt' \in [Anfragen -> Orte] /\ zOrt'[a] = "umhaengen"
        /\ UNCHANGED <<zAuftrag, abgebrochen, zZaehler>> /\ ZNur(a) /\ ZBleibt(a)
    BY <1>2, <1>8, ZWeiterTyp DEF ZInv, Orte
  <2>2. ZTypeOK'
    BY <1>2, <1>5, <1>8, <2>1 DEF ZInv, ZTypeOK
  <2>3. \E r \in schluss' : r.nr = n
    <3>1. [nr |-> n, abzug |-> auswahl[a]] \in schluss'
      BY <1>2
    <3> QED
      BY <3>1
  <2>4. ZStand(a)'
    BY <1>1, <1>2, <2>1, <2>3 DEF ZStand, ZBei
  <2> QED
    BY <1>1, <1>2, <1>4, <1>6, <2>1, <2>2, <2>4, Schlussschritt DEF ZBei
<1> QED
  BY <1>2, <1>7, <1>8

LEMMA SchlussScheitertGut ==
  ASSUME AnzahlungenAssumption, ZInv, NEW a \in Anfragen, SchlussScheitert(a)
  PROVE  ZInv'
<1>1. /\ ZBei(a, "schluss", "anlegen") /\ ZLaeuft(a) /\ ZWeiter(a, "freigeben")
      /\ UNCHANGED <<belege, schluss, zEntitaet, auswahl>>
  BY DEF SchlussScheitert, ZBei, ZLaeuft
<1>2. /\ zOrt' \in [Anfragen -> Orte] /\ zOrt'[a] = "freigeben"
      /\ UNCHANGED <<zAuftrag, abgebrochen, zZaehler>> /\ ZNur(a) /\ ZBleibt(a)
  BY <1>1, ZWeiterTyp DEF ZInv, Orte
<1>3. ZTypeOK' /\ ZUnveraendert
  BY <1>1, <1>2 DEF ZInv, ZTypeOK, ZUnveraendert
<1>4. ZStand(a)'
  BY <1>1, <1>2, <1>3, TabelleBleibt DEF ZInv, ZStand, ZBei
<1> QED
  BY <1>2, <1>3, <1>4, Still

LEMMA UmhaengenTyp ==
  ASSUME AnzahlungenAssumption, ZTypeOK, NEW n \in 0 .. MaxAnzahlungen, NEW f \in Bezug,
         belege' = Umgehaengt(Marker(n), f)
  PROVE  /\ belege' \in [Belege -> ZZeile]
         /\ \A x \in Belege :
              /\ belege'[x].status = belege[x].status
              /\ belege[x].fuer = Marker(n) => belege'[x].fuer = f
              /\ belege[x].fuer # Marker(n) => belege'[x] = belege[x]
<1>1. ASSUME NEW x \in Belege
      PROVE  /\ belege'[x] \in ZZeile /\ belege'[x].status = belege[x].status
             /\ belege[x].fuer = Marker(n) => belege'[x].fuer = f
             /\ belege[x].fuer # Marker(n) => belege'[x] = belege[x]
  <2>1. PICK b \in ZZeile : b = belege[x]
    BY DEF ZTypeOK
  <2>2. /\ [b EXCEPT !.fuer = f] \in ZZeile /\ [b EXCEPT !.fuer = f].fuer = f
        /\ [b EXCEPT !.fuer = f].status = b.status
    BY Spalten
  <2> QED
    BY <2>1, <2>2 DEF Umgehaengt
<1>2. belege' \in [Belege -> ZZeile]
  BY <1>1 DEF Umgehaengt
<1> QED
  BY <1>1, <1>2

LEMMA SchlussFreigebenGut ==
  ASSUME AnzahlungenAssumption, ZInv, NEW a \in Anfragen, SchlussFreigeben(a)
  PROVE  ZInv'
<1>1. PICK n \in 0 .. MaxAnzahlungen : n = zAuftrag[a].nr
  BY DEF ZInv, ZTypeOK
<1>2. /\ ZBei(a, "schluss", "freigeben") /\ ZLaeuft(a) /\ ZBeende(a)
      /\ belege' = Umgehaengt(Marker(n), Frei) /\ schluss' = schluss
  BY <1>1 DEF SchlussFreigeben, ZFreigabe, ZBei, ZLaeuft
<1>3. ZNur(a) /\ ZBleibt(a) /\ zZaehler' = zZaehler /\ ZStand(a)'
  BY <1>2, ZBeendeTyp DEF ZInv
<1>4. /\ belege' \in [Belege -> ZZeile]
      /\ \A x \in Belege : /\ belege'[x].status = belege[x].status
                           /\ belege[x].fuer = Marker(n) => belege'[x].fuer = Frei
                           /\ belege[x].fuer # Marker(n) => belege'[x] = belege[x]
  BY <1>2, ZKonstanten, UmhaengenTyp DEF ZInv
<1>5. ZTypeOK'
  BY <1>2, <1>4, ZBeendeTyp DEF ZInv, ZTypeOK
<1>6. \A r \in schluss : r.nr # n
  BY <1>1, <1>2 DEF ZInv, ZStand, ZBei, Ohne
<1>7. BindungStimmt'
  BY <1>2, <1>4, <1>6, BindungBleibt
<1> QED
  BY <1>1, <1>2, <1>3, <1>4, <1>5, <1>7, Schlussschritt DEF ZBei

LEMMA SchlussUmhaengenGut ==
  ASSUME AnzahlungenAssumption, ZInv, NEW a \in Anfragen, SchlussUmhaengen(a)
  PROVE  ZInv'
<1>1. PICK n \in 0 .. MaxAnzahlungen : n = zAuftrag[a].nr
  BY DEF ZInv, ZTypeOK
<1>2. /\ ZBei(a, "schluss", "umhaengen") /\ ZLaeuft(a) /\ ZBeende(a)
      /\ belege' = Umgehaengt(Marker(n), Rechnung(n)) /\ schluss' = schluss
  BY <1>1 DEF SchlussUmhaengen, ZBei, ZLaeuft
<1>3. ZNur(a) /\ ZBleibt(a) /\ zZaehler' = zZaehler /\ ZStand(a)'
  BY <1>2, ZBeendeTyp DEF ZInv
<1>4. /\ belege' \in [Belege -> ZZeile]
      /\ \A x \in Belege : /\ belege'[x].status = belege[x].status
                           /\ belege[x].fuer = Marker(n) => belege'[x].fuer = Rechnung(n)
                           /\ belege[x].fuer # Marker(n) => belege'[x] = belege[x]
  BY <1>2, ZKonstanten, UmhaengenTyp DEF ZInv
<1>5. ZTypeOK'
  BY <1>2, <1>4, ZBeendeTyp DEF ZInv, ZTypeOK
<1>6. PICK r \in schluss : r.nr = n
  BY <1>1, <1>2 DEF ZInv, ZStand, ZBei
<1>7. BindungStimmt'
  <2>1. ASSUME NEW s \in schluss, NEW x \in Belege
        PROVE  belege'[x].fuer \in {Marker(s.nr), Rechnung(s.nr)} <=> belege[x].fuer \in {Marker(s.nr), Rechnung(s.nr)}
    BY <1>4, Bezuege
  <2>2. (\A s \in schluss : s.abzug = {x \in Belege : belege[x].fuer \in {Marker(s.nr), Rechnung(s.nr)}})'
    BY <1>2, <2>1 DEF ZInv, BindungStimmt
  <2>3. ASSUME NEW x \in Belege, belege'[x].fuer.art = "rechnung"
        PROVE  \E s \in schluss' : s.nr = belege'[x].fuer.nr /\ x \in s.abzug
    <3>1. CASE belege[x].fuer = Marker(n)
      <4>1. belege'[x].fuer = Rechnung(n) /\ belege'[x].fuer.nr = n
        BY <1>4, <3>1, Bezuege
      <4>2. x \in r.abzug
        BY <1>2, <1>6, <2>2, <4>1
      <4> QED
        BY <1>2, <1>6, <4>1, <4>2
    <3>2. CASE belege[x].fuer # Marker(n)
      BY <1>2, <1>4, <2>3, <3>2 DEF ZInv, BindungStimmt
    <3> QED
      BY <3>1, <3>2
  <2> QED
    BY <2>2, <2>3 DEF BindungStimmt
<1>8. \A x \in Belege : belege[x].fuer = Marker(n) => belege[x].status # "fehlt"
  BY Bezuege DEF ZInv
<1> QED
  BY <1>1, <1>2, <1>3, <1>4, <1>5, <1>7, <1>8, Schlussschritt DEF ZBei

-------------------------------------------------------------------------------
(***************************************************************************)
(* Crashes, and all steps.                                                 *)
(***************************************************************************)
LEMMA ZAbsturzGut ==
  ASSUME AnzahlungenAssumption, ZInv, ZAbsturz
  PROVE  ZInv'
<1>1. /\ zOrt' = [a \in Anfragen |-> "bereit"] /\ zAuftrag' = [a \in Anfragen |-> ZRuhe]
      /\ zEntitaet' = [a \in Anfragen |-> Fehlt] /\ auswahl' = [a \in Anfragen |-> {}]
      /\ UNCHANGED <<belege, schluss>> /\ zZaehler' = [zZaehler EXCEPT !.abstuerze = @ + 1]
      /\ zZaehler.abstuerze < MaxAbstuerze
      /\ abgebrochen' = abgebrochen \cup {zAuftrag[a].nr : a \in {x \in Anfragen : zOrt[x] # "bereit"}}
  BY DEF ZAbsturz
<1>2. zZaehler' \in [anfragen : 0 .. MaxAnzahlungen, abstuerze : 0 .. MaxAbstuerze]
      /\ zZaehler'.anfragen = zZaehler.anfragen
  BY <1>1 DEF AnzahlungenAssumption, ZInv, ZTypeOK
<1>3. abgebrochen' \subseteq 1 .. MaxAnzahlungen
  <2>1. \A a \in Anfragen : zOrt[a] # "bereit" => zAuftrag[a].nr \in 1 .. MaxAnzahlungen
    BY ZKonstanten DEF ZInv, ZTypeOK, Nummeriert, ZLaeuft
  <2> QED
    BY <1>1, <2>1 DEF ZInv, ZTypeOK
<1>4. ZTypeOK'
  BY <1>1, <1>2, <1>3, ZKonstanten DEF ZInv, ZTypeOK, Orte
<1>5. \A a \in Anfragen : ~ ZLaeuft(a)'
  BY <1>1 DEF ZLaeuft
<1>6. Alleinig' /\ Nummeriert'
  BY <1>1, <1>2, <1>5 DEF ZInv, Alleinig, Nummeriert
<1>7. ZUnveraendert
  BY <1>1 DEF ZUnveraendert
<1>8. \A a \in Anfragen : ZStand(a)'
  BY <1>5 DEF ZStand
<1> QED
  BY <1>4, <1>6, <1>7, <1>8, TabelleBleibt DEF ZInv

LEMMA ZInitGut ==
  ASSUME AnzahlungenAssumption, NEW z \in {ZKeine, ZAlle}, ZInitMit(z)
  PROVE  ZInv
<1>1. /\ belege \in [Belege -> Anfangszeilen] /\ schluss = {} /\ abgebrochen = {}
      /\ zOrt = [a \in Anfragen |-> "bereit"] /\ zAuftrag = [a \in Anfragen |-> ZRuhe]
      /\ zEntitaet = [a \in Anfragen |-> Fehlt] /\ auswahl = [a \in Anfragen |-> {}]
      /\ zZaehler = z
  BY DEF ZInitMit
<1>2. ASSUME NEW b \in Anfangszeilen
      PROVE  b \in ZZeile /\ b.fuer = Frei
  <2>1. CASE b = Fehlt
    BY <2>1, ZKonstanten DEF Fehlt
  <2>2. ASSUME NEW s \in {"offen", "bezahlt"}, b = [Fehlt EXCEPT !.status = s, !.istAnzahlung = TRUE]
        PROVE  b \in ZZeile /\ b.fuer = Frei
    BY <2>2, ZKonstanten DEF ZZeile, Fehlt, Status
  <2> QED
    BY <1>2, <2>1, <2>2 DEF Anfangszeilen
<1>3. ZTypeOK
  BY <1>1, <1>2, ZKonstanten DEF AnzahlungenAssumption, ZTypeOK, Orte, ZKeine, ZAlle
<1>4. \A x \in Belege : belege[x].fuer = Frei
  BY <1>1, <1>2
<1>5. Alleinig /\ Nummeriert /\ BindungStimmt /\ \A a \in Anfragen : ZStand(a)
  BY <1>1, <1>4, Bezuege DEF Alleinig, Nummeriert, BindungStimmt, ZStand, ZLaeuft
<1> QED
  BY <1>3, <1>4, <1>5 DEF ZInv

LEMMA ZNextGut ==
  ASSUME AnzahlungenAssumption, Einzeln, ZInv, [ZNext]_zVars
  PROVE  ZInv'
<1>1. CASE UNCHANGED zVars
  <2>1. UNCHANGED <<belege, schluss, zOrt, zAuftrag, zEntitaet, auswahl, abgebrochen, zZaehler>>
    BY <1>1 DEF zVars, zAnfragen
  <2>2. ZUnveraendert
    BY <2>1 DEF ZUnveraendert
  <2>3. ZTypeOK' /\ Alleinig' /\ Nummeriert'
    BY <2>1 DEF ZInv, ZTypeOK, Alleinig, Nummeriert, ZLaeuft
  <2>4. \A a \in Anfragen : ZStand(a)'
    BY <2>1, <2>2, StandBleibt
  <2> QED
    BY <2>2, <2>3, <2>4, TabelleBleibt DEF ZInv
<1>2. CASE ZNext
  <2>1. \A a \in Anfragen : Bedient(a) => ZInv'
    BY AnzahlungAnlegenGut, AnzahlungKennzeichnenGut, StatusLesenGut, StatusSchreibenGut,
       SchlussLesenGut, SchlussBeanspruchenGut, SchlussRechnenGut, SchlussAnlegenGut,
       SchlussScheitertGut, SchlussFreigebenGut, SchlussUmhaengenGut DEF Bedient
  <2> QED
    BY <1>2, <2>1, ZNimmGut, StornorechnungGut, ZAbsturzGut DEF ZNext
<1> QED
  BY <1>1, <1>2

-------------------------------------------------------------------------------
(***************************************************************************)
(* Anzahlungen: theorems.                                                  *)
(***************************************************************************)

\* The inductive invariant holds in every reachable state.
THEOREM InvarianteAnzahlungen ==
  ASSUME AnzahlungenAssumption, Einzeln
  PROVE  ZSpec => []ZInv
<1>1. ZInit => ZInv
  BY ZInitGut DEF ZInit
<1>2. ZInv /\ [ZNext]_zVars => ZInv'
  BY ZNextGut
<1> QED
  BY <1>1, <1>2, PTL DEF ZSpec

\* What a final invoice deducts is what is bound to it or to its marker, and nothing else
\* is: no Anzahlung is deducted twice, however many final invoices are created at once,
\* fail or are cut off (createFromOrder).
THEOREM BindungBewiesen ==
  ASSUME AnzahlungenAssumption, Einzeln
  PROVE  ZSpec => []BindungStimmt
<1>1. ZInv => BindungStimmt
  BY DEF ZInv
<1> QED
  BY <1>1, InvarianteAnzahlungen, PTL

\* Two final invoices deduct nothing in common (createFromOrder: "duerfen sie dieselbe
\* Anzahlung NICHT beide abziehen").
KeinDoppelabzug == \A r, s \in schluss : r # s => r.abzug \cap s.abzug = {}

THEOREM NieDoppeltAbgezogen ==
  ASSUME AnzahlungenAssumption, Einzeln
  PROVE  ZSpec => []KeinDoppelabzug
<1>1. ASSUME ZInv PROVE KeinDoppelabzug
  <2>1. SUFFICES ASSUME NEW r \in schluss, NEW s \in schluss, NEW x \in r.abzug \cap s.abzug
                 PROVE  r = s
    BY DEF KeinDoppelabzug
  <2>2. /\ r.abzug = {y \in Belege : belege[y].fuer \in {Marker(r.nr), Rechnung(r.nr)}}
        /\ s.abzug = {y \in Belege : belege[y].fuer \in {Marker(s.nr), Rechnung(s.nr)}}
    BY <1>1 DEF ZInv, BindungStimmt
  <2>3. r.nr = s.nr
    BY <2>2, Bezuege
  <2>4. r.abzug = s.abzug
    BY <2>2, <2>3
  <2> QED
    BY <1>1, <2>3, <2>4 DEF ZInv, ZTypeOK
<1> QED
  BY <1>1, InvarianteAnzahlungen, PTL

-------------------------------------------------------------------------------
(***************************************************************************)
(* Lager: the inductive invariant.                                         *)
(***************************************************************************)
LLaeuft(a) == lOrt[a] = "schreiben"

\* What LVertraeglich keeps up.
LPaarweise ==
   \A a, b \in Anfragen :
     a # b /\ LLaeuft(a) /\ LLaeuft(b) => Ueberschreibt(lAuftrag[a]) \cap Schreibt(lAuftrag[b]) = {}

\* What a request may rely on, whatever else goes on.
Gilt(a) ==
  LET auf == lAuftrag[a]
      alt == lEntitaet[a].bestellung
      zeile == bestellungen[auf.id]
  IN LLaeuft(a) =>
        /\ auf.op = "rolle" => auf.status \in FolienRolleStatus
        /\ auf.op \in {"bestellung", "wechsel"} =>
             zeile.status # "keine" /\ alt.ersteller = zeile.ersteller
        /\ auf.op = "bestellung" => alt.status = "entwurf"
        /\ auf.op = "wechsel" => /\ auf.status \in erlaubt(alt.status)
                                 /\ auf.status = "freigegeben" => auf.wer # alt.ersteller

\* What a request is going to write back is what is stored.
LAktuell(a) ==
   LET auf == lAuftrag[a]
       e == lEntitaet[a]
   IN LLaeuft(a) =>
         /\ auf.op = "produkt" => e.bestand = bestand
         /\ auf.op = "entfernen" => e.eintrag = eintraege[auf.nr]
         /\ auf.op = "rolle" => e.rolle = rolle /\ rolle.status # "keine"
         /\ auf.op = "bestellung" => e.bestellung = bestellungen[auf.id]
         /\ auf.op = "wechsel" => e.bestellung.menge = bestellungen[auf.id].menge

LInv ==
  /\ LTypeOK
  /\ LieferungStimmt
  /\ BestandStimmt
  /\ \A a \in Anfragen : Gilt(a)
  /\ lEinzeln => LPaarweise /\ \A a \in Anfragen : LAktuell(a)

-------------------------------------------------------------------------------
(***************************************************************************)
(* Types.                                                                  *)
(***************************************************************************)
ZeilenTyp ==
  /\ bestand \in Int /\ rolle \in Rolle /\ summe \in Summen /\ rollensumme \in Rollensummen
  /\ eintraege \in [Nummern -> Eintrag]
  /\ bestellungen \in [Bestellungen -> Bestellung]
  /\ geliefert \in [Bestellungen -> Nat] /\ genehmigt \in [Bestellungen -> Nat]

LEMMA LKonstanten ==
  ASSUME LagerAssumption
  PROVE  /\ KeinEintrag \in Eintrag /\ KeineBestellung \in Bestellung
         /\ \A m \in Int : NeueRolle(m) \in Rolle
         /\ Nichts \in Gelesen
         /\ LRuhe \in Auftrag
         /\ Mengen \subseteq Nat /\ 0 \in Nummern
<1>1. Mengen \subseteq Nat /\ 0 \in Nummern
  BY DEF LagerAssumption, Nummern
<1>2. KeinEintrag \in Eintrag
  BY DEF KeinEintrag, Eintrag
<1>3. KeineBestellung \in Bestellung
  BY DEF KeineBestellung, Bestellung
<1>4. \A m \in Int : NeueRolle(m) \in Rolle
  BY DEF NeueRolle, Rolle, FolienRolleStatus
<1>5. Nichts \in Gelesen
  BY <1>2, <1>3, <1>4 DEF Nichts, Gelesen
<1>6. (CHOOSE p \in Bestellungen : TRUE) \in Bestellungen /\ (CHOOSE u \in Personen : TRUE) \in Personen
  BY DEF LagerAssumption
<1>7. LRuhe \in Auftrag
  BY <1>1, <1>6 DEF LRuhe, Auftrag, LOperationen, FolienRolleStatus
<1>8. QED
  BY <1>1, <1>2, <1>3, <1>4, <1>5, <1>7

-------------------------------------------------------------------------------
(***************************************************************************)
(* The two kinds of steps of a request.                                    *)
(***************************************************************************)
\* A request begins, with what it has read.
LEMMA BeginGut ==
  ASSUME LagerAssumption, LInv, NEW a \in Anfragen, NEW auf \in Auftrag, NEW e \in Gelesen,
         Beginne(a, auf, e),
         auf.op \in {"bestellung", "wechsel"} =>
           /\ bestellungen[auf.id].status # "keine"
           /\ e.bestellung = bestellungen[auf.id]
           /\ auf.op = "bestellung" => e.bestellung.status = "entwurf"
           /\ auf.op = "wechsel" => /\ auf.status \in erlaubt(e.bestellung.status)
                                    /\ auf.status = "freigegeben" => auf.wer # e.bestellung.ersteller,
         auf.op = "produkt" => e.bestand = bestand,
         auf.op = "entfernen" => e.eintrag = eintraege[auf.nr],
         auf.op = "rolle" => e.rolle = rolle /\ rolle.status # "keine" /\ auf.status \in FolienRolleStatus
  PROVE  LInv'
<1>1. /\ lOrt' = [lOrt EXCEPT ![a] = "schreiben"]
      /\ lAuftrag' = [lAuftrag EXCEPT ![a] = auf]
      /\ lEntitaet' = [lEntitaet EXCEPT ![a] = e]
      /\ UNCHANGED <<lEinzeln, lager, einkauf>>
      /\ lZaehler < MaxLager /\ lZaehler' = lZaehler + 1
      /\ LVertraeglich(Schreibt(auf), Ueberschreibt(auf))
  BY DEF Beginne, Zaehle
<1>2. LTypeOK
  BY DEF LInv
<1>3. /\ lOrt'[a] = "schreiben" /\ lAuftrag'[a] = auf /\ lEntitaet'[a] = e
      /\ \A b \in Anfragen \ {a} : lOrt'[b] = lOrt[b] /\ lAuftrag'[b] = lAuftrag[b] /\ lEntitaet'[b] = lEntitaet[b]
  BY <1>1, <1>2 DEF LTypeOK
<1>4. lZaehler' \in Nummern
  BY <1>1, <1>2 DEF LTypeOK, Nummern, LagerAssumption
<1>5. LTypeOK'
  BY <1>1, <1>2, <1>4 DEF LTypeOK, lager, einkauf
<1>6. LieferungStimmt' /\ BestandStimmt'
  BY <1>1 DEF LInv, LieferungStimmt, BestandStimmt, lager, einkauf
<1>7. ASSUME NEW b \in Anfragen
      PROVE  Gilt(b)' /\ (lEinzeln => LAktuell(b)')
  <2>1. CASE b = a
    BY <1>1, <1>3, <2>1 DEF Gilt, LAktuell, lager, einkauf
  <2>2. CASE b # a
    BY <1>1, <1>3, <2>2 DEF LInv, Gilt, LAktuell, LLaeuft, lager, einkauf
  <2>3. QED
    BY <2>1, <2>2
<1>8. ASSUME lEinzeln
      PROVE  LPaarweise'
  <2>1. SUFFICES ASSUME NEW b \in Anfragen, NEW c \in Anfragen, b # c, LLaeuft(b)', LLaeuft(c)'
                 PROVE  Ueberschreibt(lAuftrag'[b]) \cap Schreibt(lAuftrag'[c]) = {}
    BY DEF LPaarweise, Ueberschreibt, Schreibt, DasProdukt, DieRolle, DerEintrag, DieBestellung
  <2>2. CASE b = a
    BY <1>1, <1>3, <1>8, <2>1, <2>2 DEF LVertraeglich, LLaeuft
  <2>3. CASE c = a
    BY <1>1, <1>3, <1>8, <2>1, <2>3 DEF LVertraeglich, LLaeuft
  <2>4. CASE b # a /\ c # a
    BY <1>3, <1>8, <2>1, <2>4 DEF LInv, LPaarweise, LLaeuft
  <2>5. QED
    BY <2>2, <2>3, <2>4
<1>9. QED
  BY <1>1, <1>5, <1>6, <1>7, <1>8 DEF LInv

\* What a step may do to the rows that other requests have read: schreibt and
\* ueberschreibt are the rows it writes, and those it overwrites.
Beruehrt(schreibt, ueberschreibt) ==
  /\ bestand' # bestand => DasProdukt \in schreibt
  /\ rolle' # rolle => DieRolle \in schreibt
  /\ \A n \in Nummern : eintraege'[n] # eintraege[n] => <<"eintrag", n>> \in schreibt
  /\ \A p \in Bestellungen :
       /\ bestellungen'[p] # bestellungen[p] => <<"bestellung", p>> \in schreibt
       /\ bestellungen'[p].menge # bestellungen[p].menge => <<"bestellung", p>> \in ueberschreibt

LBleibt ==
   \A p \in Bestellungen : bestellungen[p].status # "keine" =>
     bestellungen'[p].status # "keine" /\ bestellungen'[p].ersteller = bestellungen[p].ersteller

\* What the other requests rely on survives such a step.
LEMMA Fremd ==
  ASSUME LInv, NEW b \in Anfragen, NEW s, NEW u,
         lOrt'[b] = lOrt[b], lAuftrag'[b] = lAuftrag[b], lEntitaet'[b] = lEntitaet[b],
         LBleibt, Beruehrt(s, u),
         lEinzeln /\ LLaeuft(b) => Ueberschreibt(lAuftrag[b]) \cap s = {} /\ u \cap Schreibt(lAuftrag[b]) = {}
  PROVE  Gilt(b)' /\ (lEinzeln => LAktuell(b)')
<1>1. lAuftrag[b] \in Auftrag
  BY DEF LInv, LTypeOK
<1>2. lAuftrag[b].id \in Bestellungen /\ lAuftrag[b].nr \in Nummern
  BY <1>1 DEF Auftrag
<1>3. Gilt(b)'
  BY <1>2 DEF LInv, Gilt, LLaeuft, LBleibt
<1>4. ASSUME lEinzeln, LLaeuft(b)
      PROVE  LAktuell(b)'
  <2>1. LAktuell(b)
    BY <1>4 DEF LInv
  <2>2. lAuftrag[b].op = "produkt" => bestand' = bestand
    BY <1>4 DEF Beruehrt, Ueberschreibt
  <2>3. lAuftrag[b].op = "rolle" => rolle' = rolle
    BY <1>4 DEF Beruehrt, Ueberschreibt
  <2>4. lAuftrag[b].op = "entfernen" => eintraege'[lAuftrag[b].nr] = eintraege[lAuftrag[b].nr]
    BY <1>2, <1>4 DEF Beruehrt, Ueberschreibt, DerEintrag
  <2>5. lAuftrag[b].op = "bestellung" => bestellungen'[lAuftrag[b].id] = bestellungen[lAuftrag[b].id]
    BY <1>2, <1>4 DEF Beruehrt, Ueberschreibt, DieBestellung
  <2>6. lAuftrag[b].op = "wechsel" =>
          bestellungen'[lAuftrag[b].id].menge = bestellungen[lAuftrag[b].id].menge
    BY <1>2, <1>4 DEF Beruehrt, Schreibt, DieBestellung
  <2>7. QED
    BY <2>1, <2>2, <2>3, <2>4, <2>5, <2>6, <1>4 DEF LAktuell, LLaeuft
<1>5. QED
  BY <1>3, <1>4 DEF LAktuell, LLaeuft

\* A request writes, and ends.
LEMMA EndeGut ==
  ASSUME LagerAssumption, LInv, NEW a \in Anfragen, LLaeuft(a), LBeende(a), ZeilenTyp', LBleibt,
         Beruehrt(Schreibt(lAuftrag[a]), Ueberschreibt(lAuftrag[a])),
         LieferungStimmt', BestandStimmt'
  PROVE  LInv'
<1>1. /\ lOrt' = [lOrt EXCEPT ![a] = "bereit"]
      /\ lAuftrag' = [lAuftrag EXCEPT ![a] = LRuhe]
      /\ lEntitaet' = [lEntitaet EXCEPT ![a] = Nichts]
      /\ lEinzeln' = lEinzeln /\ lZaehler' = lZaehler
  BY DEF LBeende
<1>2. LTypeOK
  BY DEF LInv
<1>3. LTypeOK'
  BY <1>1, <1>2, LKonstanten DEF LTypeOK, ZeilenTyp
<1>4. /\ lOrt'[a] = "bereit"
      /\ \A b \in Anfragen \ {a} : lOrt'[b] = lOrt[b] /\ lAuftrag'[b] = lAuftrag[b] /\ lEntitaet'[b] = lEntitaet[b]
  BY <1>1, <1>2 DEF LTypeOK
<1>5. ASSUME NEW b \in Anfragen
      PROVE  Gilt(b)' /\ (lEinzeln => LAktuell(b)')
  <2>1. CASE b = a
    BY <1>4, <2>1 DEF Gilt, LAktuell, LLaeuft
  <2>2. CASE b # a
    <3>1. lEinzeln /\ LLaeuft(b) =>
            /\ Ueberschreibt(lAuftrag[b]) \cap Schreibt(lAuftrag[a]) = {}
            /\ Ueberschreibt(lAuftrag[a]) \cap Schreibt(lAuftrag[b]) = {}
      BY <2>2 DEF LInv, LPaarweise
    <3>2. QED
      BY <1>4, <2>2, <3>1, Fremd
  <2>3. QED
    BY <2>1, <2>2
<1>6. lEinzeln => LPaarweise'
  BY <1>4 DEF LInv, LPaarweise, LLaeuft
<1>7. QED
  BY <1>1, <1>3, <1>5, <1>6 DEF LInv

-------------------------------------------------------------------------------
(***************************************************************************)
(* The steps that begin a request.                                         *)
(***************************************************************************)
LEMMA LBeginnGut ==
  ASSUME LagerAssumption, LInv, NEW a \in Anfragen, Beginn(a)
  PROVE  LInv'
<1>1. LTypeOK
  BY DEF LInv
<1>2. /\ LRuhe \in Auftrag /\ Nichts \in Gelesen
      /\ bestand \in Int /\ rolle \in Rolle
      /\ eintraege \in [Nummern -> Eintrag] /\ bestellungen \in [Bestellungen -> Bestellung]
      /\ Mengen \cup {0} \subseteq Nat
  BY <1>1, LKonstanten DEF LTypeOK
<1>3. ASSUME ProduktLesen(a)
      PROVE  LInv'
  <2>1. PICK m \in Mengen \cup {0} :
          Beginne(a, [LRuhe EXCEPT !.op = "produkt", !.menge = m], [Nichts EXCEPT !.bestand = bestand])
    BY <1>3 DEF ProduktLesen
  <2>2. [LRuhe EXCEPT !.op = "produkt", !.menge = m] \in Auftrag
    BY <1>2 DEF Auftrag, LOperationen
  <2>3. [Nichts EXCEPT !.bestand = bestand] \in Gelesen
    BY <1>2 DEF Gelesen
  <2>4. QED
    BY <2>1, <2>2, <2>3, BeginGut DEF LRuhe, Nichts
<1>4. ASSUME VerbrauchLesen(a)
      PROVE  LInv'
  <2>1. PICK m \in Mengen, r \in BOOLEAN :
          Beginne(a, [LRuhe EXCEPT !.op = "verbrauch", !.menge = m, !.mitRolle = r, !.nr = lZaehler + 1],
                  [Nichts EXCEPT !.bestand = bestand])
    BY <1>4 DEF VerbrauchLesen
  <2>2. lZaehler + 1 \in Nummern
    BY <1>1, <2>1 DEF Beginne, Zaehle, LTypeOK, Nummern, LagerAssumption
  <2>3. [LRuhe EXCEPT !.op = "verbrauch", !.menge = m, !.mitRolle = r, !.nr = lZaehler + 1] \in Auftrag
    BY <1>2, <2>2 DEF Auftrag, LOperationen
  <2>4. [Nichts EXCEPT !.bestand = bestand] \in Gelesen
    BY <1>2 DEF Gelesen
  <2>5. QED
    BY <2>1, <2>3, <2>4, BeginGut DEF LRuhe, Nichts
<1>5. ASSUME EintragLesen(a)
      PROVE  LInv'
  <2>1. PICK n \in Nummern :
          Beginne(a, [LRuhe EXCEPT !.op = "entfernen", !.nr = n], [Nichts EXCEPT !.eintrag = eintraege[n]])
    BY <1>5 DEF EintragLesen
  <2>2. [LRuhe EXCEPT !.op = "entfernen", !.nr = n] \in Auftrag
    BY <1>2 DEF Auftrag, LOperationen
  <2>3. [Nichts EXCEPT !.eintrag = eintraege[n]] \in Gelesen
    BY <1>2 DEF Gelesen
  <2>4. QED
    BY <2>1, <2>2, <2>3, BeginGut DEF LRuhe, Nichts
<1>6. ASSUME RolleLesen(a)
      PROVE  LInv'
  <2>1. PICK m \in Mengen \cup {0}, st \in FolienRolleStatus :
          rolle.status # "keine"
          /\ Beginne(a, [LRuhe EXCEPT !.op = "rolle", !.menge = m, !.status = st], [Nichts EXCEPT !.rolle = rolle])
    BY <1>6 DEF RolleLesen
  <2>2. [LRuhe EXCEPT !.op = "rolle", !.menge = m, !.status = st] \in Auftrag
    BY <1>2 DEF Auftrag, LOperationen
  <2>3. [Nichts EXCEPT !.rolle = rolle] \in Gelesen
    BY <1>2 DEF Gelesen
  <2>4. QED
    BY <2>1, <2>2, <2>3, BeginGut DEF LRuhe, Nichts
<1>7. ASSUME RolleWegLesen(a)
      PROVE  LInv'
  <2>1. [LRuhe EXCEPT !.op = "rolleWeg"] \in Auftrag
    BY <1>2 DEF Auftrag, LOperationen
  <2>2. [Nichts EXCEPT !.rolle = rolle] \in Gelesen
    BY <1>2 DEF Gelesen
  <2>3. QED
    BY <1>7, <2>1, <2>2, BeginGut DEF RolleWegLesen, LRuhe, Nichts
<1>8. ASSUME BestellungLesen(a)
      PROVE  LInv'
  <2>1. PICK p \in Bestellungen, m \in Mengen \cup {0} :
          /\ bestellungen[p].status = "entwurf"
          /\ Beginne(a, [LRuhe EXCEPT !.op = "bestellung", !.id = p, !.menge = m],
                     [Nichts EXCEPT !.bestellung = bestellungen[p]])
    BY <1>8 DEF BestellungLesen
  <2>2. [LRuhe EXCEPT !.op = "bestellung", !.id = p, !.menge = m] \in Auftrag
    BY <1>2 DEF Auftrag, LOperationen
  <2>3. [Nichts EXCEPT !.bestellung = bestellungen[p]] \in Gelesen
    BY <1>2 DEF Gelesen
  <2>4. QED
    BY <2>1, <2>2, <2>3, BeginGut DEF LRuhe, Nichts
<1>9. ASSUME WechselLesen(a)
      PROVE  LInv'
  <2>1. PICK p \in Bestellungen, u \in Personen, st \in PurchaseOrderStatus :
          /\ st \in erlaubt(bestellungen[p].status)
          /\ ~ (st = "freigegeben" /\ bestellungen[p].ersteller = u)
          /\ Beginne(a, [LRuhe EXCEPT !.op = "wechsel", !.id = p, !.wer = u, !.status = st],
                     [Nichts EXCEPT !.bestellung = bestellungen[p]])
    BY <1>9 DEF WechselLesen
  <2>2. [LRuhe EXCEPT !.op = "wechsel", !.id = p, !.wer = u, !.status = st] \in Auftrag
    BY <1>2 DEF Auftrag, LOperationen
  <2>3. [Nichts EXCEPT !.bestellung = bestellungen[p]] \in Gelesen
    BY <1>2 DEF Gelesen
  <2>4. bestellungen[p].status # "keine"
    BY <2>1 DEF erlaubt
  <2>5. QED
    BY <2>1, <2>2, <2>3, <2>4, BeginGut DEF LRuhe, Nichts
<1>10. QED
  BY <1>3, <1>4, <1>5, <1>6, <1>7, <1>8, <1>9 DEF Beginn

-------------------------------------------------------------------------------
(***************************************************************************)
(* The steps that write the product, the entries and the roll.             *)
(***************************************************************************)
\* Where no purchase order changes, the properties of purchase orders stay.
LEMMA OhneEinkauf ==
  ASSUME LieferungStimmt, UNCHANGED einkauf, lEinzeln' = lEinzeln
  PROVE  LieferungStimmt' /\ LBleibt
  BY DEF LieferungStimmt, LBleibt, einkauf

\* The sums are numbers.
LEMMA Zahlen ==
  ASSUME LInv
  PROVE  /\ summe \in Summen /\ rollensumme \in Rollensummen
         /\ summe.bewegt \in Int /\ summe.verbraucht \in Int /\ summe.gesetzt \in Int
         /\ rollensumme.gesetzt \in Int /\ rollensumme.verbraucht \in Int
         /\ bestand \in Int /\ rolle \in Rolle /\ rolle.rest \in Int
  BY DEF LInv, LTypeOK, Summen, Rollensummen, Rolle

LEMMA ProduktSpeichernGut ==
  ASSUME LagerAssumption, LInv, NEW a \in Anfragen, ProduktSpeichern(a)
  PROVE  LInv'
<1> DEFINE auf == lAuftrag[a]
<1>1. /\ LLaeuft(a) /\ auf.op = "produkt" /\ LBeende(a)
      /\ bestand' = IF auf.menge # 0 THEN auf.menge ELSE lEntitaet[a].bestand
      /\ summe' = [summe EXCEPT !.gesetzt = IF auf.menge # 0 THEN @ + (auf.menge - bestand) ELSE @]
      /\ UNCHANGED <<rolle, eintraege, rollensumme, einkauf>>
  BY DEF ProduktSpeichern, LBei, LLaeuft
<1>2. LTypeOK /\ auf \in Auftrag /\ lEntitaet[a] \in Gelesen /\ lEinzeln' = lEinzeln
  BY <1>1 DEF LInv, LTypeOK, LBeende
<1>3. auf.menge \in Nat /\ lEntitaet[a].bestand \in Int
  BY <1>2 DEF Auftrag, Gelesen
<1>4. summe' \in Summen /\ bestand' \in Int
  BY <1>1, <1>3, Zahlen DEF Summen
<1>5. ZeilenTyp'
  BY <1>1, <1>2, <1>4 DEF ZeilenTyp, LTypeOK, einkauf
<1>6. /\ summe'.bewegt = summe.bewegt /\ summe'.verbraucht = summe.verbraucht
      /\ summe'.gesetzt = IF auf.menge # 0 THEN summe.gesetzt + (auf.menge - bestand) ELSE summe.gesetzt
  BY <1>1, Zahlen DEF Summen
<1>7. lEinzeln => lEntitaet[a].bestand = bestand
  BY <1>1 DEF LInv, LAktuell
<1>8. BestandStimmt'
  <2>1. CASE auf.menge # 0
    BY <1>1, <1>2, <1>3, <1>6, <2>1, Zahlen DEF LInv, BestandStimmt
  <2>2. CASE auf.menge = 0
    BY <1>1, <1>2, <1>6, <1>7, <2>2, Zahlen DEF LInv, BestandStimmt
  <2>3. QED
    BY <2>1, <2>2
<1>9. LieferungStimmt' /\ LBleibt
  BY <1>1, <1>2, OhneEinkauf DEF LInv
<1>10. Beruehrt(Schreibt(auf), Ueberschreibt(auf))
  BY <1>1 DEF Beruehrt, Schreibt, Ueberschreibt, einkauf
<1>11. QED
  BY <1>1, <1>5, <1>8, <1>9, <1>10, EndeGut

LEMMA VerbrauchBuchenGut ==
  ASSUME LagerAssumption, LInv, NEW a \in Anfragen, VerbrauchBuchen(a)
  PROVE  LInv'
<1> DEFINE auf == lAuftrag[a]
           an == auf.mitRolle /\ rolle.status # "keine"
           v == IF auf.mitRolle THEN rollensumme.verbraucht + auf.menge ELSE rollensumme.verbraucht
<1>1. /\ LLaeuft(a) /\ auf.op = "verbrauch" /\ LBeende(a)
      /\ eintraege' = [eintraege EXCEPT ![auf.nr] = [menge |-> auf.menge, mitRolle |-> auf.mitRolle]]
      /\ bestand' = bestand - auf.menge
      /\ rolle' = IF an THEN Entnommen(auf.menge) ELSE rolle
      /\ summe' = [summe EXCEPT !.verbraucht = @ + auf.menge]
      /\ rollensumme' = [rollensumme EXCEPT !.verbraucht = v]
      /\ UNCHANGED einkauf
  BY DEF VerbrauchBuchen, LBei, LLaeuft, NachVerbrauch
<1>2. LTypeOK /\ auf \in Auftrag /\ lEinzeln' = lEinzeln
  BY <1>1 DEF LInv, LTypeOK, LBeende
<1>3. auf.menge \in Nat /\ auf.mitRolle \in BOOLEAN /\ auf.nr \in Nummern
  BY <1>2 DEF Auftrag
<1>4. v \in Int
  BY <1>3, Zahlen
<1> HIDE DEF v
<1>5. /\ summe' \in Summen /\ bestand' \in Int
      /\ summe'.bewegt = summe.bewegt /\ summe'.gesetzt = summe.gesetzt
      /\ summe'.verbraucht = summe.verbraucht + auf.menge
  BY <1>1, <1>3, Zahlen DEF Summen
<1>6. /\ rollensumme' \in Rollensummen
      /\ rollensumme'.gesetzt = rollensumme.gesetzt /\ rollensumme'.verbraucht = v
  BY <1>1, <1>4, Zahlen DEF Rollensummen
<1>7. /\ rolle' \in Rolle
      /\ an => rolle'.rest = rolle.rest - auf.menge
      /\ (rolle'.status = "keine") <=> (rolle.status = "keine")
  BY <1>1, <1>3, Zahlen DEF Entnommen, Rolle, FolienRolleStatus
<1>8. /\ eintraege' \in [Nummern -> Eintrag]
      /\ \A n \in Nummern : eintraege'[n] # eintraege[n] => n = auf.nr
  BY <1>1, <1>2, <1>3 DEF LTypeOK, Eintrag
<1>9. ZeilenTyp'
  BY <1>1, <1>2, <1>5, <1>6, <1>7, <1>8 DEF ZeilenTyp, LTypeOK, einkauf
<1>10. BestandStimmt'
  <2>1. SUFFICES ASSUME lEinzeln
                 PROVE  /\ bestand' = summe'.bewegt + summe'.gesetzt - summe'.verbraucht
                        /\ rolle'.status # "keine" =>
                             rolle'.rest = rollensumme'.gesetzt - rollensumme'.verbraucht
    BY <1>2 DEF BestandStimmt
  <2>2. bestand' = summe'.bewegt + summe'.gesetzt - summe'.verbraucht
    BY <1>1, <1>3, <1>5, <2>1, Zahlen DEF LInv, BestandStimmt
  <2>3. CASE auf.mitRolle
    BY <1>1, <1>3, <1>6, <1>7, <2>1, <2>2, <2>3, Zahlen DEF LInv, BestandStimmt, v
  <2>4. CASE ~ auf.mitRolle
    BY <1>1, <1>6, <1>7, <2>1, <2>2, <2>4, Zahlen DEF LInv, BestandStimmt, v
  <2>5. QED
    BY <2>3, <2>4
<1>11. LieferungStimmt' /\ LBleibt
  BY <1>1, <1>2, OhneEinkauf DEF LInv
<1>12. Beruehrt(Schreibt(auf), Ueberschreibt(auf))
  BY <1>1, <1>8 DEF Beruehrt, Schreibt, Ueberschreibt, DerEintrag, einkauf
<1>13. QED
  BY <1>1, <1>9, <1>10, <1>11, <1>12, EndeGut

LEMMA EintragEntfernenGut ==
  ASSUME LagerAssumption, LInv, NEW a \in Anfragen, EintragEntfernen(a)
  PROVE  LInv'
<1> DEFINE auf == lAuftrag[a]
           alt == lEntitaet[a].eintrag
           zeile == eintraege[auf.nr]
           an == alt.mitRolle /\ rolle.status # "keine"
           v == IF zeile.mitRolle THEN rollensumme.verbraucht - zeile.menge ELSE rollensumme.verbraucht
<1>1. /\ LLaeuft(a) /\ auf.op = "entfernen" /\ LBeende(a)
      /\ bestand' = bestand + alt.menge
      /\ rolle' = IF an THEN Zurueckgegeben(alt.menge) ELSE rolle
      /\ eintraege' = [eintraege EXCEPT ![auf.nr] = KeinEintrag]
      /\ summe' = [summe EXCEPT !.verbraucht = @ - zeile.menge]
      /\ rollensumme' = [rollensumme EXCEPT !.verbraucht = v]
      /\ UNCHANGED einkauf
  BY DEF EintragEntfernen, LBei, LLaeuft
<1>2. /\ LTypeOK /\ auf \in Auftrag /\ lEinzeln' = lEinzeln
      /\ lEntitaet[a] \in Gelesen
  BY <1>1 DEF LInv, LTypeOK, LBeende
<1>3. auf.nr \in Nummern /\ alt \in Eintrag /\ zeile \in Eintrag
  BY <1>2 DEF Auftrag, Gelesen, LTypeOK
<1>4. alt.menge \in Nat /\ zeile.menge \in Nat /\ alt.mitRolle \in BOOLEAN /\ zeile.mitRolle \in BOOLEAN
  BY <1>3 DEF Eintrag
<1>5. v \in Int
  BY <1>4, Zahlen
<1>6. lEinzeln => alt = zeile
  BY <1>1 DEF LInv, LAktuell
<1>7. lEinzeln => alt.menge = zeile.menge /\ (alt.mitRolle <=> zeile.mitRolle)
  BY <1>6
<1> HIDE DEF v, zeile, alt
<1>8. /\ summe' \in Summen /\ bestand' \in Int
      /\ summe'.bewegt = summe.bewegt /\ summe'.gesetzt = summe.gesetzt
      /\ summe'.verbraucht = summe.verbraucht - zeile.menge
  BY <1>1, <1>4, Zahlen DEF Summen
<1>9. /\ rollensumme' \in Rollensummen
      /\ rollensumme'.gesetzt = rollensumme.gesetzt /\ rollensumme'.verbraucht = v
  BY <1>1, <1>5, Zahlen DEF Rollensummen
<1>10. /\ rolle' \in Rolle
       /\ an => rolle'.rest = rolle.rest + alt.menge
       /\ (rolle'.status = "keine") <=> (rolle.status = "keine")
  BY <1>1, <1>4, Zahlen DEF Zurueckgegeben, Rolle, FolienRolleStatus
<1>11. /\ eintraege' \in [Nummern -> Eintrag]
       /\ \A n \in Nummern : eintraege'[n] # eintraege[n] => n = auf.nr
  BY <1>1, <1>2, <1>3, LKonstanten DEF LTypeOK
<1>12. ZeilenTyp'
  BY <1>1, <1>2, <1>8, <1>9, <1>10, <1>11 DEF ZeilenTyp, LTypeOK, einkauf
<1>13. BestandStimmt'
  <2>1. SUFFICES ASSUME lEinzeln
                 PROVE  /\ bestand' = summe'.bewegt + summe'.gesetzt - summe'.verbraucht
                        /\ rolle'.status # "keine" =>
                             rolle'.rest = rollensumme'.gesetzt - rollensumme'.verbraucht
    BY <1>2 DEF BestandStimmt
  <2>2. bestand' = summe'.bewegt + summe'.gesetzt - summe'.verbraucht
    BY <1>1, <1>4, <1>7, <1>8, <2>1, Zahlen DEF LInv, BestandStimmt
  <2>3. CASE zeile.mitRolle
    BY <1>1, <1>4, <1>7, <1>9, <1>10, <2>1, <2>2, <2>3, Zahlen DEF LInv, BestandStimmt, v
  <2>4. CASE ~ zeile.mitRolle
    BY <1>1, <1>4, <1>7, <1>9, <1>10, <2>1, <2>2, <2>4, Zahlen DEF LInv, BestandStimmt, v
  <2>5. QED
    BY <2>3, <2>4
<1>14. LieferungStimmt' /\ LBleibt
  BY <1>1, <1>2, OhneEinkauf DEF LInv
<1>15. Beruehrt(Schreibt(auf), Ueberschreibt(auf))
  BY <1>1, <1>11 DEF Beruehrt, Schreibt, Ueberschreibt, DerEintrag, einkauf
<1>16. QED
  BY <1>1, <1>12, <1>13, <1>14, <1>15, EndeGut

LEMMA RolleSpeichernGut ==
  ASSUME LagerAssumption, LInv, NEW a \in Anfragen, RolleSpeichern(a)
  PROVE  LInv'
<1> DEFINE auf == lAuftrag[a]
           alt == lEntitaet[a].rolle
<1>1. /\ LLaeuft(a) /\ auf.op = "rolle" /\ LBeende(a)
      /\ rolle' = [rest |-> IF auf.menge # 0 THEN auf.menge ELSE alt.rest, status |-> auf.status]
      /\ rollensumme' = [rollensumme EXCEPT !.gesetzt =
                           IF auf.menge # 0 THEN auf.menge + rollensumme.verbraucht ELSE @]
      /\ UNCHANGED <<bestand, eintraege, summe, einkauf>>
  BY DEF RolleSpeichern, LBei, LLaeuft
<1>2. /\ LTypeOK /\ auf \in Auftrag /\ lEinzeln' = lEinzeln
      /\ lEntitaet[a] \in Gelesen
  BY <1>1 DEF LInv, LTypeOK, LBeende
<1>3. auf.menge \in Nat /\ alt \in Rolle /\ alt.rest \in Int
  BY <1>2 DEF Auftrag, Gelesen, Rolle
<1>4. lEinzeln => alt = rolle /\ rolle.status # "keine"
  BY <1>1 DEF LInv, LAktuell
<1>5. /\ rollensumme' \in Rollensummen
      /\ rollensumme'.verbraucht = rollensumme.verbraucht
      /\ rollensumme'.gesetzt = IF auf.menge # 0 THEN auf.menge + rollensumme.verbraucht ELSE rollensumme.gesetzt
  BY <1>1, <1>3, Zahlen DEF Rollensummen
<1>6. rolle'.rest = (IF auf.menge # 0 THEN auf.menge ELSE alt.rest) /\ rolle'.status = auf.status
  BY <1>1
<1>7. rolle' \in Rolle
  BY <1>1, <1>3 DEF LInv, Gilt, Rolle
<1>8. ZeilenTyp'
  BY <1>1, <1>2, <1>5, <1>7 DEF ZeilenTyp, LTypeOK, einkauf
<1>9. BestandStimmt'
  <2>1. SUFFICES ASSUME lEinzeln
                 PROVE  /\ bestand' = summe'.bewegt + summe'.gesetzt - summe'.verbraucht
                        /\ rolle'.rest = rollensumme'.gesetzt - rollensumme'.verbraucht
    BY <1>2 DEF BestandStimmt
  <2>2. bestand' = summe'.bewegt + summe'.gesetzt - summe'.verbraucht
    BY <1>1, <2>1 DEF LInv, BestandStimmt
  <2>3. CASE auf.menge # 0
    BY <1>3, <1>5, <1>6, <2>2, <2>3, Zahlen
  <2>4. CASE auf.menge = 0
    BY <1>3, <1>4, <1>5, <1>6, <2>1, <2>2, <2>4, Zahlen DEF LInv, BestandStimmt
  <2>5. QED
    BY <2>3, <2>4
<1>10. LieferungStimmt' /\ LBleibt
  BY <1>1, <1>2, OhneEinkauf DEF LInv
<1>11. Beruehrt(Schreibt(auf), Ueberschreibt(auf))
  BY <1>1 DEF Beruehrt, Schreibt, Ueberschreibt, einkauf
<1>12. QED
  BY <1>1, <1>8, <1>9, <1>10, <1>11, EndeGut

LEMMA RolleEntfernenGut ==
  ASSUME LagerAssumption, LInv, NEW a \in Anfragen, RolleEntfernen(a)
  PROVE  LInv'
<1>1. /\ LLaeuft(a) /\ lAuftrag[a].op = "rolleWeg" /\ LBeende(a)
      /\ rolle' = [rolle EXCEPT !.status = "keine"]
      /\ UNCHANGED <<bestand, eintraege, summe, rollensumme, einkauf>>
  BY DEF RolleEntfernen, LBei, LLaeuft
<1>2. LTypeOK /\ lEinzeln' = lEinzeln
  BY <1>1 DEF LInv, LBeende
<1>3. rolle' \in Rolle /\ rolle'.status = "keine"
  BY <1>1, Zahlen DEF Rolle
<1>4. ZeilenTyp'
  BY <1>1, <1>2, <1>3 DEF ZeilenTyp, LTypeOK, einkauf
<1>5. BestandStimmt'
  BY <1>1, <1>2, <1>3 DEF LInv, BestandStimmt
<1>6. LieferungStimmt' /\ LBleibt
  BY <1>1, <1>2, OhneEinkauf DEF LInv
<1>7. Beruehrt(Schreibt(lAuftrag[a]), Ueberschreibt(lAuftrag[a]))
  BY <1>1 DEF Beruehrt, Schreibt, Ueberschreibt, einkauf
<1>8. QED
  BY <1>1, <1>4, <1>5, <1>6, <1>7, EndeGut

-------------------------------------------------------------------------------
(***************************************************************************)
(* The steps that write a purchase order.                                  *)
(***************************************************************************)
LEMMA BestellungSpeichernGut ==
  ASSUME LagerAssumption, LInv, NEW a \in Anfragen, BestellungSpeichern(a)
  PROVE  LInv'
<1> DEFINE auf == lAuftrag[a]
           alt == lEntitaet[a].bestellung
           m == IF auf.menge # 0 THEN auf.menge ELSE alt.menge
           neu == [alt EXCEPT !.menge = m]
<1>1. /\ LLaeuft(a) /\ auf.op = "bestellung" /\ LBeende(a)
      /\ bestellungen' = [bestellungen EXCEPT ![auf.id] = neu]
      /\ UNCHANGED <<lager, geliefert, genehmigt>>
  BY DEF BestellungSpeichern, LBei, LLaeuft
<1>2. /\ LTypeOK /\ auf \in Auftrag /\ lEinzeln' = lEinzeln
      /\ lEntitaet[a] \in Gelesen
  BY <1>1 DEF LInv, LTypeOK, LBeende
<1>3. auf.menge \in Nat /\ auf.id \in Bestellungen /\ alt \in Bestellung /\ alt.menge \in Nat
  BY <1>2 DEF Auftrag, Gelesen, Bestellung
<1>4. m \in Nat
  BY <1>3
<1>5. /\ bestellungen[auf.id].status # "keine" /\ alt.ersteller = bestellungen[auf.id].ersteller
      /\ alt.status = "entwurf"
      /\ lEinzeln => alt = bestellungen[auf.id]
  BY <1>1 DEF LInv, Gilt, LAktuell
<1> HIDE DEF m
<1>6. /\ neu \in Bestellung
      /\ neu.status = "entwurf" /\ neu.ersteller = bestellungen[auf.id].ersteller
  BY <1>3, <1>4, <1>5 DEF Bestellung
<1> HIDE DEF neu
<1>7. /\ bestellungen' \in [Bestellungen -> Bestellung]
      /\ bestellungen'[auf.id] = neu
      /\ \A p \in Bestellungen : p # auf.id => bestellungen'[p] = bestellungen[p]
  BY <1>1, <1>2, <1>3, <1>6 DEF LTypeOK
<1>8. ZeilenTyp'
  BY <1>1, <1>2, <1>7 DEF ZeilenTyp, LTypeOK, lager
<1>9. BestandStimmt'
  BY <1>1, <1>2 DEF LInv, BestandStimmt, lager
<1>10. LBleibt
  BY <1>6, <1>7 DEF LBleibt
<1>11. LieferungStimmt'
  <2>1. SUFFICES ASSUME NEW p \in Bestellungen
                 PROVE  LET b == bestellungen'[p]
                        IN /\ b.status \in Freigegebene => b.freigegebenVon \notin {b.ersteller, Keiner}
                           /\ lEinzeln /\ b.status \in Freigegebene => b.menge = genehmigt[p]
                           /\ lEinzeln => geliefert[p] = IF b.status = "geliefert" THEN genehmigt[p] ELSE 0
    BY <1>1, <1>2 DEF LieferungStimmt
  <2>2. CASE p # auf.id
    BY <1>7, <2>2 DEF LInv, LieferungStimmt
  <2>3. CASE p = auf.id
    <3>1. lEinzeln => geliefert[p] = 0
      BY <1>5, <2>3 DEF LInv, LieferungStimmt
    <3>2. QED
      BY <1>6, <1>7, <2>3, <3>1 DEF Freigegebene
  <2>4. QED
    BY <2>2, <2>3
<1>12. Beruehrt(Schreibt(auf), Ueberschreibt(auf))
  BY <1>1, <1>7 DEF Beruehrt, Schreibt, Ueberschreibt, DieBestellung, lager
<1>13. QED
  BY <1>1, <1>8, <1>9, <1>10, <1>11, <1>12, EndeGut

LEMMA WechselSchreibenGut ==
  ASSUME LagerAssumption, LInv, NEW a \in Anfragen, WechselSchreiben(a)
  PROVE  LInv'
<1> DEFINE auf == lAuftrag[a]
           e == lEntitaet[a].bestellung
           alt == bestellungen[auf.id]
           liefert == auf.status = "geliefert"
           gibtFrei == auf.status = "freigegeben"
           neu == [status |-> auf.status, ersteller |-> alt.ersteller, menge |-> alt.menge,
                   freigegebenVon |-> IF gibtFrei THEN auf.wer ELSE alt.freigegebenVon]
<1>1. /\ LLaeuft(a) /\ auf.op = "wechsel" /\ LBeende(a)
      /\ alt.status = e.status
      /\ bestellungen' = [bestellungen EXCEPT ![auf.id] = neu]
      /\ bestand' = IF liefert THEN bestand + e.menge ELSE bestand
      /\ summe' = [summe EXCEPT !.bewegt = IF liefert THEN @ + e.menge ELSE @]
      /\ geliefert' = [geliefert EXCEPT ![auf.id] = IF liefert THEN @ + e.menge ELSE @]
      /\ genehmigt' = [genehmigt EXCEPT ![auf.id] = IF gibtFrei THEN alt.menge ELSE @]
      /\ UNCHANGED <<rolle, eintraege, rollensumme>>
  BY DEF WechselSchreiben, Gewonnen, LBei, LLaeuft
<1>2. /\ LTypeOK /\ auf \in Auftrag /\ lEinzeln' = lEinzeln
      /\ lEntitaet[a] \in Gelesen
  BY <1>1 DEF LInv, LTypeOK, LBeende
<1>3. auf.id \in Bestellungen /\ auf.wer \in Personen /\ alt \in Bestellung /\ e \in Bestellung
  BY <1>2 DEF Auftrag, Gelesen, LTypeOK
<1>4. e.menge \in Nat /\ alt.menge \in Nat
  BY <1>3 DEF Bestellung
<1>5. /\ auf.status \in erlaubt(alt.status)
      /\ gibtFrei => auf.wer # alt.ersteller
      /\ alt.status # "keine"
  BY <1>1 DEF LInv, Gilt
<1>6. lEinzeln => e.menge = alt.menge
  BY <1>1 DEF LInv, LAktuell
<1>7. /\ auf.status \in PurchaseOrderStatus
      /\ liefert => alt.status = "bestellt"
      /\ alt.status # "geliefert"
      /\ auf.status \in Freigegebene /\ ~ gibtFrei => alt.status \in Freigegebene
  BY <1>5 DEF erlaubt, PurchaseOrderStatus, Freigegebene
<1>8. neu \in Bestellung
  BY <1>3, <1>4, <1>7 DEF Bestellung
<1>9. /\ neu.status = auf.status /\ neu.ersteller = alt.ersteller /\ neu.menge = alt.menge
      /\ neu.freigegebenVon = IF gibtFrei THEN auf.wer ELSE alt.freigegebenVon
  OBVIOUS
<1> HIDE DEF neu
<1>10. /\ bestellungen' \in [Bestellungen -> Bestellung]
       /\ bestellungen'[auf.id] = neu
       /\ \A p \in Bestellungen : p # auf.id => bestellungen'[p] = bestellungen[p]
  BY <1>1, <1>2, <1>3, <1>8 DEF LTypeOK
<1>11. /\ geliefert' \in [Bestellungen -> Nat]
       /\ geliefert'[auf.id] = IF liefert THEN geliefert[auf.id] + e.menge ELSE geliefert[auf.id]
       /\ \A p \in Bestellungen : p # auf.id => geliefert'[p] = geliefert[p]
  BY <1>1, <1>2, <1>3, <1>4 DEF LTypeOK
<1>12. /\ genehmigt' \in [Bestellungen -> Nat]
       /\ genehmigt'[auf.id] = IF gibtFrei THEN alt.menge ELSE genehmigt[auf.id]
       /\ \A p \in Bestellungen : p # auf.id => genehmigt'[p] = genehmigt[p]
  BY <1>1, <1>2, <1>3, <1>4 DEF LTypeOK
<1>13. /\ summe' \in Summen /\ bestand' \in Int
       /\ summe'.gesetzt = summe.gesetzt /\ summe'.verbraucht = summe.verbraucht
       /\ summe'.bewegt = IF liefert THEN summe.bewegt + e.menge ELSE summe.bewegt
  BY <1>1, <1>4, Zahlen DEF Summen
<1>14. ZeilenTyp'
  BY <1>1, <1>2, <1>10, <1>11, <1>12, <1>13 DEF ZeilenTyp, LTypeOK
<1>15. BestandStimmt'
  BY <1>1, <1>2, <1>4, <1>13, Zahlen DEF LInv, BestandStimmt
<1>16. LBleibt
  BY <1>7, <1>9, <1>10 DEF LBleibt, PurchaseOrderStatus
<1>17. LieferungStimmt'
  <2>1. SUFFICES ASSUME NEW p \in Bestellungen
                 PROVE  LET b == bestellungen'[p]
                        IN /\ b.status \in Freigegebene => b.freigegebenVon \notin {b.ersteller, Keiner}
                           /\ lEinzeln /\ b.status \in Freigegebene => b.menge = genehmigt'[p]
                           /\ lEinzeln => geliefert'[p] = IF b.status = "geliefert" THEN genehmigt'[p] ELSE 0
    BY <1>2 DEF LieferungStimmt
  <2>2. CASE p # auf.id
    BY <1>10, <1>11, <1>12, <2>2 DEF LInv, LieferungStimmt
  <2>3. CASE p = auf.id
    <3>1. /\ alt.status \in Freigegebene => alt.freigegebenVon \notin {alt.ersteller, Keiner}
          /\ lEinzeln /\ alt.status \in Freigegebene => alt.menge = genehmigt[p]
          /\ lEinzeln => geliefert[p] = 0
      BY <1>7, <2>3 DEF LInv, LieferungStimmt
    <3>2. CASE gibtFrei
      BY <1>3, <1>5, <1>9, <1>10, <1>11, <1>12, <2>3, <3>1, <3>2 DEF LagerAssumption, Freigegebene
    <3>3. CASE liefert
      BY <1>4, <1>6, <1>7, <1>9, <1>10, <1>11, <1>12, <2>3, <3>1, <3>3 DEF Freigegebene
    <3>4. CASE ~ gibtFrei /\ ~ liefert
      BY <1>7, <1>9, <1>10, <1>11, <1>12, <2>3, <3>1, <3>4 DEF Freigegebene
    <3>5. QED
      BY <3>2, <3>3, <3>4
  <2>4. QED
    BY <2>2, <2>3
<1>18. Beruehrt(Schreibt(auf), Ueberschreibt(auf))
  BY <1>1, <1>9, <1>10 DEF Beruehrt, Schreibt, Ueberschreibt, DieBestellung
<1>19. QED
  BY <1>1, <1>14, <1>15, <1>16, <1>17, <1>18, EndeGut

LEMMA WechselVerlorenGut ==
  ASSUME LagerAssumption, LInv, NEW a \in Anfragen, WechselVerloren(a)
  PROVE  LInv'
<1>1. LLaeuft(a) /\ LBeende(a) /\ UNCHANGED <<lager, einkauf>> /\ lEinzeln' = lEinzeln
  BY DEF WechselVerloren, LBei, LLaeuft, LBeende
<1>2. ZeilenTyp' /\ BestandStimmt'
  BY <1>1 DEF LInv, LTypeOK, ZeilenTyp, BestandStimmt, lager, einkauf
<1>3. LieferungStimmt' /\ LBleibt
  BY <1>1, OhneEinkauf DEF LInv
<1>4. Beruehrt(Schreibt(lAuftrag[a]), Ueberschreibt(lAuftrag[a]))
  BY <1>1 DEF Beruehrt, lager, einkauf
<1>5. QED
  BY <1>1, <1>2, <1>3, <1>4, EndeGut

-------------------------------------------------------------------------------
(***************************************************************************)
(* The operations of one step.                                             *)
(***************************************************************************)
LEMMA SofortGut ==
  ASSUME LagerAssumption, LInv, NEW s, NEW u, Zaehle, UNCHANGED <<lEinzeln, lAnfragen>>,
         ZeilenTyp', LBleibt, Beruehrt(s, u), LieferungStimmt', BestandStimmt',
         \A b \in Anfragen : lEinzeln /\ LLaeuft(b) =>
           Ueberschreibt(lAuftrag[b]) \cap s = {} /\ u \cap Schreibt(lAuftrag[b]) = {}
  PROVE  LInv'
<1>1. /\ lOrt' = lOrt /\ lAuftrag' = lAuftrag /\ lEntitaet' = lEntitaet /\ lEinzeln' = lEinzeln
      /\ lZaehler < MaxLager /\ lZaehler' = lZaehler + 1
  BY DEF lAnfragen, Zaehle
<1>2. LTypeOK
  BY DEF LInv
<1>3. lZaehler' \in Nummern
  BY <1>1, <1>2 DEF LTypeOK, Nummern, LagerAssumption
<1>4. LTypeOK'
  BY <1>1, <1>2, <1>3 DEF LTypeOK, ZeilenTyp
<1>5. \A b \in Anfragen : Gilt(b)' /\ (lEinzeln => LAktuell(b)')
  BY <1>1, Fremd
<1>6. lEinzeln => LPaarweise'
  BY <1>1 DEF LInv, LPaarweise, LLaeuft
<1>7. QED
  BY <1>1, <1>4, <1>5, <1>6 DEF LInv

LEMMA recordMovementGut ==
  ASSUME LagerAssumption, LInv, recordMovement
  PROVE  LInv'
<1>1. /\ Zaehle /\ LVertraeglich({DasProdukt}, {})
      /\ UNCHANGED <<lEinzeln, rolle, eintraege, rollensumme, einkauf, lAnfragen>>
  BY DEF recordMovement
<1>2. PICK m \in Mengen : Zugang(m) \/ Abgang(m) \/ Inventur(m)
  BY DEF recordMovement
<1>3. m \in Nat
  BY LKonstanten
<1>4. /\ summe' \in Summen /\ bestand' \in Int
      /\ lEinzeln => bestand' = summe'.bewegt + summe'.gesetzt - summe'.verbraucht
  <2>1. lEinzeln => bestand = summe.bewegt + summe.gesetzt - summe.verbraucht
    BY DEF LInv, BestandStimmt
  <2>2. CASE Zugang(m)
    BY <1>3, <2>1, <2>2, Zahlen DEF Zugang, Summen
  <2>3. CASE Abgang(m)
    BY <1>3, <2>1, <2>3, Zahlen DEF Abgang, Summen
  <2>4. CASE Inventur(m)
    BY <1>3, <2>1, <2>4, Zahlen DEF Inventur, Summen
  <2>5. QED
    BY <1>2, <2>2, <2>3, <2>4
<1>5. ZeilenTyp'
  BY <1>1, <1>4 DEF LInv, LTypeOK, ZeilenTyp, einkauf
<1>6. BestandStimmt'
  BY <1>1, <1>4 DEF LInv, BestandStimmt
<1>7. LieferungStimmt' /\ LBleibt
  BY <1>1, OhneEinkauf DEF LInv
<1>8. Beruehrt({DasProdukt}, {})
  BY <1>1 DEF Beruehrt, einkauf
<1>9. \A b \in Anfragen : lEinzeln /\ LLaeuft(b) =>
        Ueberschreibt(lAuftrag[b]) \cap {DasProdukt} = {} /\ {} \cap Schreibt(lAuftrag[b]) = {}
  BY <1>1 DEF LVertraeglich, LLaeuft
<1>10. QED
  BY <1>1, <1>5, <1>6, <1>7, <1>8, <1>9, SofortGut

LEMMA createPurchaseOrderGut ==
  ASSUME LagerAssumption, LInv, createPurchaseOrder
  PROVE  LInv'
<1>1. Zaehle /\ UNCHANGED <<lEinzeln, lager, geliefert, genehmigt, lAnfragen>>
  BY DEF createPurchaseOrder
<1>2. PICK p \in Bestellungen, u \in Personen, m \in Mengen :
        /\ bestellungen[p].status = "keine"
        /\ bestellungen' = [bestellungen EXCEPT ![p] =
             [status |-> "entwurf", ersteller |-> u, freigegebenVon |-> Keiner, menge |-> m]]
  BY DEF createPurchaseOrder
<1> DEFINE s == {<<"bestellung", p>>}
<1>3. LTypeOK /\ m \in Nat
  BY LKonstanten DEF LInv
<1>4. [status |-> "entwurf", ersteller |-> u, freigegebenVon |-> Keiner, menge |-> m] \in Bestellung
  BY <1>3 DEF Bestellung, PurchaseOrderStatus
<1>5. /\ bestellungen' \in [Bestellungen -> Bestellung]
      /\ bestellungen'[p].status = "entwurf"
      /\ \A q \in Bestellungen : q # p => bestellungen'[q] = bestellungen[q]
  BY <1>2, <1>3, <1>4 DEF LTypeOK
<1>6. ZeilenTyp'
  BY <1>1, <1>3, <1>5 DEF LTypeOK, ZeilenTyp, lager
<1>7. BestandStimmt'
  BY <1>1 DEF LInv, BestandStimmt, lager
<1>8. LieferungStimmt'
  <2>1. SUFFICES ASSUME NEW q \in Bestellungen
                 PROVE  LET b == bestellungen'[q]
                        IN /\ b.status \in Freigegebene => b.freigegebenVon \notin {b.ersteller, Keiner}
                           /\ lEinzeln /\ b.status \in Freigegebene => b.menge = genehmigt[q]
                           /\ lEinzeln => geliefert[q] = IF b.status = "geliefert" THEN genehmigt[q] ELSE 0
    BY <1>1 DEF LieferungStimmt
  <2>2. CASE q # p
    BY <1>5, <2>2 DEF LInv, LieferungStimmt
  <2>3. CASE q = p
    <3>1. lEinzeln => geliefert[p] = 0
      BY <1>2 DEF LInv, LieferungStimmt
    <3>2. QED
      BY <1>5, <2>3, <3>1 DEF Freigegebene
  <2>4. QED
    BY <2>2, <2>3
<1>9. LBleibt
  BY <1>2, <1>5 DEF LBleibt
<1>10. Beruehrt(s, s)
  BY <1>1, <1>5 DEF Beruehrt, lager
<1>11. \A b \in Anfragen : lEinzeln /\ LLaeuft(b) =>
         Ueberschreibt(lAuftrag[b]) \cap s = {} /\ s \cap Schreibt(lAuftrag[b]) = {}
  <2>1. SUFFICES ASSUME NEW b \in Anfragen, LLaeuft(b)
                 PROVE  Ueberschreibt(lAuftrag[b]) \cap s = {} /\ s \cap Schreibt(lAuftrag[b]) = {}
    OBVIOUS
  <2>2. ~ (lAuftrag[b].op \in {"bestellung", "wechsel"} /\ lAuftrag[b].id = p)
    BY <1>2, <2>1 DEF LInv, Gilt
  <2>3. QED
    BY <2>2 DEF Ueberschreibt, Schreibt, DasProdukt, DieRolle, DerEintrag, DieBestellung
<1>12. QED
  BY <1>1, <1>6, <1>7, <1>8, <1>9, <1>10, <1>11, SofortGut

-------------------------------------------------------------------------------
(***************************************************************************)
(* Lager: theorems.                                                        *)
(***************************************************************************)
LEMMA LInitGut ==
  ASSUME LagerAssumption, NEW n \in Nummern, LInitMit(n), lEinzeln \in BOOLEAN
  PROVE  LInv
<1>1. Mengen \subseteq Nat /\ 0 \in Nummern /\ LRuhe \in Auftrag /\ Nichts \in Gelesen /\ KeinEintrag \in Eintrag
  BY LKonstanten
<1>2. \A b \in AnfangsBestellungen :
        /\ b \in Bestellung /\ b.menge \in Nat /\ b.status # "geliefert"
        /\ b.status \in Freigegebene => b.freigegebenVon \notin {b.ersteller, Keiner}
  BY LKonstanten DEF AnfangsBestellungen, Bestellung, PurchaseOrderStatus, Freigegebene
<1>3. rolle \in Rolle /\ rolle.rest \in Int
  BY <1>1, LKonstanten DEF LInitMit, NeueRolle, Rolle
<1>4. \A p \in Bestellungen : bestellungen[p] \in AnfangsBestellungen
  BY DEF LInitMit
<1>5. /\ bestellungen \in [Bestellungen -> Bestellung]
      /\ geliefert \in [Bestellungen -> Nat] /\ genehmigt \in [Bestellungen -> Nat]
  BY <1>2, <1>4 DEF LInitMit
<1>6. summe \in Summen /\ rollensumme \in Rollensummen
  BY <1>3 DEF LInitMit, Summen, Rollensummen
<1>7. LTypeOK
  BY <1>1, <1>3, <1>5, <1>6 DEF LInitMit, LTypeOK
<1>8. LieferungStimmt
  BY <1>2, <1>4 DEF LInitMit, LieferungStimmt
<1>9. BestandStimmt
  BY <1>3 DEF LInitMit, BestandStimmt
<1>10. \A a \in Anfragen : ~ LLaeuft(a)
  BY DEF LInitMit, LLaeuft
<1>11. QED
  BY <1>7, <1>8, <1>9, <1>10 DEF LInv, Gilt, LAktuell, LPaarweise

LEMMA LNextGut ==
  ASSUME LagerAssumption, LInv, [LNext]_lVars
  PROVE  LInv'
<1>1. CASE UNCHANGED lVars
  BY <1>1 DEF LInv, LTypeOK, LieferungStimmt, BestandStimmt, Gilt, LAktuell, LPaarweise, LLaeuft, Ueberschreibt,
              Schreibt, DasProdukt, DieRolle, DerEintrag, DieBestellung, lVars, lager, einkauf, lAnfragen
<1>2. ASSUME NEW a \in Anfragen, Beginn(a)
      PROVE  LInv'
  BY <1>2, LBeginnGut
<1>3. ASSUME NEW a \in Anfragen, Schluss(a)
      PROVE  LInv'
  BY <1>3, ProduktSpeichernGut, VerbrauchBuchenGut, EintragEntfernenGut, RolleSpeichernGut, RolleEntfernenGut,
     BestellungSpeichernGut, WechselSchreibenGut, WechselVerlorenGut DEF Schluss
<1>4. QED
  BY <1>1, <1>2, <1>3, recordMovementGut, createPurchaseOrderGut DEF LNext

\* The invariant holds in every state.
THEOREM InvarianteLager ==
  ASSUME LagerAssumption
  PROVE  LSpec => []LInv
<1>1. LInit => LInv
  BY LInitGut, LKonstanten DEF LInit
<1>2. LInv /\ [LNext]_lVars => LInv'
  BY LNextGut
<1>3. QED
  BY <1>1, <1>2, PTL DEF LSpec

\* The variables keep their types.
THEOREM TypkorrektLager ==
  ASSUME LagerAssumption
  PROVE  LSpec => []LTypeOK
<1>1. LInv => LTypeOK
  BY DEF LInv
<1>2. QED
  BY <1>1, InvarianteLager, PTL

\* Where nobody writes a row that a request under way overwrites, the stock and the rest of
\* the roll are what the movements, the entries and the corrections by hand make of them
\* (recordMovement, changePurchaseOrderStatus and OrderMaterialService trust nothing they
\* have read).
THEOREM BestandBewiesen ==
  ASSUME LagerAssumption
  PROVE  LSpec => []BestandStimmt
<1>1. LInv => BestandStimmt
  BY DEF LInv
<1>2. QED
  BY <1>1, InvarianteLager, PTL

\* Nothing is ordered that its author approved, however requests overlap; under the
\* restriction, what was approved is delivered, and once (changePurchaseOrderStatus).
THEOREM LieferungBewiesen ==
  ASSUME LagerAssumption
  PROVE  LSpec => []LieferungStimmt
<1>1. LInv => LieferungStimmt
  BY DEF LInv
<1>2. QED
  BY <1>1, InvarianteLager, PTL

-------------------------------------------------------------------------------
(***************************************************************************)
(* The composition: a step of the one leaves the two others alone.         *)
(***************************************************************************)
LEMMA AuftragInit ==
  ASSUME MCInit
  PROVE  EInv /\ ZInv /\ LInv
<1>1. EInv
  BY InitGeordnet DEF MCInit, Init
<1>2. ZInv
  BY ZInitGut, AuftragAssumption DEF MCInit, AnzahlungenRuhen
<1>3. LInv
  <2>1. 0 \in Nummern /\ 1 \in Nummern /\ MaxLager \in Nummern
    BY AuftragAssumption DEF Nummern, LagerAssumption
  <2>2. LInitMit(MaxLager) \/ LInitMit(0) \/ LInitMit(1)
    BY DEF MCInit, LagerRuht, LagerInit
  <2>3. lEinzeln \in BOOLEAN
    BY DEF MCInit, LagerRuht, LagerInit
  <2> QED
    BY <2>1, <2>2, <2>3, LInitGut, AuftragAssumption
<1> QED
  BY <1>1, <1>2, <1>3

\* The invariants of the three hold side by side in what the run auftrag checks.
THEOREM InvarianteAuftrag ==
  ASSUME Einzeln
  PROVE  MCSpec => [](EInv /\ ZInv /\ LInv)
<1>1. MCInit => EInv /\ ZInv /\ LInv
  BY AuftragInit
<1>2. EInv /\ ZInv /\ LInv /\ [MCNext]_<<vars, zVars, lVars>> => (EInv /\ ZInv /\ LInv)'
  <2>1. SUFFICES ASSUME EInv, ZInv, LInv, [MCNext]_<<vars, zVars, lVars>>
                 PROVE  EInv' /\ ZInv' /\ LInv'
    OBVIOUS
  <2>2. [Next]_vars /\ [ZNext]_zVars /\ [LNext]_lVars
    BY <2>1 DEF MCNext
  <2> QED
    BY <2>1, <2>2, NextGeordnet, ZNextGut, LNextGut, AuftragAssumption
<1> QED
  BY <1>1, <1>2, PTL DEF MCSpec

\* Every variable keeps its type in the composition.
THEOREM TypenAuftrag ==
  ASSUME Einzeln
  PROVE  MCSpec => []Typen
<1>1. EInv /\ ZInv /\ LInv => Typen
  BY DEF EInv, IInv, ZInv, LInv, Typen
<1> QED
  BY <1>1, InvarianteAuftrag, PTL
===============================================================================
