---------------------------- MODULE MahnwesenProofs ----------------------------
(***************************************************************************)
(* Theorems about Mahnwesen for every number of invoices, requests and     *)
(* runs of the daily job, all fees and bounds, all of them overlapping.    *)
(* What they need is that no request saves an open invoice over itself     *)
(* (NieOffen): changeStatus saves the level as it has read it, and would   *)
(* take a claim back.                                                      *)
(***************************************************************************)
EXTENDS Mahnwesen, TLAPS

NieOffen == "offen" \notin Zielstatus

-------------------------------------------------------------------------------
(***************************************************************************)
(* The inductive invariant.                                                *)
(***************************************************************************)
Stufe(a) == entitaet[a].mahnstufe

Verschickt(a, i) == Bei(a, "mahnung", "mail") /\ auftrag[a].id = i

\* An actor that has read i and has neither given up nor mailed.
Haelt(a, i) == (Bei(a, "mahnung", "beanspruchen") \/ Bei(a, "mahnung", "mail")) /\ auftrag[a].id = i

\* The levels from which i may still be dunned today: those that were read, and the one
\* that whoever comes next may read.
Tagesstufen(i) ==
  {Stufe(a) : a \in {x \in Akteure : Haelt(x, i)}} \cup
  {n \in {belege[i].mahnstufe} : belege[i].versendetAm # "heute"}

\* What the customer has got, or a crash has cut off.
Erhalten(i) == {n \in Stufen : versandt[i][n] > 0} \cup verloren[i]

\* An open invoice is dunned from one level a day.  While a mail is under way the stored
\* level is the one it claims, and below the last level it is the only mail and the first of
\* the day.  Once one was mailed, nobody is left who could claim what is stored.
Stand(i) ==
  belege[i].status = "offen" =>
    /\ \A v, w \in Tagesstufen(i) : v = w
    /\ \A a \in Akteure : Verschickt(a, i) =>
         /\ belege[i].mahnstufe = neueStufe(Stufe(a))
         /\ 1 .. Stufe(a) = Erhalten(i)
         /\ Stufe(a) < 3 => heutige[i] = 0
    /\ \A a, b \in Akteure : Verschickt(a, i) /\ Verschickt(b, i) /\ Stufe(a) < 3 => a = b
    /\ ~ Imversand(i) => 1 .. belege[i].mahnstufe = Erhalten(i)
    /\ heutige[i] > 0 /\ belege[i].mahnstufe < 3 => belege[i].mahnstufe \notin Tagesstufen(i)
    /\ belege[i].mahnstufe < 3 => heutige[i] <= 1
    /\ \A n \in Stufen \ {3} : versandt[i][n] <= 1

\* What an actor holds and will write.
Kopie(a) ==
  /\ auftrag[a].op = "status" => auftrag[a].status # "offen"
  /\ Bei(a, "status", "schreiben") => entitaet[a].status # "offen"
  /\ Haelt(a, auftrag[a].id) => entitaet[a].versendetAm # "heute"

\* The list of a run is of today, and what it is about to mail is due: whatever happened
\* since the list was read, the level is still the one of the list.
Lauffrist(l) ==
  /\ ort[l] \in {"bereit", "laden"} => liste[l] = {}
  /\ \A e \in liste[l] :
       /\ e.tage = tage[e.id]
       /\ e.versendetAm # "heute" /\ belege[e.id].status = "offen" =>
            \A v \in Tagesstufen(e.id) : v = e.mahnstufe
  /\ LET i == auftrag[l].id
     IN /\ Bei(l, "mahnung", "lesen") /\ belege[i].status = "offen" =>
             \A v \in Tagesstufen(i) : v < faelligeStufe(tage[i])
        /\ Haelt(l, i) => Stufe(l) < faelligeStufe(tage[i])

IInv ==
  /\ TypeOK
  /\ \A i \in Belege : Stand(i)
  /\ \A a \in Akteure : Kopie(a)
  /\ \A l \in Laeufe : Lauffrist(l)

-------------------------------------------------------------------------------
(***************************************************************************)
(* Frames.                                                                 *)
(***************************************************************************)
\* Only a moves among the actors.
Nur(a) ==
  \A b \in Akteure \ {a} : ort'[b] = ort[b] /\ auftrag'[b] = auftrag[b] /\ entitaet'[b] = entitaet[b]

NurListe(a) == \A l \in Laeufe \ {a} : liste'[l] = liste[l]

\* No level is added to those from which an open invoice may be dunned today.
Schrumpft(i) ==
  belege'[i].status = "offen" =>
    belege[i].status = "offen" /\ Tagesstufen(i)' \subseteq Tagesstufen(i)

\* A row is closed, or gets nothing but the date of today.
Harmlos(i) ==
  belege'[i].status = "offen" =>
    /\ belege[i].status = "offen"
    /\ belege'[i].mahnstufe = belege[i].mahnstufe
    /\ belege'[i].versendetAm \in {belege[i].versendetAm, "heute"}

LEMMA Konstanten ==
  /\ Stufen = 1 .. 3
  /\ Fristen \in [Stufen -> Nat \ {0}] /\ Fristen[1] \in Nat /\ Fristen[2] \in Nat /\ Fristen[3] \in Nat
  /\ Zielstatus \subseteq Status
  /\ Ruhe.id \in Belege
  /\ Ruhe.op = "ruhe" /\ Ruhe.status = "offen"
BY MahnwesenAssumption DEF FristenGueltig, Stufen, Ruhe

LEMMA Stufenrechnung ==
  /\ \A n \in 0 .. 3 : neueStufe(n) \in Stufen /\ (n < 3 => neueStufe(n) = n + 1)
  /\ neueStufe(3) = 3
  /\ \A t \in Nat : faelligeStufe(t) \in 0 .. 3
  /\ \A n \in 0 .. 2 : Mehr(n) \in 1 .. 2
BY Konstanten DEF neueStufe, faelligeStufe, Mehr, Stufen

\* A row stays one when a column is written.
LEMMA Spalten ==
  ASSUME NEW b \in Beleg
  PROVE  /\ \A s \in Status : [b EXCEPT !.status = s] \in Beleg /\ [b EXCEPT !.status = s].status = s
         /\ \A d \in Datum : [b EXCEPT !.versendetAm = d] \in Beleg
         /\ \A n \in 0 .. 3, d \in Datum : [b EXCEPT !.mahnstufe = n, !.versendetAm = d] \in Beleg
         /\ [b EXCEPT !.korrigiert = TRUE] \in Beleg
BY DEF Beleg

\* What does not touch i, and what closes or dates it, keeps its invariant.
LEMMA StandBleibt ==
  ASSUME TypeOK, NEW i \in Belege, NEW a \in Akteure, Stand(i), Nur(a), Harmlos(i),
         versandt'[i] = versandt[i], heutige'[i] = heutige[i], verloren'[i] = verloren[i],
         ~ Verschickt(a, i), ~ Haelt(a, i)'
  PROVE  Stand(i)' /\ Schrumpft(i)
<1>1. \A b \in Akteure : b # a => (Haelt(b, i)' <=> Haelt(b, i)) /\ (Verschickt(b, i)' <=> Verschickt(b, i))
                               /\ Stufe(b)' = Stufe(b)
  BY DEF Nur, Haelt, Verschickt, Bei, Stufe
<1>2. ~ Verschickt(a, i)'
  BY DEF Haelt, Verschickt
<1>3. Schrumpft(i)
  BY <1>1 DEF Schrumpft, Harmlos, Tagesstufen
<1>4. Erhalten(i)' = Erhalten(i)
  BY DEF Erhalten
<1>5. (Imversand(i) <=> \E b \in Akteure : Verschickt(b, i))
      /\ (Imversand(i)' <=> \E b \in Akteure : Verschickt(b, i)')
  BY DEF Imversand, Verschickt
<1>6. Imversand(i)' <=> Imversand(i)
  BY <1>1, <1>2, <1>5
<1>7. SUFFICES ASSUME belege'[i].status = "offen" PROVE Stand(i)'
  BY <1>3 DEF Stand
<1>8. /\ belege[i].status = "offen" /\ belege'[i].mahnstufe = belege[i].mahnstufe
      /\ Tagesstufen(i)' \subseteq Tagesstufen(i)
  BY <1>3, <1>7 DEF Harmlos, Schrumpft
<1>9. (\A v, w \in Tagesstufen(i) : v = w)'
  BY <1>8 DEF Stand
<1>10. (\A b \in Akteure : Verschickt(b, i) =>
         /\ belege[i].mahnstufe = neueStufe(Stufe(b))
         /\ 1 .. Stufe(b) = Erhalten(i)
         /\ Stufe(b) < 3 => heutige[i] = 0)'
  BY <1>1, <1>2, <1>4, <1>8 DEF Stand
<1>11. (\A b, c \in Akteure : Verschickt(b, i) /\ Verschickt(c, i) /\ Stufe(b) < 3 => b = c)'
  BY <1>1, <1>2, <1>8 DEF Stand
<1>12. (~ Imversand(i) => 1 .. belege[i].mahnstufe = Erhalten(i))'
  BY <1>4, <1>6, <1>8 DEF Stand
<1>13. (heutige[i] > 0 /\ belege[i].mahnstufe < 3 => belege[i].mahnstufe \notin Tagesstufen(i))'
  BY <1>8 DEF Stand
<1>14. (\A n \in Stufen \ {3} : versandt[i][n] <= 1)'
  BY <1>8 DEF Stand
<1>15. (belege[i].mahnstufe < 3 => heutige[i] <= 1)'
  BY <1>8 DEF Stand
<1> QED
  BY <1>9, <1>10, <1>11, <1>12, <1>13, <1>14, <1>15 DEF Stand

\* A run that is not touched keeps to its dates.
LEMMA FristBleibt ==
  ASSUME TypeOK, NEW l \in Laeufe, Lauffrist(l), \A i \in Belege : Schrumpft(i), tage' = tage,
         ort'[l] = ort[l], auftrag'[l] = auftrag[l], entitaet'[l] = entitaet[l], liste'[l] = liste[l]
  PROVE  Lauffrist(l)'
<1>1. l \in Akteure /\ auftrag[l].id \in Belege /\ \A e \in liste[l] : e.id \in Belege
  BY DEF TypeOK, Akteure, Eintrag
<1>2. /\ Bei(l, "mahnung", "lesen")' <=> Bei(l, "mahnung", "lesen")
      /\ Haelt(l, auftrag[l].id)' <=> Haelt(l, auftrag[l].id)
      /\ Stufe(l)' = Stufe(l)
  BY DEF Bei, Haelt, Stufe
<1>3. (faelligeStufe(tage[auftrag[l].id]))' = faelligeStufe(tage[auftrag[l].id])
  BY DEF faelligeStufe
<1>4. (\A e \in liste[l] :
       /\ e.tage = tage[e.id]
       /\ e.versendetAm # "heute" /\ belege[e.id].status = "offen" =>
            \A v \in Tagesstufen(e.id) : v = e.mahnstufe)'
  BY <1>1 DEF Lauffrist, Schrumpft
<1>5. (Bei(l, "mahnung", "lesen") /\ belege[auftrag[l].id].status = "offen" =>
         \A v \in Tagesstufen(auftrag[l].id) : v < faelligeStufe(tage[auftrag[l].id]))'
  BY <1>1, <1>2, <1>3 DEF Lauffrist, Schrumpft
<1> QED
  BY <1>2, <1>3, <1>4, <1>5 DEF Lauffrist

LEMMA KopieBleibt ==
  ASSUME NEW b, Kopie(b), ort'[b] = ort[b], auftrag'[b] = auftrag[b], entitaet'[b] = entitaet[b]
  PROVE  Kopie(b)'
BY DEF Kopie, Bei, Haelt

\* A run that goes on with what is left of its list keeps to its dates.
LEMMA RestDerListe ==
  ASSUME TypeOK, NEW l \in Laeufe, Lauffrist(l), \A i \in Belege : Schrumpft(i), tage' = tage,
         ort'[l] = "liste", liste'[l] \subseteq liste[l]
  PROVE  Lauffrist(l)'
<1>1. \A e \in liste[l] : e.id \in Belege
  BY DEF TypeOK, Eintrag
<1>2. (\A e \in liste[l] :
       /\ e.tage = tage[e.id]
       /\ e.versendetAm # "heute" /\ belege[e.id].status = "offen" =>
            \A v \in Tagesstufen(e.id) : v = e.mahnstufe)'
  BY <1>1 DEF Lauffrist, Schrumpft
<1> QED
  BY <1>2 DEF Lauffrist, Haelt, Bei

\* Everything but reading for a Mahnung and mailing one: the acting a holds nothing after it.
LEMMA Ruhig ==
  ASSUME IInv, NEW a \in Akteure, Nur(a), \A i \in Belege : Harmlos(i),
         UNCHANGED geschichte, ~ Bei(a, "mahnung", "mail"),
         ~ Bei(a, "mahnung", "beanspruchen")', ~ Bei(a, "mahnung", "mail")'
  PROVE  \A i \in Belege : Stand(i)' /\ Schrumpft(i)
<1>1. SUFFICES ASSUME NEW i \in Belege PROVE Stand(i)' /\ Schrumpft(i)
  OBVIOUS
<1>2. ~ Verschickt(a, i) /\ ~ Haelt(a, i)'
  BY DEF Verschickt, Haelt
<1>3. versandt'[i] = versandt[i] /\ heutige'[i] = heutige[i] /\ verloren'[i] = verloren[i]
  BY DEF geschichte
<1> QED
  BY <1>2, <1>3, StandBleibt DEF IInv

\* The other actors and runs, whatever a does to the rows.
LEMMA AndereBleiben ==
  ASSUME IInv, NEW a \in Akteure, Nur(a), NurListe(a), \A i \in Belege : Schrumpft(i), tage' = tage
  PROVE  /\ \A b \in Akteure \ {a} : Kopie(b)'
         /\ \A l \in Laeufe \ {a} : Lauffrist(l)'
<1>1. \A b \in Akteure \ {a} : Kopie(b)'
  BY KopieBleibt DEF IInv, Nur
<1>2. ASSUME NEW l \in Laeufe \ {a} PROVE Lauffrist(l)'
  BY <1>2, FristBleibt DEF IInv, Nur, NurListe, Akteure
<1> QED
  BY <1>1, <1>2

LEMMA Zusammen ==
  ASSUME IInv, NEW a \in Akteure, Nur(a), NurListe(a), tage' = tage,
         TypeOK', \A i \in Belege : Stand(i)' /\ Schrumpft(i), Kopie(a)',
         a \in Laeufe => Lauffrist(a)'
  PROVE  IInv'
BY AndereBleiben DEF IInv

LEMMA BeendeTyp ==
  ASSUME TypeOK, NEW a \in Akteure, Beende(a)
  PROVE  /\ ort' \in [Akteure -> Orte]
         /\ auftrag' \in [Akteure -> [op : Operationen, id : Belege, status : Status]]
         /\ entitaet' \in [Akteure -> Beleg]
         /\ ort'[a] \in {"liste", "bereit"} /\ (a \in Laeufe => ort'[a] = "liste")
         /\ auftrag'[a].op = "ruhe"
         /\ Nur(a) /\ NurListe(a) /\ UNCHANGED <<tage, liste, zaehler>>
<1>1. Gestellt \in Beleg
  BY DEF Gestellt, Beleg, Status, Datum
<1>2. Ruhe \in [op : Operationen, id : Belege, status : Status]
  BY Konstanten DEF Ruhe, Operationen, Status
<1> QED
  BY <1>1, <1>2, Konstanten DEF TypeOK, Beende, Orte, Nur, NurListe

LEMMA WeiterTyp ==
  ASSUME TypeOK, NEW a \in Akteure, NEW o \in Orte, NEW b \in Beleg, Weiter(a, o, b)
  PROVE  /\ ort' \in [Akteure -> Orte] /\ ort'[a] = o
         /\ entitaet' \in [Akteure -> Beleg] /\ entitaet'[a] = b
         /\ auftrag'[a] = auftrag[a]
         /\ Nur(a) /\ NurListe(a) /\ UNCHANGED <<tage, auftrag, liste, zaehler>>
BY DEF TypeOK, Weiter, Nur, NurListe

LEMMA LehneabGut ==
  ASSUME IInv, NEW a \in Akteure, Lehneab(a), ~ Bei(a, "mahnung", "mail")
  PROVE  IInv'
<1>1. TypeOK'
  BY BeendeTyp DEF Lehneab, IInv, TypeOK, geschichte
<1>2. \A i \in Belege : Harmlos(i)
  BY DEF Lehneab, Harmlos
<1>3. \A i \in Belege : Stand(i)' /\ Schrumpft(i)
  BY <1>2, BeendeTyp, Ruhig DEF Lehneab, IInv, Bei
<1>4. Kopie(a)'
  BY BeendeTyp DEF Lehneab, IInv, Kopie, Bei, Haelt
<1>5. a \in Laeufe => Lauffrist(a)'
  BY <1>3, BeendeTyp, RestDerListe DEF Lehneab, IInv
<1> QED
  BY <1>1, <1>3, <1>4, <1>5, BeendeTyp, Zusammen DEF Lehneab, IInv

\* Which rows a harmless write leaves in place.
LEMMA HarmlosesSchreiben ==
  ASSUME IInv, NEW a \in Akteure, Beende(a), UNCHANGED geschichte, ~ Bei(a, "mahnung", "mail"),
         belege' \in [Belege -> Beleg], \A i \in Belege : Harmlos(i)
  PROVE  IInv'
<1>1. TypeOK'
  BY BeendeTyp DEF IInv, TypeOK, geschichte
<1>3. \A i \in Belege : Stand(i)' /\ Schrumpft(i)
  BY BeendeTyp, Ruhig DEF IInv, Bei
<1>4. Kopie(a)'
  BY BeendeTyp DEF IInv, Kopie, Bei, Haelt
<1>5. a \in Laeufe => Lauffrist(a)'
  BY <1>3, BeendeTyp, RestDerListe DEF IInv
<1> QED
  BY <1>1, <1>3, <1>4, <1>5, BeendeTyp, Zusammen DEF IInv

-------------------------------------------------------------------------------
(***************************************************************************)
(* The requests beside the dunning.                                        *)
(***************************************************************************)
LEMMA NimmGut ==
  ASSUME IInv, NieOffen, NEW a \in Anfragen, Beginnt(a)
  PROVE  IInv'
<1>1. PICK op \in {"mahnung", "email", "status"}, id \in Belege, z \in Zielstatus \cup {"offen"} :
        Nimm(a, op, id, z) /\ (op = "status" => z # "offen")
  BY DEF Beginnt, NimmMahnung, NimmEmail, NimmStatus, NieOffen
<1>2. a \in Akteure /\ a \notin Laeufe
  BY MahnwesenAssumption DEF Akteure
<1>3. z \in Status
  BY Konstanten DEF Status
<1>4. TypeOK'
  BY <1>1, <1>2, <1>3 DEF IInv, TypeOK, Nimm, Orte, Operationen, geschichte
<1>5. Nur(a) /\ NurListe(a) /\ UNCHANGED <<belege, tage, geschichte>>
  BY <1>1, <1>2 DEF IInv, TypeOK, Nimm, Nur, NurListe
<1>6. ort[a] = "bereit" /\ ort'[a] = "lesen" /\ auftrag'[a].op = op /\ auftrag'[a].status = z
  BY <1>1, <1>2 DEF IInv, TypeOK, Nimm
<1>7. \A i \in Belege : Stand(i)' /\ Schrumpft(i)
  BY <1>2, <1>5, <1>6, Ruhig DEF Bei, Harmlos
<1>8. Kopie(a)'
  BY <1>1, <1>6 DEF Kopie, Bei, Haelt
<1> QED
  BY <1>2, <1>4, <1>5, <1>7, <1>8, Zusammen

LEMMA EmailLesenGut ==
  ASSUME IInv, NEW a \in Anfragen, EmailLesen(a)
  PROVE  IInv'
<1> DEFINE b == belege[auftrag[a].id]
<1>1. a \in Akteure /\ a \notin Laeufe /\ b \in Beleg /\ "merken" \in Orte
  BY MahnwesenAssumption DEF Akteure, IInv, TypeOK, Orte
<1>2. CASE Lehneab(a)
  BY <1>1, <1>2, LehneabGut DEF EmailLesen, Bei
<1>3. CASE Weiter(a, "merken", b) /\ UNCHANGED <<belege, geschichte>>
  <2>1. TypeOK'
    BY <1>1, <1>3, WeiterTyp DEF IInv, TypeOK, geschichte
  <2>2. Bei(a, "email", "lesen") /\ ort'[a] = "merken" /\ auftrag'[a] = auftrag[a]
    BY <1>1, <1>3, WeiterTyp DEF IInv, EmailLesen
  <2>3. Nur(a) /\ NurListe(a) /\ tage' = tage
    BY <1>1, <1>3, WeiterTyp DEF IInv
  <2>4. \A i \in Belege : Stand(i)' /\ Schrumpft(i)
    BY <1>1, <1>3, <2>2, <2>3, Ruhig DEF Bei, Harmlos
  <2>5. Kopie(a)'
    BY <2>2 DEF Kopie, Bei, Haelt
  <2> QED
    BY <1>1, <2>1, <2>3, <2>4, <2>5, Zusammen
<1> QED
  BY <1>2, <1>3 DEF EmailLesen

LEMMA EmailMerkenGut ==
  ASSUME IInv, NEW a \in Anfragen, EmailMerken(a)
  PROVE  IInv'
<1>1. a \in Akteure /\ Beende(a) /\ UNCHANGED geschichte /\ Bei(a, "email", "merken")
  BY DEF Akteure, EmailMerken
<1>2. belege' \in [Belege -> Beleg]
  <2>1. auftrag[a].id \in Belege /\ belege[auftrag[a].id] \in Beleg /\ "heute" \in Datum
    BY <1>1 DEF IInv, TypeOK, Datum
  <2>2. [belege[auftrag[a].id] EXCEPT !.versendetAm = "heute"] \in Beleg
    BY <2>1, Spalten
  <2> QED
    BY <2>2 DEF IInv, TypeOK, EmailMerken
<1>3. \A i \in Belege : Harmlos(i)
  BY DEF IInv, TypeOK, EmailMerken, Beleg, Harmlos
<1> QED
  BY <1>1, <1>2, <1>3, HarmlosesSchreiben DEF Bei

LEMMA StatusLesenGut ==
  ASSUME IInv, NEW a \in Anfragen, StatusLesen(a)
  PROVE  IInv'
<1> DEFINE b == belege[auftrag[a].id]
           neu == [b EXCEPT !.status = auftrag[a].status]
<1>1. a \in Akteure /\ a \notin Laeufe /\ neu \in Beleg /\ neu.status = auftrag[a].status /\ "schreiben" \in Orte
  <2>1. a \in Akteure /\ a \notin Laeufe
    BY MahnwesenAssumption DEF Akteure
  <2>2. b \in Beleg /\ auftrag[a].status \in Status
    BY <2>1 DEF IInv, TypeOK
  <2> QED
    BY <2>1, <2>2, Spalten DEF Orte
<1>2. CASE Lehneab(a)
  BY <1>1, <1>2, LehneabGut DEF StatusLesen, Bei
<1>3. CASE Weiter(a, "schreiben", neu) /\ UNCHANGED <<belege, geschichte>>
  <2>1. TypeOK'
    BY <1>1, <1>3, WeiterTyp DEF IInv, TypeOK, geschichte
  <2>2. /\ Bei(a, "status", "lesen") /\ ort'[a] = "schreiben" /\ auftrag'[a] = auftrag[a]
        /\ entitaet'[a] = neu
    BY <1>1, <1>3, WeiterTyp DEF IInv, StatusLesen
  <2>3. Nur(a) /\ NurListe(a) /\ tage' = tage
    BY <1>1, <1>3, WeiterTyp DEF IInv
  <2>4. \A i \in Belege : Stand(i)' /\ Schrumpft(i)
    BY <1>1, <1>3, <2>2, <2>3, Ruhig DEF Bei, Harmlos
  <2>5. auftrag[a].status # "offen"
    BY <1>1, <2>2 DEF IInv, Kopie, Bei
  <2>6. Kopie(a)'
    BY <1>1, <2>2, <2>5 DEF Kopie, Bei, Haelt
  <2> QED
    BY <1>1, <2>1, <2>3, <2>4, <2>6, Zusammen
<1> QED
  BY <1>2, <1>3 DEF StatusLesen

LEMMA StatusSchreibenGut ==
  ASSUME IInv, NEW a \in Anfragen, StatusSchreiben(a)
  PROVE  IInv'
<1>1. a \in Akteure /\ Beende(a) /\ UNCHANGED geschichte /\ Bei(a, "status", "schreiben")
  BY DEF Akteure, StatusSchreiben
<1>2. belege' \in [Belege -> Beleg]
  BY <1>1 DEF IInv, TypeOK, StatusSchreiben
<1>3. entitaet[a].status # "offen"
  BY <1>1 DEF IInv, Kopie
<1>4. \A i \in Belege : Harmlos(i)
  BY <1>3 DEF IInv, TypeOK, StatusSchreiben, Harmlos
<1> QED
  BY <1>1, <1>2, <1>4, HarmlosesSchreiben DEF Bei

LEMMA StornorechnungGut ==
  ASSUME IInv, NEW id \in Belege, Stornorechnung(id)
  PROVE  IInv'
<1>1. belege' = [belege EXCEPT ![id].korrigiert = TRUE] /\ UNCHANGED <<tage, anfragen, geschichte, zaehler>>
  BY DEF Stornorechnung
<1>2. /\ UNCHANGED <<tage, ort, auftrag, entitaet, liste, versandt, heutige, verloren>>
      /\ [belege[id] EXCEPT !.korrigiert = TRUE] \in Beleg
  BY <1>1, Spalten DEF anfragen, geschichte, IInv, TypeOK
<1>3. TypeOK'
  BY <1>1, <1>2 DEF IInv, TypeOK
<1>4. \A i \in Belege : /\ belege'[i].status = belege[i].status
                        /\ belege'[i].mahnstufe = belege[i].mahnstufe
                        /\ belege'[i].versendetAm = belege[i].versendetAm
  BY <1>1 DEF IInv, TypeOK, Beleg
<1>5. \A i \in Belege : Tagesstufen(i)' = Tagesstufen(i) /\ Erhalten(i)' = Erhalten(i)
                        /\ (Imversand(i)' <=> Imversand(i))
  BY <1>2, <1>4 DEF Tagesstufen, Erhalten, Imversand, Haelt, Bei, Stufe
<1>6. \A i \in Belege : Stand(i)'
  BY <1>2, <1>4, <1>5 DEF IInv, Stand, Verschickt, Bei, Stufe
<1>7. \A i \in Belege : Schrumpft(i)
  BY <1>4, <1>5 DEF Schrumpft
<1>8. \A a \in Akteure : Kopie(a)'
  BY <1>2, KopieBleibt DEF IInv
<1>9. \A l \in Laeufe : Lauffrist(l)'
  BY <1>2, <1>7, FristBleibt DEF IInv
<1> QED
  BY <1>3, <1>6, <1>8, <1>9 DEF IInv

-------------------------------------------------------------------------------
(***************************************************************************)
(* sendMahnung.                                                            *)
(***************************************************************************)
LEMMA MahnungLesenGut ==
  ASSUME IInv, NEW a \in Akteure, MahnungLesen(a)
  PROVE  IInv'
<1> DEFINE id == auftrag[a].id
           b == belege[id]
<1>1. id \in Belege /\ b \in Beleg /\ "beanspruchen" \in Orte
  BY DEF IInv, TypeOK, Orte
<1>2. CASE Lehneab(a)
  BY <1>2, LehneabGut DEF MahnungLesen, Bei
<1>3. CASE ~ Gesperrt(b) /\ Weiter(a, "beanspruchen", b) /\ UNCHANGED <<belege, geschichte>>
  <2>1. TypeOK'
    BY <1>1, <1>3, WeiterTyp DEF IInv, TypeOK, geschichte
  <2>2. /\ Bei(a, "mahnung", "lesen") /\ ort'[a] = "beanspruchen" /\ auftrag'[a] = auftrag[a]
        /\ entitaet'[a] = b
    BY <1>1, <1>3, WeiterTyp DEF IInv, MahnungLesen
  <2>3. Nur(a) /\ NurListe(a) /\ tage' = tage /\ liste' = liste /\ belege' = belege
    BY <1>1, <1>3, WeiterTyp DEF IInv
  <2>4. b.status = "offen" /\ b.versendetAm # "heute"
    BY <1>3 DEF Gesperrt, Mahnbar
  <2>5. \A c \in Akteure, i \in Belege : c # a =>
          (Haelt(c, i)' <=> Haelt(c, i)) /\ (Verschickt(c, i)' <=> Verschickt(c, i)) /\ Stufe(c)' = Stufe(c)
    BY <2>3 DEF Nur, Haelt, Verschickt, Bei, Stufe
  <2>6. \A i \in Belege : /\ ~ Verschickt(a, i) /\ ~ Verschickt(a, i)'
                          /\ Haelt(a, i)' => i = id
    BY <2>2 DEF Verschickt, Haelt, Bei
  <2>7. Stufe(a)' = b.mahnstufe /\ b.mahnstufe \in Tagesstufen(id)
    BY <2>2, <2>4 DEF Stufe, Tagesstufen
  <2>8. \A i \in Belege : Tagesstufen(i)' \subseteq Tagesstufen(i)
    BY <2>3, <2>5, <2>6, <2>7 DEF Tagesstufen
  <2>9. \A i \in Belege : Schrumpft(i)
    BY <2>3, <2>8 DEF Schrumpft
  <2>10. ASSUME NEW i \in Belege PROVE Stand(i)'
    <3>1. UNCHANGED <<versandt, heutige, verloren>>
      BY <1>3 DEF geschichte
    <3>2. Imversand(i)' <=> Imversand(i)
      <4>1. Imversand(i) <=> \E c \in Akteure : Verschickt(c, i)
        BY DEF Imversand, Verschickt
      <4>2. Imversand(i)' <=> \E c \in Akteure : Verschickt(c, i)'
        BY DEF Imversand, Verschickt
      <4> QED
        BY <4>1, <4>2, <2>5, <2>6
    <3>3. \A c \in Akteure : Verschickt(c, i)' => Verschickt(c, i) /\ Stufe(c)' = Stufe(c)
      BY <2>5, <2>6
    <3>4. Erhalten(i)' = Erhalten(i)
      BY <3>1 DEF Erhalten
    <3> QED
      BY <2>3, <2>8, <3>1, <3>2, <3>3, <3>4 DEF IInv, Stand
  <2>11. Kopie(a)'
    BY <2>2, <2>4 DEF IInv, Kopie, Bei, Haelt
  <2>12. a \in Laeufe => Lauffrist(a)'
    <3>1. SUFFICES ASSUME a \in Laeufe PROVE Lauffrist(a)'
      OBVIOUS
    <3>2. b.mahnstufe < faelligeStufe(tage[id])
      BY <2>2, <2>4, <2>7, <3>1 DEF IInv, Lauffrist
    <3>3. Stufe(a)' < (faelligeStufe(tage[id]))'
      BY <2>2, <2>3, <2>7, <3>2 DEF faelligeStufe
    <3>4. \A e \in liste[a] : e.id \in Belege
      BY <3>1 DEF IInv, TypeOK, Eintrag
    <3>5. (\A e \in liste[a] :
           /\ e.tage = tage[e.id]
           /\ e.versendetAm # "heute" /\ belege[e.id].status = "offen" =>
                \A v \in Tagesstufen(e.id) : v = e.mahnstufe)'
      BY <2>3, <2>8, <3>1, <3>4 DEF IInv, Lauffrist
    <3>6. (auftrag[a].id)' = id /\ ort'[a] = "beanspruchen"
      BY <2>2
    <3> QED
      BY <3>3, <3>5, <3>6 DEF Lauffrist, Bei
  <2> QED
    BY <2>1, <2>3, <2>9, <2>10, <2>11, <2>12, Zusammen
<1> QED
  BY <1>2, <1>3 DEF MahnungLesen

LEMMA MahnungBeanspruchenGut ==
  ASSUME IInv, NEW a \in Akteure, MahnungBeanspruchen(a)
  PROVE  IInv'
<1>a. PICK id \in Belege : id = auftrag[a].id
  BY DEF IInv, TypeOK
<1>b. PICK d \in 0 .. 3 : d = entitaet[a].mahnstufe
  BY DEF IInv, TypeOK, Beleg
<1> DEFINE neu == [belege[id] EXCEPT !.mahnstufe = neueStufe(d), !.versendetAm = "heute"]
<1>1. belege[id] \in Beleg /\ "mail" \in Orte /\ entitaet[a] \in Beleg /\ belege \in [Belege -> Beleg]
  BY DEF IInv, TypeOK, Orte
<1>2. CASE Lehneab(a)
  BY <1>2, LehneabGut DEF MahnungBeanspruchen, Bei
<1>3. CASE /\ Beanspruchbar(belege[id], d)
           /\ belege' = [belege EXCEPT ![id].mahnstufe = neueStufe(d), ![id].versendetAm = "heute"]
           /\ Weiter(a, "mail", entitaet[a]) /\ UNCHANGED geschichte
  <2>1. neu \in Beleg /\ neu.mahnstufe = neueStufe(d) /\ neu.versendetAm = "heute"
        /\ neu.status = belege[id].status
    <3>1. neueStufe(d) \in 0 .. 3 /\ "heute" \in Datum
      BY Stufenrechnung DEF Datum, Stufen
    <3>2. neu \in Beleg
      BY <1>1, <3>1, Spalten
    <3> QED
      BY <1>1, <3>1, <3>2 DEF Beleg
  <2>2. belege' = [belege EXCEPT ![id] = neu]
    BY <1>1, <1>3
  <2>3. /\ belege' \in [Belege -> Beleg] /\ belege'[id] = neu
        /\ \A i \in Belege : i # id => belege'[i] = belege[i]
    BY <1>1, <2>1, <2>2
  <2>4. TypeOK'
    BY <1>1, <1>3, <2>3, WeiterTyp DEF IInv, TypeOK, geschichte
  <2>5. /\ Bei(a, "mahnung", "beanspruchen") /\ ort'[a] = "mail" /\ auftrag'[a] = auftrag[a]
        /\ entitaet'[a] = entitaet[a]
    BY <1>1, <1>3, WeiterTyp DEF IInv, MahnungBeanspruchen
  <2>6. Nur(a) /\ NurListe(a) /\ tage' = tage /\ liste' = liste
    BY <1>1, <1>3, WeiterTyp DEF IInv
  <2>7. belege[id].mahnstufe = d
    BY <1>3 DEF Beanspruchbar
  <2>8. \A c \in Akteure, i \in Belege : c # a =>
          (Haelt(c, i)' <=> Haelt(c, i)) /\ (Verschickt(c, i)' <=> Verschickt(c, i)) /\ Stufe(c)' = Stufe(c)
    BY <2>6 DEF Nur, Haelt, Verschickt, Bei, Stufe
  <2>9. /\ Stufe(a)' = d
        /\ \A i \in Belege : (Haelt(a, i)' <=> i = id) /\ (Haelt(a, i) <=> i = id)
                             /\ ~ Verschickt(a, i) /\ (Verschickt(a, i)' <=> i = id)
    BY <1>a, <1>b, <2>5 DEF Haelt, Verschickt, Bei, Stufe
  <2>10. d \in Tagesstufen(id)
    BY <1>b, <2>9 DEF Tagesstufen, Stufe
  <2>11. \A i \in Belege : Tagesstufen(i)' \subseteq Tagesstufen(i)
    <3>1. ASSUME NEW i \in Belege, NEW v \in Tagesstufen(i)' PROVE v \in Tagesstufen(i)
      <4>1. CASE \E c \in Akteure : Haelt(c, i)' /\ v = Stufe(c)'
        <5>1. PICK c \in Akteure : Haelt(c, i)' /\ v = Stufe(c)'
          BY <4>1
        <5>2. Haelt(c, i) /\ v = Stufe(c)
          BY <1>b, <2>8, <2>9, <5>1 DEF Stufe
        <5> QED
          BY <5>2 DEF Tagesstufen
      <4>2. CASE v = belege'[i].mahnstufe /\ belege'[i].versendetAm # "heute"
        BY <2>1, <2>3, <4>2 DEF Tagesstufen
      <4> QED
        BY <3>1, <4>1, <4>2 DEF Tagesstufen
    <3> QED
      BY <3>1
  <2>12. \A i \in Belege : belege'[i].status = belege[i].status
    BY <2>1, <2>3
  <2>13. \A i \in Belege : Schrumpft(i)
    BY <2>11, <2>12 DEF Schrumpft
  <2>14. UNCHANGED <<versandt, heutige, verloren>> /\ \A i \in Belege : Erhalten(i)' = Erhalten(i)
    BY <1>3 DEF geschichte, Erhalten
  <2>15. \A i \in Belege : (Imversand(i) <=> \E c \in Akteure : Verschickt(c, i))
                           /\ (Imversand(i)' <=> \E c \in Akteure : Verschickt(c, i)')
    BY DEF Imversand, Verschickt
  <2>16. ASSUME NEW i \in Belege, i # id PROVE Stand(i)'
    <3>1. Imversand(i)' <=> Imversand(i)
      BY <2>8, <2>9, <2>15, <2>16
    <3>2. \A c \in Akteure : Verschickt(c, i)' => Verschickt(c, i) /\ Stufe(c)' = Stufe(c)
      BY <2>8, <2>9, <2>16
    <3> QED
      BY <2>3, <2>11, <2>14, <2>16, <3>1, <3>2 DEF IInv, Stand
  <2>17. Stand(id)'
    <3>1. SUFFICES ASSUME belege[id].status = "offen" PROVE Stand(id)'
      BY <2>12 DEF Stand
    <3>2. Stand(id)
      BY <1>1 DEF IInv
    <3>3. \A v, w \in Tagesstufen(id)' : v = w
      BY <1>1, <2>11, <3>1, <3>2 DEF Stand
    <3>4. \A c \in Akteure : Verschickt(c, id) => Stufe(c) = d
      <4>1. \A c \in Akteure : Verschickt(c, id) => Stufe(c) \in Tagesstufen(id)
        BY DEF Tagesstufen, Verschickt, Haelt
      <4> QED
        BY <2>10, <3>1, <3>2, <4>1 DEF Stand
    <3>5. \A c \in Akteure : Verschickt(c, id)' => Stufe(c)' = d
      BY <1>1, <2>8, <2>9, <3>4
    <3>6. 1 .. d = Erhalten(id)
      BY <1>1, <2>7, <2>15, <3>1, <3>2, <3>4 DEF Stand
    <3>7. d < 3 => heutige[id] = 0
      <4>1. heutige[id] \in 0 .. 2
        BY <1>1 DEF IInv, TypeOK
      <4> QED
        BY <2>7, <2>10, <3>1, <3>2, <4>1 DEF Stand
    <3>8. (\A c \in Akteure : Verschickt(c, id) =>
           /\ belege[id].mahnstufe = neueStufe(Stufe(c))
           /\ 1 .. Stufe(c) = Erhalten(id)
           /\ Stufe(c) < 3 => heutige[id] = 0)'
      <4>1. ASSUME NEW c \in Akteure, Verschickt(c, id)'
            PROVE  /\ belege'[id].mahnstufe = (neueStufe(Stufe(c)))'
                   /\ (1 .. Stufe(c) = Erhalten(id))'
                   /\ Stufe(c)' < 3 => heutige'[id] = 0
        <5>1. Stufe(c)' = d
          BY <3>5, <4>1
        <5>2. (neueStufe(Stufe(c)))' = neueStufe(d)
          BY <5>1 DEF neueStufe
        <5> QED
          BY <1>1, <2>1, <2>3, <2>14, <3>6, <3>7, <5>1, <5>2
      <4> QED
        BY <4>1
    <3>9. d < 3 => \A c \in Akteure : ~ Verschickt(c, id)
      BY <1>1, <2>7, <3>1, <3>2, <3>4, Stufenrechnung DEF Stand
    <3>10. \A c, e \in Akteure : Verschickt(c, id)' /\ Verschickt(e, id)' /\ Stufe(c)' < 3 => c = e
      BY <1>1, <2>8, <2>9, <3>5, <3>9
    <3>11. Imversand(id)'
      BY <1>1, <2>9, <2>15
    <3>12. heutige'[id] > 0 /\ belege'[id].mahnstufe < 3 => belege'[id].mahnstufe \notin Tagesstufen(id)'
      BY <1>1, <2>1, <2>3, <2>14, <3>7, Stufenrechnung DEF Stufen
    <3>13. \A n \in Stufen \ {3} : versandt'[id][n] <= 1
      BY <2>14, <3>1, <3>2 DEF Stand
    <3>14. belege'[id].mahnstufe < 3 => heutige'[id] <= 1
      BY <2>1, <2>3, <2>14, <3>7, Stufenrechnung DEF Stufen
    <3> QED
      BY <3>3, <3>8, <3>10, <3>11, <3>12, <3>13, <3>14 DEF Stand
  <2>18. Kopie(a)'
    BY <2>5 DEF IInv, Kopie, Bei, Haelt
  <2>19. a \in Laeufe => Lauffrist(a)'
    <3>1. SUFFICES ASSUME a \in Laeufe PROVE Lauffrist(a)'
      OBVIOUS
    <3>2. d < faelligeStufe(tage[id])
      BY <1>a, <1>b, <2>9, <3>1 DEF IInv, Lauffrist, Stufe
    <3>3. Stufe(a)' < (faelligeStufe(tage[id]))'
      BY <2>5, <2>6, <2>9, <3>2 DEF faelligeStufe
    <3>4. \A e \in liste[a] : e.id \in Belege
      BY <3>1 DEF IInv, TypeOK, Eintrag
    <3>5. (\A e \in liste[a] :
           /\ e.tage = tage[e.id]
           /\ e.versendetAm # "heute" /\ belege[e.id].status = "offen" =>
                \A v \in Tagesstufen(e.id) : v = e.mahnstufe)'
      BY <2>6, <2>11, <2>12, <3>1, <3>4 DEF IInv, Lauffrist
    <3>6. (auftrag[a].id)' = id /\ ort'[a] = "mail"
      BY <1>a, <2>5
    <3> QED
      BY <3>3, <3>5, <3>6 DEF Lauffrist, Bei
  <2>20. \A i \in Belege : Stand(i)'
    BY <2>16, <2>17
  <2> QED
    BY <2>4, <2>6, <2>13, <2>18, <2>19, <2>20, Zusammen
<1> QED
  BY <1>a, <1>b, <1>2, <1>3 DEF MahnungBeanspruchen

\* What the sender of i knows.
LEMMA Versender ==
  ASSUME IInv, NEW a \in Akteure, NEW i \in Belege, Verschickt(a, i), belege[i].status = "offen"
  PROVE  /\ Stufe(a) \in 0 .. 3 /\ Stufe(a) \in Tagesstufen(i)
         /\ belege[i].mahnstufe = neueStufe(Stufe(a))
         /\ 1 .. Stufe(a) = Erhalten(i)
         /\ Stufe(a) < 3 => heutige[i] = 0
         /\ \A c \in Akteure : Verschickt(c, i) => Stufe(c) = Stufe(a) /\ (Stufe(a) < 3 => c = a)
<1>1. Stand(i)
  BY DEF IInv
<1>2. \A c \in Akteure : Verschickt(c, i) => Stufe(c) \in Tagesstufen(i)
  BY DEF Verschickt, Haelt, Tagesstufen
<1>3. Stufe(a) \in 0 .. 3
  BY DEF IInv, TypeOK, Stufe, Beleg
<1> QED
  BY <1>1, <1>2, <1>3 DEF Stand

\* When a is done with its mail to id, the others' mails and the levels are what they were.
LEMMA NachDemVersand ==
  ASSUME IInv, NEW a \in Akteure, Bei(a, "mahnung", "mail"), Beende(a),
         NEW i \in Belege
  PROVE  /\ \A c \in Akteure : c # a => /\ Haelt(c, i)' <=> Haelt(c, i)
                                        /\ Verschickt(c, i)' <=> Verschickt(c, i)
                                        /\ Stufe(c)' = Stufe(c)
         /\ ~ Haelt(a, i)' /\ ~ Verschickt(a, i)'
         /\ Verschickt(a, i) <=> i = auftrag[a].id
         /\ Imversand(i) <=> \E c \in Akteure : Verschickt(c, i)
         /\ Imversand(i)' <=> \E c \in Akteure : Verschickt(c, i)'
<1>1. Nur(a) /\ auftrag'[a].op = "ruhe"
  BY BeendeTyp DEF IInv
<1> QED
  BY <1>1 DEF Nur, Haelt, Verschickt, Bei, Stufe, Imversand

LEMMA MahnungVersandtGut ==
  ASSUME IInv, NEW a \in Akteure, MahnungVersandt(a)
  PROVE  IInv'
<1>1. PICK id \in Belege : id = auftrag[a].id
  BY DEF IInv, TypeOK
<1>2. PICK d \in 0 .. 3 : d = entitaet[a].mahnstufe
  BY DEF IInv, TypeOK, Beleg
<1>3. PICK n \in Stufen : n = neueStufe(d)
  BY Stufenrechnung
<1>4. /\ Bei(a, "mahnung", "mail") /\ Beende(a) /\ UNCHANGED <<belege, verloren>>
      /\ versandt' = [versandt EXCEPT ![id][n] = Mehr(@)]
      /\ heutige' = [heutige EXCEPT ![id] = Mehr(@)]
  BY <1>1, <1>2, <1>3 DEF MahnungVersandt
<1>5. /\ versandt \in [Belege -> [Stufen -> 0 .. 2]] /\ heutige \in [Belege -> 0 .. 2]
      /\ \A m \in 0 .. 2 : Mehr(m) \in 1 .. 2
  BY Stufenrechnung DEF IInv, TypeOK
<1>6. /\ versandt' \in [Belege -> [Stufen -> 0 .. 2]] /\ heutige' \in [Belege -> 0 .. 2]
      /\ versandt'[id][n] = Mehr(versandt[id][n]) /\ heutige'[id] = Mehr(heutige[id])
      /\ \A m \in Stufen : m # n => versandt'[id][m] = versandt[id][m]
      /\ \A i \in Belege : i # id => versandt'[i] = versandt[i] /\ heutige'[i] = heutige[i]
  BY <1>4, <1>5
<1>7. TypeOK'
  BY <1>4, <1>6, BeendeTyp DEF IInv, TypeOK
<1>8. \A i \in Belege : Tagesstufen(i)' \subseteq Tagesstufen(i)
  BY <1>4, NachDemVersand DEF Tagesstufen
<1>9. \A i \in Belege : Schrumpft(i)
  BY <1>4, <1>8 DEF Schrumpft
<1>10. ASSUME NEW i \in Belege, i # id PROVE Stand(i)'
  <2>1. \A c \in Akteure : (Verschickt(c, i)' <=> Verschickt(c, i)) /\ (Verschickt(c, i) => Stufe(c)' = Stufe(c))
    BY <1>1, <1>4, <1>10, NachDemVersand
  <2>2. Imversand(i)' <=> Imversand(i)
    BY <1>4, <2>1, NachDemVersand
  <2>3. Erhalten(i)' = Erhalten(i)
    BY <1>4, <1>6, <1>10 DEF Erhalten
  <2> QED
    BY <1>4, <1>6, <1>8, <1>10, <2>1, <2>2, <2>3 DEF IInv, Stand
<1>11. Stand(id)'
  <2>1. SUFFICES ASSUME belege[id].status = "offen" PROVE Stand(id)'
    BY <1>4 DEF Stand
  <2>2. Stand(id) /\ Verschickt(a, id) /\ Stufe(a) = d
    BY <1>1, <1>2, <1>4 DEF IInv, Verschickt, Stufe
  <2>3. /\ d \in Tagesstufen(id) /\ belege[id].mahnstufe = n /\ 1 .. d = Erhalten(id)
        /\ d < 3 => heutige[id] = 0 /\ n = d + 1
        /\ d = 3 => n = 3
        /\ \A c \in Akteure : Verschickt(c, id) => Stufe(c) = d /\ (d < 3 => c = a)
    BY <1>3, <2>1, <2>2, Versender, Stufenrechnung
  <2>4. Erhalten(id)' = Erhalten(id) \cup {n}
    BY <1>4, <1>5, <1>6 DEF Erhalten
  <2>5. Erhalten(id)' = 1 .. n
    BY <2>3, <2>4
  <2>6. \A c \in Akteure : Verschickt(c, id)' => Stufe(c)' = d /\ d = 3 /\ Verschickt(c, id)
    BY <1>4, <2>3, NachDemVersand
  <2>7. (\A v, w \in Tagesstufen(id) : v = w)'
    BY <1>8, <2>1, <2>2 DEF Stand
  <2>8. ASSUME NEW c \in Akteure, Verschickt(c, id)'
        PROVE  /\ belege'[id].mahnstufe = (neueStufe(Stufe(c)))'
               /\ (1 .. Stufe(c) = Erhalten(id))'
               /\ ~ (Stufe(c)' < 3)
    <3>1. Stufe(c)' = 3 /\ d = 3
      BY <2>6, <2>8
    <3>2. (neueStufe(Stufe(c)))' = 3
      BY <3>1 DEF neueStufe
    <3> QED
      BY <1>4, <2>3, <2>5, <3>1, <3>2
  <2>9. (~ Imversand(id) => 1 .. belege[id].mahnstufe = Erhalten(id))'
    BY <1>4, <2>3, <2>5
  <2>10. (heutige[id] > 0 /\ belege[id].mahnstufe < 3 => belege[id].mahnstufe \notin Tagesstufen(id))'
    <3>1. SUFFICES ASSUME n < 3 PROVE n \notin Tagesstufen(id)
      BY <1>4, <1>8, <2>3
    <3>2. n = d + 1
      BY <2>3, <3>1
    <3> QED
      BY <2>1, <2>2, <2>3, <3>2 DEF Stand
  <2>11. (\A m \in Stufen \ {3} : versandt[id][m] <= 1)'
    <3>1. SUFFICES ASSUME NEW m \in Stufen \ {3} PROVE versandt'[id][m] <= 1
      OBVIOUS
    <3>2. CASE m # n
      BY <1>6, <2>1, <2>2, <3>2 DEF Stand
    <3>3. CASE m = n
      <4>1. n \notin Erhalten(id)
        BY <2>3, <3>3
      <4>2. versandt[id][n] = 0
        BY <1>5, <4>1 DEF Erhalten
      <4> QED
        BY <1>6, <3>3, <4>2 DEF Mehr
    <3> QED
      BY <3>2, <3>3
  <2>12. (belege[id].mahnstufe < 3 => heutige[id] <= 1)'
    BY <1>4, <1>6, <2>3 DEF Mehr
  <2> QED
    BY <2>7, <2>8, <2>9, <2>10, <2>11, <2>12 DEF Stand
<1>12. Kopie(a)'
  BY <1>4, BeendeTyp DEF IInv, Kopie, Bei, Haelt
<1>13. a \in Laeufe => Lauffrist(a)'
  BY <1>4, <1>9, BeendeTyp, RestDerListe DEF IInv
<1> QED
  BY <1>4, <1>7, <1>9, <1>10, <1>11, <1>12, <1>13, BeendeTyp, Zusammen DEF IInv

LEMMA MahnungGescheitertGut ==
  ASSUME IInv, NEW a \in Akteure, MahnungGescheitert(a)
  PROVE  IInv'
<1>1. PICK id \in Belege : id = auftrag[a].id
  BY DEF IInv, TypeOK
<1>2. PICK d \in 0 .. 3 : d = entitaet[a].mahnstufe
  BY DEF IInv, TypeOK, Beleg
<1> DEFINE neu == Ruecknahme(belege[id], entitaet[a])
<1>3. /\ Bei(a, "mahnung", "mail") /\ Beende(a) /\ UNCHANGED geschichte
      /\ belege' = [belege EXCEPT ![id] = neu]
  BY <1>1 DEF MahnungGescheitert
<1>4. belege \in [Belege -> Beleg] /\ belege[id] \in Beleg /\ entitaet[a] \in Beleg
      /\ entitaet[a].versendetAm \in Datum
  BY DEF IInv, TypeOK, Beleg
<1>5. neu \in Beleg /\ neu.status = belege[id].status /\ neu.mahnstufe = d
  <2>1. neu = [belege[id] EXCEPT !.mahnstufe = d, !.versendetAm = entitaet[a].versendetAm]
    BY <1>2 DEF Ruecknahme
  <2>2. PICK h \in Datum : h = entitaet[a].versendetAm
    BY <1>4
  <2>3. [belege[id] EXCEPT !.mahnstufe = d, !.versendetAm = h] \in Beleg
    BY <1>4, Spalten
  <2>4. neu \in Beleg
    BY <2>1, <2>2, <2>3
  <2> QED
    BY <1>4, <2>1, <2>4 DEF Beleg
<1>6. belege' \in [Belege -> Beleg] /\ belege'[id] = neu /\ \A i \in Belege : i # id => belege'[i] = belege[i]
  BY <1>3, <1>4, <1>5
<1>7. TypeOK'
  BY <1>3, <1>6, BeendeTyp DEF IInv, TypeOK, geschichte
<1>8. Verschickt(a, id) /\ Haelt(a, id) /\ Stufe(a) = d
  BY <1>1, <1>2, <1>3 DEF Verschickt, Haelt, Stufe
<1>9. d \in Tagesstufen(id)
  BY <1>8 DEF Tagesstufen
<1>10. \A i \in Belege : Tagesstufen(i)' \subseteq Tagesstufen(i)
  <2>1. ASSUME NEW i \in Belege, NEW v \in Tagesstufen(i)' PROVE v \in Tagesstufen(i)
    <3>1. CASE \E c \in Akteure : Haelt(c, i)' /\ v = Stufe(c)'
      BY <1>3, <3>1, NachDemVersand DEF Tagesstufen
    <3>2. CASE v = belege'[i].mahnstufe /\ belege'[i].versendetAm # "heute"
      BY <1>5, <1>6, <1>9, <3>2 DEF Tagesstufen
    <3> QED
      BY <2>1, <3>1, <3>2 DEF Tagesstufen
  <2> QED
    BY <2>1
<1>11. \A i \in Belege : Schrumpft(i)
  BY <1>5, <1>6, <1>10 DEF Schrumpft
<1>12. UNCHANGED <<versandt, heutige, verloren>> /\ \A i \in Belege : Erhalten(i)' = Erhalten(i)
  BY <1>3 DEF geschichte, Erhalten
<1>13. ASSUME NEW i \in Belege, i # id PROVE Stand(i)'
  <2>1. \A c \in Akteure : (Verschickt(c, i)' <=> Verschickt(c, i)) /\ (Verschickt(c, i) => Stufe(c)' = Stufe(c))
    BY <1>1, <1>3, <1>13, NachDemVersand
  <2>2. Imversand(i)' <=> Imversand(i)
    BY <1>3, <2>1, NachDemVersand
  <2> QED
    BY <1>6, <1>10, <1>12, <1>13, <2>1, <2>2 DEF IInv, Stand
<1>14. Stand(id)'
  <2>1. SUFFICES ASSUME belege[id].status = "offen" PROVE Stand(id)'
    BY <1>5, <1>6 DEF Stand
  <2>2. Stand(id)
    BY DEF IInv
  <2>3. /\ 1 .. d = Erhalten(id)
        /\ d < 3 => heutige[id] = 0
        /\ \A c \in Akteure : Verschickt(c, id) => Stufe(c) = d /\ (d < 3 => c = a)
    BY <1>8, <2>1, Versender
  <2>4. \A c \in Akteure : Verschickt(c, id)' => Stufe(c)' = 3 /\ d = 3
    BY <1>3, <2>3, NachDemVersand
  <2>5. (\A v, w \in Tagesstufen(id) : v = w)'
    BY <1>10, <2>1, <2>2 DEF Stand
  <2>6. ASSUME NEW c \in Akteure, Verschickt(c, id)'
        PROVE  /\ belege'[id].mahnstufe = (neueStufe(Stufe(c)))'
               /\ (1 .. Stufe(c) = Erhalten(id))'
               /\ ~ (Stufe(c)' < 3)
    <3>1. Stufe(c)' = 3 /\ d = 3
      BY <2>4, <2>6
    <3>2. (neueStufe(Stufe(c)))' = 3
      BY <3>1 DEF neueStufe
    <3> QED
      BY <1>5, <1>6, <1>12, <2>3, <3>1, <3>2
  <2>7. (~ Imversand(id) => 1 .. belege[id].mahnstufe = Erhalten(id))'
    BY <1>5, <1>6, <1>12, <2>3
  <2>8. (heutige[id] > 0 /\ belege[id].mahnstufe < 3 => belege[id].mahnstufe \notin Tagesstufen(id))'
    BY <1>5, <1>6, <1>12, <2>3
  <2>9. (\A m \in Stufen \ {3} : versandt[id][m] <= 1)'
    BY <1>12, <2>1, <2>2 DEF Stand
  <2>10. (belege[id].mahnstufe < 3 => heutige[id] <= 1)'
    BY <1>5, <1>6, <1>12, <2>3
  <2> QED
    BY <2>5, <2>6, <2>7, <2>8, <2>9, <2>10 DEF Stand
<1>15. Kopie(a)'
  BY <1>3, BeendeTyp DEF IInv, Kopie, Bei, Haelt
<1>16. a \in Laeufe => Lauffrist(a)'
  BY <1>3, <1>11, BeendeTyp, RestDerListe DEF IInv
<1> QED
  BY <1>3, <1>7, <1>11, <1>13, <1>14, <1>15, <1>16, BeendeTyp, Zusammen DEF IInv

LEMMA MahntGut ==
  ASSUME IInv, NEW a \in Akteure, Mahnt(a)
  PROVE  IInv'
BY MahnungLesenGut, MahnungBeanspruchenGut, MahnungVersandtGut, MahnungGescheitertGut DEF Mahnt

-------------------------------------------------------------------------------
(***************************************************************************)
(* The daily job.                                                          *)
(***************************************************************************)
\* A step of run l that leaves rows and history alone.
LEMMA LaufGut ==
  ASSUME IInv, NEW l \in Laeufe, Nur(l), NurListe(l), UNCHANGED <<belege, tage, geschichte>>,
         ort[l] \in {"bereit", "laden", "liste"}, ort'[l] \in {"bereit", "laden", "liste", "lesen"},
         TypeOK', Kopie(l)', (\A i \in Belege : Schrumpft(i)) => Lauffrist(l)'
  PROVE  IInv'
<1>1. l \in Akteure
  BY DEF Akteure
<1>2. \A i \in Belege : Harmlos(i)
  BY DEF Harmlos
<1>3. \A i \in Belege : Stand(i)' /\ Schrumpft(i)
  BY <1>1, <1>2, Ruhig DEF Bei
<1> QED
  BY <1>1, <1>3, Zusammen

LEMMA LaufSchrittGut ==
  ASSUME IInv, NEW l \in Laeufe, LaufBeginnt(l) \/ Lauf(l)
  PROVE  IInv'
<1>1. l \in Akteure /\ TypeOK /\ Lauffrist(l) /\ Kopie(l)
  BY DEF Akteure, IInv
<1>2. CASE LaufBeginnt(l)
  <2>1. TypeOK' /\ Nur(l) /\ NurListe(l) /\ UNCHANGED <<belege, tage, geschichte>>
    BY <1>1, <1>2 DEF LaufBeginnt, TypeOK, Orte, geschichte, Nur, NurListe
  <2>2. ort[l] = "bereit" /\ ort'[l] = "laden" /\ auftrag' = auftrag /\ liste' = liste
    BY <1>1, <1>2 DEF LaufBeginnt, TypeOK
  <2>3. Kopie(l)'
    BY <1>1, <2>2 DEF Kopie, Bei, Haelt
  <2>4. Lauffrist(l)'
    BY <1>1, <2>2 DEF Lauffrist, Bei, Haelt
  <2> QED
    BY <2>1, <2>2, <2>3, <2>4, LaufGut
<1>3. CASE LaufLaedt(l)
  <2>1. \A e \in mahnliste : e \in Eintrag /\ e.id \in Belege /\ e.tage = tage[e.id]
                             /\ e.mahnstufe = belege[e.id].mahnstufe
                             /\ e.versendetAm = belege[e.id].versendetAm
    <3>1. SUFFICES ASSUME NEW i \in Belege
                   PROVE  [id |-> i, tage |-> tage[i], mahnstufe |-> belege[i].mahnstufe,
                           versendetAm |-> belege[i].versendetAm] \in Eintrag
      BY DEF mahnliste
    <3> QED
      BY <1>1, Konstanten DEF TypeOK, Eintrag, Beleg
  <2>2. TypeOK' /\ Nur(l) /\ NurListe(l) /\ UNCHANGED <<belege, tage, geschichte>>
    BY <1>1, <1>3, <2>1 DEF LaufLaedt, TypeOK, Orte, geschichte, Nur, NurListe
  <2>3. ort[l] = "laden" /\ ort'[l] = "liste" /\ auftrag' = auftrag /\ liste'[l] = mahnliste
    BY <1>1, <1>3 DEF LaufLaedt, TypeOK
  <2>4. Kopie(l)'
    BY <1>1, <2>3 DEF Kopie, Bei, Haelt
  <2>5. ASSUME \A i \in Belege : Schrumpft(i) PROVE Lauffrist(l)'
    <3>1. ASSUME NEW e \in mahnliste, e.versendetAm # "heute", belege[e.id].status = "offen",
                 NEW v \in Tagesstufen(e.id)'
          PROVE  v = e.mahnstufe
      <4>1. e.mahnstufe \in Tagesstufen(e.id)
        BY <2>1, <3>1 DEF Tagesstufen
      <4>2. v \in Tagesstufen(e.id)
        BY <2>1, <2>2, <2>5, <3>1 DEF Schrumpft
      <4> QED
        BY <2>1, <3>1, <4>1, <4>2 DEF IInv, Stand
    <3> QED
      BY <2>1, <2>2, <2>3, <3>1 DEF Lauffrist, Bei, Haelt
  <2> QED
    BY <2>2, <2>3, <2>4, <2>5, LaufGut
<1>4. CASE LaufScheitert(l) \/ LaufEndet(l)
  <2>1. TypeOK' /\ Nur(l) /\ NurListe(l) /\ UNCHANGED <<belege, tage, geschichte>>
    BY <1>1, <1>4 DEF LaufScheitert, LaufEndet, TypeOK, Orte, geschichte, Nur, NurListe
  <2>2. ort[l] \in {"laden", "liste"} /\ ort'[l] = "bereit" /\ auftrag' = auftrag /\ liste'[l] = {}
    BY <1>1, <1>4 DEF LaufScheitert, LaufEndet, TypeOK, Lauffrist
  <2>3. Kopie(l)'
    BY <1>1, <2>2 DEF Kopie, Bei, Haelt
  <2>4. Lauffrist(l)'
    BY <2>2 DEF Lauffrist, Bei, Haelt
  <2> QED
    BY <2>1, <2>2, <2>3, <2>4, LaufGut
<1>5. CASE LaufEintrag(l)
  <2>1. PICK e \in liste[l] :
          /\ liste' = [liste EXCEPT ![l] = @ \ {e}]
          /\ \/ /\ ZuMahnen(e)
                /\ ort' = [ort EXCEPT ![l] = "lesen"]
                /\ auftrag' = [auftrag EXCEPT ![l] = [op |-> "mahnung", id |-> e.id, status |-> "offen"]]
             \/ ~ ZuMahnen(e) /\ UNCHANGED <<ort, auftrag>>
    BY <1>5 DEF LaufEintrag, Naechste
  <2>2. ort[l] = "liste" /\ UNCHANGED <<belege, tage, entitaet, geschichte, zaehler>>
    BY <1>5 DEF LaufEintrag
  <2>3. e \in Eintrag /\ e.id \in Belege
    BY <1>1 DEF TypeOK, Eintrag
  <2>4. Nur(l) /\ NurListe(l) /\ liste' \in [Laeufe -> SUBSET Eintrag] /\ liste'[l] \subseteq liste[l]
    BY <1>1, <2>1, <2>2 DEF TypeOK, Nur, NurListe
  <2>5. TypeOK'
    <3>1. ort' \in [Akteure -> Orte]
      BY <1>1, <2>1 DEF TypeOK, Orte
    <3>2. [op |-> "mahnung", id |-> e.id, status |-> "offen"] \in [op : Operationen, id : Belege, status : Status]
      BY <2>3 DEF Operationen, Status
    <3>3. auftrag' \in [Akteure -> [op : Operationen, id : Belege, status : Status]]
      BY <1>1, <2>1, <3>2 DEF TypeOK
    <3> QED
      BY <1>1, <2>2, <2>4, <3>1, <3>3 DEF TypeOK, geschichte
  <2>6. CASE ~ ZuMahnen(e) /\ UNCHANGED <<ort, auftrag>>
    <3>1. Kopie(l)'
      BY <1>1, <2>2, <2>6 DEF Kopie, Bei, Haelt
    <3>2. (\A i \in Belege : Schrumpft(i)) => Lauffrist(l)'
      BY <1>1, <2>2, <2>4, <2>6, RestDerListe
    <3> QED
      BY <2>2, <2>4, <2>5, <2>6, <3>1, <3>2, LaufGut
  <2>7. CASE /\ ZuMahnen(e)
             /\ ort' = [ort EXCEPT ![l] = "lesen"]
             /\ auftrag' = [auftrag EXCEPT ![l] = [op |-> "mahnung", id |-> e.id, status |-> "offen"]]
    <3>1. ort'[l] = "lesen" /\ auftrag'[l].op = "mahnung" /\ auftrag'[l].id = e.id
      BY <1>1, <2>7 DEF TypeOK
    <3>2. Kopie(l)'
      BY <3>1 DEF Kopie, Bei, Haelt
    <3>3. ASSUME \A i \in Belege : Schrumpft(i) PROVE Lauffrist(l)'
      <4>1. \A f \in liste[l] : f.id \in Belege
        BY <1>1 DEF TypeOK, Eintrag
      <4>2. (\A f \in liste[l] :
              /\ f.tage = tage[f.id]
              /\ f.versendetAm # "heute" /\ belege[f.id].status = "offen" =>
                   \A v \in Tagesstufen(f.id) : v = f.mahnstufe)'
        BY <1>1, <2>2, <2>4, <3>3, <4>1 DEF Lauffrist, Schrumpft
      <4>3. e.mahnstufe < faelligeStufe(tage[e.id]) /\ e.versendetAm # "heute"
        <5>1. e.tage = tage[e.id]
          BY <1>1 DEF Lauffrist
        <5>2. faelligeStufe(e.tage) \in 0 .. 3 /\ e.mahnstufe \in 0 .. 3
          BY <2>3, Stufenrechnung DEF Eintrag
        <5> QED
          BY <2>7, <5>1, <5>2 DEF ZuMahnen
      <4>4. ASSUME belege'[e.id].status = "offen", NEW v \in Tagesstufen(e.id)'
            PROVE  v < faelligeStufe(tage[e.id])
        BY <1>1, <2>3, <3>3, <4>3, <4>4 DEF Lauffrist, Schrumpft
      <4>5. faelligeStufe(tage[e.id])' = faelligeStufe(tage[e.id])
        BY <2>2 DEF faelligeStufe
      <4> QED
        BY <3>1, <4>2, <4>4, <4>5 DEF Lauffrist, Bei, Haelt
    <3> QED
      BY <2>2, <2>4, <2>5, <3>1, <3>2, <3>3, LaufGut
  <2> QED
    BY <2>1, <2>6, <2>7
<1> QED
  BY <1>2, <1>3, <1>4, <1>5 DEF Lauf

-------------------------------------------------------------------------------
(***************************************************************************)
(* Midnight, crashes, and all steps.                                       *)
(***************************************************************************)
LEMMA TagWechseltGut ==
  ASSUME IInv, TagWechselt
  PROVE  IInv'
<1>1. /\ \A a \in Akteure : ort[a] = "bereit"
      /\ belege' = [i \in Belege |-> Gealtert(belege[i])]
      /\ tage' = [i \in Belege |-> IF tage[i] = Fristen[3] THEN tage[i] ELSE tage[i] + 1]
      /\ heutige' = [i \in Belege |-> 0]
      /\ UNCHANGED <<ort, auftrag, entitaet, liste, versandt, verloren>>
  BY DEF TagWechselt, anfragen
<1>2. \A i \in Belege : /\ belege'[i] \in Beleg
                        /\ belege'[i].status = belege[i].status
                        /\ belege'[i].mahnstufe = belege[i].mahnstufe
  <2>1. SUFFICES ASSUME NEW i \in Belege
                 PROVE  /\ Gealtert(belege[i]) \in Beleg
                        /\ Gealtert(belege[i]).status = belege[i].status
                        /\ Gealtert(belege[i]).mahnstufe = belege[i].mahnstufe
    BY <1>1
  <2>2. PICK b \in Beleg : b = belege[i]
    BY DEF IInv, TypeOK
  <2>3. PICK d \in Datum : Gealtert(b) = [b EXCEPT !.versendetAm = d]
    BY DEF Gealtert, Beleg, Datum
  <2>4. [b EXCEPT !.versendetAm = d] \in Beleg /\ [b EXCEPT !.versendetAm = d].status = b.status
        /\ [b EXCEPT !.versendetAm = d].mahnstufe = b.mahnstufe
    BY Spalten DEF Beleg
  <2> QED
    BY <2>2, <2>3, <2>4
<1>3. tage' \in [Belege -> 0 .. Fristen[3]]
  <2>1. tage \in [Belege -> 0 .. Fristen[3]]
    BY DEF IInv, TypeOK
  <2> QED
    BY <1>1, <2>1, Konstanten
<1>4. belege' \in [Belege -> Beleg]
  BY <1>1, <1>2
<1>5. TypeOK'
  BY <1>1, <1>3, <1>4 DEF IInv, TypeOK
<1>6. \A a \in Akteure, i \in Belege : /\ ~ Haelt(a, i) /\ ~ Haelt(a, i)'
                                       /\ ~ Verschickt(a, i) /\ ~ Verschickt(a, i)'
  BY <1>1 DEF Haelt, Verschickt, Bei
<1>7. ASSUME NEW i \in Belege PROVE Stand(i)'
  <2>1. Erhalten(i)' = Erhalten(i) /\ ~ Imversand(i)
    BY <1>1 DEF Erhalten, Imversand, Bei
  <2>2. Tagesstufen(i)' \subseteq {belege'[i].mahnstufe}
    BY <1>6 DEF Tagesstufen
  <2>3. heutige'[i] = 0 /\ versandt' = versandt
    BY <1>1
  <2> QED
    BY <1>2, <1>6, <2>1, <2>2, <2>3 DEF IInv, Stand
<1>8. \A a \in Akteure : Kopie(a)'
  BY <1>1, KopieBleibt DEF IInv
<1>9. \A l \in Laeufe : Lauffrist(l)'
  BY <1>1 DEF IInv, Lauffrist, Haelt, Bei, Akteure
<1> QED
  BY <1>5, <1>7, <1>8, <1>9 DEF IInv

LEMMA AbsturzGut ==
  ASSUME IInv, Absturz
  PROVE  IInv'
<1>1. /\ ort' = [a \in Akteure |-> "bereit"] /\ auftrag' = [a \in Akteure |-> Ruhe]
      /\ entitaet' = [a \in Akteure |-> Gestellt] /\ liste' = [l \in Laeufe |-> {}]
      /\ verloren' = [i \in Belege |-> verloren[i] \cup Unterwegs(i)]
      /\ UNCHANGED <<belege, tage, versandt, heutige>>
  BY DEF Absturz
<1>2. \A i \in Belege : Unterwegs(i) = {neueStufe(Stufe(a)) : a \in {x \in Akteure : Verschickt(x, i)}}
  BY DEF Unterwegs, Verschickt, Stufe
<1>3. \A a \in Akteure : neueStufe(Stufe(a)) \in Stufen
  BY Stufenrechnung DEF IInv, TypeOK, Beleg, Stufe
<1>4. TypeOK'
  <2>1. Gestellt \in Beleg
    BY DEF Gestellt, Beleg, Status, Datum
  <2>2. Ruhe \in [op : Operationen, id : Belege, status : Status]
    BY Konstanten DEF Ruhe, Operationen, Status
  <2>3. verloren' \in [Belege -> SUBSET Stufen]
    BY <1>1, <1>2, <1>3 DEF IInv, TypeOK
  <2> QED
    BY <1>1, <2>1, <2>2, <2>3 DEF IInv, TypeOK, Orte
<1>5. \A a \in Akteure, i \in Belege : ~ Haelt(a, i)' /\ ~ Verschickt(a, i)' /\ ~ Imversand(i)'
  BY <1>1 DEF Haelt, Verschickt, Bei, Imversand
<1>6. \A i \in Belege : Tagesstufen(i)' \subseteq Tagesstufen(i)
  BY <1>1, <1>5 DEF Tagesstufen
<1>7. ASSUME NEW i \in Belege PROVE Stand(i)'
  <2>1. SUFFICES ASSUME belege[i].status = "offen" PROVE Stand(i)'
    BY <1>1 DEF Stand
  <2>2. Stand(i)
    BY DEF IInv
  <2>3. Erhalten(i)' = Erhalten(i) \cup Unterwegs(i)
    BY <1>1 DEF Erhalten
  <2>4. 1 .. belege[i].mahnstufe = Erhalten(i)'
    <3>1. CASE \E a \in Akteure : Verschickt(a, i)
      <4>1. PICK a \in Akteure : Verschickt(a, i)
        BY <3>1
      <4>2. /\ Stufe(a) \in 0 .. 3 /\ belege[i].mahnstufe = neueStufe(Stufe(a))
            /\ 1 .. Stufe(a) = Erhalten(i)
            /\ \A c \in Akteure : Verschickt(c, i) => Stufe(c) = Stufe(a)
        BY <2>1, <4>1, Versender
      <4>3. Unterwegs(i) = {neueStufe(Stufe(a))}
        BY <1>2, <4>1, <4>2
      <4> QED
        BY <2>3, <4>2, <4>3, Stufenrechnung
    <3>2. CASE ~ \E a \in Akteure : Verschickt(a, i)
      <4>1. ~ Imversand(i) /\ Unterwegs(i) = {}
        BY <1>2, <3>2 DEF Imversand, Verschickt
      <4> QED
        BY <2>1, <2>2, <2>3, <4>1 DEF Stand
    <3> QED
      BY <3>1, <3>2
  <2> QED
    BY <1>1, <1>5, <1>6, <2>1, <2>2, <2>4 DEF Stand
<1>8. \A a \in Akteure : Kopie(a)'
  BY <1>1, Konstanten DEF Kopie, Haelt, Bei
<1>9. \A l \in Laeufe : Lauffrist(l)'
  BY <1>1 DEF Lauffrist, Haelt, Bei, Akteure
<1> QED
  BY <1>4, <1>7, <1>8, <1>9 DEF IInv

LEMMA InitGut ==
  ASSUME Init
  PROVE  IInv
<1>1. TypeOK
  <2>1. Gestellt \in Beleg
    BY DEF Gestellt, Beleg, Status, Datum
  <2>2. Ruhe \in [op : Operationen, id : Belege, status : Status]
    BY Konstanten DEF Ruhe, Operationen, Status
  <2> QED
    BY <2>1, <2>2, Konstanten DEF Init, TypeOK, Orte
<1>2. \A a \in Akteure, i \in Belege : ~ Haelt(a, i) /\ ~ Verschickt(a, i)
  BY DEF Init, Haelt, Verschickt, Bei
<1>3. ASSUME NEW i \in Belege PROVE Stand(i)
  <2>1. Tagesstufen(i) \subseteq {0}
    BY <1>2 DEF Init, Tagesstufen, Gestellt
  <2>2. Erhalten(i) = {} /\ belege[i].mahnstufe = 0
    BY DEF Init, Erhalten, Gestellt
  <2> QED
    BY <1>2, <2>1, <2>2 DEF Init, Stand
<1>4. \A a \in Akteure : Kopie(a)
  BY Konstanten DEF Init, Kopie, Haelt, Bei
<1>5. \A l \in Laeufe : Lauffrist(l)
  BY DEF Init, Lauffrist, Haelt, Bei, Akteure
<1> QED
  BY <1>1, <1>3, <1>4, <1>5 DEF IInv

LEMMA NextGut ==
  ASSUME IInv, NieOffen, [Next]_vars
  PROVE  IInv'
<1>1. CASE UNCHANGED vars
  <2>1. UNCHANGED <<belege, tage, ort, auftrag, entitaet, liste, versandt, heutige, verloren>>
    BY <1>1 DEF vars, anfragen, geschichte
  <2>2. TypeOK'
    BY <2>1 DEF IInv, TypeOK
  <2>3. \A i \in Belege : Stand(i)'
    <3>1. ASSUME NEW i \in Belege
          PROVE  /\ Tagesstufen(i)' = Tagesstufen(i) /\ Erhalten(i)' = Erhalten(i)
                 /\ Imversand(i)' <=> Imversand(i)
                 /\ \A a \in Akteure : Stufe(a)' = Stufe(a) /\ (Verschickt(a, i)' <=> Verschickt(a, i))
      BY <2>1 DEF Tagesstufen, Erhalten, Imversand, Verschickt, Haelt, Bei, Stufe
    <3> QED
      BY <2>1, <3>1 DEF IInv, Stand
  <2>4. \A a \in Akteure : Kopie(a)'
    BY <2>1, KopieBleibt DEF IInv
  <2>5. \A l \in Laeufe : Lauffrist(l)'
    BY <2>1 DEF IInv, Lauffrist, Tagesstufen, Haelt, Bei, Stufe, faelligeStufe
  <2> QED
    BY <2>2, <2>3, <2>4, <2>5 DEF IInv
<1>2. CASE Next
  <2>1. \A a \in Anfragen : Bedient(a) => IInv'
    BY EmailLesenGut, EmailMerkenGut, StatusLesenGut, StatusSchreibenGut DEF Bedient
  <2> QED
    BY <1>2, <2>1, MahntGut, NimmGut, LaufSchrittGut, StornorechnungGut, TagWechseltGut, AbsturzGut DEF Next
<1> QED
  BY <1>1, <1>2

-------------------------------------------------------------------------------
(***************************************************************************)
(* Theorems.                                                               *)
(***************************************************************************)

\* The inductive invariant holds in every reachable state.
THEOREM Induktion ==
  ASSUME NieOffen
  PROVE  Spec => []IInv
<1>1. Init => IInv
  BY InitGut
<1>2. IInv /\ [Next]_vars => IInv'
  BY NextGut
<1> QED
  BY <1>1, <1>2, PTL DEF Spec

\* No level leaves 0 .. 3 and no request stores a row the code could not read, whatever
\* claims, fails and is rolled back.
THEOREM TypenBewiesen ==
  ASSUME NieOffen
  PROVE  Spec => []TypeOK
<1>1. IInv => TypeOK
  BY DEF IInv
<1> QED
  BY <1>1, Induktion, PTL

\* While an invoice is open its Zahlungserinnerung and its 1. Mahnung go out at most once
\* each, whichever requests and runs dun it (sendMahnung's conditional claim).
THEOREM StufeEinmal ==
  ASSUME NieOffen
  PROVE  Spec => []JedeStufeEinmal
<1>1. IInv => JedeStufeEinmal
  BY DEF IInv, Stand, JedeStufeEinmal
<1> QED
  BY <1>1, Induktion, PTL

\* The stored level of an open invoice is what was mailed or cut off by a crash
\* (sendMahnung: the claim, and what is written back when the mail fails).
THEOREM StufeIstErhalten ==
  ASSUME NieOffen
  PROVE  Spec => []StufeStimmt
<1>1. IInv => StufeStimmt
  BY DEF IInv, Stand, StufeStimmt, Erhalten
<1> QED
  BY <1>1, Induktion, PTL

\* Below the last level an open invoice is dunned once a day (sendMahnung's guard of the
\* day together with its claim).
THEOREM HoechstensEineAmTag ==
  ASSUME NieOffen
  PROVE  Spec => []EineAmTag
<1>1. ASSUME IInv, NEW i \in Belege, belege[i].status = "offen", heutige[i] = 2
      PROVE  belege[i].mahnstufe = 3
  <2>1. Stand(i) /\ belege[i].mahnstufe \in 0 .. 3
    BY <1>1 DEF IInv, TypeOK, Beleg
  <2> QED
    BY <1>1, <2>1 DEF Stand
<1>2. IInv => EineAmTag
  BY <1>1 DEF EineAmTag
<1> QED
  BY <1>2, Induktion, PTL

\* No run mails a level before it is due, however old its list (processTenant).
THEOREM LaufWartetDieFrist ==
  ASSUME NieOffen
  PROVE  Spec => NieVorDerFrist
<1>1. ASSUME IInv, NEW l \in Laeufe, MahnungVersandt(l)
      PROVE  neueStufe(entitaet[l].mahnstufe) <= faelligeStufe(tage[auftrag[l].id])
  <2>1. l \in Akteure /\ auftrag[l].id \in Belege /\ Haelt(l, auftrag[l].id)
    BY <1>1 DEF IInv, TypeOK, Akteure, MahnungVersandt, Haelt
  <2>2. Stufe(l) < faelligeStufe(tage[auftrag[l].id])
    BY <1>1, <2>1 DEF IInv, Lauffrist
  <2>3. Stufe(l) \in 0 .. 3 /\ tage[auftrag[l].id] \in Nat
    BY <2>1, <1>1, Konstanten DEF IInv, TypeOK, Beleg, Stufe
  <2> QED
    BY <2>2, <2>3, Stufenrechnung DEF Stufe
<1>2. IInv => [\A l \in Laeufe : MahnungVersandt(l) =>
                 neueStufe(entitaet[l].mahnstufe) <= faelligeStufe(tage[auftrag[l].id])]_vars
  BY <1>1
<1> QED
  BY <1>2, Induktion, PTL DEF NieVorDerFrist

\* An invoice that was paid or cancelled never opens again, dunning or not.
THEOREM GeschlossenBleibtGeschlossen ==
  ASSUME NieOffen
  PROVE  Spec => AbgeschlossenBleibt
<1>1. ASSUME IInv, [Next]_vars, NEW i \in Belege, belege[i].status # "offen"
      PROVE  belege'[i].status # "offen"
  <2>1. belege \in [Belege -> Beleg]
    BY <1>1 DEF IInv, TypeOK
  <2>2. CASE UNCHANGED belege
    BY <1>1, <2>2
  <2>3. ASSUME NEW a \in Akteure, Mahnt(a) PROVE belege'[i].status # "offen" \/ UNCHANGED belege
    <3>1. CASE MahnungLesen(a) \/ MahnungVersandt(a)
      BY <3>1 DEF MahnungLesen, MahnungVersandt, Lehneab
    <3>2. CASE MahnungBeanspruchen(a)
      BY <1>1, <2>1, <3>2 DEF MahnungBeanspruchen, Lehneab, Beleg
    <3>3. CASE MahnungGescheitert(a)
      BY <1>1, <2>1, <3>3 DEF MahnungGescheitert, Ruecknahme, Beleg
    <3> QED
      BY <2>3, <3>1, <3>2, <3>3 DEF Mahnt
  <2>4. ASSUME NEW a \in Anfragen, Beginnt(a) \/ Bedient(a)
        PROVE  belege'[i].status # "offen" \/ UNCHANGED belege
    <3>1. CASE Beginnt(a) \/ EmailLesen(a) \/ StatusLesen(a)
      BY <3>1 DEF Beginnt, NimmMahnung, NimmEmail, NimmStatus, Nimm, EmailLesen, StatusLesen, Lehneab
    <3>2. CASE EmailMerken(a)
      BY <1>1, <2>1, <3>2 DEF EmailMerken, Beleg
    <3>3. CASE StatusSchreiben(a)
      <4>1. entitaet[a].status # "offen"
        BY <1>1, <3>3 DEF IInv, Kopie, StatusSchreiben, Akteure
      <4> QED
        BY <1>1, <2>1, <3>3, <4>1 DEF StatusSchreiben
    <3> QED
      BY <2>4, <3>1, <3>2, <3>3 DEF Bedient
  <2>5. ASSUME NEW l \in Laeufe, LaufBeginnt(l) \/ Lauf(l) PROVE UNCHANGED belege
    BY <2>5 DEF LaufBeginnt, Lauf, LaufLaedt, LaufScheitert, LaufEintrag, LaufEndet
  <2>6. ASSUME NEW id \in Belege, Stornorechnung(id) PROVE belege'[i].status # "offen"
    BY <1>1, <2>1, <2>6 DEF Stornorechnung, Beleg
  <2>7. CASE TagWechselt
    BY <1>1, <2>1, <2>7 DEF TagWechselt, Gealtert, Beleg
  <2>8. CASE Absturz
    BY <2>2, <2>8 DEF Absturz
  <2>9. CASE UNCHANGED vars
    BY <2>2, <2>9 DEF vars
  <2> QED
    BY <1>1, <2>2, <2>3, <2>4, <2>5, <2>6, <2>7, <2>8, <2>9 DEF Next
<1>2. IInv /\ [Next]_vars =>
        [\A i \in Belege : belege[i].status # "offen" => belege'[i].status # "offen"]_vars
  BY <1>1
<1> QED
  BY <1>2, Induktion, PTL DEF AbgeschlossenBleibt, Spec
===============================================================================
