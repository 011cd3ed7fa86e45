------------------------------- MODULE Mahnwesen -------------------------------
(***************************************************************************)
(* The dunning of issued invoices: sendMahnung (invoices.service.ts),      *)
(* called by users and by the daily job (mahn-automatik.service.ts),       *)
(* beside the requests that pay, cancel, correct or mail the same          *)
(* invoices.  Each database call and each mail is one step.  The invoice   *)
(* is already issued and its customer has an address; fees, texts and the  *)
(* PDF are left out.  A stored date is abstracted to what the code asks of *)
(* it: whether it is today.  A mail counts as sent when mail.send returns; *)
(* one that was reported as failed is taken for not sent.                  *)
(***************************************************************************)
EXTENDS Integers

CONSTANTS
  Belege,          \* the issued invoices of one tenant
  Anfragen,        \* the HTTP requests the server works on at the same time
  Laeufe,          \* the runs of the daily job that may be under way at the same time
  Fristen,         \* the tenant's days overdue for the levels 1, 2, 3
  Zielstatus,      \* the states changeStatus is asked for
  MaxAnfragen,     \* bound: how many requests begin on one day
  MaxLaeufe,       \* bound: how many runs begin on one day, at least one
  MaxVersand,      \* bound: how often invoices are mailed by sendByEmail in all
  MaxAbstuerze     \* bound: how often the server process crashes

Stufen == 1 .. 3

Status == {"offen", "bezahlt", "storniert"}

\* assertMahnwesenValid: whole days, at least one, strictly ascending.
FristenGueltig ==
  /\ Fristen \in [Stufen -> Nat \ {0}]
  /\ Fristen[1] < Fristen[2] /\ Fristen[2] < Fristen[3]

ASSUME MahnwesenAssumption ==
  /\ Belege # {}
  /\ FristenGueltig
  /\ Zielstatus \subseteq Status
  /\ Anfragen \cap Laeufe = {}
  /\ MaxAnfragen \in Nat /\ MaxLaeufe \in Nat \ {0}
  /\ MaxVersand \in Nat /\ MaxAbstuerze \in Nat

VARIABLES
  belege,          \* the stored rows
  tage,            \* the days each invoice is overdue, counted up to Fristen[3]
  ort,             \* where in its operation each request and each run waits
  auftrag,         \* what each of them is doing, to which invoice
  entitaet,        \* the row it holds in memory
  liste,           \* what is left of the list a run has read
  versandt,        \* history: Mahnungen mailed per invoice and level, counted up to 2
  heutige,         \* history: Mahnungen mailed today per invoice, counted up to 2
  verloren,        \* history: levels whose mail a crash has cut off
  zaehler          \* for the bounds: requests and runs of the day, mailings, crashes

anfragen == <<ort, auftrag, entitaet, liste>>
geschichte == <<versandt, heutige, verloren>>
vars == <<belege, tage, anfragen, geschichte, zaehler>>

Akteure == Anfragen \cup Laeufe

Datum == {"nie", "frueher", "heute"}

Beleg == [status : Status, korrigiert : BOOLEAN, mahnstufe : 0 .. 3, versendetAm : Datum]

Gestellt ==
  [status |-> "offen", korrigiert |-> FALSE, mahnstufe |-> 0, versendetAm |-> "nie"]

Operationen == {"ruhe", "mahnung", "email", "status", "storno"}

Orte == {"bereit", "lesen", "beanspruchen", "mail", "schreiben", "merken", "laden", "liste"}

Eintrag == [id : Belege, tage : Nat, mahnstufe : 0 .. 3, versendetAm : Datum]

Ruhe == [op |-> "ruhe", id |-> CHOOSE b \in Belege : TRUE, status |-> "offen"]

Mehr(n) == IF n = 2 THEN 2 ELSE n + 1

-------------------------------------------------------------------------------
(***************************************************************************)
(* The rules.                                                              *)
(***************************************************************************)
faelligeStufe(t) ==
  IF t >= Fristen[3] THEN 3
  ELSE IF t >= Fristen[2] THEN 2
  ELSE IF t >= Fristen[1] THEN 1 ELSE 0

\* (Mutant: without the cap.)
neueStufeOhneGrenze(alt) == alt + 1

neueStufe(alt) == IF alt = 3 THEN 3 ELSE alt + 1

Mahnbar(b) == b.status = "offen" /\ ~ b.korrigiert

\* The tenant's list of overdue invoices; those of less than a day are never due.
mahnliste ==
  {[id |-> i, tage |-> tage[i], mahnstufe |-> belege[i].mahnstufe,
    versendetAm |-> belege[i].versendetAm] : i \in {j \in Belege : Mahnbar(belege[j])}}

-------------------------------------------------------------------------------
(***************************************************************************)
(* The course of a request and of a run.                                   *)
(***************************************************************************)
Bei(a, op, o) == ort[a] = o /\ auftrag[a].op = op

Nimm(a, op, id, status) ==
  /\ ort[a] = "bereit"
  /\ zaehler.anfragen < MaxAnfragen
  /\ ort' = [ort EXCEPT ![a] = "lesen"]
  /\ auftrag' = [auftrag EXCEPT ![a] = [op |-> op, id |-> id, status |-> status]]
  /\ UNCHANGED <<belege, tage, entitaet, liste, geschichte>>

Weiter(a, o, b) ==
  /\ ort' = [ort EXCEPT ![a] = o]
  /\ entitaet' = [entitaet EXCEPT ![a] = b]
  /\ UNCHANGED <<tage, auftrag, liste, zaehler>>

\* The operation returns or throws: a request is over, a run turns to its next entry.
Beende(a) ==
  /\ ort' = [ort EXCEPT ![a] = IF a \in Laeufe THEN "liste" ELSE "bereit"]
  /\ auftrag' = [auftrag EXCEPT ![a] = Ruhe]
  /\ entitaet' = [entitaet EXCEPT ![a] = Gestellt]
  /\ UNCHANGED <<tage, liste, zaehler>>

Lehneab(a) == Beende(a) /\ UNCHANGED <<belege, geschichte>>

-------------------------------------------------------------------------------
(***************************************************************************)
(* sendMahnung                                                             *)
(***************************************************************************)
NimmMahnung(a) ==
  /\ \E id \in Belege : Nimm(a, "mahnung", id, "offen")
  /\ zaehler' = [zaehler EXCEPT !.anfragen = @ + 1]

\* (Mutant: no guard against a second Mahnung on the day.)
NieGesperrt(b) == ~ Mahnbar(b)

Gesperrt(b) == ~ Mahnbar(b) \/ b.versendetAm = "heute"

MahnungLesen(a) ==
  LET b == belege[auftrag[a].id]
  IN /\ Bei(a, "mahnung", "lesen")
     /\ \/ Gesperrt(b) /\ Lehneab(a)
        \/ ~ Gesperrt(b) /\ Weiter(a, "beanspruchen", b) /\ UNCHANGED <<belege, geschichte>>

\* (Mutant: the claim without its condition on the level.)
ImmerBeansprucht(b, alt) == TRUE

Beanspruchbar(b, alt) == b.mahnstufe = alt

\* The conditional update writes two columns and asks for nothing but the level.
MahnungBeanspruchen(a) ==
  LET id == auftrag[a].id
      alt == entitaet[a].mahnstufe
  IN /\ Bei(a, "mahnung", "beanspruchen")
     /\ \/ /\ Beanspruchbar(belege[id], alt)
           /\ belege' = [belege EXCEPT ![id].mahnstufe = neueStufe(alt),
                                       ![id].versendetAm = "heute"]
           /\ Weiter(a, "mail", entitaet[a])
           /\ UNCHANGED geschichte
        \/ ~ Beanspruchbar(belege[id], alt) /\ Lehneab(a)

MahnungVersandt(a) ==
  LET id == auftrag[a].id
      stufe == neueStufe(entitaet[a].mahnstufe)
  IN /\ Bei(a, "mahnung", "mail")
     /\ versandt' = [versandt EXCEPT ![id][stufe] = Mehr(@)]
     /\ heutige' = [heutige EXCEPT ![id] = Mehr(@)]
     /\ Beende(a)
     /\ UNCHANGED <<belege, verloren>>

\* (Mutant: the claim is taken back by saving the invoice as it was read.)
RuecknahmeGanzeZeile(b, alt) == alt

\* (Mutant: the claim is not taken back.)
KeineRuecknahme(b, alt) == b

\* What is written when the mail fails: the level and the date that were read.
Ruecknahme(b, alt) == [b EXCEPT !.mahnstufe = alt.mahnstufe, !.versendetAm = alt.versendetAm]

MahnungGescheitert(a) ==
  LET id == auftrag[a].id
  IN /\ Bei(a, "mahnung", "mail")
     /\ belege' = [belege EXCEPT ![id] = Ruecknahme(@, entitaet[a])]
     /\ Beende(a)
     /\ UNCHANGED geschichte

-------------------------------------------------------------------------------
(***************************************************************************)
(* The daily job: one list per run, worked through entry by entry, the     *)
(* longest overdue first.  What an entry's Mahnung throws is caught.       *)
(***************************************************************************)
LaufBeginnt(l) ==
  /\ ort[l] = "bereit"
  /\ zaehler.laeufe < MaxLaeufe
  /\ zaehler' = [zaehler EXCEPT !.laeufe = @ + 1]
  /\ ort' = [ort EXCEPT ![l] = "laden"]
  /\ UNCHANGED <<belege, tage, auftrag, entitaet, liste, geschichte>>

LaufLaedt(l) ==
  /\ ort[l] = "laden"
  /\ ort' = [ort EXCEPT ![l] = "liste"]
  /\ liste' = [liste EXCEPT ![l] = mahnliste]
  /\ UNCHANGED <<belege, tage, auftrag, entitaet, geschichte, zaehler>>

\* The tenants, the plan or the list cannot be read: the run is over.
LaufScheitert(l) ==
  /\ ort[l] = "laden"
  /\ ort' = [ort EXCEPT ![l] = "bereit"]
  /\ UNCHANGED <<belege, tage, auftrag, entitaet, liste, geschichte, zaehler>>

Naechste(l) == {e \in liste[l] : \A f \in liste[l] : f.tage <= e.tage}

\* (Mutant: the job skips whatever was mailed at all.)
ZuMahnenNieVersandt(e) == faelligeStufe(e.tage) > e.mahnstufe /\ e.versendetAm = "nie"

ZuMahnen(e) == faelligeStufe(e.tage) > e.mahnstufe /\ e.versendetAm # "heute"

LaufEintrag(l) ==
  /\ ort[l] = "liste"
  /\ \E e \in Naechste(l) :
       /\ liste' = [liste EXCEPT ![l] = @ \ {e}]
       /\ \/ /\ ZuMahnen(e)
             /\ ort' = [ort EXCEPT ![l] = "lesen"]
             /\ auftrag' = [auftrag EXCEPT ![l] = [op |-> "mahnung", id |-> e.id, status |-> "offen"]]
          \/ ~ ZuMahnen(e) /\ UNCHANGED <<ort, auftrag>>
  /\ UNCHANGED <<belege, tage, entitaet, geschichte, zaehler>>

LaufEndet(l) ==
  /\ ort[l] = "liste" /\ liste[l] = {}
  /\ ort' = [ort EXCEPT ![l] = "bereit"]
  /\ UNCHANGED <<belege, tage, auftrag, entitaet, liste, geschichte, zaehler>>

-------------------------------------------------------------------------------
(***************************************************************************)
(* The other requests on an issued invoice.                                *)
(***************************************************************************)
\* sendByEmail refuses a cancelled or corrected invoice, mails it and then sets the date.
NimmEmail(a) ==
  /\ zaehler.mails < MaxVersand
  /\ \E id \in Belege : Nimm(a, "email", id, "offen")
  /\ zaehler' = [zaehler EXCEPT !.anfragen = @ + 1, !.mails = @ + 1]

EmailLesen(a) ==
  LET b == belege[auftrag[a].id]
  IN /\ Bei(a, "email", "lesen")
     /\ \/ (b.status = "storniert" \/ b.korrigiert) /\ Lehneab(a)
        \/ /\ b.status # "storniert" /\ ~ b.korrigiert
           /\ Weiter(a, "merken", b) /\ UNCHANGED <<belege, geschichte>>

EmailMerken(a) ==
  /\ Bei(a, "email", "merken")
  /\ belege' = [belege EXCEPT ![auftrag[a].id].versendetAm = "heute"]
  /\ Beende(a) /\ UNCHANGED geschichte

\* changeStatus, and markPaid for "bezahlt": the whole row is saved as it was read.
NimmStatus(a) ==
  /\ \E id \in Belege, z \in Zielstatus : Nimm(a, "status", id, z)
  /\ zaehler' = [zaehler EXCEPT !.anfragen = @ + 1]

Erlaubt(b, z) ==
  /\ ~ b.korrigiert
  /\ z = b.status \/ b.status = "offen" \/ (b.status = "bezahlt" /\ z = "storniert")

StatusLesen(a) ==
  LET b == belege[auftrag[a].id]
      z == auftrag[a].status
  IN /\ Bei(a, "status", "lesen")
     /\ \/ ~ Erlaubt(b, z) /\ Lehneab(a)
        \/ /\ Erlaubt(b, z)
           /\ Weiter(a, "schreiben", [b EXCEPT !.status = z]) /\ UNCHANGED <<belege, geschichte>>

StatusSchreiben(a) ==
  /\ Bei(a, "status", "schreiben")
  /\ belege' = [belege EXCEPT ![auftrag[a].id] = entitaet[a]]
  /\ Beende(a) /\ UNCHANGED geschichte

\* erstelleStornorechnung's last statement: the back reference, if there is none.
Stornorechnung(id) ==
  /\ ~ belege[id].korrigiert
  /\ belege' = [belege EXCEPT ![id].korrigiert = TRUE]
  /\ UNCHANGED <<tage, anfragen, geschichte, zaehler>>

-------------------------------------------------------------------------------
Init ==
  /\ belege = [i \in Belege |-> Gestellt]
  /\ tage = [i \in Belege |-> 0]
  /\ ort = [a \in Akteure |-> "bereit"]
  /\ auftrag = [a \in Akteure |-> Ruhe]
  /\ entitaet = [a \in Akteure |-> Gestellt]
  /\ liste = [l \in Laeufe |-> {}]
  /\ versandt = [i \in Belege |-> [n \in Stufen |-> 0]]
  /\ heutige = [i \in Belege |-> 0]
  /\ verloren = [i \in Belege |-> {}]
  /\ zaehler = [anfragen |-> 0, laeufe |-> 0, mails |-> 0, abstuerze |-> 0]

Gealtert(b) == [b EXCEPT !.versendetAm = IF @ = "heute" THEN "frueher" ELSE @]

\* Assumption: no request and no run lasts over midnight, and the timer has fired.
TagWechselt ==
  /\ \A a \in Akteure : ort[a] = "bereit"
  /\ zaehler.laeufe > 0
  /\ zaehler' = [zaehler EXCEPT !.anfragen = 0, !.laeufe = 0]
  /\ belege' = [i \in Belege |-> Gealtert(belege[i])]
  /\ tage' = [i \in Belege |-> IF tage[i] = Fristen[3] THEN tage[i] ELSE tage[i] + 1]
  /\ heutige' = [i \in Belege |-> 0]
  /\ UNCHANGED <<anfragen, versandt, verloren>>

\* The levels claimed for i whose mail is under way.
Unterwegs(i) ==
  {neueStufe(entitaet[a].mahnstufe) :
     a \in {x \in Akteure : Bei(x, "mahnung", "mail") /\ auftrag[x].id = i}}

\* The process dies with all requests and runs in it.
Absturz ==
  /\ zaehler.abstuerze < MaxAbstuerze
  /\ zaehler' = [zaehler EXCEPT !.abstuerze = @ + 1]
  /\ \E a \in Akteure : ort[a] # "bereit"
  /\ ort' = [a \in Akteure |-> "bereit"]
  /\ auftrag' = [a \in Akteure |-> Ruhe]
  /\ entitaet' = [a \in Akteure |-> Gestellt]
  /\ liste' = [l \in Laeufe |-> {}]
  /\ verloren' = [i \in Belege |-> verloren[i] \cup Unterwegs(i)]
  /\ UNCHANGED <<belege, tage, versandt, heutige>>

Mahnt(a) ==
  \/ MahnungLesen(a) \/ MahnungBeanspruchen(a) \/ MahnungVersandt(a) \/ MahnungGescheitert(a)

Beginnt(a) == NimmMahnung(a) \/ NimmEmail(a) \/ NimmStatus(a)

Bedient(a) == EmailLesen(a) \/ EmailMerken(a) \/ StatusLesen(a) \/ StatusSchreiben(a)

Lauf(l) == LaufLaedt(l) \/ LaufScheitert(l) \/ LaufEintrag(l) \/ LaufEndet(l)

Next ==
  \/ \E a \in Akteure : Mahnt(a)
  \/ \E a \in Anfragen : Beginnt(a) \/ Bedient(a)
  \/ \E l \in Laeufe : LaufBeginnt(l) \/ Lauf(l)
  \/ \E id \in Belege : Stornorechnung(id)
  \/ TagWechselt \/ Absturz

\* The timer fires every day, midnight comes, and the server goes on with whatever it has
\* begun; neither the list nor the mails of an invoice are refused for ever.
Fairness ==
  /\ WF_vars(TagWechselt)
  /\ \A a \in Anfragen : WF_vars(Mahnt(a) \/ Bedient(a))
  /\ \A l \in Laeufe : WF_vars(LaufBeginnt(l) \/ Lauf(l) \/ Mahnt(l)) /\ SF_vars(LaufLaedt(l))
  /\ \A a \in Akteure, i \in Belege : SF_vars(auftrag[a].id = i /\ MahnungVersandt(a))

Spec == Init /\ [][Next]_vars /\ Fairness

-------------------------------------------------------------------------------
(***************************************************************************)
(* Properties.                                                             *)
(***************************************************************************)

\* Every row, every request and every history variable has the form its code gives it.
TypeOK ==
  /\ belege \in [Belege -> Beleg]
  /\ tage \in [Belege -> 0 .. Fristen[3]]
  /\ ort \in [Akteure -> Orte]
  /\ auftrag \in [Akteure -> [op : Operationen, id : Belege, status : Status]]
  /\ entitaet \in [Akteure -> Beleg]
  /\ liste \in [Laeufe -> SUBSET Eintrag]
  /\ versandt \in [Belege -> [Stufen -> 0 .. 2]]
  /\ heutige \in [Belege -> 0 .. 2]
  /\ verloren \in [Belege -> SUBSET Stufen]

\* While an invoice is open nobody is sent its Zahlungserinnerung or its 1. Mahnung
\* twice, whichever users and runs dun it at the same time, fail and are repeated
\* (mahn-automatik.service.ts: "Dieselbe Stufe nie doppelt").
JedeStufeEinmal ==
  \A i \in Belege, n \in Stufen \ {3} : belege[i].status = "offen" => versandt[i][n] <= 1

Imversand(i) == \E a \in Akteure : Bei(a, "mahnung", "mail") /\ auftrag[a].id = i

\* The stored level of an open invoice is what the customer has got: every level up to
\* it was mailed or cut off by a crash while being mailed, and no level above it was.
StufeStimmt ==
  \A i \in Belege : belege[i].status = "offen" /\ ~ Imversand(i) =>
    1 .. belege[i].mahnstufe = {n \in Stufen : versandt[i][n] > 0} \cup verloren[i]

\* While an invoice is open and below the last level, no two Mahnungen for it are mailed
\* on one day (sendMahnung: "heute schon gemahnt? -> 409, kein zweiter Versand").
EineAmTag ==
  \A i \in Belege : belege[i].status = "offen" /\ heutige[i] = 2 => belege[i].mahnstufe = 3

\* A run never mails a level that is not due yet, however much its list has aged since
\* it was read.
NieVorDerFrist ==
  [][\A l \in Laeufe : MahnungVersandt(l) =>
       neueStufe(entitaet[l].mahnstufe) <= faelligeStufe(tage[auftrag[l].id])]_vars

\* Dunning never opens an invoice that was paid or cancelled while its mail was under
\* way, and no request brings it back.
AbgeschlossenBleibt ==
  [][\A i \in Belege : belege[i].status # "offen" => belege'[i].status # "offen"]_vars

Faellig(i) == Mahnbar(belege[i]) /\ belege[i].mahnstufe < faelligeStufe(tage[i])

\* What is due is dunned some day, or paid, cancelled or corrected before.
FaelligesWirdGemahnt == \A i \in Belege : Faellig(i) ~> ~ Faellig(i)
===============================================================================
