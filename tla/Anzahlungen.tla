------------------------------ MODULE Anzahlungen ------------------------------
(***************************************************************************)
(* The down payments (Anzahlungen) of one order and their deduction from   *)
(* its final invoice: createAnzahlung, createFromOrder, and the requests   *)
(* that issue, pay and cancel an Anzahlung (invoices.service.ts).  Each    *)
(* database call is one step.  createFromOrder binds the Anzahlungen to a  *)
(* marker, deducts what it has bound, and then binds them to the invoice.  *)
(* Prices are whole numbers; numbers, items and VAT are left out.          *)
(***************************************************************************)
EXTENDS Server, Integers, FiniteSetsExt

CONSTANTS
  Einzeln,         \* restriction: what saves an Anzahlung overlaps no other request
  Belege,          \* the invoices that are, or may become, Anzahlungen of the order
  Netto,           \* the net amount of each Anzahlung
  Auftragssumme,   \* the net amount of the order
  MaxAnzahlungen   \* bound: how many requests begin

\* What the constants have to satisfy: MCAuftrag assumes it.
AnzahlungenAssumption ==
  /\ Belege # {}
  /\ Einzeln \in BOOLEAN
  /\ Netto \in [Belege -> Nat] /\ Auftragssumme \in Nat
  /\ MaxAnzahlungen \in Nat /\ MaxAbstuerze \in Nat

VARIABLES
  belege,          \* the stored rows
  schluss,         \* the invoices createFromOrder has created, with what each deducts
  zOrt,            \* where in its operation each request waits
  zAuftrag,        \* what each request is doing
  zEntitaet,       \* the row it holds in memory
  auswahl,         \* the Anzahlungen it has found
  abgebrochen,     \* history: the requests a crash has cut off
  zZaehler         \* for the bounds; also numbers markers and invoices

zAnfragen == <<zOrt, zAuftrag, zEntitaet, auswahl>>
zVars == <<belege, schluss, zAnfragen, abgebrochen, zZaehler>>

Status == {"fehlt", "entwurf", "offen", "bezahlt", "storniert"}

\* anzahlungFuerInvoiceId: NULL, another invoice, a marker, or the final invoice.
Bezug == [art : {"frei", "basis", "marker", "rechnung"}, nr : 0 .. MaxAnzahlungen]

Frei == [art |-> "frei", nr |-> 0]
Basis == [art |-> "basis", nr |-> 0]
Marker(n) == [art |-> "marker", nr |-> n]
Rechnung(n) == [art |-> "rechnung", nr |-> n]

ZZeile == [status : Status, istAnzahlung : BOOLEAN, fuer : Bezug, korrigiert : BOOLEAN]

Fehlt == [status |-> "fehlt", istAnzahlung |-> FALSE, fuer |-> Frei, korrigiert |-> FALSE]

\* What requests that did not overlap may have left behind.
Anfangszeilen ==
  {Fehlt} \cup {[Fehlt EXCEPT !.status = s, !.istAnzahlung = TRUE] : s \in {"offen", "bezahlt"}}

ZOperationen == {"ruhe", "anzahlung", "status", "schluss"}

Orte == {"bereit", "lesen", "kennzeichnen", "schreiben", "beanspruchen", "rechnen",
         "freigeben", "anlegen", "umhaengen"}

ZRuhe == [op |-> "ruhe", id |-> CHOOSE x \in Belege : TRUE, status |-> "offen", fuer |-> Frei, nr |-> 0]

-------------------------------------------------------------------------------
(***************************************************************************)
(* The course of a request.                                                *)
(***************************************************************************)
ZBei(a, op, o) == zOrt[a] = o /\ zAuftrag[a].op = op

ZLaufende == {zAuftrag[a].op : a \in {x \in Anfragen : zOrt[x] # "bereit"}}

ZVertraeglich(op) == Einzeln => ZLaufende \subseteq ({op} \cap {"schluss"})

ZNimm(a, auf) ==
  /\ zOrt[a] = "bereit"
  /\ zZaehler.anfragen < MaxAnzahlungen
  /\ ZVertraeglich(auf.op)
  /\ zOrt' = [zOrt EXCEPT ![a] = "lesen"]
  /\ zAuftrag' = [zAuftrag EXCEPT ![a] = [auf EXCEPT !.nr = zZaehler.anfragen + 1]]
  /\ zZaehler' = [zZaehler EXCEPT !.anfragen = @ + 1]
  /\ UNCHANGED <<belege, schluss, zEntitaet, auswahl, abgebrochen>>

ZWeiter(a, o) ==
  /\ zOrt' = [zOrt EXCEPT ![a] = o]
  /\ UNCHANGED <<zAuftrag, abgebrochen, zZaehler>>

ZBeende(a) ==
  /\ zOrt' = [zOrt EXCEPT ![a] = "bereit"]
  /\ zAuftrag' = [zAuftrag EXCEPT ![a] = ZRuhe]
  /\ zEntitaet' = [zEntitaet EXCEPT ![a] = Fehlt]
  /\ auswahl' = [auswahl EXCEPT ![a] = {}]
  /\ UNCHANGED <<abgebrochen, zZaehler>>

ZLehneab(a) == ZBeende(a) /\ UNCHANGED <<belege, schluss>>

-------------------------------------------------------------------------------
(***************************************************************************)
(* createAnzahlung: a draft, which a second statement makes an Anzahlung.  *)
(***************************************************************************)
NimmAnzahlung(a) ==
  \E x \in Belege, f \in {Frei, Basis} :
    /\ belege[x].status = "fehlt"
    /\ \A y \in Anfragen : ~ (zAuftrag[y].op = "anzahlung" /\ zAuftrag[y].id = x)
    /\ ZNimm(a, [ZRuhe EXCEPT !.op = "anzahlung", !.id = x, !.fuer = f])

AnzahlungAnlegen(a) ==
  /\ ZBei(a, "anzahlung", "lesen")
  /\ belege' = [belege EXCEPT ![zAuftrag[a].id].status = "entwurf"]
  /\ ZWeiter(a, "kennzeichnen")
  /\ UNCHANGED <<schluss, zEntitaet, auswahl>>

AnzahlungKennzeichnen(a) ==
  /\ ZBei(a, "anzahlung", "kennzeichnen")
  /\ belege' = [belege EXCEPT ![zAuftrag[a].id].istAnzahlung = TRUE,
                              ![zAuftrag[a].id].fuer = zAuftrag[a].fuer]
  /\ ZBeende(a)
  /\ UNCHANGED schluss

-------------------------------------------------------------------------------
(***************************************************************************)
(* changeStatus and markPaid save the whole row as they have read it, the  *)
(* binding included.                                                       *)
(***************************************************************************)
NimmStatus(a) ==
  \E x \in Belege, z \in {"offen", "bezahlt", "storniert"} :
    /\ belege[x].status # "fehlt"
    /\ ZNimm(a, [ZRuhe EXCEPT !.op = "status", !.id = x, !.status = z])

Erlaubt(b, z) ==
  /\ ~ b.korrigiert
  /\ \/ z = b.status
     \/ b.status = "entwurf" /\ z = "offen"
     \/ b.status = "offen" /\ z \in {"bezahlt", "storniert"}
     \/ b.status = "bezahlt" /\ z = "storniert"

StatusLesen(a) ==
  LET b == belege[zAuftrag[a].id]
      z == zAuftrag[a].status
  IN /\ ZBei(a, "status", "lesen")
     /\ \/ ~ Erlaubt(b, z) /\ ZLehneab(a)
        \/ /\ Erlaubt(b, z)
           /\ zEntitaet' = [zEntitaet EXCEPT ![a] = [b EXCEPT !.status = z]]
           /\ ZWeiter(a, "schreiben")
           /\ UNCHANGED <<belege, schluss, auswahl>>

StatusSchreiben(a) ==
  /\ ZBei(a, "status", "schreiben")
  /\ belege' = [belege EXCEPT ![zAuftrag[a].id] = zEntitaet[a]]
  /\ ZBeende(a)
  /\ UNCHANGED schluss

\* erstelleStornorechnung's last statement sets nothing but the back reference.
Stornorechnung(x) ==
  /\ belege[x].status \in {"offen", "bezahlt"} /\ ~ belege[x].korrigiert
  /\ belege' = [belege EXCEPT ![x].korrigiert = TRUE]
  /\ UNCHANGED <<schluss, zAnfragen, abgebrochen, zZaehler>>

-------------------------------------------------------------------------------
(***************************************************************************)
(* createFromOrder                                                         *)
(***************************************************************************)
NimmSchluss(a) == ZNimm(a, [ZRuhe EXCEPT !.op = "schluss"])

Verrechenbar(b) == b.istAnzahlung /\ b.status = "bezahlt" /\ b.fuer = Frei

Kandidaten == {x \in Belege : Verrechenbar(belege[x])}

SchlussLesen(a) ==
  /\ ZBei(a, "schluss", "lesen")
  /\ auswahl' = [auswahl EXCEPT ![a] = Kandidaten]
  /\ ZWeiter(a, IF Kandidaten = {} THEN "anlegen" ELSE "beanspruchen")
  /\ UNCHANGED <<belege, schluss, zEntitaet>>

\* (Mutant: the claim does not ask whether the Anzahlung is still free.)
BeanspruchbarImmer(x) == TRUE

Beanspruchbar(x) == belege[x].fuer = Frei

Umgehaengt(von, nach) ==
  [x \in Belege |-> IF belege[x].fuer = von THEN [belege[x] EXCEPT !.fuer = nach] ELSE belege[x]]

SchlussBeanspruchen(a) ==
  /\ ZBei(a, "schluss", "beanspruchen")
  /\ belege' = [x \in Belege |->
                  IF x \in auswahl[a] /\ Beanspruchbar(x)
                    THEN [belege[x] EXCEPT !.fuer = Marker(zAuftrag[a].nr)] ELSE belege[x]]
  /\ ZWeiter(a, "rechnen")
  /\ UNCHANGED <<schluss, zEntitaet, auswahl>>

\* (Mutant: what was found is deducted, not what was bound.)
GeclaimtWieGefunden(a) == auswahl[a]

Geclaimt(a) == {x \in Belege : belege[x].fuer = Marker(zAuftrag[a].nr)}

SchlussRechnen(a) ==
  LET abzug == MapThenSumSet(LAMBDA x : Netto[x], Geclaimt(a))
  IN /\ ZBei(a, "schluss", "rechnen")
     /\ auswahl' = [auswahl EXCEPT ![a] = Geclaimt(a)]
     /\ ZWeiter(a, IF abzug > Auftragssumme THEN "freigeben" ELSE "anlegen")
     /\ UNCHANGED <<belege, schluss, zEntitaet>>

\* Assumption: create saves the invoice if and only if it returns.
SchlussAnlegen(a) ==
  /\ ZBei(a, "schluss", "anlegen")
  /\ schluss' = schluss \cup {[nr |-> zAuftrag[a].nr, abzug |-> auswahl[a]]}
  /\ UNCHANGED belege
  /\ \/ auswahl[a] = {} /\ ZBeende(a)
     \/ auswahl[a] # {} /\ ZWeiter(a, "umhaengen") /\ UNCHANGED <<zEntitaet, auswahl>>

SchlussScheitert(a) ==
  /\ ZBei(a, "schluss", "anlegen")
  /\ ZWeiter(a, "freigeben")
  /\ UNCHANGED <<belege, schluss, zEntitaet, auswahl>>

\* (Mutant: a failure leaves the marker.)
FreigabeKeine(a) == belege

\* (Mutant: the marker is replaced by something that is not NULL.)
FreigabeLeer(a) == Umgehaengt(Marker(zAuftrag[a].nr), [art |-> "leer", nr |-> 0])

ZFreigabe(a) == Umgehaengt(Marker(zAuftrag[a].nr), Frei)

SchlussFreigeben(a) ==
  /\ ZBei(a, "schluss", "freigeben")
  /\ belege' = ZFreigabe(a)
  /\ ZBeende(a)
  /\ UNCHANGED schluss

SchlussUmhaengen(a) ==
  /\ ZBei(a, "schluss", "umhaengen")
  /\ belege' = Umgehaengt(Marker(zAuftrag[a].nr), Rechnung(zAuftrag[a].nr))
  /\ ZBeende(a)
  /\ UNCHANGED schluss

-------------------------------------------------------------------------------
ZAbsturz ==
  /\ zZaehler.abstuerze < MaxAbstuerze
  /\ \E a \in Anfragen : zOrt[a] # "bereit"
  /\ zZaehler' = [zZaehler EXCEPT !.abstuerze = @ + 1]
  /\ abgebrochen' = abgebrochen \cup {zAuftrag[a].nr : a \in {x \in Anfragen : zOrt[x] # "bereit"}}
  /\ zOrt' = [a \in Anfragen |-> "bereit"]
  /\ zAuftrag' = [a \in Anfragen |-> ZRuhe]
  /\ zEntitaet' = [a \in Anfragen |-> Fehlt]
  /\ auswahl' = [a \in Anfragen |-> {}]
  /\ UNCHANGED <<belege, schluss>>

ZKeine == [anfragen |-> 0, abstuerze |-> 0]

ZAlle == [anfragen |-> MaxAnzahlungen, abstuerze |-> MaxAbstuerze]

ZInitMit(z) ==
  /\ belege \in [Belege -> Anfangszeilen]
  /\ schluss = {}
  /\ zOrt = [a \in Anfragen |-> "bereit"]
  /\ zAuftrag = [a \in Anfragen |-> ZRuhe]
  /\ zEntitaet = [a \in Anfragen |-> Fehlt]
  /\ auswahl = [a \in Anfragen |-> {}]
  /\ abgebrochen = {}
  /\ zZaehler = z

ZInit == ZInitMit(ZKeine)

Beginnt(a) == NimmAnzahlung(a) \/ NimmStatus(a) \/ NimmSchluss(a)

Bedient(a) ==
  \/ AnzahlungAnlegen(a) \/ AnzahlungKennzeichnen(a) \/ StatusLesen(a) \/ StatusSchreiben(a)
  \/ SchlussLesen(a) \/ SchlussBeanspruchen(a) \/ SchlussRechnen(a) \/ SchlussAnlegen(a)
  \/ SchlussScheitert(a) \/ SchlussFreigeben(a) \/ SchlussUmhaengen(a)

ZNext ==
  \/ \E a \in Anfragen : Beginnt(a) \/ Bedient(a)
  \/ \E x \in Belege : Stornorechnung(x)
  \/ ZAbsturz

\* The server goes on with every request it has taken.
Fairness == \A a \in Anfragen : WF_zVars(Bedient(a))

ZSpec == ZInit /\ [][ZNext]_zVars /\ Fairness

-------------------------------------------------------------------------------
(***************************************************************************)
(* Properties.                                                             *)
(***************************************************************************)

\* Every row, every request and every history variable has the form its code gives it.
ZTypeOK ==
  /\ belege \in [Belege -> ZZeile]
  /\ schluss \subseteq [nr : 1 .. MaxAnzahlungen, abzug : SUBSET Belege]
  /\ zOrt \in [Anfragen -> Orte]
  /\ zAuftrag \in [Anfragen -> [op : ZOperationen, id : Belege, status : Status, fuer : Bezug,
                                nr : 0 .. MaxAnzahlungen]]
  /\ zEntitaet \in [Anfragen -> ZZeile]
  /\ auswahl \in [Anfragen -> SUBSET Belege]
  /\ abgebrochen \subseteq 1 .. MaxAnzahlungen
  /\ zZaehler \in [anfragen : 0 .. MaxAnzahlungen, abstuerze : 0 .. MaxAbstuerze]

\* What an invoice deducts is what is bound to it or to its marker, and nothing else is: the
\* stored binding tells which Anzahlungen are used up.  So no Anzahlung is deducted by two
\* final invoices, however many of them are created at the same time, fail, or are cut off
\* (createFromOrder: "duerfen sie dieselbe Anzahlung NICHT beide abziehen").
BindungStimmt ==
  /\ \A r \in schluss : r.abzug = {x \in Belege : belege[x].fuer \in {Marker(r.nr), Rechnung(r.nr)}}
  /\ \A x \in Belege : belege[x].fuer.art = "rechnung" =>
       \E r \in schluss : r.nr = belege[x].fuer.nr /\ x \in r.abzug

Haengt(x) == belege[x].fuer.art = "marker" /\ belege[x].fuer.nr \notin abgebrochen

\* An Anzahlung never hangs on a marker for good, whichever way its request ends, unless
\* the process died in it.
MarkerLoestSich == \A x \in Belege : Haengt(x) ~> ~ Haengt(x)
===============================================================================
