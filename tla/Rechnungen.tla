------------------------------ MODULE Rechnungen ------------------------------
(***************************************************************************)
(* The invoices of one tenant (invoices.service.ts, rows with art =        *)
(* RECHNUNG): drafting, issuing with a number, paying, cancelling and the  *)
(* correction by a Stornorechnung, and the HTTP requests that do it.  Each *)
(* database call of a request is one step; repo.save makes the stored row  *)
(* equal to the one in memory.  No invoice is ever deleted, so the table   *)
(* is a sequence and a row's id its position.  Items, customer, texts,     *)
(* dates, dunning, dispatch and the audit trail are left out; an amount    *)
(* stands for the whole content of a Beleg.                                *)
(***************************************************************************)
EXTENDS Integers, Sequences, FiniteSets

CONSTANTS
  Slots,            \* the requests the server works on at the same time
  Betraege,         \* the amounts, in cents, of the invoices
  Retries,          \* withUniqueRetry's retries (5 in the code)
  MaxBelege,        \* bound: how many rows are ever inserted
  MaxJahr,          \* bound: the last year
  JeBelegEinzeln,   \* TRUE: requests on the same invoice never overlap (nothing
                    \* in the code ensures it); FALSE: all requests overlap
  Abstuerze         \* whether the server process may crash

Status == {"entwurf", "offen", "bezahlt", "storniert"}

Operationen == {"update", "changeStatus", "markPaid", "stornorechnung"}

ASSUME RechnungenAssumption ==
  /\ Betraege \subseteq Nat \ {0}
  /\ Retries \in Nat /\ MaxBelege \in Nat /\ MaxJahr \in Nat \ {0}
  /\ JeBelegEinzeln \in BOOLEAN /\ Abstuerze \in BOOLEAN

VARIABLES
  belege,     \* the rows of the table
  jahr,       \* the calendar year
  ort,        \* where in its operation each request waits
  auftrag,    \* what each request was asked to do
  entitaet,   \* the row each request holds in memory
  versuch     \* how often withUniqueRetry has repeated the operation

vars == <<belege, jahr, ort, auftrag, entitaet, versuch>>

\* nummer = 0, stornoVon = 0 and storniertDurch = 0 are NULL; nummer and nrJahr are
\* the two parts of RE-<year>-<number>.
Beleg == [nummer : Nat, nrJahr : Nat, status : Status, betrag : Int,
          stornoVon : Nat, storniertDurch : Nat]

Entwurf(betrag) ==
  [nummer |-> 0, nrJahr |-> 0, status |-> "entwurf", betrag |-> betrag,
   stornoVon |-> 0, storniertDurch |-> 0]

Auftrag == [op : Operationen, id : Nat, betrag : Int, status : Status]

Fuer(op, id) == [op |-> op, id |-> id, betrag |-> 0, status |-> "entwurf"]

Ruhe == Fuer("update", 0)

Orte == {"bereit", "finden", "schreiben", "doppelt", "zaehlen", "festsetzen",
         "einfuegen", "verweis"}

-------------------------------------------------------------------------------
(***************************************************************************)
(* invoice-rules.ts                                                        *)
(***************************************************************************)
\* (Mutant: drafts and open invoices are editable.)
NurBezahlteFest(status) == status \notin {"entwurf", "offen"}

istFestgesetzt(status) == status # "entwurf"

RECHNUNG_UEBERGAENGE ==
  [entwurf |-> {"offen", "storniert"}, offen |-> {"bezahlt", "storniert"},
   bezahlt |-> {"storniert"}, storniert |-> {}]

statuswechselErlaubt(von, nach) == von = nach \/ nach \in RECHNUNG_UEBERGAENGE[von]

-------------------------------------------------------------------------------
(***************************************************************************)
(* The table.                                                              *)
(***************************************************************************)
IDs == 1 .. Len(belege)

Nummeriert(j) == {i \in IDs : belege[i].nummer # 0 /\ belege[i].nrJahr = j}

nextSequentialNumber == Cardinality(Nummeriert(jahr)) + 1

\* (Mutants: the table without one of its two unique indexes.)
KollidiertOhneNummernIndex(id, b) ==
  \E i \in IDs \ {id} : b.stornoVon # 0 /\ belege[i].stornoVon = b.stornoVon

KollidiertOhneStornoIndex(id, b) ==
  \E i \in IDs \ {id} : /\ b.nummer # 0
                        /\ belege[i].nummer = b.nummer /\ belege[i].nrJahr = b.nrJahr

\* The unique indexes (tenantId, nummer) and (tenantId, stornoVonInvoiceId); neither
\* counts NULLs.
Kollidiert(id, b) ==
  \E i \in IDs \ {id} :
    \/ b.nummer # 0 /\ belege[i].nummer = b.nummer /\ belege[i].nrJahr = b.nrJahr
    \/ b.stornoVon # 0 /\ belege[i].stornoVon = b.stornoVon

save(id, b) == belege' = [belege EXCEPT ![id] = b]

-------------------------------------------------------------------------------
(***************************************************************************)
(* The course of a request.                                                *)
(***************************************************************************)
Bei(s, op, o) == ort[s] = o /\ auftrag[s].op = op

Nimm(s, a) ==
  /\ ort[s] = "bereit"
  /\ JeBelegEinzeln => \A t \in Slots : ort[t] = "bereit" \/ auftrag[t].id # a.id
  /\ ort' = [ort EXCEPT ![s] = "finden"]
  /\ auftrag' = [auftrag EXCEPT ![s] = a]
  /\ UNCHANGED <<belege, jahr, entitaet, versuch>>

Weiter(s, o, b) ==
  /\ ort' = [ort EXCEPT ![s] = o]
  /\ entitaet' = [entitaet EXCEPT ![s] = b]
  /\ UNCHANGED <<jahr, auftrag, versuch>>

\* The handler returns or throws: the request is over.
Antworte(s) ==
  /\ ort' = [ort EXCEPT ![s] = "bereit"]
  /\ auftrag' = [auftrag EXCEPT ![s] = Ruhe]
  /\ entitaet' = [entitaet EXCEPT ![s] = Entwurf(0)]
  /\ versuch' = [versuch EXCEPT ![s] = 0]
  /\ UNCHANGED jahr

Lehneab(s) == Antworte(s) /\ UNCHANGED belege

\* A unique violation inside withUniqueRetry: once more from o, or the error leaves.
Wiederhole(s, o) ==
  \/ /\ versuch[s] < Retries
     /\ versuch' = [versuch EXCEPT ![s] = @ + 1]
     /\ ort' = [ort EXCEPT ![s] = o]
     /\ UNCHANGED <<belege, jahr, auftrag, entitaet>>
  \/ versuch[s] = Retries /\ Lehneab(s)

-------------------------------------------------------------------------------
(***************************************************************************)
(* create: a draft without a number.                                       *)
(***************************************************************************)
Einfuegende == {t \in Slots : ort[t] # "bereit" /\ auftrag[t].op = "stornorechnung"}

Platz == Cardinality(Einfuegende) < MaxBelege - Len(belege)

Create ==
  /\ Platz
  /\ \E betrag \in Betraege : belege' = Append(belege, Entwurf(betrag))
  /\ UNCHANGED <<jahr, ort, auftrag, entitaet, versuch>>

-------------------------------------------------------------------------------
(***************************************************************************)
(* update                                                                  *)
(***************************************************************************)
NimmUpdate(s) ==
  \E id \in IDs, betrag \in Betraege :
    Nimm(s, [op |-> "update", id |-> id, betrag |-> betrag, status |-> "entwurf"])

UpdateFinden(s) ==
  LET b == belege[auftrag[s].id]
  IN /\ Bei(s, "update", "finden")
     /\ UNCHANGED belege
     /\ \/ istFestgesetzt(b.status) /\ Antworte(s)
        \/ /\ ~ istFestgesetzt(b.status)
           /\ Weiter(s, "schreiben", [b EXCEPT !.betrag = auftrag[s].betrag])

-------------------------------------------------------------------------------
(***************************************************************************)
(* changeStatus                                                            *)
(***************************************************************************)
NimmChangeStatus(s) ==
  \E id \in IDs, status \in Status :
    Nimm(s, [op |-> "changeStatus", id |-> id, betrag |-> 0, status |-> status])

\* (Mutant: Belege of a correction are not held back.)
NieAbgeschlossen(b) == FALSE

Abgeschlossen(b) == b.storniertDurch # 0 \/ b.stornoVon # 0

ChangeStatusFinden(s) ==
  LET b == belege[auftrag[s].id]
      neu == auftrag[s].status
      mussNummerZiehen == neu = "offen" /\ b.nummer = 0
  IN /\ Bei(s, "changeStatus", "finden")
     /\ UNCHANGED belege
     /\ \/ /\ Abgeschlossen(b) \/ ~ statuswechselErlaubt(b.status, neu)
           /\ Antworte(s)
        \/ /\ ~ Abgeschlossen(b) /\ statuswechselErlaubt(b.status, neu)
           /\ Weiter(s, IF mussNummerZiehen THEN "zaehlen" ELSE "schreiben",
                     [b EXCEPT !.status = neu])

\* The number is counted in one query and stored by a later one.
Zaehlen(s, op, dann) ==
  /\ Bei(s, op, "zaehlen")
  /\ UNCHANGED belege
  /\ Weiter(s, dann, [entitaet[s] EXCEPT !.nummer = nextSequentialNumber,
                                         !.nrJahr = jahr])

ChangeStatusZaehlen(s) == Zaehlen(s, "changeStatus", "festsetzen")

ChangeStatusFestsetzen(s) ==
  LET id == auftrag[s].id
  IN /\ Bei(s, "changeStatus", "festsetzen")
     /\ \/ ~ Kollidiert(id, entitaet[s]) /\ save(id, entitaet[s]) /\ Antworte(s)
        \/ Kollidiert(id, entitaet[s]) /\ Wiederhole(s, "zaehlen")

-------------------------------------------------------------------------------
(***************************************************************************)
(* markPaid                                                                *)
(***************************************************************************)
NimmMarkPaid(s) == \E id \in IDs : Nimm(s, Fuer("markPaid", id))

\* (Mutant: the correction of the invoice is not looked at.)
BezahlbarOhneKorrektur(b) == statuswechselErlaubt(b.status, "bezahlt")

Bezahlbar(b) == b.storniertDurch = 0 /\ statuswechselErlaubt(b.status, "bezahlt")

MarkPaidFinden(s) ==
  LET b == belege[auftrag[s].id]
  IN /\ Bei(s, "markPaid", "finden")
     /\ UNCHANGED belege
     /\ \/ ~ Bezahlbar(b) /\ Antworte(s)
        \/ Bezahlbar(b) /\ Weiter(s, "schreiben", [b EXCEPT !.status = "bezahlt"])

\* The whole row goes back as it was read.  Only changeStatus repeats a save that
\* hits a unique index.
Schreiben(s) ==
  LET id == auftrag[s].id
  IN /\ ort[s] = "schreiben"
     /\ \/ ~ Kollidiert(id, entitaet[s]) /\ save(id, entitaet[s]) /\ Antworte(s)
        \/ /\ Kollidiert(id, entitaet[s])
           /\ \/ auftrag[s].op = "changeStatus" /\ Wiederhole(s, "schreiben")
              \/ auftrag[s].op # "changeStatus" /\ Lehneab(s)

-------------------------------------------------------------------------------
(***************************************************************************)
(* erstelleStornorechnung                                                  *)
(***************************************************************************)
NimmStornorechnung(s) == Platz /\ \E id \in IDs : Nimm(s, Fuer("stornorechnung", id))

\* (Mutant: drafts can be corrected.)
StornierbarAuchEntwurf(b) == b.stornoVon = 0 /\ b.storniertDurch = 0

Stornierbar(b) ==
  /\ b.stornoVon = 0 /\ b.storniertDurch = 0
  /\ b.nummer # 0 /\ b.status # "entwurf"

StornorechnungFinden(s) ==
  LET id == auftrag[s].id
      original == belege[id]
  IN /\ Bei(s, "stornorechnung", "finden")
     /\ UNCHANGED belege
     /\ \/ ~ Stornierbar(original) /\ Antworte(s)
        \/ /\ Stornierbar(original)
           /\ Weiter(s, "doppelt",
                [nummer |-> 0, nrJahr |-> 0, status |-> "bezahlt",
                 betrag |-> - original.betrag, stornoVon |-> id, storniertDurch |-> 0])

StornorechnungDoppelt(s) ==
  LET bereits == \E i \in IDs : belege[i].stornoVon = auftrag[s].id
  IN /\ Bei(s, "stornorechnung", "doppelt")
     /\ UNCHANGED belege
     /\ \/ bereits /\ Antworte(s)
        \/ ~ bereits /\ Weiter(s, "zaehlen", entitaet[s])

StornorechnungZaehlen(s) == Zaehlen(s, "stornorechnung", "einfuegen")

\* A violation that outlives the retries is answered like an invoice that was
\* corrected before.
StornorechnungEinfuegen(s) ==
  /\ Bei(s, "stornorechnung", "einfuegen")
  /\ \/ /\ ~ Kollidiert(0, entitaet[s])
        /\ belege' = Append(belege, entitaet[s])
        /\ Weiter(s, "verweis", entitaet[s])
     \/ Kollidiert(0, entitaet[s]) /\ Wiederhole(s, "doppelt")

\* The id the inserted Stornorechnung got.
StornoId(id) == CHOOSE i \in IDs : belege[i].stornoVon = id

\* A second statement, outside of any transaction: the conditional back reference.
StornorechnungVerweis(s) ==
  LET id == auftrag[s].id
  IN /\ Bei(s, "stornorechnung", "verweis")
     /\ \/ /\ belege[id].storniertDurch = 0
           /\ save(id, [belege[id] EXCEPT !.storniertDurch = StornoId(id)])
        \/ belege[id].storniertDurch # 0 /\ UNCHANGED belege
     /\ Antworte(s)

-------------------------------------------------------------------------------
Init ==
  /\ belege = <<>>
  /\ jahr = 1
  /\ ort = [s \in Slots |-> "bereit"]
  /\ auftrag = [s \in Slots |-> Ruhe]
  /\ entitaet = [s \in Slots |-> Entwurf(0)]
  /\ versuch = [s \in Slots |-> 0]

Jahreswechsel ==
  /\ jahr < MaxJahr
  /\ jahr' = jahr + 1
  /\ UNCHANGED <<belege, ort, auftrag, entitaet, versuch>>

\* The process dies with all requests in it; the table stays.
Absturz ==
  /\ Abstuerze
  /\ \E s \in Slots : ort[s] # "bereit"
  /\ ort' = [s \in Slots |-> "bereit"]
  /\ auftrag' = [s \in Slots |-> Ruhe]
  /\ entitaet' = [s \in Slots |-> Entwurf(0)]
  /\ versuch' = [s \in Slots |-> 0]
  /\ UNCHANGED <<belege, jahr>>

Beginn(s) == NimmUpdate(s) \/ NimmChangeStatus(s) \/ NimmMarkPaid(s) \/ NimmStornorechnung(s)

Schritt(s) ==
  \/ UpdateFinden(s) \/ ChangeStatusFinden(s) \/ MarkPaidFinden(s)
  \/ ChangeStatusZaehlen(s) \/ ChangeStatusFestsetzen(s) \/ Schreiben(s)
  \/ StornorechnungFinden(s) \/ StornorechnungDoppelt(s) \/ StornorechnungZaehlen(s)
  \/ StornorechnungEinfuegen(s) \/ StornorechnungVerweis(s)

Next == Create \/ Jahreswechsel \/ Absturz \/ \E s \in Slots : Beginn(s) \/ Schritt(s)

Spec == Init /\ [][Next]_vars

-------------------------------------------------------------------------------
(***************************************************************************)
(* Properties.                                                             *)
(***************************************************************************)

\* Every row, every request and every history variable has the form its code gives it.
TypeOK ==
  /\ belege \in Seq(Beleg)
  /\ jahr \in Nat
  /\ ort \in [Slots -> Orte]
  /\ auftrag \in [Slots -> Auftrag]
  /\ entitaet \in [Slots -> Beleg]
  /\ versuch \in [Slots -> 0 .. Retries]

\* The numbers issued in a year are 1, 2, ... up to their count, each once: counting
\* is only a way to draw numbers while no number in use ever gives way (numbering.ts:
\* "getrennte, je lueckenlose Nummernkreise").
Lueckenlos ==
  \A j \in 1 .. jahr :
    /\ {belege[i].nummer : i \in Nummeriert(j)} = 1 .. Cardinality(Nummeriert(j))
    /\ \A i, k \in Nummeriert(j) : belege[i].nummer = belege[k].nummer => i = k

\* An issued invoice never becomes a draft again, keeps its number and its content, and
\* a cancelled one stays cancelled, whichever requests save whole rows around it
\* (update: "Festgesetzte Rechnung ist unveraenderlich").
FestgesetztBleibt ==
  [][\A i \in IDs : belege[i].status # "entwurf" =>
       LET b == belege[i]
           neu == belege'[i]
       IN /\ neu.status # "entwurf"
          /\ b.status = "storniert" => neu.status = "storniert"
          /\ <<neu.nummer, neu.nrJahr, neu.betrag>> = <<b.nummer, b.nrJahr, b.betrag>>]_vars

\* Once an invoice carries the mark of its correction nothing changes it any more
\* (changeStatus: the guard prevents "ein irrtuemliches 'bezahlt' der
\* Ursprungsrechnung").
KorrigiertBleibt ==
  [][\A i \in IDs : belege[i].storniertDurch # 0 => belege'[i] = belege[i]]_vars

\* A Stornorechnung cancels exactly what its original charges, and the original is an
\* issued invoice, even when the original was edited, issued or paid meanwhile.
StornoHebtAuf ==
  \A g \in IDs : belege[g].stornoVon # 0 =>
    LET o == belege[belege[g].stornoVon]
    IN o.nummer # 0 /\ o.status # "entwurf" /\ o.betrag + belege[g].betrag = 0

\* However requests race and crash, there is at most one Stornorechnung for an invoice
\* and none for a Stornorechnung ("je Original hoechstens EINE Stornorechnung").
HoechstensEineStornorechnung ==
  \A g, h \in IDs : belege[g].stornoVon # 0 =>
    /\ belege[h].stornoVon = belege[g].stornoVon => h = g
    /\ h = belege[g].stornoVon => belege[h].stornoVon = 0

\* A stored Stornorechnung never changes: no request ever holds a version of it that
\* differs from the stored one and writes it back.
StornorechnungBleibt ==
  [][\A i \in IDs : belege[i].stornoVon # 0 => belege'[i] = belege[i]]_vars

\* collectForExport takes the issued invoices that are open or paid.
Exportiert ==
  {i \in IDs : belege[i].nummer # 0 /\ belege[i].status \in {"offen", "bezahlt"}}

\* A Stornorechnung in the accounting export reverses an invoice that is in it too
\* (erstelleStornorechnung: the original stays "in beiden Buchhaltungs-Exporten
\* sichtbar").
StornoReversiertImExport ==
  \A g \in Exportiert : belege[g].stornoVon # 0 => belege[g].stornoVon \in Exportiert
===============================================================================
