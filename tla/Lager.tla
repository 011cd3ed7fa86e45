--------------------------------- MODULE Lager ---------------------------------
(***************************************************************************)
(* One product in stock: its movements and purchase orders                 *)
(* (shop.service.ts), what orders use up (order-material.service.ts) and   *)
(* one remnant roll of it (folien-rollen.service.ts).  A request reads,    *)
(* and then writes in one statement or one transaction.  A transaction is  *)
(* one step: the first row it writes is that of the product or of the      *)
(* purchase order, and its lock keeps every other writer out until the     *)
(* commit; a crash rolls it back.  Tables are abstracted to their sums     *)
(* where only these matter.  Order numbers, prices, texts and rentals are  *)
(* left out.                                                               *)
(***************************************************************************)
EXTENDS Server, Integers

CONSTANTS
  Personen,        \* the users
  Keiner,          \* no user
  Bestellungen,    \* the purchase orders
  Mengen,          \* the quantities that are booked
  MaxLager         \* bound: how many requests begin

\* What the constants have to satisfy: the module that uses this one assumes it.
LagerAssumption ==
  /\ Keiner \notin Personen
  /\ Personen # {} /\ Bestellungen # {}
  /\ Mengen \subseteq Nat \ {0}
  /\ MaxLager \in Nat

VARIABLES
  lEinzeln,        \* restriction, see LVertraeglich
  bestand,         \* the product's column
  rolle,           \* the row of the roll
  eintraege,       \* order_materials; quantity 0: no row
  bestellungen,    \* purchase_orders with the quantity of the product
  summe,           \* what the rows about the product add up to, and what was set by hand
  rollensumme,     \* the same for the roll
  geliefert,       \* the quantity in the movements of each purchase order
  genehmigt,       \* history: the quantity that was approved
  lOrt,            \* where in its operation each request waits
  lAuftrag,        \* what each request is doing
  lEntitaet,       \* the rows it has read
  lZaehler         \* for the bound; also numbers the entries

lAnfragen == <<lOrt, lAuftrag, lEntitaet>>
lager == <<bestand, rolle, eintraege, summe, rollensumme>>
einkauf == <<bestellungen, geliefert, genehmigt>>
lVars == <<lEinzeln, lager, einkauf, lAnfragen, lZaehler>>

FolienRolleStatus == {"verfuegbar", "aufgebraucht", "entsorgt"}

PurchaseOrderStatus ==
  {"entwurf", "eingereicht", "freigegeben", "bestellt", "geliefert", "abgelehnt"}

Freigegebene == {"freigegeben", "bestellt", "geliefert"}

Nummern == 0 .. MaxLager

Eintrag == [menge : Nat, mitRolle : BOOLEAN]
KeinEintrag == [menge |-> 0, mitRolle |-> FALSE]

\* status "keine": there is no row.
Rolle == [rest : Int, status : FolienRolleStatus \cup {"keine"}]
NeueRolle(m) == [rest |-> m, status |-> "verfuegbar"]

Bestellung == [status : PurchaseOrderStatus \cup {"keine"}, ersteller : Personen \cup {Keiner},
               freigegebenVon : Personen \cup {Keiner}, menge : Nat]

KeineBestellung == [status |-> "keine", ersteller |-> Keiner, freigegebenVon |-> Keiner, menge |-> 0]

Gelesen == [bestand : Int, rolle : Rolle, eintrag : Eintrag, bestellung : Bestellung]

Nichts == [bestand |-> 0, rolle |-> NeueRolle(0), eintrag |-> KeinEintrag, bestellung |-> KeineBestellung]

Summen == [bewegt : Int,        \* stock_movements: receipts minus issues
           verbraucht : Int,    \* order_materials
           gesetzt : Int]       \* what a stock-take or an edit added or took away

Rollensummen == [gesetzt : Int,      \* what it would have without the entries
                 verbraucht : Int]   \* order_materials that name it

LOperationen == {"ruhe", "produkt", "verbrauch", "entfernen", "rolle", "rolleWeg", "bestellung", "wechsel"}

\* menge: 0 where the body names no quantity; status: the one it asks for, if any.
Auftrag == [op : LOperationen, nr : Nummern, id : Bestellungen, menge : Nat, mitRolle : BOOLEAN,
            wer : Personen, status : PurchaseOrderStatus \cup FolienRolleStatus]

LRuhe == [op |-> "ruhe", nr |-> 0, id |-> CHOOSE p \in Bestellungen : TRUE, menge |-> 0,
          mitRolle |-> FALSE, wer |-> CHOOSE u \in Personen : TRUE, status |-> "verfuegbar"]

-------------------------------------------------------------------------------
(***************************************************************************)
(* The course of a request.                                                *)
(***************************************************************************)
DasProdukt == <<"produkt", 0>>
DieRolle == <<"rolle", 0>>

DerEintrag(auf) == <<"eintrag", auf.nr>>
DieBestellung(auf) == <<"bestellung", auf.id>>

\* The rows that a request saves or removes as it has read them.
Ueberschreibt(auf) ==
  (IF auf.op = "produkt" THEN {DasProdukt} ELSE {})
    \cup (IF auf.op \in {"rolle", "rolleWeg"} THEN {DieRolle} ELSE {})
    \cup (IF auf.op = "entfernen" THEN {DerEintrag(auf)} ELSE {})
    \cup (IF auf.op = "bestellung" THEN {DieBestellung(auf)} ELSE {})

\* The rows that it writes.
Schreibt(auf) ==
  Ueberschreibt(auf)
    \cup (IF auf.op \in {"verbrauch", "entfernen", "wechsel"} THEN {DasProdukt} ELSE {})
    \cup (IF auf.op \in {"verbrauch", "entfernen"} THEN {DieRolle} ELSE {})
    \cup (IF auf.op = "verbrauch" THEN {DerEintrag(auf)} ELSE {})
    \cup (IF auf.op = "wechsel" THEN {DieBestellung(auf)} ELSE {})

\* Restriction: nobody writes a row that a request under way overwrites.
LVertraeglich(schreibt, ueberschreibt) ==
  lEinzeln => \A a \in Anfragen :
    lOrt[a] = "schreiben" => /\ Ueberschreibt(lAuftrag[a]) \cap schreibt = {}
                             /\ Schreibt(lAuftrag[a]) \cap ueberschreibt = {}

Zaehle ==
  /\ lZaehler < MaxLager
  /\ lZaehler' = lZaehler + 1

\* A request has read what it needs, and will write.
Beginne(a, auf, e) ==
  /\ lOrt[a] = "bereit"
  /\ LVertraeglich(Schreibt(auf), Ueberschreibt(auf))
  /\ Zaehle
  /\ lOrt' = [lOrt EXCEPT ![a] = "schreiben"]
  /\ lAuftrag' = [lAuftrag EXCEPT ![a] = auf]
  /\ lEntitaet' = [lEntitaet EXCEPT ![a] = e]
  /\ UNCHANGED <<lEinzeln, lager, einkauf>>

LBei(a, op) == lOrt[a] = "schreiben" /\ lAuftrag[a].op = op

LBeende(a) ==
  /\ lOrt' = [lOrt EXCEPT ![a] = "bereit"]
  /\ lAuftrag' = [lAuftrag EXCEPT ![a] = LRuhe]
  /\ lEntitaet' = [lEntitaet EXCEPT ![a] = Nichts]
  /\ UNCHANGED <<lEinzeln, lZaehler>>

-------------------------------------------------------------------------------
(***************************************************************************)
(* recordMovement and updateProduct (shop.service.ts).                     *)
(***************************************************************************)
Zugang(m) ==
  /\ bestand' = bestand + m
  /\ summe' = [summe EXCEPT !.bewegt = @ + m]

Abgang(m) ==
  /\ bestand >= m
  /\ bestand' = bestand - m
  /\ summe' = [summe EXCEPT !.bewegt = @ - m]

Inventur(m) ==
  /\ bestand' = m
  /\ summe' = [summe EXCEPT !.gesetzt = @ + (m - bestand)]

\* One transaction that trusts nothing it has read.
recordMovement ==
  /\ Zaehle
  /\ LVertraeglich({DasProdukt}, {})
  /\ \E m \in Mengen : Zugang(m) \/ Abgang(m) \/ Inventur(m)
  /\ UNCHANGED <<lEinzeln, rolle, eintraege, rollensumme, einkauf, lAnfragen>>

\* updateProduct with or without a stock in its body; removeProduct is the latter.
ProduktLesen(a) ==
  \E m \in Mengen \cup {0} :
    Beginne(a, [LRuhe EXCEPT !.op = "produkt", !.menge = m], [Nichts EXCEPT !.bestand = bestand])

ProduktSpeichern(a) ==
  LET auf == lAuftrag[a]
  IN /\ LBei(a, "produkt")
     /\ bestand' = IF auf.menge # 0 THEN auf.menge ELSE lEntitaet[a].bestand
     /\ summe' = [summe EXCEPT !.gesetzt = IF auf.menge # 0 THEN @ + (auf.menge - bestand) ELSE @]
     /\ LBeende(a)
     /\ UNCHANGED <<rolle, eintraege, rollensumme, einkauf>>

-------------------------------------------------------------------------------
(***************************************************************************)
(* order-material.service.ts                                               *)
(***************************************************************************)
\* (Mutant: the stock is computed from the row that was read.)
NachVerbrauchGelesen(a) == lEntitaet[a].bestand - lAuftrag[a].menge

NachVerbrauch(a) == bestand - lAuftrag[a].menge

\* add: product and roll are read, to see that they exist.
VerbrauchLesen(a) ==
  \E m \in Mengen, r \in BOOLEAN :
    /\ r => rolle.status # "keine"
    /\ Beginne(a, [LRuhe EXCEPT !.op = "verbrauch", !.menge = m, !.mitRolle = r, !.nr = lZaehler + 1],
               [Nichts EXCEPT !.bestand = bestand])

\* The roll after m was taken from it.
Entnommen(m) ==
  [rest |-> rolle.rest - m,
   status |-> IF rolle.rest - m <= 0 /\ rolle.status = "verfuegbar" THEN "aufgebraucht" ELSE rolle.status]

VerbrauchBuchen(a) ==
  LET auf == lAuftrag[a]
      anRolle == auf.mitRolle /\ rolle.status # "keine"
  IN /\ LBei(a, "verbrauch")
     /\ eintraege' = [eintraege EXCEPT ![auf.nr] = [menge |-> auf.menge, mitRolle |-> auf.mitRolle]]
     /\ bestand' = NachVerbrauch(a)
     /\ rolle' = IF anRolle THEN Entnommen(auf.menge) ELSE rolle
     /\ summe' = [summe EXCEPT !.verbraucht = @ + auf.menge]
     /\ rollensumme' = [rollensumme EXCEPT !.verbraucht = IF auf.mitRolle THEN @ + auf.menge ELSE @]
     /\ LBeende(a)
     /\ UNCHANGED einkauf

\* remove: the entry is read before the transaction.
EintragLesen(a) ==
  \E n \in Nummern :
    /\ eintraege[n].menge # 0
    /\ Beginne(a, [LRuhe EXCEPT !.op = "entfernen", !.nr = n], [Nichts EXCEPT !.eintrag = eintraege[n]])

\* The roll after m was given back to it.
Zurueckgegeben(m) ==
  [rest |-> rolle.rest + m,
   status |-> IF rolle.status = "aufgebraucht" THEN "verfuegbar" ELSE rolle.status]

EintragEntfernen(a) ==
  LET alt == lEntitaet[a].eintrag
      zeile == eintraege[lAuftrag[a].nr]
  IN /\ LBei(a, "entfernen")
     /\ bestand' = bestand + alt.menge
     /\ rolle' = IF alt.mitRolle /\ rolle.status # "keine" THEN Zurueckgegeben(alt.menge) ELSE rolle
     /\ eintraege' = [eintraege EXCEPT ![lAuftrag[a].nr] = KeinEintrag]
     /\ summe' = [summe EXCEPT !.verbraucht = @ - zeile.menge]
     /\ rollensumme' = [rollensumme EXCEPT !.verbraucht = IF zeile.mitRolle THEN @ - zeile.menge ELSE @]
     /\ LBeende(a)
     /\ UNCHANGED einkauf

-------------------------------------------------------------------------------
(***************************************************************************)
(* folien-rollen.service.ts: update with or without a rest, and remove.    *)
(***************************************************************************)
RolleLesen(a) ==
  /\ rolle.status # "keine"
  /\ \E m \in Mengen \cup {0}, st \in FolienRolleStatus :
       Beginne(a, [LRuhe EXCEPT !.op = "rolle", !.menge = m, !.status = st], [Nichts EXCEPT !.rolle = rolle])

RolleWegLesen(a) ==
  /\ rolle.status # "keine"
  /\ Beginne(a, [LRuhe EXCEPT !.op = "rolleWeg"], [Nichts EXCEPT !.rolle = rolle])

\* A row that is gone is inserted again.
RolleSpeichern(a) ==
  LET auf == lAuftrag[a]
  IN /\ LBei(a, "rolle")
     /\ rolle' = [rest |-> IF auf.menge # 0 THEN auf.menge ELSE lEntitaet[a].rolle.rest, status |-> auf.status]
     /\ rollensumme' = [rollensumme EXCEPT !.gesetzt =
                          IF auf.menge # 0 THEN auf.menge + rollensumme.verbraucht ELSE @]
     /\ LBeende(a)
     /\ UNCHANGED <<bestand, eintraege, summe, einkauf>>

RolleEntfernen(a) ==
  /\ LBei(a, "rolleWeg")
  /\ rolle' = [rolle EXCEPT !.status = "keine"]
  /\ LBeende(a)
  /\ UNCHANGED <<bestand, eintraege, summe, rollensumme, einkauf>>

-------------------------------------------------------------------------------
(***************************************************************************)
(* Purchase orders (shop.service.ts).                                      *)
(***************************************************************************)
createPurchaseOrder ==
  /\ Zaehle
  /\ \E p \in Bestellungen, u \in Personen, m \in Mengen :
       /\ bestellungen[p].status = "keine"
       /\ bestellungen' = [bestellungen EXCEPT ![p] =
            [status |-> "entwurf", ersteller |-> u, freigegebenVon |-> Keiner, menge |-> m]]
  /\ UNCHANGED <<lEinzeln, lager, geliefert, genehmigt, lAnfragen>>

\* updatePurchaseOrder with or without positions in its body.
BestellungLesen(a) ==
  \E p \in Bestellungen, m \in Mengen \cup {0} :
    /\ bestellungen[p].status = "entwurf"
    /\ Beginne(a, [LRuhe EXCEPT !.op = "bestellung", !.id = p, !.menge = m],
               [Nichts EXCEPT !.bestellung = bestellungen[p]])

BestellungSpeichern(a) ==
  LET auf == lAuftrag[a]
      neu == [lEntitaet[a].bestellung EXCEPT !.menge = IF auf.menge # 0 THEN auf.menge ELSE @]
  IN /\ LBei(a, "bestellung")
     /\ bestellungen' = [bestellungen EXCEPT ![auf.id] = neu]
     /\ LBeende(a)
     /\ UNCHANGED <<lager, geliefert, genehmigt>>

\* changePurchaseOrderStatus
erlaubt(alt) ==
  CASE alt = "entwurf" -> {"eingereicht"}
    [] alt = "eingereicht" -> {"freigegeben", "abgelehnt"}
    [] alt = "freigegeben" -> {"bestellt"}
    [] alt = "bestellt" -> {"geliefert"}
    [] OTHER -> {}

WechselLesen(a) ==
  \E p \in Bestellungen, u \in Personen, st \in PurchaseOrderStatus :
    /\ st \in erlaubt(bestellungen[p].status)
    /\ ~ (st = "freigegeben" /\ bestellungen[p].ersteller = u)
    /\ Beginne(a, [LRuhe EXCEPT !.op = "wechsel", !.id = p, !.wer = u, !.status = st],
               [Nichts EXCEPT !.bestellung = bestellungen[p]])

\* (Mutant: the flip without its condition.)
GewonnenImmer(a) == TRUE

Gewonnen(a) == bestellungen[lAuftrag[a].id].status = lEntitaet[a].bestellung.status

WechselSchreiben(a) ==
  LET auf == lAuftrag[a]
      alt == bestellungen[auf.id]
      menge == lEntitaet[a].bestellung.menge
      liefert == auf.status = "geliefert"
      gibtFrei == auf.status = "freigegeben"
  IN /\ LBei(a, "wechsel")
     /\ Gewonnen(a)
     /\ bestellungen' = [bestellungen EXCEPT ![auf.id] =
          [status |-> auf.status, ersteller |-> alt.ersteller, menge |-> alt.menge,
           freigegebenVon |-> IF gibtFrei THEN auf.wer ELSE alt.freigegebenVon]]
     /\ bestand' = IF liefert THEN bestand + menge ELSE bestand
     /\ summe' = [summe EXCEPT !.bewegt = IF liefert THEN @ + menge ELSE @]
     /\ geliefert' = [geliefert EXCEPT ![auf.id] = IF liefert THEN @ + menge ELSE @]
     /\ genehmigt' = [genehmigt EXCEPT ![auf.id] = IF gibtFrei THEN alt.menge ELSE @]
     /\ LBeende(a)
     /\ UNCHANGED <<rolle, eintraege, rollensumme>>

\* Somebody else was faster: the answer is the row as it is.
WechselVerloren(a) ==
  /\ LBei(a, "wechsel")
  /\ ~ Gewonnen(a)
  /\ LBeende(a)
  /\ UNCHANGED <<lager, einkauf>>

-------------------------------------------------------------------------------
\* What requests one after the other may have left behind: a purchase order of any status
\* but a final one, approved by somebody else.
AnfangsBestellungen ==
  {b \in [status : {"keine", "entwurf", "eingereicht", "freigegeben", "bestellt"},
          ersteller : Personen \cup {Keiner}, freigegebenVon : Personen \cup {Keiner},
          menge : Mengen \cup {0}] :
     IF b.status = "keine" THEN b = KeineBestellung
     ELSE /\ b.menge # 0 /\ b.ersteller # Keiner
          /\ IF b.status \in Freigegebene THEN b.freigegebenVon \notin {Keiner, b.ersteller}
             ELSE b.freigegebenVon = Keiner}

LInitMit(anzahl) ==
  /\ bestand = 0
  /\ rolle \in {NeueRolle(m) : m \in Mengen}
  /\ eintraege = [n \in Nummern |-> KeinEintrag]
  /\ summe = [bewegt |-> 0, verbraucht |-> 0, gesetzt |-> 0]
  /\ rollensumme = [gesetzt |-> rolle.rest, verbraucht |-> 0]
  /\ bestellungen \in [Bestellungen -> AnfangsBestellungen]
  /\ geliefert = [p \in Bestellungen |-> 0]
  /\ genehmigt = [p \in Bestellungen |-> bestellungen[p].menge]
  /\ lOrt = [a \in Anfragen |-> "bereit"]
  /\ lAuftrag = [a \in Anfragen |-> LRuhe]
  /\ lEntitaet = [a \in Anfragen |-> Nichts]
  /\ lZaehler = anzahl

LInit == LInitMit(0) /\ lEinzeln \in BOOLEAN

Beginn(a) ==
  \/ ProduktLesen(a) \/ VerbrauchLesen(a) \/ EintragLesen(a)
  \/ RolleLesen(a) \/ RolleWegLesen(a) \/ BestellungLesen(a) \/ WechselLesen(a)

Schluss(a) ==
  \/ ProduktSpeichern(a) \/ VerbrauchBuchen(a) \/ EintragEntfernen(a)
  \/ RolleSpeichern(a) \/ RolleEntfernen(a)
  \/ BestellungSpeichern(a) \/ WechselSchreiben(a) \/ WechselVerloren(a)

LNext ==
  \/ \E a \in Anfragen : Beginn(a) \/ Schluss(a)
  \/ recordMovement
  \/ createPurchaseOrder

LSpec == LInit /\ [][LNext]_lVars

-------------------------------------------------------------------------------
(***************************************************************************)
(* Properties.                                                             *)
(***************************************************************************)
LTypeOK ==
  /\ lEinzeln \in BOOLEAN
  /\ bestand \in Int /\ rolle \in Rolle /\ summe \in Summen /\ rollensumme \in Rollensummen
  /\ eintraege \in [Nummern -> Eintrag]
  /\ bestellungen \in [Bestellungen -> Bestellung]
  /\ geliefert \in [Bestellungen -> Nat] /\ genehmigt \in [Bestellungen -> Nat]
  /\ lOrt \in [Anfragen -> {"bereit", "schreiben"}]
  /\ lAuftrag \in [Anfragen -> Auftrag]
  /\ lEntitaet \in [Anfragen -> Gelesen]
  /\ lZaehler \in Nummern

\* The stock is what the movements, the entries and the corrections by hand make of it, and
\* so is the rest of the roll: no booking is lost, and none is given back twice.
BestandStimmt ==
  lEinzeln =>
    /\ bestand = summe.bewegt + summe.gesetzt - summe.verbraucht
    /\ rolle.status # "keine" => rolle.rest = rollensumme.gesetzt - rollensumme.verbraucht

\* What is ordered was approved by somebody else than its author, however requests overlap;
\* and what was approved, and only that, is delivered once.
LieferungStimmt ==
  \A p \in Bestellungen :
    LET b == bestellungen[p]
    IN /\ b.status \in Freigegebene => b.freigegebenVon \notin {b.ersteller, Keiner}
       /\ lEinzeln /\ b.status \in Freigegebene => b.menge = genehmigt[p]
       /\ lEinzeln => geliefert[p] = IF b.status = "geliefert" THEN genehmigt[p] ELSE 0
===============================================================================
