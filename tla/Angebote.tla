-------------------------------- MODULE Angebote --------------------------------
(***************************************************************************)
(* One set of offers, the variants a customer chooses from, and the order  *)
(* the chosen one becomes: createAngebotsSet, acceptAngebotCore (by the    *)
(* staff or over the public link), update and changeStatus of an offer,    *)
(* the public link, the expiry job, and the deletion of the order          *)
(* (invoices.service.ts, orders.service.ts), on PostgreSQL at its default  *)
(* isolation level.  Each database call is one step; what a transaction    *)
(* has written appears with its commit.  Numbers, items and prices are     *)
(* left out; a link is a number.                                           *)
(***************************************************************************)
EXTENDS Server, Integers

CONSTANTS
  Varianten,       \* the variants createAngebotsSet was called with
  Niemand,         \* the holder of a row that is not locked
  MaxAnfragen,     \* bound: how many requests begin
  MaxLoeschungen   \* bound: how often the order is deleted

ASSUME AngeboteAssumption ==
  /\ Varianten # {} /\ Niemand \notin Anfragen
  /\ MaxAnfragen \in Nat /\ MaxLoeschungen \in Nat /\ MaxAbstuerze \in Nat

VARIABLES
  einzeln,         \* whether edits and the drawing of a link overlap no other request
  angebote,        \* the stored rows
  auftraege,       \* the offers an order refers to; unique by the index of orders
  sperre,          \* which transaction holds the lock of each row
  ort,             \* where in its operation each request waits
  auftrag,         \* what each request is doing, to which offer
  entitaet,        \* the row it holds in memory
  links,           \* history: the links that were returned
  zaehler          \* for the bounds; also numbers the links

anfragen == <<ort, auftrag, entitaet>>
vars == <<einzeln, angebote, auftraege, sperre, anfragen, links, zaehler>>

AngebotStatus == {"offen", "angenommen", "abgelehnt", "abgelaufen"}

Operationen == {"anlegen", "annahme", "update", "status", "token"}

\* link 0: none.  gueltig: gueltigBis is not over.
Zeile ==
  [angelegt : BOOLEAN, gruppe : BOOLEAN, status : AngebotStatus, gewaehlt : BOOLEAN,
   link : 0 .. MaxAnfragen, gueltig : BOOLEAN]

NichtAngelegt ==
  [angelegt |-> FALSE, gruppe |-> FALSE, status |-> "offen", gewaehlt |-> FALSE,
   link |-> 0, gueltig |-> TRUE]

Ruhe == [op |-> "anlegen", id |-> CHOOSE v \in Varianten : TRUE, nr |-> 0]

Angelegte == {v \in Varianten : angebote[v].angelegt}

Mitglieder == {v \in Varianten : angebote[v].gruppe}

-------------------------------------------------------------------------------
(***************************************************************************)
(* The course of a request.                                                *)
(***************************************************************************)
Bei(a, op, o) == ort[a] = o /\ auftrag[a].op = op

Laufende == {auftrag[a].op : a \in {x \in Anfragen : ort[x] # "bereit"}}

\* The acceptances overlap each other, and so do the drawings of the link.  Restriction:
\* no offer of the set is touched while createAngebotsSet is still at work.
Vertraeglich(op) ==
  /\ "anlegen" \notin Laufende
  /\ einzeln => Laufende \subseteq ({op} \cap {"annahme", "token"})

Nimm(a, op, id) ==
  /\ ort[a] = "bereit"
  /\ zaehler.anfragen < MaxAnfragen
  /\ Vertraeglich(op)
  /\ ort' = [ort EXCEPT ![a] = "lesen"]
  /\ auftrag' = [auftrag EXCEPT ![a] = [op |-> op, id |-> id, nr |-> zaehler.anfragen + 1]]
  /\ zaehler' = [zaehler EXCEPT !.anfragen = @ + 1]
  /\ UNCHANGED <<einzeln, angebote, auftraege, sperre, entitaet, links>>

Weiter(a, o, b) ==
  /\ ort' = [ort EXCEPT ![a] = o]
  /\ entitaet' = [entitaet EXCEPT ![a] = b]
  /\ UNCHANGED <<einzeln, auftrag, zaehler>>

Freigabe(a) == [v \in Varianten |-> IF sperre[v] = a THEN Niemand ELSE sperre[v]]

\* The request returns or throws; a transaction is over and gives its locks back.
Beende(a) ==
  /\ ort' = [ort EXCEPT ![a] = "bereit"]
  /\ auftrag' = [auftrag EXCEPT ![a] = Ruhe]
  /\ entitaet' = [entitaet EXCEPT ![a] = NichtAngelegt]
  /\ sperre' = Freigabe(a)
  /\ UNCHANGED <<einzeln, zaehler>>

Lehneab(a) == Beende(a) /\ UNCHANGED <<angebote, auftraege, links>>

-------------------------------------------------------------------------------
(***************************************************************************)
(* createAngebotsSet: every variant is created and then put into the set   *)
(* by a second statement.                                                  *)
(***************************************************************************)
NimmAnlegen(a) ==
  /\ Angelegte = {}
  /\ Nimm(a, "anlegen", Ruhe.id)

SetAnlegen(a) ==
  /\ Bei(a, "anlegen", "lesen")
  /\ auftrag' = [auftrag EXCEPT ![a].id = CHOOSE v \in Varianten \ Angelegte : TRUE]
  /\ angebote' = [angebote EXCEPT ![auftrag'[a].id].angelegt = TRUE]
  /\ ort' = [ort EXCEPT ![a] = "gruppieren"]
  /\ UNCHANGED <<einzeln, auftraege, sperre, entitaet, links, zaehler>>

SetScheitert(a) == Bei(a, "anlegen", "lesen") /\ Lehneab(a)

SetGruppieren(a) ==
  /\ Bei(a, "anlegen", "gruppieren")
  /\ angebote' = [angebote EXCEPT ![auftrag[a].id].gruppe = TRUE]
  /\ UNCHANGED <<auftraege, links>>
  /\ \/ Angelegte = Varianten /\ Beende(a)
     \/ Angelegte # Varianten /\ Weiter(a, "lesen", NichtAngelegt) /\ UNCHANGED sperre

-------------------------------------------------------------------------------
(***************************************************************************)
(* acceptAngebotCore                                                       *)
(***************************************************************************)
NimmAnnahme(a) == \E v \in Angelegte : Nimm(a, "annahme", v)

AnnahmeLesen(a) ==
  /\ Bei(a, "annahme", "lesen")
  /\ Weiter(a, "sperren", angebote[auftrag[a].id])
  /\ UNCHANGED <<angebote, auftraege, sperre, links>>

\* (Mutant: only the variant itself is locked.)
SperrScopeEinzeln(a) == {auftrag[a].id}

\* As the row said before the lock: the set, or the offer alone.
SperrScope(a) == IF entitaet[a].gruppe THEN Mitglieder ELSE {auftrag[a].id}

\* Assumption: the rows of one set are locked in one order, so that no two requests wait
\* for each other.
AnnahmeSperren(a) ==
  /\ Bei(a, "annahme", "sperren")
  /\ \A v \in SperrScope(a) : sperre[v] = Niemand
  /\ sperre' = [v \in Varianten |-> IF v \in SperrScope(a) THEN a ELSE sperre[v]]
  /\ Weiter(a, "pruefen", entitaet[a])
  /\ UNCHANGED <<angebote, auftraege, links>>

GruppenIds(a) == {auftrag[a].id} \cup (IF entitaet[a].gruppe THEN Mitglieder ELSE {})

Bestehend(a) == GruppenIds(a) \cap auftraege

\* Time is what it is after the lock, all else what the row said before it.
Annehmbar(a) ==
  /\ Bestehend(a) = {}
  /\ entitaet[a].status # "abgelehnt"
  /\ angebote[auftrag[a].id].gueltig

AnnahmePruefen(a) ==
  /\ Bei(a, "annahme", "pruefen")
  /\ \/ /\ Annehmbar(a)
        /\ Weiter(a, "einfuegen", entitaet[a])
        /\ UNCHANGED <<angebote, auftraege, sperre, links>>
     \/ ~ Annehmbar(a) /\ Lehneab(a)

\* (Mutant: the other variants keep their status.)
NachAnnahmeOhneGeschwister(id, b) ==
  [angebote EXCEPT ![id] = [b EXCEPT !.gewaehlt = TRUE, !.status = "angenommen", !.gueltig = angebote[id].gueltig]]

\* The offer is saved as it was read; every other member of its set is rejected.
NachAnnahme(id, b) ==
  [v \in Varianten |->
     IF v = id
       THEN [b EXCEPT !.gewaehlt = TRUE, !.status = "angenommen", !.gueltig = angebote[id].gueltig]
     ELSE IF b.gruppe /\ angebote[v].gruppe
       THEN [angebote[v] EXCEPT !.status = "abgelehnt", !.gewaehlt = FALSE]
     ELSE angebote[v]]

AnnahmeFestschreiben(a) ==
  LET id == auftrag[a].id
  IN /\ Bei(a, "annahme", "einfuegen")
     /\ id \notin auftraege
     /\ auftraege' = auftraege \cup {id}
     /\ angebote' = NachAnnahme(id, entitaet[a])
     /\ Beende(a)
     /\ UNCHANGED links

\* The number of the order, or the offer, is taken: the transaction is aborted with the
\* first violation, and the repetition inside it fails as well.
AnnahmeKollidiert(a) == Bei(a, "annahme", "einfuegen") /\ Lehneab(a)

-------------------------------------------------------------------------------
(***************************************************************************)
(* update refuses a decided offer, changeStatus takes any; both save the   *)
(* whole row.                                                              *)
(***************************************************************************)
NimmAenderung(a) == \E v \in Angelegte, op \in {"update", "status"} : Nimm(a, op, v)

istAngebotEntschieden(s) == s \in {"angenommen", "abgelehnt"}

AenderungLesen(a) ==
  LET b == angebote[auftrag[a].id]
      gesperrt == auftrag[a].op = "update" /\ istAngebotEntschieden(b.status)
  IN /\ ort[a] = "lesen" /\ auftrag[a].op \in {"update", "status"}
     /\ \/ gesperrt /\ Lehneab(a)
        \/ ~ gesperrt /\ Weiter(a, "schreiben", b)
           /\ UNCHANGED <<angebote, auftraege, sperre, links>>

\* save compares with the row as it is stored.  Behind a lock it has compared before the
\* other's commit, and then leaves these columns alone.
AenderungSchreiben(a) ==
  LET id == auftrag[a].id
  IN /\ ort[a] = "schreiben"
     /\ \/ /\ sperre[id] = Niemand
           /\ angebote' = [angebote EXCEPT ![id] = [entitaet[a] EXCEPT !.gueltig = angebote[id].gueltig]]
        \/ sperre[id] # Niemand /\ UNCHANGED angebote
     /\ Beende(a)
     /\ UNCHANGED <<auftraege, links>>

-------------------------------------------------------------------------------
(***************************************************************************)
(* getOrCreateAngebotToken                                                 *)
(***************************************************************************)
NimmToken(a) == \E v \in Angelegte : Nimm(a, "token", v)

TokenLesen(a) ==
  LET b == angebote[auftrag[a].id]
  IN /\ Bei(a, "token", "lesen")
     /\ \/ /\ b.link # 0
           /\ links' = links \cup {b.link}
           /\ Beende(a)
           /\ UNCHANGED <<angebote, auftraege>>
        \/ /\ b.link = 0
           /\ Weiter(a, "setzen", b)
           /\ UNCHANGED <<angebote, auftraege, sperre, links>>

\* (Mutant: the link is set whether or not there is one.)
OhneLinkAlle(a) == IF entitaet[a].gruppe THEN Mitglieder ELSE {auftrag[a].id}

OhneLink(a) ==
  {v \in (IF entitaet[a].gruppe THEN Mitglieder ELSE {auftrag[a].id}) : angebote[v].link = 0}

TokenSetzen(a) ==
  /\ Bei(a, "token", "setzen")
  /\ \A v \in OhneLink(a) : sperre[v] = Niemand
  /\ angebote' = [v \in Varianten |->
                    IF v \in OhneLink(a) THEN [angebote[v] EXCEPT !.link = auftrag[a].nr]
                    ELSE angebote[v]]
  /\ Weiter(a, "antworten", entitaet[a])
  /\ UNCHANGED <<auftraege, sperre, links>>

TokenAntworten(a) ==
  LET b == angebote[auftrag[a].id]
  IN /\ Bei(a, "token", "antworten")
     /\ links' = links \cup {IF b.link = 0 THEN auftrag[a].nr ELSE b.link}
     /\ Beende(a)
     /\ UNCHANGED <<angebote, auftraege>>

-------------------------------------------------------------------------------
(***************************************************************************)
(* The expiry job, and what else happens.                                  *)
(***************************************************************************)
LaeuftAb(v) ==
  /\ angebote[v].angelegt /\ angebote[v].gueltig
  /\ angebote' = [angebote EXCEPT ![v].gueltig = FALSE]
  /\ UNCHANGED <<einzeln, auftraege, sperre, anfragen, links, zaehler>>

Abgelaufene == {v \in Angelegte : angebote[v].status = "offen" /\ ~ angebote[v].gueltig}

\* One statement: it waits for the rows that are locked and asks their condition again.
markAbgelaufen ==
  /\ Abgelaufene # {}
  /\ \A v \in Abgelaufene : sperre[v] = Niemand
  /\ angebote' = [v \in Varianten |->
                    IF v \in Abgelaufene THEN [angebote[v] EXCEPT !.status = "abgelaufen"]
                    ELSE angebote[v]]
  /\ UNCHANGED <<einzeln, auftraege, sperre, anfragen, links, zaehler>>

\* orders.remove, of an order without an issued invoice: the offer stays as it is.
AuftragEntfernen(v) ==
  /\ v \in auftraege
  /\ zaehler.loeschungen < MaxLoeschungen
  /\ zaehler' = [zaehler EXCEPT !.loeschungen = @ + 1]
  /\ auftraege' = auftraege \ {v}
  /\ UNCHANGED <<einzeln, angebote, sperre, anfragen, links>>

\* The process dies; the database takes back what was not committed.
Absturz ==
  /\ zaehler.abstuerze < MaxAbstuerze
  /\ \E a \in Anfragen : ort[a] # "bereit"
  /\ zaehler' = [zaehler EXCEPT !.abstuerze = @ + 1]
  /\ ort' = [a \in Anfragen |-> "bereit"]
  /\ auftrag' = [a \in Anfragen |-> Ruhe]
  /\ entitaet' = [a \in Anfragen |-> NichtAngelegt]
  /\ sperre' = [v \in Varianten |-> Niemand]
  /\ UNCHANGED <<einzeln, angebote, auftraege, links>>

-------------------------------------------------------------------------------
Keine == [anfragen |-> 0, loeschungen |-> 0, abstuerze |-> 0]

Alle == [anfragen |-> MaxAnfragen, loeschungen |-> MaxLoeschungen, abstuerze |-> MaxAbstuerze]

InitMit(z) ==
  /\ einzeln \in BOOLEAN
  /\ angebote = [v \in Varianten |-> NichtAngelegt]
  /\ auftraege = {}
  /\ sperre = [v \in Varianten |-> Niemand]
  /\ ort = [a \in Anfragen |-> "bereit"]
  /\ auftrag = [a \in Anfragen |-> Ruhe]
  /\ entitaet = [a \in Anfragen |-> NichtAngelegt]
  /\ links = {}
  /\ zaehler = z

Init == InitMit(Keine)

LegtAn(a) == NimmAnlegen(a) \/ SetAnlegen(a) \/ SetScheitert(a) \/ SetGruppieren(a)

Annahme(a) ==
  \/ AnnahmeLesen(a) \/ AnnahmeSperren(a) \/ AnnahmePruefen(a)
  \/ AnnahmeFestschreiben(a) \/ AnnahmeKollidiert(a)

Aenderung(a) == NimmAenderung(a) \/ AenderungLesen(a) \/ AenderungSchreiben(a)

Token(a) == NimmToken(a) \/ TokenLesen(a) \/ TokenSetzen(a) \/ TokenAntworten(a)

Next ==
  \/ \E a \in Anfragen : LegtAn(a) \/ NimmAnnahme(a) \/ Annahme(a) \/ Aenderung(a) \/ Token(a)
  \/ \E v \in Varianten : LaeuftAb(v) \/ AuftragEntfernen(v)
  \/ markAbgelaufen \/ Absturz

Spec == Init /\ [][Next]_vars

-------------------------------------------------------------------------------
(***************************************************************************)
(* Properties.                                                             *)
(***************************************************************************)

\* Every row, every request and every history variable has the form its code gives it.
TypeOK ==
  /\ einzeln \in BOOLEAN
  /\ angebote \in [Varianten -> Zeile]
  /\ auftraege \subseteq Varianten
  /\ sperre \in [Varianten -> Anfragen \cup {Niemand}]
  /\ ort \in [Anfragen -> {"bereit", "lesen", "gruppieren", "sperren", "pruefen", "einfuegen",
                           "schreiben", "setzen", "antworten"}]
  /\ auftrag \in [Anfragen -> [op : Operationen, id : Varianten, nr : 0 .. MaxAnfragen]]
  /\ entitaet \in [Anfragen -> Zeile]
  /\ links \subseteq 1 .. MaxAnfragen
  /\ zaehler \in [anfragen : 0 .. MaxAnfragen, loeschungen : 0 .. MaxLoeschungen,
                  abstuerze : 0 .. MaxAbstuerze]

\* Of the variants of one set at most one becomes an order, whoever accepts which of them
\* at the same time, beside any edit, expiry, crash or deletion of an order
\* (acceptAngebotCore: "je Gruppe darf nur eine Variante angenommen werden").
EinAuftragJeGruppe == \A v, w \in auftraege \cap Mitglieder : v = w

\* Where an order refers to an offer, the offer is accepted and chosen and every other
\* variant of its set is rejected: expired, rejected or open offers have no order.
AngenommenStimmt ==
  einzeln =>
    \A v \in auftraege :
      /\ angebote[v].status = "angenommen" /\ angebote[v].gewaehlt
      /\ angebote[v].gruppe =>
           \A w \in Mitglieder \ {v} : angebote[w].status = "abgelehnt" /\ ~ angebote[w].gewaehlt

\* Every link that was handed out opens the whole set, and there is only one
\* (getOrCreateAngebotToken: "keine divergierenden Gruppen-Tokens").
EinLinkJeGruppe ==
  einzeln => \A n \in links : \E v \in Angelegte :
    /\ angebote[v].link = n
    /\ angebote[v].gruppe => \A w \in Mitglieder : angebote[w].link = n
===============================================================================
