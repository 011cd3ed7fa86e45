--------------------------------- MODULE Sitze ---------------------------------
(***************************************************************************)
(* The seats of one tenant: its users and invitations under the limit of   *)
(* its plan.  create, update, setPassword and deactivate                   *)
(* (employees.service.ts), invite, resend, withdraw and accept             *)
(* (invitations.service.ts), and the per-tenant KeyedMutex under which     *)
(* seats are counted and given.  The reads behind one decision are one     *)
(* step, as are the deletion and the insertion of invite; every other      *)
(* database call and every wait for the mutex is a step of its own.        *)
(* Roles, ranks, passwords and mails are left out.                         *)
(***************************************************************************)
EXTENDS Server, Integers, FiniteSets, Sequences

CONSTANTS
  Personen,        \* the e-mail addresses
  Grenzen,         \* maxUsers of the plans
  MaxSitze,        \* bound: how many requests begin
  MaxTarifwechsel  \* bound: how often the plan is switched

\* What the constants have to satisfy: MCBetrieb assumes it.
SitzeAssumption ==
  /\ IsFiniteSet(Personen) /\ Personen # {}
  /\ Grenzen \subseteq Nat /\ Grenzen # {}
  /\ MaxSitze \in Nat /\ MaxTarifwechsel \in Nat /\ MaxAbstuerze \in Nat

VARIABLES
  sEinzeln,        \* whether what saves outside of the mutex overlaps no other request
  nutzer,          \* the user rows
  einladungen,     \* the invitation rows
  grenze,          \* maxUsers of the current plan
  schlange,        \* who holds and who waits for the tenant's mutex
  sOrt,            \* where in its operation each request waits
  sAuftrag,        \* what each request is doing
  sEntitaet,       \* the row it holds in memory
  gezaehlt,        \* what it has counted and, later, the limit it has found kept
  konten,          \* history: the invitations an account was created from
  abgebrochen,     \* history: those whose acceptance was cut off by a crash
  sZaehler         \* for the bounds; also numbers the invitations

sAnfragen == <<sOrt, sAuftrag, sEntitaet, gezaehlt>>
sGeschichte == <<konten, abgebrochen>>
sVars == <<sEinzeln, nutzer, einladungen, grenze, schlange, sAnfragen, sGeschichte, sZaehler>>

Konto == {"kein", "aktiv", "inaktiv"}

EinladungStatus == {"offen", "eingeloest", "zurueckgezogen"}

\* usedAt is set exactly in the states other than "offen".
Einladung == [nr : 0 .. MaxSitze, person : Personen, status : EinladungStatus, gueltig : BOOLEAN]

SOperationen == {"ruhe", "create", "update", "invite", "resend", "withdraw", "accept"}

SOrte == {"bereit", "lesen", "warten", "pruefen", "speichern", "einloesen"}

Jemand == CHOOSE p \in Personen : TRUE

SRuhe == [op |-> "ruhe", person |-> Jemand, nr |-> 0, ziel |-> "gleich"]

Nichts == [konto |-> "kein", einladung |-> [nr |-> 0, person |-> Jemand, status |-> "offen", gueltig |-> FALSE]]

Aktive == {p \in Personen : nutzer[p] = "aktiv"}

Offen(e) == e.status = "offen" /\ e.gueltig

-------------------------------------------------------------------------------
(***************************************************************************)
(* The course of a request.                                                *)
(***************************************************************************)
SBei(a, ops, o) == sOrt[a] = o /\ sAuftrag[a].op \in ops

SLaufende == {sAuftrag[a].op : a \in {x \in Anfragen : sOrt[x] # "bereit"}}

ImMutex == {"create", "invite", "accept"}

Nimm(a, auf) ==
  /\ sOrt[a] = "bereit"
  /\ sZaehler.anfragen < MaxSitze
  /\ sEinzeln => SLaufende \subseteq (IF auf.op \in ImMutex THEN ImMutex ELSE {})
  /\ sOrt' = [sOrt EXCEPT ![a] = "lesen"]
  /\ sAuftrag' = [sAuftrag EXCEPT ![a] = auf]
  /\ sZaehler' = [sZaehler EXCEPT !.anfragen = @ + 1]
  /\ UNCHANGED <<sEinzeln, nutzer, einladungen, grenze, schlange, sEntitaet, gezaehlt, sGeschichte>>

Geh(a, o) ==
  /\ sOrt' = [sOrt EXCEPT ![a] = o]
  /\ UNCHANGED <<sEinzeln, grenze, sAuftrag, abgebrochen, sZaehler>>

Vorn(a) == schlange # <<>> /\ Head(schlange) = a

\* (Mutant: a section that throws keeps the mutex.)
FreigabeNurErfolg(a) == IF Vorn(a) /\ sOrt[a] # "pruefen" THEN Tail(schlange) ELSE schlange

\* runExclusive: whatever becomes of the section, the next one begins.
Freigabe(a) == IF Vorn(a) THEN Tail(schlange) ELSE schlange

SBeende(a) ==
  /\ sOrt' = [sOrt EXCEPT ![a] = "bereit"]
  /\ sAuftrag' = [sAuftrag EXCEPT ![a] = SRuhe]
  /\ sEntitaet' = [sEntitaet EXCEPT ![a] = Nichts]
  /\ gezaehlt' = [gezaehlt EXCEPT ![a] = 0]
  /\ schlange' = Freigabe(a)
  /\ UNCHANGED <<sEinzeln, grenze, abgebrochen, sZaehler>>

SLehneab(a) == SBeende(a) /\ UNCHANGED <<nutzer, einladungen, konten>>

StelltSichAn(a) ==
  /\ schlange' = Append(schlange, a)
  /\ Geh(a, "warten")
  /\ UNCHANGED <<nutzer, einladungen, gezaehlt, konten>>

\* (Mutant: no mutex.)
AmZugImmer(a) == sOrt[a] = "warten"

AmZug(a) == sOrt[a] = "warten" /\ Vorn(a)

\* Inside the mutex: the active users are counted first.
Zaehlen(a) ==
  /\ AmZug(a)
  /\ gezaehlt' = [gezaehlt EXCEPT ![a] = Cardinality(Aktive)]
  /\ Geh(a, "pruefen")
  /\ UNCHANGED <<nutzer, einladungen, schlange, sEntitaet, konten>>

\* assertLimit reads the plan; one more must fit.
Passt(zahl) == zahl < grenze

Erlaubt(a) ==
  /\ gezaehlt' = [gezaehlt EXCEPT ![a] = grenze]
  /\ Geh(a, "speichern")
  /\ UNCHANGED <<nutzer, einladungen, schlange, konten>>

-------------------------------------------------------------------------------
(***************************************************************************)
(* employees.service.ts                                                    *)
(***************************************************************************)
NimmCreate(a) == \E p \in Personen : Nimm(a, [SRuhe EXCEPT !.op = "create", !.person = p])

CreateAnstellen(a) ==
  SBei(a, {"create"}, "lesen") /\ StelltSichAn(a) /\ UNCHANGED sEntitaet

CreatePruefen(a) ==
  LET moeglich == Passt(gezaehlt[a]) /\ nutzer[sAuftrag[a].person] = "kein"
  IN /\ SBei(a, {"create"}, "pruefen")
     /\ \/ moeglich /\ Erlaubt(a) /\ UNCHANGED sEntitaet
        \/ ~ moeglich /\ SLehneab(a)

\* The addresses are unique.
CreateSpeichern(a) ==
  LET p == sAuftrag[a].person
  IN /\ SBei(a, {"create"}, "speichern")
     /\ nutzer' = [nutzer EXCEPT ![p] = IF @ = "kein" THEN "aktiv" ELSE @]
     /\ SBeende(a)
     /\ UNCHANGED <<einladungen, konten>>

\* update with isActive, deactivate, and what leaves it alone: update of other fields and
\* setPassword.
NimmUpdate(a) ==
  \E p \in Personen, z \in {"gleich", "aktiv", "inaktiv"} :
    /\ nutzer[p] # "kein"
    /\ Nimm(a, [SRuhe EXCEPT !.op = "update", !.person = p, !.ziel = z])

Reaktiviert(konto, ziel) == konto = "inaktiv" /\ ziel = "aktiv"

UpdateLesen(a) ==
  LET konto == nutzer[sAuftrag[a].person]
      ziel == sAuftrag[a].ziel
  IN /\ SBei(a, {"update"}, "lesen")
     /\ sEntitaet' = [sEntitaet EXCEPT ![a].konto = IF ziel = "gleich" THEN konto ELSE ziel]
     /\ \/ Reaktiviert(konto, ziel) /\ StelltSichAn(a)
        \/ /\ ~ Reaktiviert(konto, ziel)
           /\ Geh(a, "speichern")
           /\ UNCHANGED <<nutzer, einladungen, schlange, gezaehlt, konten>>

UpdatePruefen(a) ==
  /\ SBei(a, {"update"}, "pruefen")
  /\ \/ Passt(gezaehlt[a]) /\ Erlaubt(a) /\ UNCHANGED sEntitaet
     \/ ~ Passt(gezaehlt[a]) /\ SLehneab(a)

UpdateSpeichern(a) ==
  /\ SBei(a, {"update"}, "speichern")
  /\ nutzer' = [nutzer EXCEPT ![sAuftrag[a].person] = sEntitaet[a].konto]
  /\ SBeende(a)
  /\ UNCHANGED <<einladungen, konten>>

-------------------------------------------------------------------------------
(***************************************************************************)
(* invitations.service.ts                                                  *)
(***************************************************************************)
NimmInvite(a) ==
  \E p \in Personen :
    Nimm(a, [SRuhe EXCEPT !.op = "invite", !.person = p, !.nr = sZaehler.anfragen + 1])

InviteAnstellen(a) ==
  SBei(a, {"invite"}, "lesen") /\ StelltSichAn(a) /\ UNCHANGED sEntitaet

\* The seats that open invitations to other addresses keep.
Reserviert(p) == Cardinality({e \in einladungen : Offen(e) /\ e.person # p})

InvitePruefen(a) ==
  LET p == sAuftrag[a].person
      moeglich == nutzer[p] = "kein" /\ Passt(gezaehlt[a] + Reserviert(p))
  IN /\ SBei(a, {"invite"}, "pruefen")
     /\ \/ moeglich /\ Erlaubt(a) /\ UNCHANGED sEntitaet
        \/ ~ moeglich /\ SLehneab(a)

\* (Mutant: an older invitation of the address stays.)
ErsetztKeine(p) == {}

Ersetzt(p) == {e \in einladungen : e.person = p /\ e.status = "offen"}

InviteSpeichern(a) ==
  LET p == sAuftrag[a].person
  IN /\ SBei(a, {"invite"}, "speichern")
     /\ einladungen' = (einladungen \ Ersetzt(p)) \cup
                       {[nr |-> sAuftrag[a].nr, person |-> p, status |-> "offen", gueltig |-> TRUE]}
     /\ SBeende(a)
     /\ UNCHANGED <<nutzer, konten>>

\* Both read the row and save it as a whole, outside of the mutex.
NimmAendern(a) ==
  \E e \in einladungen, op \in {"resend", "withdraw"} :
    Nimm(a, [SRuhe EXCEPT !.op = op, !.person = e.person, !.nr = e.nr])

Gelesen(a) == {e \in einladungen : e.nr = sAuftrag[a].nr}

Aenderbar(op, e) == IF op = "resend" THEN e.status = "offen" ELSE e.status # "eingeloest"

Geaendert(op, e) ==
  IF op = "resend" THEN [e EXCEPT !.gueltig = TRUE] ELSE [e EXCEPT !.status = "zurueckgezogen"]

SAendernLesen(a) ==
  LET op == sAuftrag[a].op
  IN /\ SBei(a, {"resend", "withdraw"}, "lesen")
     /\ \/ \E e \in Gelesen(a) :
             /\ Aenderbar(op, e)
             /\ sEntitaet' = [sEntitaet EXCEPT ![a].einladung = Geaendert(op, e)]
             /\ Geh(a, "speichern")
             /\ UNCHANGED <<nutzer, einladungen, schlange, gezaehlt, konten>>
        \/ (\A e \in Gelesen(a) : ~ Aenderbar(op, e)) /\ SLehneab(a)

\* A row that was deleted meanwhile is inserted again.
AendernSpeichern(a) ==
  /\ SBei(a, {"resend", "withdraw"}, "speichern")
  /\ einladungen' = (einladungen \ Gelesen(a)) \cup {sEntitaet[a].einladung}
  /\ SBeende(a)
  /\ UNCHANGED <<nutzer, konten>>

NimmAccept(a) ==
  \E e \in einladungen : Nimm(a, [SRuhe EXCEPT !.op = "accept", !.person = e.person, !.nr = e.nr])

\* (Mutant: in the mutex the invitation is not read again.)
EinloesbarVorher(a) == sOrt[a] = "pruefen" \/ \E e \in Gelesen(a) : Offen(e)

Einloesbar(a) == \E e \in Gelesen(a) : Offen(e)

AcceptLesen(a) ==
  /\ SBei(a, {"accept"}, "lesen")
  /\ \/ Einloesbar(a) /\ StelltSichAn(a) /\ UNCHANGED sEntitaet
     \/ ~ Einloesbar(a) /\ SLehneab(a)

AcceptPruefen(a) ==
  LET moeglich == Einloesbar(a) /\ Passt(gezaehlt[a]) /\ nutzer[sAuftrag[a].person] = "kein"
  IN /\ SBei(a, {"accept"}, "pruefen")
     /\ \/ moeglich /\ Erlaubt(a) /\ UNCHANGED sEntitaet
        \/ ~ moeglich /\ SLehneab(a)

AcceptSpeichern(a) ==
  LET p == sAuftrag[a].person
  IN /\ SBei(a, {"accept"}, "speichern")
     /\ nutzer[p] = "kein"
     /\ nutzer' = [nutzer EXCEPT ![p] = "aktiv"]
     /\ konten' = konten \cup {sAuftrag[a].nr}
     /\ Geh(a, "einloesen")
     /\ UNCHANGED <<einladungen, schlange, sEntitaet, gezaehlt>>

\* The claim; without a row it fails, and the account stays.
AcceptEinloesen(a) ==
  /\ SBei(a, {"accept"}, "einloesen")
  /\ einladungen' = {IF e \in Gelesen(a) /\ e.status = "offen"
                       THEN [e EXCEPT !.status = "eingeloest"] ELSE e : e \in einladungen}
  /\ SBeende(a)
  /\ UNCHANGED <<nutzer, konten>>

-------------------------------------------------------------------------------
LaeuftAb(e) ==
  /\ Offen(e)
  /\ einladungen' = (einladungen \ {e}) \cup {[e EXCEPT !.gueltig = FALSE]}
  /\ UNCHANGED <<sEinzeln, nutzer, grenze, schlange, sAnfragen, sGeschichte, sZaehler>>

Tarifwechsel ==
  /\ sZaehler.tarife < MaxTarifwechsel
  /\ sZaehler' = [sZaehler EXCEPT !.tarife = @ + 1]
  /\ grenze' \in Grenzen \ {grenze}
  /\ UNCHANGED <<sEinzeln, nutzer, einladungen, schlange, sAnfragen, sGeschichte>>

\* The process dies with its requests and its mutex.
SAbsturz ==
  /\ sZaehler.abstuerze < MaxAbstuerze
  /\ \E a \in Anfragen : sOrt[a] # "bereit"
  /\ sZaehler' = [sZaehler EXCEPT !.abstuerze = @ + 1]
  /\ abgebrochen' = abgebrochen \cup {sAuftrag[a].nr : a \in {x \in Anfragen : sOrt[x] = "einloesen"}}
  /\ schlange' = <<>>
  /\ sOrt' = [a \in Anfragen |-> "bereit"]
  /\ sAuftrag' = [a \in Anfragen |-> SRuhe]
  /\ sEntitaet' = [a \in Anfragen |-> Nichts]
  /\ gezaehlt' = [a \in Anfragen |-> 0]
  /\ UNCHANGED <<sEinzeln, nutzer, einladungen, grenze, konten>>

SKeine == [anfragen |-> 0, tarife |-> 0, abstuerze |-> 0]

SAlle == [anfragen |-> MaxSitze, tarife |-> MaxTarifwechsel, abstuerze |-> MaxAbstuerze]

SInitMit(z) ==
  /\ sEinzeln \in BOOLEAN
  /\ grenze \in Grenzen
  /\ nutzer \in {n \in [Personen -> Konto] : Cardinality({p \in Personen : n[p] = "aktiv"}) <= grenze}
  /\ einladungen = {}
  /\ schlange = <<>>
  /\ sOrt = [a \in Anfragen |-> "bereit"]
  /\ sAuftrag = [a \in Anfragen |-> SRuhe]
  /\ sEntitaet = [a \in Anfragen |-> Nichts]
  /\ gezaehlt = [a \in Anfragen |-> 0]
  /\ konten = {}
  /\ abgebrochen = {}
  /\ sZaehler = z

SInit == SInitMit(SKeine)

SBeginnt(a) == NimmCreate(a) \/ NimmUpdate(a) \/ NimmInvite(a) \/ NimmAendern(a) \/ NimmAccept(a)

SBedient(a) ==
  \/ CreateAnstellen(a) \/ InviteAnstellen(a) \/ Zaehlen(a)
  \/ CreatePruefen(a) \/ CreateSpeichern(a)
  \/ UpdateLesen(a) \/ UpdatePruefen(a) \/ UpdateSpeichern(a)
  \/ InvitePruefen(a) \/ InviteSpeichern(a)
  \/ SAendernLesen(a) \/ AendernSpeichern(a)
  \/ AcceptLesen(a) \/ AcceptPruefen(a) \/ AcceptSpeichern(a) \/ AcceptEinloesen(a)

SNext ==
  \/ \E a \in Anfragen : SBeginnt(a) \/ SBedient(a)
  \/ \E e \in einladungen : LaeuftAb(e)
  \/ Tarifwechsel \/ SAbsturz

\* The server goes on with every request it has taken.
Fairness == \A a \in Anfragen : WF_sVars(SBedient(a))

SSpec == SInit /\ [][SNext]_sVars /\ Fairness

-------------------------------------------------------------------------------
(***************************************************************************)
(* Properties.                                                             *)
(***************************************************************************)

\* Every row, every request and every history variable has the form its code gives it.
STypeOK ==
  /\ sEinzeln \in BOOLEAN
  /\ nutzer \in [Personen -> Konto]
  /\ einladungen \subseteq Einladung
  /\ grenze \in Grenzen
  /\ schlange \in Seq(Anfragen)
  /\ sOrt \in [Anfragen -> SOrte]
  /\ sAuftrag \in [Anfragen -> [op : SOperationen, person : Personen, nr : 0 .. MaxSitze,
                                ziel : {"gleich", "aktiv", "inaktiv"}]]
  /\ sEntitaet \in [Anfragen -> [konto : Konto, einladung : Einladung]]
  /\ gezaehlt \in [Anfragen -> Nat]
  /\ konten \subseteq 0 .. MaxSitze
  /\ abgebrochen \subseteq 0 .. MaxSitze
  /\ sZaehler \in [anfragen : 0 .. MaxSitze, tarife : 0 .. MaxTarifwechsel,
                    abstuerze : 0 .. MaxAbstuerze]

\* Whoever becomes active by whichever operation finds the limit of the plan, as it was
\* read, kept: creations, re-activations and acceptances for the last seat, all at the
\* same time, do not exceed it together.
GrenzeGehalten ==
  [][sEinzeln /\ Aktive # Aktive' /\ Aktive \subseteq Aktive' =>
       \E a \in Anfragen : sOrt[a] = "speichern" /\ sOrt'[a] # "speichern" /\
                           Cardinality(Aktive') <= gezaehlt[a]]_sVars

\* An account was created from an invitation exactly if the invitation is redeemed, it
\* being redeemed at the moment, or cut off by a crash: a redeemed one stays it, and one
\* that was withdrawn or replaced has no account.  And an address never has two
\* invitations that are open: there is one link at a time.
EinloesungStimmt ==
  sEinzeln =>
    /\ konten = {e.nr : e \in {x \in einladungen : x.status = "eingeloest"}}
                \cup abgebrochen
                \cup {sAuftrag[a].nr : a \in {x \in Anfragen : sOrt[x] = "einloesen"}}
    /\ \A e, f \in einladungen :
         e.person = f.person /\ e.status = "offen" /\ f.status = "offen" => e = f

\* Whoever waits for the mutex gets it, whatever becomes of those before.
JederKommtDran == \A a \in Anfragen : sOrt[a] = "warten" ~> sOrt[a] # "warten"
===============================================================================
