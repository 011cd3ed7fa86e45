-------------------------------- MODULE Termine --------------------------------
(***************************************************************************)
(* The calendar of one tenant: online requests that are accepted or        *)
(* rejected (booking-requests.service.ts), appointments that are created,  *)
(* changed and removed under the check for overlaps                        *)
(* (appointments.service.ts, appointment-overlap.ts), and the job that     *)
(* reminds customers (termin-erinnerung.service.ts), whose runs the timer  *)
(* starts whether or not the one before has ended.  Each database call,    *)
(* commit and mail is one step, a request begins with its first one, and   *)
(* one that is refused there is none; transactions run at READ COMMITTED.  *)
(* Two appointments overlap if they are on the same day.  The customer and *)
(* the order an acceptance creates, locations and texts are left out.      *)
(***************************************************************************)
EXTENDS Server, Integers, FiniteSets

CONSTANTS
  Mitarbeiter,     \* the employees an appointment may be assigned to
  Niemand,         \* an appointment without an employee
  Buchungen,       \* the requests from the booking portal
  Laeufe,          \* the runs of the job that may overlap
  MaxTag,          \* bound: the last day
  MaxAnfragen,     \* bound: how many requests begin
  MaxEntfernt,     \* bound: how many appointments are removed
  MaxLaeufe        \* bound: how many runs begin

ASSUME TermineAssumption ==
  /\ Niemand \notin Mitarbeiter
  /\ Buchungen # {} /\ IsFiniteSet(Laeufe)
  /\ MaxTag \in Nat /\ MaxAnfragen \in Nat /\ MaxEntfernt \in Nat
  /\ MaxLaeufe \in Nat /\ MaxAbstuerze \in Nat

VARIABLES
  einzeln,         \* restriction, see Frei, Vertraeglich and Beanspruchen
  blockieren,      \* konfliktverhalten: "blockieren", not "warnen"
  heute,           \* the day
  buchung,         \* the status of each booking request
  termine,         \* the appointment rows
  ort,             \* where in its operation each request waits
  auftrag,         \* what each request is doing
  entitaet,        \* the appointment it will save
  lauf,            \* where each run of the job is, and what is left of its list
  gebucht,         \* history: the appointments each booking request led to
  mails,           \* history: reminders of an appointment since it last moved to a later day
  zaehler          \* for the bounds; also numbers the appointments

anfragen == <<ort, auftrag, entitaet>>
geschichte == <<gebucht, mails>>
vars == <<einzeln, blockieren, heute, buchung, termine, anfragen, lauf, geschichte, zaehler>>

Tage == 0 .. MaxTag
Wer == Mitarbeiter \cup {Niemand}
Nummern == 0 .. MaxAnfragen

\* geplant and bestaetigt are "aktiv"; laeuft, which is in the way like them but is not
\* reminded of, is left out.
TerminStatus == {"aktiv", "abgeschlossen", "abgesagt"}

Termin == [nr : Nummern, wer : Wer, tag : Tage, status : TerminStatus, erinnert : BOOLEAN]

NeuerTermin(nr, w, t) == [nr |-> nr, wer |-> w, tag |-> t, status |-> "aktiv", erinnert |-> FALSE]

Kein == NeuerTermin(0, Niemand, 0)

Operationen == {"ruhe", "annehmen", "ablehnen", "anlegen", "aendern"}

Orte == {"bereit", "flip", "pruefen", "speichern"}

Ruhe == [op |-> "ruhe", buchung |-> CHOOSE b \in Buchungen : TRUE]

-------------------------------------------------------------------------------
(***************************************************************************)
(* The course of a request.                                                *)
(***************************************************************************)
Bei(a, ops, o) == ort[a] = o /\ auftrag[a].op \in ops

Laufende(ops) == {a \in Anfragen : ort[a] # "bereit" /\ auftrag[a].op \in ops}

\* Restriction: a rejection overlaps no acceptance of the same booking request, and a change
\* begins while no reminder is being sent.
Vertraeglich(auf) ==
  LET anderer == [ablehnen |-> "annehmen", annehmen |-> "ablehnen"]
  IN /\ auf.op \in DOMAIN anderer =>
          \A a \in Laufende({anderer[auf.op]}) : auftrag[a].buchung # auf.buchung
     /\ auf.op = "aendern" => \A l \in Laeufe : lauf[l].ort # "senden"

Beginne(a, auf, e, o) ==
  /\ ort[a] = "bereit"
  /\ zaehler.anfragen < MaxAnfragen
  /\ einzeln => Vertraeglich(auf)
  /\ ort' = [ort EXCEPT ![a] = o]
  /\ auftrag' = [auftrag EXCEPT ![a] = auf]
  /\ entitaet' = [entitaet EXCEPT ![a] = e]
  /\ zaehler' = [zaehler EXCEPT !.anfragen = @ + 1]
  /\ UNCHANGED <<einzeln, blockieren, heute, buchung, termine, lauf, geschichte>>

\* The appointments are numbered by the requests that create them.
Neu(w, t) == NeuerTermin(zaehler.anfragen + 1, w, t)

Weiter(a, o) ==
  /\ ort' = [ort EXCEPT ![a] = o]
  /\ UNCHANGED <<einzeln, blockieren, heute, auftrag, lauf, zaehler>>

Beende(a) ==
  /\ ort' = [ort EXCEPT ![a] = "bereit"]
  /\ auftrag' = [auftrag EXCEPT ![a] = Ruhe]
  /\ entitaet' = [entitaet EXCEPT ![a] = Kein]
  /\ UNCHANGED <<einzeln, blockieren, heute, lauf, zaehler>>

Lehneab(a) == Beende(a) /\ UNCHANGED <<buchung, termine, geschichte>>

-------------------------------------------------------------------------------
(***************************************************************************)
(* The check for overlaps.                                                 *)
(***************************************************************************)
Gleichzeitig(t, u) == t.nr # u.nr /\ t.tag = u.tag

\* (Mutant: only what takes a slot of the portal is in the way.)
KonflikteNurAktive(t) ==
  {u \in termine : t.status # "abgesagt" /\ t.wer # Niemand /\ Gleichzeitig(t, u)
                   /\ u.wer = t.wer /\ u.status = "aktiv"}

\* findeTerminKonflikte
Konflikte(t) ==
  {u \in termine : t.status # "abgesagt" /\ t.wer # Niemand /\ Gleichzeitig(t, u)
                   /\ u.wer = t.wer /\ u.status # "abgesagt"}

\* findeBelegteTermineBetriebsweit
Belegt(t) == {u \in termine : Gleichzeitig(t, u) /\ u.status = "aktiv"}

\* Without "blockieren" a confirmed overlap is accepted.
Durchgelassen(konflikte) == konflikte = {} \/ ~ blockieren

\* Restriction: the check and the save of one request do not overlap those of another.
Frei == einzeln => \A y \in Anfragen : ort[y] # "speichern"

-------------------------------------------------------------------------------
(***************************************************************************)
(* booking-requests.service.ts                                             *)
(***************************************************************************)
\* The flip of the status locks the row until its transaction ends; it waits for such a lock.
Gesperrt(b) == \E a \in Anfragen : auftrag[a].op = "annehmen" /\ auftrag[a].buchung = b
                                   /\ ort[a] \in {"pruefen", "speichern"}

\* (Mutant: the flip without its condition.)
AnnehmbarImmer(b) == TRUE

Annehmbar(b) == buchung[b] = "neu"

Annehmen(a) ==
  \E b \in Buchungen, w \in Wer, t \in Tage :
    Beginne(a, [op |-> "annehmen", buchung |-> b], Neu(w, t), "flip")

AnnahmeFlip(a) ==
  LET b == auftrag[a].buchung
  IN /\ ort[a] = "flip"
     /\ ~ Gesperrt(b)
     /\ \/ Annehmbar(b) /\ Weiter(a, "pruefen") /\ UNCHANGED <<buchung, termine, entitaet, geschichte>>
        \/ ~ Annehmbar(b) /\ Lehneab(a)

AnnahmePruefen(a) ==
  LET konflikte == Konflikte(entitaet[a]) \cup Belegt(entitaet[a])
  IN /\ Bei(a, {"annehmen"}, "pruefen")
     /\ Frei
     /\ \/ /\ Durchgelassen(konflikte)
           /\ Weiter(a, "speichern")
           /\ UNCHANGED <<buchung, termine, entitaet, geschichte>>
        \/ konflikte # {} /\ Lehneab(a)

\* (Mutant: the status of the appointment instead of that of the request.)
AngenommenAls(t) == t.status

Angenommen(t) == "angenommen"

AnnahmeCommit(a) ==
  LET b == auftrag[a].buchung
  IN /\ Bei(a, {"annehmen"}, "speichern")
     /\ buchung' = [buchung EXCEPT ![b] = Angenommen(entitaet[a])]
     /\ termine' = termine \cup {entitaet[a]}
     /\ gebucht' = [gebucht EXCEPT ![b] = @ \cup {entitaet[a].nr}]
     /\ Beende(a)
     /\ UNCHANGED mails

\* The number of the order collides: all is rolled back, and withUniqueRetry begins again.
AnnahmeWiederholt(a) ==
  /\ Bei(a, {"annehmen"}, "speichern")
  /\ Weiter(a, "flip")
  /\ UNCHANGED <<buchung, termine, entitaet, geschichte>>

AblehnenLesen(a) ==
  \E b \in Buchungen :
    buchung[b] = "neu" /\ Beginne(a, [op |-> "ablehnen", buchung |-> b], Kein, "speichern")

\* The row is saved whole, whatever it is by now; the save waits for the lock.
AblehnenSpeichern(a) ==
  LET b == auftrag[a].buchung
  IN /\ Bei(a, {"ablehnen"}, "speichern")
     /\ ~ Gesperrt(b)
     /\ buchung' = [buchung EXCEPT ![b] = "abgelehnt"]
     /\ Beende(a)
     /\ UNCHANGED <<termine, geschichte>>

-------------------------------------------------------------------------------
(***************************************************************************)
(* appointments.service.ts                                                 *)
(***************************************************************************)
Anlegen(a) ==
  \E w \in Wer, t \in Tage : Beginne(a, [Ruhe EXCEPT !.op = "anlegen"], Neu(w, t), "pruefen")

\* resetErinnerungBeiVerschiebung
NeuErinnert(alt, neu) == neu.tag > alt.tag

\* patchTime sets the time and the employee, update here the status.
Verlegt(x, w, t) == [x EXCEPT !.wer = w, !.tag = t]

Patches(x) ==
  {Verlegt(x, w, t) : w \in Wer, t \in Tage} \cup {[x EXCEPT !.status = s] : s \in TerminStatus}

AendernLesen(a) ==
  \E x \in termine : \E neu \in Patches(x) :
    Beginne(a, [Ruhe EXCEPT !.op = "aendern"], [neu EXCEPT !.erinnert = @ /\ ~ NeuErinnert(x, neu)],
            "pruefen")

\* speichereMitKonfliktpruefung: first the check ...
Pruefen(a) ==
  LET konflikte == Konflikte(entitaet[a])
  IN /\ Bei(a, {"anlegen", "aendern"}, "pruefen")
     /\ Frei
     /\ \/ /\ Durchgelassen(konflikte)
           /\ Weiter(a, "speichern")
           /\ UNCHANGED <<buchung, termine, entitaet, geschichte>>
        \/ konflikte # {} /\ Lehneab(a)

\* ... then the save, of the whole row; one that is gone is inserted again.
Speichern(a) ==
  LET t == entitaet[a]
      alt == {x \in termine : x.nr = t.nr}
  IN /\ Bei(a, {"anlegen", "aendern"}, "speichern")
     /\ termine' = (termine \ alt) \cup {t}
     /\ mails' = [mails EXCEPT ![t.nr] = IF \A x \in alt : t.tag > x.tag THEN 0 ELSE @]
     /\ Beende(a)
     /\ UNCHANGED <<buchung, gebucht>>

\* remove
Entfernen ==
  /\ zaehler.entfernt < MaxEntfernt
  /\ zaehler' = [zaehler EXCEPT !.entfernt = @ + 1]
  /\ \E x \in termine : termine' = termine \ {x}
  /\ UNCHANGED <<einzeln, blockieren, heute, buchung, anfragen, lauf, geschichte>>

-------------------------------------------------------------------------------
(***************************************************************************)
(* termin-erinnerung.service.ts                                            *)
(***************************************************************************)
Untaetig == [ort |-> "bereit", liste |-> {}, nr |-> 0]

\* stundenVorlauf is 24 hours.
Faellig(x) == x.status = "aktiv" /\ ~ x.erinnert /\ x.tag \in {heute, heute + 1}

LaufBeginnt(l) ==
  /\ lauf[l].ort = "bereit"
  /\ zaehler.laeufe < MaxLaeufe
  /\ zaehler' = [zaehler EXCEPT !.laeufe = @ + 1]
  /\ \E x \in termine : Faellig(x)
  /\ lauf' = [lauf EXCEPT ![l] = [ort |-> "liste", liste |-> {x.nr : x \in {y \in termine : Faellig(y)}},
                                  nr |-> 0]]
  /\ UNCHANGED <<einzeln, blockieren, heute, buchung, termine, anfragen, geschichte>>

\* (Mutant: the claim without its condition.)
BeanspruchbarImmer(x) == TRUE

Beanspruchbar(x) == ~ x.erinnert

LaufNaechster(l, n) ==
  LET x == {y \in termine : y.nr = n /\ Beanspruchbar(y)}
  IN /\ lauf[l].ort = "liste" /\ n \in lauf[l].liste
     /\ einzeln => Laufende({"aendern"}) = {}
     /\ termine' = (termine \ x) \cup {[y EXCEPT !.erinnert = TRUE] : y \in x}
     /\ lauf' = [lauf EXCEPT ![l].liste = @ \ {n},
                             ![l].nr = IF x = {} THEN 0 ELSE n,
                             ![l].ort = IF x = {} THEN "liste" ELSE "senden"]
     /\ UNCHANGED <<einzeln, blockieren, heute, buchung, anfragen, geschichte, zaehler>>

\* A mail that fails is not repeated.
LaufSendet(l) ==
  /\ lauf[l].ort = "senden"
  /\ \E versandt \in 0 .. 1 : mails' = [mails EXCEPT ![lauf[l].nr] = @ + versandt]
  /\ lauf' = [lauf EXCEPT ![l].nr = 0, ![l].ort = "liste"]
  /\ UNCHANGED <<einzeln, blockieren, heute, buchung, termine, anfragen, gebucht, zaehler>>

LaufEndet(l) ==
  /\ lauf[l].ort = "liste" /\ lauf[l].liste = {}
  /\ lauf' = [lauf EXCEPT ![l] = Untaetig]
  /\ UNCHANGED <<einzeln, blockieren, heute, buchung, termine, anfragen, geschichte, zaehler>>

-------------------------------------------------------------------------------
TagWechselt ==
  /\ heute < MaxTag
  /\ heute' = heute + 1
  /\ UNCHANGED <<einzeln, blockieren, buchung, termine, anfragen, lauf, geschichte, zaehler>>

\* What has not been committed is gone, and so are the runs of the job.
Absturz ==
  /\ zaehler.abstuerze < MaxAbstuerze
  /\ (\E a \in Anfragen : ort[a] # "bereit") \/ (\E l \in Laeufe : lauf[l].ort # "bereit")
  /\ zaehler' = [zaehler EXCEPT !.abstuerze = @ + 1]
  /\ ort' = [a \in Anfragen |-> "bereit"]
  /\ auftrag' = [a \in Anfragen |-> Ruhe]
  /\ entitaet' = [a \in Anfragen |-> Kein]
  /\ lauf' = [l \in Laeufe |-> Untaetig]
  /\ UNCHANGED <<einzeln, blockieren, heute, buchung, termine, geschichte>>

Keine == [anfragen |-> 0, entfernt |-> 0, laeufe |-> 0, abstuerze |-> 0]

Alle == [anfragen |-> MaxAnfragen, entfernt |-> MaxEntfernt, laeufe |-> MaxLaeufe,
         abstuerze |-> MaxAbstuerze]

\* The calendar is empty, or has one appointment.
InitMit(z, t) ==
  /\ einzeln \in BOOLEAN
  /\ blockieren \in BOOLEAN
  /\ heute = t
  /\ buchung = [b \in Buchungen |-> "neu"]
  /\ termine \in {{}} \cup {{NeuerTermin(0, w, x)} : w \in Mitarbeiter, x \in Tage}
  /\ ort = [a \in Anfragen |-> "bereit"]
  /\ auftrag = [a \in Anfragen |-> Ruhe]
  /\ entitaet = [a \in Anfragen |-> Kein]
  /\ lauf = [l \in Laeufe |-> Untaetig]
  /\ gebucht = [b \in Buchungen |-> {}]
  /\ mails = [n \in Nummern |-> 0]
  /\ zaehler = z

Init == InitMit(Keine, 0)

Beginnt(a) ==
  Annehmen(a) \/ AblehnenLesen(a) \/ Anlegen(a) \/ AendernLesen(a)

Bedient(a) ==
  \/ AnnahmeFlip(a) \/ AnnahmePruefen(a) \/ AnnahmeCommit(a) \/ AnnahmeWiederholt(a)
  \/ AblehnenSpeichern(a) \/ Pruefen(a) \/ Speichern(a)

Erinnert(l) ==
  LaufBeginnt(l) \/ (\E n \in Nummern : LaufNaechster(l, n)) \/ LaufSendet(l) \/ LaufEndet(l)

Next ==
  \/ \E a \in Anfragen : Beginnt(a) \/ Bedient(a)
  \/ \E l \in Laeufe : Erinnert(l)
  \/ Entfernen \/ TagWechselt \/ Absturz

Spec == Init /\ [][Next]_vars

-------------------------------------------------------------------------------
(***************************************************************************)
(* Properties.                                                             *)
(***************************************************************************)

\* Every row, every request and every history variable has the form its code gives it.
TypeOK ==
  /\ einzeln \in BOOLEAN /\ blockieren \in BOOLEAN
  /\ heute \in Tage
  /\ buchung \in [Buchungen -> {"neu", "angenommen", "abgelehnt"}]
  /\ termine \subseteq Termin
  /\ ort \in [Anfragen -> Orte]
  /\ auftrag \in [Anfragen -> [op : Operationen, buchung : Buchungen]]
  /\ entitaet \in [Anfragen -> Termin]
  /\ lauf \in [Laeufe -> [ort : {"bereit", "liste", "senden"}, liste : SUBSET Nummern, nr : Nummern]]
  /\ gebucht \in [Buchungen -> SUBSET Nummern]
  /\ mails \in [Nummern -> 0 .. MaxLaeufe]

\* However many accept a booking request at the same time, at most one appointment comes
\* of it; and, rejections aside, one comes of it exactly if it is accepted in the end.
BuchungEinmal ==
  \A b \in Buchungen :
    /\ Cardinality(gebucht[b]) <= 1
    /\ einzeln => (buchung[b] = "angenommen" <=> gebucht[b] # {})

\* In a calendar that refuses overlaps, no employee has two appointments at a time that
\* are not cancelled, from whichever of the operations they came.
KeineDoppelbuchung ==
  einzeln /\ blockieren =>
    \A t, u \in termine :
      t.wer = u.wer /\ t.wer # Niemand /\ t.status # "abgesagt" /\ u.status # "abgesagt"
        => ~ Gleichzeitig(t, u)

\* Runs that overlap, crashes and changes of the day do not remind a customer twice
\* of an appointment, unless it has moved to a later day since.
ErinnerungEinmal == einzeln => \A n \in Nummern : mails[n] <= 1
===============================================================================
