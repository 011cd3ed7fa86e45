----------------------------- MODULE BetriebProofs -----------------------------
(***************************************************************************)
(* Theorems about Sitze and Termine for every number of addresses,         *)
(* employees, requests and runs of the job, all plans, days and bounds.    *)
(* Of Sitze: the types, however requests overlap, and, where what saves    *)
(* outside of the mutex runs alone (sEinzeln), the limit of the plan and   *)
(* the agreement of accounts and invitations.  Of Termine: the types and   *)
(* that a booking request leads to one appointment, however requests       *)
(* overlap, and, under its restriction (einzeln), the agreement of the two,*)
(* the calendar without overlaps and the single reminder.                  *)
(***************************************************************************)
EXTENDS MCBetrieb, FiniteSetTheorems, TLAPS

-------------------------------------------------------------------------------
(***************************************************************************)
(* Sitze: the inductive invariant.                                         *)
(***************************************************************************)
Laeuft(a) == sOrt[a] # "bereit"

\* What Nimm keeps up.
Allein ==
  \A a, b \in Anfragen : a # b /\ Laeuft(a) /\ Laeuft(b) => sAuftrag[a].op \in ImMutex

\* Inside of the mutex there is who is first in its queue.
Drin(a) == sOrt[a] \in {"pruefen", "speichern", "einloesen"} /\ sAuftrag[a].op \in ImMutex

Ausschluss == \A a \in Anfragen : Drin(a) => Vorn(a)

\* Numbers of invitations are given once.
Nummeriert ==
  /\ \A e \in einladungen : e.nr \in 1 .. sZaehler.anfragen
  /\ \A e, f \in einladungen : e.nr = f.nr => e = f
  /\ \A a \in Anfragen : Laeuft(a) => sAuftrag[a].nr \in 0 .. sZaehler.anfragen
  /\ \A a, b \in Anfragen : a # b /\ Laeuft(a) /\ Laeuft(b) /\ sAuftrag[a].op = "invite"
                              => sAuftrag[a].nr # sAuftrag[b].nr

AnzahlAktive == Cardinality(Aktive)

\* Whoever is about to make one more user active has found a seat for it.
Platz(a) ==
  /\ sOrt[a] = "pruefen" => gezaehlt[a] = AnzahlAktive
  /\ sOrt[a] = "speichern" =>
       /\ sAuftrag[a].op \in {"create", "accept"} => AnzahlAktive + 1 <= gezaehlt[a]
       /\ sAuftrag[a].op = "update" /\ sEntitaet[a].konto = "aktiv" /\ nutzer[sAuftrag[a].person] # "aktiv"
            => AnzahlAktive + 1 <= gezaehlt[a]

\* An update knows whose row it has read.
Umstellung(a) ==
  sAuftrag[a].op = "update" /\ Laeuft(a) =>
    /\ nutzer[sAuftrag[a].person] # "kein"
    /\ sOrt[a] \in {"warten", "pruefen", "speichern"} => sEntitaet[a].konto # "kein"

\* The invitation that a request is about to redeem or to save is still there, and open.
Einladend(a) ==
  LET n == sAuftrag[a].nr
      g == sEntitaet[a].einladung
  IN /\ sOrt[a] = "einloesen" => sAuftrag[a].op = "accept"
     /\ sAuftrag[a].op = "accept" /\ sOrt[a] \in {"speichern", "einloesen"} =>
          \E e \in einladungen : e.nr = n /\ e.status = "offen"
     /\ sAuftrag[a].op = "invite" /\ Laeuft(a) => n # 0 /\ \A e \in einladungen : e.nr # n
     /\ sAuftrag[a].op \in {"resend", "withdraw"} /\ sOrt[a] = "speichern" =>
          /\ g.nr = n /\ g.status # "eingeloest"
          /\ \E e \in einladungen : /\ e.nr = n /\ e.status # "eingeloest"
                                    /\ g.status = "offen" => e.status = "offen" /\ e.person = g.person

Geordnet ==
  /\ Allein
  /\ Ausschluss
  /\ Nummeriert
  /\ EinloesungStimmt
  /\ \A a \in Anfragen : Platz(a) /\ Umstellung(a) /\ Einladend(a)

IInv == STypeOK /\ (sEinzeln => Geordnet)

-------------------------------------------------------------------------------
(***************************************************************************)
(* Types.                                                                  *)
(***************************************************************************)
Auftraege == [op : SOperationen, person : Personen, nr : 0 .. MaxSitze,
              ziel : {"gleich", "aktiv", "inaktiv"}]

Entitaeten == [konto : Konto, einladung : Einladung]

\* Only a moves among the requests.
Nur(a) ==
  \A b \in Anfragen \ {a} : /\ sOrt'[b] = sOrt[b] /\ sAuftrag'[b] = sAuftrag[b]
                            /\ sEntitaet'[b] = sEntitaet[b] /\ gezaehlt'[b] = gezaehlt[b]

\* a goes on with what it does, or is done.
Bleibt(a) == Laeuft(a)' => Laeuft(a) /\ sAuftrag'[a] = sAuftrag[a]

LEMMA Konstanten ==
  ASSUME SitzeAssumption
  PROVE  /\ MaxSitze \in Nat /\ IsFiniteSet(Personen) /\ Grenzen \subseteq Nat
         /\ SRuhe \in Auftraege /\ Nichts \in Entitaeten
         /\ SRuhe.op = "ruhe" /\ SRuhe.nr = 0 /\ Nichts.konto = "kein"
<1>1. MaxSitze \in Nat /\ IsFiniteSet(Personen) /\ Grenzen \subseteq Nat /\ Jemand \in Personen
  BY DEF SitzeAssumption, Jemand
<1> QED
  BY <1>1 DEF SRuhe, Nichts, Auftraege, Entitaeten, SOperationen, Konto, Einladung, EinladungStatus

LEMMA NimmTyp ==
  ASSUME SitzeAssumption, STypeOK, NEW a \in Anfragen, NEW auf \in Auftraege, Nimm(a, auf)
  PROVE  STypeOK' /\ Nur(a) /\ sOrt'[a] = "lesen" /\ sAuftrag'[a] = auf
<1>1. /\ sOrt' \in [Anfragen -> SOrte] /\ sAuftrag' \in [Anfragen -> Auftraege]
      /\ Nur(a) /\ sOrt'[a] = "lesen" /\ sAuftrag'[a] = auf
  BY DEF Nimm, STypeOK, Auftraege, SOrte, Nur
<1>2. sZaehler' \in [anfragen : 0 .. MaxSitze, tarife : 0 .. MaxTarifwechsel,
                     abstuerze : 0 .. MaxAbstuerze]
  <2>1. /\ sZaehler' = [sZaehler EXCEPT !.anfragen = @ + 1] /\ sZaehler.anfragen < MaxSitze
        /\ sZaehler \in [anfragen : 0 .. MaxSitze, tarife : 0 .. MaxTarifwechsel,
                         abstuerze : 0 .. MaxAbstuerze]
    BY DEF Nimm, STypeOK
  <2>2. sZaehler.anfragen + 1 \in 0 .. MaxSitze
    BY <2>1, Konstanten
  <2> QED
    BY <2>1, <2>2
<1> QED
  BY <1>1, <1>2 DEF Nimm, STypeOK, Auftraege, sGeschichte

LEMMA GehTyp ==
  ASSUME STypeOK, NEW a \in Anfragen, NEW o \in SOrte, Geh(a, o)
  PROVE  /\ sOrt' \in [Anfragen -> SOrte] /\ sOrt'[a] = o
         /\ \A b \in Anfragen \ {a} : sOrt'[b] = sOrt[b]
         /\ UNCHANGED <<sEinzeln, grenze, sAuftrag, abgebrochen, sZaehler>>
BY DEF STypeOK, Geh

LEMMA FreigabeTyp ==
  ASSUME STypeOK, NEW a \in Anfragen
  PROVE  Freigabe(a) \in Seq(Anfragen)
BY DEF STypeOK, Freigabe, Vorn

LEMMA BeendeTyp ==
  ASSUME SitzeAssumption, STypeOK, NEW a \in Anfragen, SBeende(a)
  PROVE  /\ sOrt' \in [Anfragen -> SOrte] /\ sAuftrag' \in [Anfragen -> Auftraege]
         /\ sEntitaet' \in [Anfragen -> Entitaeten] /\ gezaehlt' \in [Anfragen -> Nat]
         /\ schlange' \in Seq(Anfragen) /\ schlange' = Freigabe(a)
         /\ sOrt'[a] = "bereit" /\ sAuftrag'[a] = SRuhe /\ Nur(a) /\ Bleibt(a)
         /\ UNCHANGED <<sEinzeln, grenze, abgebrochen, sZaehler>>
<1>1. sOrt' \in [Anfragen -> SOrte] /\ sAuftrag' \in [Anfragen -> Auftraege] /\ sOrt'[a] = "bereit" /\ sAuftrag'[a] = SRuhe
  BY Konstanten DEF STypeOK, SBeende, SOrte, Auftraege
<1>2. sEntitaet' \in [Anfragen -> Entitaeten] /\ gezaehlt' \in [Anfragen -> Nat]
  BY Konstanten DEF STypeOK, SBeende, Entitaeten
<1>3. Nur(a) /\ Bleibt(a)
  BY <1>1 DEF STypeOK, SBeende, Nur, Bleibt, Laeuft
<1> QED
  BY <1>1, <1>2, <1>3, FreigabeTyp DEF SBeende

LEMMA AnstellenTyp ==
  ASSUME STypeOK, NEW a \in Anfragen, StelltSichAn(a)
  PROVE  /\ schlange' = Append(schlange, a) /\ schlange' \in Seq(Anfragen)
         /\ sOrt' \in [Anfragen -> SOrte] /\ sOrt'[a] = "warten"
         /\ \A b \in Anfragen \ {a} : sOrt'[b] = sOrt[b]
         /\ UNCHANGED <<sEinzeln, grenze, sAuftrag, abgebrochen, sZaehler, nutzer, einladungen, gezaehlt, konten>>
BY GehTyp DEF StelltSichAn, STypeOK, SOrte

LEMMA ErlaubtTyp ==
  ASSUME SitzeAssumption, STypeOK, NEW a \in Anfragen, Erlaubt(a)
  PROVE  /\ gezaehlt' \in [Anfragen -> Nat] /\ gezaehlt'[a] = grenze
         /\ \A b \in Anfragen \ {a} : sOrt'[b] = sOrt[b] /\ gezaehlt'[b] = gezaehlt[b]
         /\ sOrt' \in [Anfragen -> SOrte] /\ sOrt'[a] = "speichern"
         /\ UNCHANGED <<sEinzeln, grenze, sAuftrag, abgebrochen, sZaehler, nutzer, einladungen, schlange, konten>>
<1>1. grenze \in Nat
  BY Konstanten DEF STypeOK
<1> QED
  BY <1>1, GehTyp DEF Erlaubt, STypeOK, SOrte

LEMMA AktiveEndlich ==
  ASSUME SitzeAssumption
  PROVE  IsFiniteSet(Aktive) /\ AnzahlAktive \in Nat
<1>1. Aktive \subseteq Personen
  BY DEF Aktive
<1> QED
  BY <1>1, Konstanten, FS_Subset, FS_CardinalityType DEF AnzahlAktive

\* One user at most is added.
LEMMA EinerMehr ==
  ASSUME SitzeAssumption, STypeOK, NEW p \in Personen, NEW k \in Konto, nutzer' = [nutzer EXCEPT ![p] = k]
  PROVE  /\ Aktive' \subseteq Aktive \cup {p}
         /\ Cardinality(Aktive') \in Nat /\ Cardinality(Aktive') <= AnzahlAktive + 1
         /\ (k # "aktiv" \/ nutzer[p] = "aktiv") => Aktive' \subseteq Aktive
<1>1. Aktive' \subseteq Aktive \cup {p} /\ ((k # "aktiv" \/ nutzer[p] = "aktiv") => Aktive' \subseteq Aktive)
  BY DEF STypeOK, Aktive
<1>2. IsFiniteSet(Aktive \cup {p}) /\ Cardinality(Aktive \cup {p}) <= AnzahlAktive + 1
      /\ Cardinality(Aktive \cup {p}) \in Nat
  <2>1. IsFiniteSet(Aktive \cup {p})
        /\ Cardinality(Aktive \cup {p}) = IF p \in Aktive THEN AnzahlAktive ELSE AnzahlAktive + 1
    BY AktiveEndlich, FS_AddElement DEF AnzahlAktive
  <2> QED
    BY <2>1, AktiveEndlich
<1>3. IsFiniteSet(Aktive') /\ Cardinality(Aktive') <= Cardinality(Aktive \cup {p}) /\ Cardinality(Aktive') \in Nat
  BY <1>1, <1>2, FS_Subset, FS_CardinalityType
<1> QED
  BY <1>1, <1>2, <1>3, AktiveEndlich

-------------------------------------------------------------------------------
(***************************************************************************)
(* What a step of request a does to the others.                            *)
(***************************************************************************)
\* The queue grows at its end, or its first leaves.
Schlangenschritt(a) ==
  /\ \/ schlange' = schlange
     \/ schlange' = Append(schlange, a)
     \/ schlange' = Freigabe(a) /\ ~ Laeuft(a)'
  /\ Drin(a)' => Vorn(a) /\ schlange' = schlange

\* No number appears but that of a new invitation.
Nummernschritt(a) ==
  /\ \A e \in einladungen' : \/ \E f \in einladungen : f.nr = e.nr
                             \/ sAuftrag[a].op = "invite" /\ e.nr = sAuftrag[a].nr
  /\ \A e, f \in einladungen' : e.nr = f.nr => e = f

Schritt(a) ==
  /\ Laeuft(a) /\ Nur(a) /\ Bleibt(a)
  /\ Schlangenschritt(a) /\ Nummernschritt(a)
  /\ sEinzeln' = sEinzeln /\ sZaehler' = sZaehler

LEMMA OrdnungBleibt ==
  ASSUME SitzeAssumption, STypeOK, Geordnet, NEW a \in Anfragen, Schritt(a)
  PROVE  Allein' /\ Ausschluss' /\ Nummeriert'
<1>1. Allein'
  BY DEF Geordnet, Allein, Schritt, Nur, Bleibt, Laeuft
<1>2. Ausschluss'
  <2>1. SUFFICES ASSUME NEW b \in Anfragen, Drin(b)' PROVE Vorn(b)'
    BY DEF Ausschluss
  <2>2. CASE b = a
    BY <2>1, <2>2 DEF Schritt, Schlangenschritt, Vorn
  <2>3. CASE b # a
    <3>1. Drin(b) /\ Vorn(b)
      BY <2>1, <2>3 DEF Geordnet, Ausschluss, Schritt, Nur, Drin
    <3>2. CASE schlange' = Append(schlange, a)
      BY <3>1, <3>2 DEF Vorn, STypeOK
    <3>3. CASE schlange' = Freigabe(a)
      BY <2>3, <3>1, <3>3 DEF Vorn, Freigabe
    <3> QED
      BY <3>1, <3>2, <3>3 DEF Schritt, Schlangenschritt, Vorn
  <2> QED
    BY <2>2, <2>3
<1>3. Nummeriert'
  <2>1. (\A e \in einladungen : e.nr \in 1 .. sZaehler.anfragen)'
    <3>1. SUFFICES ASSUME NEW e \in einladungen' PROVE e.nr \in 1 .. sZaehler.anfragen
      BY DEF Schritt
    <3>2. CASE \E f \in einladungen : f.nr = e.nr
      BY <3>2 DEF Geordnet, Nummeriert
    <3>3. CASE sAuftrag[a].op = "invite" /\ e.nr = sAuftrag[a].nr
      BY <3>3, Konstanten DEF Geordnet, Nummeriert, Einladend, Schritt, STypeOK
    <3> QED
      BY <3>2, <3>3 DEF Schritt, Nummernschritt
  <2>2. (\A b \in Anfragen : Laeuft(b) => sAuftrag[b].nr \in 0 .. sZaehler.anfragen)'
    BY DEF Geordnet, Nummeriert, Schritt, Nur, Bleibt, Laeuft
  <2>3. (\A b, c \in Anfragen : b # c /\ Laeuft(b) /\ Laeuft(c) /\ sAuftrag[b].op = "invite"
                                  => sAuftrag[b].nr # sAuftrag[c].nr)'
    BY DEF Geordnet, Nummeriert, Schritt, Nur, Bleibt, Laeuft
  <2> QED
    BY <2>1, <2>2, <2>3 DEF Nummeriert, Schritt, Nummernschritt
<1> QED
  BY <1>1, <1>2, <1>3

\* Who is inside, or runs alone, is disturbed by nobody, and disturbs nobody.
LEMMA Ungestoert ==
  ASSUME Geordnet, NEW a \in Anfragen, Laeuft(a), Drin(a) \/ sAuftrag[a].op \notin ImMutex
  PROVE  \A b \in Anfragen \ {a} : /\ Laeuft(b) => sAuftrag[b].op \in ImMutex
                                   /\ sOrt[b] \notin {"pruefen", "speichern", "einloesen"}
<1>1. SUFFICES ASSUME NEW b \in Anfragen \ {a}, Laeuft(b)
               PROVE  sAuftrag[b].op \in ImMutex /\ ~ Drin(b)
  BY DEF Drin, Laeuft
<1>2. sAuftrag[a].op \in ImMutex /\ sAuftrag[b].op \in ImMutex
  BY <1>1 DEF Geordnet, Allein
<1>3. Vorn(a)
  BY <1>2 DEF Geordnet, Ausschluss
<1> QED
  BY <1>1, <1>2, <1>3 DEF Geordnet, Ausschluss, Vorn

LEMMA Uebrige ==
  ASSUME Geordnet, NEW a \in Anfragen, Schritt(a), Drin(a) \/ sAuftrag[a].op \notin ImMutex
  PROVE  \A b \in Anfragen \ {a} : Platz(b)' /\ Umstellung(b)' /\ Einladend(b)'
<1>1. SUFFICES ASSUME NEW b \in Anfragen \ {a}
               PROVE  Platz(b)' /\ Umstellung(b)' /\ Einladend(b)'
  OBVIOUS
<1>2. /\ sOrt'[b] = sOrt[b] /\ sAuftrag'[b] = sAuftrag[b]
      /\ Laeuft(b) => sAuftrag[b].op \in ImMutex
      /\ sOrt[b] \notin {"pruefen", "speichern", "einloesen"}
  BY <1>1, Ungestoert DEF Schritt, Nur
<1>3. Platz(b)' /\ Umstellung(b)'
  BY <1>2 DEF Platz, Umstellung, ImMutex, Laeuft
<1>4. sAuftrag[b].op = "invite" /\ Laeuft(b) =>
        sAuftrag[b].nr # 0 /\ \A e \in einladungen' : e.nr # sAuftrag[b].nr
  BY <1>1 DEF Geordnet, Nummeriert, Einladend, Schritt, Nummernschritt
<1> QED
  BY <1>2, <1>3, <1>4 DEF Einladend, Laeuft

\* Who does not touch the tables.
LEMMA Still ==
  ASSUME SitzeAssumption, STypeOK, Geordnet, NEW a \in Anfragen,
         Laeuft(a), Nur(a), Bleibt(a), Schlangenschritt(a),
         UNCHANGED <<sEinzeln, sZaehler, nutzer, einladungen, konten, abgebrochen>>,
         sOrt[a] # "einloesen", sOrt'[a] # "einloesen",
         Platz(a)', Umstellung(a)', Einladend(a)'
  PROVE  Geordnet'
<1>1. Schritt(a)
  BY DEF Schritt, Nummernschritt, Geordnet, Nummeriert
<1>2. EinloesungStimmt'
  <2>1. {sAuftrag[b].nr : b \in {x \in Anfragen : sOrt[x] = "einloesen"}}'
          = {sAuftrag[b].nr : b \in {x \in Anfragen : sOrt[x] = "einloesen"}}
    BY DEF Nur
  <2> QED
    BY <2>1 DEF Geordnet, EinloesungStimmt
<1>3. \A b \in Anfragen : Platz(b)' /\ Umstellung(b)' /\ Einladend(b)'
  <2>1. SUFFICES ASSUME NEW b \in Anfragen \ {a} PROVE Platz(b)' /\ Umstellung(b)' /\ Einladend(b)'
    OBVIOUS
  <2>2. /\ sOrt'[b] = sOrt[b] /\ sAuftrag'[b] = sAuftrag[b]
        /\ sEntitaet'[b] = sEntitaet[b] /\ gezaehlt'[b] = gezaehlt[b]
    BY <2>1 DEF Nur
  <2>3. Platz(b)'
    BY <2>2 DEF Geordnet, Platz, AnzahlAktive, Aktive
  <2>4. Umstellung(b)'
    BY <2>2 DEF Geordnet, Umstellung, Laeuft
  <2>5. Einladend(b)'
    BY <2>2 DEF Geordnet, Einladend, Laeuft
  <2> QED
    BY <2>3, <2>4, <2>5
<1> QED
  BY <1>1, <1>2, <1>3, OrdnungBleibt DEF Geordnet

\* Who is done and has changed nothing.
LEMMA LehneabGut ==
  ASSUME SitzeAssumption, IInv, NEW a \in Anfragen, SLehneab(a), Laeuft(a), sOrt[a] # "einloesen"
  PROVE  IInv'
<1>1. SBeende(a) /\ UNCHANGED <<nutzer, einladungen, konten>> /\ STypeOK
  BY DEF SLehneab, IInv
<1>2. /\ sOrt' \in [Anfragen -> SOrte] /\ sAuftrag' \in [Anfragen -> Auftraege]
      /\ sEntitaet' \in [Anfragen -> Entitaeten] /\ gezaehlt' \in [Anfragen -> Nat]
      /\ schlange' \in Seq(Anfragen) /\ schlange' = Freigabe(a)
      /\ sOrt'[a] = "bereit" /\ sAuftrag'[a] = SRuhe /\ Nur(a) /\ Bleibt(a)
      /\ UNCHANGED <<sEinzeln, grenze, abgebrochen, sZaehler>>
  BY <1>1, BeendeTyp
<1>3. STypeOK'
  BY <1>1, <1>2 DEF STypeOK, Auftraege, Entitaeten
<1>4. ASSUME Geordnet PROVE Geordnet'
  <2>1. Platz(a)' /\ Umstellung(a)' /\ Einladend(a)' /\ ~ Laeuft(a)' /\ ~ Drin(a)'
    BY <1>2 DEF Platz, Umstellung, Einladend, Laeuft, Drin
  <2> QED
    BY <1>1, <1>2, <1>4, <2>1, Still DEF Schlangenschritt
<1> QED
  BY <1>2, <1>3, <1>4 DEF IInv

-------------------------------------------------------------------------------
(***************************************************************************)
(* One lemma per action: requests begin, queue up, count, are checked.     *)
(***************************************************************************)
LEMMA NimmGut ==
  ASSUME SitzeAssumption, IInv, NEW a \in Anfragen, NEW auf \in Auftraege, Nimm(a, auf),
         \/ auf.op = "invite" /\ auf.nr = sZaehler.anfragen + 1
         \/ auf.op # "invite" /\ (auf.nr = 0 \/ \E e \in einladungen : e.nr = auf.nr),
         auf.op = "update" => nutzer[auf.person] # "kein"
  PROVE  IInv'
<1>1. /\ STypeOK' /\ Nur(a) /\ sOrt'[a] = "lesen" /\ sAuftrag'[a] = auf
      /\ UNCHANGED <<sEinzeln, nutzer, einladungen, grenze, schlange, sEntitaet, gezaehlt, konten, abgebrochen>>
      /\ sZaehler'.anfragen = sZaehler.anfragen + 1 /\ sOrt[a] = "bereit"
      /\ sZaehler.anfragen \in Nat
  <2>1. STypeOK' /\ Nur(a) /\ sOrt'[a] = "lesen" /\ sAuftrag'[a] = auf
    BY NimmTyp DEF IInv
  <2>2. /\ UNCHANGED <<sEinzeln, nutzer, einladungen, grenze, schlange, sEntitaet, gezaehlt, konten, abgebrochen>>
        /\ sZaehler' = [sZaehler EXCEPT !.anfragen = @ + 1] /\ sOrt[a] = "bereit"
    BY DEF Nimm, sGeschichte
  <2>3. sZaehler \in [anfragen : 0 .. MaxSitze, tarife : 0 .. MaxTarifwechsel,
                     abstuerze : 0 .. MaxAbstuerze] /\ MaxSitze \in Nat
    BY Konstanten DEF IInv, STypeOK
  <2> QED
    BY <2>1, <2>2, <2>3
<1>2. ASSUME sEinzeln, Geordnet PROVE Geordnet'
  <2>1. Allein'
    <3>1. \A b \in Anfragen : Laeuft(b) => auf.op \in ImMutex /\ sAuftrag[b].op \in ImMutex
      BY <1>2 DEF Nimm, SLaufende, Laeuft
    <3> QED
      BY <1>1, <1>2, <3>1 DEF Geordnet, Allein, Nur, Laeuft
  <2>2. Ausschluss'
    BY <1>1, <1>2 DEF Geordnet, Ausschluss, Drin, Vorn, Nur
  <2>3. Nummeriert'
    <3>1. \A e \in einladungen : e.nr \in 1 .. sZaehler.anfragen
      BY <1>2 DEF Geordnet, Nummeriert
    <3>2. \A b \in Anfragen \ {a} : Laeuft(b) =>
            /\ sAuftrag[b].nr \in 0 .. sZaehler.anfragen
            /\ sAuftrag[b].op = "invite" => sAuftrag[b].nr # 0 /\ \A e \in einladungen : e.nr # sAuftrag[b].nr
      BY <1>2 DEF Geordnet, Nummeriert, Einladend
    <3>3. auf.nr \in 0 .. sZaehler.anfragen + 1
      BY <1>1, <3>1
    <3>4. \A b \in Anfragen \ {a} : Laeuft(b) /\ (sAuftrag[b].op = "invite" \/ auf.op = "invite")
                                      => sAuftrag[b].nr # auf.nr
      BY <1>1, <3>2
    <3>5. (\A b, c \in Anfragen : b # c /\ Laeuft(b) /\ Laeuft(c) /\ sAuftrag[b].op = "invite"
                                    => sAuftrag[b].nr # sAuftrag[c].nr)'
      BY <1>1, <1>2, <3>4 DEF Geordnet, Nummeriert, Nur, Laeuft
    <3>6. (\A b \in Anfragen : Laeuft(b) => sAuftrag[b].nr \in 0 .. sZaehler.anfragen)'
      BY <1>1, <3>2, <3>3 DEF Nur, Laeuft
    <3>7. (\A e \in einladungen : e.nr \in 1 .. sZaehler.anfragen)'
      BY <1>1, <3>1
    <3> QED
      BY <1>1, <1>2, <3>5, <3>6, <3>7 DEF Geordnet, Nummeriert
  <2>4. EinloesungStimmt'
    <3>1. {sAuftrag[b].nr : b \in {x \in Anfragen : sOrt[x] = "einloesen"}}'
            = {sAuftrag[b].nr : b \in {x \in Anfragen : sOrt[x] = "einloesen"}}
      BY <1>1 DEF Nur
    <3> QED
      BY <1>1, <1>2, <3>1 DEF Geordnet, EinloesungStimmt
  <2>5. \A b \in Anfragen : Platz(b)' /\ Umstellung(b)' /\ Einladend(b)'
    <3>1. ASSUME NEW b \in Anfragen \ {a} PROVE Platz(b)' /\ Umstellung(b)' /\ Einladend(b)'
      <4>1. sOrt'[b] = sOrt[b] /\ sAuftrag'[b] = sAuftrag[b]
        BY <1>1, <3>1 DEF Nur
      <4> QED
        BY <1>1, <1>2, <4>1 DEF Geordnet, Platz, Umstellung, Einladend, AnzahlAktive, Aktive, Laeuft
    <3>2. Platz(a)' /\ Umstellung(a)'
      BY <1>1 DEF Platz, Umstellung, Laeuft
    <3>3. Einladend(a)'
      <4>1. auf.op = "invite" => auf.nr # 0 /\ \A e \in einladungen : e.nr # auf.nr
        BY <1>1, <1>2 DEF Geordnet, Nummeriert
      <4> QED
        BY <1>1, <4>1 DEF Einladend
    <3> QED
      BY <3>1, <3>2, <3>3
  <2> QED
    BY <2>1, <2>2, <2>3, <2>4, <2>5 DEF Geordnet
<1> QED
  BY <1>1, <1>2 DEF IInv

LEMMA BeginntGut ==
  ASSUME SitzeAssumption, IInv, NEW a \in Anfragen, SBeginnt(a)
  PROVE  IInv'
<1>1. CASE NimmCreate(a)
  <2>1. PICK p \in Personen : Nimm(a, [SRuhe EXCEPT !.op = "create", !.person = p])
    BY <1>1 DEF NimmCreate
  <2>2. [SRuhe EXCEPT !.op = "create", !.person = p] \in Auftraege
    BY Konstanten DEF Auftraege, SOperationen
  <2> QED
    BY <2>1, <2>2, Konstanten, NimmGut DEF SRuhe
<1>2. CASE NimmUpdate(a)
  <2>1. PICK p \in Personen, z \in {"gleich", "aktiv", "inaktiv"} :
          nutzer[p] # "kein" /\ Nimm(a, [SRuhe EXCEPT !.op = "update", !.person = p, !.ziel = z])
    BY <1>2 DEF NimmUpdate
  <2>2. [SRuhe EXCEPT !.op = "update", !.person = p, !.ziel = z] \in Auftraege
    BY Konstanten DEF Auftraege, SOperationen
  <2> QED
    BY <2>1, <2>2, Konstanten, NimmGut DEF SRuhe
<1>3. CASE NimmInvite(a)
  <2>1. PICK p \in Personen : Nimm(a, [SRuhe EXCEPT !.op = "invite", !.person = p, !.nr = sZaehler.anfragen + 1])
    BY <1>3 DEF NimmInvite
  <2>2. sZaehler.anfragen + 1 \in 0 .. MaxSitze
    BY <2>1, Konstanten DEF Nimm, IInv, STypeOK
  <2>3. [SRuhe EXCEPT !.op = "invite", !.person = p, !.nr = sZaehler.anfragen + 1] \in Auftraege
    BY <2>2, Konstanten DEF Auftraege, SOperationen
  <2> QED
    BY <2>1, <2>3, NimmGut DEF SRuhe
<1>4. ASSUME NEW e \in einladungen, NEW op \in {"resend", "withdraw", "accept"},
             Nimm(a, [SRuhe EXCEPT !.op = op, !.person = e.person, !.nr = e.nr])
      PROVE  IInv'
  <2>1. e.person \in Personen /\ e.nr \in 0 .. MaxSitze
    BY DEF IInv, STypeOK, Einladung
  <2>2. [SRuhe EXCEPT !.op = op, !.person = e.person, !.nr = e.nr] \in Auftraege
    BY <2>1, Konstanten DEF Auftraege, SOperationen
  <2> QED
    BY <1>4, <2>2, NimmGut DEF SRuhe
<1>5. CASE NimmAendern(a) \/ NimmAccept(a)
  BY <1>4, <1>5 DEF NimmAendern, NimmAccept
<1> QED
  BY <1>1, <1>2, <1>3, <1>5 DEF SBeginnt

\* Who queues up.
LEMMA AnstellenGut ==
  ASSUME SitzeAssumption, IInv, NEW a \in Anfragen, StelltSichAn(a), sOrt[a] = "lesen",
         sEntitaet' \in [Anfragen -> Entitaeten],
         \A b \in Anfragen \ {a} : sEntitaet'[b] = sEntitaet[b],
         sAuftrag[a].op = "update" => sEntitaet'[a].konto # "kein"
  PROVE  IInv'
<1>1. /\ schlange' = Append(schlange, a) /\ schlange' \in Seq(Anfragen)
      /\ sOrt' \in [Anfragen -> SOrte] /\ sOrt'[a] = "warten"
      /\ \A b \in Anfragen \ {a} : sOrt'[b] = sOrt[b]
      /\ UNCHANGED <<sEinzeln, grenze, sAuftrag, abgebrochen, sZaehler, nutzer, einladungen, gezaehlt, konten>>
  BY AnstellenTyp DEF IInv
<1>2. STypeOK'
  BY <1>1 DEF IInv, STypeOK, Entitaeten
<1>3. Laeuft(a) /\ Nur(a) /\ Bleibt(a) /\ Schlangenschritt(a)
  BY <1>1 DEF Laeuft, Nur, Bleibt, Schlangenschritt, Drin
<1>4. ASSUME Geordnet PROVE Geordnet'
  <2>1. Platz(a)' /\ Umstellung(a)'
    BY <1>1, <1>3, <1>4 DEF Geordnet, Platz, Umstellung, Laeuft
  <2>2. Einladend(a)'
    BY <1>1, <1>3, <1>4 DEF Geordnet, Einladend, Laeuft
  <2> QED
    BY <1>1, <1>3, <1>4, <2>1, <2>2, Still DEF IInv
<1> QED
  BY <1>1, <1>2, <1>4 DEF IInv

LEMMA ZaehlenGut ==
  ASSUME SitzeAssumption, IInv, NEW a \in Anfragen, Zaehlen(a)
  PROVE  IInv'
<1>1. /\ sOrt[a] = "warten" /\ Vorn(a) /\ gezaehlt' = [gezaehlt EXCEPT ![a] = AnzahlAktive]
      /\ UNCHANGED <<nutzer, einladungen, schlange, sEntitaet, konten>>
      /\ sOrt' \in [Anfragen -> SOrte] /\ sOrt'[a] = "pruefen"
      /\ \A b \in Anfragen \ {a} : sOrt'[b] = sOrt[b]
      /\ UNCHANGED <<sEinzeln, grenze, sAuftrag, abgebrochen, sZaehler>>
  BY GehTyp DEF Zaehlen, AmZug, AnzahlAktive, IInv, SOrte
<1>2. gezaehlt' \in [Anfragen -> Nat] /\ gezaehlt'[a] = AnzahlAktive
      /\ \A b \in Anfragen \ {a} : gezaehlt'[b] = gezaehlt[b]
  BY <1>1, AktiveEndlich DEF IInv, STypeOK
<1>3. STypeOK'
  BY <1>1, <1>2 DEF IInv, STypeOK
<1>4. Laeuft(a) /\ Nur(a) /\ Bleibt(a) /\ Schlangenschritt(a)
  BY <1>1, <1>2 DEF Laeuft, Nur, Bleibt, Schlangenschritt
<1>5. ASSUME Geordnet PROVE Geordnet'
  <2>1. Platz(a)'
    BY <1>1, <1>2 DEF Platz, AnzahlAktive, Aktive
  <2>2. Umstellung(a)' /\ Einladend(a)'
    BY <1>1, <1>4, <1>5 DEF Geordnet, Umstellung, Einladend, Laeuft
  <2> QED
    BY <1>1, <1>4, <1>5, <2>1, <2>2, Still DEF IInv
<1> QED
  BY <1>1, <1>3, <1>5 DEF IInv

\* Who was checked and may go on: there is a seat, and an acceptance has found its
\* invitation open.
LEMMA ErlaubtGut ==
  ASSUME SitzeAssumption, IInv, NEW a \in Anfragen, Erlaubt(a), UNCHANGED sEntitaet,
         sOrt[a] = "pruefen", sAuftrag[a].op \in ImMutex \cup {"update"}, gezaehlt[a] < grenze \/ sAuftrag[a].op = "invite",
         sAuftrag[a].op = "accept" => Einloesbar(a)
  PROVE  IInv'
<1>1. /\ gezaehlt' \in [Anfragen -> Nat] /\ gezaehlt'[a] = grenze
      /\ \A b \in Anfragen \ {a} : sOrt'[b] = sOrt[b] /\ gezaehlt'[b] = gezaehlt[b]
      /\ sOrt' \in [Anfragen -> SOrte] /\ sOrt'[a] = "speichern"
      /\ UNCHANGED <<sEinzeln, grenze, sAuftrag, abgebrochen, sZaehler, nutzer, einladungen, schlange, konten>>
  BY ErlaubtTyp DEF IInv
<1>2. STypeOK'
  BY <1>1 DEF IInv, STypeOK
<1>3. Laeuft(a) /\ Nur(a) /\ Bleibt(a)
  BY <1>1 DEF Laeuft, Nur, Bleibt
<1>4. ASSUME Geordnet PROVE Geordnet'
  <2>1. Schlangenschritt(a)
    BY <1>1, <1>4 DEF Geordnet, Ausschluss, Schlangenschritt, Drin
  <2>2. Platz(a)'
    <3>1. gezaehlt[a] = AnzahlAktive /\ AnzahlAktive' = AnzahlAktive
      BY <1>1, <1>4 DEF Geordnet, Platz, AnzahlAktive, Aktive
    <3>2. grenze \in Nat /\ AnzahlAktive \in Nat
      BY Konstanten, AktiveEndlich DEF IInv, STypeOK
    <3> QED
      BY <1>1, <3>1, <3>2 DEF Platz
  <2>3. Umstellung(a)'
    BY <1>1, <1>3, <1>4 DEF Geordnet, Umstellung, Laeuft
  <2>4. Einladend(a)'
    BY <1>1, <1>3, <1>4 DEF Geordnet, Einladend, Laeuft, Einloesbar, Gelesen, Offen, ImMutex
  <2> QED
    BY <1>1, <1>3, <1>4, <2>1, <2>2, <2>3, <2>4, Still DEF IInv
<1> QED
  BY <1>1, <1>2, <1>4 DEF IInv

LEMMA PruefenGut ==
  ASSUME SitzeAssumption, IInv, NEW a \in Anfragen,
         CreatePruefen(a) \/ UpdatePruefen(a) \/ InvitePruefen(a) \/ AcceptPruefen(a)
  PROVE  IInv'
<1>1. /\ sOrt[a] = "pruefen" /\ sAuftrag[a].op \in ImMutex \cup {"update"}
      /\ \/ SLehneab(a)
         \/ /\ Erlaubt(a) /\ UNCHANGED sEntitaet
            /\ gezaehlt[a] < grenze \/ sAuftrag[a].op = "invite"
            /\ sAuftrag[a].op = "accept" => Einloesbar(a)
  BY DEF CreatePruefen, UpdatePruefen, InvitePruefen, AcceptPruefen, SBei, ImMutex, Passt
<1> QED
  BY <1>1, LehneabGut, ErlaubtGut DEF Laeuft

LEMMA LesenGut ==
  ASSUME SitzeAssumption, IInv, NEW a \in Anfragen,
         CreateAnstellen(a) \/ InviteAnstellen(a) \/ AcceptLesen(a)
  PROVE  IInv'
<1>1. /\ sOrt[a] = "lesen" /\ sAuftrag[a].op # "update"
      /\ SLehneab(a) \/ (StelltSichAn(a) /\ UNCHANGED sEntitaet)
  BY DEF CreateAnstellen, InviteAnstellen, AcceptLesen, SBei
<1>2. sEntitaet \in [Anfragen -> Entitaeten]
  BY DEF IInv, STypeOK, Entitaeten
<1> QED
  BY <1>1, <1>2, LehneabGut, AnstellenGut DEF Laeuft

\* Who has read the row that it will save outside of the mutex.
LEMMA GelesenGut ==
  ASSUME SitzeAssumption, IInv, NEW a \in Anfragen, sOrt[a] = "lesen", sAuftrag[a].op \notin ImMutex,
         Geh(a, "speichern"), UNCHANGED <<nutzer, einladungen, schlange, gezaehlt, konten>>,
         sEntitaet' \in [Anfragen -> Entitaeten],
         \A b \in Anfragen \ {a} : sEntitaet'[b] = sEntitaet[b],
         sEinzeln /\ Geordnet => Platz(a)' /\ Umstellung(a)' /\ Einladend(a)'
  PROVE  IInv'
<1>1. /\ sOrt' \in [Anfragen -> SOrte] /\ sOrt'[a] = "speichern"
      /\ \A b \in Anfragen \ {a} : sOrt'[b] = sOrt[b]
      /\ UNCHANGED <<sEinzeln, grenze, sAuftrag, abgebrochen, sZaehler>>
  BY GehTyp DEF IInv, SOrte
<1>2. STypeOK'
  BY <1>1 DEF IInv, STypeOK, Entitaeten
<1>3. Laeuft(a) /\ Nur(a) /\ Bleibt(a) /\ Schlangenschritt(a)
  BY <1>1 DEF Laeuft, Nur, Bleibt, Schlangenschritt, Drin
<1> QED
  BY <1>1, <1>2, <1>3, Still DEF IInv

LEMMA UpdateLesenGut ==
  ASSUME SitzeAssumption, IInv, NEW a \in Anfragen, UpdateLesen(a)
  PROVE  IInv'
<1> DEFINE konto == nutzer[sAuftrag[a].person]
           neu == IF sAuftrag[a].ziel = "gleich" THEN konto ELSE sAuftrag[a].ziel
<1>1. /\ sOrt[a] = "lesen" /\ sAuftrag[a].op = "update"
      /\ sEntitaet' = [sEntitaet EXCEPT ![a].konto = neu]
      /\ \/ Reaktiviert(konto, sAuftrag[a].ziel) /\ StelltSichAn(a)
         \/ /\ ~ Reaktiviert(konto, sAuftrag[a].ziel) /\ Geh(a, "speichern")
            /\ UNCHANGED <<nutzer, einladungen, schlange, gezaehlt, konten>>
  BY DEF UpdateLesen, SBei
<1>2. konto \in Konto /\ neu \in Konto /\ sAuftrag[a].ziel \in {"gleich", "aktiv", "inaktiv"}
  BY DEF IInv, STypeOK, Konto
<1> HIDE DEF neu
<1>3. sEntitaet' \in [Anfragen -> Entitaeten] /\ sEntitaet'[a].konto = neu
      /\ \A b \in Anfragen \ {a} : sEntitaet'[b] = sEntitaet[b]
  BY <1>1, <1>2 DEF IInv, STypeOK, Entitaeten
<1>4. CASE Reaktiviert(konto, sAuftrag[a].ziel) /\ StelltSichAn(a)
  <2>1. neu # "kein"
    BY <1>4 DEF Reaktiviert, neu
  <2> QED
    BY <1>1, <1>3, <1>4, <2>1, AnstellenGut
<1>5. CASE ~ Reaktiviert(konto, sAuftrag[a].ziel) /\ Geh(a, "speichern")
           /\ UNCHANGED <<nutzer, einladungen, schlange, gezaehlt, konten>>
  <2>1. sAuftrag'[a] = sAuftrag[a] /\ sOrt'[a] = "speichern"
    BY <1>5, GehTyp DEF IInv, SOrte
  <2>2. ASSUME Geordnet PROVE Platz(a)' /\ Umstellung(a)' /\ Einladend(a)'
    <3>1. konto # "kein"
      BY <1>1, <2>2 DEF Geordnet, Umstellung, Laeuft
    <3>2. neu # "kein" /\ (neu = "aktiv" => konto = "aktiv")
      BY <1>2, <1>5, <3>1 DEF Reaktiviert, neu, Konto
    <3> QED
      BY <1>1, <1>3, <1>5, <2>1, <3>1, <3>2 DEF Platz, Umstellung, Einladend, Laeuft
  <2> QED
    BY <1>1, <1>3, <1>5, <2>2, GelesenGut DEF ImMutex
<1> QED
  BY <1>1, <1>4, <1>5

LEMMA AendernLesenGut ==
  ASSUME SitzeAssumption, IInv, NEW a \in Anfragen, SAendernLesen(a)
  PROVE  IInv'
<1>1. sOrt[a] = "lesen" /\ sAuftrag[a].op \in {"resend", "withdraw"}
  BY DEF SAendernLesen, SBei
<1>2. CASE SLehneab(a)
  BY <1>1, <1>2, LehneabGut DEF Laeuft
<1>3. ASSUME NEW e \in Gelesen(a), Aenderbar(sAuftrag[a].op, e),
             sEntitaet' = [sEntitaet EXCEPT ![a].einladung = Geaendert(sAuftrag[a].op, e)],
             Geh(a, "speichern"), UNCHANGED <<nutzer, einladungen, schlange, gezaehlt, konten>>
      PROVE  IInv'
  <2> DEFINE g == Geaendert(sAuftrag[a].op, e)
  <2>1. e \in einladungen /\ e \in Einladung /\ e.nr = sAuftrag[a].nr
    BY DEF Gelesen, IInv, STypeOK
  <2>2. /\ g \in Einladung /\ g.nr = e.nr /\ g.person = e.person /\ g.status # "eingeloest"
        /\ e.status # "eingeloest" /\ (g.status = "offen" => e.status = "offen")
    BY <1>1, <1>3, <2>1 DEF Geaendert, Aenderbar, Einladung, EinladungStatus
  <2> HIDE DEF g
  <2>3. /\ sEntitaet' \in [Anfragen -> Entitaeten] /\ sEntitaet'[a].einladung = g
        /\ \A b \in Anfragen \ {a} : sEntitaet'[b] = sEntitaet[b]
    <3>1. sEntitaet' = [sEntitaet EXCEPT ![a].einladung = g]
      BY <1>3 DEF g
    <3> QED
      BY <2>2, <3>1 DEF IInv, STypeOK, Entitaeten
  <2>4. sAuftrag'[a] = sAuftrag[a] /\ sOrt'[a] = "speichern"
    BY <1>3, GehTyp DEF IInv, SOrte
  <2>5. Platz(a)' /\ Umstellung(a)' /\ Einladend(a)'
    BY <1>1, <1>3, <2>1, <2>2, <2>3, <2>4 DEF Platz, Umstellung, Einladend
  <2> QED
    BY <1>1, <1>3, <2>3, <2>5, GelesenGut DEF ImMutex
<1> QED
  BY <1>1, <1>2, <1>3 DEF SAendernLesen

-------------------------------------------------------------------------------
(***************************************************************************)
(* The saves.                                                              *)
(***************************************************************************)
\* Who saves is inside of the mutex or alone.
LEMMA SpeichernGut ==
  ASSUME SitzeAssumption, IInv, NEW a \in Anfragen, Laeuft(a), SBeende(a),
         nutzer' \in [Personen -> Konto], einladungen' \subseteq Einladung, konten' = konten,
         Drin(a) \/ sAuftrag[a].op \notin ImMutex,
         sEinzeln /\ Geordnet => Nummernschritt(a) /\ EinloesungStimmt'
  PROVE  IInv'
<1>1. /\ sOrt' \in [Anfragen -> SOrte] /\ sAuftrag' \in [Anfragen -> Auftraege]
      /\ sEntitaet' \in [Anfragen -> Entitaeten] /\ gezaehlt' \in [Anfragen -> Nat]
      /\ schlange' \in Seq(Anfragen) /\ schlange' = Freigabe(a)
      /\ sOrt'[a] = "bereit" /\ sAuftrag'[a] = SRuhe /\ Nur(a) /\ Bleibt(a)
      /\ UNCHANGED <<sEinzeln, grenze, abgebrochen, sZaehler>>
  BY BeendeTyp DEF IInv
<1>2. STypeOK'
  BY <1>1 DEF IInv, STypeOK, Auftraege, Entitaeten
<1>3. ASSUME sEinzeln, Geordnet PROVE Geordnet'
  <2>1. Schritt(a)
    BY <1>1, <1>3 DEF Schritt, Schlangenschritt, Laeuft, Drin
  <2>2. Platz(a)' /\ Umstellung(a)' /\ Einladend(a)'
    BY <1>1, Konstanten DEF Platz, Umstellung, Einladend, Laeuft
  <2> QED
    BY <1>3, <2>1, <2>2, OrdnungBleibt, Uebrige DEF Geordnet, IInv
<1> QED
  BY <1>1, <1>2, <1>3 DEF IInv

Einloesende == {sAuftrag[b].nr : b \in {x \in Anfragen : sOrt[x] = "einloesen"}}

Eingeloeste == {e.nr : e \in {x \in einladungen : x.status = "eingeloest"}}

\* Who neither redeems nor touches an invitation.
LEMMA EinloesungBleibt ==
  ASSUME Geordnet, NEW a \in Anfragen, Nur(a), sOrt[a] # "einloesen", sOrt'[a] # "einloesen",
         UNCHANGED <<sEinzeln, konten, abgebrochen>>, sEinzeln,
         Eingeloeste' = Eingeloeste,
         (\A e, f \in einladungen : e.person = f.person /\ e.status = "offen" /\ f.status = "offen" => e = f)'
  PROVE  EinloesungStimmt'
<1>1. Einloesende' = Einloesende
  BY DEF Nur, Einloesende
<1> QED
  BY <1>1 DEF Geordnet, EinloesungStimmt, Einloesende, Eingeloeste

LEMMA NutzerSpeichernGut ==
  ASSUME SitzeAssumption, IInv, NEW a \in Anfragen, CreateSpeichern(a) \/ UpdateSpeichern(a)
  PROVE  IInv'
<1>1. /\ sOrt[a] = "speichern" /\ sAuftrag[a].op \in {"create", "update"} /\ SBeende(a)
      /\ UNCHANGED <<einladungen, konten>>
  BY DEF CreateSpeichern, UpdateSpeichern, SBei
<1>2. nutzer' \in [Personen -> Konto]
  BY DEF IInv, STypeOK, Konto, CreateSpeichern, UpdateSpeichern
<1>3. Laeuft(a) /\ (Drin(a) \/ sAuftrag[a].op \notin ImMutex)
  BY <1>1 DEF Laeuft, Drin, ImMutex
<1>4. Nur(a) /\ sOrt'[a] = "bereit" /\ UNCHANGED <<sEinzeln, abgebrochen>>
  BY <1>1, BeendeTyp DEF IInv
<1>5. ASSUME sEinzeln, Geordnet PROVE Nummernschritt(a) /\ EinloesungStimmt'
  <2>1. Nummernschritt(a)
    BY <1>1, <1>5 DEF Geordnet, Nummeriert, Nummernschritt
  <2>2. EinloesungStimmt'
    BY <1>1, <1>4, <1>5, EinloesungBleibt DEF Geordnet, EinloesungStimmt, Eingeloeste
  <2> QED
    BY <2>1, <2>2
<1>6. einladungen' \subseteq Einladung /\ konten' = konten
  BY <1>1 DEF IInv, STypeOK
<1> QED
  BY <1>1, <1>2, <1>3, <1>5, <1>6, SpeichernGut

LEMMA InviteSpeichernGut ==
  ASSUME SitzeAssumption, IInv, NEW a \in Anfragen, InviteSpeichern(a)
  PROVE  IInv'
<1> DEFINE p == sAuftrag[a].person
           g == [nr |-> sAuftrag[a].nr, person |-> p, status |-> "offen", gueltig |-> TRUE]
<1>1. /\ sOrt[a] = "speichern" /\ sAuftrag[a].op = "invite" /\ SBeende(a)
      /\ einladungen' = (einladungen \ Ersetzt(p)) \cup {g} /\ UNCHANGED <<nutzer, konten>>
  BY DEF InviteSpeichern, SBei
<1>2. g \in Einladung /\ g.nr = sAuftrag[a].nr /\ g.person = p /\ g.status = "offen"
  BY DEF IInv, STypeOK, Einladung, EinladungStatus
<1> HIDE DEF g
<1>3. einladungen' \subseteq Einladung /\ nutzer' \in [Personen -> Konto] /\ konten' = konten
  BY <1>1, <1>2 DEF IInv, STypeOK
<1>4. Laeuft(a) /\ Drin(a)
  BY <1>1 DEF Laeuft, Drin, ImMutex
<1>5. Nur(a) /\ sOrt'[a] = "bereit" /\ UNCHANGED <<sEinzeln, abgebrochen>>
  BY <1>1, BeendeTyp DEF IInv
<1>6. ASSUME sEinzeln, Geordnet PROVE Nummernschritt(a) /\ EinloesungStimmt'
  <2>1. \A e \in einladungen : e.nr # g.nr
    BY <1>1, <1>2, <1>4, <1>6 DEF Geordnet, Einladend
  <2>2. Nummernschritt(a)
    BY <1>1, <1>2, <1>6, <2>1 DEF Geordnet, Nummeriert, Nummernschritt
  <2>3. Eingeloeste' = Eingeloeste
    BY <1>1, <1>2 DEF Eingeloeste, Ersetzt
  <2>4. (\A e, f \in einladungen : e.person = f.person /\ e.status = "offen" /\ f.status = "offen" => e = f)'
    BY <1>1, <1>2, <1>6 DEF Geordnet, EinloesungStimmt, Ersetzt
  <2> QED
    BY <1>1, <1>5, <1>6, <2>2, <2>3, <2>4, EinloesungBleibt
<1> QED
  BY <1>1, <1>3, <1>4, <1>6, SpeichernGut

LEMMA AendernSpeichernGut ==
  ASSUME SitzeAssumption, IInv, NEW a \in Anfragen, AendernSpeichern(a)
  PROVE  IInv'
<1> DEFINE g == sEntitaet[a].einladung
<1>1. /\ sOrt[a] = "speichern" /\ sAuftrag[a].op \in {"resend", "withdraw"} /\ SBeende(a)
      /\ einladungen' = (einladungen \ Gelesen(a)) \cup {g} /\ UNCHANGED <<nutzer, konten>>
  BY DEF AendernSpeichern, SBei
<1>2. g \in Einladung
  BY DEF IInv, STypeOK
<1>3. einladungen' \subseteq Einladung /\ nutzer' \in [Personen -> Konto] /\ konten' = konten
  BY <1>1, <1>2 DEF IInv, STypeOK
<1>4. Laeuft(a) /\ sAuftrag[a].op \notin ImMutex
  BY <1>1 DEF Laeuft, ImMutex
<1>5. Nur(a) /\ sOrt'[a] = "bereit" /\ UNCHANGED <<sEinzeln, abgebrochen>>
  BY <1>1, BeendeTyp DEF IInv
<1>6. ASSUME sEinzeln, Geordnet PROVE Nummernschritt(a) /\ EinloesungStimmt'
  <2>1. PICK f \in einladungen : /\ f.nr = sAuftrag[a].nr /\ f.status # "eingeloest"
                                 /\ g.nr = sAuftrag[a].nr /\ g.status # "eingeloest"
                                 /\ g.status = "offen" => f.status = "offen" /\ f.person = g.person
    BY <1>1, <1>6 DEF Geordnet, Einladend
  <2>2. Gelesen(a) = {f}
    BY <1>6, <2>1 DEF Gelesen, Geordnet, Nummeriert
  <2>3. Nummernschritt(a)
    BY <1>1, <1>6, <2>1, <2>2 DEF Geordnet, Nummeriert, Nummernschritt
  <2>4. Eingeloeste' = Eingeloeste
    BY <1>1, <2>1, <2>2 DEF Eingeloeste
  <2>5. (\A e, h \in einladungen : e.person = h.person /\ e.status = "offen" /\ h.status = "offen" => e = h)'
    BY <1>1, <1>6, <2>1, <2>2 DEF Geordnet, EinloesungStimmt
  <2> QED
    BY <1>1, <1>5, <1>6, <2>3, <2>4, <2>5, EinloesungBleibt
<1> QED
  BY <1>1, <1>3, <1>4, <1>6, SpeichernGut

LEMMA AcceptSpeichernGut ==
  ASSUME SitzeAssumption, IInv, NEW a \in Anfragen, AcceptSpeichern(a)
  PROVE  IInv'
<1>1. /\ sOrt[a] = "speichern" /\ sAuftrag[a].op = "accept"
      /\ nutzer' = [nutzer EXCEPT ![sAuftrag[a].person] = "aktiv"] /\ konten' = konten \cup {sAuftrag[a].nr}
      /\ UNCHANGED <<einladungen, schlange, sEntitaet, gezaehlt>>
      /\ sOrt' \in [Anfragen -> SOrte] /\ sOrt'[a] = "einloesen"
      /\ \A b \in Anfragen \ {a} : sOrt'[b] = sOrt[b]
      /\ UNCHANGED <<sEinzeln, grenze, sAuftrag, abgebrochen, sZaehler>>
  BY GehTyp DEF AcceptSpeichern, SBei, IInv, SOrte
<1>2. STypeOK'
  BY <1>1 DEF IInv, STypeOK, Konto
<1>3. ASSUME sEinzeln, Geordnet PROVE Geordnet'
  <2>1. Drin(a) /\ Laeuft(a) /\ Nur(a) /\ Bleibt(a)
    BY <1>1 DEF Drin, ImMutex, Laeuft, Nur, Bleibt
  <2>2. Schritt(a)
    BY <1>1, <1>3, <2>1 DEF Schritt, Schlangenschritt, Nummernschritt, Geordnet, Ausschluss, Nummeriert
  <2>3. Platz(a)' /\ Umstellung(a)'
    BY <1>1 DEF Platz, Umstellung
  <2>4. Einladend(a)'
    BY <1>1, <1>3 DEF Geordnet, Einladend
  <2>5. EinloesungStimmt'
    <3>1. Einloesende' = Einloesende \cup {sAuftrag[a].nr}
      BY <1>1 DEF Einloesende
    <3> QED
      BY <1>1, <1>3, <3>1 DEF Geordnet, EinloesungStimmt, Einloesende
  <2> QED
    BY <1>3, <2>1, <2>2, <2>3, <2>4, <2>5, OrdnungBleibt, Uebrige DEF Geordnet, IInv
<1> QED
  BY <1>1, <1>2, <1>3 DEF IInv

LEMMA AcceptEinloesenGut ==
  ASSUME SitzeAssumption, IInv, NEW a \in Anfragen, AcceptEinloesen(a)
  PROVE  IInv'
<1> DEFINE Folge(e) == IF e \in Gelesen(a) /\ e.status = "offen" THEN [e EXCEPT !.status = "eingeloest"] ELSE e
<1>1. /\ sOrt[a] = "einloesen" /\ sAuftrag[a].op = "accept" /\ SBeende(a)
      /\ einladungen' = {Folge(e) : e \in einladungen} /\ UNCHANGED <<nutzer, konten>>
  BY DEF AcceptEinloesen, SBei
<1>2. ASSUME NEW e \in einladungen
      PROVE  /\ Folge(e) \in Einladung /\ Folge(e).nr = e.nr /\ Folge(e).person = e.person
             /\ Folge(e).status = "offen" => e.status = "offen" /\ Folge(e) = e
             /\ Folge(e).status = "eingeloest" <=>
                  e.status = "eingeloest" \/ (e.nr = sAuftrag[a].nr /\ e.status = "offen")
  <2>1. e \in Einladung
    BY DEF IInv, STypeOK
  <2>2. CASE e \in Gelesen(a) /\ e.status = "offen"
    BY <2>1, <2>2 DEF Einladung, EinladungStatus, Gelesen
  <2>3. CASE ~ (e \in Gelesen(a) /\ e.status = "offen")
    BY <2>1, <2>3 DEF Gelesen
  <2> QED
    BY <2>2, <2>3
<1> HIDE DEF Folge
<1>3. einladungen' \subseteq Einladung /\ nutzer' \in [Personen -> Konto] /\ konten' = konten
  BY <1>1, <1>2 DEF IInv, STypeOK
<1>4. Laeuft(a) /\ Drin(a)
  BY <1>1 DEF Laeuft, Drin, ImMutex
<1>5. Nur(a) /\ sOrt'[a] = "bereit" /\ UNCHANGED <<sEinzeln, abgebrochen>>
  BY <1>1, BeendeTyp DEF IInv
<1>6. ASSUME sEinzeln, Geordnet PROVE Nummernschritt(a) /\ EinloesungStimmt'
  <2>1. Nummernschritt(a)
    BY <1>1, <1>2, <1>6 DEF Geordnet, Nummeriert, Nummernschritt
  <2>2. PICK f \in einladungen : f.nr = sAuftrag[a].nr /\ f.status = "offen"
    BY <1>1, <1>6 DEF Geordnet, Einladend
  <2>3. Eingeloeste' = Eingeloeste \cup {sAuftrag[a].nr}
    <3>1. Eingeloeste' = {Folge(e).nr : e \in {x \in einladungen : Folge(x).status = "eingeloest"}}
      BY <1>1 DEF Eingeloeste
    <3>2. {x \in einladungen : Folge(x).status = "eingeloest"}
            = {x \in einladungen : x.status = "eingeloest" \/ (x.nr = sAuftrag[a].nr /\ x.status = "offen")}
      BY <1>2
    <3>3. Eingeloeste' = {e.nr : e \in {x \in einladungen :
                            x.status = "eingeloest" \/ (x.nr = sAuftrag[a].nr /\ x.status = "offen")}}
      BY <1>2, <3>1, <3>2
    <3> QED
      BY <2>2, <3>3 DEF Eingeloeste
  <2>4. Einloesende = Einloesende' \cup {sAuftrag[a].nr}
    BY <1>1, <1>5 DEF Einloesende, Nur
  <2>5. (\A e, h \in einladungen : e.person = h.person /\ e.status = "offen" /\ h.status = "offen" => e = h)'
    BY <1>1, <1>2, <1>6 DEF Geordnet, EinloesungStimmt
  <2>6. konten = Eingeloeste \cup abgebrochen \cup Einloesende
    BY <1>6 DEF Geordnet, EinloesungStimmt, Eingeloeste, Einloesende
  <2>7. konten' = Eingeloeste' \cup abgebrochen' \cup Einloesende'
    BY <1>1, <1>5, <2>3, <2>4, <2>6
  <2> QED
    BY <2>1, <2>5, <2>7 DEF EinloesungStimmt, Eingeloeste, Einloesende
<1> QED
  BY <1>1, <1>3, <1>4, <1>6, SpeichernGut

-------------------------------------------------------------------------------
(***************************************************************************)
(* The rest: expiry, another plan, a crash, the beginning.                 *)
(***************************************************************************)
LEMMA LaeuftAbGut ==
  ASSUME SitzeAssumption, IInv, NEW e \in einladungen, LaeuftAb(e)
  PROVE  IInv'
<1> DEFINE g == [e EXCEPT !.gueltig = FALSE]
<1>1. /\ einladungen' = (einladungen \ {e}) \cup {g} /\ e.status = "offen"
      /\ UNCHANGED <<sEinzeln, nutzer, grenze, schlange, sOrt, sAuftrag, sEntitaet, gezaehlt, konten, abgebrochen, sZaehler>>
  BY DEF LaeuftAb, Offen, sAnfragen, sGeschichte
<1>2. g \in Einladung /\ g.nr = e.nr /\ g.person = e.person /\ g.status = "offen"
  BY <1>1 DEF IInv, STypeOK, Einladung
<1> HIDE DEF g
<1>3. STypeOK'
  BY <1>1, <1>2 DEF IInv, STypeOK
<1>4. ASSUME sEinzeln, Geordnet PROVE Geordnet'
  <2>1. Allein' /\ Ausschluss'
    BY <1>1, <1>4 DEF Geordnet, Allein, Ausschluss, Laeuft, Drin, Vorn
  <2>2. Nummeriert'
    BY <1>1, <1>2, <1>4 DEF Geordnet, Nummeriert, Laeuft
  <2>3. EinloesungStimmt'
    <3>1. Eingeloeste' = Eingeloeste /\ Einloesende' = Einloesende
      BY <1>1, <1>2 DEF Eingeloeste, Einloesende
    <3>2. (\A d, f \in einladungen : d.person = f.person /\ d.status = "offen" /\ f.status = "offen" => d = f)'
      BY <1>1, <1>2, <1>4 DEF Geordnet, EinloesungStimmt
    <3> QED
      BY <1>1, <1>4, <3>1, <3>2 DEF Geordnet, EinloesungStimmt, Eingeloeste, Einloesende
  <2>4. \A b \in Anfragen : Platz(b)' /\ Umstellung(b)'
    BY <1>1, <1>4 DEF Geordnet, Platz, Umstellung, AnzahlAktive, Aktive, Laeuft
  <2>5. ASSUME NEW b \in Anfragen PROVE Einladend(b)'
    <3>1. \A d \in einladungen : \E f \in einladungen' : f.nr = d.nr /\ f.person = d.person /\ f.status = d.status
      BY <1>1, <1>2
    <3>2. \A f \in einladungen' : \E d \in einladungen : f.nr = d.nr
      BY <1>1, <1>2
    <3>3. Einladend(b)
      BY <1>4 DEF Geordnet
    <3> QED
      BY <1>1, <3>1, <3>2, <3>3 DEF Einladend, Laeuft
  <2> QED
    BY <2>1, <2>2, <2>3, <2>4, <2>5 DEF Geordnet
<1> QED
  BY <1>1, <1>3, <1>4 DEF IInv

\* Nothing of what Geordnet is about moves.
LEMMA RuheGut ==
  ASSUME Geordnet, UNCHANGED <<sEinzeln, nutzer, einladungen, schlange, sOrt, sAuftrag, sEntitaet, gezaehlt,
                               konten, abgebrochen>>,
         sZaehler'.anfragen = sZaehler.anfragen
  PROVE  Geordnet'
<1>1. Allein' /\ Ausschluss' /\ Nummeriert' /\ EinloesungStimmt'
  BY DEF Geordnet, Allein, Ausschluss, Nummeriert, EinloesungStimmt, Laeuft, Drin, Vorn
<1>2. \A b \in Anfragen : Platz(b)' /\ Umstellung(b)' /\ Einladend(b)'
  BY DEF Geordnet, Platz, Umstellung, Einladend, AnzahlAktive, Aktive, Laeuft
<1> QED
  BY <1>1, <1>2 DEF Geordnet

LEMMA TarifwechselGut ==
  ASSUME SitzeAssumption, IInv, Tarifwechsel
  PROVE  IInv'
<1>1. /\ sZaehler' = [sZaehler EXCEPT !.tarife = @ + 1] /\ sZaehler.tarife < MaxTarifwechsel /\ grenze' \in Grenzen
      /\ UNCHANGED <<sEinzeln, nutzer, einladungen, schlange, sOrt, sAuftrag, sEntitaet, gezaehlt, konten, abgebrochen>>
  BY DEF Tarifwechsel, sAnfragen, sGeschichte
<1>2. /\ sZaehler' \in [anfragen : 0 .. MaxSitze, tarife : 0 .. MaxTarifwechsel,
                        abstuerze : 0 .. MaxAbstuerze]
      /\ sZaehler'.anfragen = sZaehler.anfragen
  <2>1. sZaehler \in [anfragen : 0 .. MaxSitze, tarife : 0 .. MaxTarifwechsel,
                       abstuerze : 0 .. MaxAbstuerze]
    BY DEF IInv, STypeOK
  <2>2. sZaehler.tarife + 1 \in 0 .. MaxTarifwechsel
    BY <1>1, <2>1 DEF SitzeAssumption
  <2> QED
    BY <1>1, <2>1, <2>2
<1>3. STypeOK'
  BY <1>1, <1>2 DEF IInv, STypeOK
<1> QED
  BY <1>1, <1>2, <1>3, RuheGut DEF IInv

LEMMA AbsturzGut ==
  ASSUME SitzeAssumption, IInv, SAbsturz
  PROVE  IInv'
<1>1. /\ sZaehler' = [sZaehler EXCEPT !.abstuerze = @ + 1] /\ sZaehler.abstuerze < MaxAbstuerze
      /\ abgebrochen' = abgebrochen \cup Einloesende /\ schlange' = <<>>
      /\ sOrt' = [a \in Anfragen |-> "bereit"] /\ sAuftrag' = [a \in Anfragen |-> SRuhe]
      /\ sEntitaet' = [a \in Anfragen |-> Nichts] /\ gezaehlt' = [a \in Anfragen |-> 0]
      /\ UNCHANGED <<sEinzeln, nutzer, einladungen, grenze, konten>>
  BY DEF SAbsturz, Einloesende
<1>2. /\ sZaehler' \in [anfragen : 0 .. MaxSitze, tarife : 0 .. MaxTarifwechsel,
                        abstuerze : 0 .. MaxAbstuerze]
      /\ sZaehler'.anfragen = sZaehler.anfragen
  <2>1. sZaehler \in [anfragen : 0 .. MaxSitze, tarife : 0 .. MaxTarifwechsel,
                       abstuerze : 0 .. MaxAbstuerze]
    BY DEF IInv, STypeOK
  <2>2. sZaehler.abstuerze + 1 \in 0 .. MaxAbstuerze
    BY <1>1, <2>1 DEF SitzeAssumption
  <2> QED
    BY <1>1, <2>1, <2>2
<1>3. Einloesende \subseteq 0 .. MaxSitze
  BY DEF Einloesende, IInv, STypeOK
<1>4. STypeOK'
  BY <1>1, <1>2, <1>3, Konstanten DEF IInv, STypeOK, SOrte, Auftraege, Entitaeten
<1>5. ASSUME sEinzeln, Geordnet PROVE Geordnet'
  <2>1. \A a \in Anfragen : ~ Laeuft(a)' /\ ~ Drin(a)'
    BY <1>1 DEF Laeuft, Drin
  <2>2. Allein' /\ Ausschluss' /\ Nummeriert'
    BY <1>1, <1>2, <1>5, <2>1 DEF Geordnet, Allein, Ausschluss, Nummeriert
  <2>3. EinloesungStimmt'
    <3>1. Einloesende' = {}
      BY <1>1 DEF Einloesende
    <3> QED
      BY <1>1, <1>5, <3>1 DEF Geordnet, EinloesungStimmt, Einloesende
  <2>4. \A a \in Anfragen : Platz(a)' /\ Umstellung(a)' /\ Einladend(a)'
    BY <1>1 DEF Platz, Umstellung, Einladend, Laeuft
  <2> QED
    BY <2>2, <2>3, <2>4 DEF Geordnet
<1> QED
  BY <1>1, <1>4, <1>5 DEF IInv

LEMMA InitGut ==
  ASSUME SitzeAssumption, NEW z, SInitMit(z),
         sZaehler \in [anfragen : 0 .. MaxSitze, tarife : 0 .. MaxTarifwechsel, abstuerze : 0 .. MaxAbstuerze]
  PROVE  IInv
<1>1. /\ sEinzeln \in BOOLEAN /\ grenze \in Grenzen /\ nutzer \in [Personen -> Konto]
      /\ einladungen = {} /\ schlange = <<>> /\ konten = {} /\ abgebrochen = {}
      /\ sOrt = [a \in Anfragen |-> "bereit"] /\ sAuftrag = [a \in Anfragen |-> SRuhe]
      /\ sEntitaet = [a \in Anfragen |-> Nichts] /\ gezaehlt = [a \in Anfragen |-> 0]
  BY DEF SInitMit
<1>2. STypeOK
  BY <1>1, Konstanten DEF STypeOK, SOrte, Auftraege, Entitaeten, SitzeAssumption
<1>3. Allein /\ Ausschluss /\ Nummeriert /\ EinloesungStimmt
  BY <1>1 DEF Allein, Ausschluss, Nummeriert, EinloesungStimmt, Laeuft, Drin
<1>4. \A a \in Anfragen : Platz(a) /\ Umstellung(a) /\ Einladend(a)
  BY <1>1 DEF Platz, Umstellung, Einladend, Laeuft
<1> QED
  BY <1>2, <1>3, <1>4 DEF IInv, Geordnet

LEMMA BedientGut ==
  ASSUME SitzeAssumption, IInv, NEW a \in Anfragen, SBedient(a)
  PROVE  IInv'
BY LesenGut, ZaehlenGut, PruefenGut, NutzerSpeichernGut, UpdateLesenGut, InviteSpeichernGut,
   AendernLesenGut, AendernSpeichernGut, AcceptSpeichernGut, AcceptEinloesenGut DEF SBedient

LEMMA NextGut ==
  ASSUME SitzeAssumption, IInv, [SNext]_sVars
  PROVE  IInv'
<1>1. CASE SNext
  BY <1>1, BeginntGut, BedientGut, LaeuftAbGut, TarifwechselGut, AbsturzGut DEF SNext
<1>2. CASE UNCHANGED sVars
  <2>1. UNCHANGED <<sEinzeln, nutzer, einladungen, grenze, schlange, sOrt, sAuftrag, sEntitaet, gezaehlt,
                    konten, abgebrochen, sZaehler>>
    BY <1>2 DEF sVars, sAnfragen, sGeschichte
  <2>2. STypeOK'
    BY <2>1 DEF IInv, STypeOK
  <2> QED
    BY <2>1, <2>2, RuheGut DEF IInv
<1> QED
  BY <1>1, <1>2

-------------------------------------------------------------------------------
(***************************************************************************)
(* Theorems.                                                               *)
(***************************************************************************)

\* The inductive invariant holds in every reachable state.
THEOREM InvarianteSitze ==
  ASSUME SitzeAssumption
  PROVE  SSpec => []IInv
<1>1. SInit => IInv
  <2>1. SInit => sZaehler = SKeine
    BY DEF SInit, SInitMit
  <2> QED
    BY <2>1, InitGut DEF SInit, SKeine, SitzeAssumption
<1>2. IInv /\ [SNext]_sVars => IInv'
  BY NextGut
<1> QED
  BY <1>1, <1>2, PTL DEF SSpec

\* Rows, requests and the queue keep their types, whoever overlaps with whom.
THEOREM TypkorrektSitze ==
  ASSUME SitzeAssumption
  PROVE  SSpec => []STypeOK
<1>1. IInv => STypeOK
  BY DEF IInv
<1> QED
  BY <1>1, InvarianteSitze, PTL

\* Accounts from invitations and redeemed invitations agree, and an address has one open
\* invitation (accept, invite, resend, withdraw).
THEOREM EinloesungBewiesen ==
  ASSUME SitzeAssumption
  PROVE  SSpec => []EinloesungStimmt
<1>1. IInv => EinloesungStimmt
  BY DEF IInv, Geordnet, EinloesungStimmt
<1> QED
  BY <1>1, InvarianteSitze, PTL

\* Whoever becomes active takes a seat that the plan has (withSeatGuard, update, accept).
THEOREM GrenzeBewiesen ==
  ASSUME SitzeAssumption
  PROVE  SSpec => GrenzeGehalten
<1>1. ASSUME IInv, [SNext]_sVars, sEinzeln, Aktive # Aktive', Aktive \subseteq Aktive'
      PROVE  \E a \in Anfragen : sOrt[a] = "speichern" /\ sOrt'[a] # "speichern" /\
                                 Cardinality(Aktive') <= gezaehlt[a]
  <2>1. nutzer' # nutzer
    BY <1>1 DEF Aktive
  <2>2. PICK a \in Anfragen : CreateSpeichern(a) \/ UpdateSpeichern(a) \/ AcceptSpeichern(a)
    BY <1>1, <2>1 DEF SNext, sVars, SBeginnt, NimmCreate, NimmUpdate, NimmInvite, NimmAendern, NimmAccept, Nimm,
       SBedient, CreateAnstellen, InviteAnstellen, StelltSichAn, Zaehlen, CreatePruefen, UpdateLesen,
       UpdatePruefen, InvitePruefen, InviteSpeichern, SAendernLesen, AendernSpeichern, AcceptLesen,
       AcceptPruefen, AcceptEinloesen, Erlaubt, SLehneab, LaeuftAb, Tarifwechsel, SAbsturz
  <2>3. sOrt[a] = "speichern" /\ sOrt'[a] # "speichern"
    BY <1>1, <2>2 DEF CreateSpeichern, UpdateSpeichern, AcceptSpeichern, SBei, SBeende, Geh, IInv, STypeOK
  <2> DEFINE p == sAuftrag[a].person
  <2>4. p \in Personen /\ sEntitaet[a].konto \in Konto /\ gezaehlt[a] \in Nat /\ Platz(a)
    BY <1>1 DEF IInv, STypeOK, Geordnet
  <2>5. PICK k \in Konto : /\ nutzer' = [nutzer EXCEPT ![p] = k]
                           /\ k = "aktiv" /\ nutzer[p] # "aktiv" => AnzahlAktive + 1 <= gezaehlt[a]
    <3>1. CASE CreateSpeichern(a)
      <4>1. nutzer' = [nutzer EXCEPT ![p] = IF nutzer[p] = "kein" THEN "aktiv" ELSE nutzer[p]]
        BY <3>1 DEF CreateSpeichern
      <4>2. AnzahlAktive + 1 <= gezaehlt[a]
        BY <2>4, <3>1 DEF CreateSpeichern, SBei, Platz
      <4>3. (IF nutzer[p] = "kein" THEN "aktiv" ELSE nutzer[p]) \in Konto
        BY <1>1, <2>4 DEF IInv, STypeOK, Konto
      <4> QED
        BY <4>1, <4>2, <4>3
    <3>2. CASE UpdateSpeichern(a)
      BY <2>3, <2>4, <3>2 DEF UpdateSpeichern, SBei, Platz
    <3>3. CASE AcceptSpeichern(a)
      <4>1. nutzer' = [nutzer EXCEPT ![p] = "aktiv"] /\ AnzahlAktive + 1 <= gezaehlt[a]
        BY <2>3, <2>4, <3>3 DEF AcceptSpeichern, SBei, Platz
      <4> QED
        BY <4>1 DEF Konto
    <3> QED
      BY <2>2, <3>1, <3>2, <3>3
  <2>6. k = "aktiv" /\ nutzer[p] # "aktiv"
    BY <1>1, <2>4, <2>5, EinerMehr DEF IInv
  <2>7. Cardinality(Aktive') <= gezaehlt[a]
    <3>1. Cardinality(Aktive') \in Nat /\ Cardinality(Aktive') <= AnzahlAktive + 1
      BY <1>1, <2>4, <2>5, EinerMehr DEF IInv
    <3>2. AnzahlAktive \in Nat /\ AnzahlAktive + 1 <= gezaehlt[a]
      BY <2>5, <2>6, AktiveEndlich
    <3> QED
      BY <2>4, <3>1, <3>2
  <2> QED
    BY <2>3, <2>7
<1>2. IInv /\ [SNext]_sVars =>
        [sEinzeln /\ Aktive # Aktive' /\ Aktive \subseteq Aktive' =>
           \E a \in Anfragen : sOrt[a] = "speichern" /\ sOrt'[a] # "speichern" /\
                               Cardinality(Aktive') <= gezaehlt[a]]_sVars
  BY <1>1
<1> QED
  BY <1>2, InvarianteSitze, PTL DEF SSpec, GrenzeGehalten

-------------------------------------------------------------------------------
(***************************************************************************)
(* Termine: the inductive invariant.  Its order of argument: who may hold  *)
(* which number; hence who may save or remind of which row; hence what the *)
(* restriction keeps apart.                                                *)
(***************************************************************************)
TAuftraege == [op : Operationen, buchung : Buchungen]

Taetig(a) == ort[a] # "bereit"

\* Who brings an appointment into being that has no row yet.
Neue == {"annehmen", "anlegen"}

Neuer(a) == Taetig(a) /\ auftrag[a].op \in Neue

ZaehlerTyp ==
  zaehler \in [anfragen : 0 .. MaxAnfragen, entfernt : 0 .. MaxEntfernt, laeufe : 0 .. MaxLaeufe,
               abstuerze : 0 .. MaxAbstuerze]

\* Where a request may be, by what it does.
AmPlatz(a) ==
  /\ Taetig(a) => auftrag[a].op # "ruhe"
  /\ ort[a] = "flip" => auftrag[a].op = "annehmen"
  /\ ort[a] = "pruefen" => auftrag[a].op # "ablehnen"
  /\ auftrag[a].op = "ablehnen" => entitaet[a] = Kein

\* The numbers that rows, runs and reminders have to do with.
Vorhanden ==
  {n \in Nummern : \/ n = 0 \/ mails[n] # 0
                   \/ \E x \in termine : x.nr = n
                   \/ \E l \in Laeufe : n \in lauf[l].liste \/ lauf[l].nr = n}

Vergeben == 0 .. zaehler.anfragen

Eindeutig == \A x, y \in termine : x.nr = y.nr => x = y

\* The number of an appointment that is yet to come is nobody else's.
TNummeriert ==
  /\ Eindeutig
  /\ Vorhanden \subseteq Vergeben
  /\ \A a \in Anfragen :
       /\ entitaet[a].nr \in Vergeben
       /\ Neuer(a) => entitaet[a].nr \notin Vorhanden /\ \A b \in Anfragen \ {a} : entitaet[b].nr # entitaet[a].nr

\* The runs that may still remind of appointment n.
Mahner(n) == {l \in Laeufe : n \in lauf[l].liste \/ (lauf[l].ort = "senden" /\ lauf[l].nr = n)}

Gezaehlt ==
  /\ \A n \in Nummern : mails[n] + Cardinality(Mahner(n)) <= zaehler.laeufe
  /\ \A l \in Laeufe : /\ lauf[l].ort = "bereit" => lauf[l].liste = {}
                       /\ lauf[l].ort = "senden" => lauf[l].nr \notin lauf[l].liste

\* A request that has flipped its booking request holds it alone, and nothing came of it yet.
Haelt(a) == auftrag[a].op = "annehmen" /\ ort[a] \in {"pruefen", "speichern"}

Gebucht ==
  /\ \A b \in Buchungen : /\ gebucht[b] # {} => buchung[b] # "neu"
                          /\ \A m, n \in gebucht[b] : m = n
  /\ \A a \in Anfragen : Haelt(a) =>
       /\ gebucht[auftrag[a].buchung] = {}
       /\ \A c \in Anfragen : Haelt(c) /\ auftrag[c].buchung = auftrag[a].buchung => c = a

Auf(a, op, b) == Taetig(a) /\ auftrag[a].op = op /\ auftrag[a].buchung = b

\* While a booking request is being rejected nobody accepts it.
Abgelehnt ==
  /\ \A b \in Buchungen : buchung[b] = "angenommen" <=> gebucht[b] # {}
  /\ \A a, c \in Anfragen, b \in Buchungen : Auf(a, "ablehnen", b) =>
       gebucht[b] = {} /\ ~ Auf(c, "annehmen", b)

Speichert(a) == ort[a] = "speichern" /\ auftrag[a].op # "ablehnen"

\* Who saves an appointment does it alone, and nothing has got in its way since its check.
Ueberlappungsfrei ==
  /\ \A a, b \in Anfragen : Speichert(a) /\ Speichert(b) => a = b
  /\ blockieren => \A a \in Anfragen : Speichert(a) => Konflikte(entitaet[a]) = {}
  /\ KeineDoppelbuchung

Aendert(a) == Taetig(a) /\ auftrag[a].op = "aendern"

Sendet(l, n) == lauf[l].ort = "senden" /\ lauf[l].nr = n

\* What is not marked as reminded of was not reminded of, and nobody is about to; a change that
\* is on its way takes the mark away only together with a later day.
Unerinnert == \A x \in termine : ~ x.erinnert => mails[x.nr] = 0 /\ \A l \in Laeufe : ~ Sendet(l, x.nr)

Sendend ==
  \A l \in Laeufe : lauf[l].ort = "senden" =>
    /\ mails[lauf[l].nr] = 0
    /\ \A k \in Laeufe : Sendet(k, lauf[l].nr) => k = l
    /\ \A a \in Anfragen : ~ Aendert(a)

Aendernd ==
  \A a \in Anfragen : Aendert(a) /\ ~ entitaet[a].erinnert =>
    \/ mails[entitaet[a].nr] = 0
    \/ \A x \in termine : x.nr = entitaet[a].nr => x.tag < entitaet[a].tag

Erinnerung == ErinnerungEinmal /\ Unerinnert /\ Sendend /\ Aendernd

TInv ==
  /\ TypeOK /\ ZaehlerTyp /\ (\A a \in Anfragen : AmPlatz(a))
  /\ TNummeriert /\ Gezaehlt /\ Gebucht
  /\ einzeln => Abgelehnt /\ Ueberlappungsfrei /\ Erinnerung

-------------------------------------------------------------------------------
\* Only a moves among the requests.
TNur(a) ==
  /\ \A b \in Anfragen \ {a} : ort'[b] = ort[b] /\ auftrag'[b] = auftrag[b] /\ entitaet'[b] = entitaet[b]
  /\ UNCHANGED <<einzeln, blockieren, heute, lauf>>

LEMMA TKonstanten ==
  /\ MaxAnfragen \in Nat /\ MaxTag \in Nat /\ MaxLaeufe \in Nat /\ MaxEntfernt \in Nat /\ MaxAbstuerze \in Nat
  /\ Ruhe \in TAuftraege /\ Ruhe.op = "ruhe"
  /\ Kein \in Termin /\ Kein.nr = 0
  /\ \A b \in Buchungen, op \in Operationen : [op |-> op, buchung |-> b] \in TAuftraege
<1>1. /\ MaxAnfragen \in Nat /\ MaxTag \in Nat /\ MaxLaeufe \in Nat /\ MaxEntfernt \in Nat /\ MaxAbstuerze \in Nat
      /\ Buchungen # {}
  BY TermineAssumption
<1>2. (CHOOSE b \in Buchungen : TRUE) \in Buchungen
  BY <1>1
<1> QED
  BY <1>1, <1>2 DEF TAuftraege, Operationen, Ruhe, Kein, NeuerTermin, Termin, Nummern, Wer, Tage, TerminStatus

LEMMA BeginneTyp ==
  ASSUME TypeOK, ZaehlerTyp, NEW a \in Anfragen, NEW auf \in TAuftraege, NEW e \in Termin, NEW o \in Orte,
         Beginne(a, auf, e, o)
  PROVE  /\ TypeOK' /\ ZaehlerTyp' /\ TNur(a) /\ ort[a] = "bereit"
         /\ ort'[a] = o /\ auftrag'[a] = auf /\ entitaet'[a] = e
         /\ zaehler.anfragen \in Nat /\ zaehler.anfragen < MaxAnfragen
         /\ zaehler'.anfragen = zaehler.anfragen + 1 /\ zaehler'.laeufe = zaehler.laeufe
         /\ UNCHANGED <<buchung, termine, gebucht, mails>>
<1>1. /\ ort' \in [Anfragen -> Orte] /\ auftrag' \in [Anfragen -> TAuftraege] /\ entitaet' \in [Anfragen -> Termin]
      /\ ort'[a] = o /\ auftrag'[a] = auf /\ entitaet'[a] = e /\ TNur(a)
  BY DEF Beginne, TypeOK, TAuftraege, TNur
<1>2. zaehler.anfragen \in 0 .. MaxAnfragen /\ zaehler.anfragen < MaxAnfragen /\ MaxAnfragen \in Nat
  BY TKonstanten DEF Beginne, ZaehlerTyp
<1>3. zaehler.anfragen + 1 \in 0 .. MaxAnfragen
  BY <1>2
<1>4. ZaehlerTyp' /\ zaehler'.anfragen = zaehler.anfragen + 1 /\ zaehler'.laeufe = zaehler.laeufe
  BY <1>3 DEF Beginne, ZaehlerTyp
<1>5. UNCHANGED <<buchung, termine, gebucht, mails>> /\ ort[a] = "bereit"
  BY DEF Beginne, geschichte
<1>6. TypeOK'
  BY <1>1, <1>5 DEF TypeOK, TNur, TAuftraege
<1> QED
  BY <1>1, <1>2, <1>4, <1>5, <1>6

LEMMA WeiterTyp ==
  ASSUME TypeOK, NEW a \in Anfragen, NEW o \in Orte, Weiter(a, o), entitaet' = entitaet
  PROVE  /\ ort' \in [Anfragen -> Orte] /\ ort'[a] = o /\ TNur(a)
         /\ UNCHANGED <<auftrag, entitaet, zaehler>>
BY DEF Weiter, TypeOK, TNur

LEMMA TBeendeTyp ==
  ASSUME TypeOK, NEW a \in Anfragen, Beende(a)
  PROVE  /\ ort' \in [Anfragen -> Orte] /\ auftrag' \in [Anfragen -> TAuftraege] /\ entitaet' \in [Anfragen -> Termin]
         /\ ort'[a] = "bereit" /\ auftrag'[a] = Ruhe /\ entitaet'[a] = Kein /\ TNur(a) /\ zaehler' = zaehler
BY TKonstanten DEF Beende, TypeOK, TNur, TAuftraege, Orte

-------------------------------------------------------------------------------
(***************************************************************************)
(* What a step of request a leaves alone.                                  *)
(***************************************************************************)
\* a goes on with what it does, or is done.
TBleibt(a) ==
  \/ ~ Taetig(a)' /\ auftrag'[a] = Ruhe /\ entitaet'[a] = Kein
  \/ Taetig(a)' /\ auftrag'[a] = auftrag[a] /\ entitaet'[a] = entitaet[a]

LEMMA NummernBleiben ==
  ASSUME TNummeriert, NEW a \in Anfragen, Taetig(a), TNur(a), TBleibt(a), zaehler' = zaehler, Eindeutig',
         Vorhanden' \subseteq Vorhanden \cup {entitaet[a].nr},
         Taetig(a)' => Vorhanden' \subseteq Vorhanden,
         TypeOK, zaehler.anfragen \in Nat
  PROVE  TNummeriert'
<1>1. Vorhanden' \subseteq Vergeben'
  BY DEF TNummeriert, Vergeben
<1>2. 0 \in Vorhanden /\ 0 \in Vergeben
  BY TKonstanten DEF Vorhanden, Vergeben, Nummern
<1>3. \A b \in Anfragen : entitaet'[b].nr \in Vergeben'
  BY <1>2, TKonstanten DEF TNummeriert, TNur, TBleibt, Vergeben
<1>4. ASSUME NEW b \in Anfragen, Neuer(b)'
      PROVE  entitaet'[b].nr \notin Vorhanden' /\ \A c \in Anfragen \ {b} : entitaet'[c].nr # entitaet'[b].nr
  <2>1. /\ Neuer(b) /\ entitaet'[b] = entitaet[b]
        /\ entitaet[b].nr \notin Vorhanden /\ \A c \in Anfragen \ {b} : entitaet[c].nr # entitaet[b].nr
    <3>1. Neuer(b) /\ entitaet'[b] = entitaet[b]
      BY <1>4, TKonstanten DEF TNur, TBleibt, Neuer, Taetig, Neue
    <3> QED
      BY <3>1 DEF TNummeriert
  <2>2. entitaet'[b].nr \notin Vorhanden'
    BY <1>4, <2>1 DEF Neuer, Taetig
  <2>3. \A c \in Anfragen \ {b} : entitaet'[c].nr # entitaet'[b].nr
    BY <1>2, <2>1, TKonstanten DEF TNur, TBleibt
  <2> QED
    BY <2>2, <2>3
<1> QED
  BY <1>1, <1>3, <1>4 DEF TNummeriert

LEMMA ZahlBleibt ==
  ASSUME Gezaehlt, TypeOK, ZaehlerTyp, lauf' = lauf, zaehler'.laeufe = zaehler.laeufe, mails' \in [Nummern -> Nat],
         \A n \in Nummern : mails'[n] <= mails[n]
  PROVE  Gezaehlt'
<1>1. ASSUME NEW n \in Nummern PROVE mails'[n] + Cardinality(Mahner(n)') <= zaehler'.laeufe
  <2>1. Mahner(n)' = Mahner(n) /\ IsFiniteSet(Mahner(n))
    <3>1. Mahner(n) \subseteq Laeufe
      BY DEF Mahner
    <3> QED
      BY <3>1, TermineAssumption, FS_Subset DEF Mahner
  <2>2. Cardinality(Mahner(n)) \in Nat
    BY <2>1, FS_CardinalityType
  <2>3. mails[n] \in Nat /\ mails'[n] \in Nat /\ mails[n] + Cardinality(Mahner(n)) <= zaehler.laeufe
        /\ zaehler.laeufe \in Nat
    BY DEF Gezaehlt, TypeOK, ZaehlerTyp
  <2> QED
    BY <2>1, <2>2, <2>3
<1> QED
  BY <1>1 DEF Gezaehlt
\* Nobody else turns up.
LEMMA Wenigere ==
  ASSUME NEW a \in Anfragen, TNur(a), TBleibt(a), Taetig(a)
  PROVE  \A b \in Anfragen :
           /\ Taetig(b)' => Taetig(b) /\ auftrag'[b] = auftrag[b] /\ entitaet'[b] = entitaet[b]
           /\ b # a => ort'[b] = ort[b] /\ auftrag'[b] = auftrag[b] /\ entitaet'[b] = entitaet[b]
BY DEF TNur, TBleibt, Taetig

LEMMA PlatzBleibt ==
  ASSUME TInv, NEW a \in Anfragen, TNur(a), AmPlatz(a)'
  PROVE  \A b \in Anfragen : AmPlatz(b)'
BY DEF TInv, TNur, AmPlatz, Taetig

LEMMA HaltenBleibt ==
  ASSUME Gebucht, NEW a \in Anfragen, Taetig(a), TNur(a), TBleibt(a), UNCHANGED <<buchung, gebucht>>,
         Haelt(a)' => \/ Haelt(a)
                      \/ /\ gebucht[auftrag[a].buchung] = {}
                         /\ \A c \in Anfragen : Haelt(c) => auftrag[c].buchung # auftrag[a].buchung
  PROVE  Gebucht'
<1>1. \A b \in Anfragen : /\ Haelt(b)' => auftrag'[b] = auftrag[b]
                          /\ Haelt(b)' /\ b # a => Haelt(b)
  BY Wenigere DEF Haelt, Taetig
<1>2. ASSUME NEW b \in Anfragen, Haelt(b)'
      PROVE  /\ gebucht[auftrag[b].buchung] = {}
             /\ \A c \in Anfragen : Haelt(c)' /\ auftrag[c].buchung = auftrag[b].buchung => c = b
  BY <1>1, <1>2 DEF Gebucht
<1> QED
  BY <1>1, <1>2 DEF Gebucht

LEMMA AblehnungBleibt ==
  ASSUME Abgelehnt, NEW a \in Anfragen, Taetig(a), TNur(a), TBleibt(a), UNCHANGED <<buchung, gebucht>>
  PROVE  Abgelehnt'
<1>1. \A b \in Anfragen, op \in Operationen, c \in Buchungen : Auf(b, op, c)' => Auf(b, op, c)
  BY Wenigere DEF Auf, Taetig
<1>2. "annehmen" \in Operationen /\ "ablehnen" \in Operationen
  BY DEF Operationen
<1> QED
  BY <1>1, <1>2 DEF Abgelehnt

\* What the overlap check and the reminders look at is the same.
LEMMA UeberlappungBleibt ==
  ASSUME Ueberlappungsfrei, NEW a \in Anfragen, Taetig(a), TNur(a), TBleibt(a), termine' = termine,
         Speichert(a)' => /\ \A b \in Anfragen \ {a} : ~ Speichert(b)
                          /\ blockieren => Konflikte(entitaet[a]) = {}
  PROVE  Ueberlappungsfrei'
<1>1. \A b \in Anfragen : /\ Speichert(b)' => entitaet'[b] = entitaet[b]
                          /\ Speichert(b)' /\ b # a => Speichert(b)
  BY Wenigere DEF Speichert, Taetig
<1>3. KeineDoppelbuchung'
  BY DEF Ueberlappungsfrei, KeineDoppelbuchung, Gleichzeitig, TNur
<1>4. ASSUME NEW b \in Anfragen, Speichert(b)', blockieren'
      PROVE  Konflikte(entitaet[b])' = {}
  BY <1>1, <1>4 DEF Ueberlappungsfrei, TNur, Konflikte, Gleichzeitig
<1> QED
  BY <1>1, <1>3, <1>4 DEF Ueberlappungsfrei

LEMMA ErinnerungBleibt ==
  ASSUME Erinnerung, NEW a \in Anfragen, Taetig(a), TNur(a), TBleibt(a), UNCHANGED <<termine, mails>>
  PROVE  Erinnerung'
<1>1. \A b \in Anfragen : Aendert(b)' => Aendert(b) /\ entitaet'[b] = entitaet[b]
  BY Wenigere DEF Aendert, Taetig
<1>2. lauf' = lauf /\ einzeln' = einzeln
  BY DEF TNur
<1>3. ErinnerungEinmal' /\ Unerinnert' /\ Sendend'
  BY <1>1, <1>2 DEF Erinnerung, ErinnerungEinmal, Unerinnert, Sendend, Sendet
<1>4. Aendernd'
  BY <1>1 DEF Erinnerung, Aendernd
<1> QED
  BY <1>3, <1>4 DEF Erinnerung

\* A step that touches no table.
LEMMA TStill ==
  ASSUME TInv, NEW a \in Anfragen, Taetig(a), TNur(a), TBleibt(a), TypeOK', AmPlatz(a)',
         UNCHANGED <<buchung, termine, gebucht, mails, zaehler>>,
         Haelt(a)' => \/ Haelt(a)
                      \/ /\ gebucht[auftrag[a].buchung] = {}
                         /\ \A c \in Anfragen : Haelt(c) => auftrag[c].buchung # auftrag[a].buchung,
         einzeln /\ Speichert(a)' => /\ \A b \in Anfragen \ {a} : ~ Speichert(b)
                                     /\ blockieren => Konflikte(entitaet[a]) = {}
  PROVE  TInv'
<1>1. TypeOK /\ ZaehlerTyp /\ TNummeriert /\ Gezaehlt /\ Gebucht /\ lauf' = lauf /\ einzeln' = einzeln
  BY DEF TInv, TNur
<1>2. Vorhanden' = Vorhanden /\ Eindeutig'
  BY <1>1 DEF Vorhanden, Eindeutig, TNummeriert
<1>3. TNummeriert'
  BY <1>1, <1>2, NummernBleiben DEF ZaehlerTyp
<1>4. Gezaehlt'
  BY <1>1, ZahlBleibt DEF TypeOK
<1>5. Gebucht'
  BY <1>1, HaltenBleibt
<1>6. einzeln => Abgelehnt' /\ Ueberlappungsfrei' /\ Erinnerung'
  BY AblehnungBleibt, UeberlappungBleibt, ErinnerungBleibt DEF TInv
<1>7. \A b \in Anfragen : AmPlatz(b)'
  BY PlatzBleibt
<1>8. ZaehlerTyp'
  BY <1>1 DEF ZaehlerTyp
<1> QED
  BY <1>1, <1>3, <1>4, <1>5, <1>6, <1>7, <1>8 DEF TInv

-------------------------------------------------------------------------------
(***************************************************************************)
(* One lemma per action: what begins.                                      *)
(***************************************************************************)
\* Every request takes the next number; what it does is not in anybody's way.
LEMMA BeginneGut ==
  ASSUME TInv, NEW a \in Anfragen, NEW auf \in TAuftraege, NEW e \in Termin, NEW o \in Orte \ {"bereit"},
         Beginne(a, auf, e, o),
         auf.op \in Neue => e.nr = zaehler.anfragen + 1,
         auf.op \notin Neue => e.nr = 0 \/ \E x \in termine : x.nr = e.nr,
         auf.op # "ruhe", o = "flip" <=> auf.op = "annehmen", o = "pruefen" <=> auf.op # "annehmen" /\ auf.op # "ablehnen",
         auf.op = "ablehnen" => e = Kein /\ buchung[auf.buchung] = "neu",
         auf.op = "aendern" /\ ~ e.erinnert =>
           (einzeln => mails[e.nr] = 0) \/ \A x \in termine : x.nr = e.nr => x.tag < e.tag
  PROVE  TInv'
<1>1. /\ TypeOK' /\ ZaehlerTyp' /\ TNur(a) /\ ort[a] = "bereit"
      /\ ort'[a] = o /\ auftrag'[a] = auf /\ entitaet'[a] = e
      /\ zaehler.anfragen \in Nat /\ zaehler.anfragen < MaxAnfragen
      /\ zaehler'.anfragen = zaehler.anfragen + 1 /\ zaehler'.laeufe = zaehler.laeufe
      /\ UNCHANGED <<buchung, termine, gebucht, mails>>
  BY BeginneTyp DEF TInv
<1>2. TypeOK /\ ZaehlerTyp /\ TNummeriert /\ Gezaehlt /\ Gebucht /\ lauf' = lauf /\ einzeln' = einzeln
  BY <1>1 DEF TInv, TNur
<1> DEFINE neu == zaehler.anfragen + 1
<1>3. TNummeriert'
  <2>1. Vorhanden' = Vorhanden /\ Eindeutig'
    BY <1>1, <1>2 DEF Vorhanden, Eindeutig, TNummeriert
  <2>2. Vergeben \subseteq Vergeben' /\ neu \in Vergeben' /\ neu \notin Vergeben /\ 0 \in Vergeben /\ 0 \in Vorhanden
    BY <1>1, TKonstanten DEF Vergeben, Vorhanden, Nummern
  <2>3. e.nr \in Vorhanden \/ (e.nr = neu /\ auf.op \in Neue)
    BY <1>2, <2>2 DEF Vorhanden, TypeOK, Termin
  <2>4. \A b \in Anfragen : entitaet'[b].nr \in Vergeben'
    BY <1>1, <1>2, <2>2, <2>3 DEF TNummeriert, TNur
  <2>5. ASSUME NEW b \in Anfragen, Neuer(b)'
        PROVE  entitaet'[b].nr \notin Vorhanden' /\ \A c \in Anfragen \ {b} : entitaet'[c].nr # entitaet'[b].nr
    <3>1. CASE b = a
      <4>1. e.nr = neu
        BY <1>1, <2>5, <3>1 DEF Neuer
      <4> QED
        BY <1>1, <1>2, <2>1, <2>2, <3>1, <4>1 DEF TNummeriert, TNur
    <3>2. CASE b # a
      <4>1. Neuer(b) /\ entitaet'[b] = entitaet[b]
        BY <1>1, <2>5, <3>2 DEF Neuer, TNur, Taetig
      <4>2. /\ entitaet[b].nr \notin Vorhanden /\ entitaet[b].nr \in Vergeben
            /\ \A c \in Anfragen \ {b} : entitaet[c].nr # entitaet[b].nr
        BY <1>2, <4>1 DEF TNummeriert
      <4>3. e.nr # entitaet[b].nr
        BY <2>2, <2>3, <4>2
      <4> QED
        BY <1>1, <2>1, <4>1, <4>2, <4>3 DEF TNur
    <3> QED
      BY <3>1, <3>2
  <2> QED
    BY <1>2, <2>1, <2>2, <2>4, <2>5 DEF TNummeriert
<1>4. Gezaehlt'
  BY <1>1, <1>2, ZahlBleibt DEF TypeOK
<1>5. Gebucht'
  BY <1>1, <1>2 DEF Gebucht, Haelt, TNur
<1>6. ASSUME einzeln PROVE Abgelehnt'
  <2>1. /\ auf.op = "ablehnen" => \A c \in Anfragen : ~ Auf(c, "annehmen", auf.buchung)
        /\ auf.op = "annehmen" => \A c \in Anfragen : ~ Auf(c, "ablehnen", auf.buchung)
    BY <1>6 DEF Beginne, Vertraeglich, Auf, Taetig, Laufende
  <2>2. Abgelehnt /\ (auf.op = "ablehnen" => gebucht[auf.buchung] = {})
    BY <1>2, <1>6 DEF TInv, Gebucht, TAuftraege
  <2>3. \A c \in Anfragen, op \in Operationen, b \in Buchungen :
          Auf(c, op, b)' => Auf(c, op, b) \/ (c = a /\ op = auf.op /\ b = auf.buchung)
    BY <1>1 DEF Auf, TNur, Taetig
  <2>4. "annehmen" \in Operationen /\ "ablehnen" \in Operationen
    BY DEF Operationen
  <2> QED
    BY <1>1, <2>1, <2>2, <2>3, <2>4 DEF Abgelehnt
<1>7. ASSUME einzeln PROVE Ueberlappungsfrei'
  <2>1. \A b \in Anfragen : Speichert(b)' => Speichert(b) /\ entitaet'[b] = entitaet[b]
    BY <1>1 DEF Speichert, TNur, Orte
  <2>2. Ueberlappungsfrei /\ blockieren' = blockieren
    BY <1>1, <1>7 DEF TInv, TNur
  <2>3. KeineDoppelbuchung'
    BY <1>1, <1>2, <2>2 DEF Ueberlappungsfrei, KeineDoppelbuchung, Gleichzeitig
  <2>4. \A b \in Anfragen : Speichert(b)' /\ blockieren' => Konflikte(entitaet[b])' = {}
    BY <1>1, <2>1, <2>2 DEF Ueberlappungsfrei, Konflikte, Gleichzeitig
  <2> QED
    BY <2>1, <2>2, <2>3, <2>4 DEF Ueberlappungsfrei
<1>8. ASSUME einzeln PROVE Erinnerung'
  <2>1. Erinnerung /\ (auf.op = "aendern" => \A l \in Laeufe : lauf[l].ort # "senden")
    BY <1>8 DEF TInv, Beginne, Vertraeglich
  <2>2. \A b \in Anfragen : Aendert(b)' => \/ Aendert(b) /\ entitaet'[b] = entitaet[b]
                                           \/ b = a /\ auf.op = "aendern"
    BY <1>1 DEF Aendert, TNur, Taetig
  <2>3. ErinnerungEinmal' /\ Unerinnert' /\ Sendend'
    BY <1>1, <1>2, <2>1, <2>2 DEF Erinnerung, ErinnerungEinmal, Unerinnert, Sendend, Sendet
  <2>4. Aendernd'
    BY <1>1, <1>8, <2>1, <2>2 DEF Erinnerung, Aendernd
  <2> QED
    BY <2>3, <2>4 DEF Erinnerung
<1>9. \A b \in Anfragen : AmPlatz(b)'
  <2>1. AmPlatz(a)'
    BY <1>1 DEF AmPlatz, Taetig, Orte
  <2> QED
    BY <1>1, <2>1, PlatzBleibt
<1> QED
  BY <1>1, <1>2, <1>3, <1>4, <1>5, <1>6, <1>7, <1>8, <1>9 DEF TInv

LEMMA NeuTyp ==
  ASSUME ZaehlerTyp, NEW w \in Wer, NEW t \in Tage, zaehler.anfragen < MaxAnfragen
  PROVE  Neu(w, t) \in Termin /\ Neu(w, t).nr = zaehler.anfragen + 1
<1>1. zaehler.anfragen + 1 \in Nummern
  BY TKonstanten DEF ZaehlerTyp, Nummern
<1> QED
  BY <1>1 DEF Neu, NeuerTermin, Termin, TerminStatus

LEMMA PatchTyp ==
  ASSUME NEW x \in Termin, NEW neu \in Patches(x)
  PROVE  neu \in Termin /\ neu.nr = x.nr /\ neu.erinnert = x.erinnert
<1>1. \/ \E w \in Wer, t \in Tage : neu = Verlegt(x, w, t)
      \/ \E s \in TerminStatus : neu = [x EXCEPT !.status = s]
  BY DEF Patches
<1> QED
  BY <1>1 DEF Verlegt, Termin

LEMMA TBeginntGut ==
  ASSUME TInv, NEW a \in Anfragen, Beginnt(a)
  PROVE  TInv'
<1> DEFINE Orte2 == Orte \ {"bereit"}
<1>1. /\ ZaehlerTyp /\ TypeOK /\ TNummeriert /\ Ruhe.buchung \in Buchungen
      /\ "flip" \in Orte2 /\ "pruefen" \in Orte2 /\ "speichern" \in Orte2
      /\ \A op \in Operationen, b \in Buchungen : [op |-> op, buchung |-> b] \in TAuftraege
      /\ \A op \in Operationen : [Ruhe EXCEPT !.op = op] \in TAuftraege /\ [Ruhe EXCEPT !.op = op].op = op
      /\ {"annehmen", "ablehnen", "anlegen", "aendern"} \subseteq Operationen
  BY TKonstanten DEF TInv, Orte, Operationen, TAuftraege
<1>2. CASE Annehmen(a)
  <2>1. PICK b \in Buchungen, w \in Wer, t \in Tage :
          Beginne(a, [op |-> "annehmen", buchung |-> b], Neu(w, t), "flip")
    BY <1>2 DEF Annehmen
  <2>2. Neu(w, t) \in Termin /\ Neu(w, t).nr = zaehler.anfragen + 1
    BY <1>1, <2>1, NeuTyp DEF Beginne
  <2> DEFINE auf == [op |-> "annehmen", buchung |-> b]
  <2>3. auf \in TAuftraege /\ auf.op = "annehmen"
    BY <1>1
  <2> QED
    BY <1>1, <2>1, <2>2, <2>3, BeginneGut DEF Neue
<1>3. CASE AblehnenLesen(a)
  <2>1. PICK b \in Buchungen :
          buchung[b] = "neu" /\ Beginne(a, [op |-> "ablehnen", buchung |-> b], Kein, "speichern")
    BY <1>3 DEF AblehnenLesen
  <2> DEFINE auf == [op |-> "ablehnen", buchung |-> b]
  <2>2. auf \in TAuftraege /\ auf.op = "ablehnen" /\ auf.buchung = b
    BY <1>1
  <2> QED
    BY <1>1, <2>1, <2>2, TKonstanten, BeginneGut DEF Neue
<1>4. CASE Anlegen(a)
  <2>1. PICK w \in Wer, t \in Tage : Beginne(a, [Ruhe EXCEPT !.op = "anlegen"], Neu(w, t), "pruefen")
    BY <1>4 DEF Anlegen
  <2>2. Neu(w, t) \in Termin /\ Neu(w, t).nr = zaehler.anfragen + 1
    BY <1>1, <2>1, NeuTyp DEF Beginne
  <2> DEFINE auf == [Ruhe EXCEPT !.op = "anlegen"]
  <2>3. auf \in TAuftraege /\ auf.op = "anlegen"
    BY <1>1
  <2> QED
    BY <1>1, <2>1, <2>2, <2>3, BeginneGut DEF Neue
<1>5. CASE AendernLesen(a)
  <2>1. PICK x \in termine : \E neu \in Patches(x) :
          Beginne(a, [Ruhe EXCEPT !.op = "aendern"], [neu EXCEPT !.erinnert = @ /\ ~ NeuErinnert(x, neu)], "pruefen")
    BY <1>5 DEF AendernLesen
  <2>2. PICK neu \in Patches(x) :
          Beginne(a, [Ruhe EXCEPT !.op = "aendern"], [neu EXCEPT !.erinnert = @ /\ ~ NeuErinnert(x, neu)], "pruefen")
    BY <2>1
  <2>3. x \in Termin
    BY <1>1 DEF TypeOK
  <2>4. neu \in Termin /\ neu.nr = x.nr /\ neu.erinnert = x.erinnert
    BY <2>3, <2>2, PatchTyp
  <2> DEFINE e == [neu EXCEPT !.erinnert = @ /\ ~ NeuErinnert(x, neu)]
             auf == [Ruhe EXCEPT !.op = "aendern"]
  <2>5. e \in Termin /\ e.nr = x.nr /\ e.tag = neu.tag /\ e.erinnert = (x.erinnert /\ ~ NeuErinnert(x, neu))
    BY <2>3, <2>4 DEF Termin, NeuErinnert
  <2>6. ~ e.erinnert => (einzeln => mails[e.nr] = 0) \/ \A y \in termine : y.nr = e.nr => y.tag < e.tag
    <3>1. CASE ~ x.erinnert
      BY <2>5, <3>1 DEF TInv, Erinnerung, Unerinnert
    <3>2. CASE NeuErinnert(x, neu)
      <4>1. x.tag < e.tag /\ \A y \in termine : y.nr = e.nr => y = x
        BY <1>1, <2>3, <2>4, <2>5, <3>2 DEF NeuErinnert, TNummeriert, Eindeutig, Termin, Tage
      <4> QED
        BY <4>1
    <3> QED
      BY <2>5, <3>1, <3>2
  <2>7. auf \in TAuftraege /\ auf.op = "aendern"
    BY <1>1
  <2>8. Beginne(a, auf, e, "pruefen")
    BY <2>2
  <2> QED
    BY <1>1, <2>5, <2>6, <2>7, <2>8, BeginneGut DEF Neue
<1> QED
  BY <1>2, <1>3, <1>4, <1>5 DEF Beginnt

-------------------------------------------------------------------------------
(***************************************************************************)
(* What goes on without a change of a table.                               *)
(***************************************************************************)
LEMMA TLehneabGut ==
  ASSUME TInv, NEW a \in Anfragen, Taetig(a), Lehneab(a)
  PROVE  TInv'
<1>1. /\ ort' \in [Anfragen -> Orte] /\ auftrag' \in [Anfragen -> TAuftraege] /\ entitaet' \in [Anfragen -> Termin]
      /\ ort'[a] = "bereit" /\ auftrag'[a] = Ruhe /\ entitaet'[a] = Kein /\ TNur(a) /\ zaehler' = zaehler
  BY TBeendeTyp DEF TInv, Lehneab
<1>2. UNCHANGED <<buchung, termine, gebucht, mails>>
  BY DEF Lehneab, geschichte
<1>3. TypeOK'
  BY <1>1, <1>2 DEF TInv, TypeOK, TAuftraege, TNur
<1>4. TBleibt(a) /\ AmPlatz(a)' /\ ~ Haelt(a)' /\ ~ Speichert(a)'
  BY <1>1, TKonstanten DEF TBleibt, Taetig, AmPlatz, Haelt, Speichert
<1> QED
  BY <1>1, <1>2, <1>3, <1>4, TStill

LEMMA WeiterGut ==
  ASSUME TInv, NEW a \in Anfragen, Taetig(a), NEW o \in Orte, Weiter(a, o),
         UNCHANGED <<buchung, termine, entitaet, geschichte>>,
         \/ o = "flip" /\ auftrag[a].op = "annehmen"
         \/ /\ o = "pruefen" /\ auftrag[a].op = "annehmen"
            /\ buchung[auftrag[a].buchung] = "neu" /\ ~ Gesperrt(auftrag[a].buchung)
         \/ /\ o = "speichern" /\ ort[a] = "pruefen" /\ Frei
            /\ auftrag[a].op # "ablehnen" /\ (blockieren => Konflikte(entitaet[a]) = {})
  PROVE  TInv'
<1>1. ort' \in [Anfragen -> Orte] /\ ort'[a] = o /\ TNur(a) /\ UNCHANGED <<auftrag, entitaet, zaehler>>
  BY WeiterTyp DEF TInv
<1>2. UNCHANGED <<buchung, termine, gebucht, mails>>
  BY DEF geschichte
<1>3. TypeOK'
  BY <1>1, <1>2 DEF TInv, TypeOK, TNur
<1>4. TBleibt(a) /\ AmPlatz(a)'
  BY <1>1 DEF TInv, TBleibt, Taetig, AmPlatz
<1>5. Haelt(a)' => \/ Haelt(a)
                   \/ /\ gebucht[auftrag[a].buchung] = {}
                      /\ \A c \in Anfragen : Haelt(c) => auftrag[c].buchung # auftrag[a].buchung
  <2>1. auftrag[a].buchung \in Buchungen
    BY DEF TInv, TypeOK
  <2> QED
    BY <1>1, <2>1 DEF TInv, Haelt, Gesperrt, Gebucht
<1>6. einzeln /\ Speichert(a)' => /\ \A b \in Anfragen \ {a} : ~ Speichert(b)
                                  /\ blockieren => Konflikte(entitaet[a]) = {}
  BY <1>1 DEF Speichert, Frei
<1> QED
  BY <1>1, <1>2, <1>3, <1>4, <1>5, <1>6, TStill

LEMMA OhneTabelleGut ==
  ASSUME TInv, NEW a \in Anfragen,
         AnnahmeFlip(a) \/ AnnahmePruefen(a) \/ AnnahmeWiederholt(a) \/ Pruefen(a)
  PROVE  TInv'
<1>1. "flip" \in Orte /\ "pruefen" \in Orte /\ "speichern" \in Orte /\ AmPlatz(a)
  BY DEF Orte, TInv
<1>2. Taetig(a)
  BY DEF AnnahmeFlip, AnnahmePruefen, AnnahmeWiederholt, Pruefen, Bei, Taetig
<1>3. CASE Lehneab(a)
  BY <1>2, <1>3, TLehneabGut
<1>4. CASE ~ Lehneab(a) /\ AnnahmeFlip(a)
  BY <1>1, <1>2, <1>4, WeiterGut DEF AnnahmeFlip, Annehmbar, AmPlatz
<1>5. CASE ~ Lehneab(a) /\ AnnahmePruefen(a)
  BY <1>1, <1>2, <1>5, WeiterGut DEF AnnahmePruefen, Bei, Durchgelassen
<1>6. CASE AnnahmeWiederholt(a)
  BY <1>1, <1>2, <1>6, WeiterGut DEF AnnahmeWiederholt, Bei
<1>7. CASE ~ Lehneab(a) /\ Pruefen(a)
  BY <1>1, <1>2, <1>7, WeiterGut DEF Pruefen, Bei, Durchgelassen
<1> QED
  BY <1>3, <1>4, <1>5, <1>6, <1>7

-------------------------------------------------------------------------------
(***************************************************************************)
(* The saves.                                                              *)
(***************************************************************************)
LEMMA Eingefuegt ==
  ASSUME Ueberlappungsfrei, NEW a \in Anfragen, Speichert(a), TNur(a), TBleibt(a), ~ Taetig(a)',
         termine' \subseteq termine \cup {entitaet[a]}
  PROVE  Ueberlappungsfrei'
<1>1. \A b \in Anfragen : ~ Speichert(b)'
  <2>1. \A b \in Anfragen : Speichert(b)' => b # a /\ Speichert(b)
    BY DEF Speichert, TNur, Taetig
  <2> QED
    BY <2>1 DEF Ueberlappungsfrei
<1>2. KeineDoppelbuchung'
  <2>1. SUFFICES ASSUME einzeln, blockieren, NEW x \in termine', NEW y \in termine',
                        x.wer = y.wer, x.wer # Niemand, x.status # "abgesagt", y.status # "abgesagt",
                        Gleichzeitig(x, y)
                 PROVE  FALSE
    BY DEF KeineDoppelbuchung, Gleichzeitig, TNur
  <2> DEFINE t == entitaet[a]
  <2>2. Konflikte(t) = {} /\ KeineDoppelbuchung
    BY <2>1 DEF Ueberlappungsfrei
  <2>3. x \in termine /\ y \in termine => FALSE
    BY <2>1, <2>2 DEF KeineDoppelbuchung
  <2>4. x = t /\ y \in termine => FALSE
    BY <2>1, <2>2 DEF Konflikte, Gleichzeitig
  <2>5. y = t /\ x \in termine => FALSE
    BY <2>1, <2>2 DEF Konflikte, Gleichzeitig
  <2>6. x = t /\ y = t => FALSE
    BY <2>1 DEF Gleichzeitig
  <2> QED
    BY <2>1, <2>3, <2>4, <2>5, <2>6
<1> QED
  BY <1>1, <1>2 DEF Ueberlappungsfrei

\* A row that is new.
LEMMA NeueZeile ==
  ASSUME TInv, NEW a \in Anfragen, Neuer(a), TNur(a), TBleibt(a), ~ Taetig(a)', zaehler' = zaehler,
         termine' = termine \cup {entitaet[a]}, mails' = mails
  PROVE  /\ TNummeriert' /\ Gezaehlt'
         /\ einzeln => Erinnerung'
<1> DEFINE t == entitaet[a]
<1>1. TypeOK /\ ZaehlerTyp /\ TNummeriert /\ Gezaehlt /\ lauf' = lauf /\ t \in Termin
  BY DEF TInv, TNur, TypeOK
<1>2. /\ t.nr \notin Vorhanden /\ \A b \in Anfragen \ {a} : entitaet[b].nr # t.nr
      /\ t.nr \in Nummern
  BY <1>1 DEF TNummeriert, Termin
<1>3. mails[t.nr] = 0 /\ (\A x \in termine : x.nr # t.nr) /\ \A l \in Laeufe : lauf[l].nr # t.nr
  BY <1>2 DEF Vorhanden
<1>4. Eindeutig'
  BY <1>1, <1>3 DEF TNummeriert, Eindeutig
<1>5. Vorhanden' \subseteq Vorhanden \cup {t.nr}
  BY <1>1 DEF Vorhanden
<1>6. TNummeriert'
  BY <1>1, <1>4, <1>5, NummernBleiben DEF ZaehlerTyp, Neuer
<1>7. Gezaehlt'
  BY <1>1, ZahlBleibt DEF TypeOK
<1>8. ASSUME einzeln PROVE Erinnerung'
  <2>1. Erinnerung
    BY <1>8 DEF TInv
  <2>2. \A b \in Anfragen : Aendert(b)' => b # a /\ Aendert(b) /\ entitaet'[b] = entitaet[b]
    BY DEF Aendert, TNur, Taetig
  <2>3. ErinnerungEinmal' /\ Sendend'
    BY <1>1, <2>1, <2>2 DEF Erinnerung, ErinnerungEinmal, Sendend, Sendet, TNur
  <2>4. Unerinnert'
    BY <1>1, <1>3, <2>1 DEF Erinnerung, Unerinnert, Sendet
  <2>5. Aendernd'
    <3>1. SUFFICES ASSUME NEW b \in Anfragen, Aendert(b)', ~ entitaet'[b].erinnert
                   PROVE  \/ mails[entitaet[b].nr] = 0
                          \/ \A x \in termine' : x.nr = entitaet[b].nr => x.tag < entitaet[b].tag
      BY <2>2 DEF Aendernd
    <3>2. b # a /\ Aendert(b) /\ ~ entitaet[b].erinnert /\ entitaet[b].nr # t.nr
      BY <1>2, <2>2, <3>1
    <3> QED
      BY <2>1, <3>2 DEF Erinnerung, Aendernd
  <2> QED
    BY <2>3, <2>4, <2>5 DEF Erinnerung
<1> QED
  BY <1>6, <1>7, <1>8

LEMMA AnnahmeCommitGut ==
  ASSUME TInv, NEW a \in Anfragen, AnnahmeCommit(a)
  PROVE  TInv'
<1> DEFINE b == auftrag[a].buchung
           t == entitaet[a]
<1>1. /\ auftrag[a].op = "annehmen" /\ ort[a] = "speichern"
      /\ Taetig(a) /\ Neuer(a) /\ Speichert(a) /\ Haelt(a) /\ Auf(a, "annehmen", b)
  BY DEF AnnahmeCommit, Bei, Taetig, Neuer, Neue, Speichert, Haelt, Auf
<1>2. /\ ort' \in [Anfragen -> Orte] /\ auftrag' \in [Anfragen -> TAuftraege] /\ entitaet' \in [Anfragen -> Termin]
      /\ ort'[a] = "bereit" /\ auftrag'[a] = Ruhe /\ entitaet'[a] = Kein /\ TNur(a) /\ zaehler' = zaehler
  BY TBeendeTyp DEF TInv, AnnahmeCommit
<1>3. /\ TypeOK /\ ZaehlerTyp /\ Gebucht /\ b \in Buchungen /\ t \in Termin /\ t.nr \in Nummern
      /\ einzeln' = einzeln
  BY <1>2 DEF TInv, TypeOK, Termin, TNur
<1>4. /\ buchung' = [buchung EXCEPT ![b] = "angenommen"] /\ termine' = termine \cup {t}
      /\ gebucht' = [gebucht EXCEPT ![b] = @ \cup {t.nr}] /\ mails' = mails
  BY DEF AnnahmeCommit, Angenommen
<1>5. gebucht[b] = {} /\ \A c \in Anfragen : Haelt(c) /\ auftrag[c].buchung = b => c = a
  BY <1>1, <1>3 DEF Gebucht
<1>6. TypeOK'
  <2>1. buchung' \in [Buchungen -> {"neu", "angenommen", "abgelehnt"}] /\ gebucht' \in [Buchungen -> SUBSET Nummern]
    BY <1>3, <1>4 DEF TypeOK
  <2> QED
    BY <1>2, <1>3, <1>4, <2>1 DEF TypeOK, TNur, TAuftraege
<1>7. ~ Taetig(a)' /\ TBleibt(a) /\ AmPlatz(a)'
  BY <1>2, TKonstanten DEF TBleibt, Taetig, AmPlatz
<1>8. /\ gebucht'[b] = {t.nr} /\ buchung'[b] = "angenommen"
      /\ \A c \in Buchungen \ {b} : gebucht'[c] = gebucht[c] /\ buchung'[c] = buchung[c]
  BY <1>3, <1>4, <1>5 DEF TypeOK
<1>9. \A c \in Anfragen : Haelt(c)' => c # a /\ Haelt(c) /\ auftrag'[c] = auftrag[c] /\ auftrag[c].buchung # b
  BY <1>1, <1>2, <1>5 DEF Haelt, TNur
<1>10. Gebucht'
  <2>1. \A c \in Buchungen : (gebucht'[c] # {} => buchung'[c] # "neu") /\ \A m, n \in gebucht'[c] : m = n
    BY <1>3, <1>8 DEF Gebucht
  <2>2. \A c \in Anfragen : auftrag[c].buchung \in Buchungen
    BY <1>3 DEF TypeOK
  <2> QED
    BY <1>3, <1>8, <1>9, <2>1, <2>2 DEF Gebucht
<1>11. ASSUME einzeln PROVE Abgelehnt'
  <2>1. Abgelehnt
    BY <1>11 DEF TInv
  <2>2. \A c \in Anfragen, op \in Operationen, x \in Buchungen : Auf(c, op, x)' => Auf(c, op, x)
    BY <1>1, <1>2, <1>7, Wenigere DEF Auf, Taetig
  <2>3. \A c \in Anfragen : ~ Auf(c, "ablehnen", b)
    BY <1>1, <1>3, <2>1 DEF Abgelehnt
  <2>4. "annehmen" \in Operationen /\ "ablehnen" \in Operationen
    BY DEF Operationen
  <2> QED
    BY <1>8, <2>1, <2>2, <2>3, <2>4 DEF Abgelehnt
<1>12. einzeln => Ueberlappungsfrei'
  BY <1>1, <1>2, <1>4, <1>7, Eingefuegt DEF TInv
<1>13. TNummeriert' /\ Gezaehlt' /\ (einzeln => Erinnerung')
  BY <1>1, <1>2, <1>4, <1>7, NeueZeile
<1>14. (\A c \in Anfragen : AmPlatz(c)') /\ ZaehlerTyp'
  BY <1>2, <1>3, <1>7, PlatzBleibt DEF ZaehlerTyp
<1> QED
  BY <1>3, <1>6, <1>10, <1>11, <1>12, <1>13, <1>14 DEF TInv

LEMMA AblehnenSpeichernGut ==
  ASSUME TInv, NEW a \in Anfragen, AblehnenSpeichern(a)
  PROVE  TInv'
<1> DEFINE b == auftrag[a].buchung
<1>1. auftrag[a].op = "ablehnen" /\ Taetig(a) /\ Auf(a, "ablehnen", b) /\ ~ Gesperrt(b)
  BY DEF AblehnenSpeichern, Bei, Taetig, Auf
<1>2. /\ ort' \in [Anfragen -> Orte] /\ auftrag' \in [Anfragen -> TAuftraege] /\ entitaet' \in [Anfragen -> Termin]
      /\ ort'[a] = "bereit" /\ auftrag'[a] = Ruhe /\ entitaet'[a] = Kein /\ TNur(a) /\ zaehler' = zaehler
  BY TBeendeTyp DEF TInv, AblehnenSpeichern
<1>3. /\ TypeOK /\ ZaehlerTyp /\ TNummeriert /\ Gezaehlt /\ Gebucht /\ b \in Buchungen
      /\ einzeln' = einzeln /\ lauf' = lauf
  BY <1>2 DEF TInv, TypeOK, TNur
<1>4. buchung' = [buchung EXCEPT ![b] = "abgelehnt"] /\ UNCHANGED <<termine, gebucht, mails>>
  BY DEF AblehnenSpeichern, geschichte
<1>5. TypeOK'
  BY <1>2, <1>3, <1>4 DEF TypeOK, TNur, TAuftraege
<1>6. ~ Taetig(a)' /\ TBleibt(a) /\ AmPlatz(a)'
  BY <1>2, TKonstanten DEF TBleibt, Taetig, AmPlatz
<1>7. TNummeriert'
  <2>1. Vorhanden' = Vorhanden /\ Eindeutig'
    BY <1>3, <1>4 DEF Vorhanden, Eindeutig, TNummeriert
  <2> QED
    BY <1>1, <1>2, <1>3, <1>6, <2>1, NummernBleiben DEF ZaehlerTyp
<1>8. Gezaehlt'
  BY <1>2, <1>3, <1>4, ZahlBleibt DEF TypeOK
<1>9. Gebucht'
  <2>1. \A c \in Buchungen : buchung'[c] = "neu" => buchung[c] = "neu"
    BY <1>3, <1>4 DEF TypeOK
  <2>2. \A c \in Anfragen : Haelt(c)' => Haelt(c) /\ auftrag'[c] = auftrag[c]
    BY <1>2 DEF Haelt, TNur
  <2> QED
    BY <1>3, <1>4, <2>1, <2>2 DEF Gebucht
<1>10. ASSUME einzeln PROVE Abgelehnt'
  <2>1. Abgelehnt
    BY <1>10 DEF TInv
  <2>2. \A c \in Anfragen, op \in Operationen, x \in Buchungen : Auf(c, op, x)' => Auf(c, op, x)
    BY <1>1, <1>2, <1>6, Wenigere DEF Auf, Taetig
  <2>3. gebucht[b] = {}
    BY <1>1, <1>3, <2>1 DEF Abgelehnt
  <2>4. "annehmen" \in Operationen /\ "ablehnen" \in Operationen
    BY DEF Operationen
  <2> QED
    BY <1>3, <1>4, <2>1, <2>2, <2>3, <2>4 DEF Abgelehnt, TypeOK
<1>11. ASSUME einzeln PROVE Ueberlappungsfrei' /\ Erinnerung'
  <2>1. ~ Speichert(a)'
    BY <1>2 DEF Speichert
  <2> QED
    BY <1>1, <1>2, <1>4, <1>6, <1>11, <2>1, UeberlappungBleibt, ErinnerungBleibt DEF TInv
<1>12. (\A c \in Anfragen : AmPlatz(c)') /\ ZaehlerTyp'
  BY <1>2, <1>3, <1>6, PlatzBleibt DEF ZaehlerTyp
<1> QED
  BY <1>3, <1>5, <1>7, <1>8, <1>9, <1>10, <1>11, <1>12 DEF TInv

\* A row that was changed.
LEMMA GeaenderteZeile ==
  ASSUME TInv, NEW a \in Anfragen, Aendert(a), ~ Taetig(a)', TNur(a), TBleibt(a),
         zaehler' = zaehler, Speichern(a)
  PROVE  /\ TNummeriert' /\ Gezaehlt'
         /\ einzeln => Erinnerung'
<1> DEFINE t == entitaet[a]
           alt == {x \in termine : x.nr = t.nr}
           spaeter == \A x \in alt : t.tag > x.tag
<1>1. TypeOK /\ ZaehlerTyp /\ TNummeriert /\ Gezaehlt /\ lauf' = lauf /\ t \in Termin /\ Taetig(a)
  BY DEF TInv, TNur, TypeOK, Aendert
<1>2. /\ t.nr \in Nummern /\ t.tag \in Tage /\ Tage \subseteq Nat
      /\ \A x \in termine : x.tag \in Tage /\ x.nr \in Nummern
      /\ \A b \in Anfragen : entitaet[b].nr \in Nummern /\ entitaet[b].tag \in Tage
      /\ \A l \in Laeufe : lauf[l].nr \in Nummern
  BY <1>1, TKonstanten DEF Termin, TypeOK, Tage
<1>3. termine' = (termine \ alt) \cup {t} /\ mails' = [mails EXCEPT ![t.nr] = IF spaeter THEN 0 ELSE @]
  BY DEF Speichern
<1>4. /\ mails' \in [Nummern -> Nat] /\ \A n \in Nummern : mails[n] \in Nat /\ (mails'[n] = mails[n] \/ mails'[n] = 0)
      /\ (spaeter => mails'[t.nr] = 0) /\ (~ spaeter => mails' = mails)
      /\ \A n \in Nummern \ {t.nr} : mails'[n] = mails[n]
  <2>1. mails \in [Nummern -> Nat]
    BY <1>1, TKonstanten DEF TypeOK
  <2> QED
    BY <1>2, <1>3, <2>1
<1>5. Eindeutig'
  BY <1>1, <1>3 DEF TNummeriert, Eindeutig
<1>6. Vorhanden' \subseteq Vorhanden \cup {t.nr}
  BY <1>1, <1>3, <1>4 DEF Vorhanden
<1>7. TNummeriert'
  BY <1>1, <1>5, <1>6, NummernBleiben DEF ZaehlerTyp
<1>8. Gezaehlt'
  <2>1. \A n \in Nummern : mails'[n] <= mails[n]
    BY <1>4
  <2> QED
    BY <1>1, <1>4, <2>1, ZahlBleibt
<1>9. ASSUME einzeln PROVE Erinnerung'
  <2>1. /\ Erinnerung /\ \A l \in Laeufe : lauf[l].ort # "senden"
    BY <1>9 DEF TInv, Erinnerung, Sendend
  <2>2. \A b \in Anfragen : Aendert(b)' => b # a /\ Aendert(b) /\ entitaet'[b] = entitaet[b]
    BY DEF Aendert, TNur, Taetig
  <2>3. ErinnerungEinmal'
    BY <1>4, <1>9, <2>1 DEF Erinnerung, ErinnerungEinmal
  <2>4. Sendend'
    BY <1>1, <2>1 DEF Sendend
  <2>5. Unerinnert'
    <3>1. SUFFICES ASSUME NEW x \in termine', ~ x.erinnert PROVE mails'[x.nr] = 0
      BY <1>1, <2>1 DEF Unerinnert, Sendet
    <3>2. CASE x \in termine
      BY <1>2, <1>4, <2>1, <3>1, <3>2 DEF Erinnerung, Unerinnert
    <3>3. CASE x = t
      <4>1. mails[t.nr] = 0 \/ spaeter
        BY <2>1, <3>1, <3>3, <1>2 DEF Erinnerung, Aendernd
      <4> QED
        BY <1>2, <1>4, <3>3, <4>1
    <3> QED
      BY <1>3, <3>1, <3>2, <3>3
  <2>6. Aendernd'
    <3>1. SUFFICES ASSUME NEW b \in Anfragen, Aendert(b), ~ entitaet[b].erinnert, mails'[entitaet[b].nr] # 0
                   PROVE  \A x \in termine' : x.nr = entitaet[b].nr => x.tag < entitaet[b].tag
      BY <2>2 DEF Aendernd
    <3>2. \A x \in termine : x.nr = entitaet[b].nr => x.tag < entitaet[b].tag
      BY <1>2, <1>4, <2>1, <3>1 DEF Erinnerung, Aendernd
    <3>3. ASSUME t.nr = entitaet[b].nr PROVE t.tag < entitaet[b].tag
      <4>1. PICK x \in alt : ~ (t.tag > x.tag)
        BY <1>4, <3>1, <3>3
      <4>2. x.tag < entitaet[b].tag
        BY <3>2, <3>3, <4>1
      <4>3. x.tag \in Nat /\ t.tag \in Nat /\ entitaet[b].tag \in Nat
        BY <1>2
      <4> QED
        BY <4>1, <4>2, <4>3
    <3> QED
      BY <1>3, <3>2, <3>3
  <2> QED
    BY <2>3, <2>4, <2>5, <2>6 DEF Erinnerung
<1> QED
  BY <1>7, <1>8, <1>9

LEMMA TSpeichernGut ==
  ASSUME TInv, NEW a \in Anfragen, Speichern(a)
  PROVE  TInv'
<1> DEFINE t == entitaet[a]
           alt == {x \in termine : x.nr = t.nr}
<1>1. auftrag[a].op \in {"anlegen", "aendern"} /\ ort[a] = "speichern" /\ Taetig(a) /\ Speichert(a)
  BY DEF Speichern, Bei, Taetig, Speichert
<1>2. /\ ort' \in [Anfragen -> Orte] /\ auftrag' \in [Anfragen -> TAuftraege] /\ entitaet' \in [Anfragen -> Termin]
      /\ ort'[a] = "bereit" /\ auftrag'[a] = Ruhe /\ entitaet'[a] = Kein /\ TNur(a) /\ zaehler' = zaehler
  BY TBeendeTyp DEF TInv, Speichern
<1>3. TypeOK /\ ZaehlerTyp /\ TNummeriert /\ Gebucht /\ t \in Termin /\ t.nr \in Nummern /\ einzeln' = einzeln
  BY <1>2 DEF TInv, TypeOK, Termin, TNur
<1>4. /\ termine' = (termine \ alt) \cup {t} /\ UNCHANGED <<buchung, gebucht>>
      /\ mails' = [mails EXCEPT ![t.nr] = IF \A x \in alt : t.tag > x.tag THEN 0 ELSE @]
  BY DEF Speichern
<1>5. TypeOK'
  <2>1. mails' \in [Nummern -> 0 .. MaxLaeufe]
    BY <1>3, <1>4, TKonstanten DEF TypeOK
  <2> QED
    BY <1>2, <1>3, <1>4, <2>1 DEF TypeOK, TNur, TAuftraege
<1>6. ~ Taetig(a)' /\ TBleibt(a) /\ AmPlatz(a)'
  BY <1>2, TKonstanten DEF TBleibt, Taetig, AmPlatz
<1>7. TNummeriert' /\ Gezaehlt' /\ (einzeln => Erinnerung')
  <2>1. CASE auftrag[a].op = "anlegen"
    <3>1. Neuer(a)
      BY <1>1, <2>1 DEF Neuer, Neue
    <3>2. mails[t.nr] = 0 /\ alt = {}
      BY <1>3, <3>1 DEF TNummeriert, Vorhanden
    <3>3. mails' = mails /\ termine' = termine \cup {t}
      BY <1>3, <1>4, <3>2 DEF TypeOK
    <3> QED
      BY <1>2, <1>6, <3>1, <3>3, NeueZeile
  <2>2. CASE auftrag[a].op = "aendern"
    BY <1>1, <1>2, <1>6, <2>2, GeaenderteZeile DEF Aendert
  <2> QED
    BY <1>1, <2>1, <2>2
<1>8. Gebucht'
  <2>1. ~ Haelt(a)'
    BY <1>2 DEF Haelt
  <2> QED
    BY <1>1, <1>2, <1>3, <1>4, <1>6, <2>1, HaltenBleibt
<1>9. einzeln => Abgelehnt' /\ Ueberlappungsfrei'
  BY <1>1, <1>2, <1>4, <1>6, AblehnungBleibt, Eingefuegt DEF TInv
<1>10. (\A c \in Anfragen : AmPlatz(c)') /\ ZaehlerTyp'
  BY <1>2, <1>3, <1>6, PlatzBleibt DEF ZaehlerTyp
<1> QED
  BY <1>3, <1>5, <1>7, <1>8, <1>9, <1>10 DEF TInv

-------------------------------------------------------------------------------
(***************************************************************************)
(* The runs of the job, and what happens to all at once.                   *)
(***************************************************************************)
\* The requests stand still.
Steht == UNCHANGED <<einzeln, blockieren, heute, buchung, anfragen, gebucht>>

\* The rows that are left are the same but for the mark of the reminder.
Gleichartig ==
  \A x \in termine' : \E y \in termine : x.nr = y.nr /\ x.wer = y.wer /\ x.tag = y.tag /\ x.status = y.status

LEMMA AnfragenStehen ==
  ASSUME TInv, Steht, Gleichartig, Eindeutig', Vorhanden' \subseteq Vorhanden, zaehler'.anfragen = zaehler.anfragen
  PROVE  /\ \A a \in Anfragen : AmPlatz(a)'
         /\ TNummeriert' /\ Gebucht'
         /\ einzeln => Abgelehnt' /\ Ueberlappungsfrei'
<1>1. /\ TypeOK /\ TNummeriert /\ Gebucht
      /\ UNCHANGED <<einzeln, blockieren, buchung, ort, auftrag, entitaet, gebucht>>
  BY DEF TInv, Steht, anfragen
<1>2. \A a \in Anfragen : AmPlatz(a)'
  BY <1>1 DEF TInv, AmPlatz, Taetig
<1>3. TNummeriert'
  BY <1>1 DEF TNummeriert, Vergeben, Neuer, Taetig
<1>4. Gebucht'
  BY <1>1 DEF Gebucht, Haelt
<1>5. ASSUME einzeln PROVE Abgelehnt'
  BY <1>1, <1>5 DEF TInv, Abgelehnt, Auf, Taetig
<1>6. ASSUME einzeln PROVE Ueberlappungsfrei'
  <2>1. Ueberlappungsfrei
    BY <1>6 DEF TInv
  <2>2. ASSUME NEW a \in Anfragen, Speichert(a)', blockieren' PROVE Konflikte(entitaet[a])' = {}
    <3>1. Konflikte(entitaet[a]) = {}
      BY <1>1, <2>1, <2>2 DEF Ueberlappungsfrei, Speichert
    <3> QED
      BY <1>1, <3>1 DEF Gleichartig, Konflikte, Gleichzeitig
  <2>3. KeineDoppelbuchung'
    <3>1. KeineDoppelbuchung
      BY <2>1 DEF Ueberlappungsfrei
    <3> QED
      BY <1>1, <3>1 DEF KeineDoppelbuchung, Gleichartig, Gleichzeitig
  <2> QED
    BY <1>1, <2>1, <2>2, <2>3 DEF Ueberlappungsfrei, Speichert
<1> QED
  BY <1>2, <1>3, <1>4, <1>5, <1>6

LEMMA MahnerEndlich ==
  \A n \in Nummern : IsFiniteSet(Mahner(n)) /\ Cardinality(Mahner(n)) \in Nat
<1>1. ASSUME NEW n \in Nummern PROVE IsFiniteSet(Mahner(n))
  <2>1. Mahner(n) \subseteq Laeufe
    BY DEF Mahner
  <2> QED
    BY <2>1, TermineAssumption, FS_Subset
<1> QED
  BY <1>1, FS_CardinalityType

LEMMA EntfernenGut ==
  ASSUME TInv, Entfernen
  PROVE  TInv'
<1>1. /\ TypeOK /\ ZaehlerTyp /\ TNummeriert /\ Gezaehlt
      /\ UNCHANGED <<einzeln, blockieren, heute, buchung, ort, auftrag, entitaet, lauf, gebucht, mails>>
      /\ termine' \subseteq termine /\ zaehler' = [zaehler EXCEPT !.entfernt = @ + 1]
      /\ zaehler.entfernt < MaxEntfernt
  BY DEF Entfernen, TInv, anfragen, geschichte
<1>2. zaehler'.anfragen = zaehler.anfragen /\ zaehler'.laeufe = zaehler.laeufe /\ ZaehlerTyp'
  <2>1. zaehler.entfernt \in 0 .. MaxEntfernt /\ MaxEntfernt \in Nat
    BY <1>1, TKonstanten DEF ZaehlerTyp
  <2>2. zaehler.entfernt + 1 \in 0 .. MaxEntfernt
    BY <1>1, <2>1
  <2> QED
    BY <1>1, <2>2 DEF ZaehlerTyp
<1>3. TypeOK'
  BY <1>1 DEF TypeOK
<1>4. Steht /\ Gleichartig /\ Eindeutig' /\ Vorhanden' \subseteq Vorhanden
  BY <1>1 DEF Steht, anfragen, Gleichartig, Eindeutig, TNummeriert, Vorhanden
<1>5. Gezaehlt'
  BY <1>1, <1>2, ZahlBleibt DEF TypeOK
<1>6. ASSUME einzeln PROVE Erinnerung'
  <2>1. Erinnerung
    BY <1>6 DEF TInv
  <2>2. ErinnerungEinmal' /\ Unerinnert' /\ Sendend'
    BY <1>1, <2>1 DEF Erinnerung, ErinnerungEinmal, Unerinnert, Sendend, Sendet, Aendert, Taetig
  <2>3. Aendernd'
    BY <1>1, <2>1 DEF Erinnerung, Aendernd, Aendert, Taetig
  <2> QED
    BY <2>2, <2>3 DEF Erinnerung
<1> QED
  BY <1>1, <1>2, <1>3, <1>4, <1>5, <1>6, AnfragenStehen DEF TInv

LaufTyp == [ort : {"bereit", "liste", "senden"}, liste : SUBSET Nummern, nr : Nummern]

\* Only run l moves.
NurLauf(l) == lauf' \in [Laeufe -> LaufTyp] /\ \A k \in Laeufe \ {l} : lauf'[k] = lauf[k]

LEMMA LaufBeginntGut ==
  ASSUME TInv, NEW l \in Laeufe, LaufBeginnt(l)
  PROVE  TInv'
<1> DEFINE L == {x.nr : x \in {y \in termine : Faellig(y)}}
<1>1. /\ TypeOK /\ ZaehlerTyp /\ TNummeriert /\ Gezaehlt
      /\ UNCHANGED <<einzeln, blockieren, heute, buchung, termine, ort, auftrag, entitaet, gebucht, mails>>
      /\ zaehler' = [zaehler EXCEPT !.laeufe = @ + 1] /\ zaehler.laeufe < MaxLaeufe
      /\ lauf' = [lauf EXCEPT ![l] = [ort |-> "liste", liste |-> L, nr |-> 0]] /\ lauf[l].ort = "bereit"
  BY DEF LaufBeginnt, TInv, anfragen, geschichte
<1>2. L \subseteq Nummern /\ (\A n \in L : \E x \in termine : x.nr = n) /\ 0 \in Nummern
  BY <1>1, TKonstanten DEF TypeOK, Termin, Nummern
<1>3. NurLauf(l) /\ lauf'[l].ort = "liste" /\ lauf'[l].liste = L /\ lauf'[l].nr = 0
  BY <1>1, <1>2 DEF TypeOK, NurLauf, LaufTyp
<1>4. /\ zaehler.laeufe \in Nat /\ zaehler'.laeufe = zaehler.laeufe + 1 /\ zaehler'.anfragen = zaehler.anfragen
      /\ ZaehlerTyp'
  <2>1. zaehler.laeufe \in 0 .. MaxLaeufe /\ MaxLaeufe \in Nat
    BY <1>1, TKonstanten DEF ZaehlerTyp
  <2>2. zaehler.laeufe + 1 \in 0 .. MaxLaeufe
    BY <1>1, <2>1
  <2> QED
    BY <1>1, <2>1, <2>2 DEF ZaehlerTyp
<1>5. TypeOK'
  BY <1>1, <1>3 DEF TypeOK, NurLauf, LaufTyp
<1>6. Steht /\ Gleichartig /\ Eindeutig' /\ Vorhanden' \subseteq Vorhanden
  BY <1>1, <1>2, <1>3 DEF Steht, anfragen, Gleichartig, Eindeutig, TNummeriert, Vorhanden, NurLauf
<1>7. Gezaehlt'
  <2>1. ASSUME NEW n \in Nummern PROVE mails'[n] + Cardinality(Mahner(n)') <= zaehler'.laeufe
    <3>1. IsFiniteSet(Mahner(n)) /\ Cardinality(Mahner(n)) \in Nat
      BY MahnerEndlich
    <3>2. Mahner(n)' \subseteq Mahner(n) \cup {l}
      BY <1>3 DEF Mahner, NurLauf
    <3>3. /\ IsFiniteSet(Mahner(n) \cup {l}) /\ Cardinality(Mahner(n) \cup {l}) \in Nat
          /\ Cardinality(Mahner(n) \cup {l}) <= Cardinality(Mahner(n)) + 1
      <4>1. /\ IsFiniteSet(Mahner(n) \cup {l})
            /\ Cardinality(Mahner(n) \cup {l})
                 = IF l \in Mahner(n) THEN Cardinality(Mahner(n)) ELSE Cardinality(Mahner(n)) + 1
        BY <3>1, FS_AddElement
      <4> QED
        BY <3>1, <4>1
    <3>4. Cardinality(Mahner(n)') \in Nat /\ Cardinality(Mahner(n)') <= Cardinality(Mahner(n) \cup {l})
      BY <3>2, <3>3, FS_Subset, FS_CardinalityType
    <3>5. mails[n] \in Nat /\ mails[n] + Cardinality(Mahner(n)) <= zaehler.laeufe
      BY <1>1 DEF Gezaehlt, TypeOK
    <3> QED
      BY <1>1, <1>4, <3>1, <3>3, <3>4, <3>5
  <2> QED
    BY <1>1, <1>3, <2>1 DEF Gezaehlt, NurLauf
<1>8. ASSUME einzeln PROVE Erinnerung'
  <2>1. Erinnerung
    BY <1>8 DEF TInv
  <2>2. \A k \in Laeufe, n \in Nummern : Sendet(k, n)' => Sendet(k, n)
    BY <1>3 DEF Sendet, NurLauf
  <2>3. ErinnerungEinmal' /\ Unerinnert'
    BY <1>1, <2>1, <2>2 DEF Erinnerung, ErinnerungEinmal, Unerinnert, TypeOK, Termin
  <2>4. Sendend'
    BY <1>1, <1>3, <2>1 DEF Erinnerung, Sendend, Sendet, Aendert, Taetig, NurLauf
  <2>5. Aendernd'
    BY <1>1, <2>1 DEF Erinnerung, Aendernd, Aendert, Taetig
  <2> QED
    BY <2>3, <2>4, <2>5 DEF Erinnerung
<1> QED
  BY <1>1, <1>4, <1>5, <1>6, <1>7, <1>8, AnfragenStehen DEF TInv

LEMMA LaufNaechsterGut ==
  ASSUME TInv, NEW l \in Laeufe, NEW n \in Nummern, LaufNaechster(l, n)
  PROVE  TInv'
<1> DEFINE x == {y \in termine : y.nr = n /\ ~ y.erinnert}
<1>1. /\ TypeOK /\ ZaehlerTyp /\ TNummeriert /\ Gezaehlt
      /\ UNCHANGED <<einzeln, blockieren, heute, buchung, ort, auftrag, entitaet, gebucht, mails, zaehler>>
      /\ termine' = (termine \ x) \cup {[y EXCEPT !.erinnert = TRUE] : y \in x}
      /\ lauf[l].ort = "liste" /\ n \in lauf[l].liste
  BY DEF LaufNaechster, Beanspruchbar, TInv, anfragen, geschichte
<1>2. /\ NurLauf(l) /\ lauf'[l].liste = lauf[l].liste \ {n}
      /\ x = {} => lauf'[l].ort = "liste" /\ lauf'[l].nr = 0
      /\ x # {} => lauf'[l].ort = "senden" /\ lauf'[l].nr = n
  <2>1. lauf \in [Laeufe -> LaufTyp] /\ 0 \in Nummern
    BY <1>1, TKonstanten DEF TypeOK, LaufTyp, Nummern
  <2>2. lauf' = [lauf EXCEPT ![l].liste = @ \ {n}, ![l].nr = IF x = {} THEN 0 ELSE n,
                             ![l].ort = IF x = {} THEN "liste" ELSE "senden"]
    BY DEF LaufNaechster, Beanspruchbar
  <2> QED
    BY <2>1, <2>2 DEF LaufTyp, NurLauf
<1>3. \A z \in termine' : \E y \in termine :
        /\ z.nr = y.nr /\ z.wer = y.wer /\ z.tag = y.tag /\ z.status = y.status /\ z \in Termin
        /\ ~ z.erinnert => z = y /\ z.nr # n
        /\ z = IF y.nr = n THEN [y EXCEPT !.erinnert = TRUE] ELSE y
  <2>1. \A y \in termine : y \in Termin
    BY <1>1 DEF TypeOK
  <2> QED
    BY <1>1, <2>1 DEF Termin
<1>4. TypeOK'
  BY <1>1, <1>2, <1>3 DEF TypeOK, NurLauf, LaufTyp
<1>5. Eindeutig'
  <2>1. SUFFICES ASSUME NEW z \in termine', NEW v \in termine', z.nr = v.nr PROVE z = v
    BY DEF Eindeutig
  <2>2. PICK y \in termine : z.nr = y.nr /\ z = IF y.nr = n THEN [y EXCEPT !.erinnert = TRUE] ELSE y
    BY <1>3
  <2>3. PICK w \in termine : v.nr = w.nr /\ v = IF w.nr = n THEN [w EXCEPT !.erinnert = TRUE] ELSE w
    BY <1>3
  <2>4. y = w
    BY <1>1, <2>1, <2>2, <2>3 DEF TNummeriert, Eindeutig
  <2> QED
    BY <2>2, <2>3, <2>4
<1>6. Steht /\ Gleichartig /\ Vorhanden' \subseteq Vorhanden
  <2>1. Vorhanden' \subseteq Vorhanden
    BY <1>1, <1>2, <1>3 DEF Vorhanden, NurLauf
  <2> QED
    BY <1>1, <1>3, <2>1 DEF Steht, anfragen, Gleichartig
<1>7. Gezaehlt'
  <2>1. ASSUME NEW m \in Nummern PROVE mails'[m] + Cardinality(Mahner(m)') <= zaehler'.laeufe
    <3>1. IsFiniteSet(Mahner(m)) /\ Cardinality(Mahner(m)) \in Nat
      BY MahnerEndlich
    <3>2. Mahner(m)' \subseteq Mahner(m)
      BY <1>1, <1>2 DEF Mahner, NurLauf
    <3>3. Cardinality(Mahner(m)') \in Nat /\ Cardinality(Mahner(m)') <= Cardinality(Mahner(m))
      BY <3>1, <3>2, FS_Subset, FS_CardinalityType
    <3>4. mails[m] \in Nat /\ zaehler.laeufe \in Nat /\ mails[m] + Cardinality(Mahner(m)) <= zaehler.laeufe
      BY <1>1 DEF Gezaehlt, TypeOK, ZaehlerTyp
    <3> QED
      BY <1>1, <3>1, <3>3, <3>4
  <2> QED
    BY <1>1, <1>2, <2>1 DEF Gezaehlt, NurLauf
<1>8. ASSUME einzeln PROVE Erinnerung'
  <2>1. Erinnerung /\ \A a \in Anfragen : ~ Aendert(a)
    BY <1>8 DEF TInv, LaufNaechster, Laufende, Aendert, Taetig
  <2>2. x # {} => mails[n] = 0 /\ \A k \in Laeufe : ~ Sendet(k, n)
    BY <2>1 DEF Erinnerung, Unerinnert
  <2>3. \A k \in Laeufe, m \in Nummern : Sendet(k, m)' => Sendet(k, m) \/ (k = l /\ m = n /\ x # {})
    BY <1>2 DEF Sendet, NurLauf
  <2>4. ErinnerungEinmal'
    BY <1>1, <2>1 DEF Erinnerung, ErinnerungEinmal
  <2>5. Unerinnert'
    <3>1. SUFFICES ASSUME NEW z \in termine', ~ z.erinnert
                   PROVE  mails[z.nr] = 0 /\ \A k \in Laeufe : ~ Sendet(k, z.nr)'
      BY <1>1 DEF Unerinnert
    <3>2. z \in termine /\ z.nr # n /\ z.nr \in Nummern
      BY <1>3, <3>1 DEF Termin
    <3> QED
      BY <2>1, <2>3, <3>1, <3>2 DEF Erinnerung, Unerinnert
  <2>6. Sendend'
    <3>1. SUFFICES ASSUME NEW k \in Laeufe, NEW m \in Nummern, Sendet(k, m)'
                   PROVE  mails[m] = 0 /\ \A j \in Laeufe : Sendet(j, m)' => j = k
      BY <1>1, <1>2, <2>1 DEF Sendend, Aendert, Taetig, Sendet, NurLauf, LaufTyp
    <3>2. CASE Sendet(k, m)
      BY <2>1, <2>2, <2>3, <3>1, <3>2 DEF Erinnerung, Sendend, Sendet
    <3>3. CASE k = l /\ m = n /\ x # {}
      BY <2>2, <2>3, <3>1, <3>3
    <3> QED
      BY <2>3, <3>1, <3>2, <3>3
  <2>7. Aendernd'
    BY <1>1, <2>1 DEF Aendernd, Aendert, Taetig
  <2> QED
    BY <2>4, <2>5, <2>6, <2>7 DEF Erinnerung
<1>9. ZaehlerTyp'
  BY <1>1 DEF ZaehlerTyp
<1> QED
  BY <1>1, <1>4, <1>5, <1>6, <1>7, <1>8, <1>9, AnfragenStehen DEF TInv

LEMMA LaufSendetGut ==
  ASSUME TInv, NEW l \in Laeufe, LaufSendet(l)
  PROVE  TInv'
<1>1. PICK n \in Nummern : n = lauf[l].nr
  BY DEF TInv, TypeOK
<1>2. /\ TypeOK /\ ZaehlerTyp /\ TNummeriert /\ Gezaehlt /\ lauf[l].ort = "senden" /\ Sendet(l, n)
      /\ UNCHANGED <<einzeln, blockieren, heute, buchung, termine, ort, auftrag, entitaet, gebucht, zaehler>>
  BY <1>1 DEF LaufSendet, TInv, anfragen, Sendet
<1>3. /\ NurLauf(l) /\ lauf'[l].liste = lauf[l].liste /\ lauf'[l].ort = "liste" /\ lauf'[l].nr = 0
      /\ n \in Nummern /\ 0 \in Nummern
  <2>1. lauf \in [Laeufe -> LaufTyp] /\ 0 \in Nummern
    BY <1>2, TKonstanten DEF TypeOK, LaufTyp, Nummern
  <2>2. lauf' = [lauf EXCEPT ![l].nr = 0, ![l].ort = "liste"]
    BY DEF LaufSendet
  <2> QED
    BY <2>1, <2>2 DEF LaufTyp, NurLauf
<1>4. PICK versandt \in 0 .. 1 : mails' = [mails EXCEPT ![n] = @ + versandt]
  BY <1>1 DEF LaufSendet
<1>5. /\ mails \in [Nummern -> Nat] /\ mails' \in [Nummern -> Nat]
      /\ mails'[n] <= mails[n] + 1 /\ \A m \in Nummern \ {n} : mails'[m] = mails[m]
  <2>1. mails \in [Nummern -> Nat] /\ versandt \in Nat /\ versandt <= 1
    BY <1>2, TKonstanten DEF TypeOK
  <2>2. mails[n] + versandt \in Nat /\ mails[n] + versandt <= mails[n] + 1
    BY <1>3, <2>1
  <2> QED
    BY <1>3, <1>4, <2>1, <2>2
<1>6. ASSUME NEW m \in Nummern PROVE mails'[m] + Cardinality(Mahner(m)') <= zaehler.laeufe
  <2>1. IsFiniteSet(Mahner(m)) /\ Cardinality(Mahner(m)) \in Nat
    BY MahnerEndlich
  <2>2. mails[m] \in Nat /\ mails'[m] \in Nat /\ zaehler.laeufe \in Nat
        /\ mails[m] + Cardinality(Mahner(m)) <= zaehler.laeufe
    BY <1>2, <1>5 DEF Gezaehlt, ZaehlerTyp
  <2>3. CASE m = n
    <3>1. Mahner(n)' \subseteq Mahner(n) \ {l} /\ l \in Mahner(n)
      BY <1>1, <1>2, <1>3 DEF Mahner, NurLauf, Gezaehlt
    <3>2. IsFiniteSet(Mahner(n) \ {l}) /\ Cardinality(Mahner(n) \ {l}) = Cardinality(Mahner(n)) - 1
      BY <2>1, <2>3, <3>1, FS_RemoveElement
    <3>3. Cardinality(Mahner(n)') \in Nat /\ Cardinality(Mahner(n)') <= Cardinality(Mahner(n) \ {l})
      BY <3>1, <3>2, FS_Subset, FS_CardinalityType
    <3> QED
      BY <1>5, <2>1, <2>2, <2>3, <3>2, <3>3
  <2>4. CASE m # n
    <3>1. Mahner(m)' \subseteq Mahner(m)
      BY <1>3 DEF Mahner, NurLauf
    <3>2. Cardinality(Mahner(m)') \in Nat /\ Cardinality(Mahner(m)') <= Cardinality(Mahner(m))
      BY <2>1, <3>1, FS_Subset, FS_CardinalityType
    <3> QED
      BY <1>5, <2>1, <2>2, <2>4, <3>2
  <2> QED
    BY <2>3, <2>4
<1>7. Gezaehlt'
  BY <1>2, <1>3, <1>6 DEF Gezaehlt, NurLauf
<1>8. TypeOK'
  <2>1. ASSUME NEW m \in Nummern PROVE mails'[m] \in 0 .. MaxLaeufe
    <3>1. IsFiniteSet(Mahner(m)') /\ Cardinality(Mahner(m)') \in Nat
      <4>1. Mahner(m)' \subseteq Laeufe
        BY DEF Mahner
      <4> QED
        BY <4>1, TermineAssumption, FS_Subset, FS_CardinalityType
    <3>2. zaehler.laeufe \in 0 .. MaxLaeufe /\ mails'[m] \in Nat
      BY <1>2, <1>5 DEF ZaehlerTyp
    <3> QED
      BY <1>6, <3>1, <3>2, TKonstanten
  <2>2. mails' \in [Nummern -> 0 .. MaxLaeufe]
    BY <1>5, <2>1
  <2> QED
    BY <1>2, <1>3, <2>2 DEF TypeOK, NurLauf, LaufTyp
<1>9. Steht /\ Gleichartig /\ Eindeutig' /\ Vorhanden' \subseteq Vorhanden
  <2>1. n \in Vorhanden
    BY <1>1 DEF Vorhanden
  <2>2. Vorhanden' \subseteq Vorhanden
    BY <1>2, <1>3, <1>5, <2>1 DEF Vorhanden, NurLauf
  <2> QED
    BY <1>2, <2>2 DEF Steht, anfragen, Gleichartig, Eindeutig, TNummeriert
<1>10. ASSUME einzeln PROVE Erinnerung'
  <2>1. /\ Erinnerung /\ mails[n] = 0 /\ (\A k \in Laeufe : Sendet(k, n) => k = l)
        /\ \A a \in Anfragen : ~ Aendert(a)
    BY <1>1, <1>2, <1>10 DEF TInv, Erinnerung, Sendend
  <2>2. \A k \in Laeufe, m \in Nummern : Sendet(k, m)' => Sendet(k, m) /\ m # n
    BY <1>3, <2>1 DEF Sendet, NurLauf
  <2>3. ErinnerungEinmal'
    BY <1>2, <1>5, <2>1 DEF Erinnerung, ErinnerungEinmal
  <2>4. Unerinnert'
    <3>1. SUFFICES ASSUME NEW x \in termine, ~ x.erinnert
                   PROVE  mails'[x.nr] = 0 /\ \A k \in Laeufe : ~ Sendet(k, x.nr)'
      BY <1>2 DEF Unerinnert
    <3>2. x.nr \in Nummern /\ x.nr # n
      BY <1>2, <2>1, <3>1 DEF Erinnerung, Unerinnert, TypeOK, Termin
    <3> QED
      BY <1>5, <2>1, <2>2, <3>1, <3>2 DEF Erinnerung, Unerinnert
  <2>5. Sendend'
    <3>1. SUFFICES ASSUME NEW k \in Laeufe, NEW m \in Nummern, Sendet(k, m)'
                   PROVE  mails'[m] = 0 /\ \A j \in Laeufe : Sendet(j, m)' => j = k
      BY <1>2, <1>3, <2>1 DEF Sendend, Aendert, Taetig, Sendet, NurLauf, LaufTyp
    <3> QED
      BY <1>5, <2>1, <2>2, <3>1 DEF Erinnerung, Sendend, Sendet
  <2>6. Aendernd'
    BY <1>2, <2>1 DEF Aendernd, Aendert, Taetig
  <2> QED
    BY <2>3, <2>4, <2>5, <2>6 DEF Erinnerung
<1>11. ZaehlerTyp'
  BY <1>2 DEF ZaehlerTyp
<1> QED
  BY <1>2, <1>7, <1>8, <1>9, <1>10, <1>11, AnfragenStehen DEF TInv

LEMMA LaufEndetGut ==
  ASSUME TInv, NEW l \in Laeufe, LaufEndet(l)
  PROVE  TInv'
<1>1. /\ TypeOK /\ ZaehlerTyp /\ TNummeriert /\ Gezaehlt
      /\ UNCHANGED <<einzeln, blockieren, heute, buchung, termine, ort, auftrag, entitaet, gebucht, mails, zaehler>>
      /\ lauf' = [lauf EXCEPT ![l] = Untaetig]
  BY DEF LaufEndet, TInv, anfragen, geschichte
<1>2. NurLauf(l) /\ lauf'[l].ort = "bereit" /\ lauf'[l].liste = {} /\ lauf'[l].nr = 0
  <2>1. Untaetig \in LaufTyp
    BY TKonstanten DEF Untaetig, LaufTyp, Nummern
  <2> QED
    BY <1>1, <2>1 DEF TypeOK, NurLauf, LaufTyp, Untaetig
<1>3. TypeOK' /\ ZaehlerTyp'
  BY <1>1, <1>2 DEF TypeOK, ZaehlerTyp, NurLauf, LaufTyp
<1>4. Steht /\ Gleichartig /\ Eindeutig' /\ Vorhanden' \subseteq Vorhanden
  BY <1>1, <1>2 DEF Steht, anfragen, Gleichartig, Eindeutig, TNummeriert, Vorhanden, NurLauf
<1>5. Gezaehlt'
  <2>1. ASSUME NEW n \in Nummern PROVE mails'[n] + Cardinality(Mahner(n)') <= zaehler'.laeufe
    <3>1. IsFiniteSet(Mahner(n)) /\ Cardinality(Mahner(n)) \in Nat
      BY MahnerEndlich
    <3>2. Mahner(n)' \subseteq Mahner(n)
      BY <1>2 DEF Mahner, NurLauf
    <3>3. Cardinality(Mahner(n)') \in Nat /\ Cardinality(Mahner(n)') <= Cardinality(Mahner(n))
      BY <3>1, <3>2, FS_Subset, FS_CardinalityType
    <3>4. mails[n] \in Nat /\ zaehler.laeufe \in Nat /\ mails[n] + Cardinality(Mahner(n)) <= zaehler.laeufe
      BY <1>1 DEF Gezaehlt, TypeOK, ZaehlerTyp
    <3> QED
      BY <1>1, <3>1, <3>3, <3>4
  <2> QED
    BY <1>1, <1>2, <2>1 DEF Gezaehlt, NurLauf
<1>6. ASSUME einzeln PROVE Erinnerung'
  <2>1. Erinnerung
    BY <1>6 DEF TInv
  <2>2. \A k \in Laeufe, n \in Nummern : Sendet(k, n)' => Sendet(k, n)
    BY <1>2 DEF Sendet, NurLauf
  <2>3. ErinnerungEinmal' /\ Unerinnert'
    BY <1>1, <2>1, <2>2 DEF Erinnerung, ErinnerungEinmal, Unerinnert, TypeOK, Termin
  <2>4. Sendend'
    BY <1>1, <1>2, <2>1 DEF Erinnerung, Sendend, Sendet, Aendert, Taetig, NurLauf
  <2>5. Aendernd'
    BY <1>1, <2>1 DEF Erinnerung, Aendernd, Aendert, Taetig
  <2> QED
    BY <2>3, <2>4, <2>5 DEF Erinnerung
<1> QED
  BY <1>1, <1>3, <1>4, <1>5, <1>6, AnfragenStehen DEF TInv

LEMMA TRuheGut ==
  ASSUME TInv, UNCHANGED <<einzeln, blockieren, buchung, termine, ort, auftrag, entitaet, lauf, gebucht, mails, zaehler>>,
         heute' \in Tage
  PROVE  TInv'
<1>1. TypeOK' /\ ZaehlerTyp' /\ \A a \in Anfragen : AmPlatz(a)'
  BY DEF TInv, TypeOK, ZaehlerTyp, AmPlatz, Taetig
<1>2. TNummeriert' /\ Gezaehlt' /\ Gebucht'
  BY DEF TInv, TNummeriert, Eindeutig, Vorhanden, Vergeben, Neuer, Taetig, Gezaehlt, Mahner, Gebucht, Haelt
<1>3. ASSUME einzeln PROVE Abgelehnt' /\ Ueberlappungsfrei' /\ Erinnerung'
  <2>1. Abgelehnt /\ Ueberlappungsfrei /\ Erinnerung
    BY <1>3 DEF TInv
  <2>2. Abgelehnt'
    BY <2>1 DEF Abgelehnt, Auf, Taetig
  <2>3. Ueberlappungsfrei'
    BY <2>1 DEF Ueberlappungsfrei, KeineDoppelbuchung, Konflikte, Gleichzeitig, Speichert
  <2>4. Erinnerung'
    BY <2>1 DEF Erinnerung, ErinnerungEinmal, Unerinnert, Sendend, Sendet, Aendernd, Aendert, Taetig
  <2> QED
    BY <2>2, <2>3, <2>4
<1> QED
  BY <1>1, <1>2, <1>3 DEF TInv

LEMMA TagWechseltGut ==
  ASSUME TInv, TagWechselt
  PROVE  TInv'
<1>1. heute' \in Tage
  BY TKonstanten DEF TInv, TypeOK, TagWechselt, Tage
<1> QED
  BY <1>1, TRuheGut DEF TagWechselt, anfragen, geschichte

\* Nobody works, and nothing is on its way.
Leer ==
  /\ TypeOK /\ ZaehlerTyp /\ Eindeutig /\ Vorhanden \subseteq Vergeben /\ zaehler.anfragen \in Nat
  /\ ort = [a \in Anfragen |-> "bereit"] /\ auftrag = [a \in Anfragen |-> Ruhe]
  /\ entitaet = [a \in Anfragen |-> Kein] /\ lauf = [l \in Laeufe |-> Untaetig]
  /\ \A n \in Nummern : mails[n] <= zaehler.laeufe
  /\ \A b \in Buchungen : (gebucht[b] # {} => buchung[b] # "neu") /\ \A m, n \in gebucht[b] : m = n
  /\ einzeln => /\ \A b \in Buchungen : buchung[b] = "angenommen" <=> gebucht[b] # {}
                /\ KeineDoppelbuchung /\ ErinnerungEinmal
                /\ \A x \in termine : ~ x.erinnert => mails[x.nr] = 0

LEMMA LeerGut == Leer => TInv
<1> SUFFICES ASSUME Leer PROVE TInv
  OBVIOUS
<1> USE DEF Leer
<1>1. \A a \in Anfragen : ort[a] = "bereit" /\ auftrag[a].op = "ruhe" /\ entitaet[a] = Kein /\ entitaet[a].nr = 0
  BY TKonstanten
<1>2. \A l \in Laeufe : lauf[l].ort = "bereit" /\ lauf[l].liste = {}
  BY DEF Untaetig
<1>3. \A a \in Anfragen : /\ ~ Taetig(a) /\ AmPlatz(a) /\ ~ Neuer(a) /\ ~ Haelt(a) /\ ~ Speichert(a) /\ ~ Aendert(a)
                          /\ \A op, b : ~ Auf(a, op, b)
  BY <1>1 DEF Taetig, AmPlatz, Neuer, Haelt, Speichert, Aendert, Auf
<1>4. TNummeriert
  BY <1>1, <1>3 DEF TNummeriert, Vergeben
<1>5. Gezaehlt
  <2>1. \A n \in Nummern : Mahner(n) = {}
    BY <1>2 DEF Mahner
  <2>2. \A n \in Nummern : mails[n] + Cardinality(Mahner(n)) <= zaehler.laeufe
    <3>1. Cardinality({}) = 0
      BY FS_EmptySet
    <3>2. \A n \in Nummern : mails[n] \in Nat
      BY TKonstanten DEF TypeOK
    <3>3. \A n \in Nummern : mails[n] + 0 <= zaehler.laeufe
      BY <3>2
    <3> QED
      BY <2>1, <3>1, <3>3
  <2> QED
    BY <1>2, <2>2 DEF Gezaehlt
<1>6. Gebucht
  BY <1>3 DEF Gebucht
<1>7. einzeln => Abgelehnt
  BY <1>3 DEF Abgelehnt
<1>8. einzeln => Ueberlappungsfrei
  BY <1>3 DEF Ueberlappungsfrei
<1>9. einzeln => Erinnerung
  BY <1>2, <1>3 DEF Erinnerung, Unerinnert, Sendend, Sendet, Aendernd
<1> QED
  BY <1>3, <1>4, <1>5, <1>6, <1>7, <1>8, <1>9 DEF TInv

LEMMA TAbsturzGut ==
  ASSUME TInv, Absturz
  PROVE  TInv'
<1>1. /\ TypeOK /\ ZaehlerTyp /\ TNummeriert /\ Gezaehlt /\ Gebucht
      /\ zaehler' = [zaehler EXCEPT !.abstuerze = @ + 1] /\ zaehler.abstuerze < MaxAbstuerze
      /\ ort' = [a \in Anfragen |-> "bereit"] /\ auftrag' = [a \in Anfragen |-> Ruhe]
      /\ entitaet' = [a \in Anfragen |-> Kein] /\ lauf' = [l \in Laeufe |-> Untaetig]
      /\ UNCHANGED <<einzeln, blockieren, heute, buchung, termine, gebucht, mails>>
  BY DEF TInv, Absturz, geschichte
<1>2. /\ ZaehlerTyp' /\ zaehler'.anfragen = zaehler.anfragen /\ zaehler'.laeufe = zaehler.laeufe
      /\ zaehler.anfragen \in Nat /\ zaehler.laeufe \in Nat
  <2>1. zaehler.abstuerze \in 0 .. MaxAbstuerze /\ MaxAbstuerze \in Nat
    BY <1>1, TKonstanten DEF ZaehlerTyp
  <2>2. zaehler.abstuerze + 1 \in 0 .. MaxAbstuerze
    BY <1>1, <2>1
  <2> QED
    BY <1>1, <2>2, TKonstanten DEF ZaehlerTyp
<1>3. Untaetig \in LaufTyp /\ Ruhe \in TAuftraege /\ Kein \in Termin /\ 0 \in Vorhanden
  BY TKonstanten DEF Untaetig, LaufTyp, Nummern, Vorhanden
<1>4. TypeOK'
  BY <1>1, <1>3 DEF TypeOK, LaufTyp, TAuftraege, Orte
<1>5. Eindeutig' /\ (Vorhanden \subseteq Vergeben)'
  <2>1. Vorhanden' \subseteq Vorhanden
    BY <1>1, <1>3 DEF Vorhanden, Untaetig
  <2> QED
    BY <1>1, <1>2, <2>1 DEF Eindeutig, TNummeriert, Vergeben
<1>6. \A n \in Nummern : mails'[n] <= zaehler'.laeufe
  <2>1. ASSUME NEW n \in Nummern PROVE mails[n] <= zaehler.laeufe
    <3>1. /\ mails[n] \in Nat /\ Cardinality(Mahner(n)) \in Nat
          /\ mails[n] + Cardinality(Mahner(n)) <= zaehler.laeufe
      BY <1>1, MahnerEndlich, TKonstanten DEF Gezaehlt, TypeOK
    <3> QED
      BY <1>2, <3>1
  <2> QED
    BY <1>1, <1>2, <2>1
<1>7. (\A b \in Buchungen : (gebucht[b] # {} => buchung[b] # "neu") /\ \A m, n \in gebucht[b] : m = n)'
  BY <1>1 DEF Gebucht
<1>8. (einzeln => /\ \A b \in Buchungen : buchung[b] = "angenommen" <=> gebucht[b] # {}
                  /\ KeineDoppelbuchung /\ ErinnerungEinmal
                  /\ \A x \in termine : ~ x.erinnert => mails[x.nr] = 0)'
  <2>1. SUFFICES ASSUME einzeln
                 PROVE  /\ \A b \in Buchungen : buchung[b] = "angenommen" <=> gebucht[b] # {}
                        /\ KeineDoppelbuchung' /\ ErinnerungEinmal'
                        /\ \A x \in termine : ~ x.erinnert => mails[x.nr] = 0
    BY <1>1
  <2>2. Abgelehnt /\ Ueberlappungsfrei /\ Erinnerung
    BY <2>1 DEF TInv
  <2>3. KeineDoppelbuchung' /\ ErinnerungEinmal'
    BY <1>1, <2>2 DEF Ueberlappungsfrei, Erinnerung, KeineDoppelbuchung, ErinnerungEinmal, Gleichzeitig
  <2> QED
    BY <2>2, <2>3 DEF Abgelehnt, Erinnerung, Unerinnert
<1>9. Leer'
  BY <1>1, <1>2, <1>4, <1>5, <1>6, <1>7, <1>8 DEF Leer
<1> QED
  BY <1>9, LeerGut, PTL

LEMMA TInitGut ==
  ASSUME NEW z, NEW t \in Tage, InitMit(z, t), ZaehlerTyp
  PROVE  TInv
<1>1. /\ heute = t /\ einzeln \in BOOLEAN /\ blockieren \in BOOLEAN
      /\ ort = [a \in Anfragen |-> "bereit"] /\ auftrag = [a \in Anfragen |-> Ruhe]
      /\ entitaet = [a \in Anfragen |-> Kein] /\ lauf = [l \in Laeufe |-> Untaetig]
      /\ buchung = [b \in Buchungen |-> "neu"] /\ gebucht = [b \in Buchungen |-> {}]
      /\ mails = [n \in Nummern |-> 0]
  BY DEF InitMit
<1>2. /\ \A x \in termine : x \in Termin /\ x.nr = 0
      /\ \A x, y \in termine : x = y
  <2>1. termine = {} \/ \E w \in Mitarbeiter, x \in Tage : termine = {NeuerTermin(0, w, x)}
    BY DEF InitMit
  <2>2. \A w \in Mitarbeiter, x \in Tage : NeuerTermin(0, w, x) \in Termin /\ NeuerTermin(0, w, x).nr = 0
    BY TKonstanten DEF NeuerTermin, Termin, Nummern, Wer, TerminStatus
  <2> QED
    BY <2>1, <2>2
<1>3. Untaetig \in LaufTyp /\ Ruhe \in TAuftraege /\ Kein \in Termin /\ 0 \in Nummern /\ Untaetig.nr = 0 /\ Untaetig.liste = {}
  BY TKonstanten DEF Untaetig, LaufTyp, Nummern
<1>4. zaehler.anfragen \in Nat /\ zaehler.laeufe \in Nat
  BY TKonstanten DEF ZaehlerTyp
<1>5. TypeOK
  BY <1>1, <1>2, <1>3, TKonstanten DEF TypeOK, LaufTyp, TAuftraege, Orte
<1>6. Eindeutig /\ Vorhanden \subseteq Vergeben
  BY <1>1, <1>2, <1>3, <1>4 DEF Eindeutig, Vorhanden, Vergeben
<1>7. KeineDoppelbuchung /\ ErinnerungEinmal
  BY <1>1, <1>2 DEF KeineDoppelbuchung, ErinnerungEinmal, Gleichzeitig
<1> QED
  BY <1>1, <1>2, <1>3, <1>4, <1>5, <1>6, <1>7, LeerGut DEF Leer

LEMMA TNextGut ==
  ASSUME TInv, [Next]_vars
  PROVE  TInv'
<1>1. CASE UNCHANGED vars
  BY <1>1, TRuheGut DEF vars, anfragen, geschichte, TInv, TypeOK
<1>2. ASSUME NEW a \in Anfragen, Beginnt(a) PROVE TInv'
  BY <1>2, TBeginntGut
<1>3. ASSUME NEW a \in Anfragen, Bedient(a) PROVE TInv'
  BY <1>3, OhneTabelleGut, AnnahmeCommitGut, AblehnenSpeichernGut, TSpeichernGut DEF Bedient
<1>4. ASSUME NEW l \in Laeufe, Erinnert(l) PROVE TInv'
  BY <1>4, LaufBeginntGut, LaufNaechsterGut, LaufSendetGut, LaufEndetGut DEF Erinnert
<1> QED
  BY <1>1, <1>2, <1>3, <1>4, EntfernenGut, TagWechseltGut, TAbsturzGut DEF Next

-------------------------------------------------------------------------------
(***************************************************************************)
(* The theorems about Termine.                                             *)
(***************************************************************************)

\* The inductive invariant of the calendar (booking-requests.service.ts,
\* appointments.service.ts, termin-erinnerung.service.ts).
THEOREM InvarianteTermine == Spec => []TInv
<1>1. Init => TInv
  <2>1. SUFFICES ASSUME Init PROVE TInv
    OBVIOUS
  <2>2. InitMit(Keine, 0) /\ 0 \in Tage
    BY <2>1, TKonstanten DEF Init, Tage
  <2>3. zaehler = Keine
    BY <2>2 DEF InitMit
  <2>4. ZaehlerTyp
    BY <2>3, TKonstanten DEF Keine, ZaehlerTyp
  <2> QED
    BY <2>2, <2>4, TInitGut
<1>2. TInv /\ [Next]_vars => TInv'
  BY TNextGut
<1> QED
  BY <1>1, <1>2, PTL DEF Spec

\* Booking requests, rows, requests, runs and reminders keep their types, whoever overlaps
\* with whom.
THEOREM TypkorrektTermine == Spec => []TypeOK
<1>1. TInv => TypeOK
  BY DEF TInv
<1> QED
  BY <1>1, InvarianteTermine, PTL

\* One appointment at most comes of a booking request, however many accept it at the same
\* time and however often the transaction is repeated (accept, reject).
THEOREM BuchungFuehrtZuEinem == Spec => []BuchungEinmal
<1>1. TInv => BuchungEinmal
  <2>1. SUFFICES ASSUME TInv, NEW b \in Buchungen
                 PROVE  /\ Cardinality(gebucht[b]) <= 1
                        /\ einzeln => (buchung[b] = "angenommen" <=> gebucht[b] # {})
    BY DEF BuchungEinmal
  <2>2. Cardinality(gebucht[b]) <= 1
    <3>1. \A m, n \in gebucht[b] : m = n
      BY <2>1 DEF TInv, Gebucht
    <3>2. CASE gebucht[b] = {}
      BY <3>2, FS_EmptySet
    <3>3. CASE gebucht[b] # {}
      <4>1. PICK n \in gebucht[b] : gebucht[b] = {n}
        BY <3>1, <3>3
      <4> QED
        BY <4>1, FS_Singleton
    <3> QED
      BY <3>2, <3>3
  <2> QED
    BY <2>1, <2>2 DEF TInv, Abgelehnt
<1> QED
  BY <1>1, InvarianteTermine, PTL

\* No employee has two appointments at a time in a calendar that refuses overlaps
\* (findeTerminKonflikte before every save).
THEOREM KalenderOhneDoppelbuchung == Spec => []KeineDoppelbuchung
<1>1. TInv => KeineDoppelbuchung
  BY DEF TInv, Ueberlappungsfrei, KeineDoppelbuchung
<1> QED
  BY <1>1, InvarianteTermine, PTL

\* However runs of the job overlap, crash and are started again, an appointment is reminded
\* of once, unless it has moved to a later day (processTenant, erinnere,
\* resetErinnerungBeiVerschiebung).
THEOREM NurEineErinnerung == Spec => []ErinnerungEinmal
<1>1. TInv => ErinnerungEinmal
  BY DEF TInv, Erinnerung, ErinnerungEinmal
<1> QED
  BY <1>1, InvarianteTermine, PTL

-------------------------------------------------------------------------------
(***************************************************************************)
(* The composition: a step of the one leaves the other alone.              *)
(***************************************************************************)
LEMMA BetriebInit ==
  ASSUME MCInit
  PROVE  IInv /\ TInv
<1>1. /\ SitzeAssumption /\ MaxSitze \in Nat /\ MaxSitze > 0 /\ MaxAnfragen \in Nat /\ MaxAnfragen > 0
      /\ MaxTarifwechsel \in Nat /\ MaxAbstuerze \in Nat /\ 0 \in Tage /\ MaxTag \in Tage
  BY BetriebAssumption, TKonstanten DEF SitzeAssumption, Tage
<1>2. IInv
  <2>1. SitzeInit \/ SInitMit(SAlle)
    BY DEF MCInit, SitzeRuhen
  <2>2. PICK z : SInitMit(z) /\ z \in {SKeine, [SKeine EXCEPT !.anfragen = 1], SAlle}
    BY <2>1 DEF SitzeInit
  <2>3. sZaehler = z
    BY <2>2 DEF SInitMit
  <2>4. sZaehler \in [anfragen : 0 .. MaxSitze, tarife : 0 .. MaxTarifwechsel, abstuerze : 0 .. MaxAbstuerze]
    BY <1>1, <2>2, <2>3 DEF SKeine, SAlle
  <2> QED
    BY <1>1, <2>2, <2>4, InitGut
<1>3. TInv
  <2>1. InitMit(NurErinnert, 0) \/ InitMit(NieErinnert, MaxTag) \/ InitMit(Alle, MaxTag)
    BY DEF MCInit, TermineInit, TermineRuhen
  <2>2. PICK t \in Tage, z \in {NurErinnert, NieErinnert, Alle} : InitMit(z, t)
    BY <1>1, <2>1
  <2>3. zaehler = z
    BY <2>2 DEF InitMit
  <2>4. NurErinnert \in [anfragen : 0 .. MaxAnfragen, entfernt : 0 .. MaxEntfernt,
                         laeufe : 0 .. MaxLaeufe, abstuerze : 0 .. MaxAbstuerze]
    BY <1>1, TKonstanten DEF NurErinnert, Keine
  <2>5. NieErinnert \in [anfragen : 0 .. MaxAnfragen, entfernt : 0 .. MaxEntfernt,
                         laeufe : 0 .. MaxLaeufe, abstuerze : 0 .. MaxAbstuerze]
    <3>1. PICK n \in 0 .. MaxAnfragen : n = IF einzeln THEN 0 ELSE 1
      BY <1>1
    <3>2. NieErinnert = [Keine EXCEPT !.anfragen = n, !.laeufe = MaxLaeufe, !.abstuerze = MaxAbstuerze]
      BY <3>1, Zenon DEF NieErinnert
    <3>3. NieErinnert = [anfragen |-> n, entfernt |-> 0, laeufe |-> MaxLaeufe, abstuerze |-> MaxAbstuerze]
      BY <3>2 DEF Keine
    <3>4. 0 \in 0 .. MaxEntfernt /\ MaxLaeufe \in 0 .. MaxLaeufe /\ MaxAbstuerze \in 0 .. MaxAbstuerze
      BY TKonstanten
    <3> QED
      BY <3>3, <3>4
  <2>6. ZaehlerTyp
    BY <1>1, <2>2, <2>3, <2>4, <2>5, TKonstanten DEF ZaehlerTyp, Alle
  <2> QED
    BY <2>2, <2>6, TInitGut
<1> QED
  BY <1>2, <1>3

\* The invariants of the two hold side by side in what the run betrieb checks.
THEOREM InvarianteBetrieb == MCSpec => [](IInv /\ TInv)
<1>1. MCInit => IInv /\ TInv
  BY BetriebInit
<1>2. IInv /\ TInv /\ [MCNext]_<<vars, sVars>> => (IInv /\ TInv)'
  <2>1. SUFFICES ASSUME IInv, TInv, [MCNext]_<<vars, sVars>> PROVE IInv' /\ TInv'
    OBVIOUS
  <2>2. [SNext]_sVars /\ [Next]_vars
    BY <2>1 DEF MCNext
  <2> QED
    BY <2>1, <2>2, NextGut, TNextGut, BetriebAssumption
<1> QED
  BY <1>1, <1>2, PTL DEF MCSpec

\* Every variable keeps its type in the composition.
THEOREM TypenBetrieb == MCSpec => []Typen
<1>1. IInv /\ TInv => Typen
  BY DEF IInv, TInv, Typen
<1> QED
  BY <1>1, InvarianteBetrieb, PTL
===============================================================================
