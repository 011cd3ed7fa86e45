------------------------------- MODULE AboProofs -------------------------------
(***************************************************************************)
(* Theorems about Abo for all plans and bounds and for any number of       *)
(* requests: the types, which nothing has to be assumed for, and, under    *)
(* the restriction Einzeln, that the free month is granted once and that   *)
(* row and contracts agree in the end.                                     *)
(***************************************************************************)
EXTENDS Abo, FiniteSetTheorems, TLAPS

-------------------------------------------------------------------------------
(***************************************************************************)
(* The inductive invariant.                                                *)
(***************************************************************************)
Laeuft(a) == aOrt[a] # "bereit"

GratisOrte == {"beanspruchen", "gewaehren"}

CheckoutOrte == {"holen", "umstellen", "kunde", "kundeMerken"}

Orte == {"bereit", "speichern", "anwenden", "nachziehen"} \cup GratisOrte \cup CheckoutOrte

Auftrag == [op : {"ruhe", "hand", "gratis", "ereignis", "sync", "checkout"},
            tarif : Tarife \cup {Ohne}, ereignis : 0 .. MaxEreignisse, stand : Vertrag]

\* A request knows what it is about.
Weiss(a) ==
  /\ aOrt[a] \in CheckoutOrte => aAuftrag[a].tarif \in Tarife
  /\ Laeuft(a) => (aAuftrag[a].op = "gratis" <=> aOrt[a] \in GratisOrte)

\* What the restriction keeps up.
Allein ==
  \A a, b \in Anfragen :
    a # b /\ Laeuft(a) /\ Laeuft(b) => aOrt[a] \in GratisOrte /\ aOrt[b] \in GratisOrte

\* A request that is going to save the row has the mark of the free month as it is stored.
Frisch(a) ==
  Laeuft(a) /\ aOrt[a] \notin GratisOrte => aEntitaet[a].halteangebotGenutzt = abo.halteangebotGenutzt

\* The mark is set before the month is granted, and by one request.
Verbrauch ==
  /\ \A a, b \in Anfragen : aOrt[a] = "gewaehren" /\ aOrt[b] = "gewaehren" => a = b
  /\ \A a \in Anfragen : aOrt[a] = "gewaehren" => eingeloest = 0 /\ abo.halteangebotGenutzt
  /\ eingeloest <= 1
  /\ eingeloest = 1 => abo.halteangebotGenutzt

IInv ==
  /\ ATypeOK
  /\ IsFiniteSet(vertraege)
  /\ \A a \in Anfragen : Weiss(a)
  /\ Einzeln => Allein /\ Verbrauch /\ \A a \in Anfragen : Frisch(a)

-------------------------------------------------------------------------------
(***************************************************************************)
(* Types.                                                                  *)
(***************************************************************************)
ZeileTyp == abo \in Subscription /\ eingeloest \in 0 .. 2 /\ zuletzt \in {"hand", "stripe"}

StripeTyp ==
  /\ vertraege \subseteq Vertrag
  /\ sitzungen \subseteq [kunde : 1 .. MaxKunden, tarif : Tarife]
  /\ ereignisse \subseteq [nr : 1 .. MaxEreignisse, art : {"vertrag", "checkout"}, vertrag : Vertrag]
  /\ zaehler \in [kunden : 0 .. MaxKunden, ereignisse : 0 .. MaxEreignisse]

AnfragenTyp ==
  /\ aOrt \in [Anfragen -> Orte]
  /\ aAuftrag \in [Anfragen -> Auftrag]
  /\ aEntitaet \in [Anfragen -> Subscription]

LEMMA Typen ==
  /\ ATypeOK <=> ZeileTyp /\ StripeTyp /\ AnfragenTyp
  /\ ATypeOK' <=> ZeileTyp' /\ StripeTyp' /\ AnfragenTyp'
<1>1. Orte = {"bereit", "speichern", "beanspruchen", "gewaehren", "anwenden", "nachziehen",
              "holen", "umstellen", "kunde", "kundeMerken"}
  BY DEF Orte, GratisOrte, CheckoutOrte
<1>2. QED
  BY <1>1 DEF ATypeOK, ZeileTyp, StripeTyp, AnfragenTyp, Auftrag

LEMMA Konstanten ==
  ASSUME AboAssumption
  PROVE  Leer \in Subscription /\ KeinVertrag \in Vertrag /\ ARuhe \in Auftrag
<1>1. Leer \in Subscription
  BY DEF AboAssumption, Leer, Subscription, SubscriptionStatus
<1>2. KeinVertrag \in Vertrag
  BY DEF AboAssumption, KeinVertrag, Vertrag, VertragStatus
<1>3. ARuhe \in Auftrag
  BY <1>2 DEF AboAssumption, ARuhe, Auftrag
<1>4. QED
  BY <1>1, <1>2, <1>3

\* What Stripe tells of a contract makes a row of a row, and leaves the free month alone.
LEMMA AngewendetTyp ==
  ASSUME NEW r \in Subscription, NEW v \in Vertrag
  PROVE  Angewendet(r, v) \in Subscription /\ Angewendet(r, v).halteangebotGenutzt = r.halteangebotGenutzt
<1>1. mapStatus(v.status) \in SubscriptionStatus
  BY DEF Vertrag, VertragStatus, mapStatus, SubscriptionStatus
<1>2. QED
  BY <1>1 DEF Angewendet, Subscription, Vertrag

-------------------------------------------------------------------------------
(***************************************************************************)
(* The kinds of steps.                                                     *)
(***************************************************************************)
\* A request goes on to o, with auf to do and e in memory.
Geht(a, o, auf, e) ==
  /\ aOrt' = [aOrt EXCEPT ![a] = o]
  /\ aAuftrag' = [aAuftrag EXCEPT ![a] = auf]
  /\ aEntitaet' = [aEntitaet EXCEPT ![a] = e]

\* Whatever a request does, if the others may rely on what they did before.
LEMMA GehtGut ==
  ASSUME IInv, NEW a \in Anfragen, NEW o \in Orte, NEW auf \in Auftrag, NEW e \in Subscription,
         Geht(a, o, auf, e), ZeileTyp', StripeTyp', IsFiniteSet(vertraege)',
         o \in CheckoutOrte => auf.tarif \in Tarife,
         o # "bereit" => (auf.op = "gratis" <=> o \in GratisOrte),
         Einzeln => Verbrauch',
         Einzeln /\ o # "bereit" =>
           \A b \in Anfragen : b # a /\ Laeuft(b) => aOrt[b] \in GratisOrte /\ o \in GratisOrte,
         Einzeln /\ abo'.halteangebotGenutzt # abo.halteangebotGenutzt =>
           \A b \in Anfragen : b # a /\ Laeuft(b) => aOrt[b] \in GratisOrte,
         Einzeln /\ o \notin {"bereit"} \cup GratisOrte => e.halteangebotGenutzt = abo'.halteangebotGenutzt
  PROVE  IInv'
<1>1. AnfragenTyp
  BY Typen DEF IInv
<1>2. /\ aOrt'[a] = o /\ aAuftrag'[a] = auf /\ aEntitaet'[a] = e
      /\ \A b \in Anfragen \ {a} : aOrt'[b] = aOrt[b] /\ aAuftrag'[b] = aAuftrag[b] /\ aEntitaet'[b] = aEntitaet[b]
  BY <1>1 DEF Geht, AnfragenTyp
<1>3. ATypeOK'
  <2>1. AnfragenTyp'
    BY <1>1 DEF Geht, AnfragenTyp
  <2>2. QED
    BY <2>1, Typen
<1>4. ASSUME NEW b \in Anfragen
      PROVE  Weiss(b)'
  <2>1. CASE b = a
    BY <1>2, <2>1 DEF Weiss, Laeuft
  <2>2. CASE b # a
    BY <1>2, <2>2 DEF IInv, Weiss, Laeuft
  <2>3. QED
    BY <2>1, <2>2
<1>5. ASSUME Einzeln
      PROVE  Allein'
  BY <1>2, <1>5 DEF IInv, Allein, Laeuft
<1>6. ASSUME Einzeln, NEW b \in Anfragen
      PROVE  Frisch(b)'
  <2>1. CASE b = a
    BY <1>2, <1>6, <2>1 DEF Frisch, Laeuft
  <2>2. CASE b # a
    BY <1>2, <1>6, <2>2 DEF IInv, Frisch, Laeuft
  <2>3. QED
    BY <2>1, <2>2
<1>7. QED
  BY <1>3, <1>4, <1>5, <1>6 DEF IInv

\* A step that neither claims nor grants the free month.
LEMMA GewoehnlichGut ==
  ASSUME IInv, NEW a \in Anfragen, NEW o \in Orte, NEW auf \in Auftrag, NEW e \in Subscription,
         Geht(a, o, auf, e), ZeileTyp', StripeTyp', IsFiniteSet(vertraege)',
         o \in CheckoutOrte => auf.tarif \in Tarife,
         o # "bereit" => (auf.op = "gratis" <=> o \in GratisOrte),
         o # "gewaehren",
         eingeloest' = eingeloest,
         Einzeln => abo'.halteangebotGenutzt = abo.halteangebotGenutzt,
         Einzeln /\ o # "bereit" =>
           \A b \in Anfragen : b # a /\ Laeuft(b) => aOrt[b] \in GratisOrte /\ o \in GratisOrte,
         Einzeln /\ o \notin {"bereit"} \cup GratisOrte => e.halteangebotGenutzt = abo.halteangebotGenutzt
  PROVE  IInv'
<1>1. AnfragenTyp
  BY Typen DEF IInv
<1>2. aOrt'[a] = o /\ \A b \in Anfragen \ {a} : aOrt'[b] = aOrt[b]
  BY <1>1 DEF Geht, AnfragenTyp
<1>3. Einzeln => Verbrauch'
  BY <1>2 DEF IInv, Verbrauch
<1>4. QED
  BY <1>3, GehtGut

\* A step of Stripe's.
LEMMA StripeGut ==
  ASSUME IInv, StripeTyp', IsFiniteSet(vertraege)', UNCHANGED <<zeile, anfragen>>
  PROVE  IInv'
<1>1. ATypeOK'
  BY Typen DEF IInv, ZeileTyp, AnfragenTyp, zeile, anfragen
<1>2. \A a \in Anfragen : Weiss(a)'
  BY DEF IInv, Weiss, Laeuft, anfragen
<1>3. Einzeln => Allein' /\ Verbrauch' /\ \A a \in Anfragen : Frisch(a)'
  BY DEF IInv, Allein, Verbrauch, Frisch, Laeuft, anfragen, zeile
<1>4. QED
  BY <1>1, <1>2, <1>3 DEF IInv

-------------------------------------------------------------------------------
(***************************************************************************)
(* A request begins, goes on, ends.                                        *)
(***************************************************************************)
LEMMA BeginneGut ==
  ASSUME IInv, NEW a \in Anfragen, NEW o \in Orte, NEW auf \in Auftrag, NEW e \in Subscription,
         Beginne(a, auf, o, e),
         o \notin {"bereit", "gewaehren"},
         o \in CheckoutOrte => auf.tarif \in Tarife,
         auf.op = "gratis" <=> o \in GratisOrte,
         e.halteangebotGenutzt = abo.halteangebotGenutzt
  PROVE  IInv'
<1>1. /\ Geht(a, o, auf, e) /\ Vertraeglich(auf.op)
      /\ UNCHANGED <<abo, eingeloest, zuletzt, vertraege, sitzungen, ereignisse, zaehler>>
  BY DEF Beginne, Geht, zeile, stripe
<1>2. ZeileTyp' /\ StripeTyp' /\ IsFiniteSet(vertraege)'
  BY <1>1, Typen DEF IInv, ZeileTyp, StripeTyp
<1>3. Einzeln => \A b \in Anfragen : b # a /\ Laeuft(b) => aOrt[b] \in GratisOrte /\ o \in GratisOrte
  BY <1>1 DEF IInv, Vertraeglich, Unterwegs, Weiss, Laeuft
<1>4. QED
  BY <1>1, <1>2, <1>3, GewoehnlichGut

\* A request that is none for the free month goes on or ends, the row and the contracts
\* being written as their types demand.
LEMMA WeiterGut ==
  ASSUME IInv, NEW a \in Anfragen, Laeuft(a), aOrt[a] \notin GratisOrte,
         NEW o \in Orte \ GratisOrte, NEW auf \in Auftrag, NEW e \in Subscription,
         Geht(a, o, auf, e), ZeileTyp', StripeTyp', IsFiniteSet(vertraege)',
         o # "bereit" => auf.op # "gratis",
         o \in CheckoutOrte => auf.tarif \in Tarife,
         eingeloest' = eingeloest,
         Einzeln => abo'.halteangebotGenutzt = abo.halteangebotGenutzt,
         Einzeln /\ o # "bereit" => e.halteangebotGenutzt = abo.halteangebotGenutzt
  PROVE  IInv'
<1>1. Einzeln => \A b \in Anfragen : b # a => ~ Laeuft(b)
  BY DEF IInv, Allein
<1>2. o # "gewaehren"
  BY DEF GratisOrte
<1>3. QED
  BY <1>1, <1>2, GewoehnlichGut

\* A request ends without a trace, at Stripe's at most that of its answer.
LEMMA EndeGut ==
  ASSUME AboAssumption, IInv, NEW a \in Anfragen, Beende(a),
         UNCHANGED <<zeile, vertraege, sitzungen, zaehler>>, ereignisse' \subseteq ereignisse
  PROVE  IInv'
<1>1. Geht(a, "bereit", ARuhe, Leer)
  BY DEF Beende, Geht
<1>2. ZeileTyp' /\ StripeTyp' /\ IsFiniteSet(vertraege)' /\ eingeloest' = eingeloest /\ abo' = abo
  BY Typen DEF IInv, ZeileTyp, StripeTyp, zeile
<1>3. "bereit" \in Orte /\ "bereit" \notin CheckoutOrte
  BY DEF Orte, CheckoutOrte
<1>4. QED
  BY <1>1, <1>2, <1>3, Konstanten, GewoehnlichGut

-------------------------------------------------------------------------------
(***************************************************************************)
(* The operator, the owner and the free month.                             *)
(***************************************************************************)
\* What a request finds.
LEMMA Gelesen ==
  ASSUME AboAssumption, IInv
  PROVE  /\ abo \in Subscription /\ StripeTyp
         /\ \A a \in Anfragen : aOrt[a] \in Orte /\ aAuftrag[a] \in Auftrag /\ aEntitaet[a] \in Subscription
         /\ IsFiniteSet(vertraege)
  BY Typen DEF IInv, ZeileTyp, AnfragenTyp

LEMMA WillGut ==
  ASSUME AboAssumption, IInv, NEW a \in Anfragen, NEW n \in Subscription,
         n.halteangebotGenutzt = abo.halteangebotGenutzt, Will(a, n)
  PROVE  IInv'
<1>1. [ARuhe EXCEPT !.op = "hand"] \in Auftrag /\ [ARuhe EXCEPT !.op = "hand"].op = "hand"
  BY Konstanten DEF Auftrag
<1>2. "speichern" \in Orte /\ "speichern" \notin CheckoutOrte \cup GratisOrte
  BY DEF Orte, CheckoutOrte, GratisOrte
<1>3. QED
  BY <1>1, <1>2, BeginneGut DEF Will

LEMMA VonHandGut ==
  ASSUME AboAssumption, IInv, NEW a \in Anfragen, VonHandGeaendert(a)
  PROVE  IInv'
<1>1. abo \in Subscription /\ VonHand \subseteq SubscriptionStatus
  BY Gelesen DEF AboAssumption, SubscriptionStatus
<1>2. ASSUME NEW t \in Tarife \cup {abo.planId}, NEW s \in VonHand \cup {abo.status}, NEW g \in BOOLEAN
      PROVE  LET n == [abo EXCEPT !.planId = t, !.status = s, !.gekuendigt = g]
             IN  n \in Subscription /\ n.halteangebotGenutzt = abo.halteangebotGenutzt
  <2>1. t \in Tarife \cup {Ohne} /\ s \in SubscriptionStatus
    BY <1>1 DEF Subscription
  <2>2. QED
    BY <1>1, <2>1 DEF Subscription
<1>3. CASE assign(a)
  BY <1>2, <1>3, WillGut DEF assign
<1>4. CASE update(a)
  BY <1>2, <1>4, WillGut DEF update
<1>5. ASSUME NEW s \in {"active", "pilot"}, NEW g \in BOOLEAN
      PROVE  /\ [abo EXCEPT !.status = s, !.gekuendigt = g] \in Subscription
             /\ [abo EXCEPT !.status = s, !.gekuendigt = g].halteangebotGenutzt = abo.halteangebotGenutzt
             /\ [abo EXCEPT !.status = s] \in Subscription
             /\ [abo EXCEPT !.status = s].halteangebotGenutzt = abo.halteangebotGenutzt
             /\ [abo EXCEPT !.gekuendigt = g] \in Subscription
             /\ [abo EXCEPT !.gekuendigt = g].halteangebotGenutzt = abo.halteangebotGenutzt
  BY <1>1 DEF Subscription, SubscriptionStatus
<1>6. CASE extend(a) \/ setPilot(a)
  BY <1>5, <1>6, WillGut DEF extend, setPilot
<1>7. CASE cancelSelf(a) \/ reactivateSelf(a)
  BY <1>5, <1>7, WillGut DEF cancelSelf, reactivateSelf
<1>8. CASE extendTrial(a)
  BY <1>1, <1>8, WillGut DEF extendTrial
<1>9. QED
  BY <1>3, <1>4, <1>6, <1>7, <1>8 DEF VonHandGeaendert

LEMMA AboSpeichernGut ==
  ASSUME AboAssumption, IInv, NEW a \in Anfragen, AboSpeichern(a)
  PROVE  IInv'
<1>1. Geht(a, "bereit", ARuhe, Leer) /\ eingeloest' = eingeloest
  BY DEF AboSpeichern, Beende, Geht
<1>2. ZeileTyp' /\ StripeTyp' /\ IsFiniteSet(vertraege)'
  BY Gelesen, Typen DEF IInv, AboSpeichern, ZeileTyp, StripeTyp, stripe
<1>3. Laeuft(a) /\ aOrt[a] \notin GratisOrte
  BY DEF AboSpeichern, Laeuft, GratisOrte
<1>4. Einzeln => abo'.halteangebotGenutzt = abo.halteangebotGenutzt
  BY <1>3 DEF IInv, Frisch, AboSpeichern
<1>5. "bereit" \in Orte \ GratisOrte /\ "bereit" \notin CheckoutOrte
  BY DEF Orte, GratisOrte, CheckoutOrte
<1>6. QED
  BY <1>1, <1>2, <1>3, <1>4, <1>5, Konstanten, WeiterGut

LEMMA GratisLesenGut ==
  ASSUME AboAssumption, IInv, NEW a \in Anfragen, GratisLesen(a)
  PROVE  IInv'
<1>1. [ARuhe EXCEPT !.op = "gratis"] \in Auftrag /\ [ARuhe EXCEPT !.op = "gratis"].op = "gratis"
  BY Konstanten DEF Auftrag
<1>2. "beanspruchen" \in Orte \cap GratisOrte /\ "beanspruchen" \notin CheckoutOrte
  BY DEF Orte, CheckoutOrte, GratisOrte
<1>3. QED
  BY <1>1, <1>2, Gelesen, BeginneGut DEF GratisLesen

\* The claim: among those that overlap, the first sets the mark and is the one to grant.
LEMMA GratisBeanspruchenGut ==
  ASSUME AboAssumption, IInv, NEW a \in Anfragen, GratisBeanspruchen(a)
  PROVE  IInv'
<1>1. AnfragenTyp /\ aOrt[a] = "beanspruchen" /\ Laeuft(a) /\ aOrt[a] \in GratisOrte
  BY Typen DEF IInv, GratisBeanspruchen, Laeuft, GratisOrte
<1>2. CASE ~ AngebotOffen
  BY <1>2, EndeGut DEF GratisBeanspruchen, stripe
<1>3. CASE AngebotOffen
  <2>1. /\ abo' = [abo EXCEPT !.halteangebotGenutzt = TRUE]
        /\ UNCHANGED <<eingeloest, zuletzt, aAuftrag, vertraege, sitzungen, ereignisse, zaehler>>
        /\ aOrt' = [aOrt EXCEPT ![a] = "gewaehren"]
        /\ aEntitaet' = [aEntitaet EXCEPT ![a] = aEntitaet[a]]
    BY <1>3 DEF GratisBeanspruchen, AWeiter, stripe
  <2>2. Geht(a, "gewaehren", aAuftrag[a], aEntitaet[a])
    BY <1>1, <2>1 DEF Geht, AnfragenTyp
  <2>3. abo \in Subscription /\ ~ abo.halteangebotGenutzt
    BY <1>3, Gelesen DEF AngebotOffen
  <2>4. abo' \in Subscription /\ abo'.halteangebotGenutzt
    BY <2>1, <2>3 DEF Subscription
  <2>5. ZeileTyp' /\ StripeTyp' /\ IsFiniteSet(vertraege)'
    BY <2>1, <2>4, Typen DEF IInv, ZeileTyp, StripeTyp
  <2>6. ASSUME Einzeln
        PROVE  Verbrauch'
    <3>1. eingeloest = 0 /\ \A b \in Anfragen : aOrt[b] # "gewaehren"
      BY <2>3, <2>6, Typen DEF IInv, Verbrauch, ZeileTyp
    <3>2. \A b \in Anfragen \ {a} : aOrt'[b] = aOrt[b]
      BY <1>1, <2>1 DEF AnfragenTyp
    <3>3. QED
      BY <2>1, <2>4, <3>1, <3>2 DEF Verbrauch
  <2>7. Einzeln => \A b \in Anfragen : b # a /\ Laeuft(b) => aOrt[b] \in GratisOrte
    BY <1>1 DEF IInv, Allein
  <2>8. aAuftrag[a].op = "gratis" /\ aAuftrag[a] \in Auftrag /\ aEntitaet[a] \in Subscription
    BY <1>1, Gelesen DEF IInv, Weiss
  <2>9. "gewaehren" \in Orte /\ "gewaehren" \in GratisOrte /\ "gewaehren" \notin CheckoutOrte
    BY DEF Orte, GratisOrte, CheckoutOrte
  <2>10. QED
    BY <2>2, <2>5, <2>6, <2>7, <2>8, <2>9, GehtGut
<1>4. QED
  BY <1>2, <1>3

\* The month: only the one request that has set the mark gets here.
LEMMA GratisGewaehrenGut ==
  ASSUME AboAssumption, IInv, NEW a \in Anfragen, GratisGewaehren(a)
  PROVE  IInv'
<1>1. AnfragenTyp /\ aOrt[a] = "gewaehren" /\ Laeuft(a) /\ aOrt[a] \in GratisOrte
  BY Typen DEF IInv, GratisGewaehren, Laeuft, GratisOrte
<1>2. /\ abo' = [aEntitaet[a] EXCEPT !.status = "active", !.gekuendigt = FALSE, !.halteangebotGenutzt = TRUE]
      /\ eingeloest' = IF eingeloest < 2 THEN eingeloest + 1 ELSE eingeloest
      /\ zuletzt' = "hand"
      /\ UNCHANGED <<vertraege, sitzungen, ereignisse, zaehler>>
      /\ Geht(a, "bereit", ARuhe, Leer)
  BY DEF GratisGewaehren, Beende, Geht, stripe
<1>3. abo' \in Subscription /\ abo'.halteangebotGenutzt
  BY <1>2, Gelesen DEF Subscription, SubscriptionStatus
<1>4. ZeileTyp' /\ StripeTyp' /\ IsFiniteSet(vertraege)'
  BY <1>2, <1>3, Typen DEF IInv, ZeileTyp, StripeTyp
<1>5. ASSUME Einzeln
      PROVE  Verbrauch'
  <2>1. eingeloest = 0 /\ \A b \in Anfragen \ {a} : aOrt[b] # "gewaehren"
    BY <1>1, <1>5 DEF IInv, Verbrauch
  <2>2. aOrt'[a] = "bereit" /\ \A b \in Anfragen \ {a} : aOrt'[b] = aOrt[b]
    BY <1>1, <1>2 DEF Geht, AnfragenTyp
  <2>3. eingeloest' = 1
    BY <1>2, <2>1
  <2>4. QED
    BY <1>3, <2>1, <2>2, <2>3 DEF Verbrauch
<1>6. Einzeln => \A b \in Anfragen : b # a /\ Laeuft(b) => aOrt[b] \in GratisOrte
  BY <1>1 DEF IInv, Allein
<1>7. "bereit" \in Orte /\ "bereit" \notin CheckoutOrte
  BY DEF Orte, CheckoutOrte
<1>8. QED
  BY <1>2, <1>4, <1>5, <1>6, <1>7, Konstanten, GehtGut

-------------------------------------------------------------------------------
(***************************************************************************)
(* What Stripe tells.                                                      *)
(***************************************************************************)
LEMMA AnwendenLesenGut ==
  ASSUME AboAssumption, IInv, NEW a \in Anfragen, AnwendenLesen(a)
  PROVE  IInv'
<1>1. AnfragenTyp /\ Laeuft(a) /\ aOrt[a] \notin GratisOrte
  BY Typen DEF IInv, AnwendenLesen, Laeuft, GratisOrte
<1>2. aAuftrag[a] \in Auftrag /\ aAuftrag[a].stand \in Vertrag /\ abo \in Subscription
  BY Gelesen DEF Auftrag
<1>3. CASE abo.kunde \in {0, aAuftrag[a].stand.kunde}
  <2>1. /\ aOrt' = [aOrt EXCEPT ![a] = "nachziehen"]
        /\ aEntitaet' = [aEntitaet EXCEPT ![a] = Angewendet(abo, aAuftrag[a].stand)]
        /\ UNCHANGED <<aAuftrag, abo, eingeloest, zuletzt, vertraege, sitzungen, ereignisse, zaehler>>
    BY <1>3 DEF AnwendenLesen, AWeiter, zeile, stripe
  <2>2. Geht(a, "nachziehen", aAuftrag[a], Angewendet(abo, aAuftrag[a].stand))
    BY <1>1, <2>1 DEF Geht, AnfragenTyp
  <2>3. ZeileTyp' /\ StripeTyp' /\ IsFiniteSet(vertraege)'
    BY <2>1, Typen DEF IInv, ZeileTyp, StripeTyp
  <2>4. /\ Angewendet(abo, aAuftrag[a].stand) \in Subscription
        /\ Angewendet(abo, aAuftrag[a].stand).halteangebotGenutzt = abo.halteangebotGenutzt
    BY <1>2, AngewendetTyp
  <2>5. "nachziehen" \in Orte \ GratisOrte /\ "nachziehen" \notin CheckoutOrte
    BY DEF Orte, GratisOrte, CheckoutOrte
  <2>6. aAuftrag[a].op # "gratis"
    BY <1>1 DEF IInv, Weiss
  <2>7. QED
    BY <1>1, <1>2, <2>1, <2>2, <2>3, <2>4, <2>5, <2>6, WeiterGut
<1>4. CASE abo.kunde \notin {0, aAuftrag[a].stand.kunde}
  BY <1>4, EndeGut DEF AnwendenLesen, Quittiere
<1>5. QED
  BY <1>3, <1>4

LEMMA AnwendenSpeichernGut ==
  ASSUME AboAssumption, IInv, NEW a \in Anfragen, AnwendenSpeichern(a)
  PROVE  IInv'
<1>1. Geht(a, "bereit", ARuhe, Leer) /\ eingeloest' = eingeloest
  BY DEF AnwendenSpeichern, Beende, Geht
<1>2. ereignisse' \subseteq ereignisse
  BY DEF AnwendenSpeichern, Quittiere
<1>3. ZeileTyp' /\ StripeTyp' /\ IsFiniteSet(vertraege)'
  BY <1>2, Gelesen, Typen DEF IInv, AnwendenSpeichern, ZeileTyp, StripeTyp
<1>4. Laeuft(a) /\ aOrt[a] \notin GratisOrte
  BY DEF AnwendenSpeichern, Laeuft, GratisOrte
<1>5. Einzeln => abo'.halteangebotGenutzt = abo.halteangebotGenutzt
  BY <1>4 DEF IInv, Frisch, AnwendenSpeichern
<1>6. "bereit" \in Orte \ GratisOrte /\ "bereit" \notin CheckoutOrte
  BY DEF Orte, GratisOrte, CheckoutOrte
<1>7. QED
  BY <1>1, <1>3, <1>4, <1>5, <1>6, Konstanten, WeiterGut

LEMMA handleEventGut ==
  ASSUME AboAssumption, IInv, NEW a \in Anfragen, handleEvent(a)
  PROVE  IInv'
<1>1. PICK e \in ereignisse :
        \E v \in IF e.art = "checkout" THEN {w \in vertraege : w.nr = e.vertrag.nr} ELSE {e.vertrag} :
          Beginne(a, [ARuhe EXCEPT !.op = "ereignis", !.ereignis = e.nr, !.stand = v], "anwenden", abo)
  BY DEF handleEvent
<1>2. e \in [nr : 1 .. MaxEreignisse, art : {"vertrag", "checkout"}, vertrag : Vertrag] /\ vertraege \subseteq Vertrag
  BY Gelesen DEF StripeTyp
<1>3. PICK v \in Vertrag : Beginne(a, [ARuhe EXCEPT !.op = "ereignis", !.ereignis = e.nr, !.stand = v], "anwenden", abo)
  BY <1>1, <1>2
<1>4. [ARuhe EXCEPT !.op = "ereignis", !.ereignis = e.nr, !.stand = v] \in Auftrag
  <2>1. e.nr \in 1 .. MaxEreignisse
    BY <1>2
  <2>2. e.nr \in 0 .. MaxEreignisse
    BY <2>1 DEF AboAssumption
  <2>3. QED
    BY <2>2, Konstanten DEF Auftrag
<1>5. [ARuhe EXCEPT !.op = "ereignis", !.ereignis = e.nr, !.stand = v].op = "ereignis"
  BY DEF ARuhe
<1>6. "anwenden" \in Orte \ GratisOrte /\ "anwenden" \notin CheckoutOrte
  BY DEF Orte, GratisOrte, CheckoutOrte
<1>7. "anwenden" \notin {"bereit", "gewaehren"}
  OBVIOUS
<1>8. QED
  BY <1>3, <1>4, <1>5, <1>6, <1>7, Gelesen, BeginneGut

LEMMA syncFromStripeGut ==
  ASSUME AboAssumption, IInv, NEW a \in Anfragen, syncFromStripe(a)
  PROVE  IInv'
<1>1. PICK v \in Bester(abo.kunde) : Beginne(a, [ARuhe EXCEPT !.op = "sync", !.stand = v], "anwenden", abo)
  BY DEF syncFromStripe
<1>2. v \in Vertrag
  BY Gelesen DEF Bester, StripeTyp
<1>3. [ARuhe EXCEPT !.op = "sync", !.stand = v] \in Auftrag /\ [ARuhe EXCEPT !.op = "sync", !.stand = v].op = "sync"
  BY <1>2, Konstanten DEF Auftrag
<1>4. "anwenden" \in Orte \ GratisOrte /\ "anwenden" \notin CheckoutOrte
  BY DEF Orte, GratisOrte, CheckoutOrte
<1>5. "anwenden" \notin {"bereit", "gewaehren"}
  OBVIOUS
<1>6. QED
  BY <1>1, <1>3, <1>4, <1>5, Gelesen, BeginneGut

-------------------------------------------------------------------------------
(***************************************************************************)
(* The checkout.                                                           *)
(***************************************************************************)
LEMMA CheckoutLesenGut ==
  ASSUME AboAssumption, IInv, NEW a \in Anfragen, CheckoutLesen(a)
  PROVE  IInv'
<1>1. PICK t \in Tarife :
        Beginne(a, [ARuhe EXCEPT !.op = "checkout", !.tarif = t], IF abo.vertrag # 0 THEN "holen" ELSE "kunde", abo)
  BY DEF CheckoutLesen
<1>2. LET auf == [ARuhe EXCEPT !.op = "checkout", !.tarif = t]
      IN  auf \in Auftrag /\ auf.op = "checkout" /\ auf.tarif = t
  BY Konstanten DEF Auftrag
<1>3. ASSUME NEW o \in {"holen", "kunde"}
      PROVE  o \in Orte /\ o \notin GratisOrte /\ o \notin {"bereit", "gewaehren"}
  BY DEF Orte, GratisOrte, CheckoutOrte
<1>4. (IF abo.vertrag # 0 THEN "holen" ELSE "kunde") \in {"holen", "kunde"}
  OBVIOUS
<1>5. QED
  BY <1>1, <1>2, <1>3, <1>4, Gelesen, BeginneGut

\* What a request in the checkout goes by.
LEMMA ImCheckout ==
  ASSUME AboAssumption, IInv, NEW a \in Anfragen, aOrt[a] \in CheckoutOrte
  PROVE  /\ Laeuft(a) /\ aOrt[a] \notin GratisOrte
         /\ aAuftrag[a].op # "gratis" /\ aAuftrag[a].tarif \in Tarife
         /\ aAuftrag[a] \in Auftrag /\ aEntitaet[a] \in Subscription
         /\ Einzeln => aEntitaet[a].halteangebotGenutzt = abo.halteangebotGenutzt
<1>1. Laeuft(a) /\ aOrt[a] \notin GratisOrte
  BY DEF Laeuft, CheckoutOrte, GratisOrte
<1>2. QED
  BY <1>1, Gelesen DEF IInv, Weiss, Frisch

LEMMA VertragHolenGut ==
  ASSUME AboAssumption, IInv, NEW a \in Anfragen, VertragHolen(a)
  PROVE  IInv'
<1>1. aOrt[a] \in CheckoutOrte
  BY DEF VertragHolen, CheckoutOrte
<1>2. PICK o \in {"umstellen", "kunde"} : AWeiter(a, o, aEntitaet[a])
  BY DEF VertragHolen
<1>3. UNCHANGED <<aAuftrag, abo, eingeloest, zuletzt, vertraege, sitzungen, ereignisse, zaehler>>
  BY DEF VertragHolen, zeile, stripe
<1>4. Geht(a, o, aAuftrag[a], aEntitaet[a])
  BY <1>2, <1>3, Typen DEF IInv, AnfragenTyp, AWeiter, Geht
<1>5. ZeileTyp' /\ StripeTyp' /\ IsFiniteSet(vertraege)'
  BY <1>3, Typen DEF IInv, ZeileTyp, StripeTyp
<1>6. o \in Orte \ GratisOrte
  BY DEF Orte, GratisOrte, CheckoutOrte
<1>7. QED
  BY <1>1, <1>3, <1>4, <1>5, <1>6, ImCheckout, WeiterGut

\* A change of a contract, and its report.
LEMMA MeldeTyp ==
  ASSUME AboAssumption, IInv, NEW v \in Vertrag, NEW n \in Vertrag, Melde(v, n), UNCHANGED sitzungen
  PROVE  StripeTyp' /\ IsFiniteSet(vertraege)'
<1>1. StripeTyp /\ IsFiniteSet(vertraege)
  BY Gelesen
<1>2. zaehler.ereignisse + 1 \in 1 .. MaxEreignisse /\ zaehler' = [zaehler EXCEPT !.ereignisse = zaehler.ereignisse + 1]
  BY <1>1 DEF Melde, StripeTyp, AboAssumption
<1>3. IsFiniteSet(vertraege)'
  BY <1>1, FS_RemoveElement, FS_AddElement DEF Melde
<1>4. zaehler' \in [kunden : 0 .. MaxKunden, ereignisse : 0 .. MaxEreignisse]
  BY <1>1, <1>2 DEF StripeTyp
<1>5. QED
  BY <1>1, <1>2, <1>3, <1>4 DEF Melde, StripeTyp

LEMMA UmstellenGut ==
  ASSUME AboAssumption, IInv, NEW a \in Anfragen, Umstellen(a)
  PROVE  IInv'
<1>1. aOrt[a] \in CheckoutOrte
  BY DEF Umstellen, CheckoutOrte
<1>2. PICK v \in Lebende :
        /\ Melde(v, [v EXCEPT !.tarif = aAuftrag[a].tarif])
        /\ aAuftrag' = [aAuftrag EXCEPT ![a].stand = [v EXCEPT !.tarif = aAuftrag[a].tarif]]
  BY DEF Umstellen
<1>3. v \in Vertrag /\ [v EXCEPT !.tarif = aAuftrag[a].tarif] \in Vertrag
  BY <1>1, Gelesen, ImCheckout DEF Lebende, StripeTyp, Vertrag
<1>4. StripeTyp' /\ IsFiniteSet(vertraege)'
  BY <1>2, <1>3, MeldeTyp DEF Umstellen
<1>5. DEFINE auf == [aAuftrag[a] EXCEPT !.stand = [v EXCEPT !.tarif = aAuftrag[a].tarif]]
<1>6. auf \in Auftrag /\ auf.op = aAuftrag[a].op
  BY <1>1, <1>3, ImCheckout DEF Auftrag
<1>7. Geht(a, "anwenden", auf, aEntitaet[a]) /\ UNCHANGED zeile
  BY <1>2 DEF Umstellen, AWeiter, Geht
<1>8. ZeileTyp' /\ eingeloest' = eingeloest /\ abo' = abo
  BY <1>7, Typen DEF IInv, ZeileTyp, zeile
<1>9. "anwenden" \in Orte \ GratisOrte /\ "anwenden" \notin CheckoutOrte
  BY DEF Orte, GratisOrte, CheckoutOrte
<1>10. HIDE DEF auf
<1>11. QED
  BY <1>1, <1>4, <1>6, <1>7, <1>8, <1>9, ImCheckout, WeiterGut

LEMMA KundeAnlegenGut ==
  ASSUME AboAssumption, IInv, NEW a \in Anfragen, KundeAnlegen(a)
  PROVE  IInv'
<1>1. aOrt[a] \in CheckoutOrte
  BY DEF KundeAnlegen, CheckoutOrte
<1>2. /\ zaehler.kunden < MaxKunden /\ zaehler' = [zaehler EXCEPT !.kunden = zaehler.kunden + 1]
      /\ AWeiter(a, "kundeMerken", [aEntitaet[a] EXCEPT !.kunde = zaehler.kunden + 1])
      /\ UNCHANGED <<aAuftrag, abo, eingeloest, zuletzt, vertraege, sitzungen, ereignisse>>
  BY DEF KundeAnlegen, zeile
<1>3. zaehler \in [kunden : 0 .. MaxKunden, ereignisse : 0 .. MaxEreignisse] /\ zaehler.kunden + 1 \in 0 .. MaxKunden
  BY <1>2, Gelesen DEF StripeTyp, AboAssumption
<1>4. StripeTyp' /\ IsFiniteSet(vertraege)' /\ ZeileTyp'
  BY <1>2, <1>3, Typen DEF IInv, StripeTyp, ZeileTyp
<1>5. DEFINE e == [aEntitaet[a] EXCEPT !.kunde = zaehler.kunden + 1]
<1>6. e \in Subscription /\ e.halteangebotGenutzt = aEntitaet[a].halteangebotGenutzt
  BY <1>1, <1>3, ImCheckout DEF Subscription
<1>7. Geht(a, "kundeMerken", aAuftrag[a], e)
  BY <1>2, Typen DEF IInv, AnfragenTyp, AWeiter, Geht
<1>8. "kundeMerken" \in Orte \ GratisOrte
  BY DEF Orte, GratisOrte, CheckoutOrte
<1>9. HIDE DEF e
<1>10. QED
  BY <1>1, <1>2, <1>4, <1>6, <1>7, <1>8, ImCheckout, WeiterGut

LEMMA KundeMerkenGut ==
  ASSUME AboAssumption, IInv, NEW a \in Anfragen, KundeMerken(a)
  PROVE  IInv'
<1>1. aOrt[a] \in CheckoutOrte
  BY DEF KundeMerken, CheckoutOrte
<1>2. /\ abo' = aEntitaet[a] /\ AWeiter(a, "kunde", aEntitaet[a])
      /\ UNCHANGED <<aAuftrag, eingeloest, zuletzt, vertraege, sitzungen, ereignisse, zaehler>>
  BY DEF KundeMerken, stripe
<1>3. StripeTyp' /\ IsFiniteSet(vertraege)' /\ ZeileTyp'
  BY <1>1, <1>2, ImCheckout, Typen DEF IInv, StripeTyp, ZeileTyp
<1>4. Geht(a, "kunde", aAuftrag[a], aEntitaet[a])
  BY <1>2, Typen DEF IInv, AnfragenTyp, AWeiter, Geht
<1>5. "kunde" \in Orte \ GratisOrte
  BY DEF Orte, GratisOrte, CheckoutOrte
<1>6. QED
  BY <1>1, <1>2, <1>3, <1>4, <1>5, ImCheckout, WeiterGut

LEMMA SitzungEroeffnenGut ==
  ASSUME AboAssumption, IInv, NEW a \in Anfragen, SitzungEroeffnen(a)
  PROVE  IInv'
<1>1. aOrt[a] \in CheckoutOrte
  BY DEF SitzungEroeffnen, CheckoutOrte
<1>2. /\ aEntitaet[a].kunde # 0
      /\ sitzungen' = sitzungen \cup {[kunde |-> aEntitaet[a].kunde, tarif |-> aAuftrag[a].tarif]}
      /\ UNCHANGED <<abo, eingeloest, zuletzt, vertraege, ereignisse, zaehler>>
      /\ Geht(a, "bereit", ARuhe, Leer)
  BY DEF SitzungEroeffnen, Beende, Geht, zeile
<1>3. aEntitaet[a].kunde \in 1 .. MaxKunden /\ aAuftrag[a].tarif \in Tarife
  BY <1>1, <1>2, ImCheckout DEF Subscription, AboAssumption
<1>4. StripeTyp' /\ IsFiniteSet(vertraege)' /\ ZeileTyp'
  BY <1>2, <1>3, Typen DEF IInv, StripeTyp, ZeileTyp
<1>5. "bereit" \in Orte \ GratisOrte /\ "bereit" \notin CheckoutOrte
  BY DEF Orte, GratisOrte, CheckoutOrte
<1>6. QED
  BY <1>1, <1>2, <1>4, <1>5, ImCheckout, Konstanten, WeiterGut

-------------------------------------------------------------------------------
(***************************************************************************)
(* Stripe.                                                                 *)
(***************************************************************************)
LEMMA BezahlenGut ==
  ASSUME AboAssumption, IInv, Bezahlen
  PROVE  IInv'
<1>1. StripeTyp /\ IsFiniteSet(vertraege) /\ UNCHANGED <<zeile, anfragen>>
  BY Gelesen DEF Bezahlen
<1>2. PICK s \in sitzungen :
        LET n == Cardinality(vertraege) + 1
            v == [nr |-> n, status |-> "active", tarif |-> s.tarif, kunde |-> s.kunde, gekuendigt |-> FALSE]
            e == zaehler.ereignisse
        IN /\ n <= MaxVertraege /\ e + 2 <= MaxEreignisse
           /\ vertraege' = vertraege \cup {v}
           /\ sitzungen' = sitzungen \ {s}
           /\ ereignisse' = ereignisse \cup {[nr |-> e + 1, art |-> "vertrag", vertrag |-> v],
                                             [nr |-> e + 2, art |-> "checkout", vertrag |-> v]}
           /\ zaehler' = [zaehler EXCEPT !.ereignisse = e + 2]
  BY DEF Bezahlen
<1>3. DEFINE n == Cardinality(vertraege) + 1
             v == [nr |-> n, status |-> "active", tarif |-> s.tarif, kunde |-> s.kunde, gekuendigt |-> FALSE]
             e == zaehler.ereignisse
<1>4. n \in 0 .. MaxVertraege
  BY <1>1, <1>2, FS_CardinalityType DEF AboAssumption
<1>5. v \in Vertrag
  BY <1>1, <1>4 DEF StripeTyp, Vertrag, VertragStatus, AboAssumption
<1>6. e \in Nat /\ e + 1 \in 1 .. MaxEreignisse /\ e + 2 \in 1 .. MaxEreignisse
  BY <1>1, <1>2 DEF StripeTyp, AboAssumption
<1>7. zaehler' \in [kunden : 0 .. MaxKunden, ereignisse : 0 .. MaxEreignisse]
  BY <1>1, <1>2, <1>6 DEF StripeTyp
<1>8. IsFiniteSet(vertraege)'
  BY <1>1, <1>2, FS_AddElement
<1>9. HIDE DEF n, v, e
<1>10. /\ vertraege' = vertraege \cup {v} /\ sitzungen' = sitzungen \ {s}
       /\ ereignisse' = ereignisse \cup {[nr |-> e + 1, art |-> "vertrag", vertrag |-> v],
                                         [nr |-> e + 2, art |-> "checkout", vertrag |-> v]}
  BY <1>2 DEF n, v, e
<1>11. StripeTyp'
  BY <1>1, <1>5, <1>6, <1>7, <1>10 DEF StripeTyp
<1>12. QED
  BY <1>1, <1>8, <1>11, StripeGut

LEMMA VerfallenGut ==
  ASSUME AboAssumption, IInv, Verfallen
  PROVE  IInv'
<1>1. StripeTyp' /\ IsFiniteSet(vertraege)' /\ UNCHANGED <<zeile, anfragen>>
  BY Gelesen DEF Verfallen, StripeTyp
<1>2. QED
  BY <1>1, StripeGut

LEMMA VertragAendernGut ==
  ASSUME AboAssumption, IInv, VertragAendern
  PROVE  IInv'
<1>1. PICK v \in Lebende, s \in VertragStatus, g \in BOOLEAN :
        Melde(v, [v EXCEPT !.status = s, !.gekuendigt = g]) /\ UNCHANGED <<zeile, sitzungen, anfragen>>
  BY DEF VertragAendern
<1>2. v \in Vertrag
  BY Gelesen DEF Lebende, StripeTyp
<1>3. [v EXCEPT !.status = s, !.gekuendigt = g] \in Vertrag
  BY <1>2 DEF Vertrag
<1>4. StripeTyp' /\ IsFiniteSet(vertraege)'
  BY <1>1, <1>2, <1>3, MeldeTyp
<1>5. QED
  BY <1>1, <1>4, StripeGut

-------------------------------------------------------------------------------
(***************************************************************************)
(* The theorems.                                                           *)
(***************************************************************************)
LEMMA InitGut ==
  ASSUME AboAssumption, AInit
  PROVE  IInv
<1>1. /\ aOrt = [a \in Anfragen |-> "bereit"] /\ aAuftrag = [a \in Anfragen |-> ARuhe]
      /\ aEntitaet = [a \in Anfragen |-> Leer]
      /\ eingeloest = 0 /\ sitzungen = {} /\ ereignisse = {}
      /\ zaehler = [kunden |-> Cardinality(vertraege), ereignisse |-> 0]
  BY DEF AInit, InitMit
<1>2. AnfragenTyp
  BY <1>1, Konstanten DEF AnfragenTyp, Orte
<1>3. /\ abo \in Subscription /\ zuletzt \in {"hand", "stripe"} /\ vertraege \subseteq Vertrag
      /\ IsFiniteSet(vertraege) /\ Cardinality(vertraege) \in {0, 1}
  <2>1. CASE vertraege = {} /\ abo = Leer /\ zuletzt = "hand"
    BY <2>1, Konstanten, FS_EmptySet
  <2>2. ASSUME NEW v \in [nr : {1}, status : VertragStatus, tarif : Tarife, kunde : {1}, gekuendigt : {FALSE}],
               vertraege = {v}, abo = Angewendet(Leer, v), zuletzt = "stripe"
        PROVE  <1>3
    <3>1. {1} \subseteq 0 .. MaxVertraege /\ {1} \subseteq 0 .. MaxKunden
      BY DEF AboAssumption
    <3>2. v \in Vertrag
      BY <3>1 DEF Vertrag
    <3>3. QED
      BY <2>2, <3>2, Konstanten, AngewendetTyp, FS_Singleton
  <2>3. QED
    BY <2>1, <2>2 DEF AInit, InitMit
<1>4. ZeileTyp /\ StripeTyp
  BY <1>1, <1>3 DEF ZeileTyp, StripeTyp, AboAssumption
<1>5. \A a \in Anfragen : aOrt[a] = "bereit"
  BY <1>1
<1>6. QED
  BY <1>1, <1>2, <1>3, <1>4, <1>5, Typen DEF IInv, Weiss, Allein, Frisch, Verbrauch, Laeuft, CheckoutOrte

LEMMA NextGut ==
  ASSUME AboAssumption, IInv, [ANext]_aVars
  PROVE  IInv'
<1>1. CASE UNCHANGED aVars
  BY <1>1, Gelesen, StripeGut DEF aVars, stripe, StripeTyp
<1>2. ASSUME NEW a \in Anfragen, ASchritt(a)
      PROVE  IInv'
  <2>1. CASE Abbruch(a)
    BY <2>1, EndeGut DEF Abbruch, stripe
  <2>2. CASE \/ VonHandGeaendert(a) \/ AboSpeichern(a)
             \/ GratisLesen(a) \/ GratisBeanspruchen(a) \/ GratisGewaehren(a)
    BY <2>2, VonHandGut, AboSpeichernGut, GratisLesenGut, GratisBeanspruchenGut, GratisGewaehrenGut
  <2>3. CASE handleEvent(a) \/ syncFromStripe(a) \/ AnwendenLesen(a) \/ AnwendenSpeichern(a)
    BY <2>3, handleEventGut, syncFromStripeGut, AnwendenLesenGut, AnwendenSpeichernGut
  <2>4. CASE \/ CheckoutLesen(a) \/ VertragHolen(a) \/ Umstellen(a)
             \/ KundeAnlegen(a) \/ KundeMerken(a) \/ SitzungEroeffnen(a)
    BY <2>4, CheckoutLesenGut, VertragHolenGut, UmstellenGut, KundeAnlegenGut, KundeMerkenGut, SitzungEroeffnenGut
  <2>5. QED
    BY <1>2, <2>1, <2>2, <2>3, <2>4 DEF ASchritt
<1>3. QED
  BY <1>1, <1>2, BezahlenGut, VerfallenGut, VertragAendernGut DEF ANext

\* The invariant holds in every state.
THEOREM InvarianteAbo ==
  ASSUME AboAssumption
  PROVE  ASpec => []IInv
<1>1. AInit => IInv
  BY InitGut
<1>2. IInv /\ [ANext]_aVars => IInv'
  BY NextGut
<1>3. QED
  BY <1>1, <1>2, PTL DEF ASpec

\* The variables keep their types, whoever overlaps with whom.
THEOREM TypkorrektAbo ==
  ASSUME AboAssumption
  PROVE  ASpec => []ATypeOK
<1>1. IInv => ATypeOK
  BY DEF IInv
<1>2. QED
  BY <1>1, InvarianteAbo, PTL

\* However many ask for the free month at the same time, it is granted once, while whoever
\* else saves the row does so alone (redeemRetentionOffer's conditional update).
THEOREM GratismonatBewiesen ==
  ASSUME AboAssumption
  PROVE  ASpec => []GratismonatEinmal
<1>1. IInv => GratismonatEinmal
  BY DEF IInv, Verbrauch, GratismonatEinmal
<1>2. QED
  BY <1>1, InvarianteAbo, PTL
-------------------------------------------------------------------------------
(***************************************************************************)
(* What the row, the contracts and the events on their way have to do with *)
(* each other, under the restriction.                                      *)
(***************************************************************************)
Wendet(a) == aOrt[a] \in {"anwenden", "nachziehen"}

\* Contracts are numbered from 1; at most the newest lives.
Vertragsfolge ==
  /\ \A v \in vertraege : v.nr \in 1 .. Cardinality(vertraege)
  /\ \A v, w \in vertraege : v.nr = w.nr => v = w
  /\ \A v \in Lebende : v.nr = Cardinality(vertraege)

\* Events come in the order of the contracts that they tell of, and the newest tells how its
\* contract is.
Ereignisfolge ==
  /\ \A e, f \in ereignisse : e.nr <= f.nr => e.vertrag.nr <= f.vertrag.nr
  /\ \A e \in ereignisse :
       /\ e.nr <= zaehler.ereignisse /\ e.vertrag.nr <= Cardinality(vertraege)
       /\ e.nr = zaehler.ereignisse => e.vertrag \in vertraege
  /\ ereignisse # {} => \E e \in ereignisse : e.nr = zaehler.ereignisse

\* The tenant is one customer.
EinKunde ==
  /\ \A v \in vertraege : v.kunde = abo.kunde
  /\ \A s \in sitzungen : s.kunde = abo.kunde
  /\ \A e \in ereignisse : e.vertrag.kunde = abo.kunde
  /\ abo.kunde = 0 => vertraege = {} /\ sitzungen = {} /\ ereignisse = {}

\* A session is open only while no contract lives, and no other is.
EineSitzung ==
  sitzungen # {} => Lebende = {} /\ \A s, t \in sitzungen : s = t

\* What a request that applies the state of a contract may rely on: the state is how the
\* contract is, or an event that comes later tells of a change; and its own event is the next
\* to be answered.
Anwendend(a) ==
  LET auf == aAuftrag[a]
  IN  Wendet(a) =>
        /\ auf.stand.kunde = abo.kunde
        /\ auf.stand \in vertraege \/ \E f \in ereignisse : f.nr > auf.ereignis
        /\ auf.ereignis # 0 =>
             \E e \in ereignisse :
               e.nr = auf.ereignis /\ e.vertrag.nr = auf.stand.nr /\ \A f \in ereignisse : e.nr <= f.nr

\* What a request has in memory is the row, or what it makes of it.
Gemerkt(a) ==
  /\ aOrt[a] \in GratisOrte \cup {"speichern"} =>
       aEntitaet[a].kunde = abo.kunde /\ aEntitaet[a].vertrag = abo.vertrag
  /\ aOrt[a] = "nachziehen" => aEntitaet[a] = Angewendet(abo, aAuftrag[a].stand)
  /\ aOrt[a] \in {"holen", "umstellen", "kunde"} => aEntitaet[a] = abo
  /\ aOrt[a] = "kundeMerken" => abo.kunde = 0 /\ aEntitaet[a] = [abo EXCEPT !.kunde = aEntitaet[a].kunde]

\* A checkout opens a session only when no contract lives.
ImVerkauf(a) ==
  /\ aOrt[a] \in CheckoutOrte => sitzungen = {} /\ aAuftrag[a].ereignis = 0
  /\ aOrt[a] = "holen" => \A v \in Lebende : v.nr = abo.vertrag
  /\ aOrt[a] \in {"kunde", "kundeMerken"} => Lebende = {}

\* The contract that lives is the one of the row, or an event will tell of it.
Bekannt ==
  \A v \in Lebende :
    \/ \E e \in ereignisse : e.vertrag.nr = v.nr
    \/ /\ ereignisse = {} /\ abo.vertrag = v.nr
       /\ \A a \in Anfragen : Wendet(a) => aAuftrag[a].stand.nr = v.nr

\* What the row has from Stripe is how the contract is, or an event will tell of a change.
Uebernommen ==
  zuletzt = "stripe" /\ ereignisse = {} => \E v \in vertraege : v.nr = abo.vertrag /\ abo = Angewendet(abo, v)

Verlauf ==
  /\ Vertragsfolge /\ Ereignisfolge /\ EinKunde /\ EineSitzung
  /\ \A a \in Anfragen : Anwendend(a) /\ Gemerkt(a) /\ ImVerkauf(a)
  /\ Bekannt /\ Uebernommen

AInv == IInv /\ (Einzeln => Verlauf)

\* Numbers are numbers.
LEMMA Zahlen ==
  ASSUME AboAssumption, IInv
  PROVE  /\ \A v \in vertraege : v \in Vertrag /\ v.nr \in Nat
         /\ \A e \in ereignisse : e.nr \in Nat \ {0} /\ e.vertrag \in Vertrag /\ e.vertrag.nr \in Nat
         /\ zaehler.ereignisse \in Nat /\ Cardinality(vertraege) \in Nat
         /\ \A a \in Anfragen : aAuftrag[a].ereignis \in Nat /\ aAuftrag[a].stand \in Vertrag
<1>1. StripeTyp /\ IsFiniteSet(vertraege) /\ \A a \in Anfragen : aAuftrag[a] \in Auftrag
  BY Gelesen
<1>2. \A v \in Vertrag : v.nr \in Nat
  BY DEF Vertrag, AboAssumption
<1>3. \A i \in 1 .. MaxEreignisse : i \in Nat \ {0}
  BY DEF AboAssumption
<1>4. \A i \in 0 .. MaxEreignisse : i \in Nat
  BY DEF AboAssumption
<1>5. QED
  BY <1>1, <1>2, <1>3, <1>4, FS_CardinalityType DEF StripeTyp, Auftrag

LEMMA Anwendung ==
  ASSUME NEW r \in Subscription, NEW v \in Vertrag
  PROVE  /\ Angewendet(r, v).kunde = v.kunde /\ Angewendet(r, v).vertrag = v.nr
         /\ Angewendet(Angewendet(r, v), v) = Angewendet(r, v)
BY DEF Angewendet, Subscription

\* Where a moves, the others stay.
LEMMA AndereWarten ==
  ASSUME IInv, NEW a \in Anfragen, NEW o, NEW auf, NEW e, Geht(a, o, auf, e)
  PROVE  /\ aOrt'[a] = o /\ aAuftrag'[a] = auf /\ aEntitaet'[a] = e
         /\ \A b \in Anfragen \ {a} :
              aOrt'[b] = aOrt[b] /\ aAuftrag'[b] = aAuftrag[b] /\ aEntitaet'[b] = aEntitaet[b]
BY Typen DEF IInv, AnfragenTyp, Geht

\* A request moves, and nothing else.
LEMMA StillGut ==
  ASSUME AboAssumption, IInv, Verlauf, NEW a \in Anfragen, NEW o, NEW auf, NEW e, Geht(a, o, auf, e),
         UNCHANGED <<abo, zuletzt, vertraege, sitzungen, ereignisse>>, zaehler'.ereignisse = zaehler.ereignisse,
         Anwendend(a)', Gemerkt(a)', ImVerkauf(a)',
         o \in {"anwenden", "nachziehen"} => ereignisse # {} \/ \A v \in Lebende : auf.stand.nr = v.nr
  PROVE  Verlauf'
<1>1. /\ aOrt'[a] = o /\ aAuftrag'[a] = auf
      /\ \A b \in Anfragen \ {a} :
           aOrt'[b] = aOrt[b] /\ aAuftrag'[b] = aAuftrag[b] /\ aEntitaet'[b] = aEntitaet[b]
  BY AndereWarten
<1>2. Lebende' = Lebende
  BY DEF Lebende
<1>3. Vertragsfolge' /\ Ereignisfolge' /\ EinKunde' /\ EineSitzung' /\ Uebernommen'
  BY <1>2 DEF Verlauf, Vertragsfolge, Ereignisfolge, EinKunde, EineSitzung, Uebernommen
<1>4. ASSUME NEW b \in Anfragen
      PROVE  Anwendend(b)' /\ Gemerkt(b)' /\ ImVerkauf(b)'
  <2>1. CASE b = a
    BY <2>1
  <2>2. CASE b # a
    <3>1. Anwendend(b) /\ Gemerkt(b) /\ ImVerkauf(b)
      BY DEF Verlauf
    <3>2. QED
      BY <1>1, <1>2, <2>2, <3>1 DEF Anwendend, Wendet, Gemerkt, ImVerkauf
  <2>3. QED
    BY <2>1, <2>2
<1>5. Bekannt'
  <2>1. SUFFICES ASSUME NEW v \in Lebende, ~ \E e1 \in ereignisse : e1.vertrag.nr = v.nr
                 PROVE  /\ ereignisse = {} /\ abo.vertrag = v.nr
                        /\ \A b \in Anfragen : Wendet(b)' => aAuftrag'[b].stand.nr = v.nr
    BY <1>2 DEF Bekannt
  <2>2. /\ ereignisse = {} /\ abo.vertrag = v.nr
        /\ \A b \in Anfragen : Wendet(b) => aAuftrag[b].stand.nr = v.nr
    BY <2>1 DEF Verlauf, Bekannt
  <2>3. QED
    BY <1>1, <2>2 DEF Wendet
<1>6. QED
  BY <1>3, <1>4, <1>5 DEF Verlauf

\* The row changes, but not in what it has to do with Stripe; whoever else is under way wants
\* the free month.
LEMMA ZeileGut ==
  ASSUME AboAssumption, IInv, Verlauf, NEW a \in Anfragen, NEW o, NEW auf, NEW e, Geht(a, o, auf, e),
         UNCHANGED stripe, abo'.kunde = abo.kunde, abo'.vertrag = abo.vertrag,
         \A b \in Anfragen : b # a /\ Laeuft(b) => aOrt[b] \in GratisOrte,
         o \in {"bereit"} \cup GratisOrte,
         o # "bereit" => e.kunde = abo.kunde /\ e.vertrag = abo.vertrag,
         Uebernommen'
  PROVE  Verlauf'
<1>1. /\ aOrt'[a] = o /\ aAuftrag'[a] = auf /\ aEntitaet'[a] = e
      /\ \A b \in Anfragen \ {a} :
           aOrt'[b] = aOrt[b] /\ aAuftrag'[b] = aAuftrag[b] /\ aEntitaet'[b] = aEntitaet[b]
  BY AndereWarten
<1>2. UNCHANGED <<vertraege, sitzungen, ereignisse, zaehler>> /\ Lebende' = Lebende
  BY DEF stripe, Lebende
<1>3. Vertragsfolge' /\ Ereignisfolge' /\ EinKunde' /\ EineSitzung'
  BY <1>2 DEF Verlauf, Vertragsfolge, Ereignisfolge, EinKunde, EineSitzung
<1>4. \A b \in Anfragen : aOrt'[b] \in {"bereit", "beanspruchen", "gewaehren"}
  BY <1>1 DEF Laeuft, GratisOrte
<1>5. ASSUME NEW b \in Anfragen
      PROVE  Anwendend(b)' /\ ImVerkauf(b)'
  BY <1>4 DEF Anwendend, Wendet, ImVerkauf, CheckoutOrte
<1>6. ASSUME NEW b \in Anfragen
      PROVE  Gemerkt(b)'
  <2>1. aOrt'[b] \in GratisOrte \cup {"speichern"} => aEntitaet'[b].kunde = abo.kunde /\ aEntitaet'[b].vertrag = abo.vertrag
    BY <1>1, <1>4 DEF Verlauf, Gemerkt, GratisOrte
  <2>2. QED
    BY <1>4, <2>1 DEF Gemerkt
<1>7. Bekannt'
  BY <1>2, <1>4 DEF Verlauf, Bekannt, Wendet
<1>8. QED
  BY <1>3, <1>5, <1>6, <1>7 DEF Verlauf

-------------------------------------------------------------------------------
(***************************************************************************)
(* The operator, the owner and the free month, once more.                  *)
(***************************************************************************)
\* A request that does nothing that bears on Stripe.
LEMMA EndeVerlauf ==
  ASSUME AboAssumption, IInv, Verlauf, NEW a \in Anfragen, Beende(a),
         UNCHANGED <<abo, zuletzt, vertraege, sitzungen, ereignisse, zaehler>>
  PROVE  Verlauf'
<1>1. Geht(a, "bereit", ARuhe, Leer)
  BY DEF Beende, Geht
<1>2. aOrt'[a] = "bereit"
  BY <1>1, AndereWarten
<1>3. Anwendend(a)' /\ Gemerkt(a)' /\ ImVerkauf(a)'
  BY <1>2 DEF Anwendend, Wendet, Gemerkt, ImVerkauf, GratisOrte, CheckoutOrte
<1>4. QED
  BY <1>1, <1>3, StillGut

\* A request that will save the row begins.
LEMMA BeginneVerlauf ==
  ASSUME AboAssumption, IInv, Verlauf, NEW a \in Anfragen, NEW o \in {"speichern", "beanspruchen"}, NEW auf,
         NEW n, Beginne(a, auf, o, n), n.kunde = abo.kunde, n.vertrag = abo.vertrag
  PROVE  Verlauf'
<1>1. Geht(a, o, auf, n) /\ UNCHANGED <<abo, zuletzt, vertraege, sitzungen, ereignisse, zaehler>>
  BY DEF Beginne, Geht, zeile, stripe
<1>2. aOrt'[a] = o /\ aEntitaet'[a] = n
  BY <1>1, AndereWarten
<1>3. Anwendend(a)' /\ Gemerkt(a)' /\ ImVerkauf(a)'
  BY <1>1, <1>2 DEF Anwendend, Wendet, Gemerkt, ImVerkauf, GratisOrte, CheckoutOrte
<1>4. QED
  BY <1>1, <1>3, StillGut

LEMMA VonHandVerlauf ==
  ASSUME AboAssumption, IInv, Verlauf, NEW a \in Anfragen, VonHandGeaendert(a)
  PROVE  Verlauf'
<1>1. PICK n : Will(a, n) /\ n.kunde = abo.kunde /\ n.vertrag = abo.vertrag
  <2>1. abo \in Subscription
    BY Gelesen
  <2>2. ASSUME NEW t, NEW s, NEW g
        PROVE  LET m == [abo EXCEPT !.planId = t, !.status = s, !.gekuendigt = g]
               IN  m.kunde = abo.kunde /\ m.vertrag = abo.vertrag
    BY <2>1 DEF Subscription
  <2>3. ASSUME NEW s, NEW g
        PROVE  /\ [abo EXCEPT !.status = s, !.gekuendigt = g].kunde = abo.kunde
               /\ [abo EXCEPT !.status = s, !.gekuendigt = g].vertrag = abo.vertrag
               /\ [abo EXCEPT !.status = s].kunde = abo.kunde
               /\ [abo EXCEPT !.status = s].vertrag = abo.vertrag
               /\ [abo EXCEPT !.gekuendigt = g].kunde = abo.kunde
               /\ [abo EXCEPT !.gekuendigt = g].vertrag = abo.vertrag
    BY <2>1 DEF Subscription
  <2>4. CASE assign(a) \/ update(a)
    <3>1. PICK t, s, g : Will(a, [abo EXCEPT !.planId = t, !.status = s, !.gekuendigt = g])
      BY <2>4 DEF assign, update
    <3>2. DEFINE m == [abo EXCEPT !.planId = t, !.status = s, !.gekuendigt = g]
    <3>3. Will(a, m) /\ m.kunde = abo.kunde /\ m.vertrag = abo.vertrag
      BY <2>2, <3>1
    <3>4. HIDE DEF m
    <3>5. QED
      BY <3>3
  <2>5. CASE extend(a)
    <3>1. DEFINE m == [abo EXCEPT !.status = "active", !.gekuendigt = FALSE]
    <3>2. Will(a, m) /\ m.kunde = abo.kunde /\ m.vertrag = abo.vertrag
      BY <2>3, <2>5 DEF extend
    <3>3. HIDE DEF m
    <3>4. QED
      BY <3>2
  <2>6. CASE setPilot(a)
    <3>1. DEFINE m == [abo EXCEPT !.status = "pilot"]
    <3>2. Will(a, m) /\ m.kunde = abo.kunde /\ m.vertrag = abo.vertrag
      BY <2>3, <2>6 DEF setPilot
    <3>3. HIDE DEF m
    <3>4. QED
      BY <3>2
  <2>7. CASE cancelSelf(a) \/ reactivateSelf(a)
    BY <2>3, <2>7 DEF cancelSelf, reactivateSelf
  <2>8. CASE extendTrial(a)
    BY <2>8 DEF extendTrial
  <2>9. QED
    BY <2>4, <2>5, <2>6, <2>7, <2>8 DEF VonHandGeaendert
<1>2. QED
  BY <1>1, BeginneVerlauf DEF Will

LEMMA AboSpeichernVerlauf ==
  ASSUME AboAssumption, Einzeln, IInv, Verlauf, NEW a \in Anfragen, AboSpeichern(a)
  PROVE  Verlauf'
<1>1. Geht(a, "bereit", ARuhe, Leer) /\ UNCHANGED stripe /\ abo' = aEntitaet[a] /\ zuletzt' = "hand"
  BY DEF AboSpeichern, Beende, Geht
<1>2. Laeuft(a) /\ aOrt[a] = "speichern" /\ aOrt[a] \notin GratisOrte
  BY DEF AboSpeichern, Laeuft, GratisOrte
<1>3. \A b \in Anfragen : b # a /\ Laeuft(b) => aOrt[b] \in GratisOrte
  BY <1>2 DEF IInv, Allein
<1>4. abo'.kunde = abo.kunde /\ abo'.vertrag = abo.vertrag
  BY <1>1, <1>2 DEF Verlauf, Gemerkt
<1>5. Uebernommen'
  BY <1>1 DEF Uebernommen
<1>6. QED
  BY <1>1, <1>3, <1>4, <1>5, ZeileGut

LEMMA GratisVerlauf ==
  ASSUME AboAssumption, Einzeln, IInv, Verlauf, NEW a \in Anfragen,
         GratisLesen(a) \/ GratisBeanspruchen(a) \/ GratisGewaehren(a)
  PROVE  Verlauf'
<1>1. CASE GratisLesen(a)
  BY <1>1, BeginneVerlauf DEF GratisLesen
<1>2. ASSUME aOrt[a] \in GratisOrte
      PROVE  /\ \A b \in Anfragen : b # a /\ Laeuft(b) => aOrt[b] \in GratisOrte
             /\ aEntitaet[a].kunde = abo.kunde /\ aEntitaet[a].vertrag = abo.vertrag
             /\ aEntitaet[a] \in Subscription /\ abo \in Subscription
  <2>1. Laeuft(a)
    BY <1>2 DEF Laeuft, GratisOrte
  <2>2. Gemerkt(a)
    BY DEF Verlauf
  <2>3. QED
    BY <1>2, <2>1, <2>2, Gelesen DEF IInv, Allein, Gemerkt
<1>3. CASE GratisBeanspruchen(a) /\ ~ AngebotOffen
  BY <1>3, EndeVerlauf DEF GratisBeanspruchen, zeile, stripe
<1>4. CASE GratisBeanspruchen(a) /\ AngebotOffen
  <2>1. /\ aOrt[a] = "beanspruchen" /\ abo' = [abo EXCEPT !.halteangebotGenutzt = TRUE]
        /\ AWeiter(a, "gewaehren", aEntitaet[a]) /\ UNCHANGED <<zuletzt, aAuftrag, stripe>>
    BY <1>4 DEF GratisBeanspruchen
  <2>2. Geht(a, "gewaehren", aAuftrag[a], aEntitaet[a])
    BY <2>1, Typen DEF IInv, AnfragenTyp, AWeiter, Geht
  <2>3. aOrt[a] \in GratisOrte /\ "gewaehren" \in GratisOrte
    BY <2>1 DEF GratisOrte
  <2>4. abo'.kunde = abo.kunde /\ abo'.vertrag = abo.vertrag
    BY <1>2, <2>1, <2>3 DEF Subscription
  <2>5. \A v \in vertraege : abo = Angewendet(abo, v) => abo' = Angewendet(abo', v)
    BY <1>2, <2>1, <2>3 DEF Angewendet, Subscription
  <2>6. Uebernommen'
    BY <2>1, <2>4, <2>5 DEF Verlauf, Uebernommen, stripe
  <2>7. QED
    BY <1>2, <2>1, <2>2, <2>3, <2>4, <2>6, ZeileGut
<1>5. CASE GratisGewaehren(a)
  <2>1. Geht(a, "bereit", ARuhe, Leer) /\ UNCHANGED stripe /\ zuletzt' = "hand"
        /\ abo' = [aEntitaet[a] EXCEPT !.status = "active", !.gekuendigt = FALSE, !.halteangebotGenutzt = TRUE]
    BY <1>5 DEF GratisGewaehren, Beende, Geht
  <2>2. aOrt[a] \in GratisOrte
    BY <1>5 DEF GratisGewaehren, GratisOrte
  <2>3. abo'.kunde = abo.kunde /\ abo'.vertrag = abo.vertrag
    BY <1>2, <2>1, <2>2 DEF Subscription
  <2>4. Uebernommen'
    BY <2>1 DEF Uebernommen
  <2>5. QED
    BY <1>2, <2>1, <2>2, <2>3, <2>4, ZeileGut
<1>6. QED
  BY <1>1, <1>3, <1>4, <1>5

-------------------------------------------------------------------------------
(***************************************************************************)
(* What Stripe tells, once more.                                           *)
(***************************************************************************)
\* A state of a contract, brought by an event or asked for, is about to be applied.
LEMMA AnwendenBeginnt ==
  ASSUME AboAssumption, IInv, Verlauf, NEW a \in Anfragen, NEW auf \in Auftrag, Beginne(a, auf, "anwenden", abo),
         auf.stand.kunde = abo.kunde,
         auf.stand \in vertraege \/ \E f \in ereignisse : f.nr > auf.ereignis,
         auf.ereignis # 0 =>
           \E e \in ereignisse :
             e.nr = auf.ereignis /\ e.vertrag.nr = auf.stand.nr /\ \A f \in ereignisse : e.nr <= f.nr,
         ereignisse # {} \/ \A v \in Lebende : auf.stand.nr = v.nr
  PROVE  Verlauf'
<1>1. Geht(a, "anwenden", auf, abo) /\ UNCHANGED <<abo, zuletzt, vertraege, sitzungen, ereignisse, zaehler>>
  BY DEF Beginne, Geht, zeile, stripe
<1>2. aOrt'[a] = "anwenden" /\ aAuftrag'[a] = auf
  BY <1>1, AndereWarten
<1>3. Anwendend(a)'
  BY <1>1, <1>2 DEF Anwendend
<1>4. Gemerkt(a)' /\ ImVerkauf(a)'
  BY <1>2 DEF Gemerkt, ImVerkauf, GratisOrte, CheckoutOrte
<1>5. QED
  BY <1>1, <1>3, <1>4, StillGut

LEMMA handleEventVerlauf ==
  ASSUME AboAssumption, Einzeln, IInv, Verlauf, NEW a \in Anfragen, handleEvent(a)
  PROVE  Verlauf'
<1>1. PICK e \in ereignisse :
        /\ \A f \in ereignisse : e.nr <= f.nr
        /\ \E v \in IF e.art = "checkout" THEN {w \in vertraege : w.nr = e.vertrag.nr} ELSE {e.vertrag} :
             Beginne(a, [ARuhe EXCEPT !.op = "ereignis", !.ereignis = e.nr, !.stand = v], "anwenden", abo)
  BY DEF handleEvent
<1>2. PICK v \in IF e.art = "checkout" THEN {w \in vertraege : w.nr = e.vertrag.nr} ELSE {e.vertrag} :
        Beginne(a, [ARuhe EXCEPT !.op = "ereignis", !.ereignis = e.nr, !.stand = v], "anwenden", abo)
  BY <1>1
<1>3. v \in Vertrag /\ v.nr = e.vertrag.nr /\ v.kunde = abo.kunde /\ (v \in vertraege \/ v = e.vertrag)
  BY Zahlen DEF Verlauf, EinKunde
<1>4. v \in vertraege \/ \E f \in ereignisse : f.nr > e.nr
  <2>1. CASE e.nr = zaehler.ereignisse
    BY <1>3, <2>1 DEF Verlauf, Ereignisfolge
  <2>2. CASE e.nr # zaehler.ereignisse
    <3>1. PICK f \in ereignisse : f.nr = zaehler.ereignisse
      BY DEF Verlauf, Ereignisfolge
    <3>2. f.nr > e.nr
      BY <2>2, <3>1, Zahlen DEF Verlauf, Ereignisfolge
    <3>3. QED
      BY <3>2
  <2>3. QED
    BY <2>1, <2>2
<1>5. DEFINE auf == [ARuhe EXCEPT !.op = "ereignis", !.ereignis = e.nr, !.stand = v]
<1>6. auf \in Auftrag /\ auf.ereignis = e.nr /\ auf.stand = v
  <2>1. e.nr \in 0 .. MaxEreignisse
    BY Gelesen DEF StripeTyp, AboAssumption
  <2>2. QED
    BY <1>3, <2>1, Konstanten DEF Auftrag
<1>7. Beginne(a, auf, "anwenden", abo)
  BY <1>2
<1>8. HIDE DEF auf
<1>9. QED
  BY <1>1, <1>3, <1>4, <1>6, <1>7, AnwendenBeginnt

\* The best contract is the one that lives, if one does.
LEMMA BesterLebt ==
  ASSUME AboAssumption, IInv, Verlauf, NEW v \in Bester(abo.kunde)
  PROVE  v \in vertraege /\ v.kunde = abo.kunde /\ \A w \in Lebende : v.nr = w.nr
<1>1. v \in vertraege /\ v.kunde = abo.kunde
  BY DEF Bester
<1>2. ASSUME NEW w \in Lebende
      PROVE  v.nr = w.nr
  <2>1. w \in vertraege /\ w.kunde = abo.kunde /\ w.nr = Cardinality(vertraege) /\ v.nr <= Cardinality(vertraege)
    BY <1>1 DEF Lebende, Verlauf, EinKunde, Vertragsfolge
  <2>2. CASE v.status = "active"
    BY <1>1, <2>1, <2>2 DEF Lebende, Verlauf, Vertragsfolge
  <2>3. CASE v.status # "active"
    <3>1. w.nr <= v.nr
      BY <2>1, <2>3 DEF Bester
    <3>2. QED
      BY <1>1, <2>1, <3>1, Zahlen
  <2>4. QED
    BY <2>2, <2>3
<1>3. QED
  BY <1>1, <1>2

LEMMA syncFromStripeVerlauf ==
  ASSUME AboAssumption, IInv, Verlauf, NEW a \in Anfragen, syncFromStripe(a)
  PROVE  Verlauf'
<1>1. PICK v \in Bester(abo.kunde) : Beginne(a, [ARuhe EXCEPT !.op = "sync", !.stand = v], "anwenden", abo)
  BY DEF syncFromStripe
<1>2. v \in vertraege /\ v \in Vertrag /\ v.kunde = abo.kunde /\ \A w \in Lebende : v.nr = w.nr
  BY BesterLebt, Zahlen
<1>3. DEFINE auf == [ARuhe EXCEPT !.op = "sync", !.stand = v]
<1>4. auf \in Auftrag /\ auf.ereignis = 0 /\ auf.stand = v
  BY <1>2, Konstanten DEF Auftrag, ARuhe
<1>5. Beginne(a, auf, "anwenden", abo)
  BY <1>1
<1>6. HIDE DEF auf
<1>7. QED
  BY <1>2, <1>4, <1>5, AnwendenBeginnt

\* applyStripeSubscription reads the row: it is never another customer's.
LEMMA AnwendenLesenVerlauf ==
  ASSUME AboAssumption, IInv, Verlauf, NEW a \in Anfragen, AnwendenLesen(a)
  PROVE  Verlauf'
<1>1. /\ Wendet(a) /\ Anwendend(a) /\ aAuftrag[a].stand.kunde = abo.kunde /\ aAuftrag[a].stand \in Vertrag
  BY Zahlen DEF AnwendenLesen, Wendet, Verlauf, Anwendend
<1>2. /\ AWeiter(a, "nachziehen", Angewendet(abo, aAuftrag[a].stand))
      /\ UNCHANGED <<aAuftrag, abo, zuletzt, vertraege, sitzungen, ereignisse, zaehler>>
  BY <1>1 DEF AnwendenLesen, zeile, stripe
<1>3. Geht(a, "nachziehen", aAuftrag[a], Angewendet(abo, aAuftrag[a].stand))
  BY <1>2, Typen DEF IInv, AnfragenTyp, AWeiter, Geht
<1>4. aOrt'[a] = "nachziehen" /\ aAuftrag'[a] = aAuftrag[a] /\ aEntitaet'[a] = Angewendet(abo, aAuftrag[a].stand)
  BY <1>3, AndereWarten
<1>5. Anwendend(a)' /\ Gemerkt(a)' /\ ImVerkauf(a)'
  BY <1>1, <1>2, <1>4 DEF Anwendend, Wendet, Gemerkt, ImVerkauf, GratisOrte, CheckoutOrte
<1>6. ereignisse # {} \/ \A v \in Lebende : aAuftrag[a].stand.nr = v.nr
  BY <1>1 DEF Verlauf, Bekannt
<1>7. QED
  BY <1>2, <1>3, <1>5, <1>6, StillGut

\* applyStripeSubscription saves the row, and Stripe gets its answer or does not.
LEMMA AnwendenSpeichernVerlauf ==
  ASSUME AboAssumption, Einzeln, IInv, Verlauf, NEW a \in Anfragen, AnwendenSpeichern(a)
  PROVE  Verlauf'
<1> DEFINE v == aAuftrag[a].stand
           nr == aAuftrag[a].ereignis
<1>1. /\ Wendet(a) /\ Laeuft(a) /\ aOrt[a] \notin GratisOrte
      /\ v \in Vertrag /\ v.kunde = abo.kunde /\ abo \in Subscription /\ nr \in Nat
      /\ v \in vertraege \/ \E f \in ereignisse : f.nr > nr
      /\ nr # 0 => \E e \in ereignisse : e.nr = nr /\ e.vertrag.nr = v.nr /\ \A f \in ereignisse : e.nr <= f.nr
      /\ abo' = Angewendet(abo, v)
  BY Zahlen, Gelesen DEF AnwendenSpeichern, Wendet, Laeuft, GratisOrte, Verlauf, Anwendend, Gemerkt
<1>2. /\ UNCHANGED <<vertraege, sitzungen, zaehler>> /\ Lebende' = Lebende
      /\ ereignisse' = ereignisse \/ ereignisse' = {e \in ereignisse : e.nr # nr}
      /\ Geht(a, "bereit", ARuhe, Leer)
  BY DEF AnwendenSpeichern, Quittiere, Lebende, Beende, Geht
<1>3. \A b \in Anfragen : aOrt'[b] = "bereit"
  <2>1. \A b \in Anfragen : b # a => ~ Laeuft(b)
    BY <1>1 DEF IInv, Allein
  <2>2. QED
    BY <1>2, <2>1, AndereWarten DEF Laeuft
<1>4. abo'.kunde = abo.kunde /\ abo'.vertrag = v.nr /\ abo' = Angewendet(abo', v)
  BY <1>1, Anwendung
<1> HIDE DEF v, nr
<1>5. \A e \in ereignisse : e.nr \in Nat \ {0} /\ e.vertrag.nr \in Nat /\ e.nr <= zaehler.ereignisse
  BY Zahlen DEF Verlauf, Ereignisfolge
<1>6. \* The last answer is that to the newest event.
      ASSUME NEW e \in ereignisse, e \notin ereignisse'
      PROVE  e.nr = nr /\ nr # 0 /\ e.vertrag.nr = v.nr
  <2>1. e.nr = nr /\ nr # 0
    BY <1>2, <1>5, <1>6
  <2>2. PICK f \in ereignisse : f.nr = nr /\ f.vertrag.nr = v.nr
    BY <1>1, <2>1
  <2>3. e.vertrag.nr <= f.vertrag.nr /\ f.vertrag.nr <= e.vertrag.nr
    BY <1>5, <2>1, <2>2 DEF Verlauf, Ereignisfolge
  <2>4. QED
    BY <1>5, <2>1, <2>2, <2>3
<1>7. ASSUME NEW e \in ereignisse, e \notin ereignisse', NEW f \in ereignisse'
      PROVE  f \in ereignisse /\ f.nr > e.nr
  <2>1. f \in ereignisse /\ f.nr # nr /\ e.nr = nr /\ nr # 0
    BY <1>2, <1>6, <1>7
  <2>2. nr <= f.nr
    BY <1>1, <2>1
  <2>3. QED
    BY <1>5, <2>1, <2>2
<1>8. ereignisse' \subseteq ereignisse
  BY <1>2
<1>9. Vertragsfolge' /\ EinKunde' /\ EineSitzung'
  BY <1>2, <1>4, <1>8 DEF Verlauf, Vertragsfolge, EinKunde, EineSitzung
<1>10. Ereignisfolge'
  <2>1. ASSUME ereignisse' # {}
        PROVE  \E e \in ereignisse' : e.nr = zaehler.ereignisse
    <3>1. PICK f \in ereignisse' : TRUE
      BY <2>1
    <3>2. PICK e \in ereignisse : e.nr = zaehler.ereignisse
      BY <1>8, <3>1 DEF Verlauf, Ereignisfolge
    <3>3. e \in ereignisse'
      <4>1. SUFFICES ASSUME e \notin ereignisse' PROVE FALSE
        OBVIOUS
      <4>2. f.nr > e.nr /\ f.nr <= zaehler.ereignisse
        BY <1>5, <1>7, <4>1
      <4>3. QED
        BY <1>5, <1>8, <3>2, <4>2
    <3>4. QED
      BY <3>2, <3>3
  <2>2. QED
    BY <1>2, <1>8, <2>1 DEF Verlauf, Ereignisfolge
<1>11. ASSUME NEW b \in Anfragen
       PROVE  Anwendend(b)' /\ Gemerkt(b)' /\ ImVerkauf(b)'
  BY <1>3 DEF Anwendend, Wendet, Gemerkt, ImVerkauf, GratisOrte, CheckoutOrte
<1>12. Bekannt'
  <2>1. SUFFICES ASSUME NEW w \in Lebende, ~ \E e \in ereignisse' : e.vertrag.nr = w.nr
                 PROVE  ereignisse' = {} /\ v.nr = w.nr
    BY <1>2, <1>3, <1>4 DEF Bekannt, Wendet
  <2>2. w \in vertraege /\ w.nr \in Nat /\ w.nr = Cardinality(vertraege)
    BY Zahlen DEF Lebende, Verlauf, Vertragsfolge
  <2>3. CASE \E e \in ereignisse : e.vertrag.nr = w.nr
    <3>1. PICK e \in ereignisse : e.vertrag.nr = w.nr /\ e \notin ereignisse'
      BY <2>1, <2>3
    <3>2. v.nr = w.nr
      BY <1>6, <3>1
    <3>3. ASSUME NEW f \in ereignisse'
          PROVE  FALSE
      <4>1. f \in ereignisse /\ e.nr <= f.nr
        BY <1>5, <1>7, <3>1
      <4>2. w.nr <= f.vertrag.nr /\ f.vertrag.nr <= w.nr
        BY <2>2, <3>1, <4>1 DEF Verlauf, Ereignisfolge
      <4>3. f.vertrag.nr = w.nr
        BY <1>5, <2>2, <4>1, <4>2
      <4>4. QED
        BY <2>1, <4>3
    <3>4. QED
      BY <3>2, <3>3
  <2>4. CASE ~ \E e \in ereignisse : e.vertrag.nr = w.nr
    BY <1>1, <1>8, <2>4 DEF Verlauf, Bekannt, v
  <2>5. QED
    BY <2>3, <2>4
<1>13. Uebernommen'
  <2>1. SUFFICES ASSUME ereignisse' = {}
                 PROVE  \E w \in vertraege : w.nr = abo'.vertrag /\ abo' = Angewendet(abo', w)
    BY <1>2 DEF Uebernommen
  <2>2. v \in vertraege
    <3>1. SUFFICES ASSUME NEW f \in ereignisse, f.nr > nr PROVE FALSE
      BY <1>1
    <3>2. f.nr = nr
      BY <1>6, <2>1
    <3>3. QED
      BY <1>1, <1>5, <3>1, <3>2 DEF nr
  <2>3. QED
    BY <1>4, <2>2
<1>14. QED
  BY <1>9, <1>10, <1>11, <1>12, <1>13 DEF Verlauf

-------------------------------------------------------------------------------
(***************************************************************************)
(* The checkout, once more.                                                *)
(***************************************************************************)
\* createCheckout begins in a quiet moment.
LEMMA CheckoutLesenVerlauf ==
  ASSUME AboAssumption, Einzeln, IInv, Verlauf, NEW a \in Anfragen, CheckoutLesen(a)
  PROVE  Verlauf'
<1>1. sitzungen = {} /\ ereignisse = {}
  BY DEF CheckoutLesen
<1>2. PICK t \in Tarife :
        Beginne(a, [ARuhe EXCEPT !.op = "checkout", !.tarif = t], IF abo.vertrag # 0 THEN "holen" ELSE "kunde", abo)
  BY DEF CheckoutLesen
<1>3. DEFINE auf == [ARuhe EXCEPT !.op = "checkout", !.tarif = t]
             o == IF abo.vertrag # 0 THEN "holen" ELSE "kunde"
<1>4. Geht(a, o, auf, abo) /\ UNCHANGED <<abo, zuletzt, vertraege, sitzungen, ereignisse, zaehler>>
  BY <1>2 DEF Beginne, Geht, zeile, stripe
<1>5. \A v \in Lebende : v.nr = abo.vertrag /\ v.nr # 0
  BY <1>1, Zahlen DEF Verlauf, Bekannt, Vertragsfolge, Lebende
<1>6. o \in {"holen", "kunde"} /\ (o = "kunde" => Lebende = {}) /\ auf.ereignis = 0
  BY <1>5 DEF ARuhe
<1>7. HIDE DEF auf, o
<1>8. aOrt'[a] = o /\ aAuftrag'[a] = auf /\ aEntitaet'[a] = abo
  BY <1>4, AndereWarten
<1>9. Anwendend(a)' /\ Gemerkt(a)'
  BY <1>4, <1>6, <1>8 DEF Anwendend, Wendet, Gemerkt, GratisOrte
<1>10. ImVerkauf(a)'
  <2>1. Lebende' = Lebende
    BY <1>4 DEF Lebende
  <2>2. QED
    BY <1>1, <1>4, <1>5, <1>6, <1>8, <2>1 DEF ImVerkauf
<1>11. QED
  BY <1>4, <1>6, <1>9, <1>10, StillGut

\* switchExistingSubscription finds the contract of the row, or that it is gone.
LEMMA VertragHolenVerlauf ==
  ASSUME AboAssumption, Einzeln, IInv, Verlauf, NEW a \in Anfragen, VertragHolen(a)
  PROVE  Verlauf'
<1>1. aOrt[a] = "holen" /\ aOrt[a] \in CheckoutOrte /\ aEntitaet[a] = abo /\ sitzungen = {} /\ aAuftrag[a].ereignis = 0
      /\ \A v \in Lebende : v.nr = abo.vertrag
  BY DEF VertragHolen, CheckoutOrte, Verlauf, Gemerkt, ImVerkauf
<1>2. PICK o \in {"umstellen", "kunde"} : AWeiter(a, o, abo) /\ (o = "kunde" => Lebende = {})
  BY <1>1 DEF VertragHolen, Aenderbar, Lebende
<1>3. UNCHANGED <<aAuftrag, abo, zuletzt, vertraege, sitzungen, ereignisse, zaehler>> /\ Lebende' = Lebende
  BY DEF VertragHolen, zeile, stripe, Lebende
<1>4. Geht(a, o, aAuftrag[a], abo)
  BY <1>2, <1>3, Typen DEF IInv, AnfragenTyp, AWeiter, Geht
<1>5. aOrt'[a] = o /\ aAuftrag'[a] = aAuftrag[a] /\ aEntitaet'[a] = abo
  BY <1>4, AndereWarten
<1>6. Anwendend(a)' /\ Gemerkt(a)' /\ ImVerkauf(a)'
  BY <1>1, <1>2, <1>3, <1>5 DEF Anwendend, Wendet, Gemerkt, ImVerkauf, GratisOrte
<1>7. QED
  BY <1>3, <1>4, <1>6, StillGut

LEMMA KundeAnlegenVerlauf ==
  ASSUME AboAssumption, IInv, Verlauf, NEW a \in Anfragen, KundeAnlegen(a)
  PROVE  Verlauf'
<1>1. aOrt[a] = "kunde" /\ aOrt[a] \in CheckoutOrte /\ aEntitaet[a] = abo /\ abo.kunde = 0
      /\ sitzungen = {} /\ aAuftrag[a].ereignis = 0 /\ Lebende = {} /\ abo \in Subscription
  BY Gelesen DEF KundeAnlegen, CheckoutOrte, Verlauf, Gemerkt, ImVerkauf
<1>2. PICK k : AWeiter(a, "kundeMerken", [abo EXCEPT !.kunde = k])
  BY <1>1 DEF KundeAnlegen
<1>3. /\ UNCHANGED <<aAuftrag, abo, zuletzt, vertraege, sitzungen, ereignisse>> /\ Lebende' = Lebende
      /\ zaehler'.ereignisse = zaehler.ereignisse
  BY Gelesen DEF KundeAnlegen, zeile, Lebende, StripeTyp
<1>4. Geht(a, "kundeMerken", aAuftrag[a], [abo EXCEPT !.kunde = k])
  BY <1>2, <1>3, Typen DEF IInv, AnfragenTyp, AWeiter, Geht
<1>5. aOrt'[a] = "kundeMerken" /\ aAuftrag'[a] = aAuftrag[a] /\ aEntitaet'[a] = [abo EXCEPT !.kunde = k]
  BY <1>4, AndereWarten
<1>6. aEntitaet'[a] = [abo EXCEPT !.kunde = aEntitaet'[a].kunde]
  BY <1>1, <1>5 DEF Subscription
<1>7. Anwendend(a)' /\ Gemerkt(a)' /\ ImVerkauf(a)'
  BY <1>1, <1>3, <1>5, <1>6 DEF Anwendend, Wendet, Gemerkt, ImVerkauf, GratisOrte
<1>8. QED
  BY <1>3, <1>4, <1>7, StillGut

\* The row gets its customer before there is anything at Stripe.
LEMMA KundeMerkenVerlauf ==
  ASSUME AboAssumption, Einzeln, IInv, Verlauf, NEW a \in Anfragen, KundeMerken(a)
  PROVE  Verlauf'
<1>1. aOrt[a] = "kundeMerken" /\ aOrt[a] \notin GratisOrte /\ Laeuft(a) /\ abo.kunde = 0 /\ aAuftrag[a].ereignis = 0
  BY DEF KundeMerken, GratisOrte, CheckoutOrte, Laeuft, Verlauf, Gemerkt, ImVerkauf
<1>2. vertraege = {} /\ sitzungen = {} /\ ereignisse = {}
  BY <1>1 DEF Verlauf, EinKunde
<1>3. /\ UNCHANGED <<aAuftrag, zuletzt, vertraege, sitzungen, ereignisse, zaehler>>
      /\ abo' = aEntitaet[a] /\ AWeiter(a, "kunde", aEntitaet[a])
  BY DEF KundeMerken, stripe
<1>4. Geht(a, "kunde", aAuftrag[a], aEntitaet[a])
  BY <1>3, Typen DEF IInv, AnfragenTyp, AWeiter, Geht
<1>5. aOrt'[a] = "kunde" /\ aAuftrag'[a] = aAuftrag[a] /\ aEntitaet'[a] = abo' /\ \A b \in Anfragen : b # a => aOrt'[b] = "bereit"
  BY <1>1, <1>3, <1>4, AndereWarten DEF IInv, Allein, Laeuft
<1>6. Lebende' = {} /\ vertraege' = {} /\ sitzungen' = {} /\ ereignisse' = {}
  BY <1>2, <1>3 DEF Lebende
<1>7. Vertragsfolge' /\ Ereignisfolge' /\ EinKunde' /\ EineSitzung' /\ Bekannt'
  BY <1>6 DEF Vertragsfolge, Ereignisfolge, EinKunde, EineSitzung, Bekannt
<1>8. zuletzt # "stripe"
  BY <1>2 DEF Verlauf, Uebernommen
<1>9. Uebernommen'
  BY <1>3, <1>8 DEF Uebernommen
<1>10. ASSUME NEW b \in Anfragen
       PROVE  Anwendend(b)' /\ Gemerkt(b)' /\ ImVerkauf(b)'
  <2>1. /\ aOrt'[b] \in {"kunde", "bereit"}
        /\ aOrt'[b] = "kunde" => aEntitaet'[b] = abo' /\ aAuftrag'[b].ereignis = 0
    BY <1>1, <1>5
  <2>2. QED
    BY <1>6, <2>1 DEF Anwendend, Wendet, Gemerkt, ImVerkauf, GratisOrte, CheckoutOrte
<1>11. QED
  BY <1>7, <1>9, <1>10 DEF Verlauf

\* A session is opened: it is the only one, and no contract lives.
LEMMA SitzungEroeffnenVerlauf ==
  ASSUME AboAssumption, Einzeln, IInv, Verlauf, NEW a \in Anfragen, SitzungEroeffnen(a)
  PROVE  Verlauf'
<1>1. aOrt[a] = "kunde" /\ aOrt[a] \in CheckoutOrte /\ Laeuft(a) /\ aOrt[a] \notin GratisOrte
      /\ aEntitaet[a] = abo /\ abo.kunde # 0 /\ sitzungen = {} /\ Lebende = {}
  BY DEF SitzungEroeffnen, CheckoutOrte, GratisOrte, Laeuft, Verlauf, Gemerkt, ImVerkauf
<1>2. /\ sitzungen' = {[kunde |-> abo.kunde, tarif |-> aAuftrag[a].tarif]}
      /\ UNCHANGED <<abo, zuletzt, vertraege, ereignisse, zaehler>>
      /\ Geht(a, "bereit", ARuhe, Leer) /\ Lebende' = Lebende
  BY <1>1 DEF SitzungEroeffnen, Beende, Geht, zeile, Lebende
<1>3. \A b \in Anfragen : aOrt'[b] = "bereit"
  BY <1>1, <1>2, AndereWarten DEF IInv, Allein, Laeuft
<1>4. Vertragsfolge' /\ Ereignisfolge' /\ EinKunde' /\ EineSitzung' /\ Uebernommen'
  BY <1>1, <1>2 DEF Verlauf, Vertragsfolge, Ereignisfolge, EinKunde, EineSitzung, Uebernommen
<1>5. Bekannt'
  BY <1>1, <1>2 DEF Bekannt
<1>6. ASSUME NEW b \in Anfragen
      PROVE  Anwendend(b)' /\ Gemerkt(b)' /\ ImVerkauf(b)'
  BY <1>3 DEF Anwendend, Wendet, Gemerkt, ImVerkauf, GratisOrte, CheckoutOrte
<1>7. QED
  BY <1>4, <1>5, <1>6 DEF Verlauf

-------------------------------------------------------------------------------
(***************************************************************************)
(* Stripe, once more.                                                      *)
(***************************************************************************)
\* Stripe changes the contract that lives, and reports it.
LEMMA MeldeVerlauf ==
  ASSUME AboAssumption, IInv, Verlauf, NEW v \in Lebende, NEW n \in Vertrag, n.nr = v.nr, n.kunde = v.kunde,
         Melde(v, n), UNCHANGED <<zeile, sitzungen>>
  PROVE  /\ Vertragsfolge' /\ Ereignisfolge' /\ EinKunde' /\ EineSitzung' /\ Bekannt' /\ Uebernommen'
         /\ n \in vertraege'
         /\ \A a \in Anfragen :
              aOrt'[a] = aOrt[a] /\ aAuftrag'[a] = aAuftrag[a] /\ aEntitaet'[a] = aEntitaet[a]
                => Anwendend(a)' /\ Gemerkt(a)' /\ ImVerkauf(a)'
<1> DEFINE k == Cardinality(vertraege)
           z == zaehler.ereignisse
           e == [nr |-> z + 1, art |-> "vertrag", vertrag |-> n]
<1>1. /\ vertraege' = (vertraege \ {v}) \cup {n} /\ ereignisse' = ereignisse \cup {e}
      /\ zaehler'.ereignisse = z + 1 /\ UNCHANGED <<abo, zuletzt, sitzungen>>
  BY Gelesen DEF Melde, StripeTyp, zeile
<1>2. /\ v \in vertraege /\ v.status # "canceled" /\ v.nr = k /\ k \in Nat /\ z \in Nat
      /\ v.kunde = abo.kunde /\ IsFiniteSet(vertraege)
  BY Zahlen, Gelesen DEF Lebende, Verlauf, Vertragsfolge, EinKunde
<1>3. \A w \in vertraege : w.nr \in 1 .. k /\ (w.nr = k => w = v)
  BY <1>2 DEF Verlauf, Vertragsfolge
<1>4. Cardinality(vertraege)' = k
  <2>1. IsFiniteSet(vertraege \ {v}) /\ Cardinality(vertraege \ {v}) = k - 1
    BY <1>2, FS_RemoveElement
  <2>2. n \notin vertraege \ {v}
    BY <1>2, <1>3
  <2>3. Cardinality((vertraege \ {v}) \cup {n}) = (k - 1) + 1
    BY <2>1, <2>2, FS_AddElement
  <2>4. QED
    BY <1>1, <1>2, <2>3
<1>5. Vertragsfolge'
  <2>1. ASSUME NEW w \in vertraege'
        PROVE  /\ w.nr \in 1 .. k
               /\ \A u \in vertraege' : w.nr = u.nr => w = u
    BY <1>1, <1>2, <1>3 DEF Verlauf, Vertragsfolge
  <2>2. ASSUME NEW w \in Lebende'
        PROVE  w.nr = k
    BY <1>1, <1>2 DEF Lebende, Verlauf, Vertragsfolge
  <2> HIDE DEF k
  <2>3. QED
    BY <1>4, <2>1, <2>2 DEF Vertragsfolge
<1>6. e.nr = z + 1 /\ e.vertrag = n
  OBVIOUS
<1>7. \A f \in ereignisse : f.nr \in Nat /\ f.nr <= z /\ f.vertrag.nr \in Nat /\ f.vertrag.nr <= k
  BY Zahlen DEF Verlauf, Ereignisfolge
<1> HIDE DEF k, z, e
<1>8. Ereignisfolge'
  <2>1. ASSUME NEW f \in ereignisse', NEW g \in ereignisse', f.nr <= g.nr
        PROVE  f.vertrag.nr <= g.vertrag.nr
    <3>1. CASE f \in ereignisse /\ g \in ereignisse
      BY <2>1, <3>1 DEF Verlauf, Ereignisfolge
    <3>2. CASE f = e
      BY <1>1, <1>2, <1>6, <1>7, <2>1, <3>2
    <3>3. CASE f \in ereignisse /\ g = e
      BY <1>2, <1>6, <1>7, <3>3
    <3>4. QED
      BY <1>1, <3>1, <3>2, <3>3
  <2>2. ASSUME NEW f \in ereignisse'
        PROVE  /\ f.nr <= z + 1 /\ f.vertrag.nr <= k
               /\ f.nr = z + 1 => f.vertrag \in vertraege'
    BY <1>1, <1>2, <1>6, <1>7
  <2>3. e \in ereignisse'
    BY <1>1
  <2>4. QED
    BY <1>1, <1>4, <1>6, <2>1, <2>2, <2>3 DEF Ereignisfolge
<1>9. EinKunde'
  BY <1>1, <1>2, <1>6 DEF Verlauf, EinKunde
<1>10. sitzungen = {}
  BY DEF Verlauf, EineSitzung
<1>11. EineSitzung'
  BY <1>1, <1>10 DEF EineSitzung
<1>12. e \in ereignisse'
  BY <1>1
<1>13. Bekannt'
  <2>1. \A w \in Lebende' : w.nr = e.vertrag.nr
    BY <1>2, <1>4, <1>5, <1>6 DEF Vertragsfolge
  <2>2. QED
    BY <1>12, <2>1 DEF Bekannt
<1>14. Uebernommen'
  BY <1>12 DEF Uebernommen
<1>15. n \in vertraege'
  BY <1>1
<1>16. ASSUME NEW a \in Anfragen, aOrt'[a] = aOrt[a], aAuftrag'[a] = aAuftrag[a], aEntitaet'[a] = aEntitaet[a]
       PROVE  Anwendend(a)' /\ Gemerkt(a)' /\ ImVerkauf(a)'
  <2>1. Anwendend(a) /\ Gemerkt(a) /\ ImVerkauf(a)
    BY DEF Verlauf
  <2>2. Anwendend(a)'
    <3>1. SUFFICES ASSUME Wendet(a)' PROVE Anwendend(a)'
      BY DEF Anwendend
    <3>2. Wendet(a)
      BY <1>16, <3>1 DEF Wendet
    <3>3. aAuftrag[a].stand \in vertraege' \/ \E f \in ereignisse' : f.nr > aAuftrag[a].ereignis
      <4>1. CASE \E f \in ereignisse : f.nr > aAuftrag[a].ereignis
        BY <1>1, <4>1
      <4>2. CASE aAuftrag[a].stand \in vertraege /\ aAuftrag[a].ereignis = 0
        BY <1>2, <1>6, <1>12, <4>2
      <4>3. CASE aAuftrag[a].stand \in vertraege /\ aAuftrag[a].ereignis # 0
        <5>1. PICK f \in ereignisse : f.nr = aAuftrag[a].ereignis
          BY <2>1, <3>2, <4>3 DEF Anwendend
        <5>2. e.nr > aAuftrag[a].ereignis
          BY <1>2, <1>6, <1>7, <5>1
        <5>3. QED
          BY <1>12, <5>2
      <4>4. QED
        BY <2>1, <3>2, <4>1, <4>2, <4>3 DEF Anwendend
    <3>4. ASSUME aAuftrag[a].ereignis # 0
          PROVE  \E g \in ereignisse' : /\ g.nr = aAuftrag[a].ereignis /\ g.vertrag.nr = aAuftrag[a].stand.nr
                                        /\ \A f \in ereignisse' : g.nr <= f.nr
      <4>1. PICK g \in ereignisse :
              /\ g.nr = aAuftrag[a].ereignis /\ g.vertrag.nr = aAuftrag[a].stand.nr
              /\ \A f \in ereignisse : g.nr <= f.nr
        BY <2>1, <3>2, <3>4 DEF Anwendend
      <4>2. g \in ereignisse' /\ g.nr <= e.nr
        BY <1>1, <1>2, <1>6, <1>7
      <4>3. QED
        BY <1>1, <4>1, <4>2
    <3>5. aAuftrag[a].stand.kunde = abo.kunde
      BY <2>1, <3>2 DEF Anwendend
    <3>6. QED
      BY <1>1, <1>16, <3>3, <3>4, <3>5 DEF Anwendend
  <2>3. Gemerkt(a)'
    BY <1>1, <1>16, <2>1 DEF Gemerkt
  <2>4. ImVerkauf(a)'
    <3>1. \A w \in Lebende' : w.nr = v.nr
      BY <1>2, <1>4, <1>5 DEF Vertragsfolge
    <3>2. aOrt'[a] \notin {"kunde", "kundeMerken"}
      BY <1>16, <2>1 DEF ImVerkauf
    <3>3. QED
      BY <1>1, <1>10, <1>16, <2>1, <3>1, <3>2 DEF ImVerkauf
  <2>5. QED
    BY <2>2, <2>3, <2>4
<1>17. QED
  BY <1>5, <1>8, <1>9, <1>11, <1>13, <1>14, <1>15, <1>16

LEMMA UmstellenVerlauf ==
  ASSUME AboAssumption, Einzeln, IInv, Verlauf, NEW a \in Anfragen, Umstellen(a)
  PROVE  Verlauf'
<1>1. aOrt[a] = "umstellen" /\ aOrt[a] \in CheckoutOrte /\ aEntitaet[a] = abo
  BY DEF Umstellen, CheckoutOrte, Verlauf, Gemerkt
<1>2. PICK v \in Lebende :
        /\ Melde(v, [v EXCEPT !.tarif = aAuftrag[a].tarif])
        /\ aAuftrag' = [aAuftrag EXCEPT ![a].stand = [v EXCEPT !.tarif = aAuftrag[a].tarif]]
  BY DEF Umstellen
<1>3. DEFINE n == [v EXCEPT !.tarif = aAuftrag[a].tarif]
             auf == [aAuftrag[a] EXCEPT !.stand = n]
<1>4. /\ v \in Vertrag /\ n \in Vertrag /\ n.nr = v.nr /\ n.kunde = v.kunde
      /\ v.kunde = abo.kunde
  BY <1>1, Gelesen, ImCheckout DEF Lebende, StripeTyp, Vertrag, Verlauf, EinKunde
<1>5. Melde(v, n) /\ UNCHANGED <<zeile, sitzungen>>
  BY <1>2 DEF Umstellen
<1>6. Geht(a, "anwenden", auf, aEntitaet[a]) /\ UNCHANGED abo
  BY <1>2 DEF Umstellen, AWeiter, Geht, zeile
<1>7. auf.stand = n /\ auf.ereignis = aAuftrag[a].ereignis
  BY <1>1, ImCheckout DEF Auftrag
<1> HIDE DEF n, auf
<1>8. /\ Vertragsfolge' /\ Ereignisfolge' /\ EinKunde' /\ EineSitzung' /\ Bekannt' /\ Uebernommen'
      /\ n \in vertraege'
      /\ \A b \in Anfragen :
           aOrt'[b] = aOrt[b] /\ aAuftrag'[b] = aAuftrag[b] /\ aEntitaet'[b] = aEntitaet[b]
             => Anwendend(b)' /\ Gemerkt(b)' /\ ImVerkauf(b)'
  BY <1>4, <1>5, MeldeVerlauf
<1>9. /\ aOrt'[a] = "anwenden" /\ aAuftrag'[a] = auf
      /\ \A b \in Anfragen \ {a} :
           aOrt'[b] = aOrt[b] /\ aAuftrag'[b] = aAuftrag[b] /\ aEntitaet'[b] = aEntitaet[b]
  BY <1>6, AndereWarten
<1>10. aAuftrag[a].ereignis = 0
  BY <1>1 DEF Verlauf, ImVerkauf
<1>11. Anwendend(a)'
  BY <1>4, <1>6, <1>7, <1>8, <1>9, <1>10 DEF Anwendend
<1>12. Gemerkt(a)' /\ ImVerkauf(a)'
  BY <1>9 DEF Gemerkt, ImVerkauf, GratisOrte, CheckoutOrte
<1>13. QED
  BY <1>8, <1>9, <1>11, <1>12 DEF Verlauf

LEMMA VertragAendernVerlauf ==
  ASSUME AboAssumption, IInv, Verlauf, VertragAendern
  PROVE  Verlauf'
<1>1. PICK v \in Lebende, s \in VertragStatus, g \in BOOLEAN :
        Melde(v, [v EXCEPT !.status = s, !.gekuendigt = g]) /\ UNCHANGED <<zeile, sitzungen, anfragen>>
  BY DEF VertragAendern
<1>2. DEFINE n == [v EXCEPT !.status = s, !.gekuendigt = g]
<1>3. v \in Vertrag
  BY Gelesen DEF Lebende, StripeTyp
<1>4. n \in Vertrag /\ n.nr = v.nr /\ n.kunde = v.kunde
  BY <1>3 DEF Vertrag
<1>5. Melde(v, n)
  BY <1>1
<1> HIDE DEF n
<1>6. QED
  BY <1>1, <1>4, <1>5, MeldeVerlauf DEF Verlauf, anfragen

\* A session is paid: a contract begins, and nothing but it lives.
LEMMA BezahlenVerlauf ==
  ASSUME AboAssumption, IInv, Verlauf, Bezahlen
  PROVE  Verlauf'
<1> DEFINE k == Cardinality(vertraege)
           z == zaehler.ereignisse
<1>1. PICK s \in sitzungen :
        LET n == k + 1
            v == [nr |-> n, status |-> "active", tarif |-> s.tarif, kunde |-> s.kunde, gekuendigt |-> FALSE]
        IN /\ vertraege' = vertraege \cup {v}
           /\ sitzungen' = sitzungen \ {s}
           /\ ereignisse' = ereignisse \cup {[nr |-> z + 1, art |-> "vertrag", vertrag |-> v],
                                             [nr |-> z + 2, art |-> "checkout", vertrag |-> v]}
           /\ zaehler' = [zaehler EXCEPT !.ereignisse = z + 2]
  BY DEF Bezahlen
<1> DEFINE v == [nr |-> k + 1, status |-> "active", tarif |-> s.tarif, kunde |-> s.kunde, gekuendigt |-> FALSE]
           d == [nr |-> z + 1, art |-> "vertrag", vertrag |-> v]
           e == [nr |-> z + 2, art |-> "checkout", vertrag |-> v]
<1>2. /\ vertraege' = vertraege \cup {v} /\ ereignisse' = ereignisse \cup {d, e} /\ sitzungen' = sitzungen \ {s}
      /\ zaehler'.ereignisse = z + 2 /\ UNCHANGED <<abo, zuletzt, aOrt, aAuftrag, aEntitaet>>
  BY <1>1, Gelesen DEF Bezahlen, StripeTyp, zeile, anfragen
<1>3. /\ v.nr = k + 1 /\ v.status = "active" /\ v.kunde = abo.kunde
      /\ d.nr = z + 1 /\ d.vertrag = v /\ e.nr = z + 2 /\ e.vertrag = v
  BY DEF Verlauf, EinKunde
<1>4. Lebende = {} /\ abo.kunde # 0 /\ sitzungen' = {} /\ \A t \in sitzungen : t = s
  BY <1>2 DEF Verlauf, EineSitzung, EinKunde
<1>5. k \in Nat /\ z \in Nat /\ IsFiniteSet(vertraege)
  BY Zahlen, Gelesen
<1>6. \A w \in vertraege : w.nr \in 1 .. k /\ w.status = "canceled"
  BY <1>4 DEF Lebende, Verlauf, Vertragsfolge
<1>7. \A f \in ereignisse : f.nr \in Nat /\ f.nr <= z /\ f.vertrag.nr \in Nat /\ f.vertrag.nr <= k
  BY Zahlen DEF Verlauf, Ereignisfolge
<1>8. Cardinality(vertraege)' = k + 1
  <2>1. v \notin vertraege
    BY <1>3, <1>5, <1>6
  <2> HIDE DEF v
  <2>2. QED
    BY <1>2, <1>5, <2>1, FS_AddElement
<1> HIDE DEF k, z, v, d, e
<1>9. Vertragsfolge'
  <2>1. ASSUME NEW w \in vertraege'
        PROVE  w.nr \in 1 .. k + 1 /\ \A u \in vertraege' : w.nr = u.nr => w = u
    BY <1>2, <1>3, <1>5, <1>6 DEF Verlauf, Vertragsfolge
  <2>2. ASSUME NEW w \in Lebende'
        PROVE  w.nr = k + 1
    BY <1>2, <1>3, <1>6 DEF Lebende
  <2>3. QED
    BY <1>8, <2>1, <2>2 DEF Vertragsfolge
<1>10. Ereignisfolge'
  <2>1. ASSUME NEW f \in ereignisse', NEW g \in ereignisse', f.nr <= g.nr
        PROVE  f.vertrag.nr <= g.vertrag.nr
    <3>1. CASE f \in ereignisse /\ g \in ereignisse
      BY <2>1, <3>1 DEF Verlauf, Ereignisfolge
    <3>2. CASE f \in {d, e} /\ g \in ereignisse
      BY <1>3, <1>5, <1>7, <2>1, <3>2
    <3>3. CASE g \in {d, e}
      BY <1>2, <1>3, <1>5, <1>7, <3>3
    <3>4. QED
      BY <1>2, <3>1, <3>2, <3>3
  <2>2. ASSUME NEW f \in ereignisse'
        PROVE  f.nr <= z + 2 /\ f.vertrag.nr <= k + 1 /\ (f.nr = z + 2 => f.vertrag \in vertraege')
    BY <1>2, <1>3, <1>5, <1>7
  <2>3. e \in ereignisse' /\ e.nr = z + 2
    BY <1>2, <1>3
  <2>4. QED
    BY <1>2, <1>8, <2>1, <2>2, <2>3 DEF Ereignisfolge
<1>11. EinKunde'
  BY <1>2, <1>3, <1>4 DEF Verlauf, EinKunde
<1>12. EineSitzung'
  BY <1>4 DEF EineSitzung
<1>13. \A w \in Lebende' : w.nr = e.vertrag.nr
  BY <1>3, <1>8, <1>9 DEF Vertragsfolge
<1>14. Bekannt' /\ Uebernommen'
  <2>1. e \in ereignisse'
    BY <1>2
  <2>2. QED
    BY <1>13, <2>1 DEF Bekannt, Uebernommen
<1>15. ASSUME NEW a \in Anfragen
       PROVE  Anwendend(a)' /\ Gemerkt(a)' /\ ImVerkauf(a)'
  <2>1. Anwendend(a) /\ Gemerkt(a) /\ ImVerkauf(a) /\ aOrt[a] \notin CheckoutOrte
    BY DEF Verlauf, ImVerkauf
  <2>2. Gemerkt(a)' /\ ImVerkauf(a)'
    BY <1>2, <2>1 DEF Gemerkt, ImVerkauf, CheckoutOrte
  <2>3. Anwendend(a)'
    <3>1. SUFFICES ASSUME Wendet(a) PROVE Anwendend(a)'
      BY <1>2 DEF Anwendend, Wendet
    <3>2. aAuftrag[a].stand \in vertraege' \/ \E f \in ereignisse' : f.nr > aAuftrag[a].ereignis
      BY <1>2, <2>1, <3>1 DEF Anwendend
    <3>3. ASSUME aAuftrag[a].ereignis # 0
          PROVE  \E g \in ereignisse' : /\ g.nr = aAuftrag[a].ereignis /\ g.vertrag.nr = aAuftrag[a].stand.nr
                                        /\ \A f \in ereignisse' : g.nr <= f.nr
      <4>1. PICK g \in ereignisse :
              /\ g.nr = aAuftrag[a].ereignis /\ g.vertrag.nr = aAuftrag[a].stand.nr
              /\ \A f \in ereignisse : g.nr <= f.nr
        BY <2>1, <3>1, <3>3 DEF Anwendend
      <4>2. g \in ereignisse' /\ g.nr <= d.nr /\ g.nr <= e.nr
        BY <1>2, <1>3, <1>5, <1>7
      <4>3. QED
        BY <1>2, <4>1, <4>2
    <3>4. aAuftrag[a].stand.kunde = abo.kunde
      BY <2>1, <3>1 DEF Anwendend
    <3>5. QED
      BY <1>2, <3>2, <3>3, <3>4 DEF Anwendend
  <2>4. QED
    BY <2>2, <2>3
<1>16. QED
  BY <1>9, <1>10, <1>11, <1>12, <1>14, <1>15 DEF Verlauf

LEMMA VerfallenVerlauf ==
  ASSUME Verlauf, Verfallen
  PROVE  Verlauf'
<1>1. /\ UNCHANGED <<abo, zuletzt, vertraege, ereignisse, zaehler, aOrt, aAuftrag, aEntitaet>>
      /\ sitzungen' \subseteq sitzungen /\ Lebende' = Lebende
  BY DEF Verfallen, zeile, anfragen, Lebende
<1>2. Vertragsfolge' /\ Ereignisfolge' /\ EinKunde' /\ EineSitzung' /\ Bekannt' /\ Uebernommen'
  BY <1>1 DEF Verlauf, Vertragsfolge, Ereignisfolge, EinKunde, EineSitzung, Bekannt, Wendet, Uebernommen
<1>3. ASSUME NEW a \in Anfragen
      PROVE  Anwendend(a)' /\ Gemerkt(a)' /\ ImVerkauf(a)'
  BY <1>1 DEF Verlauf, Anwendend, Wendet, Gemerkt, ImVerkauf
<1>4. QED
  BY <1>2, <1>3 DEF Verlauf

-------------------------------------------------------------------------------
(***************************************************************************)
(* The theorem about row and contracts.                                    *)
(***************************************************************************)
LEMMA AInitGut ==
  ASSUME AboAssumption, AInit
  PROVE  AInv
<1>1. IInv
  BY InitGut
<1>2. /\ sitzungen = {} /\ ereignisse = {}
      /\ \A a \in Anfragen : aOrt[a] = "bereit"
  BY DEF AInit, InitMit
<1>3. \A a \in Anfragen : Anwendend(a) /\ Gemerkt(a) /\ ImVerkauf(a)
  BY <1>2 DEF Anwendend, Wendet, Gemerkt, ImVerkauf, GratisOrte, CheckoutOrte
<1>4. Ereignisfolge /\ EineSitzung
  BY <1>2 DEF Ereignisfolge, EineSitzung
<1>5. Vertragsfolge /\ EinKunde /\ Bekannt /\ Uebernommen
  <2>1. CASE vertraege = {} /\ abo = Leer /\ zuletzt = "hand"
    BY <1>2, <2>1 DEF Vertragsfolge, EinKunde, Bekannt, Uebernommen, Lebende
  <2>2. ASSUME NEW v \in [nr : {1}, status : VertragStatus, tarif : Tarife, kunde : {1}, gekuendigt : {FALSE}],
               vertraege = {v}, abo = Angewendet(Leer, v), zuletzt = "stripe"
        PROVE  <1>5
    <3>1. v \in Vertrag /\ v.nr = 1 /\ v.kunde = 1
      BY <2>2, Zahlen, <1>1
    <3>2. Cardinality(vertraege) = 1
      BY <2>2, FS_Singleton
    <3>3. abo.kunde = 1 /\ abo.vertrag = 1 /\ abo = Angewendet(abo, v)
      BY <2>2, <3>1, Konstanten, Anwendung
    <3>4. \A w \in vertraege : w = v
      BY <2>2
    <3>5. Vertragsfolge /\ EinKunde
      BY <1>2, <3>1, <3>2, <3>3, <3>4 DEF Vertragsfolge, EinKunde, Lebende
    <3>6. Bekannt /\ Uebernommen
      BY <1>2, <2>2, <3>1, <3>3, <3>4 DEF Bekannt, Uebernommen, Wendet, Lebende
    <3>7. QED
      BY <3>5, <3>6
  <2>3. QED
    BY <2>1, <2>2 DEF AInit, InitMit
<1>6. QED
  BY <1>1, <1>3, <1>4, <1>5 DEF AInv, Verlauf

LEMMA ANextGut ==
  ASSUME AboAssumption, AInv, [ANext]_aVars
  PROVE  AInv'
<1>1. IInv /\ IInv'
  BY NextGut DEF AInv
<1>2. SUFFICES ASSUME Einzeln, Verlauf PROVE Verlauf'
  BY <1>1 DEF AInv
<1>3. CASE UNCHANGED aVars
  <2>1. UNCHANGED <<abo, zuletzt, vertraege, sitzungen, ereignisse, zaehler, aOrt, aAuftrag, aEntitaet>>
        /\ Lebende' = Lebende
    BY <1>3 DEF aVars, zeile, stripe, anfragen, Lebende
  <2>2. Vertragsfolge' /\ Ereignisfolge' /\ EinKunde' /\ EineSitzung' /\ Bekannt' /\ Uebernommen'
    BY <1>2, <2>1 DEF Verlauf, Vertragsfolge, Ereignisfolge, EinKunde, EineSitzung, Bekannt, Wendet, Uebernommen
  <2>3. \A a \in Anfragen : Anwendend(a)' /\ Gemerkt(a)' /\ ImVerkauf(a)'
    BY <1>2, <2>1 DEF Verlauf, Anwendend, Wendet, Gemerkt, ImVerkauf
  <2>4. QED
    BY <2>2, <2>3 DEF Verlauf
<1>4. ASSUME NEW a \in Anfragen, ASchritt(a)
      PROVE  Verlauf'
  <2>1. CASE Abbruch(a)
    BY <1>1, <1>2, <2>1, EndeVerlauf DEF Abbruch, zeile, stripe
  <2>2. CASE \/ VonHandGeaendert(a) \/ AboSpeichern(a)
             \/ GratisLesen(a) \/ GratisBeanspruchen(a) \/ GratisGewaehren(a)
    BY <1>1, <1>2, <2>2, VonHandVerlauf, AboSpeichernVerlauf, GratisVerlauf
  <2>3. CASE handleEvent(a) \/ syncFromStripe(a) \/ AnwendenLesen(a) \/ AnwendenSpeichern(a)
    BY <1>1, <1>2, <2>3, handleEventVerlauf, syncFromStripeVerlauf, AnwendenLesenVerlauf, AnwendenSpeichernVerlauf
  <2>4. CASE \/ CheckoutLesen(a) \/ VertragHolen(a) \/ Umstellen(a)
             \/ KundeAnlegen(a) \/ KundeMerken(a) \/ SitzungEroeffnen(a)
    BY <1>1, <1>2, <2>4, CheckoutLesenVerlauf, VertragHolenVerlauf, UmstellenVerlauf, KundeAnlegenVerlauf,
       KundeMerkenVerlauf, SitzungEroeffnenVerlauf
  <2>5. QED
    BY <1>4, <2>1, <2>2, <2>3, <2>4 DEF ASchritt
<1>5. QED
  BY <1>1, <1>2, <1>3, <1>4, BezahlenVerlauf, VerfallenVerlauf, VertragAendernVerlauf DEF ANext

\* The second invariant holds in every state.
THEOREM InvarianteVerlauf ==
  ASSUME AboAssumption
  PROVE  ASpec => []AInv
<1>1. AInit => AInv
  BY AInitGut
<1>2. AInv /\ [ANext]_aVars => AInv'
  BY ANextGut
<1>3. QED
  BY <1>1, <1>2, PTL DEF ASpec

\* Once nothing is on its way, the tenant has one contract that lives, the one of its row, and
\* what was last taken over from Stripe is how the contract is (createCheckout, the webhook,
\* syncFromStripe), while whoever saves the row does so alone, as Einzeln says.
THEOREM AboBewiesen ==
  ASSUME AboAssumption
  PROVE  ASpec => []AboStimmt
<1>1. AInv => AboStimmt
  BY DEF AInv, Verlauf, Bekannt, Uebernommen, AboStimmt
<1>2. QED
  BY <1>1, InvarianteVerlauf, PTL
===============================================================================
