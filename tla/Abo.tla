---------------------------------- MODULE Abo ----------------------------------
(***************************************************************************)
(* The subscription of one tenant: its row, written by the operator and the*)
(* owner (subscriptions.service.ts) and by what Stripe reports             *)
(* (billing.service.ts).  A request reads the row, changes it in memory and*)
(* saves it as a whole.  Stripe keeps contracts, opens checkout sessions   *)
(* and sends events, each with the state of its contract at that time;     *)
(* it repeats an event until it is answered.  Its statuses are abstracted: *)
(* trialing is like active, incomplete and paused like unpaid.  Prices,    *)
(* periods, notes and add-ons are left out.                                *)
(***************************************************************************)
EXTENDS Integers, FiniteSetsExt

CONSTANTS
  Tarife,          \* the plans
  Ohne,            \* no plan
  VonHand,         \* the statuses that the operator sets
  Anfragen,        \* the requests the server works on at the same time
  Einzeln,         \* TRUE: the restriction described at Vertraeglich, which nothing in the
                   \* code ensures; FALSE: all requests overlap
  MaxVertraege,    \* bound: the contracts at Stripe
  MaxKunden,       \* bound: the customers at Stripe
  MaxEreignisse    \* bound: the events

\* What the constants have to satisfy: the module that uses this one assumes it.
AboAssumption ==
  /\ Tarife # {} /\ Ohne \notin Tarife
  /\ VonHand \subseteq {"trial", "active", "past_due", "canceled", "suspended", "pilot"}
  /\ Einzeln \in BOOLEAN
  /\ MaxVertraege \in Nat \ {0} /\ MaxKunden \in Nat \ {0} /\ MaxEreignisse \in Nat

VARIABLES
  abo,             \* the row
  eingeloest,      \* history: how often the free month was granted
  zuletzt,         \* history: whether the row was last saved by hand or from Stripe
  vertraege,       \* Stripe: the contracts, numbered as they were made
  sitzungen,       \* Stripe: the checkout sessions that can be paid
  ereignisse,      \* Stripe: the events that have no answer yet
  zaehler,         \* Stripe: how many customers and events there have been
  aOrt,            \* where in its operation each request waits
  aAuftrag,        \* what each request is doing
  aEntitaet        \* the row as it has it in memory

zeile == <<abo, eingeloest, zuletzt>>
stripe == <<vertraege, sitzungen, ereignisse, zaehler>>
anfragen == <<aOrt, aAuftrag, aEntitaet>>
aVars == <<zeile, stripe, anfragen>>

SubscriptionStatus == {"trial", "active", "past_due", "canceled", "suspended", "pilot"}

\* 0: no customer, no contract.
Subscription == [status : SubscriptionStatus, planId : Tarife \cup {Ohne}, kunde : 0 .. MaxKunden,
                 vertrag : 0 .. MaxVertraege, gekuendigt : BOOLEAN, halteangebotGenutzt : BOOLEAN]

Leer == [status |-> "trial", planId |-> Ohne, kunde |-> 0, vertrag |-> 0, gekuendigt |-> FALSE,
         halteangebotGenutzt |-> FALSE]

\* A contract as Stripe tells it; nr 0: none.
VertragStatus == {"active", "past_due", "unpaid", "canceled"}

Vertrag == [nr : 0 .. MaxVertraege, status : VertragStatus,
            tarif : Tarife \cup {Ohne}, kunde : 0 .. MaxKunden, gekuendigt : BOOLEAN]

KeinVertrag == [nr |-> 0, status |-> "canceled", tarif |-> Ohne, kunde |-> 0, gekuendigt |-> FALSE]

Lebende == {v \in vertraege : v.status # "canceled"}

ARuhe == [op |-> "ruhe", tarif |-> Ohne, ereignis |-> 0, stand |-> KeinVertrag]

-------------------------------------------------------------------------------
(***************************************************************************)
(* The course of a request.                                                *)
(***************************************************************************)
Unterwegs == {a \in Anfragen : aOrt[a] # "bereit"}

\* Restriction: whoever saves the row runs alone, but for requests for the free month, which
\* overlap each other.
Vertraeglich(op) ==
  Einzeln => \A a \in Unterwegs : op = "gratis" /\ aAuftrag[a].op = "gratis"

Beginne(a, auf, o, e) ==
  /\ aOrt[a] = "bereit"
  /\ Vertraeglich(auf.op)
  /\ aOrt' = [aOrt EXCEPT ![a] = o]
  /\ aAuftrag' = [aAuftrag EXCEPT ![a] = auf]
  /\ aEntitaet' = [aEntitaet EXCEPT ![a] = e]
  /\ UNCHANGED <<zeile, stripe>>

AWeiter(a, o, e) ==
  /\ aOrt' = [aOrt EXCEPT ![a] = o]
  /\ aEntitaet' = [aEntitaet EXCEPT ![a] = e]

Beende(a) ==
  /\ aOrt' = [aOrt EXCEPT ![a] = "bereit"]
  /\ aAuftrag' = [aAuftrag EXCEPT ![a] = ARuhe]
  /\ aEntitaet' = [aEntitaet EXCEPT ![a] = Leer]

\* Stripe gets its answer, which may be lost on the way.
Quittiere(a) ==
  ereignisse' \in {ereignisse, {e \in ereignisse : e.nr # aAuftrag[a].ereignis}}

\* The process dies, or the request fails.
Abbruch(a) ==
  /\ a \in Unterwegs
  /\ Beende(a)
  /\ UNCHANGED <<zeile, stripe>>

-------------------------------------------------------------------------------
(***************************************************************************)
(* What the operator and the owner make of the row                         *)
(* (subscriptions.service.ts).                                             *)
(***************************************************************************)
Will(a, n) == Beginne(a, [ARuhe EXCEPT !.op = "hand"], "speichern", n)

assign(a) ==
  \E t \in Tarife, s \in VonHand :
    Will(a, [abo EXCEPT !.planId = t, !.status = s, !.gekuendigt = FALSE])

update(a) ==
  \E t \in Tarife \cup {abo.planId}, s \in VonHand \cup {abo.status}, g \in BOOLEAN :
    Will(a, [abo EXCEPT !.planId = t, !.status = s, !.gekuendigt = g])

extend(a) == Will(a, [abo EXCEPT !.status = "active", !.gekuendigt = FALSE])

setPilot(a) == abo.status \in {"trial", "pilot"} /\ Will(a, [abo EXCEPT !.status = "pilot"])

\* Only the end of the trial, which is left out, moves.
extendTrial(a) == abo.status = "trial" /\ Will(a, abo)

cancelSelf(a) == Will(a, [abo EXCEPT !.gekuendigt = TRUE])

reactivateSelf(a) == Will(a, [abo EXCEPT !.gekuendigt = FALSE])

VonHandGeaendert(a) ==
  \/ assign(a) \/ update(a) \/ extend(a) \/ setPilot(a) \/ extendTrial(a)
  \/ cancelSelf(a) \/ reactivateSelf(a)

AboSpeichern(a) ==
  /\ aOrt[a] = "speichern" /\ aAuftrag[a].op = "hand"
  /\ abo' = aEntitaet[a] /\ zuletzt' = "hand"
  /\ Beende(a)
  /\ UNCHANGED <<eingeloest, stripe>>

\* redeemRetentionOffer
GratisLesen(a) == Beginne(a, [ARuhe EXCEPT !.op = "gratis"], "beanspruchen", abo)

\* (Mutant: the update that claims the offer without its condition.)
AngebotOffenImmer == TRUE

AngebotOffen == ~ abo.halteangebotGenutzt

GratisBeanspruchen(a) ==
  /\ aOrt[a] = "beanspruchen"
  /\ IF AngebotOffen
     THEN /\ abo' = [abo EXCEPT !.halteangebotGenutzt = TRUE]
          /\ AWeiter(a, "gewaehren", aEntitaet[a])
          /\ UNCHANGED <<eingeloest, zuletzt, aAuftrag, stripe>>
     ELSE Beende(a) /\ UNCHANGED <<zeile, stripe>>

GratisGewaehren(a) ==
  /\ aOrt[a] = "gewaehren"
  /\ abo' = [aEntitaet[a] EXCEPT !.status = "active", !.gekuendigt = FALSE, !.halteangebotGenutzt = TRUE]
  /\ eingeloest' = IF eingeloest < 2 THEN eingeloest + 1 ELSE eingeloest
  /\ zuletzt' = "hand"
  /\ Beende(a)
  /\ UNCHANGED stripe

-------------------------------------------------------------------------------
(***************************************************************************)
(* applyStripeSubscription, where all that Stripe tells arrives.           *)
(***************************************************************************)
mapStatus(s) ==
  CASE s = "active" -> "active"
    [] s = "past_due" -> "past_due"
    [] s = "canceled" -> "canceled"
    [] s = "unpaid" -> "suspended"

\* The row is found over the contract, the customer or the tenant in the metadata; one of
\* another customer is left alone.
Angewendet(r, v) ==
  [r EXCEPT !.vertrag = v.nr, !.kunde = v.kunde, !.status = mapStatus(v.status), !.planId = v.tarif,
            !.gekuendigt = v.gekuendigt]

AnwendenLesen(a) ==
  LET v == aAuftrag[a].stand
  IN /\ aOrt[a] = "anwenden"
     /\ IF abo.kunde \in {0, v.kunde}
        THEN AWeiter(a, "nachziehen", Angewendet(abo, v)) /\ UNCHANGED <<aAuftrag, zeile, stripe>>
        ELSE Beende(a) /\ Quittiere(a) /\ UNCHANGED <<zeile, vertraege, sitzungen, zaehler>>

AnwendenSpeichern(a) ==
  /\ aOrt[a] = "nachziehen"
  /\ abo' = aEntitaet[a] /\ zuletzt' = "stripe"
  /\ Beende(a)
  /\ Quittiere(a)
  /\ UNCHANGED <<eingeloest, vertraege, sitzungen, zaehler>>

\* handleEvent: a completed checkout makes it ask for the state, the others bring one.  Under
\* the restriction events arrive in the order in which Stripe has made them.
handleEvent(a) ==
  \E e \in ereignisse :
    /\ Einzeln => \A f \in ereignisse : e.nr <= f.nr
    /\ \E v \in IF e.art = "checkout" THEN {w \in vertraege : w.nr = e.vertrag.nr} ELSE {e.vertrag} :
         Beginne(a, [ARuhe EXCEPT !.op = "ereignis", !.ereignis = e.nr, !.stand = v], "anwenden", abo)

\* syncFromStripe: the newest active contract, or else the newest.
Bester(k) ==
  LET von == {v \in vertraege : v.kunde = k}
      aktiv == {v \in von : v.status = "active"}
      wahl == IF aktiv # {} THEN aktiv ELSE von
  IN {v \in wahl : \A w \in wahl : w.nr <= v.nr}

syncFromStripe(a) ==
  /\ abo.kunde # 0
  /\ \E v \in Bester(abo.kunde) :
       Beginne(a, [ARuhe EXCEPT !.op = "sync", !.stand = v], "anwenden", abo)

-------------------------------------------------------------------------------
(***************************************************************************)
(* createCheckout, which opens a session or switches the contract.  Under  *)
(* the restriction nobody calls it while a session is open or an event is  *)
(* on its way.                                                             *)
(***************************************************************************)
CheckoutLesen(a) ==
  /\ Einzeln => sitzungen = {} /\ ereignisse = {}
  /\ \E t \in Tarife :
       Beginne(a, [ARuhe EXCEPT !.op = "checkout", !.tarif = t], IF abo.vertrag # 0 THEN "holen" ELSE "kunde", abo)

\* (Mutant: only an active contract is switched.)
AenderbarNurAktive(v) == v.status = "active"

Aenderbar(v) == v.status # "canceled"

\* Any error of this call counts as a contract that is gone, which the restriction leaves out.
VertragHolen(a) ==
  LET umstellbar == {v \in vertraege : v.nr = aEntitaet[a].vertrag /\ Aenderbar(v)}
  IN /\ aOrt[a] = "holen"
     /\ \/ umstellbar # {} /\ AWeiter(a, "umstellen", aEntitaet[a])
        \/ (Einzeln => umstellbar = {}) /\ AWeiter(a, "kunde", aEntitaet[a])
     /\ UNCHANGED <<aAuftrag, zeile, stripe>>

\* Stripe changes the contract v into n, and reports it.
Melde(v, n) ==
  /\ zaehler.ereignisse < MaxEreignisse
  /\ vertraege' = (vertraege \ {v}) \cup {n}
  /\ ereignisse' = ereignisse \cup {[nr |-> zaehler.ereignisse + 1, art |-> "vertrag", vertrag |-> n]}
  /\ zaehler' = [zaehler EXCEPT !.ereignisse = @ + 1]

\* A contract that has ended meanwhile is refused, and the request fails.
Umstellen(a) ==
  /\ aOrt[a] = "umstellen"
  /\ \E v \in Lebende :
       LET n == [v EXCEPT !.tarif = aAuftrag[a].tarif]
       IN /\ v.nr = aEntitaet[a].vertrag
          /\ Melde(v, n)
          /\ aAuftrag' = [aAuftrag EXCEPT ![a].stand = n]
  /\ AWeiter(a, "anwenden", aEntitaet[a])
  /\ UNCHANGED <<zeile, sitzungen>>

\* ensureCustomer
KundeAnlegen(a) ==
  /\ aOrt[a] = "kunde" /\ aEntitaet[a].kunde = 0
  /\ zaehler.kunden < MaxKunden
  /\ zaehler' = [zaehler EXCEPT !.kunden = @ + 1]
  /\ AWeiter(a, "kundeMerken", [aEntitaet[a] EXCEPT !.kunde = zaehler.kunden + 1])
  /\ UNCHANGED <<aAuftrag, zeile, vertraege, sitzungen, ereignisse>>

KundeMerken(a) ==
  /\ aOrt[a] = "kundeMerken"
  /\ abo' = aEntitaet[a]
  /\ AWeiter(a, "kunde", aEntitaet[a])
  /\ UNCHANGED <<aAuftrag, eingeloest, zuletzt, stripe>>

SitzungEroeffnen(a) ==
  /\ aOrt[a] = "kunde" /\ aEntitaet[a].kunde # 0
  /\ sitzungen' = sitzungen \cup {[kunde |-> aEntitaet[a].kunde, tarif |-> aAuftrag[a].tarif]}
  /\ Beende(a)
  /\ UNCHANGED <<zeile, vertraege, ereignisse, zaehler>>

-------------------------------------------------------------------------------
(***************************************************************************)
(* Stripe.                                                                 *)
(***************************************************************************)
\* A session is paid: a contract begins, and two events tell of it.
Bezahlen ==
  \E s \in sitzungen :
    LET n == Cardinality(vertraege) + 1
        v == [nr |-> n, status |-> "active", tarif |-> s.tarif, kunde |-> s.kunde, gekuendigt |-> FALSE]
        e == zaehler.ereignisse
    IN /\ n <= MaxVertraege /\ e + 2 <= MaxEreignisse
       /\ vertraege' = vertraege \cup {v}
       /\ sitzungen' = sitzungen \ {s}
       /\ ereignisse' = ereignisse \cup {[nr |-> e + 1, art |-> "vertrag", vertrag |-> v],
                                         [nr |-> e + 2, art |-> "checkout", vertrag |-> v]}
       /\ zaehler' = [zaehler EXCEPT !.ereignisse = e + 2]
       /\ UNCHANGED <<zeile, anfragen>>

\* A session expires.
Verfallen ==
  \E s \in sitzungen :
    /\ sitzungen' = sitzungen \ {s}
    /\ UNCHANGED <<zeile, vertraege, ereignisse, zaehler, anfragen>>

\* A payment fails or comes in, the owner uses the portal, a contract ends.
VertragAendern ==
  \E v \in Lebende, s \in VertragStatus, g \in BOOLEAN :
    /\ s # v.status \/ g # v.gekuendigt
    /\ Melde(v, [v EXCEPT !.status = s, !.gekuendigt = g])
    /\ UNCHANGED <<zeile, sitzungen, anfragen>>

-------------------------------------------------------------------------------
\* Nothing but the row; or what a contract of any status has left behind in it.
InitMit(anzahl) ==
  /\ \/ vertraege = {} /\ abo = Leer /\ zuletzt = "hand"
     \/ \E v \in [nr : {1}, status : VertragStatus, tarif : Tarife, kunde : {1}, gekuendigt : {FALSE}] :
          vertraege = {v} /\ abo = Angewendet(Leer, v) /\ zuletzt = "stripe"
  /\ eingeloest = 0
  /\ sitzungen = {} /\ ereignisse = {}
  /\ zaehler = [kunden |-> Cardinality(vertraege), ereignisse |-> anzahl]
  /\ aOrt = [a \in Anfragen |-> "bereit"]
  /\ aAuftrag = [a \in Anfragen |-> ARuhe]
  /\ aEntitaet = [a \in Anfragen |-> Leer]

AInit == InitMit(0)

ASchritt(a) ==
  \/ VonHandGeaendert(a) \/ AboSpeichern(a)
  \/ GratisLesen(a) \/ GratisBeanspruchen(a) \/ GratisGewaehren(a)
  \/ handleEvent(a) \/ syncFromStripe(a) \/ AnwendenLesen(a) \/ AnwendenSpeichern(a)
  \/ CheckoutLesen(a) \/ VertragHolen(a) \/ Umstellen(a)
  \/ KundeAnlegen(a) \/ KundeMerken(a) \/ SitzungEroeffnen(a)
  \/ Abbruch(a)

ANext ==
  \/ \E a \in Anfragen : ASchritt(a)
  \/ Bezahlen \/ Verfallen \/ VertragAendern

ASpec == AInit /\ [][ANext]_aVars

-------------------------------------------------------------------------------
(***************************************************************************)
(* Properties.                                                             *)
(***************************************************************************)
ATypeOK ==
  /\ abo \in Subscription /\ eingeloest \in 0 .. 2 /\ zuletzt \in {"hand", "stripe"}
  /\ vertraege \subseteq Vertrag
  /\ sitzungen \subseteq [kunde : 1 .. MaxKunden, tarif : Tarife]
  /\ ereignisse \subseteq [nr : 1 .. MaxEreignisse, art : {"vertrag", "checkout"}, vertrag : Vertrag]
  /\ zaehler \in [kunden : 0 .. MaxKunden, ereignisse : 0 .. MaxEreignisse]
  /\ aOrt \in [Anfragen -> {"bereit", "speichern", "beanspruchen", "gewaehren", "anwenden", "nachziehen",
                            "holen", "umstellen", "kunde", "kundeMerken"}]
  /\ aAuftrag \in [Anfragen -> [op : {"ruhe", "hand", "gratis", "ereignis", "sync", "checkout"},
                                tarif : Tarife \cup {Ohne}, ereignis : 0 .. MaxEreignisse, stand : Vertrag]]
  /\ aEntitaet \in [Anfragen -> Subscription]

\* Once all that Stripe has reported is answered, the tenant has one contract that lives, the
\* one its row names: no switch of the plan ends in two that both cost money.  And what
\* was last taken over from Stripe, whether an event, a repeated one or a sync brought it,
\* is how the contract is.
AboStimmt ==
  Einzeln /\ Unterwegs = {} /\ ereignisse = {} =>
    /\ \A v \in Lebende : abo.vertrag = v.nr
    /\ zuletzt = "stripe" => \E v \in vertraege : v.nr = abo.vertrag /\ abo = Angewendet(abo, v)

\* A tenant gets the free month once in its life, however many ask for it at the same time.
GratismonatEinmal == Einzeln => eingeloest <= 1
===============================================================================
