------------------------------- MODULE MCAuftrag -------------------------------
(***************************************************************************)
(* Small instances for TLC of what surrounds an order: Angebote, the offers*)
(* it comes from, Anzahlungen, the down payments on it, and Lager, the     *)
(* material it uses up.  They share no row: one of them moves, the others  *)
(* have their bounds used up from the start.                               *)
(***************************************************************************)
EXTENDS Angebote, Anzahlungen, Lager

ASSUME AuftragAssumption == AnzahlungenAssumption /\ LagerAssumption /\ MaxLager > 0

Einheitspreis == [x \in Belege |-> 1]

LagerRuht ==
  /\ LInitMit(MaxLager) /\ lEinzeln = TRUE
  /\ bestellungen = [p \in Bestellungen |-> KeineBestellung]
  /\ \A m \in Mengen : rolle.rest <= m

\* The users are alike, and the roll suffices for one booking; where requests overlap in
\* full, there is one less.
LagerInit ==
  /\ lEinzeln \in BOOLEAN
  /\ LInitMit(IF lEinzeln THEN 0 ELSE 1)
  /\ \A p \in Bestellungen : bestellungen[p].ersteller \in {Keiner, CHOOSE u \in Personen : TRUE}
  /\ \A m \in Mengen : m <= rolle.rest

AnzahlungenRuhen == ZInitMit(ZAlle) /\ belege = [x \in Belege |-> Fehlt]

MCInit ==
  \/ Init /\ AnzahlungenRuhen /\ LagerRuht
  \/ InitMit(Alle) /\ einzeln /\ ZInitMit(ZKeine) /\ LagerRuht
  \/ InitMit(Alle) /\ einzeln /\ AnzahlungenRuhen /\ LagerInit

MCNext ==
  \/ Next /\ UNCHANGED <<zVars, lVars>>
  \/ ZNext /\ UNCHANGED <<vars, lVars>>
  \/ LNext /\ UNCHANGED <<vars, zVars>>

MCSpec == MCInit /\ [][MCNext]_<<vars, zVars, lVars>> /\ Fairness

\* Every variable of the components has its type.
Typen == TypeOK /\ ZTypeOK /\ LTypeOK
===============================================================================
