------------------------------- MODULE MCBetrieb -------------------------------
(***************************************************************************)
(* Small instances for TLC of Sitze, the users and invitations of a tenant,*)
(* and Termine, its booking requests and appointments.  The two share no   *)
(* row: one of them moves, the other has its bounds used up from the       *)
(* start.  So have, within Termine, either the reminders or all requests   *)
(* but one.                                                                *)
(***************************************************************************)
EXTENDS Sitze, Termine

ASSUME BetriebAssumption == SitzeAssumption /\ MaxSitze > 0 /\ MaxAnfragen > 0

\* Where requests overlap in full, there is one less.
SitzeInit == SInitMit(IF sEinzeln THEN SKeine ELSE [SKeine EXCEPT !.anfragen = 1])

NurErinnert == [Keine EXCEPT !.anfragen = MaxAnfragen - 1]

NieErinnert ==
  [Keine EXCEPT !.anfragen = IF einzeln THEN 0 ELSE 1, !.laeufe = MaxLaeufe, !.abstuerze = MaxAbstuerze]

TermineInit ==
  /\ einzeln \in BOOLEAN
  /\ \/ InitMit(NurErinnert, 0) /\ einzeln /\ blockieren
     \/ InitMit(NieErinnert, MaxTag) /\ blockieren = einzeln

SitzeRuhen ==
  /\ SInitMit(SAlle) /\ sEinzeln /\ nutzer = [p \in Personen |-> "kein"]
  /\ \A g \in Grenzen : grenze <= g

TermineRuhen == InitMit(Alle, MaxTag) /\ einzeln /\ blockieren /\ termine = {}

MCInit ==
  \/ sEinzeln \in BOOLEAN /\ SitzeInit /\ TermineRuhen
  \/ TermineInit /\ SitzeRuhen

MCNext == (SNext /\ UNCHANGED vars) \/ (Next /\ UNCHANGED sVars)

MCSpec == MCInit /\ [][MCNext]_<<vars, sVars>> /\ Fairness

\* Every variable of the two components has its type.
Typen == TypeOK /\ STypeOK
===============================================================================
