----------------------------- MODULE Kassenjournal -----------------------------
(***************************************************************************)
(* What the cash book promises (kassenbuch-eintrag.entity.ts, the comment  *)
(* on the table): one journal per tenant whose entries are numbered by     *)
(* their position, each carrying the running balance after it.  Drafts can *)
(* be corrected only at the end, fixed entries never; a fixed entry is     *)
(* corrected by one mirrored counter-entry.  Every operation is one step.  *)
(* The position plays the part of laufendeNummer, so the numbers have no   *)
(* gap; Kassenbuch shows that the table with its numbers, unique indexes   *)
(* and concurrent requests behaves like this journal.                      *)
(***************************************************************************)
EXTENDS Sequences, KassenbuchRegeln

CONSTANT Betraege            \* the amounts, in cents, a request may book

VARIABLE journal

Buchung == [typ : Typen, betrag : Betraege, saldo : Nat,
            fest : BOOLEAN, storno : Nat]

SaldoBis(n) == IF n = 0 THEN 0 ELSE journal[n].saldo

JInit == journal = <<>>

Buche(typ, betrag, fest, original) ==
  /\ ~ wuerdeBestandNegativ(SaldoBis(Len(journal)), typ, betrag)
  /\ journal' = Append(journal,
       [typ |-> typ, betrag |-> betrag,
        saldo |-> berechneKassenbestandNach(SaldoBis(Len(journal)), typ, betrag),
        fest |-> fest, storno |-> original])

Anlegen == \E typ \in Typen, betrag \in Betraege : Buche(typ, betrag, FALSE, 0)

AendereLetzte ==
  LET n == Len(journal)
  IN /\ n > 0
     /\ ~ journal[n].fest
     /\ \E typ \in Typen, betrag \in Betraege :
          /\ ~ wuerdeBestandNegativ(SaldoBis(n - 1), typ, betrag)
          /\ journal' = [journal EXCEPT ![n] =
               [@ EXCEPT !.typ = typ, !.betrag = betrag,
                 !.saldo = berechneKassenbestandNach(SaldoBis(n - 1), typ, betrag)]]

EntferneLetzte ==
  /\ journal # <<>>
  /\ ~ journal[Len(journal)].fest
  /\ journal' = SubSeq(journal, 1, Len(journal) - 1)

SchreibeFestBis(n) ==
  journal' = [k \in DOMAIN journal |->
                IF k <= n THEN [journal[k] EXCEPT !.fest = TRUE] ELSE journal[k]]

Storniere(n) ==
  /\ journal[n].fest
  /\ journal[n].storno = 0
  /\ \A k \in DOMAIN journal : journal[k].storno # n
  /\ Buche(gegenTyp(journal[n].typ), journal[n].betrag, TRUE, n)

JNext ==
  \/ Anlegen
  \/ AendereLetzte
  \/ EntferneLetzte
  \/ \E n \in DOMAIN journal : SchreibeFestBis(n) \/ Storniere(n)

JSpec == JInit /\ [][JNext]_journal

(***************************************************************************)
(* The shape of a journal.                                                 *)
(***************************************************************************)
JTypeOK == journal \in Seq(Buchung)

\* Every entry carries the balance of its predecessor plus or minus its own
\* amount (the "Verkettung" of the entity comment): no entry was computed from a
\* balance that is not the one before it.
Kette ==
  \A n \in DOMAIN journal :
    journal[n].saldo =
      berechneKassenbestandNach(SaldoBis(n - 1), journal[n].typ, journal[n].betrag)

\* A counter-entry is fixed, points back to one earlier fixed ordinary entry,
\* reverses its direction and repeats its amount, and no entry has two of them.
Spiegel ==
  \A n \in DOMAIN journal :
    LET o == journal[n].storno
    IN o # 0 =>
         /\ o \in 1 .. n - 1
         /\ journal[n].fest /\ journal[o].fest /\ journal[o].storno = 0
         /\ journal[n].typ = gegenTyp(journal[o].typ)
         /\ journal[n].betrag = journal[o].betrag
         /\ \A k \in DOMAIN journal : journal[k].storno = o => k = n

\* Nothing a step does touches a fixed entry: it keeps its place and its
\* contents for ever ("Unveraenderbarkeit").
FestBleibt ==
  [][\A n \in DOMAIN journal :
       journal[n].fest => n \in DOMAIN journal' /\ journal'[n] = journal[n]]_journal
===============================================================================
