--------------------------------- MODULE Server ---------------------------------
(***************************************************************************)
(* What the modules of one deployment share: one server process works on   *)
(* several requests at the same time, and may crash.  Modules that are     *)
(* composed with others give the names they would have in common a prefix: *)
(* s in Sitze, z in Anzahlungen, l in Lager, a in Abo.                     *)
(***************************************************************************)
CONSTANTS
  Anfragen,        \* the requests the server works on at the same time
  MaxAbstuerze     \* bound: how often the server process crashes
===============================================================================
