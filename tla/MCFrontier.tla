---------------------------- MODULE MCFrontier ----------------------------
(***************************************************************************)
(* Instances of Frontier.  MCLinks: the seed links to two pages and those  *)
(* to each other and to a third, so pushes of one URL race.                *)
(***************************************************************************)
EXTENDS Frontier, TLC

CONSTANTS a, b, c, d

MCLinks == a :> {b, c} @@ b :> {c, d} @@ c :> {b, a} @@ d :> {}
MCLinks3 == a :> {b, c} @@ b :> {c} @@ c :> {a, b}
=============================================================================
