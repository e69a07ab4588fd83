------------------------------ MODULE MCCrawl ------------------------------
(***************************************************************************)
(* Instances of Crawl.  The seed a is on host h1; where it redirects, that *)
(* is to h2.                                                               *)
(***************************************************************************)
EXTENDS Crawl, TLC

CONSTANTS a, b, c, d, e, h1, h2

(* Pages that link to each other with one on the host the seed was         *)
(* redirected from; and a chain beside a short cut.                        *)
Redirect == a :> {b, c, d} @@ b :> {c} @@ c :> {a, b} @@ d :> {}
Shortcut == a :> {b, c} @@ b :> {d} @@ c :> {e} @@ d :> {e} @@ e :> {}

ScopedLinks == [u \in Urls |-> {v \in Hrefs[u] : InScope(v, FinalHost[Seed])}]

AllOnH1 == [u \in Urls |-> h1]
AllOnH2 == [u \in Urls |-> h2]
ADOnH1 == [u \in Urls |-> IF u \in {a, d} THEN h1 ELSE h2]
=============================================================================
