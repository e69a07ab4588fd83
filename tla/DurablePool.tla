---------------------------- MODULE DurablePool ----------------------------
(***************************************************************************)
(* What a persistent frontier promises over any number of processes: the   *)
(* same pool, to which a crash gives back whatever was taken.  Nothing     *)
(* else is undone, and no more than one URL is lost, one that somebody was *)
(* just offering.                                                          *)
(***************************************************************************)
EXTENDS WorkPool

GivenBack == [u \in Urls |-> IF status[u] = "leased" THEN "queued" ELSE status[u]]

Crash == /\ \/ status' = GivenBack
            \/ \E u \in Urls : /\ MayOffer(u)
                               /\ status' = [GivenBack EXCEPT ![u] = "done"]
         /\ open' = TRUE
         /\ gone' = {}

DurableNext == Next \/ Crash

DurableSpec == Init /\ [][DurableNext]_vars
=============================================================================
