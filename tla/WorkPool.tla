------------------------------ MODULE WorkPool ------------------------------
(***************************************************************************)
(* What the frontier promises its workers: a pool in which every URL is    *)
(* offered once, taken once and settled once; work is only added by        *)
(* somebody who is working; and a worker is sent home when it was closed   *)
(* or when nothing is left, now and for ever.                              *)
(***************************************************************************)
CONSTANTS Workers, Urls, Seed

VARIABLES status,  \* status[u]: "new", "queued", "leased" or "done"
          open,    \* FALSE once stop() was called
          gone     \* the workers pop has sent home with None

vars == <<status, open, gone>>

TypeOK == /\ status \in [Urls -> {"new", "queued", "leased", "done"}]
          /\ open \in BOOLEAN
          /\ gone \subseteq Workers

In(s) == {u \in Urls : status[u] = s}

Idle == In("queued") \cup In("leased") = {}

Init == /\ status = [u \in Urls |-> "new"]
        /\ open = TRUE
        /\ gone = {}

(* Somebody is at work, or it is the first offer.                          *)
MayOffer(u) == /\ status[u] = "new"
               /\ \/ In("leased") # {}
                  \/ u = Seed /\ In("new") = Urls

Offer(u) == /\ MayOffer(u)
            /\ status' = [status EXCEPT ![u] = "queued"]
            /\ UNCHANGED <<open, gone>>

Take(u) == /\ status[u] = "queued"
           /\ status' = [status EXCEPT ![u] = "leased"]
           /\ UNCHANGED <<open, gone>>

Settle(u) == /\ status[u] = "leased"
             /\ status' = [status EXCEPT ![u] = "done"]
             /\ UNCHANGED <<open, gone>>

Close == /\ open' = FALSE
         /\ UNCHANGED <<status, gone>>

Leave(w) == /\ w \notin gone
            /\ ~open \/ Idle
            /\ gone' = gone \cup {w}
            /\ UNCHANGED <<status, open>>

Next == \/ \E u \in Urls : Offer(u) \/ Take(u) \/ Settle(u)
        \/ Close
        \/ \E w \in Workers : Leave(w)

Spec == Init /\ [][Next]_vars
=============================================================================
