------------------------------- MODULE Notify -------------------------------
(***************************************************************************)
(* tokio::sync::Notify as frontier.rs uses it.  External code: the model   *)
(* keeps what the crate documents.  notify_one() wakes one registered      *)
(* waiter or stores ONE permit; notify_waiters() wakes every registered    *)
(* waiter and every Notified future created earlier but not yet polled,    *)
(* and stores nothing.  A Notified future registers on its first poll.     *)
(***************************************************************************)
CONSTANT Workers

VARIABLES permit,   \* notify_one's stored permit: one bit, never a count
          ticket    \* ticket[w]: the state of w's current Notified future

notifyVars == <<permit, ticket>>

(* "none": no future; "armed": created, not polled; "fired": passed over   *)
(* by notify_waiters before its poll; "waiting": registered, task asleep;  *)
(* "woken": registered and released, task runnable.                        *)
TicketStates == {"none", "armed", "fired", "waiting", "woken"}

NotifyTypeOK == /\ permit \in BOOLEAN
                /\ ticket \in [Workers -> TicketStates]

NotifyInit == /\ permit = FALSE
              /\ ticket = [w \in Workers |-> "none"]

Waiting == {w \in Workers : ticket[w] = "waiting"}

Notified(w) == /\ ticket' = [ticket EXCEPT ![w] = "armed"]
               /\ UNCHANGED permit

Drop(w) == /\ ticket' = [ticket EXCEPT ![w] = "none"]
           /\ UNCHANGED permit

(* The first poll of w's future: TRUE exactly when it completes at once.   *)
PollReady(w) == permit \/ ticket[w] = "fired"

ConsumePermit(w) == /\ permit' = FALSE
                    /\ ticket' = [ticket EXCEPT ![w] = "none"]

Register(w) == /\ ticket' = [ticket EXCEPT ![w] = "waiting"]
               /\ UNCHANGED permit

NotifyOne ==
  \/ /\ Waiting = {}
     /\ permit' = TRUE
     /\ UNCHANGED ticket
  \/ /\ \E w \in Waiting : ticket' = [ticket EXCEPT ![w] = "woken"]
     /\ UNCHANGED permit

(* What a waiter's future becomes when notify_waiters passes.              *)
Released(t) == CASE t = "armed"   -> "fired"
                 [] t = "waiting" -> "woken"
                 [] OTHER         -> t

NotifyWaiters == /\ ticket' = [w \in Workers |-> Released(ticket[w])]
                 /\ UNCHANGED permit
=============================================================================
