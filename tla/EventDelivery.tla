---------------------------- MODULE EventDelivery ----------------------------
(***************************************************************************)
(* What the transactional outbox promises to a use case that publishes an  *)
(* integration event: once the domain change commits the event is owed;    *)
(* its handlers run at least once before it is settled; the only other end *)
(* is that delivery is given up after the retries; neither end is ever     *)
(* revisited.  Nothing is said of rows, claims, jobs or workers.           *)
(***************************************************************************)
CONSTANT Event          \* the integration events

VARIABLES
    outcome,            \* what has become of each event
    handled             \* the events whose handlers all ran at least once

deliveryVars == <<outcome, handled>>

Outcome == {"unpublished", "owed", "settled", "givenUp"}

DeliveryTypeOK ==
    /\ outcome \in [Event -> Outcome]
    /\ handled \subseteq Event

Init ==
    /\ outcome = [e \in Event |-> "unpublished"]
    /\ handled = {}

\* The publishing transaction commits.
Publish(e) ==
    /\ outcome[e] = "unpublished"
    /\ outcome' = [outcome EXCEPT ![e] = "owed"]
    /\ UNCHANGED handled

\* All handlers of e run: possibly again, possibly after e was settled, never
\* before it was published.
Handle(e) ==
    /\ outcome[e] # "unpublished"
    /\ handled' = handled \union {e}
    /\ UNCHANGED outcome

Settle(e) ==
    /\ outcome[e] = "owed"
    /\ e \in handled
    /\ outcome' = [outcome EXCEPT ![e] = "settled"]
    /\ UNCHANGED handled

GiveUp(e) ==
    /\ outcome[e] = "owed"
    /\ outcome' = [outcome EXCEPT ![e] = "givenUp"]
    /\ UNCHANGED handled

Next == \E e \in Event : Publish(e) \/ Handle(e) \/ Settle(e) \/ GiveUp(e)

Spec == Init /\ [][Next]_deliveryVars
==============================================================================
