--------------------------- MODULE DeliveryQueue ---------------------------
(***************************************************************************)
(* What a transactional outbox promises, without tables, claims or clocks: *)
(* a message that was accepted is delivered at least once before it is     *)
(* acknowledged, is acknowledged at most once, and is never forgotten.     *)
(* A delivery may be repeated at any time, even after the acknowledgement. *)
(***************************************************************************)
CONSTANT Messages

VARIABLES
    accepted,       \* messages in the queue's custody
    delivered,      \* messages handed to a consumer at least once
    acknowledged    \* messages that are done

dvars == <<accepted, delivered, acknowledged>>

DInit ==
    /\ accepted = {}
    /\ delivered = {}
    /\ acknowledged = {}

Accept(m) ==
    /\ accepted' = accepted \cup {m}
    /\ UNCHANGED <<delivered, acknowledged>>

Deliver(m) ==
    /\ m \in accepted
    /\ delivered' = delivered \cup {m}
    /\ UNCHANGED <<accepted, acknowledged>>

Acknowledge(m) ==
    /\ m \in delivered
    /\ acknowledged' = acknowledged \cup {m}
    /\ UNCHANGED <<accepted, delivered>>

DNext == \E m \in Messages : Accept(m) \/ Deliver(m) \/ Acknowledge(m)

DSpec == DInit /\ [][DNext]_dvars
=============================================================================
