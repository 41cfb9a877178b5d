------------------------- MODULE EventSubscription -------------------------
(***************************************************************************)
(* What an event stream promises to those who call next(), whatever tasks, *)
(* sockets and errors there are inside: a bounded, lossy, ordered          *)
(* subscription.  Events are known by their number on the wire.            *)
(***************************************************************************)
EXTENDS Naturals, FiniteSets

CONSTANTS
  Capacity,  \* how many events wait at most
  Lossy      \* an overflow costs the oldest event, not the subscription

VARIABLES
  published,  \* number of the last event accepted
  pending,    \* events waiting to be delivered
  delivered,  \* events delivered
  lost,       \* events nobody will see
  over        \* no event is accepted any more

vars == <<published, pending, delivered, lost, over>>

Oldest == CHOOSE n \in pending : \A m \in pending : n <= m

Init ==
  /\ published = 0
  /\ pending = {} /\ delivered = {} /\ lost = {}
  /\ over = FALSE

Publish ==
  /\ ~over
  /\ Cardinality(pending) < Capacity
  /\ published' = published + 1
  /\ pending' = pending \cup {published + 1}
  /\ UNCHANGED <<delivered, lost, over>>

PublishOverOldest ==
  /\ ~over /\ Lossy
  /\ Cardinality(pending) = Capacity
  /\ published' = published + 1
  /\ pending' = (pending \ {Oldest}) \cup {published + 1}
  /\ lost' = lost \cup {Oldest}
  /\ UNCHANGED <<delivered, over>>

Deliver ==
  /\ pending # {}
  /\ pending' = pending \ {Oldest}
  /\ delivered' = delivered \cup {Oldest}
  /\ UNCHANGED <<published, lost, over>>

LoseOldest ==
  /\ pending # {}
  /\ pending' = pending \ {Oldest}
  /\ lost' = lost \cup {Oldest}
  /\ UNCHANGED <<published, delivered>>

End == ~over /\ over' = TRUE /\ UNCHANGED <<published, pending, delivered, lost>>

\* Announcing the end takes a place of its own in a full subscription.
EndOverOldest == ~over /\ over' = TRUE /\ LoseOldest

AnnounceAgain == over /\ over' = TRUE /\ LoseOldest

Next == \/ Publish \/ PublishOverOldest \/ Deliver
        \/ End \/ EndOverOldest \/ AnnounceAgain

Spec == Init /\ [][Next]_vars
=============================================================================
