--------------------------- MODULE MCPublication ---------------------------
(* A small instance of Publication. *)
EXTENDS Publication, FiniteSets, TLC

AnyHandler == Permutations(Handlers)

\* Bounds: one kind of crossing at most; and once there is an event, the identity check has
\* seen one decision at most, and requests about the event meet only each other.
Narrow ==
  /\ Cardinality(raced) <= 1
  /\ event.status # "NONE" =>
       /\ Len(decisions) <= 1
       /\ (\E h \in Handlers : pc[h] \in EventLabels)
            => \A h \in Handlers : pc[h] \notin ProfileLabels
=============================================================================
