--------------------------- MODULE OrderedDelivery ---------------------------
(***************************************************************************)
(* What the event channel of a build promises, without numbers, requests   *)
(* or annotations: the events of one builder process reach core in the     *)
(* order they were submitted, none skipped and none twice.  When the       *)
(* process ends, what it had not handed over is lost, except that the one  *)
(* event it was sending may still arrive, before anything newer has.       *)
(*                                                                         *)
(* Events are the numbers 1, 2, ... in the order they are submitted.       *)
(***************************************************************************)
EXTENDS Integers, Sequences

CONSTANT Bound  \* bound: events submitted

VARIABLES
    count,      \* events submitted so far
    pending,    \* events of the running process that core does not have
    late,       \* events of dead processes that may still arrive
    delivered   \* events core has applied, in the order it applied them

vars == <<count, pending, late, delivered>>

Init ==
    /\ count = 0
    /\ pending = <<>> /\ delivered = <<>>
    /\ late = {}

Submit ==
    /\ count < Bound
    /\ count' = count + 1
    /\ pending' = Append(pending, count')
    /\ UNCHANGED <<late, delivered>>

Deliver ==
    /\ pending # <<>>
    /\ delivered' = Append(delivered, Head(pending))
    /\ pending' = Tail(pending)
    /\ late' = {}
    /\ UNCHANGED count

DeliverLate ==
    \E e \in late :
        /\ delivered' = Append(delivered, e)
        /\ late' = {x \in late : x > e}
        /\ UNCHANGED <<count, pending>>

\* A late event is lost after all.
Forget ==
    /\ late' \in SUBSET late
    /\ UNCHANGED <<count, pending, delivered>>

Crash ==
    /\ pending' = <<>>
    /\ \/ late' = late
       \/ pending # <<>> /\ late' = late \cup {Head(pending)}
    /\ UNCHANGED <<count, delivered>>

Next == Submit \/ Deliver \/ DeliverLate \/ Forget \/ Crash

Spec == Init /\ [][Next]_vars
===============================================================================
