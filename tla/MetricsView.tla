---------------------------- MODULE MetricsView ----------------------------
(***************************************************************************)
(* The monitoring view, web/src/components/app/MetricsView.jsx: the figures *)
(* of a range of time, read when the range is chosen, by a button, and      *)
(* every 30 seconds whether or not an answer is still to come; and the      *)
(* chart of one metric.  No request is given up or numbered: an answer for  *)
(* a range that was left is shown under the one that was chosen since.      *)
(*                                                                         *)
(* Abstracted: a series is a number of points, the same for all metrics of  *)
(* an answer; the figures of the list are left out.                        *)
(***************************************************************************)
EXTENDS Naturals

CONSTANTS
    Ranges, FirstRange,
    Metrics,    \* the ids, "cpu" among them
    Points,     \* of each range, the lengths its series may have
    MaxTicks,   \* bound: loads of a range that are out at a time
    Null

MetricsAssumption ==
    /\ FirstRange \in Ranges /\ "cpu" \in Metrics
    /\ Points \in [Ranges -> SUBSET Nat] /\ MaxTicks \in Nat \ {0}

VARIABLES
    range, picked,
    data,       \* Null, or the answer shown: [range, points]
    error, loading, fetched,
    hover,      \* index of the point under the pointer, Null
    out         \* how many loads of each range are out

loadVars == <<data, error, loading, fetched, out>>
vars == <<range, picked, hover, loadVars>>

-----------------------------------------------------------------------------
\* The chart: nothing without a point, and the point under the pointer only when
\* the series, which may be another by now, has one at that place.
series == IF data = Null THEN 0 ELSE data.points
Chart ==
    [drawn |-> series > 0,
     mark  |-> IF series > 0 /\ hover # Null /\ hover < series THEN {hover} ELSE {}]

Status == IF data = Null THEN "loading" ELSE "figures"

-----------------------------------------------------------------------------
\* The effect of load: at once, and a timer.
Init ==
    /\ range = FirstRange /\ picked = "cpu" /\ hover = Null
    /\ data = Null /\ error = FALSE /\ loading = TRUE /\ fetched = FALSE
    /\ out = [r \in Ranges |-> IF r = FirstRange THEN 1 ELSE 0]

Load(r) == out[r] < MaxTicks /\ loading' = TRUE /\ out' = [out EXCEPT ![r] = @ + 1]

setRange(r) ==
    /\ r # range /\ range' = r /\ Load(r)
    /\ UNCHANGED <<picked, hover, data, error, fetched>>

\* Mutant: the timer keeps the range it was set with.
TickOfFirst ==
    /\ Load(FirstRange)
    /\ UNCHANGED <<range, picked, hover, data, error, fetched>>

\* The interval; it waits for no answer.
Tick ==
    /\ Load(range)
    /\ UNCHANGED <<range, picked, hover, data, error, fetched>>

Refresh == ~loading /\ Tick

Loaded(r) ==
    /\ out[r] > 0 /\ out' = [out EXCEPT ![r] = @ - 1]
    /\ \E n \in Points[r] : data' = [range |-> r, points |-> n]
    /\ error' = FALSE /\ loading' = FALSE /\ fetched' = TRUE
    /\ UNCHANGED <<range, picked, hover>>

LoadFails(r) ==
    /\ out[r] > 0 /\ out' = [out EXCEPT ![r] = @ - 1]
    /\ error' = TRUE /\ loading' = FALSE /\ fetched' = TRUE
    /\ UNCHANGED <<range, picked, hover, data>>

setPicked(m) == picked' = m /\ UNCHANGED <<range, hover, loadVars>>

\* The pointer over the chart, beside it, or gone.
onMove ==
    /\ series > 0 /\ hover' \in {Null} \cup 0 .. (series - 1)
    /\ UNCHANGED <<range, picked, loadVars>>

Next ==
    \/ \E r \in Ranges : setRange(r) \/ Loaded(r) \/ LoadFails(r)
    \/ Tick \/ Refresh
    \/ \E m \in Metrics : setPicked(m)
    \/ onMove

Spec == Init /\ [][Next]_vars

-----------------------------------------------------------------------------
TypeOK ==
    /\ range \in Ranges /\ picked \in Metrics /\ out \in [Ranges -> 0 .. MaxTicks]
    /\ data # Null => data.range \in Ranges /\ data.points \in Points[data.range]
    /\ Chart.mark \subseteq Nat /\ Status \in {"loading", "figures"}
    /\ error \in BOOLEAN /\ loading \in BOOLEAN /\ fetched \in BOOLEAN

\* The inductive invariant behind it.
TypeInv == TypeOK /\ hover \in {Null} \cup Nat

\* The figures are of the range that is chosen.
OfRange == data # Null /\ data.range = range

=============================================================================
