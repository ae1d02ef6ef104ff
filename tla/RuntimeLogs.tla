----------------------------- MODULE RuntimeLogs -----------------------------
(***************************************************************************)
(* LogSide of web/src/components/app/AppWorkspace.jsx: a snapshot of the    *)
(* logs of the app's pod, of the instance before the last restart too, and *)
(* a button that asks again.                                               *)
(*                                                                         *)
(* Abstracted: a list of lines is "none", "plain" or "errors" (some line    *)
(* has that level); the filters are "all" or "error", the search works the *)
(* same way.                                                               *)
(***************************************************************************)
EXTENDS Naturals

CONSTANT MaxLoads   \* bound: requests

LogsAssumption == MaxLoads \in Nat \ {0}

VARIABLES
    pod,        \* what core would answer now: the lines of the two instances
    asked,      \* what core read for the request on its way
    lines, previous, source, error, loading, level,
    loads

shownVars == <<lines, previous, source, error, level>>
vars == <<pod, asked, shownVars, loading, loads>>

Content == {"none", "plain", "errors"}
Pods == [current : Content, previous : Content]

LogRows == IF source = "previous" THEN previous ELSE lines

LogPane ==
    IF error THEN "error"
    ELSE IF LogRows = "none" THEN IF loading THEN "loading" ELSE "no logs"
    ELSE IF level = "error" /\ LogRows # "errors" THEN "no match"
    ELSE "lines"

-----------------------------------------------------------------------------
\* Mounted: the first request is on its way.
Init ==
    /\ pod \in Pods /\ asked = pod
    /\ lines = "none" /\ previous = "none" /\ source = "current"
    /\ error = FALSE /\ level = "all" /\ loading = TRUE
    /\ loads = 1

\* The pod writes lines, restarts, or is replaced by the pod of a new build.
PodChanges ==
    /\ pod' \in Pods
    /\ UNCHANGED <<asked, shownVars, loading, loads>>

Load ==
    /\ ~loading /\ loads < MaxLoads
    /\ loading' = TRUE /\ loads' = loads + 1 /\ asked' = pod
    /\ UNCHANGED <<pod, shownVars>>

Loaded ==
    /\ loading /\ loading' = FALSE
    /\ error' = FALSE /\ lines' = asked.current /\ previous' = asked.previous
    /\ UNCHANGED <<pod, asked, source, level, loads>>

\* An answer that says why there are no logs.
LoadedError ==
    /\ loading /\ loading' = FALSE
    /\ error' = TRUE /\ lines' = "none" /\ previous' = "none"
    /\ UNCHANGED <<pod, asked, source, level, loads>>

LoadFails ==
    /\ loading /\ loading' = FALSE /\ error' = TRUE
    /\ UNCHANGED <<pod, asked, lines, previous, source, level, loads>>

\* The switch is there only when there are lines of an earlier instance.
SetSource(s) ==
    /\ previous # "none" /\ source' = s
    /\ UNCHANGED <<pod, asked, lines, previous, error, level, loading, loads>>

SetLevel(l) ==
    /\ level' = l
    /\ UNCHANGED <<pod, asked, lines, previous, source, error, loading, loads>>

Next ==
    \/ PodChanges \/ Load \/ Loaded \/ LoadedError \/ LoadFails
    \/ \E s \in {"current", "previous"} : SetSource(s)
    \/ \E l \in {"all", "error"} : SetLevel(l)

Spec == Init /\ [][Next]_vars

-----------------------------------------------------------------------------
TypeOK ==
    /\ {pod, asked} \subseteq Pods /\ {lines, previous} \subseteq Content
    /\ LogPane \in {"error", "loading", "no logs", "no match", "lines"}
    /\ loads \in 1 .. MaxLoads

=============================================================================
