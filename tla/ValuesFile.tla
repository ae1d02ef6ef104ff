------------------------------ MODULE ValuesFile ------------------------------
(***************************************************************************)
(* What gitops.Writer promises, without GitHub, reads or retries: each     *)
(* change is merged into the file as it is at that moment, at once and at  *)
(* most once, and an answer without an error means that it was.  A change  *)
(* answered with an error, or given up, may be merged all the same, later. *)
(***************************************************************************)
EXTENDS ValuesMerge

CONSTANT Requests

VARIABLES
    change,  \* the change each request asks for
    result,  \* none, waiting, merged or error
    file,    \* the values in git
    merged   \* requests whose change is in the file's history

vars == <<change, result, file, merged>>

Init ==
    /\ result = [r \in Requests |-> "none"]
    /\ change \in [Requests -> Change]
    /\ file \in Values \cup {NoFile}
    /\ merged = {}

Ask(r) ==
    /\ result[r] = "none"
    /\ result' = [result EXCEPT ![r] = "waiting"]
    /\ \E c \in Change : change' = [change EXCEPT ![r] = c]
    /\ UNCHANGED <<file, merged>>

Apply(r) ==
    /\ result[r] # "none" /\ r \notin merged
    /\ Applicable(file, change[r])
    /\ file' = After(file, change[r])
    /\ merged' = merged \cup {r}
    /\ \/ UNCHANGED result
       \/ result[r] = "waiting" /\ result' = [result EXCEPT ![r] = "merged"]
    /\ UNCHANGED change

Answer(r) ==
    /\ result[r] = "waiting"
    /\ \/ r \in merged /\ result' = [result EXCEPT ![r] = "merged"]
       \/ result' = [result EXCEPT ![r] = "error"]
    /\ UNCHANGED <<change, file, merged>>

Next == \E r \in Requests : Ask(r) \/ Apply(r) \/ Answer(r)

Spec == Init /\ [][Next]_vars
===============================================================================
