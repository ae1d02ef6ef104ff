----------------------------- MODULE AdminRows -----------------------------
(***************************************************************************)
(* What the page of the administrators shows inside a row: the stack and    *)
(* the pods of an app (web/src/components/admin/AdminApps.jsx), the pods of *)
(* a node (NodeCard of web/src/components/Admin.jsx), and the number of apps *)
(* of a tier, which root may change (TierTable and LimitInput).             *)
(*                                                                         *)
(* Abstracted: figures, chips and links.  Limits are numbers, Null for      *)
(* none; 0 stands for all that is no positive integer.                      *)
(***************************************************************************)
EXTENDS Naturals

CONSTANTS
    Apps,
    Roles,      \* of the user: "root" or "admin"
    MaxLimit,   \* bound: limits that are typed
    MaxCalls,   \* bound: requests for the same thing that are out
    Null

RowsAssumption ==
    /\ Null \notin Apps \cup {"rows"} /\ Roles \subseteq {"root", "admin"}
    /\ MaxLimit \in Nat /\ MaxCalls \in Nat \ {0}

VARIABLES
    me,
    expanded, details,  \* of AdminApps; of each app Null, "stack" or "error"
    asked,              \* requests for the details that are out, of each app
    open, pods, podsError, podsAsked,   \* of NodeCard
    limit,              \* of the tier, as core has it
    shown, value,       \* as it was listed; what is in the field
    saves, lists        \* limits being saved, and how many lists of the tiers are out

appVars == <<expanded, details, asked>>
nodeVars == <<open, pods, podsError, podsAsked>>
tierVars == <<limit, shown, value, saves, lists>>
vars == <<me, appVars, nodeVars, tierVars>>

Limits == {Null} \cup 1 .. MaxLimit

editable == me = "root"

\* A row that is open: its stack, an error, or neither yet.
Stack(a) == IF details[a] = Null THEN "loading" ELSE details[a]
AppRow(a) == [stack |-> IF expanded = a THEN Stack(a) ELSE "closed",
              hint  |-> IF me = "root" THEN "as owner" ELSE "to look at"]

\* The pods of a node that is open; what failed once is said ever after.
NodePods ==
    [error   |-> open /\ podsError,
     table   |-> open /\ pods = "rows",
     loading |-> open /\ ~podsError /\ pods = Null]

-----------------------------------------------------------------------------
Init ==
    /\ me \in Roles
    /\ expanded = Null /\ details = [a \in Apps |-> Null] /\ asked = [a \in Apps |-> 0]
    /\ open = FALSE /\ pods = Null /\ podsError = FALSE /\ podsAsked = 0
    /\ limit \in Limits /\ shown = limit /\ value = shown /\ saves = {} /\ lists = 0

\* The details of an app are asked for when there are none yet, an error included.
toggle(a) ==
    LET next == IF expanded = a THEN Null ELSE a
    IN /\ expanded' = next
       /\ IF next # Null /\ details[a] = Null
          THEN asked[a] < MaxCalls /\ asked' = [asked EXCEPT ![a] = @ + 1]
          ELSE UNCHANGED asked
       /\ UNCHANGED <<me, details, nodeVars, tierVars>>

DetailsCame(a, what) ==
    /\ asked[a] > 0 /\ asked' = [asked EXCEPT ![a] = @ - 1]
    /\ details' = [details EXCEPT ![a] = what]
    /\ UNCHANGED <<me, expanded, nodeVars, tierVars>>

\* Another tab: the rows lose their state, and nobody takes the answers.
LeaveApps ==
    /\ expanded' = Null /\ details' = [a \in Apps |-> Null] /\ asked' = [a \in Apps |-> 0]
    /\ UNCHANGED <<me, nodeVars, tierVars>>

toggleNode ==
    /\ open' = ~open
    /\ IF ~open /\ pods = Null
       THEN podsAsked < MaxCalls /\ podsAsked' = podsAsked + 1
       ELSE UNCHANGED podsAsked
    /\ UNCHANGED <<me, pods, podsError, appVars, tierVars>>

PodsCame(error) ==
    /\ podsAsked > 0 /\ podsAsked' = podsAsked - 1
    /\ IF error THEN podsError' = TRUE /\ UNCHANGED pods
       ELSE pods' \in {"rows", "none"} /\ UNCHANGED podsError
    /\ UNCHANGED <<me, open, appVars, tierVars>>

-----------------------------------------------------------------------------
tierRest == <<me, appVars, nodeVars>>

Type(v) ==
    /\ editable /\ value' = v
    /\ UNCHANGED <<tierRest, limit, shown, saves, lists>>

\* On Enter, or when the field is left.
commit ==
    /\ editable /\ value # shown
    /\ IF value = 0 THEN value' = shown /\ UNCHANGED saves
       ELSE saves' = saves \cup {value} /\ UNCHANGED value
    /\ UNCHANGED <<tierRest, limit, shown, lists>>

Saved(n) ==
    /\ n \in saves /\ lists < MaxCalls
    /\ saves' = saves \ {n} /\ limit' = n /\ lists' = lists + 1
    /\ UNCHANGED <<tierRest, shown, value>>

\* The field keeps what was typed, saved or not.
SaveFails(n) ==
    /\ n \in saves /\ saves' = saves \ {n}
    /\ UNCHANGED <<tierRest, limit, shown, value, lists>>

\* When the tier is listed with another limit the field comes to show it.
TiersListed ==
    /\ lists > 0 /\ lists' = lists - 1
    /\ shown' = limit /\ value' = IF shown' # shown THEN shown' ELSE value
    /\ UNCHANGED <<tierRest, limit, saves>>

TiersFail == lists > 0 /\ lists' = lists - 1 /\ UNCHANGED <<tierRest, limit, shown, value, saves>>

\* Other pages: the tiers are also listed when a user gets another one.
TiersAsked == lists < MaxCalls /\ lists' = lists + 1 /\ UNCHANGED <<tierRest, limit, shown, value, saves>>

Next ==
    \/ \E a \in Apps : toggle(a) \/ \E d \in {"stack", "error"} : DetailsCame(a, d)
    \/ LeaveApps \/ toggleNode
    \/ \E error \in BOOLEAN : PodsCame(error)
    \/ \E v \in Limits \cup {0} : Type(v)
    \/ commit \/ TiersListed \/ TiersFail \/ TiersAsked
    \/ \E n \in Limits : Saved(n) \/ SaveFails(n)

Spec == Init /\ [][Next]_vars

-----------------------------------------------------------------------------
TypeOK ==
    /\ expanded \in Apps \cup {Null} /\ asked \in [Apps -> 0 .. MaxCalls]
    /\ \A a \in Apps : AppRow(a).stack \in {"closed", "loading", "error", "stack"}
    /\ NodePods.loading => ~NodePods.table
    /\ limit \in Limits /\ shown \in Limits /\ value \in Limits \cup {0}
    /\ saves \subseteq Limits /\ lists \in 0 .. MaxCalls

\* The inductive invariant behind it.
TypeInv == TypeOK /\ details \in [Apps -> {Null, "stack", "error"}]

=============================================================================
