----------------------------- MODULE AdminPage -----------------------------
(***************************************************************************)
(* The page of the administrators, web/src/components/Admin.jsx: its tabs,  *)
(* the poll of the nodes, the drill-down of the builds and the record of    *)
(* what administrators did (admin/AdminActions.jsx).  The tab of the users  *)
(* is AdminUsers; rows that open, and the fields of the tiers, AdminRows.  *)
(*                                                                         *)
(* Abstracted: the figures of the overview; the use of the nodes is a       *)
(* number that grows, and so is what administrators did.                   *)
(***************************************************************************)
EXTENDS Naturals, FiniteSets

CONSTANTS
    Roles,      \* of the user
    MaxLoad,    \* bound: changes of the use of the nodes
    MaxTurns,   \* bound: changes of the tab
    MaxCalls,   \* bound: requests that are out at a time, but for the polls
    Null

AdminAssumption ==
    /\ Roles \subseteq {"root", "admin", "user"}
    /\ MaxLoad \in Nat \ {0} /\ MaxTurns \in Nat /\ MaxCalls \in Nat \ {0}

VARIABLES
    load, done,     \* use of the nodes, actions recorded, as core has them
    me,             \* the role of the user
    tab, turns,
    nodes,          \* load as it was shown last; 0 before; Null when it could not be read
    polls,          \* loops of the nodes' poll: [at, got, live]
    showBuilds,
    records,        \* the builds: Null before, "none" when they could not be read
    actions,        \* as done, Null before
    error,
    calls           \* requests that are out: [kind, got]

vars == <<load, done, me, tab, turns, nodes, polls, showBuilds, records, actions, error, calls>>

Tabs == {"overview", "users", "apps", "tiers", "actions"}

isAdmin == me \in {"admin", "root"}

\* What is below the tabs.
Screen ==
    [tab    |-> IF isAdmin THEN tab ELSE "none",
     nodes  |-> IF nodes = Null THEN "failed" ELSE IF nodes = 0 THEN "loading" ELSE "cards",
     builds |-> IF ~showBuilds THEN "closed" ELSE IF records = Null THEN "loading" ELSE records]

\* The table of the builds, and the one of the actions.
BuildRecordsTable == IF records = Null THEN "loading" ELSE records
AdminActions == IF actions = Null THEN "loading" ELSE IF actions = 0 THEN "none" ELSE "rows"

-----------------------------------------------------------------------------
Polling == [at |-> "sent", got |-> 0, live |-> TRUE]
Cancelled == {[p EXCEPT !.live = FALSE] : p \in {q \in polls : q.at = "sent"}}

Send(kind) ==
    /\ Cardinality(calls) < MaxCalls
    /\ calls' = calls \cup {[kind |-> kind, got |-> Null]}

\* The guard: a user who is no administrator is sent to the home page.
Init ==
    /\ me \in Roles
    /\ load = 1 /\ done = 0
    /\ tab = "overview" /\ turns = 0 /\ showBuilds = FALSE
    /\ records = Null /\ actions = Null /\ error = FALSE
    /\ nodes = 0 /\ polls = IF isAdmin THEN {Polling} ELSE {}
    /\ calls = IF isAdmin THEN {[kind |-> "all", got |-> Null]} ELSE {}

\* The nodes are polled while the overview is open; what was done is read whenever
\* its tab is opened.
setTab(t) ==
    /\ isAdmin /\ t # tab /\ turns < MaxTurns /\ turns' = turns + 1
    /\ tab' = t /\ polls' = Cancelled \cup (IF t = "overview" THEN {Polling} ELSE {})
    /\ IF t = "actions" THEN Send("actions") ELSE UNCHANGED calls
    /\ UNCHANGED <<load, done, me, nodes, showBuilds, records, actions, error>>

pollRest == <<load, done, me, tab, turns, showBuilds, records, actions, error, calls>>

LoadChanges ==
    /\ load < MaxLoad /\ load' = load + 1
    /\ UNCHANGED <<done, me, tab, turns, nodes, polls, showBuilds, records, actions, error, calls>>

PollRead(p) ==
    /\ p.at = "sent" /\ p.got = 0
    /\ polls' = (polls \ {p}) \cup {[p EXCEPT !.got = load]}
    /\ UNCHANGED <<pollRest, nodes>>

\* Mutant: the answer of a poll that was cancelled is taken too.
PollAnsweredAny(p) ==
    /\ p.at = "sent" /\ p.got > 0
    /\ nodes' \in {p.got, Null}
    /\ polls' = (polls \ {p}) \cup (IF p.live THEN {[p EXCEPT !.at = "wait", !.got = 0]} ELSE {})
    /\ UNCHANGED pollRest

\* An answer of a poll that was cancelled is dropped.
PollAnswered(p) ==
    /\ p.at = "sent" /\ p.got > 0
    /\ IF p.live
       THEN /\ nodes' \in {p.got, Null}
            /\ polls' = (polls \ {p}) \cup {[p EXCEPT !.at = "wait", !.got = 0]}
       ELSE polls' = polls \ {p} /\ UNCHANGED nodes
    /\ UNCHANGED pollRest

PollAgain(p) ==
    /\ p.at = "wait" /\ polls' = (polls \ {p}) \cup {Polling}
    /\ UNCHANGED <<pollRest, nodes>>

\* The builds are read when their card is first opened, and kept.
toggleBuilds ==
    /\ isAdmin /\ tab = "overview" /\ showBuilds' = ~showBuilds
    /\ IF ~showBuilds /\ records = Null THEN Send("records") ELSE UNCHANGED calls
    /\ UNCHANGED <<load, done, me, tab, turns, nodes, polls, records, actions, error>>

\* An administrator acts, here or elsewhere; or an account was ended on this page
\* (onDone), when what was read is forgotten.
ActionDone ==
    /\ done < MaxLoad /\ done' = done + 1
    /\ \/ UNCHANGED <<actions, calls>>
       \/ tab = "users" /\ actions' = Null /\ Send("all")
    /\ UNCHANGED <<load, me, tab, turns, nodes, polls, showBuilds, records, error>>

Read(c) ==
    /\ c.got = Null /\ calls' = (calls \ {c}) \cup {[c EXCEPT !.got = done]}
    /\ UNCHANGED <<load, done, me, tab, turns, nodes, polls, showBuilds, records, actions, error>>

listRest == <<load, done, me, tab, turns, nodes, polls, showBuilds>>

Answered(c) ==
    /\ c.got # Null /\ calls' = calls \ {c}
    /\ records' = IF c.kind = "records" THEN "rows" ELSE records
    /\ actions' = IF c.kind = "actions" THEN c.got ELSE actions
    /\ error' = (error /\ c.kind # "all")
    /\ UNCHANGED listRest

Fails(c) ==
    /\ calls' = calls \ {c}
    /\ records' = IF c.kind = "records" THEN "none" ELSE records
    /\ actions' = IF c.kind = "actions" THEN 0 ELSE actions
    /\ error' = (error \/ c.kind # "records")
    /\ UNCHANGED listRest

Next ==
    \/ \E t \in Tabs : setTab(t)
    \/ LoadChanges \/ toggleBuilds \/ ActionDone
    \/ \E p \in polls : PollRead(p) \/ PollAnswered(p) \/ PollAgain(p)
    \/ \E c \in calls : Read(c) \/ Answered(c) \/ Fails(c)

Spec == Init /\ [][Next]_vars

-----------------------------------------------------------------------------
TypeOK ==
    /\ tab \in Tabs /\ Screen.tab \in Tabs \cup {"none"} /\ turns \in 0 .. MaxTurns
    /\ nodes \in {Null} \cup 0 .. MaxLoad /\ actions \in {Null} \cup 0 .. MaxLoad
    /\ records \in {Null, "rows", "none"} /\ Screen.builds \in {"closed", BuildRecordsTable}
    /\ AdminActions \in {"loading", "none", "rows"}
    /\ error \in BOOLEAN /\ Cardinality(calls) <= MaxCalls

\* However often the overview is left and opened again, the use of the nodes that
\* it shows is never replaced by an earlier one, which a poll before had asked for.
NodesGoForward == nodes # Null /\ nodes' # Null => nodes' >= nodes

\* What each step keeps: one poll at most is not cancelled, what it has read is no
\* older than what is shown, and nothing is newer than the use of the nodes itself.
NodesInv ==
    /\ load \in Nat /\ (nodes # Null => nodes \in Nat /\ nodes <= load)
    /\ polls \subseteq [at : {"sent", "wait"}, got : Nat, live : BOOLEAN]
    /\ \A p \in polls : /\ p.got <= load
                        /\ p.at = "wait" => p.live /\ p.got = 0
                        /\ p.live /\ p.got > 0 /\ nodes # Null => nodes <= p.got
    /\ \A p, q \in polls : p.live /\ q.live => p = q

\* The inductive invariant behind the types.
TypeInv ==
    /\ TypeOK /\ NodesInv
    /\ load \in 0 .. MaxLoad /\ done \in 0 .. MaxLoad
    /\ IsFiniteSet(calls)
    /\ calls \subseteq [kind : {"all", "actions", "records"}, got : {Null} \cup 0 .. MaxLoad]

=============================================================================
