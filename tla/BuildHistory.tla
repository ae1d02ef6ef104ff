---------------------------- MODULE BuildHistory ----------------------------
(***************************************************************************)
(* The tab of the deployments (web/src/components/app/AppHistory.jsx): the  *)
(* list as AppLayout polls it, and the detail of the build selected         *)
(* (BuildDetail.jsx), which polls that build itself while it is under way   *)
(* and offers to roll back to it.                                           *)
(*                                                                         *)
(* Abstracted: the periods of the polls and the end of the wait for a       *)
(* diagnosis (see DeployProgress); "built" and "deploying" count as         *)
(* "building"; every build that runs has its image's digest; the tab of the *)
(* Dockerfile counts as that of the log.                                    *)
(***************************************************************************)
EXTENDS Naturals, Sequences, FiniteSetsExt

CONSTANTS
    MaxBuilds,      \* bound: builds of the app
    MaxSelects,     \* bound: builds selected by hand
    Outcomes,       \* statuses a build may end with
    Null

HistoryAssumption ==
    /\ MaxBuilds \in Nat \ {0, 1} /\ MaxSelects \in Nat /\ Null \notin Nat
    /\ Outcomes \subseteq {"running", "failed", "cancelled"}

VARIABLES
    rows,       \* builds of the server, the oldest first: kind, status, ai, of
    builds,     \* rows as AppLayout has them
    list,       \* the answer of AppLayout's poll on its way: rows, or Null
    pinned,     \* ?build= of the address
    id,         \* the build BuildDetail is mounted for
    build,      \* its status and ai as shown
    poll,       \* the poll of the detail: at, got
    tab,
    confirming, busy, error,
    asked,      \* history: the build the first press was made for
    rollbacks,  \* requests on their way: the build, and whether its button is still there
    page, selects

listVars == <<rows, builds, list>>
detailVars == <<build, poll, tab>>
rollbackVars == <<confirming, busy, error, asked>>
vars == <<listVars, pinned, id, detailVars, rollbackVars, rollbacks, page, selects>>

Kinds == {"build", "env_change"}
Statuses == {"queued", "building", "running", "failed", "cancelled"}
ACTIVE_BUILD == {"queued", "building"}
Row == [kind : Kinds, status : Statuses, ai : {Null, "pending", "done"},
        of : 0 .. MaxBuilds]     \* of: rollback_of, or 0

isDiagnosing(b) == b.status = "failed" /\ b.ai = "pending"
Polled(b) == b.status \in ACTIVE_BUILD \/ isDiagnosing(b)

-----------------------------------------------------------------------------
(* AppHistory: numbers, the build selected, the ones to go back to *)

Real(s) == {n \in DOMAIN s : s[n].kind # "env_change"}

\* The newest has the largest number; a change of the environment has none.
numbered(n) == IF n \in Real(builds) THEN Cardinality({m \in Real(builds) : m <= n}) ELSE 0

\* The build of the address, else the newest.
selected(s) == IF pinned \in DOMAIN s THEN pinned ELSE Len(s)

\* There is a build, not only a change of the environment, after build n.
Newer(s, n) == \E m \in DOMAIN s : m > n /\ s[m].kind = "build"

rollbackable(n) == builds[n].kind = "build" /\ builds[n].status = "running"
currentId == IF \E n \in DOMAIN builds : rollbackable(n)
             THEN Max({n \in DOMAIN builds : rollbackable(n)}) ELSE 0
canRollback == rollbackable(id) /\ id # currentId

\* A build under way spins; its label is that of a build or of a change.
BuildRow(n) ==
    [number |-> numbered(n), result |-> builds[n].status,
     icon |-> CASE builds[n].status = "running" -> "ok"
                [] builds[n].status = "failed" -> "bad"
                [] builds[n].status \in {"cancelled", "queued"} -> "grey"
                [] OTHER -> "spin"]

-----------------------------------------------------------------------------
(* BuildDetail *)

tabs == IF rows[id].kind = "env_change" THEN {"summary"} ELSE {"summary", "logs"}
active == IF tab \in tabs THEN tab ELSE "summary"

defaultTab(r) ==
    IF r.kind = "build" /\ (r.status = "failed" \/ r.status \in ACTIVE_BUILD) THEN "logs" ELSE "summary"

\* The summary or the log, the card of the diagnosis below, and the button.
Pane ==
    [body |-> active, card |-> build.ai # Null,
     button |-> IF page = "left" \/ ~canRollback \/ active # "summary" THEN "none"
                ELSE IF busy THEN "busy" ELSE IF confirming THEN "again" ELSE "rollback"]

Snapshot(r) == [status |-> r.status, ai |-> r.ai]
Waits == [at |-> "wait", got |-> Null]
Off == [at |-> "off", got |-> Null]
Forget == {[r EXCEPT !.mine = FALSE] : r \in rollbacks}
PollFor(b) == IF Polled(b) THEN Waits ELSE Off

\* The detail is keyed by its build: another one starts from nothing.  For the
\* same one the snapshot of the list only tells when the poll is to start again.
Show(s, n) ==
    LET b == Snapshot(s[n])
    IN IF n # id
       THEN /\ id' = n /\ build' = b /\ poll' = PollFor(b) /\ tab' = defaultTab(s[n])
            /\ confirming' = FALSE /\ busy' = FALSE /\ error' = FALSE /\ asked' = 0
            /\ rollbacks' = Forget
       ELSE /\ UNCHANGED <<id, build, tab, rollbackVars, rollbacks>>
            /\ poll' = IF b = Snapshot(builds[id]) THEN poll ELSE PollFor(b)

-----------------------------------------------------------------------------
Init ==
    /\ rows = [n \in 1 .. 2 |-> [kind |-> "build", status |-> "running", ai |-> Null, of |-> 0]]
    /\ builds = rows /\ list = Null /\ pinned = 0
    /\ id = 2 /\ build = Snapshot(rows[2]) /\ poll = PollFor(build) /\ tab = defaultTab(rows[2])
    /\ confirming = FALSE /\ busy = FALSE /\ error = FALSE /\ asked = 0
    /\ rollbacks = {} /\ page = "history" /\ selects = 0

rest == <<pinned, id, detailVars, rollbackVars, rollbacks, page, selects>>

\* What a build may become.  The newest one that runs is watched on, and fails if
\* its pod crashes after all (postwatch).
After(n) ==
    CASE rows[n].status = "queued" -> {"building"} \cup (Outcomes \ {"running"})
      [] rows[n].status = "building" -> Outcomes
      [] rows[n].status = "running" /\ rows[n].kind = "build" /\ ~Newer(rows, n) ->
            Outcomes \cap {"failed"}
      [] OTHER -> {}

Step(n) ==
    /\ \E s \in After(n) :
         rows' = [rows EXCEPT ![n].status = s,
                              ![n].ai = IF s = "failed" THEN "pending" ELSE Null]
    /\ UNCHANGED <<builds, list, rest>>

Diagnosed(n) ==
    /\ rows[n].ai = "pending" /\ rows' = [rows EXCEPT ![n].ai = "done"]
    /\ UNCHANGED <<builds, list, rest>>

Added(k, n) ==
    Append(rows, [kind |-> k, status |-> IF k = "build" THEN "queued" ELSE "running",
                  ai |-> Null, of |-> n])

NewBuild(k) ==
    /\ Len(rows) < MaxBuilds /\ rows' = Added(k, 0)
    /\ UNCHANGED <<builds, list, rest>>

\* AppLayout's poll: its answers come in order.
ListRead ==
    /\ page = "history" /\ list = Null /\ list' = rows
    /\ UNCHANGED <<rows, builds, rest>>

ListAnswered ==
    /\ page = "history" /\ list # Null /\ builds' = list /\ list' = Null
    /\ Show(list, selected(list))
    /\ UNCHANGED <<rows, pinned, page, selects>>

select(n) ==
    /\ page = "history" /\ n \in DOMAIN builds /\ pinned # n
    /\ selects < MaxSelects /\ selects' = selects + 1
    /\ pinned' = n /\ Show(builds, n)
    /\ UNCHANGED <<listVars, page>>

pollRest == <<listVars, pinned, id, tab, rollbackVars, rollbacks, page, selects>>

PollAgain ==
    /\ poll.at = "wait" /\ poll' = [at |-> "sent", got |-> Null]
    /\ UNCHANGED <<pollRest, build>>

PollRead ==
    /\ poll.at = "sent" /\ poll' = [at |-> "back", got |-> Snapshot(rows[id])]
    /\ UNCHANGED <<pollRest, build>>

PollAnswered ==
    /\ poll.at = "back" /\ build' = poll.got /\ poll' = PollFor(poll.got)
    /\ UNCHANGED pollRest

PollFails ==
    /\ poll.at = "back" /\ poll' = Waits
    /\ UNCHANGED <<pollRest, build>>

\* The button goes with the tab of the summary, and its state with it.
setTab(t) ==
    /\ page = "history" /\ t \in tabs /\ t # tab /\ tab' = t
    /\ confirming' = FALSE /\ busy' = FALSE /\ error' = FALSE /\ asked' = 0
    /\ rollbacks' = Forget
    /\ UNCHANGED <<listVars, pinned, id, build, poll, page, selects>>

-----------------------------------------------------------------------------
(* RollbackAction *)

Confirm ==
    /\ Pane.button = "rollback" /\ confirming' = TRUE /\ asked' = id
    /\ UNCHANGED <<listVars, pinned, id, detailVars, busy, error, rollbacks, page, selects>>

Cancel ==
    /\ Pane.button = "again" /\ confirming' = FALSE
    /\ UNCHANGED <<listVars, pinned, id, detailVars, busy, error, asked, rollbacks, page, selects>>

run ==
    /\ Pane.button = "again" /\ busy' = TRUE /\ error' = FALSE
    /\ rollbacks' = rollbacks \cup {[of |-> id, mine |-> TRUE]}
    /\ UNCHANGED <<listVars, pinned, id, detailVars, confirming, asked, page, selects>>

\* The page of the new deployment comes next, wherever the user is by then.
RolledBack(r) ==
    /\ rollbacks' = rollbacks \ {r}
    /\ Len(rows) < MaxBuilds /\ rows' = Added("build", r.of)
    /\ page' = "left" /\ poll' = Off /\ list' = Null
    /\ UNCHANGED <<builds, pinned, id, build, tab, rollbackVars, selects>>

RollbackFails(r) ==
    /\ rollbacks' = rollbacks \ {r}
    /\ IF r.mine THEN error' = TRUE /\ busy' = FALSE ELSE UNCHANGED <<error, busy>>
    /\ UNCHANGED <<listVars, pinned, id, detailVars, confirming, asked, page, selects>>

Next ==
    \/ \E n \in DOMAIN rows : Step(n) \/ Diagnosed(n) \/ select(n)
    \/ \E k \in Kinds : NewBuild(k)
    \/ ListRead \/ ListAnswered
    \/ PollAgain \/ PollRead \/ PollAnswered \/ PollFails
    \/ \E t \in {"summary", "logs"} : setTab(t)
    \/ Confirm \/ Cancel \/ run
    \/ \E r \in rollbacks : RolledBack(r) \/ RollbackFails(r)

Spec == Init /\ [][Next]_vars

-----------------------------------------------------------------------------
TypeOK ==
    /\ {rows, builds} \subseteq Seq(Row) /\ id \in DOMAIN builds /\ pinned \in 0 .. MaxBuilds
    /\ poll.at \in {"off", "wait", "sent", "back"} /\ rollbacks \subseteq [of : 1 .. MaxBuilds, mine : BOOLEAN]
    /\ \A n \in DOMAIN builds : BuildRow(n).icon \in {"ok", "bad", "grey", "spin"}
    /\ Pane.body \in {"summary", "logs"} /\ Pane.card \in BOOLEAN

\* The second press rolls back to the very build the first one was made for, though
\* the list moves and another build may become the newest in between.
RollbackIsConfirmed == Pane.button \in {"again", "busy"} => asked = id

\* The app only goes back to a build that runs still and is not the newest one that
\* did, though the list may be behind and a build that ran may turn out to have failed.
RollbackRan == \A r \in rollbacks : rows[r.of].status = "running" /\ r.of # Len(rows)

\* The detail never falls back to an older snapshot of its build, though the list
\* and the poll overtake each other.
Rank(b) == 2 * (CASE b.status = "queued" -> 1 [] b.status = "building" -> 2
                        [] b.status = "running" -> 3 [] OTHER -> 4)
             + (IF b.ai = "done" THEN 1 ELSE 0)
LogsGoForward == id' = id => Rank(build') >= Rank(build)

\* What each step keeps: the list is never ahead of the builds, nor is the detail,
\* and a build that runs goes on running once there is a newer one.
Behind(s, t) ==
    /\ Len(s) <= Len(t)
    /\ \A n \in DOMAIN s : /\ s[n].kind = t[n].kind /\ Rank(s[n]) <= Rank(t[n])
                           /\ s[n].status = "running" /\ Newer(s, n) => t[n].status = "running"
RowsInv ==
    /\ {rows, builds} \subseteq Seq(Row) /\ Len(rows) <= MaxBuilds
    /\ Behind(builds, rows) /\ id \in DOMAIN builds /\ pinned \in 0 .. MaxBuilds
    /\ list # Null => /\ list \in Seq(Row) /\ Len(builds) <= Len(list) /\ Behind(list, rows)
                      /\ page = "history"
DetailInv ==
    /\ build \in [status : Statuses, ai : {Null, "pending", "done"}]
    /\ Rank(build) <= Rank(rows[id])
    /\ poll.at \in {"off", "wait", "sent", "back"}
    /\ poll.at = "back" =>
           /\ poll.got \in [status : Statuses, ai : {Null, "pending", "done"}]
           /\ Rank(build) <= Rank(poll.got) /\ Rank(poll.got) <= Rank(rows[id])
RollbackInv ==
    /\ confirming \/ busy => asked = id
    /\ \A r \in rollbacks : /\ r \in [of : 1 .. MaxBuilds, mine : BOOLEAN]
                            /\ r.of < Len(rows) /\ rows[r.of].status = "running"
                            /\ Newer(rows, r.of)
HistoryInv == RowsInv /\ DetailInv /\ RollbackInv

=============================================================================
