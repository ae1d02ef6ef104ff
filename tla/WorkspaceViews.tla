--------------------------- MODULE WorkspaceViews ---------------------------
(***************************************************************************)
(* AppWorkspace of web/src/components/app/AppWorkspace.jsx around its       *)
(* panels: the views of an app and the terminals of ConsoleView,           *)
(* TerminalSide and DatabaseView with their WebSockets.  What was opened   *)
(* once stays mounted and is only hidden.  LogSide is RuntimeLogs.         *)
(*                                                                         *)
(* Abstracted: sizes, fonts, themes and what is typed and printed.         *)
(***************************************************************************)
EXTENDS Naturals, FiniteSets

CONSTANTS
    Roles,       \* "owner" or "viewer"
    Panels,      \* what ?panel= may name
    MaxChanges,  \* bound: builds that bring or drop a feature
    MaxTerminals \* bound: terminals on the page at a time

ViewsAssumption ==
    /\ Roles \subseteq {"owner", "viewer"}
    /\ Panels \subseteq {"console", "db", "storage", "metrics", "other"}
    /\ MaxChanges \in Nat /\ MaxTerminals \in Nat \ {0}

VARIABLES
    role, panel,
    build,      \* whether a build is known
    features,   \* of the newest server build: "storage", "redis"
    view, opened,
    zoom,       \* "both", "term" or "log"
    target, openedTargets,
    conn,       \* the label of each terminal
    mode, terminalOpened,
    ws,         \* the socket of each mounted terminal
    closing,    \* terminals whose earlier socket still has its close event to come
    changes

viewVars == <<view, opened, zoom, target, openedTargets, mode, terminalOpened>>
socketVars == <<conn, ws, closing>>
appVars == <<role, panel, build, features, changes>>
vars == <<appVars, viewVars, socketVars>>

Terminals == {"app", "db", "redis", "shell"}

\* Terminals, tables and files are the owner's; a member sees logs and metrics.
views(f) ==
    {"console", "metrics"}
        \cup (IF role = "owner" THEN {"db"} ELSE {})
        \cup (IF role = "owner" /\ "storage" \in f THEN {"storage"} ELSE {})

targets(f) == {"app", "db"} \cup (IF "redis" \in f THEN {"redis"} ELSE {})

\* The terminals that are on the page, hidden or not; "shell" is the one beside
\* the tables.
Mounted ==
    IF ~build \/ role # "owner" THEN {}
    ELSE (IF "console" \in opened THEN openedTargets \cap targets(features) ELSE {})
         \cup (IF "db" \in opened /\ terminalOpened THEN {"shell"} ELSE {})

OnConsole == build /\ role = "owner" /\ view = "console"

-----------------------------------------------------------------------------
Init ==
    /\ role \in Roles /\ panel \in Panels
    /\ build \in BOOLEAN
    /\ features \in SUBSET {"storage", "redis"} /\ (~build => features = {})
    /\ view = IF panel \in views(features) THEN panel ELSE "console"
    /\ opened = {view}
    /\ zoom = "both" /\ target = "app" /\ openedTargets = {"app"}
    /\ mode = "browse" /\ terminalOpened = FALSE
    /\ conn = [t \in Terminals |-> IF t = "app" THEN "connecting" ELSE "unset"]
    /\ ws = [t \in Terminals |-> IF t \in Mounted THEN "connecting" ELSE "none"]
    /\ closing = {}
    /\ changes = 0

\* The effects of the terminals: a mounted one connects, one that leaves the
\* page closes its socket.
Connect ==
    /\ Cardinality(Mounted') <= MaxTerminals
    /\ ws' = [t \in Terminals |->
                 IF t \notin Mounted' THEN "none"
                 ELSE IF t \notin Mounted THEN "connecting"
                 ELSE ws[t]]
    /\ closing' = closing \cup {t \in Mounted \ Mounted' : ws[t] \in {"connecting", "open"}}

\* A poll of the layout: the first builds, or a new server build.
BuildsChange ==
    /\ changes < MaxChanges /\ changes' = changes + 1
    /\ build' = TRUE
    /\ features' \in SUBSET {"storage", "redis"}
    /\ UNCHANGED <<role, panel, viewVars, conn>>
    /\ Connect

\* Mutant: the view that is left is taken off the page.
openOnly(id) ==
    /\ build /\ id \in views(features)
    /\ view' = id /\ opened' = {id}
    /\ UNCHANGED <<appVars, zoom, target, openedTargets, mode, terminalOpened, conn>>
    /\ Connect

openView(id) ==
    /\ build /\ id \in views(features)
    /\ view' = id /\ opened' = opened \cup {id}
    /\ UNCHANGED <<appVars, zoom, target, openedTargets, mode, terminalOpened, conn>>
    /\ Connect

Zoom(side) ==
    /\ OnConsole /\ zoom \in {"both", side}
    /\ zoom' = IF zoom = side THEN "both" ELSE side
    /\ UNCHANGED <<appVars, view, opened, target, openedTargets, mode, terminalOpened, conn>>
    /\ Connect

select(id) ==
    /\ OnConsole /\ zoom # "log"
    /\ id \in targets(features)
    /\ target' = id /\ openedTargets' = openedTargets \cup {id}
    /\ conn' = [conn EXCEPT ![id] = IF @ = "unset" THEN "connecting" ELSE @]
    /\ UNCHANGED <<appVars, view, opened, zoom, mode, terminalOpened>>
    /\ Connect

\* The terminal beside the tables is made when its tab is first opened.
setMode(m) ==
    /\ build /\ "db" \in opened /\ view = "db"
    /\ mode' = m /\ terminalOpened' = (terminalOpened \/ m = "terminal")
    /\ UNCHANGED <<appVars, view, opened, zoom, target, openedTargets, conn>>
    /\ Connect

\* onStatus of WorkspaceTerminal; DbTerminalPanel writes into its buffer only.
Label(t, s) == conn' = IF t = "shell" THEN conn ELSE [conn EXCEPT ![t] = s]

SocketOpens(t) ==
    /\ ws[t] = "connecting" /\ ws' = [ws EXCEPT ![t] = "open"]
    /\ Label(t, "open")
    /\ UNCHANGED <<appVars, viewVars, closing>>

\* onclose by the far end, or after onerror.
SocketCloses(t) ==
    /\ ws[t] \in {"connecting", "open"} /\ ws' = [ws EXCEPT ![t] = "closed"]
    /\ Label(t, "closed")
    /\ UNCHANGED <<appVars, viewVars, closing>>

\* onclose of a socket whose terminal has left the page.
LateClose(t) ==
    /\ t \in closing /\ closing' = closing \ {t}
    /\ Label(t, "closed")
    /\ UNCHANGED <<appVars, viewVars, ws>>

FarEnd == \E t \in Terminals : SocketOpens(t) \/ SocketCloses(t) \/ LateClose(t)

Next ==
    \/ BuildsChange
    \/ \E id \in {"console", "db", "storage", "metrics"} : openView(id)
    \/ Zoom("term") \/ Zoom("log")
    \/ \E id \in {"app", "db", "redis"} : select(id)
    \/ \E m \in {"browse", "table", "terminal"} : setMode(m)
    \/ FarEnd

Spec == Init /\ [][Next]_vars

-----------------------------------------------------------------------------
TypeOK ==
    /\ view \in {"console", "db", "storage", "metrics"} /\ view \in opened
    /\ target \in openedTargets /\ openedTargets \subseteq {"app", "db", "redis"}
    /\ conn \in [Terminals -> {"unset", "connecting", "open", "closed"}]
    /\ ws \in [Terminals -> {"none", "connecting", "open", "closed"}]
    /\ closing \subseteq Terminals

\* A shell in a pod costs its owner a process: there is no socket, and none
\* being opened, for a terminal that nobody has opened, and none for a member;
\* what is on the page has one.  And the header calls no terminal connected whose
\* socket has closed and has said so.
SocketsAsked ==
    \A t \in Terminals :
        /\ (ws[t] # "none") <=>
              /\ build /\ role = "owner"
              /\ IF t = "shell" THEN terminalOpened
                 ELSE "console" \in opened /\ t \in openedTargets \cap targets(features)
        /\ conn[t] = "open" => ws[t] = "open" \/ t \in closing

\* The inductive invariant behind SocketsAsked and SessionKept.
ViewsInv ==
    /\ TypeOK /\ SocketsAsked
    /\ terminalOpened => "db" \in opened
    /\ conn["shell"] = "unset"

\* A session lasts while the user moves between views, terminals and sizes:
\* only the far end, or a build without the service, ends it.
SessionKept ==
    \A t \in Terminals :
        ws[t] = "open" /\ ws'[t] # "open" =>
            \/ ws'[t] = "closed"
            \/ t = "redis" /\ "redis" \notin features'

=============================================================================
