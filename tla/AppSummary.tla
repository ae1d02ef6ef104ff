----------------------------- MODULE AppSummary -----------------------------
(***************************************************************************)
(* What an app shows of itself and where its links lead: the menu, the      *)
(* banner and the actions of web/src/components/app/AppLayout.jsx, the     *)
(* overview (AppOverview.jsx), the drawer (AppInfoDrawer.jsx), and the      *)
(* roles the pages ask for (AppScope.jsx, App.jsx, the head of each page).  *)
(*                                                                         *)
(* Abstracted: statuses, times, repository and branch; a poll's answer      *)
(* arrives at once (AppPages has the polls, WorkspaceViews the views).      *)
(***************************************************************************)
EXTENDS Naturals, Sequences, FiniteSetsExt

CONSTANTS
    Declared,    \* what a server may be declared to use
    MaxBuilds,   \* bound: builds of the app
    People,      \* numbers of members and invitations an app may have
    MaxMoves,    \* bound: links followed and changes of the role
    Null

SummaryAssumption ==
    /\ Declared \subseteq SUBSET {"db", "redis", "storage", "volume"}
    /\ People \subseteq Nat /\ MaxBuilds \in Nat /\ MaxMoves \in Nat
    /\ Null \notin Nat \cup {"console", "db", "storage", "metrics"}

VARIABLES
    rows,        \* of the server, the oldest first: kind, static, uses
    builds,      \* rows as the shell has them
    role, admin, \* of the user in this app; admin: sees it as an administrator
    page,
    view,        \* what the workspace has opened with, Null on another page
    env,         \* envVars: "none", "asked" or "known"
    share,       \* members and invitations as answered, or Null
    asks,        \* getMembers requests that are out: TRUE for the one still wanted
    infoOpen, done,  \* the drawer, and the mark beside the copied id
    meant,       \* history: the link followed last, Null when the page has changed since
    moves

shellVars == <<builds, env, infoOpen, done>>
overviewVars == <<share, asks>>
vars == <<rows, role, admin, page, view, shellVars, overviewVars, meant, moves>>

Roles == {"viewer", "editor", "owner"}
RANK == [viewer |-> 1, editor |-> 2, owner |-> 3]
can(r, need) == RANK[r] >= RANK[need]

\* A build of the server, one of the frontend, or a change of the environment.
Server(u) == [kind |-> "build", static |-> FALSE, uses |-> u]
Row == {Server(u) : u \in Declared}
           \cup {[kind |-> k, static |-> k = "build", uses |-> {}] : k \in {"build", "env_change"}}

\* What each page asks of the user; who has less is sent to the overview.
Need == [overview |-> "viewer", workspace |-> "viewer", history |-> "viewer", guide |-> "viewer",
         progress |-> "viewer", env |-> "editor", deploy |-> "editor", frontend |-> "editor",
         members |-> "owner", settings |-> "owner"]
Shell == DOMAIN Need \ {"deploy", "frontend", "progress"}
RequireRole(r, p) == IF can(r, Need[p]) THEN p ELSE "overview"

-----------------------------------------------------------------------------
(* The newest build of the server, and what is read from it *)

Servers(s) == {n \in DOMAIN s : ~s[n].static /\ s[n].kind # "env_change"}
Uses(s) == IF Servers(s) = {} THEN {} ELSE s[Max(Servers(s))].uses

\* A link: its page, and the panel or the build it names.
To(p) == [page |-> p, panel |-> Null, build |-> Null]
ToPanel(p) == [To("workspace") EXCEPT !.panel = p]
ToBuild(n) == [To("history") EXCEPT !.build = n]

tabs == {To(p) : p \in {q \in Shell : can(role, Need[q])}}
actionRedeploy == IF can(role, "editor") THEN {To("deploy")} ELSE {}

\* A change of the environment is dealt with in its own page by those who may.
targetOf(n) == IF builds[n].kind = "env_change" /\ can(role, "editor") THEN To("env") ELSE ToBuild(n)

\* The current deployment, the two before it, and the whole history.
Latest == {IF builds = <<>> THEN To("history") ELSE targetOf(Len(builds))}
Previous == {targetOf(n) : n \in {m \in DOMAIN builds : m < Len(builds) /\ m + 3 > Len(builds)}}
                \cup {To("history")}

\* A volume has no panel, and the others are the owner's.
Resources ==
    IF role # "owner" THEN {}
    ELSE {ToPanel(IF f = "redis" THEN "db" ELSE f) : f \in Uses(builds) \ {"volume"}}

\* Mutant: the role is left out.
QuickLinksForAll ==
    {ToPanel("terminal"), ToPanel("monitoring"), ToPanel("db")}
        \cup (IF "storage" \in Uses(builds) THEN {ToPanel("storage")} ELSE {})

QuickLinks ==
    {ToPanel("terminal"), ToPanel("monitoring")} \cup
    (IF role # "owner" THEN {}
     ELSE {ToPanel("db")} \cup
          (IF "storage" \in Uses(builds) THEN {ToPanel("storage")} ELSE {}))

EnvRow == IF can(role, "editor") THEN {To("env")} ELSE {}

\* MEMBER_PREVIEW of the people, the number of the others, and the links below.
Members ==
    IF role # "owner" \/ share = Null THEN [shown |-> 0, more |-> 0]
    ELSE [shown |-> IF share < 3 THEN share ELSE 3, more |-> IF share > 3 THEN share - 3 ELSE 0]
OwnerLinks == IF role = "owner" THEN {To("settings"), To("members")} ELSE {}

Overview == Latest \cup Previous \cup Resources \cup QuickLinks \cup EnvRow \cup OwnerLinks

\* The banner above the pages of an administrator.
Banner == IF ~admin THEN Null ELSE IF role = "owner" THEN "recorded" ELSE "viewing"

\* The drawer, over everything else: who the user is here, what the app uses, and
\* the links at its foot.
Identity == IF admin THEN "admin" ELSE IF role = "owner" THEN "own" ELSE "shared"
services == Uses(builds)

\* The number of a deployment; a change of the environment has none.
numbered(n) == Cardinality({m \in 1 .. n : builds[m].kind # "env_change"})
Rows == [source |-> Servers(builds) # {},
         latest |-> IF builds = <<>> THEN Null
                    ELSE IF builds[Len(builds)].kind = "env_change" THEN "env_change"
                    ELSE numbered(Len(builds))]
Footer == {To("history")} \cup (IF role = "owner" THEN {To("settings")} ELSE {})

Offered ==
    IF page \notin Shell THEN {}
    ELSE IF infoOpen THEN Footer
    ELSE tabs \cup actionRedeploy \cup (IF page = "overview" THEN Overview ELSE {})

\* What the workspace opens with, from ?panel=.
PANEL_TO_VIEW == [terminal |-> "console", db |-> "db", storage |-> "storage", monitoring |-> "metrics"]
views(r, s) ==
    {"console", "metrics"} \cup (IF r = "owner" THEN {"db"} ELSE {})
        \cup (IF r = "owner" /\ "storage" \in Uses(s) THEN {"storage"} ELSE {})
seed(panel) ==
    IF panel # Null /\ PANEL_TO_VIEW[panel] \in views(role, builds) THEN PANEL_TO_VIEW[panel]
    ELSE "console"

-----------------------------------------------------------------------------
(* Mounting *)

\* The effect of the overview: getMembers, for the owner only.
Dropped == asks' = {FALSE : a \in asks}
AskMembers == asks' = {TRUE} \cup {FALSE : a \in asks}

Mounts(r, p) ==
    /\ share' = Null
    /\ IF p = "overview" /\ r = "owner" THEN AskMembers ELSE Dropped

\* The shell asks for the variables when it is mounted, and for no one below editor.
AskEnv(r) == env' = IF can(r, "editor") THEN "asked" ELSE "none"

\* Any address may be opened.
Init ==
    /\ rows \in {<<>>} \cup {<<Server(u)>> : u \in Declared} /\ builds = <<>>
    /\ role \in Roles /\ admin \in BOOLEAN /\ (admin => role # "editor")
    /\ \E p \in DOMAIN Need : page = RequireRole(role, p)
    /\ view = (IF page = "workspace" THEN seed(Null) ELSE Null)
    /\ env = (IF page \in Shell /\ can(role, "editor") THEN "asked" ELSE "none")
    /\ share = Null
    /\ asks = (IF page = "overview" /\ role = "owner" THEN {TRUE} ELSE {})
    /\ infoOpen = FALSE /\ done = FALSE /\ meant = Null /\ moves = 0

Move == moves < MaxMoves /\ moves' = moves + 1

\* A link of the drawer closes it; the pages of a deployment are outside the shell.
Follow(l) ==
    /\ Move /\ l \in Offered
    /\ page' = RequireRole(role, l.page) /\ meant' = l
    /\ view' = IF page' = "workspace" THEN seed(l.panel) ELSE Null
    /\ IF page' = page THEN UNCHANGED overviewVars ELSE Mounts(role, page')
    /\ IF page' \in Shell THEN UNCHANGED <<builds, env>> ELSE builds' = <<>> /\ env' = "none"
    /\ infoOpen' = FALSE /\ done' = FALSE
    /\ UNCHANGED <<rows, role, admin>>

\* Back from a deployment: the shell starts anew.
Return ==
    /\ Move /\ page \notin Shell
    /\ page' = "overview" /\ view' = Null /\ meant' = Null
    /\ builds' = <<>> /\ AskEnv(role) /\ Mounts(role, "overview")
    /\ UNCHANGED <<rows, role, admin, infoOpen, done>>

\* getApp brings another role: the page may be beyond it, and the effect of the
\* overview depends on it; the shell does not ask for the variables again.
RoleChanges(r) ==
    /\ Move /\ r # role /\ ~admin /\ role' = r
    /\ page' = RequireRole(r, page) /\ meant' = Null
    /\ IF page' # page THEN Mounts(r, page')
       ELSE share' = share /\ IF page = "overview" /\ r = "owner" THEN AskMembers ELSE Dropped
    /\ IF page \notin Shell /\ page' \in Shell THEN AskEnv(r) ELSE UNCHANGED env
    /\ UNCHANGED <<rows, admin, view, builds, infoOpen, done>>

-----------------------------------------------------------------------------
idle == <<role, admin, page, meant, moves>>

\* A deployment, and the poll of the shell.
Deployed(b) ==
    /\ Len(rows) < MaxBuilds /\ rows' = Append(rows, b)
    /\ UNCHANGED <<idle, view, shellVars, overviewVars>>

Polled ==
    /\ page \in Shell /\ builds # rows /\ builds' = rows
    /\ UNCHANGED <<rows, idle, view, env, infoOpen, done, overviewVars>>

EnvCame ==
    /\ env = "asked" /\ env' = "known"
    /\ UNCHANGED <<rows, idle, view, builds, infoOpen, done, overviewVars>>

\* The answer of an effect that was cleaned up is dropped.
SharesCame(a, n) ==
    /\ a \in asks /\ asks' = asks \ {a}
    /\ share' = IF a THEN n ELSE share
    /\ UNCHANGED <<rows, idle, view, shellVars>>

ShareFails(a) ==
    /\ a \in asks /\ asks' = asks \ {a}
    /\ UNCHANGED <<rows, idle, view, shellVars, share>>

openInfo ==
    /\ page \in Shell /\ ~infoOpen /\ infoOpen' = TRUE
    /\ UNCHANGED <<rows, idle, view, builds, env, done, overviewVars>>

\* Esc, the backdrop or the cross.
onClose ==
    /\ infoOpen /\ infoOpen' = FALSE /\ done' = FALSE
    /\ UNCHANGED <<rows, idle, view, builds, env, overviewVars>>

copy ==
    /\ infoOpen /\ Servers(builds) # {} /\ done' = TRUE
    /\ UNCHANGED <<rows, idle, view, builds, env, infoOpen, overviewVars>>

CopyFades ==
    /\ done /\ done' = FALSE
    /\ UNCHANGED <<rows, idle, view, builds, env, infoOpen, overviewVars>>

Next ==
    \/ \E l \in Offered : Follow(l)
    \/ Return
    \/ \E r \in Roles : RoleChanges(r)
    \/ \E b \in Row : Deployed(b)
    \/ Polled \/ EnvCame
    \/ \E a \in asks : \/ \E n \in People : SharesCame(a, n)
                       \/ ShareFails(a)
    \/ openInfo \/ onClose \/ copy \/ CopyFades

Spec == Init /\ [][Next]_vars

-----------------------------------------------------------------------------
TypeOK ==
    /\ builds \in Seq(Row) /\ role \in Roles
    /\ page \in DOMAIN Need /\ (view = Null <=> page # "workspace")
    /\ env \in {"none", "asked", "known"} /\ share \in {Null} \cup People
    /\ infoOpen => page \in Shell
    /\ done => infoOpen

\* The links are put together in one file from the role and the newest build, the
\* pages judge both again in others: no link of the menu, the overview or the drawer
\* is turned away, opens another view of the workspace than it names, or names a
\* build that the history does not have.
LinksLand ==
    meant # Null =>
        /\ page = meant.page
        /\ meant.panel # Null => view = PANEL_TO_VIEW[meant.panel]
        /\ meant.build # Null => meant.build \in DOMAIN builds

\* Only the owner is shown the members, and the app lists them for no one else: no
\* wanted request is out for a member, though the role may have changed meanwhile.
MembersAreOwners ==
    /\ TRUE \in asks => role = "owner" /\ page = "overview"
    /\ Members.shown > 0 => role = "owner"

\* What each step keeps: the shell's copy of the list is never ahead of it.
SummaryInv ==
    /\ TypeOK /\ LinksLand /\ MembersAreOwners
    /\ rows \in Seq(Row) /\ Len(builds) <= Len(rows)
    /\ asks \subseteq BOOLEAN

=============================================================================
