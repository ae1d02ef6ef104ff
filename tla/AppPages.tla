------------------------------ MODULE AppPages ------------------------------
(***************************************************************************)
(* The pages of one app, /apps/:appId/...: which app they are of            *)
(* (web/src/components/app/AppScope.jsx), where the requests made on them   *)
(* go (web/src/api/deploy.js), and the shell that polls for all of them    *)
(* (web/src/components/app/AppLayout.jsx).                                 *)
(*                                                                         *)
(* Abstracted: the list of the deployments and the state of the pods of an *)
(* app are one number each that grows; the poll's two periods are one.     *)
(***************************************************************************)
EXTENDS Naturals, FiniteSets

CONSTANTS
    Apps,
    Kinds,      \* of polls: "builds", "status"
    MaxMoves,   \* bound: changes of the address
    MaxNews,    \* bound: changes of an app
    Null

PagesAssumption == Null \notin Apps /\ Kinds \subseteq {"builds", "status"} /\ MaxMoves \in Nat /\ MaxNews \in Nat

VARIABLES
    news,           \* of each app: deployments and pods as the server has them
    appId, tab,     \* the address; tab: one of the two kinds of pages, see Shell
    active,         \* activeAppId: where the requests go
    app, state,     \* of AppScope
    getApps,        \* getApp requests that are out
    loops,          \* polls of the shell, those cancelled while a request was out too
    shown,          \* builds and slotStatus, with the app they are of
    error, moves

pollVars == <<loops, shown, error>>
vars == <<news, appId, tab, active, app, state, getApps, pollVars, moves>>

\* AppScope shows its pages while it has an app; the shell is around all pages but
\* those of a deployment.
Ready == appId # Null /\ state = "ready"
Shell == Ready /\ tab = "shell"
TopBar == IF Ready THEN app ELSE Null

-----------------------------------------------------------------------------
Nothing == [k \in Kinds |-> [app |-> Null, of |-> 0]]

Init ==
    /\ news = [a \in Apps |-> 0]
    /\ appId = Null /\ tab = "shell" /\ active = Null
    /\ app = Null /\ state = "loading" /\ getApps = {}
    /\ loops = {} /\ shown = Nothing /\ error = FALSE /\ moves = 0

\* Mutant: the cleanup stops the timers only, and the answers set new ones.
TimersStopped == {l \in loops : l.at = "sent"}

\* The cleanup of the effects: no timer, and the answers to come are dropped.
Cancelled == {[l EXCEPT !.live = FALSE] : l \in {m \in loops : m.at = "sent"}}

\* The effects of the polls: those before are cancelled, and the two requests go out.
Poll ==
    loops' = Cancelled \cup
        {[kind |-> k, app |-> active, at |-> "sent", got |-> 0, live |-> TRUE] : k \in Kinds}

\* The shell comes to show nothing when it is mounted anew.
Mount == Poll /\ shown' = Nothing /\ error' = FALSE
Unmount == loops' = Cancelled /\ UNCHANGED <<shown, error>>

\* Another app: AppScope goes back to loading.  Its address is the requests' from
\* the rendering on; what was asked for the app before is not taken back.
Move(a) ==
    /\ a # appId /\ moves < MaxMoves /\ moves' = moves + 1
    /\ appId' = a /\ active' = a /\ tab' \in {"shell", "deploy"}
    /\ state' = "loading"
    /\ IF a = Null THEN app' = Null /\ getApps' = {}
       ELSE app' = app /\ getApps' = getApps \cup {a}
    /\ Unmount /\ UNCHANGED news

\* Another page of the same app; navigate is then a new function and the polls of
\* the shell start again.
Turn(t) ==
    /\ appId # Null /\ moves < MaxMoves /\ moves' = moves + 1
    /\ tab' = t
    /\ IF Ready /\ t = "shell"
       THEN IF tab = "shell" THEN Poll /\ UNCHANGED <<shown, error>> ELSE Mount
       ELSE Unmount
    /\ UNCHANGED <<news, appId, active, app, state, getApps>>

\* refreshApp, called by the pages.
Refresh ==
    /\ Ready /\ appId \notin getApps
    /\ getApps' = getApps \cup {appId}
    /\ UNCHANGED <<news, appId, tab, active, app, state, pollVars, moves>>

\* The answer is taken whichever app is in the address by now.
Found(a) ==
    /\ getApps' = getApps \ {a} /\ app' = a /\ state' = "ready"
    /\ IF tab = "shell"
       THEN IF ~Ready THEN Mount
            ELSE IF app' # app THEN Poll /\ UNCHANGED <<shown, error>>
            ELSE UNCHANGED pollVars
       ELSE UNCHANGED pollVars
    /\ UNCHANGED <<news, appId, tab, active, moves>>

NotFound(a) ==
    /\ getApps' = getApps \ {a} /\ app' = Null /\ state' = "missing"
    /\ Unmount
    /\ UNCHANGED <<news, appId, tab, active, moves>>

\* The app goes on.
News(a) ==
    /\ news[a] < MaxNews /\ news' = [news EXCEPT ![a] = @ + 1]
    /\ UNCHANGED <<appId, tab, active, app, state, getApps, pollVars, moves>>

pollRest == <<news, appId, tab, active, app, state, getApps, moves>>

Read(l) ==
    /\ l.at = "sent" /\ l.got = 0
    /\ loops' = (loops \ {l}) \cup {[l EXCEPT !.got = news[l.app] + 1]}
    /\ UNCHANGED <<pollRest, shown, error>>

\* An answer after the cleanup is dropped, and its loop with it.
Answered(l) ==
    /\ l.at = "sent" /\ l.got > 0
    /\ IF l.live
       THEN /\ loops' = (loops \ {l}) \cup {[l EXCEPT !.at = "wait", !.got = 0]}
            /\ shown' = [shown EXCEPT ![l.kind] = [app |-> l.app, of |-> l.got]]
            /\ error' = IF l.kind = "builds" THEN FALSE ELSE error
       ELSE loops' = loops \ {l} /\ UNCHANGED <<shown, error>>
    /\ UNCHANGED pollRest

Failed(l) ==
    /\ l.at = "sent" /\ l.got > 0
    /\ IF l.live
       THEN /\ loops' = (loops \ {l}) \cup {[l EXCEPT !.at = "wait", !.got = 0]}
            /\ error' = IF l.kind = "builds" THEN TRUE ELSE error
       ELSE loops' = loops \ {l} /\ UNCHANGED error
    /\ UNCHANGED <<pollRest, shown>>

\* Without a session the poll ends, and so do the pages of the app.
SignedOut(l) ==
    /\ l.at = "sent" /\ l.live
    /\ appId' = Null /\ active' = Null /\ app' = Null /\ state' = "loading" /\ getApps' = {}
    /\ loops' = Cancelled \ {[l EXCEPT !.live = FALSE]}
    /\ UNCHANGED <<news, tab, shown, error, moves>>

Tick(l) ==
    /\ l.at = "wait"
    /\ loops' = (loops \ {l}) \cup {[l EXCEPT !.at = "sent", !.app = active]}
    /\ UNCHANGED <<pollRest, shown, error>>

Next ==
    \/ \E a \in Apps \cup {Null} : Move(a)
    \/ \E t \in {"shell", "deploy"} : Turn(t)
    \/ Refresh
    \/ \E a \in getApps : Found(a) \/ NotFound(a)
    \/ \E a \in Apps : News(a)
    \/ \E l \in loops : Read(l) \/ Answered(l) \/ Failed(l) \/ SignedOut(l) \/ Tick(l)

Spec == Init /\ [][Next]_vars

-----------------------------------------------------------------------------
TypeOK ==
    /\ appId \in Apps \cup {Null} /\ app \in Apps \cup {Null} /\ TopBar \in Apps \cup {Null}
    /\ state \in {"loading", "ready", "missing"} /\ getApps \subseteq Apps
    /\ loops \subseteq [kind : Kinds, app : Apps, at : {"sent", "wait"}, got : Nat,
                        live : BOOLEAN]
    /\ moves \in 0 .. MaxMoves

\* However the user changes pages, and in whichever order requests are answered,
\* an open shell has one poll of each kind, and a closed one none that goes on.
OnePollEach ==
    \A k \in Kinds :
        Cardinality({l \in loops : l.kind = k /\ l.live}) = IF Shell THEN 1 ELSE 0

\* What the shell shows is of the app in the address, and is never replaced by
\* something older, though the answers of cancelled polls are still to come.
NewsGoForward ==
    Shell /\ Shell' /\ appId' = appId =>
        \A k \in Kinds : /\ shown'[k].app \in {Null, appId}
                         /\ shown'[k].app = shown[k].app => shown'[k].of >= shown[k].of

\* What each step keeps: of the polls those that go on are of the app in the address,
\* and what they bring is not older than what is shown.
AddressInv ==
    /\ appId \in Apps \cup {Null} /\ active = appId /\ app \in Apps \cup {Null}
    /\ state \in {"loading", "ready", "missing"} /\ tab \in {"shell", "deploy"}
    /\ getApps \subseteq Apps /\ (appId = Null => getApps = {})
    /\ moves \in 0 .. MaxMoves

Loop == [kind : Kinds, app : Apps, at : {"sent", "wait"}, got : Nat, live : BOOLEAN]
Going(k) == {l \in loops : l.kind = k /\ l.live}
LoopsInv ==
    /\ loops \subseteq Loop
    /\ \A l \in loops : /\ l.live => l.app = appId
                        /\ l.at = "wait" => l.live
    /\ \A k \in Kinds : IF Shell THEN \E l \in loops : Going(k) = {l} ELSE Going(k) = {}

ShownInv ==
    /\ news \in [Apps -> Nat] /\ shown \in [Kinds -> [app : Apps \cup {Null}, of : Nat]]
    /\ \A l \in loops : l.got <= news[l.app] + 1
    /\ Shell => \A k \in Kinds :
                   /\ shown[k].app \in {Null, appId}
                   /\ shown[k].app = appId => shown[k].of <= news[appId] + 1
    /\ Shell => \A l \in loops :
                   l.live /\ l.got > 0 /\ shown[l.kind].app = appId => l.got >= shown[l.kind].of

PollsInv == AddressInv /\ LoopsInv /\ ShownInv

=============================================================================
