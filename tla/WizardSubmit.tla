---------------------------- MODULE WizardSubmit ----------------------------
(***************************************************************************)
(* The last button of the deployment wizard                                *)
(* (web/src/components/deploy/DeployWizard.jsx, handleSubmit) and the       *)
(* requests it makes one after the other: upload of an initial dump, the   *)
(* new app, the deployment, the user's own record, the custom domain, and  *)
(* the page it ends on.  A request without an app of its own goes to the    *)
(* app of the page that is open when it is sent (web/src/api/deploy.js), or *)
(* to the user's first app if there is none.                               *)
(*                                                                         *)
(* Abstracted: an app is its number in the order of creation, 0 stands for *)
(* none; the settings are left out; the user may own every app.            *)
(***************************************************************************)
EXTENDS Naturals

CONSTANTS
    Limit,      \* apps the tier of the user allows
    MaxApps,    \* bound: apps there are at first
    MaxPresses  \* bound: presses of the button

SubmitAssumption ==
    /\ Limit \in Nat \ {0} /\ MaxApps \in 0 .. Limit /\ MaxPresses \in Nat

VARIABLES
    target,     \* the app of a redeploy, 0: a new app
    before,     \* apps when the wizard was opened
    apps,       \* apps of the user
    known,      \* their number as the page last read it
    signedIn,   \* user # null
    page,       \* app of the page, 0: the list or the wizard of a new app
    mounted,    \* the wizard is shown
    at,         \* "form" or the request that is out
    newApp, to, \* of handleSubmit: the app it made, the app the deployment was sent to
    result,     \* of handleSubmit: the app the answer names
    deployed,   \* apps that were deployed to
    error, presses,
    strays      \* history: apps that a wizard which was left meant to deploy to its own

vars == <<target, before, apps, known, signedIn, page, mounted, at, newApp, to, result,
          deployed, error, presses, strays>>

atAppLimit == target = 0 /\ known > 0 /\ known >= Limit

\* The app a request without one is for: that of the page, then the user's first
\* one; a deployment of a user without apps makes it.
scoped(app) == IF app # 0 THEN app ELSE page
Served(app) == IF app # 0 THEN app ELSE 1

-----------------------------------------------------------------------------
Init ==
    /\ before \in 0 .. MaxApps /\ target \in 0 .. before
    /\ apps = before /\ known = before /\ signedIn = TRUE
    /\ page = target /\ mounted = TRUE /\ at = "form"
    /\ newApp = 0 /\ to = 0 /\ result = 0
    /\ deployed = {} /\ error = FALSE /\ presses = 0 /\ strays = {}

\* Mutant: createDeploy without the app that was made for it.
CallDeployUnscoped(app) == at' = "deploy" /\ to' = scoped(0)

\* createDeploy, with the app that was made or without one.
CallDeploy(app) == at' = "deploy" /\ to' = scoped(app)

\* After the dump, if there is one: an app of its own for all but the first.  Without
\* one, and if the wizard was left while the dump was on its way, the deployment goes
\* to the app of the page that is open now.
CreateOrDeploy ==
    IF target = 0 /\ known > 0
    THEN at' = "create" /\ UNCHANGED <<to, strays>>
    ELSE /\ CallDeploy(0)
         /\ strays' = IF mounted THEN strays ELSE strays \cup {Served(page)}

Submit(dump) ==
    /\ mounted /\ at = "form" /\ ~atAppLimit /\ signedIn
    /\ presses < MaxPresses /\ presses' = presses + 1
    /\ error' = FALSE /\ newApp' = 0 /\ result' = 0
    /\ IF dump THEN at' = "stage" /\ UNCHANGED <<to, strays>> ELSE CreateOrDeploy
    /\ UNCHANGED <<target, before, apps, known, signedIn, page, mounted, deployed>>

\* A request is refused, does not arrive, or its answer does not: submitting ends
\* and the button can be pressed again.
Fail == at' = "form" /\ error' = TRUE

StageFails ==
    /\ at = "stage" /\ Fail
    /\ UNCHANGED <<target, before, apps, known, signedIn, page, mounted, newApp, to, result,
                   deployed, presses, strays>>

Staged ==
    /\ at = "stage" /\ CreateOrDeploy
    /\ UNCHANGED <<target, before, apps, known, signedIn, page, mounted, newApp, result,
                   deployed, error, presses>>

Created ==
    /\ at = "create" /\ apps < Limit
    /\ apps' = apps + 1
    /\ \/ newApp' = apps' /\ CallDeploy(apps') /\ UNCHANGED error
       \/ Fail /\ UNCHANGED <<newApp, to>>
    /\ UNCHANGED <<target, before, known, signedIn, page, mounted, result, deployed, presses, strays>>

CreateFails ==
    /\ at = "create" /\ Fail
    /\ UNCHANGED <<target, before, apps, known, signedIn, page, mounted, newApp, to, result,
                   deployed, presses, strays>>

\* The server takes the deployment; of the first one it makes the app.
Deployed ==
    /\ at = "deploy"
    /\ apps' = IF Served(to) > apps THEN Served(to) ELSE apps
    /\ deployed' = deployed \cup {Served(to)}
    /\ \/ /\ result' = Served(to) /\ UNCHANGED error
          /\ at' = IF target = 0 THEN "refresh" ELSE "domain"
       \/ Fail /\ UNCHANGED result
    /\ UNCHANGED <<target, before, known, signedIn, page, mounted, newApp, to, presses, strays>>

DeployFails ==
    /\ at = "deploy" /\ Fail
    /\ UNCHANGED <<target, before, apps, known, signedIn, page, mounted, newApp, to, result,
                   deployed, presses, strays>>

\* refresh of AuthContext never fails: without an answer there is no user.
Refreshed ==
    /\ at = "refresh" /\ at' = "domain"
    /\ \/ known' = apps /\ UNCHANGED signedIn
       \/ known' = 0 /\ signedIn' = FALSE
    /\ UNCHANGED <<target, before, apps, page, mounted, newApp, to, result, deployed, error,
                   presses, strays>>

targetId == IF target # 0 THEN target ELSE IF newApp # 0 THEN newApp ELSE result

\* Without a custom domain, or once it is set, the page changes to the progress
\* of the deployment, wherever the user is by then.
Arrive ==
    /\ at = "domain" /\ at' = "done"
    /\ page' = targetId /\ mounted' = FALSE
    /\ UNCHANGED <<target, before, apps, known, signedIn, newApp, to, result, deployed, error,
                   presses, strays>>

\* The deployment goes on, and so does the wizard.
DomainFails ==
    /\ at = "domain" /\ Fail
    /\ UNCHANGED <<target, before, apps, known, signedIn, page, mounted, newApp, to, result,
                   deployed, presses, strays>>

\* The user opens another page.  handleSubmit goes on without the wizard.
Leave(p) ==
    /\ at # "done" /\ p # page
    /\ page' = p /\ mounted' = FALSE
    /\ UNCHANGED <<target, before, apps, known, signedIn, at, newApp, to, result, deployed,
                   error, presses, strays>>

Next ==
    \/ \E dump \in BOOLEAN : Submit(dump)
    \/ Staged \/ StageFails \/ Created \/ CreateFails \/ Deployed \/ DeployFails
    \/ Refreshed \/ Arrive \/ DomainFails
    \/ \E p \in 0 .. apps : Leave(p)

Spec == Init /\ [][Next]_vars

-----------------------------------------------------------------------------
TypeOK ==
    /\ before \in 0 .. MaxApps /\ target \in 0 .. before
    /\ {apps, known, page, newApp, to, result} \subseteq 0 .. Limit
    /\ at \in {"form", "stage", "create", "deploy", "refresh", "domain", "done"}
    /\ deployed \subseteq 1 .. apps /\ presses \in 0 .. MaxPresses
    /\ strays \subseteq 1 .. Limit

\* What the user deploys in the wizard of an app reaches that app, and what is
\* deployed in the wizard of a new app reaches one made by it, whichever requests
\* fail or lose their answer, how often the button is pressed, and wherever the user
\* goes meanwhile: the address says which app is meant, and the pages of two apps
\* do not mix (web/src/components/app/AppScope.jsx:3).  All but one moment keep to
\* this.  If the wizard is left while its dump is being staged (DeployWizard.jsx:388),
\* createDeploy goes out without an app, for the page that is open by then
\* (DeployWizard.jsx:397-398, api/deploy.js:13): to that app, or to the user's first
\* one (strays).
DeployReachesItsApp ==
    deployed \subseteq
        (IF target # 0 THEN {target} ELSE (before + 1) .. apps) \cup strays

\* The page the wizard ends on, and whose custom domain it sets, is that of the app
\* it deployed to, unless that was a stray one.
ArrivesAtDeployed ==
    at \in {"domain", "done"} =>
        result \in deployed /\ (targetId = result \/ result \in strays)

\* What each step keeps.  Where the deployment is sent follows from the wizard, as
\* long as its page is not left before a request without an app is made.
SubmitInv ==
    /\ TypeOK /\ before <= apps
    /\ mounted \in BOOLEAN /\ (mounted => page = target)
    /\ signedIn \in BOOLEAN /\ (signedIn => before <= known)
    /\ newApp # 0 => target = 0 /\ newApp \in before + 1 .. apps
    /\ at = "stage" => signedIn /\ newApp = 0
    /\ at = "create" => target = 0
    /\ at = "deploy" =>
          \/ /\ to = IF target # 0 THEN target ELSE newApp
             /\ to = 0 => before = 0
          \/ newApp = 0 /\ Served(to) \in strays
    /\ at \in {"refresh", "domain", "done"} =>
          result \in deployed /\ (targetId = result \/ result \in strays)
    /\ DeployReachesItsApp

=============================================================================
