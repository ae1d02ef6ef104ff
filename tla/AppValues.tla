------------------------------- MODULE AppValues -------------------------------
(***************************************************************************)
(* What core puts into the values file of one app, from the rows `apps`    *)
(* and `builds`, through a thread or a request handler of core, a run of   *)
(* the builder and gitops.Writer (GitopsWriter, which this module drives). *)
(*                                                                         *)
(*   apps: site_enabled, custom_domain   <-- start_deploy, put_domain      *)
(*     |  _slot_hostnames (of the row as the thread has read it)           *)
(*     v                                                                   *)
(*   submit --> run --> Commit --> values: enabled, hosts, image per slot  *)
(*                                                                         *)
(* Both lists of _slot_hostnames follow from the two columns and are sent  *)
(* together: the field "split" says whether they were computed for an app  *)
(* with a site (1) or without (0), the field "domain" names the domain.    *)
(*                                                                         *)
(* Simplifications.                                                        *)
(*  - A thread that has prepared its request looks at nothing until it is  *)
(*    accepted or given up; attempts are not counted (DeployRequests).     *)
(*  - The verdict on a commit comes with its answer (BuildRun).            *)
(*  - Changes of the environment touch neither column and are left out.    *)
(***************************************************************************)
EXTENDS GitopsWriter, Sequences, FiniteSets

CONSTANT Domains  \* custom domains; 0 is none

ASSUME AppAssumption ==
    /\ IsFiniteSet(Requests) /\ Requests = 1 .. Cardinality(Requests) /\ NoRequest = 0
    /\ CoreFields = {"enabled", "split", "domain"}
    /\ 0 \in Domains /\ Requests \cup Domains \cup {0, 1} \subseteq Value

VARIABLES
    made,       \* requests made so far
    earlier,    \* the app's server has been deployed before (image 0)
    app,        \* the row of the app is there
    site,       \* apps.site_enabled, 0 or 1
    domain,     \* apps.custom_domain
    what,       \* each request: new, or what it is
    row,        \* builds.status: none, active, running, failed, cancelled
    recall,     \* requests whose cancel_remote may be on its way
    task,       \* core's thread or handler of it
    payload,    \* what it has prepared to send
    run,        \* its run: none, working, over
    changer,    \* history: the request that last changed the domain
    holders     \* history: requests that were prepared before that, and not committed

appRow == <<earlier, app, site, domain>>
requestVars == <<made, what, recall>>
history == <<changer, holders>>
coreVars == <<appRow, requestVars, row, task, payload, history>>
appVars == <<vars, coreVars, run>>

Deployments == {"server", "static", "rollback"}
SlotOf(kind) == IF kind = "static" THEN "static" ELSE "server"
hostsNow == [split |-> site, domain |-> domain]
NoValues == [f \in {} |-> 0]
Sent(kind, slot, values, image) ==
    [kind |-> kind, slot |-> slot, values |-> values, image |-> image]
NoChange == Sent("config", "server", NoValues, Empty["server"])

\* The app is new, or an earlier request has deployed its server (image 0).
AppInit ==
    /\ WriterInit
    /\ made = 0 /\ app = TRUE /\ site = 0 /\ domain = 0
    /\ earlier \in BOOLEAN
    /\ file = IF earlier THEN [Empty EXCEPT !["server"] = 0] ELSE NoFile
    /\ change = [r \in Requests |-> NoChange]
    /\ what = [r \in Requests |-> "new"] /\ row = [r \in Requests |-> "none"]
    /\ recall = {}
    /\ task = [r \in Requests |-> "new"] /\ payload = change
    /\ run = [r \in Requests |-> "none"]
    /\ changer = NoRequest /\ holders = {}

Goto(r, label) == task' = [task EXCEPT ![r] = label]
ActiveRows == {r \in Requests : row[r] = "active"}

\* The images that a rollback can go back to.
Targets ==
    (IF earlier THEN {0} ELSE {})
    \cup {r \in Requests : what[r] = "server" /\ row[r] = "running"}

HasServerDeployed == Targets # {}

\* clear_custom_domain does nothing for a row that was read without a domain, and
\* nothing reads that row again.
KeepsLoaded(r) == what[r] = "clear" /\ payload[r].values["domain"] = 0

\* Requests that have read what they send and may still be committed.
Pending ==
    {r \in Requests :
        /\ \/ task[r] \in {"mark", "send", "done"}
           \/ task[r] = "look" /\ what[r] = "server"
           \/ task[r] = "cloudflare" /\ KeepsLoaded(r)
        /\ r \notin merged
        /\ task[r] = "done" =>
              run[r] = "working" \/ serving = r \/ \E p \in wire : p.of = r}

-------------------------------------------------------------------------------
(***************************************************************************)
(* The user: start_deploy, start_rollback, put_domain, delete_domain and   *)
(* delete_app.  A change of the domain has read the row of the app first.  *)
(***************************************************************************)

FirstTask(kind) ==
    CASE kind \in {"server", "static"} -> "load"
      [] kind = "rollback" -> "look"
      [] kind \in {"domain", "clear"} -> "cloudflare"
      [] kind \in {"remove", "delete"} -> "send"

\* What is known of a request from the start.
Draft(kind, image) ==
    CASE kind = "rollback" -> Sent("set-image", "server", NoValues, image)
      [] kind \in {"remove", "delete"} -> Sent(kind, "server", NoValues, image)
      [] kind \in {"domain", "clear"} -> Sent("config", "server", hostsNow, image)
      [] OTHER -> NoChange

\* The kinds of the new requests, in order, the rows that they replace, and the
\* image of a rollback.
New(kinds, replaced, image) ==
    LET fresh == made + 1 .. made + Len(kinds)
    IN  /\ app /\ fresh \subseteq Requests
        /\ made' = made + Len(kinds)
        /\ what' = [r \in Requests |-> IF r \in fresh THEN kinds[r - made] ELSE what[r]]
        /\ task' = [r \in Requests |-> IF r \in fresh THEN FirstTask(what'[r]) ELSE task[r]]
        /\ row' = [r \in Requests |->
              IF r \in replaced THEN "cancelled"
              ELSE IF r \in fresh /\ what'[r] \in Deployments THEN "active" ELSE row[r]]
        /\ payload' = [r \in Requests |->
              IF r \in fresh THEN Draft(what'[r], image) ELSE payload[r]]
        /\ recall' = recall \cup replaced
        /\ UNCHANGED <<vars, earlier, app, domain, run, history>>

\* The declaration of the slots is stored before the threads start, and the
\* active rows of both slots are replaced.
StartDeploy ==
    \/ New(<<"server">>, ActiveRows, Empty["server"]) /\ site' = 0
    \/ New(<<"server", "static">>, ActiveRows, Empty["server"]) /\ site' = 1
    \/ /\ New(IF HasServerDeployed THEN <<"remove", "static">> ELSE <<"static">>,
              ActiveRows, Empty["server"])
       /\ site' = 1

\* A rollback to the deployment before all of these, or to one of them.
StartRollback ==
    /\ \E image \in Targets :
          New(<<"rollback">>, {r \in ActiveRows : SlotOf(what[r]) = "server"}, image)
    /\ UNCHANGED site

\* ensure_idle, and Cloudflare is called in a thread.
PutDomain == ActiveRows = {} /\ New(<<"domain">>, {}, Empty["server"]) /\ UNCHANGED site

DeleteDomain == ActiveRows = {} /\ New(<<"clear">>, {}, Empty["server"]) /\ UNCHANGED site

DeleteApp == New(<<"delete">>, {}, Empty["server"]) /\ UNCHANGED site

\* cancel_remote of a replaced row; it may be late, and it may fail.
CancelRemote(r) ==
    /\ r \in recall
    /\ recall' = recall \ {r}
    /\ IF run[r] = "working" THEN EndContext(r) ELSE UNCHANGED vars
    /\ UNCHANGED <<appRow, made, what, row, task, payload, run, history>>

-------------------------------------------------------------------------------
(***************************************************************************)
(* core prepares what it sends: run_v2_build, run_v2_rollback,             *)
(* set_custom_domain, clear_custom_domain and apply_hostnames.             *)
(***************************************************************************)

\* The rows of the build and of the app are read.  A server build computes its
\* hosts from this row of the app: nothing expires it before the row is marked.
Load(r) ==
    /\ task[r] = "load"
    /\ IF row[r] # "active" THEN Goto(r, "done") /\ UNCHANGED payload
       ELSE /\ Goto(r, "look")
            /\ payload' = [payload EXCEPT ![r] = Sent("build", what[r], hostsNow, r)]
    /\ UNCHANGED <<vars, appRow, requestVars, row, run, history>>

\* The last look at the row.  A static build has committed its Dockerfile before,
\* so the row of the app is read again for _slot_hostnames.
Look(r) ==
    /\ task[r] = "look"
    /\ IF row[r] # "active" THEN Goto(r, "done") /\ UNCHANGED payload
       ELSE IF what[r] = "rollback" THEN Goto(r, "send") /\ UNCHANGED payload
       ELSE /\ Goto(r, "mark")
            /\ payload' = IF what[r] = "static"
                          THEN [payload EXCEPT ![r] = Sent("build", "static", hostsNow, r)]
                          ELSE payload
    /\ UNCHANGED <<vars, appRow, requestVars, row, run, history>>

\* The row is set to building, and the rest of the payload is read.
Mark(r) ==
    /\ task[r] = "mark" /\ app
    /\ Goto(r, "send")
    /\ row' = [row EXCEPT ![r] = "active"]
    /\ payload' = [payload EXCEPT ![r].values =
          [split |-> @.split, domain |-> @.domain,
           enabled |-> IF what[r] = "static" THEN 1 ELSE site]]
    /\ UNCHANGED <<vars, appRow, requestVars, run, history>>

Store(r, d) == domain' = d /\ changer' = r /\ holders' = Pending

\* Cloudflare has answered: the domain is stored.  A domain that the row had when
\* it was read is not written.
SaveDomain(r) ==
    /\ task[r] = "cloudflare" /\ what[r] = "domain" /\ app
    /\ \E d \in Domains \ {0} :
          IF payload[r].values["domain"] = d THEN UNCHANGED <<domain, history>> ELSE Store(r, d)
    /\ Goto(r, "apply")
    /\ UNCHANGED <<vars, earlier, app, site, requestVars, row, payload, run>>

ClearDomain(r) ==
    /\ task[r] = "cloudflare" /\ what[r] = "clear" /\ app
    /\ IF KeepsLoaded(r) THEN Goto(r, "send") /\ UNCHANGED <<domain, history>>
                         ELSE Goto(r, "apply") /\ Store(r, 0)
    /\ UNCHANGED <<vars, earlier, app, site, requestVars, row, payload, run>>

\* The commit has expired the row, and the hosts are those of the row as it is
\* read again: at once by set_custom_domain, for its answer, and after Cloudflare
\* has dropped the domain for apply_hostnames.  Between the commit and the read
\* another request may store a domain.
Reload(r) ==
    /\ task[r] = "apply" /\ app
    /\ Goto(r, "send")
    /\ payload' = [payload EXCEPT ![r] =
          Sent("config", "server", hostsNow, Empty["server"])]
    /\ UNCHANGED <<vars, appRow, requestVars, row, run, history>>

\* An error before the request is accepted: _fail, 502 or a warning.
GiveUp(r) ==
    /\ task[r] \in {"load", "look", "mark", "cloudflare", "apply", "send"}
    /\ Goto(r, "done")
    /\ row' = IF row[r] = "active" THEN [row EXCEPT ![r] = "failed"] ELSE row
    /\ UNCHANGED <<vars, appRow, requestVars, payload, run, history>>

-------------------------------------------------------------------------------
(***************************************************************************)
(* The builder: Manager.Submit, the run, and what core makes of its end.   *)
(***************************************************************************)
Conflicts(r) ==
    {o \in Requests : /\ run[o] = "working"
                      /\ \/ "delete" \in {what[o], what[r]}
                         \/ SlotOf(what[o]) = SlotOf(what[r])}

Accept(r) ==
    /\ task[r] = "send" /\ Conflicts(r) = {}
    /\ Goto(r, "done")
    /\ run' = [run EXCEPT ![r] = "working"]
    /\ UNCHANGED <<vars, appRow, requestVars, row, payload, history>>

\* 409: submit cancels the other request and goes on trying.
CancelOther(r) ==
    /\ task[r] = "send"
    /\ \E o \in Conflicts(r) : EndContext(o)
    /\ UNCHANGED <<coreVars, run>>

RunCommits(r) ==
    /\ run[r] = "working" /\ r \notin ended
    /\ Ask(r, payload[r])
    /\ UNCHANGED <<coreVars, run>>

\* Before the commit the run fails or is cancelled; after it, events.apply.
RunEnds(r) ==
    /\ run[r] = "working"
    /\ \/ call[r] \in Returned
       \/ call[r] = "none" /\ (what[r] \in Deployments \/ r \in ended)
    /\ run' = [run EXCEPT ![r] = "over"]
    /\ \E status \in {"failed"} \cup (IF r \in ended THEN {"cancelled"} ELSE {})
                                \cup (IF call[r] \in {"ok", "skipped"} THEN {"running"} ELSE {}) :
          row' = IF row[r] = "active" THEN [row EXCEPT ![r] = status] ELSE row
    /\ UNCHANGED <<vars, appRow, requestVars, task, payload, history>>

\* deleted: the rows of the app go, and with them what its threads look at.
AppDeleted(r) ==
    /\ what[r] = "delete" /\ run[r] = "working" /\ call[r] \in {"ok", "skipped"} /\ app
    /\ run' = [run EXCEPT ![r] = "over"]
    /\ app' = FALSE
    /\ row' = [o \in Requests |-> "none"]
    /\ UNCHANGED <<vars, earlier, site, domain, requestVars, task, payload, history>>

-------------------------------------------------------------------------------
AppNext ==
    \/ StartDeploy \/ StartRollback \/ PutDomain \/ DeleteDomain \/ DeleteApp
    \/ \E r \in Requests :
          \/ CancelRemote(r)
          \/ Load(r) \/ Look(r) \/ Mark(r)
          \/ SaveDomain(r) \/ ClearDomain(r) \/ Reload(r) \/ GiveUp(r)
          \/ Accept(r) \/ CancelOther(r) \/ RunCommits(r) \/ RunEnds(r) \/ AppDeleted(r)
          \/ Leave(r) /\ UNCHANGED <<coreVars, run>>
    \/ (WriterStep \/ GitHubStep) /\ UNCHANGED <<coreVars, run>>

AppSpec == AppInit /\ [][AppNext]_appVars

-------------------------------------------------------------------------------
(***************************************************************************)
(* Properties.                                                             *)
(***************************************************************************)
TypeOK ==
    /\ WriterTypeOK
    /\ made \in Requests \cup {0} /\ earlier \in BOOLEAN /\ app \in BOOLEAN
    /\ site \in 0 .. 1 /\ domain \in Domains
    /\ what \in [Requests -> Deployments \cup {"new", "domain", "clear", "remove", "delete"}]
    /\ row \in [Requests -> {"none", "active", "running", "failed", "cancelled"}]
    /\ recall \subseteq Requests
    /\ task \in [Requests -> {"new", "load", "look", "mark", "cloudflare", "apply", "send", "done"}]
    /\ payload \in [Requests -> Change]
    /\ run \in [Requests -> {"none", "working", "over"}]
    /\ changer \in Requests \cup {NoRequest} /\ holders \subseteq Requests

\* A domain that was stored and committed, or cleared, stays so in the file until
\* the file is deleted.  What ensure_idle is for, and what it is not enough for: a
\* request that read the row of the app before the domain was stored takes it back
\* when it is committed after (holders): a server build has read it before its
\* preparation, a run whose row was cancelled goes on, and delete_domain of an app
\* without one sends the row it was called with.
DomainStays ==
    /\ changer \in merged /\ holders \cap merged = {}
    /\ \A r \in merged : what[r] # "delete"
    => file["domain"] = domain
================================================================================
