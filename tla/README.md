# Kodeploy in TLA+

Kodeploy builds and deploys users' applications: *core* (FastAPI) takes a deployment from the web
console (React), the *builder* (Go) builds the image in a Kubernetes Job, commits it to a git repository,
waits for Argo CD to roll it out and reports every step back to core. This directory holds specifications
of the parts of that pipeline that are concurrent or must survive failures, and of the pages of the
console, whose requests are answered late, out of order or never; TLC configurations for small instances
of them; and proofs checked by TLAPS.

`PROJECT.json` lists every component, run, mutant (a plausible bug that breaks a property), finding,
hazard and theorem, and the source lines each definition translates. Paths below are relative to `src/`;
those of pages are relative to `src/web/src/components/`.

Contents: 1 inventory, 2 modules, 3 runs, 4 proofs, 5 behaviours seen without a run, 6 not modelled, 7 plan.

## 1. Inventory

```
 web: wizard, app shell, history, settings, workspace ...
   |        ^ polls, late answers
   v        |
 core: deploy/router, build/pipeline, build/v2 --POST, DELETE /internal/deploys--> builder: api
   ^   rows apps, builds, build_records                                              |
   |                                                                                 v
   +-- internal/events.apply <-- POST /internal/builds/{id}/events -- callback <-- run/Manager, run
                                                                                     |
 Kubernetes Job (BuildKit) <-- job, logs, marker ------------------------------------+
 registry <-- registry ; GitHub <-- gitops.Writer ; Argo <-- argo, apppods ----------+
```

| component | state it keeps | operations | what makes it correct |
|---|---|---|---|
| callback queue (`builder/internal/callback`) | items, sequence number, counts of lines, per build | Log, Event, Close, one sending goroutine | events arrive in order, at least once; log lines are dropped oldest first and every drop is counted |
| build run (`builder/internal/run/run.go`) | goroutine position, run.ctx, flags; annotations of the Job | build, afterJob, deployImage, reap, cleanup, resume | one verdict per build, reported in the promised order; nothing repeated that was not true; no Job left over |
| manager (`run/manager.go`) | map of active runs, closed | Submit, Cancel, Shutdown, Resume | one request per slot, a limit on builds, every Job continued after a restart |
| gitops writer (`gitops`) | one goroutine, a request channel; the values file in git | Commit (get, merge, put, retry on conflict) | serial commits, each owner's fields kept |
| argo wait, pod watch (`argo`, `apppods`) | none beyond the wait | refresh, poll, WaitGone, early stop on a crash loop | the verdict belongs to our commit |
| job watch, job spec (`job`) | the Job in the cluster | Create, Wait, Delete, Annotate, ListManaged | a Job that is gone, failed or late is told apart |
| log follow, batch, marker (`logs`, `marker`) | position in the Pod log | follow with reconnects, batch, recognise the push | no line is lost over reconnects; one digest |
| builder API (`api`, `sign`) | none | POST, DELETE | answers say what the manager did |
| core submission (`core/app/deploy/build/v2.py`, `pipeline.py`, `core/app/builder/client.py`) | rows `builds`, `build_records`; one thread per task | start_deploy, start_rollback, run_v2_build, submit, cancel_remote, request_delete, config | the newest request wins; each row gets a verdict |
| domains (`core/app/deploy/routing`, `deploy/router.py`) | `apps.custom_domain`, `apps.site_enabled` | put_domain, delete_domain, _slot_hostnames | what is stored comes to be what git has |
| event application (`core/app/internal/events.py`) | `last_event_seq`, row, record | apply, follow-ups | each event once; a cancelled row stays cancelled |
| post-deploy watch (`build/postwatch.py`) | thread for 60 s | watch_after_deploy | a crash after `deployed` turns only its own row to failed |
| R2 (`stack/r2.py`), app deletion (`deploy/status.py`) | buckets, tokens, namespace | several calls that may fail one by one | a partial failure can be repeated |
| apps, sharing, sign-in, admin, community (core) | rows of the database | request handlers | limits and roles hold |
| console (`deploy/console`) | terminal relay, dump tokens | relay, browse, snapshot | a session ends with its peer |
| web: wizard (`deploy/DeployWizard.jsx`, steps) | form, guess of the runtime, checks of the repository, the chain of the submit | type, restore, detect, submit | what is deployed is what was picked; it reaches the app it was meant for |
| web: progress and history (`deploy/DeployProgress.jsx`, `app/AppHistory.jsx`, `BuildDetail.jsx`) | two polls of one build, the build selected, a rollback confirmed twice | poll, select, roll back | nothing shown goes back; the rollback is the one confirmed |
| web: frontend form (`deploy/FrontendDeploy.jsx`) | the server's declaration as it was read | read, submit | the server stays as it is |
| web: app shell (`app/AppScope.jsx`, `AppLayout.jsx`, `AppOverview.jsx`, `AppInfoDrawer.jsx`) | app of the address, polls of list and pods, links | move, poll | one poll of each kind, of this app; links lead to what they name |
| web: settings (`app/AppSettings.jsx`, `DeleteAppModal.jsx`) | domain with its poll, restore, deletion | save, check, restore, delete | the domain shown catches up; what is overwritten was confirmed |
| web: environment (`app/AppEnv.jsx`) | the table, the copy of the shell | edit, import, save | compared with what is stored |
| web: workspace (`app/AppWorkspace.jsx`, `lib/sqlHistory.js`) | views, terminals with sockets, query, table, bucket, logs | open, run, page, delete | answers belong to the question; sessions last; deletions were asked for |
| web: monitoring (`app/MetricsView.jsx`) | range, overlapping loads | choose, tick | the figures come to be those of the range |
| web: dashboard and sharing (`app/AppsList.jsx`, `AppMembers.jsx`) | invitations, apps, members, polls | answer, invite, change | an invitation answered stays gone |
| web: feedback (`Community.jsx`) | list, post, drafts | open, post, comment, delete | a comment goes to the post it was typed beside |
| web: administration (`Admin.jsx`, `admin/`) | tabs, polls, rows, a typed confirmation | open, change, end an account | the account ended is the one typed; the figures do not go back |
| web: session layer, public pages; ansible, terraform, deploy, migrations | — | — | see section 6 |

They interact by HTTP (web to core, core to builder and back), by the database row (all threads of core), by
Job annotations (a builder and its successor) and by git (runs of one application).

What is hard here: every task of core is a thread of its own and shares only the row with the others; the
builder may stop between any two calls and starts again from annotations that may be missing; a cancel, the
end of the Job and the push marker race; answers of POST, of GitHub and of the annotation call may be lost
after the effect, and a write may be carried out after its caller gave up; events are repeated and may arrive
after newer ones; the queue drops lines while an item is being sent; the pages poll, ask again and are left
while answers are on their way, and hold copies of what others change. The full list with lines and covering
properties is in `PROJECT.json`, "hazards".

## 2. Modules

| module | what it is |
|---|---|
| `CallbackQueue` | the queue of one build, the network, `events.apply`'s sequence check, `onAck`'s annotations and the restart from them |
| `OrderedDelivery` | what that channel promises, without numbers and requests; `CallbackQueue!DeliversInOrder` is the refinement |
| `CallbackQueueProofs` | numbers, acks, repeats and log lines of `CallbackQueue`, and the refinement of `OrderedDelivery`, proved |
| `BuildRun` | one build: run goroutine, Job, git, Argo's verdict, core's row and record, Shutdown, crash and Resume |
| `BuildReport` | the order of reports that `docs/builder-e2e.md` promises; `BuildRun!ReportsInOrder` is the refinement |
| `BuildRunProofs` | what annotations and a running row say, no Job left over, the refinement of `BuildReport`, the verdicts and what a restart makes of them: proved |
| `DeployRequests` | the requests of one application: replaced rows, threads, `submit` against `Manager.Submit` and `Cancel`, runs |
| `DeployRequestsProofs` | proofs about `DeployRequests` |
| `ValuesMerge` | the values file and `gitops.Merge`: who owns which field; no state |
| `ValuesFile` | what the writer promises: each change merged at once, once at most, before its answer says so |
| `GitopsWriter` | `Writer.Commit`, its goroutine, GitHub and writes on their way; `CommitsAtomic` is the refinement of `ValuesFile` |
| `GitopsWriterProofs` | the refinement, proved |
| `AppValues` | drives `GitopsWriter` with what core sends for one app: deployments, rollback, domain, deletion |
| `AppValuesProofs` | proofs about `AppValues`: the stored domain, the types and the same refinement |
| `WebPages` | the 21 modules of the console below, one chosen at the start; their constants together |
| `WebProofs` | proofs about the pages, by page: files, settings, frontend, views, console, environment, submit, shell, users, feedback |
| `WebAnswersProofs` | the same for summary, history, administration, sharing, progress, check, wizard and table browser, and the properties that several pages share |
| `WebTypesProofs` | the types of the pages whose invariant there does not say them, and of all pages together |
| `MC*` | what TLC needs beyond the modules |

Definitions named "Mutant" in a comment are wrong variants of the one after them. No action uses them; they
document which bug a property would reveal.

### CallbackQueue

State: `items`, `queued`, `srcTotal`, `ackedSrc`, `nextSeq`, `closed` are the fields of `Queue`; `phase` and
`cur` the sending goroutine and the item in its hand; `posts` are requests on the network (a request that was
given up may still be handled later, and may be handled more than once); `applied`, `lastSeq` what core has
taken; `ann` the two annotations; `delivered` is a history, the events core has applied in order. Log lines
are numbers, an item is a count of lines, the source line it ends at and the lines omitted before it. Each
method is an action; `dropOldLocked` is the recursive function `dropOld` inside `Log`. Left out: HTTP status
other than 2xx or not, back-off times, signature, JSON, and the wake-up channel: the sender sees what is
queued whenever it is idle, so a wake-up that is lost (`callback.go:101-107`, `:205-209`) is not something
these properties could show.

### BuildRun

State: `pc` is the place in `run.build`, from `createJob` to the return of `execute`; `cause` the cause of
`run.ctx`; `out` the value `watchJob` sends; `flags` the booleans of `run`; `told`/`heard` the events given to
the queue in this life of the process and how many of them core has applied (the queue is taken from
`CallbackQueue`: in order, a suffix is lost with the process); `job`, `ann`, `pushed` the Job, its progress
annotations and the image; `put`, `git`, `live` the PUT on its way, the values in git and Argo's view; `row`,
`rec`, `image` core's row and record. A cancel, a shutdown, a crash, the end of the Job and the deliveries are
separate actions that interleave with the goroutine's. Which calls may fail is the constant `Faults`; errors
that every call may return (registry, commit, Argo, createJob) are always possible. An annotation and the step
after it are one action, because what is only in memory is lost with the process anyway.

### DeployRequests

State per request: `row` (`builds.status`), `task` (where core's thread is), `tries` and `victim` (locals of
`submit`), `recall` (`cancel_remote` on its way), `run`, `stopped` (the builder), and `git` per slot. A
request is `build`, `set-image` (rollback), `config` (environment), `remove` (a deployment without a server)
or `delete`. `late` and `killers` are history variables: a request is *late* when a newer competing one was
made after its thread had looked at its row for the last time, or when it has no row to look at. `deaf` is a
second run of an id whose events core takes for duplicates. `Kill` is a DELETE, which may be carried out and
its answer lost (`CancelOtherFails`). A commit is one step here, but for the one thing that matters between
requests: a run that gives up on its commit may leave a PUT on its way (`floating`), which lands at any later
time (`LateWrite`), unless something else was written before (its sha is then outdated). A request whose
values are in the file already writes nothing (`Skip`) and does not outdate it: the history variable
`overtaken` holds the PUTs of older requests that a newer one has skipped past. Two attempts of one commit,
the merge and the sha are `GitopsWriter`'s. Left out: validation, payloads, other applications (but the limit
of builds), restarts of either process (`BuildRun` has the builder's), and somebody else deleting Jobs.

### GitopsWriter and AppValues

`GitopsWriter`: `call` is where a caller of `Commit` is, `serving`, `at` and `attempt` the goroutine, `wire`
the PUTs and DELETEs on their way with the blob sha they carry, which is the file they were made from, `file`
what is in git. GitHub carries a write out (`Land`) if the sha fits, or refuses it (`Refuse`: 409, 422, 404,
or a change of the branch), at any time, also when nobody waits any more. `merged` is a history variable.

`AppValues` EXTENDS it: `site` and `domain` are the two columns `_slot_hostnames` is computed from; `task` is
the thread or handler of a request of core, `payload` what it read, `row`, `recall` and `run` as in
`DeployRequests`, but with what is sent instead of how often it is tried. When the row of the app is read is
modelled statement by statement, since SQLAlchemy reads a row anew only after a commit of the same session:
`Load` reads it for a server build (`v2.py:266`), and nothing expires it until `Mark`; `Look` refreshes the
row of the build, and reads the app again only for a static build, which has committed its Dockerfile; `Mark`
(`:298`) commits and reads the switch of the site. `put_domain` and `delete_domain` store (`SaveDomain`,
`ClearDomain`) and read the row again in a later step (`Reload`), because another session may commit between
the two statements; a domain that is the one loaded is not written, and clearing a row loaded without one does
nothing at all. The list of hosts of both slots is two fields, "split" (computed for an app with a site) and
"domain"; "enabled" is the site's switch, "server" and "static" hold the number of the request whose image it
is. The two histories `changer` and `holders` name the request that last stored a domain and those that had
read the row before that and may still be committed.

### The console

One module per page or part of a page. Variables are the component's `useState` and `useRef` values and the
requests on their way; actions are the handlers, the effects of a change and the answers; what the server
keeps is in the module too, as far as the page reads or changes it. An effect that runs after a handler is
part of the handler's action. What is rendered is an operator over the state (`Pane`, `Button`, `Rail`, ...),
and the type invariant says what it may be, so that every combination the page can show is accounted for.

| module | page | module | page |
|---|---|---|---|
| `WizardForm` | inputs and steps of `DeployWizard` | `DbBrowse` | `DbBrowser` |
| `RepoCheck` | its check of the repository | `SqlConsole` | `SqlConsole`, `lib/sqlHistory.js` |
| `WizardSubmit` | its chain of requests | `StorageFiles` | `StorageView` with its previews |
| `DeployProgress` | `DeployProgress`, `AiDiagnosis` | `WorkspaceViews` | views, terminals and sockets |
| `BuildHistory` | `AppHistory`, `BuildDetail` | `RuntimeLogs` | `LogSide` |
| `FrontendForm` | `FrontendDeploy` | `MetricsView` | `MetricsView` |
| `AppPages` | `AppScope`, polls of `AppLayout` | `Sharing` | `AppsList`, `AppMembers` |
| `AppSummary` | menu, overview, drawer, roles | `Feedback` | `Community` |
| `AppSettings` | `AppSettings`, `DeleteAppModal` | `AdminPage` | tabs of `Admin`, `AdminActions` |
| `AppEnv` | `AppEnv` | `AdminUsers` | the users' tab, `DeleteUserModal` |
| | | `AdminRows` | rows of `AdminApps`, nodes and tiers |

The browser shows one page at a time and pages share nothing but the server. `WebPages` therefore chooses one
module in the initial state and lets it take all the steps: the state spaces are added, not multiplied, and
one run and one set of properties cover all of them. `v1`, `v2`, ... are the variables of the module chosen.
The modules' assumptions about their constants are assumed there, and evaluated by the run. `MCWeb` adds the
values for TLC only.

## 3. Runs

Every pass run checks deadlock off, because each instance stops when its bounds are used up and no request is
left, which the programs do as well. All bounds are constants of the module or the sets in the cfg.

| run | checks | bounds, and why they are enough |
|---|---|---|
| `queue_logs` | `TypeOK`, `LinesTiled`, `NewestKept`; `EventsArrive`, `CloseDrains` under `FairSpec` | 5 lines in items of 2, room for 3, one event: overflow shortens, empties and merges items before, behind and around the one being sent |
| `queue_events` | `AckedMeansApplied`, `SeqNamesOneEvent`, `AppliedOnce`, `NoSilentGap`, `DeliversInOrder` | 2 events, 2 lines, room for 1, one restart, margin 2 over 1 unrecorded ack (100 over the acks of 2 s in the code): enough for a stale request to arrive after newer ones and after a restart |
| `run_faults` | `TypeOK`, `AnnotationsTrue`, `RunningIsLive`, `ReportsInOrder`, and in the builder's first life `AcceptedIsSettled`, `RecordMatchesRow`, `VerdictStands` | two restarts with crashes, unsent events, lost annotations and answers, deleted and expired Jobs: the second resume starts from what the first one wrote |
| `run_graceful` | `SettledOnceJobExists`, `NoOrphanJob`, `ComesToRest` under `FairSpec` | two graceful restarts at any point, with lost annotations and lost answers of GitHub |
| `requests` | `TypeOK`, `OnlyNewerCancels`, `CancelledIsReplaced`, `RowsSettled`, `NewestWins`; `AllEnd` under `FairSpec` | every pair of requests of all five kinds and two slots, 2 attempts, one build at a time: a request can meet, cancel, and then be accepted or run out of attempts; a PUT of one can land before, after or in spite of the other's commit |
| `app_values` | `TypeOK`, `DomainStays`, `CommitsAtomic` | every pair of requests of all kinds, 2 attempts, one domain besides none: a read and a merge of one request around the commit of the other, and a write that lands after both were answered |
| `web` | `TypeOK`, `AnswerOfQuestion`, `ConfirmedIsDone`, `StoredIsShown`, `EachFileOnce`, `OnlyAskedRuns`, `ArrivesWhereMeant`; `SessionKept`, `NothingGoesBack`, `ServerKept`; `CatchesUp` under fairness | per page two of whatever can be confused (repositories, apps, builds, tables, posts, users, ranges) and two or three requests, so that an answer can be late, overtaken, or come back to a page that was left; the constants are in `Web.cfg` and `MCWeb` |

Why some properties speak of the first life only: after a restart a build that was answered 202 before its Job
existed is gone, a resumed run may change a verdict (`run_failed_resumed`), and its record is not written
twice. `NoOrphanJob` is checked where Create and Delete of Jobs do what they answer; with failing ones it does
not hold, because `deleteJob` only warns. The theorem `NoJobIsOrphaned` covers every other fault.

The properties of `web`, per page, are in the modules: `AnswerOfQuestion` joins `DbBrowse!RowsMatchControls`,
`SqlConsole!RowsOfExecuted`, `RepoCheck!BranchesOfInput`, `WizardForm!RuntimeIsPickOrGuess` and
`DeployProgress!MarkIsTrue`; `ConfirmedIsDone` the deletions, restores, rollbacks, comments and ended
accounts; `StoredIsShown` `SqlConsole!HistoryIsKept`, `SqlConsole!HistoryIsOwn` and `AppEnv!SavedIsSecret`;
`OnlyAskedRuns` sockets, polls and the list of the members; `ArrivesWhereMeant` the wizard's app and where
links lead; `NothingGoesBack` the polls. `AdminRows` and `RuntimeLogs` have their type invariant only: late
answers there replace newer ones, and nothing in them promises otherwise.

Where the code does not keep what one would like it to, the run takes every step of the code, and the property
names the exception by a history variable that only those steps set; everything else has to keep to it:

| property | exception | what sets it |
|---|---|---|
| `DeployRequests!NewestWins` | `late` | a newer request came after the thread's last look at its row |
| | `overtaken` | a newer request found its values in the file while this one's PUT was still on its way |
| `AppValues!DomainStays` | `holders` | a request read the row of the app before the domain was stored, and commits after |
| `SqlConsole!HistoryIsKept` | `mixed` | a query is answered after the scope has changed: its entry goes on the list of the new one |
| `SqlConsole!HistoryIsOwn` | `crossed` | that list, or one with such an entry, is saved under the scope of the query |
| `AppEnv!SavedIsSecret` | `source` | the Secret was last replaced by a save of an earlier visit of the tab |
| `WizardSubmit!DeployReachesItsApp` | `strays` | the wizard was left while its dump was being staged |

`crossed` is a disagreement with the comment at `app/AppWorkspace.jsx:1618-1620`, which says that no old
history is written over into a new slot when the scope changes at that moment: `record` saves whatever list is
on screen by then under the scope its closure captured, so the slot of the database before gets the list of
the new one. It is not a run of its own; it shows as soon as `crossed` is left out of `HistoryIsOwn`.

Violations, each a disagreement between the code and a document, comment or test of the repository
(quoted in `PROJECT.json`, "findings"):

| run | property | trace |
|---|---|---|
| `queue_two_restarts` | `AckedMeansApplied` | a builder restarts, sends an event core takes but no ack is written, restarts again with the same first number, and core drops the next event as a duplicate |
| `run_drain` | `SettledOnceJobExists` | the watch of the Job times out, `afterJob` deletes the Job and queues `failed`; Shutdown's grace ends with `failed` unsent, and the next builder finds no Job to resume: the row stays in building. (The paths that mark the Job finished instead of deleting it end the same way) |
| `run_failed_resumed` | `FailedStands` | a deployment fails while the Job still exports its cache, the builder restarts in `reap`, and the resumed run deploys the failed build |
| `requests_late` | `RedeployReplaces` | a build is replaced while its thread is between its last look at the row and the POST; it meets its successor in the builder and cancels it |
| `frontend_unread` | `ServerPreserved` | the form of a frontend is sent before the list of builds was read, or after it failed: it takes the app for one without a server and declares the server away |

### Fairness

`CallbackQueue`: the sending goroutine runs, `Sender.post` retries without end, and core answers an attempt in
the end (strong fairness of `HandleAnswered`: attempts may be lost again and again, but not all of them).
`BuildRun`: the goroutines run and every call they wait for has a deadline (`apiTimeout`,
`ARGO_WAIT_TIMEOUT`); `activeDeadlineSeconds` ends the Job; the Deployment starts the builder again. Nothing
is assumed of a push, a cancel, or Argo's verdict being a good one. `DeployRequests`: threads and runs go on.
Nothing is assumed of the user or of `cancel_remote`. `WebPages`: the timers of the domain's poll and of the
figures fire (weak), a request comes back some time (weak), and of the requests made for ever some is answered
(strong: `PollAnswered`, and `Loaded` for the range that is chosen, in one condition, since only one page
runs). Nothing is assumed of the user; the other pages need no fairness.

## 4. Proofs

`CallbackQueueProofs`, the delivery half (for any bounds): every number in use is below `nextSeq`, the
annotation is at most the unrecorded acks behind (`AnnotationNear`), and core's `last_event_seq` belongs to an
event it applied (`RowBacked`). Uniqueness of numbers needs the first two: without `AnnotationNear` a restart
could pick a number in use; `AckedMeansApplied` needs uniqueness, because a 2xx for a duplicate proves
something only if the number names one event.

- `AtLeastOnce`: `Spec => []AckedMeansApplied`. `NumbersAreUnique`: `Spec => []SeqNamesOneEvent`.
- `DeliveryCorrect`: the inductive invariant `DeliveryInv` itself.
- Assumptions of these three: `MarginAssumption` (fewer unrecorded acks than the margin, manager.go:88) and
  `MaxUnackedRestarts = 1`; the run `queue_two_restarts` shows that the latter cannot be dropped.
- `EffectsAreSingle` (`AppliedOnce`) needs neither: an applied number is at most core's `last_event_seq`.

`CallbackQueueProofs`, the log half (for any number of lines, limit and restarts): `ChannelTypes`,
`EveryLineTiled` (`LinesTiled`), `NewestLinesKept` (`NewestKept`).

- `dropOld` is defined by a recursion, which the provers cannot unfold before they know that its equation has
  a solution. It is a tail recursion and a measure falls with each turn, so a solution is given by "the value
  at the end of the chain of turns" (`TailRecursion`, `DropOldStep`).
- What the loop leaves is then found as for a loop: an invariant (`Loop`) that each turn keeps, and no
  argument of least measure can be the first for which it fails (`NoDescent`, `DropOldKeeps`).
- `Tiles` says which lines a sequence of items accounts for, without a gap and without an overlap, `Keeps`
  which ones it holds with their text. `LogInv` states both of the items behind the one that is being sent,
  and that this one goes on where core's log ends (`SentNext`): an overflow while an item is in the hand of
  the sender is the case that makes the split between `Own` and the rest necessary.
- `NoGapInTheLog` (`NoSilentGap`, with `MaxUnackedRestarts = 1`): `ShownInv` carries this to core. Every log
  event on its way starts no later than the line after what core has been shown, so that an annotation,
  written after an ack, never lies ahead of core's log.

`CallbackQueueProofs`, the order of the events (with `MaxUnackedRestarts = 1`): `DeliveryIsOrdered`, the
refinement of `OrderedDelivery`, step by step. The events in the queue are an interval of the submitted ones,
in order (`EventRun`), which neither a split nor an overflow changes; the one being sent is the last taken off
(`HandedUpTo`); what earlier processes left on the network has smaller numbers in both senses (`SentInOrder`),
so when core applies a request it is the first event that is pending (`PendingNow`).

`BuildRunProofs` (for any `Faults` and any number of restarts):

- `AnnotationsAreTrue`, `RunningRowIsLive`. `AnnotationsTrue` alone is not inductive: a resumed run repeats
  `deployed` from the annotation, and the row follows an event told earlier. `RunInv` adds that a told
  `deployed` is true (`ToldTrue`) and that what is live is in git; the facts behind them are never taken back.
- `NoJobIsOrphaned`, if Create, Delete and ListManaged of Jobs do what they answer. `JobInv` says where in the
  run the Job may be active: not before it exists, not after an end that nobody stopped (`PlaceFits`), and
  what the run and the annotation `finished` know of the Job's end is so (`EndIsKnown`).

The verdicts follow in four layers:

- `TypeInv`: `TypeCorrect`, and a builder that is down or going down has a restart left.
- `OrderInv`: what a life has told is one of six words (`stage`), each place of the run allows some of them
  (`ToldFits`), and the flags of the run say the same (`FlagsFit`). Two flags are set at different points of
  `run.go` and read at others, so the places alone would not show that no event is told twice.
  `RunImplementsReport` is the refinement of `BuildReport`.
- `VerdictInv`: in the first life the row and the record are what the events heard so far made of them, unless
  core cancelled the row. A run that is over and heard has told a verdict (`QuietRun`), whence
  `VerdictsStand`, `AcceptedIsSettledAlways` and `RecordMatches`.
- `ResumeInv`: `SettledOverRestarts` (`SettledOnceJobExists`) for any number of graceful restarts. It assumes
  that `Faults` has none of crash, drain, remove, expire and list: the builder is stopped with time to send
  its events, finds its Jobs again, and nobody else deletes them. Annotations, Create, Delete and GitHub may
  fail. A Job that the next builder will not resume has its verdict told, and a builder that found none left
  nothing open. The run `run_drain` shows that "drain" cannot be allowed.

`DeployRequestsProofs` (for any number of requests, attempts and builds): `RequestInv` joins the types with

- `OlderIsLate`: of two competing requests the older one is late, done, or about to see that its row was
  cancelled. `OnlyNewerCancels` alone says nothing of a request that is still waiting to submit;
- `VictimCompetes`: whoever a thread is about to cancel in the builder competes with it (409 names only
  those);
- `WorkingOlderIsLate`: an older run that works beside a newer one was accepted after it, and so is late: what
  `NewestWins` needs when a commit is made;
- `GitOfRun`: what is in git is of a request that ran and writes that slot;
- of the PUTs on their way: a floating one that is older than what is in git is late or overtaken, so that
  `LateWrite` may land;
- `CancelHasReason`: a cancelled row, a cancel on its way and a stopped run each have a competitor that is
  newer or late: what makes `CancelledIsReplaced` inductive.

`TypeCorrect`, `CancelsAreNewer`, `CancelsReplace` and `NewestStays` follow. `RowsSettleAlways`
(`RowsSettled`) has an invariant of its own, `RowInv`: a row that is not final belongs to a thread that has
not ended or to a run that has not been judged, and a run that core is deaf to is the second one of a request
whose row is final already.

`GitopsWriterProofs` (for any requests, fields, values and number of attempts): `AtomicCommits`, the
refinement of `ValuesFile` step by step, and `WriterTypeCorrect`. A write on its way is the only one of its
request and its change is not merged yet (`OneWriteEach`), because the goroutine reads again only after a
conflict, and then nothing of that request is on its way (`ServedInOrder`); so a write that lands is the first
one of its request, and it was made from the very file that it replaces. `OnlyTaken` (what was taken is on its
way or merged, never what was not asked for) lets a caller leave at any time. A step of `ValuesFile` is `Ask`,
`Land`, `ReadNothing`, `ReadSame` (a change that is there already is merged when it is read) or an answer; all
others stutter. The proof assumes that the blob sha is the content and that nobody else writes the file.

`AppValuesProofs` (for any number of requests, domains and attempts): `StoredDomainStays`, `AppTypeCorrect`
and `RequestsCommitAtomically` (`AppNext` takes only steps of `WriterNext`, or leaves the writer alone, so the
refinement of `ValuesFile` carries over). `DomainStays` says nothing of what is still on its way; `AppInv`
joins it with `WriterInv` and

- `Lifecycle` and `Prepared`: by the place of its thread and run, what a request can have asked of the writer,
  and that this is what its thread has prepared;
- `NewestCarried`: a request that may still be merged (`Pending`) and carries a domain carries the stored one,
  or it is a holder, prepared before that domain was stored. Every merge but a holder's therefore writes the
  stored domain or leaves the one in the file alone;
- `ChangerCarries`: the request that stored the domain is no holder, and carries a domain once it has
  prepared: its own merge brings the stored domain into the file;
- `FileThere`: after a merge there is a file, as long as no deletion was merged; without it a merge could
  start from `Empty`, which has no domain.

`WebProofs`, `WebAnswersProofs` and `WebTypesProofs` (for any pages, numbers of apps, builds, files,
terminals, polls and people): since one page takes all the steps, a property of the console is a conjunction
over pages, and each page has an inductive invariant of its own, stated in its module. A theorem joins those
that its property needs (`PagesStart`, `PagesMove`).

- `FilesListedOnce` (`EachFileOnce`), from `ListInv`: all that is listed comes before the page that is asked
  for, and an answer fits the question it was asked for (`AnswerFits`), so that files can be appended without
  comparing.
- `DoneAsConfirmed` (`ConfirmedIsDone`): `PreviewInv` (the menu that is open belongs to the file selected),
  `RestoreInv` (what is being confirmed is the file picked), `HistoryInv` (the build that is confirmed is the
  one selected, and its row says running), `EndInv`, and `CommentsInv`: a text that is typed stands beside the
  post that is shown, which an answer that comes late would change unless the page was left.
- `AnswersMatch` (`AnswerOfQuestion`): `BrowseInv` says of every request on its way which controls it was made
  for; only the newest one may be shown, and it agrees with the controls unless they have changed since
  (`RowsInv`). `SqlInv`, `ProgressInv` (the highest stage is the one shown or 0) and `ChoiceInv` do the same
  for the other pages; `BranchesOfInput` is inductive by itself.
- `ShownAsStored` (`StoredIsShown`): `SqlInv` and `EnvInv`. In `EnvInv` the copy of the shell is what is
  stored until a first save, and a tab that is not filled yet has no save of its own on its way, so that
  `source` tells whose save replaced the Secret last. In `SqlInv` the list on screen is the stored one unless
  it is mixed, and a slot that is not crossed holds only entries of its own scope; nothing is assumed of when
  the database changes.
- `OnlyAskedGoOn` (`OnlyAskedRuns`): `ViewsInv`, `PollsInv` (one loop of each kind that is alive, and none of
  an app that was left), `SummaryInv`. `SessionsKept` (`SessionKept`) is an action property over `ViewsInv`.
- `EachArrives` (`ArrivesWhereMeant`): `SubmitInv`, `SummaryInv`. The wizard may be left at any moment. What
  was sent goes to its own app, or to one that is recorded as a stray when `createDeploy` is called without an
  app after the wizard was left; `SubmitInv` says so of every later place of the chain, since the answer, the
  domain and the page it ends on follow where it was sent.
- `NoneGoesBack` (`NothingGoesBack`): in `ProgressInv`, `HistoryInv` and `PollsInv` an answer on its way is at
  least as new as what is shown, or will be thrown away; `NodesInv` the same of the use of the nodes;
  `AnsweredInv`: no poll that still counts has an invitation that was answered.
- `ServersKept` (`ServerKept`), from `FormInv`: what was read, then filled in, then declared is the server
  that is deployed, unless the list is out of date by then, or was never read, which the property leaves out
  and the run `frontend_unread` shows.
- `PagesTypeCorrect` (`WebPages!TypeOK`, all pages): most of the invariants above say the types of their page,
  the other pages have a `TypeInv`. What the others need beyond the types: a branch is asked for, or a timer
  runs, only while the repository is one that can be typed (`RepoCheck`); of the polls of the invitations one
  counts, and only that one waits for its next turn (`Sharing`); what a request of the administration got is
  no newer than core (`AdminPage`); the conditions of the table browser are finite in number, so that taking
  some away keeps them within their limit (`DbBrowse`); what the form of a frontend waits for is a list of
  builds, and what it declares a declaration or none (`FrontendForm`).

Only model-checked: all liveness (`EventsArrive`, `CloseDrains`, `ComesToRest`, `AllEnd`, `CatchesUp`),
because fairness and ENABLED are out of the provers' reach.

## 5. Behaviours seen without a run of their own

Builder and core:

- A build answered 202 is lost if the builder stops before its Job exists (`SettledOnceJobExists` starts at
  the Job for this reason). `set-image`, `config` and `delete` are lost with a builder restart, which
  `docs/go-builder-plan.md:173` leaves to core and core does not do; `Resume` does not check that a slot is
  free.
- A repeated `committed` takes a running row back to deploying until `deployed` is repeated. The record of a
  build that core cancels while its `failed` is on the way is never closed (`RecordMatchesRow` leaves
  superseded rows out). An environment change whose submit raises something other than `BuilderError` stays
  `applied` (the exception in `RowsSettled`).
- The digest annotation fails and the commit annotation does not: the resumed run reports the image
  `repo:tag@` without a digest (`run.go:301`).
- A deleted app's values file comes back. (a) A build thread past its last look at the row waits in `submit`;
  the deletion is accepted, the file and the rows go; then the build is accepted and `Merge` starts from
  `Empty`. (b) The deletion answers "skipped" because there is no file while a first deployment's PUT is on
  its way.
- The DELETE is carried out but answered with an error: the app stays, without a file. A rollback then starts
  from `Empty` and the domain is gone from git; hence the exception for deletions in `DomainStays`.
- A deployment that read the hosts before a domain was stored takes it back when it commits after (`holders`
  in `DomainStays`): `ensure_idle` is asked before the calls of Cloudflare, and a cancelled row's run does not
  count, though the comment at `v2.py:570` names just this case. A server build holds the row of the app from
  `v2.py:266` on, through its whole preparation; its hosts (`:291`) are those of that row, while
  `static_enabled` (`:300`) is read after the commit at `:298`, so one payload may hold the lists of one
  declaration and the switch of another. `delete_domain` of an app that was loaded without a domain sends the
  row as it was loaded (`router.py`, `KeepsLoaded`), though another request may have stored one since.
- A write of a cancelled run may be carried out after a newer request was served, if that one had nothing to
  change, or the file has become again what it was when the old write was made: the order of `writer.go:48` is
  that of the calls, not of the writes (`overtaken` in `NewestWins`, and `GitopsWriter`, where such a write
  still lands).
- A replaced build of a site whose `cancel_remote` fails turns the site back on. A deployment that fails
  leaves `site_enabled` as it declared it, and the next change of the domain routes by it.

The console:

- `AppEnv`: the shell's copy is read once, so the tab opened a second time after a save shows the old
  variables and may save them back (`app/AppEnv.jsx:154`). A list that could not be read is shown as empty,
  and saving one variable then replaces all of them. Edits typed during a save are thrown away; the copy is
  not read again when the role rises.
- `BuildHistory`: the poll of a build stops when the list is the first to see its end, so its last lines and
  its diagnosis may never come (`app/BuildDetail.jsx:91`). A rollback can be started twice, as can a restore
  in `AppSettings`.
- `DeployProgress` forgets the stage it saw first (`deploy/DeployProgress.jsx:177` against `:10`).
- `WizardSubmit`: when the app was made and its deployment is refused, pressing again makes a second app.
  Leaving the page during the upload of a dump does not stop the deployment, and one of an existing app is
  then sent to the app of the page that is open (`api/deploy.js:13`), or to the user's first one (`strays`).
  `RepoCheck` shows a late answer about another repository (`deploy/DeployWizard.jsx:214`); `WizardForm`
  overwrites a restored port (`:107`).
- `AppsList` offers viewers the link to the frontend form, which sends them back (`app/AppsList.jsx:309`); one
  failing list leaves the page blank. A first load of the members that comes late overwrites a newer one.
- `AppSettings`: the confirmation of a disconnect is not tied to the domain on the page; `:499` names `base`,
  which is not defined. `AppScope` takes a late answer about the app before under a new address.
- `SqlConsole`: when the database changes while a query runs, its entry is put on the list of the new one, and
  that list is saved in the slot of the old one (`mixed`, `crossed`). `DbBrowse`: an error of the list of
  tables stays. `WorkspaceViews`: the late close of an earlier Redis terminal marks the new one as closed; a
  link to the storage panel falls back to the console when the builds are not read yet.
- `Feedback`: a late answer to the list, or to a comment, opens a post over the draft of a new one, and wipes
  the text. `MetricsView`: figures of the range before are shown under the new one until the next answer.
- `AdminUsers`: two changes of a role may be carried out in the other order. `AdminRows`: an error of one
  request replaces details that were read; an unsaved number stays in its field. `AdminPage`: a failure to
  read the records is kept as an empty list.
- `AppSummary`: what `app/AppLayout.jsx:139` calls the values of now is the newest build of the server, failed
  or cancelled ones included.

## 6. Not modelled

Validation, payloads, naming, the Job's spec and shell scripts, diagnosis texts, HMAC signatures, the
console's reads in core, migrations, and the provisioning: functions of one request or declarations, with no
state that others rely on. Of the web client: the session layer (one cookie, one call each; a failed refresh
looks signed out), the public pages and guides (no state), styles, texts, sizes and animations. Core's side of
sharing, sign-in, administration and community: single-row changes without interaction, which the pages'
modules have as steps of the server. The components in section 7 are the rest.

## 7. Plan

1. `ArgoWait` with the pod watch: a verdict must belong to our commit, WaitGone, aborts; refines the choice
   that `BuildRun` makes.
2. `LogFollow`: containers one after another, reconnects by `sinceTime`, skip of acknowledged lines; composes
   with `CallbackQueue` (`acked-log-lines`). What can go wrong: a line cut by a reconnect, two lines of one
   timestamp.
3. `SlotResume`: several Jobs of one application over a restart (Resume without the checks of Submit),
   requests without a Job, core restarts with its threads.
4. `PostWatch` and the follow-ups of `apply` (diagnosis, initial dump, git-auth Secret) against a newer
   deployment.
5. `ObjectStorage` and what `delete_app` does to the namespace: steps that fail one by one and are repeated.
6. The limits and invitations of core's `sharing` under concurrent requests.

Proofs to come: those of the new components. The number of runs is kept small: a new component gets one run
for its safety and liveness together, and a component's violation runs go when the code changes.
