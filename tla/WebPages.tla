------------------------------- MODULE WebPages -------------------------------
(***************************************************************************)
(* The pages of the web console together.  The browser shows one of them   *)
(* at a time and they have no state in common but what the server keeps,   *)
(* which each module has its own part of.  So one page is chosen at the    *)
(* start and takes all the steps: the state spaces of the modules are      *)
(* added up, not multiplied.  v1, v2, ... are the variables of that page   *)
(* in the order its module declares them; the rest are 0.  The constants   *)
(* of a module carry the name of its instance.                             *)
(***************************************************************************)
EXTENDS Integers, Sequences, FiniteSets

CONSTANTS
    Pages, Null,
    MetricsRanges, MetricsFirstRange, MetricsMetrics, MetricsPoints, MetricsMaxTicks,
    SettingsDomains, SettingsFiles, SettingsMaxCalls,
    BrowseLists, BrowseColumns, BrowseMaxFilters, BrowseMaxPage, BrowseMaxSeq,
    BrowseMaxLists,
    SqlTexts, SqlScopes, SqlHISTORY_LIMIT, SqlMaxPage, SqlMaxCalls,
    BucketKeys, BucketReadable, BucketPageSize, BucketMaxCalls,
    ViewsRoles, ViewsPanels, ViewsMaxChanges, ViewsMaxTerminals,
    LogsMaxLoads,
    WizardRepos, WizardGuess, WizardSavedRepo, WizardRuntimes, WizardFirstRuntime,
    WizardMaxEdits,
    CheckRepos, CheckExists, CheckConnected, CheckMaxEdits,
    SubmitLimit, SubmitMaxApps, SubmitMaxPresses,
    EnvNames, EnvReserved, EnvValues, EnvMaxVisits, EnvMaxCalls,
    PagesOfAppApps, PagesOfAppKinds, PagesOfAppMaxMoves, PagesOfAppMaxNews,
    ProgressMaxBuilds, ProgressOutcomes,
    HistoryMaxBuilds, HistoryMaxSelects, HistoryOutcomes,
    FrontendDecls, FrontendMaxOthers,
    SharingApps, SharingRoles, SharingOwn, SharingMaxChanges,
    PostsPosts, PostsFirst, PostsMine, PostsMaxCalls,
    AdminRoles, AdminMaxLoad, AdminMaxTurns, AdminMaxCalls,
    AccountsUsers, AccountsMe, AccountsMyRoles, AccountsTiers, AccountsFirstTier,
    AccountsMaxCalls,
    RowsApps, RowsRoles, RowsMaxLimit, RowsMaxCalls,
    SummaryDeclared, SummaryMaxBuilds, SummaryPeople, SummaryMaxMoves

VARIABLES
    page, v1, v2, v3, v4, v5, v6, v7, v8, v9, v10, v11, v12, v13, v14, v15, v16, v17, v18,
    v19

MetricsPage == INSTANCE MetricsView WITH
    Ranges <- MetricsRanges, FirstRange <- MetricsFirstRange, Metrics <- MetricsMetrics,
    Points <- MetricsPoints, MaxTicks <- MetricsMaxTicks, range <- v1, picked <- v2,
    data <- v3, error <- v4, loading <- v5, fetched <- v6, hover <- v7, out <- v8

Settings == INSTANCE AppSettings WITH
    Domains <- SettingsDomains, Files <- SettingsFiles, MaxCalls <- SettingsMaxCalls,
    dom <- v1, section <- v2, moved <- v3, info <- v4, poll <- v5, check <- v6, draft <- v7,
    editing <- v8, confirmOff <- v9, calls <- v10, file <- v11, confirming <- v12,
    asked <- v13, deleteOpen <- v14, typed <- v15, deleting <- v16, gone <- v17,
    error <- v18, made <- v19

Browse == INSTANCE DbBrowse WITH
    Lists <- BrowseLists, Columns <- BrowseColumns, MaxFilters <- BrowseMaxFilters,
    MaxPage <- BrowseMaxPage, MaxSeq <- BrowseMaxSeq, MaxLists <- BrowseMaxLists,
    tables <- v1, tablesError <- v2, listing <- v3, selectedKey <- v4, hidden <- v5,
    filters <- v6, applied <- v7, sort <- v8, offset <- v9, result <- v10, error <- v11,
    loading <- v12, seq <- v13, pending <- v14

Sql == INSTANCE SqlConsole WITH
    Texts <- SqlTexts, Scopes <- SqlScopes, HISTORY_LIMIT <- SqlHISTORY_LIMIT,
    MaxPage <- SqlMaxPage, MaxCalls <- SqlMaxCalls, scope <- v1, sql <- v2, result <- v3,
    executed <- v4, error <- v5, loading <- v6, tab <- v7, history <- v8, store <- v9,
    saved <- v10, savedError <- v11, dialog <- v12, call <- v13, saving <- v14,
    listing <- v15, deleting <- v16, calls <- v17, mixed <- v18, crossed <- v19

Bucket == INSTANCE StorageFiles WITH
    Keys <- BucketKeys, Readable <- BucketReadable, PageSize <- BucketPageSize,
    MaxCalls <- BucketMaxCalls, bucket <- v1, objects <- v2, next <- v3, loading <- v4,
    loaded <- v5, error <- v6, selectedKey <- v7, reversed <- v8, previewOpen <- v9,
    call <- v10, preview <- v11, deletions <- v12, calls <- v13, wanted <- v14

Views == INSTANCE WorkspaceViews WITH
    Roles <- ViewsRoles, Panels <- ViewsPanels, MaxChanges <- ViewsMaxChanges,
    MaxTerminals <- ViewsMaxTerminals, role <- v1, panel <- v2, build <- v3, features <- v4,
    view <- v5, opened <- v6, zoom <- v7, target <- v8, openedTargets <- v9, conn <- v10,
    mode <- v11, terminalOpened <- v12, ws <- v13, closing <- v14, changes <- v15

Logs == INSTANCE RuntimeLogs WITH
    MaxLoads <- LogsMaxLoads, pod <- v1, asked <- v2, lines <- v3, previous <- v4,
    source <- v5, error <- v6, loading <- v7, level <- v8, loads <- v9

Wizard == INSTANCE WizardForm WITH
    Repos <- WizardRepos, Guess <- WizardGuess, SavedRepo <- WizardSavedRepo,
    Runtimes <- WizardRuntimes, FirstRuntime <- WizardFirstRuntime,
    MaxEdits <- WizardMaxEdits, first <- v1, saved <- v2, restoring <- v3,
    restoredRef <- v4, step <- v5, repo <- v6, staticRepo <- v7, runtime <- v8, port <- v9,
    site <- v10, touched <- v11, detected <- v12, asking <- v13, submitting <- v14,
    picked <- v15, edits <- v16

Check == INSTANCE RepoCheck WITH
    Repos <- CheckRepos, Exists <- CheckExists, Connected <- CheckConnected,
    MaxEdits <- CheckMaxEdits, repo <- v1, ghRepos <- v2, listing <- v3, ghBranches <- v4,
    repoCheck <- v5, timers <- v6, checks <- v7, asking <- v8, repoListOpen <- v9,
    edits <- v10

Submit == INSTANCE WizardSubmit WITH
    Limit <- SubmitLimit, MaxApps <- SubmitMaxApps, MaxPresses <- SubmitMaxPresses,
    target <- v1, before <- v2, apps <- v3, known <- v4, signedIn <- v5, page <- v6,
    mounted <- v7, at <- v8, newApp <- v9, to <- v10, result <- v11, deployed <- v12,
    error <- v13, presses <- v14, strays <- v15

Env == INSTANCE AppEnv WITH
    Names <- EnvNames, Reserved <- EnvReserved, Values <- EnvValues,
    MaxVisits <- EnvMaxVisits, MaxCalls <- EnvMaxCalls, secret <- v1, envVars <- v2,
    wellRead <- v3, source <- v4, shown <- v5, visits <- v6, rows <- v7, bad <- v8,
    saved <- v9, calls <- v10, reservedMap <- v11, notice <- v12, visible <- v13,
    made <- v14

PagesOfApp == INSTANCE AppPages WITH
    Apps <- PagesOfAppApps, Kinds <- PagesOfAppKinds, MaxMoves <- PagesOfAppMaxMoves,
    MaxNews <- PagesOfAppMaxNews, news <- v1, appId <- v2, tab <- v3, active <- v4,
    app <- v5, state <- v6, getApps <- v7, loops <- v8, shown <- v9, error <- v10,
    moves <- v11

Progress == INSTANCE DeployProgress WITH
    MaxBuilds <- ProgressMaxBuilds, Outcomes <- ProgressOutcomes, rows <- v1, wanted <- v2,
    build <- v3, loaded <- v4, error <- v5, list <- v6, log <- v7, deps <- v8,
    highWater <- v9, seen <- v10, capped <- v11

History == INSTANCE BuildHistory WITH
    MaxBuilds <- HistoryMaxBuilds, MaxSelects <- HistoryMaxSelects,
    Outcomes <- HistoryOutcomes, rows <- v1, builds <- v2, list <- v3, pinned <- v4,
    id <- v5, build <- v6, poll <- v7, tab <- v8, confirming <- v9, busy <- v10,
    error <- v11, asked <- v12, rollbacks <- v13, page <- v14, selects <- v15

Frontend == INSTANCE FrontendForm WITH
    Decls <- FrontendDecls, MaxOthers <- FrontendMaxOthers, rows <- v1, slot <- v2,
    app <- v3, role <- v4, get <- v5, got <- v6, loaded <- v7, serverBuild <- v8,
    status <- v9, repo <- v10, env <- v11, submitting <- v12, error <- v13, declared <- v14,
    page <- v15, stale <- v16, others <- v17

SharingPage == INSTANCE Sharing WITH
    Apps <- SharingApps, Roles <- SharingRoles, Own <- SharingOwn,
    MaxChanges <- SharingMaxChanges, share <- v1, ticks <- v2, apps <- v3, invites <- v4,
    blank <- v5, answering <- v6, answered <- v7, data <- v8, loads <- v9, call <- v10,
    error <- v11, changes <- v12

PostsPage == INSTANCE Feedback WITH
    Posts <- PostsPosts, First <- PostsFirst, Mine <- PostsMine, MaxCalls <- PostsMaxCalls,
    server <- v1, said <- v2, posts <- v3, detail <- v4, composing <- v5, text <- v6,
    secret <- v7, busy <- v8, content <- v9, sending <- v10, calls <- v11

Admin == INSTANCE AdminPage WITH
    Roles <- AdminRoles, MaxLoad <- AdminMaxLoad, MaxTurns <- AdminMaxTurns,
    MaxCalls <- AdminMaxCalls, load <- v1, done <- v2, me <- v3, tab <- v4, turns <- v5,
    nodes <- v6, polls <- v7, showBuilds <- v8, records <- v9, actions <- v10, error <- v11,
    calls <- v12

Accounts == INSTANCE AdminUsers WITH
    Users <- AccountsUsers, Me <- AccountsMe, MyRoles <- AccountsMyRoles,
    Tiers <- AccountsTiers, FirstTier <- AccountsFirstTier, MaxCalls <- AccountsMaxCalls,
    accounts <- v1, users <- v2, expanded <- v3, deleting <- v4, typed <- v5,
    submitting <- v6, calls <- v7

Rows == INSTANCE AdminRows WITH
    Apps <- RowsApps, Roles <- RowsRoles, MaxLimit <- RowsMaxLimit,
    MaxCalls <- RowsMaxCalls, me <- v1, expanded <- v2, details <- v3, asked <- v4,
    open <- v5, pods <- v6, podsError <- v7, podsAsked <- v8, limit <- v9, shown <- v10,
    value <- v11, saves <- v12, lists <- v13

Summary == INSTANCE AppSummary WITH
    Declared <- SummaryDeclared, MaxBuilds <- SummaryMaxBuilds, People <- SummaryPeople,
    MaxMoves <- SummaryMaxMoves, rows <- v1, builds <- v2, role <- v3, admin <- v4,
    page <- v5, view <- v6, env <- v7, share <- v8, asks <- v9, infoOpen <- v10,
    done <- v11, meant <- v12, moves <- v13

\* What the modules assume of their constants.
ASSUME PageAssumptions ==
    /\ MetricsPage!MetricsAssumption
    /\ Settings!SettingsAssumption
    /\ Browse!BrowseAssumption
    /\ Sql!SqlAssumption
    /\ Bucket!StorageAssumption
    /\ Views!ViewsAssumption
    /\ Logs!LogsAssumption
    /\ Wizard!FormAssumption
    /\ Check!CheckAssumption
    /\ Submit!SubmitAssumption
    /\ Env!EnvAssumption
    /\ PagesOfApp!PagesAssumption
    /\ Progress!ProgressAssumption
    /\ History!HistoryAssumption
    /\ Frontend!FrontendAssumption
    /\ SharingPage!SharingAssumption
    /\ PostsPage!FeedbackAssumption
    /\ Admin!AdminAssumption
    /\ Accounts!UsersAssumption
    /\ Rows!RowsAssumption
    /\ Summary!SummaryAssumption

-----------------------------------------------------------------------------
vars == <<page, v1, v2, v3, v4, v5, v6, v7, v8, v9, v10, v11, v12, v13, v14, v15, v16, v17,
             v18, v19>>

\* The variables a page does not have.
After7 == <<v8, v9, v10, v11, v12, v13, v14, v15, v16, v17, v18, v19>>
After8 == <<v9, v10, v11, v12, v13, v14, v15, v16, v17, v18, v19>>
After9 == <<v10, v11, v12, v13, v14, v15, v16, v17, v18, v19>>
After10 == <<v11, v12, v13, v14, v15, v16, v17, v18, v19>>
After11 == <<v12, v13, v14, v15, v16, v17, v18, v19>>
After12 == <<v13, v14, v15, v16, v17, v18, v19>>
After13 == <<v14, v15, v16, v17, v18, v19>>
After14 == <<v15, v16, v17, v18, v19>>
After15 == <<v16, v17, v18, v19>>
After16 == <<v17, v18, v19>>
After17 == <<v18, v19>>

Init ==
    /\ \/ /\ page = "metrics" /\ MetricsPage!Init
          /\ v9 = 0 /\ v10 = 0 /\ v11 = 0 /\ v12 = 0 /\ v13 = 0 /\ v14 = 0 /\ v15 = 0
          /\ v16 = 0 /\ v17 = 0 /\ v18 = 0 /\ v19 = 0
       \/ /\ page = "settings" /\ Settings!Init
       \/ /\ page = "browse" /\ Browse!Init
          /\ v15 = 0 /\ v16 = 0 /\ v17 = 0 /\ v18 = 0 /\ v19 = 0
       \/ /\ page = "sql" /\ Sql!Init
       \/ /\ page = "files" /\ Bucket!Init
          /\ v15 = 0 /\ v16 = 0 /\ v17 = 0 /\ v18 = 0 /\ v19 = 0
       \/ /\ page = "views" /\ Views!Init
          /\ v16 = 0 /\ v17 = 0 /\ v18 = 0 /\ v19 = 0
       \/ /\ page = "logs" /\ Logs!Init
          /\ v10 = 0 /\ v11 = 0 /\ v12 = 0 /\ v13 = 0 /\ v14 = 0 /\ v15 = 0 /\ v16 = 0
          /\ v17 = 0 /\ v18 = 0 /\ v19 = 0
       \/ /\ page = "wizard" /\ Wizard!Init
          /\ v17 = 0 /\ v18 = 0 /\ v19 = 0
       \/ /\ page = "check" /\ Check!Init
          /\ v11 = 0 /\ v12 = 0 /\ v13 = 0 /\ v14 = 0 /\ v15 = 0 /\ v16 = 0 /\ v17 = 0
          /\ v18 = 0 /\ v19 = 0
       \/ /\ page = "submit" /\ Submit!Init
          /\ v16 = 0 /\ v17 = 0 /\ v18 = 0 /\ v19 = 0
       \/ /\ page = "env" /\ Env!Init
          /\ v15 = 0 /\ v16 = 0 /\ v17 = 0 /\ v18 = 0 /\ v19 = 0
       \/ /\ page = "pages" /\ PagesOfApp!Init
          /\ v12 = 0 /\ v13 = 0 /\ v14 = 0 /\ v15 = 0 /\ v16 = 0 /\ v17 = 0 /\ v18 = 0
          /\ v19 = 0
       \/ /\ page = "progress" /\ Progress!Init
          /\ v12 = 0 /\ v13 = 0 /\ v14 = 0 /\ v15 = 0 /\ v16 = 0 /\ v17 = 0 /\ v18 = 0
          /\ v19 = 0
       \/ /\ page = "history" /\ History!Init
          /\ v16 = 0 /\ v17 = 0 /\ v18 = 0 /\ v19 = 0
       \/ /\ page = "frontend" /\ Frontend!Init
          /\ v18 = 0 /\ v19 = 0
       \/ /\ page = "sharing" /\ SharingPage!Init
          /\ v13 = 0 /\ v14 = 0 /\ v15 = 0 /\ v16 = 0 /\ v17 = 0 /\ v18 = 0 /\ v19 = 0
       \/ /\ page = "feedback" /\ PostsPage!Init
          /\ v12 = 0 /\ v13 = 0 /\ v14 = 0 /\ v15 = 0 /\ v16 = 0 /\ v17 = 0 /\ v18 = 0
          /\ v19 = 0
       \/ /\ page = "admin" /\ Admin!Init
          /\ v13 = 0 /\ v14 = 0 /\ v15 = 0 /\ v16 = 0 /\ v17 = 0 /\ v18 = 0 /\ v19 = 0
       \/ /\ page = "users" /\ Accounts!Init
          /\ v8 = 0 /\ v9 = 0 /\ v10 = 0 /\ v11 = 0 /\ v12 = 0 /\ v13 = 0 /\ v14 = 0
          /\ v15 = 0 /\ v16 = 0 /\ v17 = 0 /\ v18 = 0 /\ v19 = 0
       \/ /\ page = "rows" /\ Rows!Init
          /\ v14 = 0 /\ v15 = 0 /\ v16 = 0 /\ v17 = 0 /\ v18 = 0 /\ v19 = 0
       \/ /\ page = "summary" /\ Summary!Init
          /\ v14 = 0 /\ v15 = 0 /\ v16 = 0 /\ v17 = 0 /\ v18 = 0 /\ v19 = 0
    /\ page \in Pages

MetricsPageNext == page = "metrics" /\ MetricsPage!Next /\ UNCHANGED After8
SettingsNext == page = "settings" /\ Settings!Next
BrowseNext == page = "browse" /\ Browse!Next /\ UNCHANGED After14
SqlNext == page = "sql" /\ Sql!Next
BucketNext == page = "files" /\ Bucket!Next /\ UNCHANGED After14
ViewsNext == page = "views" /\ Views!Next /\ UNCHANGED After15
LogsNext == page = "logs" /\ Logs!Next /\ UNCHANGED After9
WizardNext == page = "wizard" /\ Wizard!Next /\ UNCHANGED After16
CheckNext == page = "check" /\ Check!Next /\ UNCHANGED After10
SubmitNext == page = "submit" /\ Submit!Next /\ UNCHANGED After15
EnvNext == page = "env" /\ Env!Next /\ UNCHANGED After14
PagesOfAppNext == page = "pages" /\ PagesOfApp!Next /\ UNCHANGED After11
ProgressNext == page = "progress" /\ Progress!Next /\ UNCHANGED After11
HistoryNext == page = "history" /\ History!Next /\ UNCHANGED After15
FrontendNext == page = "frontend" /\ Frontend!Next /\ UNCHANGED After17
SharingPageNext == page = "sharing" /\ SharingPage!Next /\ UNCHANGED After12
PostsPageNext == page = "feedback" /\ PostsPage!Next /\ UNCHANGED After11
AdminNext == page = "admin" /\ Admin!Next /\ UNCHANGED After12
AccountsNext == page = "users" /\ Accounts!Next /\ UNCHANGED After7
RowsNext == page = "rows" /\ Rows!Next /\ UNCHANGED After13
SummaryNext == page = "summary" /\ Summary!Next /\ UNCHANGED After13

Next ==
    /\ \/ MetricsPageNext \/ SettingsNext \/ BrowseNext \/ SqlNext \/ BucketNext
       \/ ViewsNext \/ LogsNext \/ WizardNext \/ CheckNext \/ SubmitNext
       \/ EnvNext \/ PagesOfAppNext \/ ProgressNext \/ HistoryNext \/ FrontendNext
       \/ SharingPageNext \/ PostsPageNext \/ AdminNext \/ AccountsNext \/ RowsNext
       \/ SummaryNext
    /\ UNCHANGED page

\* The timers of the settings and of the figures fire, every request comes back some
\* time, and of those made for ever some is answered: of the figures, some for the
\* range that is chosen (v1).
OfSettings(A) == page = "settings" /\ A /\ UNCHANGED page
OfMetrics(A) == page = "metrics" /\ A /\ UNCHANGED After8 /\ UNCHANGED page
Fairness ==
    /\ WF_vars(OfSettings(Settings!PollRead)) /\ WF_vars(OfSettings(Settings!PollAgain))
    /\ SF_vars(OfSettings(Settings!PollAnswered) \/ OfMetrics(MetricsPage!Loaded(v1)))
    /\ WF_vars(OfSettings(Settings!CheckReturns))
    /\ WF_vars(OfSettings(Settings!CallReturns))
    /\ WF_vars(OfMetrics(MetricsPage!Tick))

Spec == Init /\ [][Next]_vars /\ Fairness

-----------------------------------------------------------------------------
TypeOK ==
    /\ page = "metrics" => MetricsPage!TypeOK
    /\ page = "settings" => Settings!TypeOK
    /\ page = "browse" => Browse!TypeOK
    /\ page = "sql" => Sql!TypeOK
    /\ page = "files" => Bucket!TypeOK
    /\ page = "views" => Views!TypeOK
    /\ page = "logs" => Logs!TypeOK
    /\ page = "wizard" => Wizard!TypeOK
    /\ page = "check" => Check!TypeOK
    /\ page = "submit" => Submit!TypeOK
    /\ page = "env" => Env!TypeOK
    /\ page = "pages" => PagesOfApp!TypeOK
    /\ page = "progress" => Progress!TypeOK
    /\ page = "history" => History!TypeOK
    /\ page = "frontend" => Frontend!TypeOK
    /\ page = "sharing" => SharingPage!TypeOK
    /\ page = "feedback" => PostsPage!TypeOK
    /\ page = "admin" => Admin!TypeOK
    /\ page = "users" => Accounts!TypeOK
    /\ page = "rows" => Rows!TypeOK
    /\ page = "summary" => Summary!TypeOK

\* Late answers: the rows of the table browser and of the query, the branches to
\* choose from, the runtime that was guessed and the stage a failure is marked at
\* are those of what is on the page now, in whatever order requests are answered.
AnswerOfQuestion ==
    /\ page = "browse" => Browse!RowsMatchControls
    /\ page = "sql" => Sql!RowsOfExecuted
    /\ page = "check" => Check!BranchesOfInput
    /\ page = "wizard" => Wizard!RuntimeIsPickOrGuess
    /\ page = "progress" => Progress!MarkIsTrue

\* What cannot be taken back (a deletion, a restore, a rollback, the end of an account)
\* is done to what the user was asked about, and a comment is made on the post it was
\* typed beside, though the page changes between the question and the press.
ConfirmedIsDone ==
    /\ page = "files" => Bucket!OnlyAskedIsDeleted
    /\ page = "settings" => Settings!ConfirmedFile
    /\ page = "history" => History!RollbackIsConfirmed /\ History!RollbackRan
    /\ page = "users" => Accounts!EndedIsTyped
    /\ page = "feedback" => PostsPage!CommentsWhereTyped

\* See SqlConsole and AppEnv: what the page takes for stored is what is stored: the
\* recent runs of the database in use, which are nobody else's, and the environment
\* the table is compared with.
StoredIsShown ==
    /\ page = "sql" => Sql!HistoryIsKept /\ Sql!HistoryIsOwn
    /\ page = "env" => Env!SavedIsSecret

\* See StorageFiles: pages, deletions and uploads that cross list no file twice.
EachFileOnce == page = "files" => Bucket!EachFileOnce

\* See WorkspaceViews, AppPages and AppSummary: sockets, polls and the list of the
\* members are asked for where, and by whom, they may be.
OnlyAskedRuns ==
    /\ page = "views" => Views!SocketsAsked
    /\ page = "pages" => PagesOfApp!OnePollEach
    /\ page = "summary" => Summary!MembersAreOwners

\* See WizardSubmit and AppSummary: a deployment reaches the app of its wizard, and
\* so does the user; a link leads to what it names.
ArrivesWhereMeant ==
    /\ page = "submit" => Submit!DeployReachesItsApp /\ Submit!ArrivesAtDeployed
    /\ page = "summary" => Summary!LinksLand

\* See WorkspaceViews: changing views ends no session.
SessionKept == [][page = "views" => Views!SessionKept]_vars

\* See DeployProgress, BuildHistory, AppPages, AdminPage and Sharing: with two polls, or a poll
\* that was started anew, no late answer replaces what is shown by something older.
NothingGoesBack ==
    [][/\ page = "progress" => Progress!LogsGoForward
       /\ page = "history" => History!LogsGoForward
       /\ page = "pages" => PagesOfApp!NewsGoForward
       /\ page = "admin" => Admin!NodesGoForward
       /\ page = "sharing" => SharingPage!AnsweredStaysGone]_vars

\* See FrontendForm: deploying a frontend leaves the server as it is.
ServerKept == [][page = "frontend" => Frontend!ServerKept]_vars

\* An open section of the domain comes to show the server's domain, and the view of
\* the figures those of the range that was chosen last, with no help from the user.
CatchesUp ==
    LET Here(p, P) == page = p /\ P
    IN /\ <>[]Here("settings", Settings!AtDomain) => <>[]Here("settings", Settings!CaughtUp)
       /\ \A r \in MetricsRanges :
              <>[]Here("metrics", v1 = r) => <>[]Here("metrics", MetricsPage!OfRange)

=============================================================================
