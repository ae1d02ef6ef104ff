CONSTANTS
    Pages = {"metrics", "settings", "browse", "sql", "files", "views", "logs", "wizard",
        "check", "submit", "env", "pages", "progress", "history", "frontend", "sharing",
        "feedback", "admin", "users", "rows", "summary"}
    Null = Null
    \* MetricsView
    MetricsRanges = {"1h", "6h"}
    MetricsFirstRange = "1h"
    MetricsMetrics = {"cpu", "rps"}
    MetricsPoints <- MCPoints
    MetricsMaxTicks = 2
    \* AppSettings
    SettingsDomains = {"d"}
    SettingsFiles = {"f", "g"}
    SettingsMaxCalls = 1
    \* DbBrowse
    BrowseLists <- MCLists
    BrowseColumns <- MCColumns
    BrowseMaxFilters = 1
    BrowseMaxPage = 1
    BrowseMaxSeq = 3
    BrowseMaxLists = 2
    \* SqlConsole
    SqlTexts = {"q", "r"}
    SqlScopes = {"s", "t"}
    SqlHISTORY_LIMIT = 2
    SqlMaxPage = 1
    SqlMaxCalls = 3
    \* StorageFiles
    BucketKeys = {1, 2, 3}
    BucketReadable = {1}
    BucketPageSize = 1
    BucketMaxCalls = 3
    \* WorkspaceViews
    ViewsRoles = {"owner", "viewer"}
    ViewsPanels = {"db"}
    ViewsMaxChanges = 1
    ViewsMaxTerminals = 2
    \* RuntimeLogs
    LogsMaxLoads = 3
    \* WizardForm
    WizardRepos = {"a", "b"}
    WizardGuess <- MCGuess
    WizardSavedRepo = "a"
    WizardRuntimes = {"python", "java"}
    WizardFirstRuntime = "python"
    WizardMaxEdits = 2
    \* RepoCheck
    CheckRepos = {"a", "b", "c"}
    CheckExists = {"a"}
    CheckConnected = {"b"}
    CheckMaxEdits = 2
    \* WizardSubmit
    SubmitLimit = 3
    SubmitMaxApps = 2
    SubmitMaxPresses = 2
    \* AppEnv
    EnvNames = {"K", "R"}
    EnvReserved = {"R"}
    EnvValues = {1, 2}
    EnvMaxVisits = 2
    EnvMaxCalls = 2
    \* AppPages
    PagesOfAppApps = {"x", "y"}
    PagesOfAppKinds = {"builds"}
    PagesOfAppMaxMoves = 2
    PagesOfAppMaxNews = 1
    \* DeployProgress
    ProgressMaxBuilds = 2
    ProgressOutcomes = {"running", "failed"}
    \* BuildHistory
    HistoryMaxBuilds = 3
    HistoryMaxSelects = 2
    HistoryOutcomes = {"running", "failed", "cancelled"}
    \* FrontendForm
    FrontendDecls = {"p", "q"}
    FrontendMaxOthers = 1
    \* Sharing
    SharingApps = {"a"}
    SharingRoles = {"viewer"}
    SharingOwn = "a"
    SharingMaxChanges = 1
    \* Feedback
    PostsPosts = {1, 2}
    PostsFirst = {1}
    PostsMine = {2}
    PostsMaxCalls = 2
    \* AdminPage
    AdminRoles = {"root", "user"}
    AdminMaxLoad = 2
    AdminMaxTurns = 2
    AdminMaxCalls = 1
    \* AdminUsers
    AccountsUsers = {"m", "a", "b"}
    AccountsMe = "m"
    AccountsMyRoles = {"root", "admin"}
    AccountsTiers = {"f", "g"}
    AccountsFirstTier = "f"
    AccountsMaxCalls = 1
    \* AdminRows
    RowsApps = {"a"}
    RowsRoles = {"root", "admin"}
    RowsMaxLimit = 1
    RowsMaxCalls = 1
    \* AppSummary
    SummaryDeclared = {{"redis", "storage"}}
    SummaryMaxBuilds = 2
    SummaryPeople = {0, 4}
    SummaryMaxMoves = 1
SPECIFICATION Spec
INVARIANTS
    TypeOK AnswerOfQuestion ConfirmedIsDone StoredIsShown EachFileOnce OnlyAskedRuns
    ArrivesWhereMeant
PROPERTIES
    SessionKept NothingGoesBack ServerKept CatchesUp
CHECK_DEADLOCK FALSE
