----------------------------- MODULE RepoCheck -----------------------------
(***************************************************************************)
(* What web/src/components/deploy/DeployWizard.jsx and its StepRepo say of  *)
(* the repository in the form: whether it and its branch exist, from the    *)
(* lists of the user's GitHub connection or from GitHub itself after a      *)
(* pause, and the branches to choose from.                                 *)
(*                                                                         *)
(* Abstracted: a URL is a model value or "bad" (not of GitHub); a list of   *)
(* branches has the branch of the form or lacks it.                        *)
(***************************************************************************)
EXTENDS Naturals

CONSTANTS
    Repos,      \* repositories that may be typed
    Exists,     \* those that anybody can see, with the branch of the form
    Connected,  \* those of the user's GitHub connection
    MaxEdits    \* bound: changes of the repository

NoRepo == ""

CheckAssumption ==
    /\ Exists \subseteq Repos /\ Connected \subseteq Repos
    /\ {NoRepo, "bad"} \cap Repos = {}
    /\ MaxEdits \in Nat

VARIABLES
    repo,
    ghRepos, listing,   \* listing: the request for them is out
    ghBranches,         \* the list and the repository it is of
    repoCheck,
    timers,             \* of "check" and "branches": the pause before the question
    checks,             \* repositories asked for at GitHub: not taken back
    asking,             \* the question of the branches is out
    repoListOpen, edits

vars == <<repo, ghRepos, listing, ghBranches, repoCheck, timers, checks, asking,
          repoListOpen, edits>>

NoBranches == [list |-> "none", of |-> NoRepo]

\* What the first step offers for the branch, and the line under the URL.
BranchField == IF ghBranches.list = "none" THEN "text" ELSE "choice"
CheckLine == IF repoCheck = "idle" THEN "" ELSE repoCheck

-----------------------------------------------------------------------------
Init ==
    /\ repo = NoRepo /\ ghRepos = {} /\ listing \in BOOLEAN
    /\ ghBranches = NoBranches /\ repoCheck = "idle"
    /\ timers = {} /\ checks = {} /\ asking = FALSE
    /\ repoListOpen = FALSE /\ edits = 0

\* The effect of the check: at once for a connected repository, otherwise after
\* the pause, which starts again with every change.
Verdict ==
    IF repo' = NoRepo THEN "idle"
    ELSE IF repo' = "bad" THEN "invalid"
    ELSE IF repo' \notin ghRepos' THEN "checking"
    ELSE IF ghBranches'.list = "lacks" THEN "notfound"
    ELSE "ok"

CheckTimer == IF Verdict = "checking" THEN {"check"} ELSE {}

\* A new URL takes back the pause and the question of the branches.
SetRepo(r) ==
    /\ edits < MaxEdits /\ r # repo
    /\ repo' = r /\ edits' = edits + 1 /\ asking' = FALSE
    /\ ghBranches' = IF r \in Repos THEN ghBranches ELSE NoBranches
    /\ UNCHANGED <<ghRepos, listing, checks>>
    /\ repoCheck' = Verdict
    /\ timers' = CheckTimer \cup (IF r \in Repos THEN {"branches"} ELSE {})

TypeRepo(r) == SetRepo(r) /\ UNCHANGED repoListOpen

PickRepo(r) ==
    /\ repoListOpen /\ r \in ghRepos /\ repoListOpen' = FALSE
    /\ SetRepo(r)

ToggleRepoList ==
    /\ repoListOpen' = ~repoListOpen
    /\ UNCHANGED <<repo, ghRepos, listing, ghBranches, repoCheck, timers, checks, asking, edits>>

\* listGithubRepos answers, or fails.
ReposListed ==
    /\ listing /\ listing' = FALSE
    /\ ghRepos' \in {Connected, {}}
    /\ UNCHANGED <<repo, ghBranches, checks, asking, repoListOpen, edits>>
    /\ repoCheck' = Verdict
    /\ timers' = (timers \ {"check"}) \cup CheckTimer

Elapse(q) ==
    /\ q \in timers /\ timers' = timers \ {q}
    /\ IF q = "check" THEN checks' = checks \cup {repo} /\ UNCHANGED asking
       ELSE asking' = TRUE /\ UNCHANGED checks
    /\ UNCHANGED <<repo, ghRepos, listing, ghBranches, repoCheck, repoListOpen, edits>>

\* GitHub's answer, whichever repository it is of.
Checked(r) ==
    /\ checks' = checks \ {r}
    /\ repoCheck' \in {IF r \in Exists THEN "ok" ELSE "notfound", "error"}
    /\ UNCHANGED <<repo, ghRepos, listing, ghBranches, timers, asking, repoListOpen, edits>>

\* listGithubBranches answers, or fails with the empty list; another list runs
\* the check again.
BranchesListed ==
    /\ asking /\ asking' = FALSE
    /\ \E l \in {"none", "has", "lacks"} : ghBranches' = [list |-> l, of |-> repo]
    /\ UNCHANGED <<repo, ghRepos, listing, checks, repoListOpen, edits>>
    /\ repoCheck' = Verdict
    /\ timers' = (timers \ {"check"}) \cup CheckTimer

Next ==
    \/ \E r \in Repos \cup {NoRepo, "bad"} : TypeRepo(r)
    \/ \E r \in ghRepos : PickRepo(r)
    \/ ToggleRepoList \/ ReposListed
    \/ \E q \in timers : Elapse(q)
    \/ \E r \in checks : Checked(r)
    \/ BranchesListed

Spec == Init /\ [][Next]_vars

-----------------------------------------------------------------------------
TypeOK ==
    /\ repo \in Repos \cup {NoRepo, "bad"} /\ ghRepos \subseteq Connected
    /\ ghBranches \in [list : {"none", "has", "lacks"}, of : Repos \cup {NoRepo}]
    /\ CheckLine \in {"", "invalid", "checking", "ok", "notfound", "error"}
    /\ timers \subseteq {"check", "branches"} /\ checks \subseteq Repos
    /\ edits \in 0 .. MaxEdits

\* The branches to choose from are those of the repository in the form, or the
\* question that replaces them is on its way, whatever was typed meanwhile.
BranchesOfInput ==
    BranchField = "choice" => ghBranches.of = repo \/ asking \/ "branches" \in timers

\* The inductive invariant behind the types: only what may be a repository is asked for.
TypeInv == TypeOK /\ (timers # {} \/ asking => repo \in Repos)
=============================================================================
