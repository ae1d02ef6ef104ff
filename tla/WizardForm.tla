----------------------------- MODULE WizardForm -----------------------------
(***************************************************************************)
(* The inputs of web/src/components/deploy/DeployWizard.jsx and its steps:  *)
(* three steps over one form, the settings of the last build restored into *)
(* it on a redeploy, and the guess of the runtime asked while the user      *)
(* types.  The check of the repository is RepoCheck, what happens after the *)
(* last button WizardSubmit.                                               *)
(*                                                                         *)
(* Abstracted: the form is the owner's; a repository stands for URL, branch *)
(* and path; a port is the default of a runtime, named by it, or "own"; of *)
(* the other settings only the static site is kept.                        *)
(***************************************************************************)
EXTENDS Naturals, FiniteSets

CONSTANTS
    Repos,      \* repositories that may be typed
    Guess,      \* Guess[r]: what the server says of r: a runtime, "unknown" or "unsupported"
    SavedRepo,  \* of the last build
    Runtimes,
    FirstRuntime,
    MaxEdits,   \* bound: changes of the repository
    Null

NoRepo == ""

FormAssumption ==
    /\ SavedRepo \in Repos
    /\ Guess \in [Repos -> Runtimes \cup {"unknown", "unsupported"}]
    /\ FirstRuntime \in Runtimes /\ "none" \notin Runtimes /\ "own" \notin Runtimes
    /\ NoRepo \notin Repos /\ Null \notin Repos \cup Runtimes
    /\ MaxEdits \in Nat

VARIABLES
    first,      \* a new app, not a redeploy
    saved,      \* of a redeploy: runtime ("none" without a server) and site
    restoring,  \* the answer with the saved settings is still out
    restoredRef,
    step,
    repo, staticRepo, runtime, port, site,   \* the form
    touched,    \* runtimeTouched
    detected,
    asking,     \* the question of the runtime: "no", "pause" before it, or "sent"
    submitting,
    picked,     \* the user's last choice, unless settings were restored since
    edits

formVars == <<repo, staticRepo, runtime, port, site, touched>>
askVars == <<detected, asking>>
appVars == <<first, saved, restoring, restoredRef>>
vars == <<appVars, step, formVars, askVars, submitting, picked, edits>>

idle == [state |-> "idle", repo |-> NoRepo]

primaryRepo == IF runtime = "none" THEN staticRepo ELSE repo
runtimeLocked == ~first \/ touched
unsupported == detected.state = "done" /\ Guess[detected.repo] = "unsupported"
runtimeBlocked == runtime # "none" /\ ~runtimeLocked /\ unsupported
disabled == primaryRepo = NoRepo \/ submitting \/ (runtime = "none" /\ ~site) \/ runtimeBlocked
nextDisabled ==
    IF step = 1 THEN primaryRepo = NoRepo \/ submitting ELSE submitting \/ runtimeBlocked

\* The line under the choice of the runtime.
RuntimeNote ==
    IF detected.state \in {"idle", "error"} THEN "none"
    ELSE IF detected.state = "loading" THEN "looking"
    ELSE IF Guess[detected.repo] = "unsupported"
         THEN IF runtimeBlocked THEN "blocked" ELSE "warned"
    ELSE IF Guess[detected.repo] = "unknown" THEN "choose"
    ELSE IF Guess[detected.repo] = runtime THEN "matches"
    ELSE "offer"

-----------------------------------------------------------------------------
Init ==
    /\ first \in BOOLEAN
    /\ saved \in [runtime : Runtimes \cup {"none"}, site : BOOLEAN]
    /\ first => saved = [runtime |-> "none", site |-> FALSE]
    /\ restoring = ~first /\ restoredRef = first
    /\ step = 1 /\ repo = NoRepo /\ staticRepo = NoRepo
    /\ runtime = FirstRuntime /\ port = FirstRuntime /\ site = FALSE /\ touched = FALSE
    /\ detected = idle /\ asking = "no"
    /\ submitting = FALSE /\ picked = Null /\ edits = 0

\* The effect of the guess: an earlier question is cancelled.
Ask(r) ==
    IF r = NoRepo THEN detected' = idle /\ asking' = "no"
    ELSE detected' = [state |-> "loading", repo |-> r] /\ asking' = "pause"

TypeRepo(r) ==
    /\ step = 1 /\ ~submitting /\ edits < MaxEdits /\ r # repo
    /\ edits' = edits + 1
    /\ repo' = r
    /\ UNCHANGED <<appVars, step, staticRepo, runtime, port, site, touched, submitting, picked>>
    /\ Ask(r)

\* The runtime and its effect: a changed one sets its port, except while the
\* settings are not restored.
SetRuntime(r, own) ==
    /\ runtime' = r
    /\ port' = IF r # runtime /\ r \in Runtimes /\ restoredRef' THEN r ELSE own

\* Both answers came.  The ref that keeps the port is set in the same turn as the
\* settings, before the effect of the runtime looks at it.
Restored ==
    /\ restoring /\ restoring' = FALSE /\ restoredRef' = TRUE
    /\ site' = saved.site /\ picked' = Null
    /\ UNCHANGED <<first, saved, step, touched, submitting, edits>>
    /\ IF saved.runtime = "none"
       THEN /\ staticRepo' = IF saved.site THEN SavedRepo ELSE NoRepo
            /\ SetRuntime(IF saved.site THEN "none" ELSE runtime, port)
            /\ UNCHANGED <<repo, detected, asking>>
       ELSE /\ repo' = SavedRepo /\ UNCHANGED staticRepo
            /\ SetRuntime(saved.runtime, "own")
            /\ IF repo = SavedRepo THEN UNCHANGED <<detected, asking>>
               ELSE Ask(SavedRepo)

RestoreFails ==
    /\ restoring /\ restoring' = FALSE
    /\ UNCHANGED <<first, saved, restoredRef, step, formVars, askVars, submitting, picked, edits>>

Elapse ==
    /\ asking = "pause" /\ asking' = "sent"
    /\ UNCHANGED <<appVars, step, formVars, detected, submitting, picked, edits>>

\* A guess fills in the runtime of a new app that the user has not chosen.
Detected ==
    /\ asking = "sent" /\ asking' = "no"
    /\ detected' = [state |-> "done", repo |-> repo]
    /\ UNCHANGED appVars
    /\ IF runtime # "none" /\ ~runtimeLocked /\ Guess[repo] \in Runtimes
       THEN SetRuntime(Guess[repo], port)
       ELSE UNCHANGED <<runtime, port>>
    /\ UNCHANGED <<step, repo, staticRepo, site, touched, submitting, picked, edits>>

DetectFails ==
    /\ asking = "sent" /\ asking' = "no"
    /\ detected' = [state |-> "error", repo |-> repo]
    /\ UNCHANGED <<appVars, step, formVars, submitting, picked, edits>>

pickRuntime(r) ==
    /\ step = 2 /\ ~submitting
    /\ touched' = TRUE /\ picked' = r
    /\ UNCHANGED appVars /\ SetRuntime(r, port)
    /\ UNCHANGED << step, repo, staticRepo, site, askVars, submitting, edits>>

TypePort ==
    /\ step = 2 /\ ~submitting /\ port' = "own"
    /\ UNCHANGED <<appVars, step, repo, staticRepo, runtime, site, touched, askVars, submitting,
                   picked, edits>>

\* The button, or Enter in a field, which does not look at nextDisabled.
Forward ==
    /\ step < 3 /\ ~submitting /\ step' = step + 1
    /\ UNCHANGED <<appVars, formVars, askVars, submitting, picked, edits>>

Back(to) ==
    /\ to < step /\ step' = to
    /\ UNCHANGED <<appVars, formVars, askVars, submitting, picked, edits>>

Submit ==
    /\ step = 3 /\ ~disabled /\ submitting' = TRUE
    /\ UNCHANGED <<appVars, step, formVars, askVars, picked, edits>>

SubmitFails ==
    /\ submitting /\ submitting' = FALSE
    /\ UNCHANGED <<appVars, step, formVars, askVars, picked, edits>>

Next ==
    \/ \E r \in Repos \cup {NoRepo} : TypeRepo(r)
    \/ Restored \/ RestoreFails
    \/ Elapse \/ Detected \/ DetectFails
    \/ \E r \in Runtimes : pickRuntime(r)
    \/ TypePort \/ Forward \/ Submit \/ SubmitFails
    \/ \E to \in 1 .. 2 : Back(to)

Spec == Init /\ [][Next]_vars

-----------------------------------------------------------------------------
TypeOK ==
    /\ step \in 1 .. 3 /\ repo \in Repos \cup {NoRepo} /\ staticRepo \in {NoRepo, SavedRepo}
    /\ runtime \in Runtimes \cup {"none"} /\ port \in Runtimes \cup {"own"}
    /\ RuntimeNote \in {"none", "looking", "blocked", "warned", "choose", "matches", "offer"}
    /\ asking \in {"no", "pause", "sent"} /\ edits \in 0 .. MaxEdits

\* Whatever the order of typing, answers and choices, the runtime a deployment
\* would use is the one the user picked or, for a new app nobody picked one for,
\* the one guessed of the repository that is in the form; and one that is not
\* supported is never deployed by a guess.
RuntimeIsPickOrGuess ==
    /\ picked # Null => runtime = picked
    /\ detected.state \in {"done", "error"} => detected.repo = repo
    /\ first /\ ~touched /\ detected.state = "done" =>
          /\ Guess[repo] \in Runtimes => runtime = Guess[repo]
          /\ Guess[repo] = "unsupported" => disabled

\* What each step keeps: nothing is restored into a new app, so it has a server, and
\* what the user picked stays picked.
ChoiceInv ==
    /\ first \in BOOLEAN /\ touched \in BOOLEAN
    /\ first => ~restoring /\ runtime \in Runtimes
    /\ picked # Null => touched
    /\ RuntimeIsPickOrGuess

\* The inductive invariant behind the types.
TypeInv == TypeOK /\ saved \in [runtime : Runtimes \cup {"none"}, site : BOOLEAN]

=============================================================================
