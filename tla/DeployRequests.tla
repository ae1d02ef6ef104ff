--------------------------- MODULE DeployRequests ---------------------------
(***************************************************************************)
(* The requests of one app, from the user's click to the end of the run,   *)
(* and how a newer one replaces an older one:                              *)
(*                                                                         *)
(*   router / pipeline.start_deploy   cancels the slot's active rows,      *)
(*        |                           spawns cancel_remote for each        *)
(*   thread of run_v2_build ...       check, prepare, mark, submit         *)
(*        |  POST, DELETE                                                  *)
(*   Manager.Submit / Cancel          409 per slot, 429 over the limit     *)
(*        |                                                                *)
(*   run goroutine                    commit, verdict, reap                *)
(*                                                                         *)
(* Every task of core is a thread of its own (spawn_background) and shares *)
(* only the database with the others, so a row may change between any two  *)
(* of its statements.                                                      *)
(*                                                                         *)
(* Simplifications.                                                        *)
(*  - The inside of a run is BuildRun: here it commits, gets its verdict   *)
(*    and, if it is a build, is reaped.  core hears of it at once.         *)
(*  - A request with both slots is one request per slot.                   *)
(*  - Nobody but the builder deletes Jobs, and neither process restarts.    *)
(*  - core reads and writes a row in one step of _fail and of apply.       *)
(*  - Requests of other apps are only the room they leave in the limit.    *)
(***************************************************************************)
EXTENDS Naturals, FiniteSets

CONSTANTS
    MaxRequests,      \* bound: requests of the app
    Kinds,            \* kinds of request the user makes
    Slots,            \* slots of the app
    MaxAttempts,      \* MAX_ATTEMPTS of core/app/builder/client.py (6)
    MaxActiveBuilds   \* MAX_ACTIVE_BUILDS of the builder

ASSUME RequestAssumption ==
    /\ MaxRequests \in Nat /\ MaxAttempts \in Nat \ {0}
    /\ Kinds \subseteq {"build", "set-image", "config", "remove", "delete"}
    /\ Slots \subseteq {"server", "static"}
    /\ MaxActiveBuilds \in Nat

Requests == 1 .. MaxRequests

VARIABLES
    started,    \* requests made so far: request n is older than n + 1
    kind, slot, \* kind and slot of each
    row,        \* builds.status; none for a request without a row
    recall,     \* cancel_remote of the request is on its way
    task,       \* core's thread of the request
    tries,      \* failed attempts of builder.submit
    victim,     \* the build_id of the 409 that submit is about to cancel
    late,       \* history: requests that missed that a newer one came
    run,        \* its run in the builder: none, working, committed, reaping, over
    stopped,    \* the run was cancelled (errUserCancelled)
    deaf,       \* core has seen the numbers of the run's events before
    killers,    \* history: requests that have cancelled this one's run
    git,        \* per slot, the request whose values are in git; 0 for none
    floating,   \* requests that gave up on a PUT that GitHub may still make
    overtaken   \* history: of these, those a newer request found nothing to
                \* change before: their PUT is not outdated

coreVars == <<started, kind, slot, row, recall, task, tries, victim, late>>
gitVars == <<git, floating, overtaken>>
builderVars == <<run, stopped, deaf, killers, gitVars>>
vars == <<coreVars, builderVars>>

ActiveStatuses == {"queued", "building", "deploying"}
FinalStatuses == {"running", "failed", "cancelled"}

Init ==
    /\ started = 0
    /\ kind = [r \in Requests |-> "build"] /\ slot = [r \in Requests |-> "server"]
    /\ row = [r \in Requests |-> "none"] /\ recall = [r \in Requests |-> FALSE]
    /\ task = [r \in Requests |-> "new"] /\ tries = [r \in Requests |-> 0]
    /\ victim = [r \in Requests |-> 0] /\ late = {}
    /\ run = [r \in Requests |-> "none"] /\ stopped = [r \in Requests |-> FALSE]
    /\ deaf = {} /\ killers = [r \in Requests |-> {}]
    /\ git = [s \in Slots |-> 0] /\ floating = {} /\ overtaken = {}

Made == 1 .. started
InManager(r) == run[r] \in {"working", "committed", "reaping"}
Blocking(r) == run[r] \in {"working", "committed"}

-------------------------------------------------------------------------------
(***************************************************************************)
(* The user's requests: start_deploy, start_rollback, env_put, delete_app. *)
(***************************************************************************)
\* Mutant: the stale rows are those of the whole app.
StaleOfApp(s) == {r \in Made : row[r] \in ActiveStatuses}

Stale(s) == {r \in Made : row[r] \in ActiveStatuses /\ slot[r] = s}

\* Do two requests exclude each other in the builder?
Compete(k1, s1, k2, s2) == s1 = s2 \/ "delete" \in {k1, k2}

\* A request that a newer one competes with is late unless its row is
\* cancelled before its thread's last look at it.
Missed(k, s) ==
    {r \in Made : /\ task[r] # "done"
                  /\ Compete(k, s, kind[r], slot[r])
                  /\ ~(task[r] \in {"check", "prepare"} /\ row'[r] = "cancelled")}

NewTask(k, s, firstLabel) ==
    /\ started < MaxRequests
    /\ k \in Kinds /\ s \in Slots
    /\ started' = started + 1
    /\ kind' = [kind EXCEPT ![started + 1] = k]
    /\ slot' = [slot EXCEPT ![started + 1] = s]
    /\ task' = [task EXCEPT ![started + 1] = firstLabel]
    /\ late' = late \cup Missed(k, s)
    /\ UNCHANGED <<tries, victim, builderVars>>

\* _cancel_stale_builds and the new row.
ReplaceStale(s, status) ==
    /\ row' = [r \in Requests |-> IF r \in Stale(s) THEN "cancelled"
                                  ELSE IF r = started + 1 THEN status ELSE row[r]]
    /\ recall' = [r \in Requests |-> recall[r] \/ r \in Stale(s)]

StartDeploy(s) == ReplaceStale(s, "queued") /\ NewTask("build", s, "check")

StartRollback ==
    ReplaceStale("server", "deploying") /\ NewTask("set-image", "server", "check")

\* A deployment without a server, of an app that has one: remove_server.
StartRemove == ReplaceStale("server", "none") /\ NewTask("remove", "server", "posting")

\* env_put: a change of the environment waits for the deployments to end
\* (ensure_idle).  Its row is applied until it is running.
StartConfig ==
    /\ Stale("server") = {}
    /\ row' = [row EXCEPT ![started + 1] = "applied"]
    /\ NewTask("config", "server", "posting")
    /\ UNCHANGED recall

StartDelete ==
    /\ UNCHANGED <<row, recall>>
    /\ NewTask("delete", "server", "posting")

\* cancel_remote: one DELETE, which may fail.
CancelRemote(r) ==
    /\ recall[r]
    /\ recall' = [recall EXCEPT ![r] = FALSE]
    /\ \/ InManager(r) /\ stopped' = [stopped EXCEPT ![r] = TRUE]
       \/ UNCHANGED stopped
    /\ UNCHANGED <<started, kind, slot, row, task, tries, victim, late, run, deaf,
                   killers, gitVars>>

-------------------------------------------------------------------------------
(***************************************************************************)
(* run_v2_build and run_v2_rollback up to submit.                          *)
(***************************************************************************)
GoOn(r, label) == task' = [task EXCEPT ![r] = label]

\* The looks at the row at the start and after the preparation.
Look(r, from, to) ==
    /\ task[r] = from
    /\ GoOn(r, IF row[r] = "cancelled" THEN "done" ELSE to)
    /\ UNCHANGED <<started, kind, slot, row, recall, tries, victim, late, builderVars>>

\* Mutant: the preparation is not followed by a look.
PrepareBlindly(r) ==
    /\ task[r] = "prepare"
    /\ GoOn(r, "mark")
    /\ UNCHANGED <<started, kind, slot, row, recall, tries, victim, late, builderVars>>

Check(r) == Look(r, "check", "prepare")
Prepare(r) == Look(r, "prepare", "mark")

\* The status is set without another look.  A rollback's row is created with
\* the status it is set to here, so the ORM writes nothing.
Mark(r) ==
    /\ task[r] = "mark"
    /\ row' = IF kind[r] = "build" THEN [row EXCEPT ![r] = "building"] ELSE row
    /\ GoOn(r, "posting")
    /\ UNCHANGED <<started, kind, slot, recall, tries, victim, late, builderVars>>

\* Mutant: only a row that no event has moved is failed.
FailQueuedRow(r) ==
    IF row[r] = "queued" THEN row' = [row EXCEPT ![r] = "failed"] ELSE row' = row

\* _fail: a row that was cancelled meanwhile stays cancelled.
FailRow(r) ==
    IF row[r] \in {"cancelled", "none"} THEN row' = row
                                        ELSE row' = [row EXCEPT ![r] = "failed"]

GiveUp(r) == GoOn(r, "done") /\ FailRow(r)

\* An exception of the preparation (Kubernetes, GitHub).
PrepareFails(r) ==
    /\ task[r] \in {"prepare", "mark"}
    /\ GiveUp(r)
    /\ UNCHANGED <<started, kind, slot, recall, tries, victim, late, builderVars>>

-------------------------------------------------------------------------------
(***************************************************************************)
(* builder.submit against Manager.Submit and Manager.Cancel.               *)
(***************************************************************************)

\* Mutant: a delete waits for the requests of its own slot only.
ConflictsInSlot(r) ==
    {o \in Requests : o # r /\ Blocking(o) /\ slot[o] = slot[r]}

Conflicts(r) ==
    {o \in Requests : o # r /\ Blocking(o) /\ Compete(kind[o], slot[o], kind[r], slot[r])}

Busy(r) ==
    /\ kind[r] = "build"
    /\ Cardinality({o \in Requests : InManager(o) /\ kind[o] = "build"}) >= MaxActiveBuilds

\* Mutant: one attempt too many.
OneAttemptMore(r) ==
    /\ tries' = [tries EXCEPT ![r] = @ + 1]
    /\ IF tries[r] < MaxAttempts THEN GoOn(r, "posting") /\ row' = row
                                 ELSE GiveUp(r)

\* Mutant: refused attempts do not count.
AttemptUncounted(r) == GoOn(r, "posting") /\ UNCHANGED <<tries, row>>

\* The attempt has failed: another one, or BuilderError.
NextAttempt(r) ==
    /\ tries' = [tries EXCEPT ![r] = @ + 1]
    /\ IF tries[r] + 1 < MaxAttempts THEN GoOn(r, "posting") /\ row' = row
                                     ELSE GiveUp(r)

\* A second run of the same id, after an answer that was lost and a run that
\* ended at once, numbers its events from the start again.
Accept(r) ==
    /\ ~InManager(r) /\ Conflicts(r) = {} /\ ~Busy(r)
    /\ run' = [run EXCEPT ![r] = "working"]
    /\ stopped' = [stopped EXCEPT ![r] = FALSE]
    /\ deaf' = IF run[r] = "over" THEN deaf \cup {r} ELSE deaf

\* 202, or 409 with the own id after an answer that was lost.
Accepted(r) ==
    /\ task[r] = "posting"
    /\ IF InManager(r) THEN UNCHANGED <<run, stopped, deaf>> ELSE Accept(r)
    /\ GoOn(r, "done")
    /\ UNCHANGED <<started, kind, slot, row, recall, tries, victim, late, killers,
                   gitVars>>

\* Accepted, but core does not get the answer.
AnswerLost(r) ==
    /\ task[r] = "posting"
    /\ Accept(r)
    /\ NextAttempt(r)
    /\ UNCHANGED <<started, kind, slot, recall, victim, late, killers, gitVars>>

\* 400, 401 and other 4xx end the submission.
Rejected(r) ==
    /\ task[r] = "posting"
    /\ GiveUp(r)
    /\ UNCHANGED <<started, kind, slot, recall, tries, victim, late, builderVars>>

\* 429, 5xx and requests that do not get through.
Refused(r) ==
    /\ task[r] = "posting"
    /\ NextAttempt(r)
    /\ UNCHANGED <<started, kind, slot, recall, victim, late, builderVars>>

Conflicting(r) ==
    /\ task[r] = "posting" /\ ~InManager(r)
    /\ \E o \in Conflicts(r) : victim' = [victim EXCEPT ![r] = o]
    /\ GoOn(r, "cancelling")
    /\ UNCHANGED <<started, kind, slot, row, recall, tries, late, builderVars>>

\* The DELETE of the request named in the 409, which may be over by now.
Kill(r) ==
    IF InManager(victim[r])
    THEN /\ stopped' = [stopped EXCEPT ![victim[r]] = TRUE]
         /\ killers' = [killers EXCEPT ![victim[r]] = @ \cup {r}]
    ELSE UNCHANGED <<stopped, killers>>

CancelOther(r) ==
    /\ task[r] = "cancelling"
    /\ Kill(r)
    /\ NextAttempt(r)
    /\ victim' = [victim EXCEPT ![r] = 0]
    /\ UNCHANGED <<started, kind, slot, recall, late, run, deaf, gitVars>>

\* An exception of the DELETE leaves submit; if only its answer was lost, the
\* other request is cancelled all the same.  run_v2_build and run_v2_rollback
\* catch every exception, env_put only BuilderError.
CancelOtherFails(r) ==
    /\ task[r] = "cancelling"
    /\ Kill(r) \/ UNCHANGED <<stopped, killers>>
    /\ \/ GiveUp(r)
       \/ kind[r] = "config" /\ GoOn(r, "raised") /\ row' = row
    /\ victim' = [victim EXCEPT ![r] = 0]
    /\ UNCHANGED <<started, kind, slot, recall, tries, late, run, deaf, gitVars>>

-------------------------------------------------------------------------------
(***************************************************************************)
(* The run in the builder, and events.apply.                               *)
(***************************************************************************)
\* A cancelled row stays so, and so does a row for events of known numbers.
Hear(r, status) ==
    \/ /\ row' = IF row[r] \in {"cancelled", "none"} THEN row
                                                     ELSE [row EXCEPT ![r] = status]
       /\ deaf' = deaf \ {r}
    \/ r \in deaf /\ UNCHANGED <<row, deaf>>

\* The slots whose values a request's commit changes.
Written(r) == IF kind[r] = "delete" THEN Slots ELSE {slot[r]}

\* A PUT carries the sha of the file it was made from: one that lands turns
\* every other that is on its way into a conflict.
Write(r) ==
    /\ git' = [s \in Slots |-> IF s \in Written(r) THEN r ELSE git[s]]
    /\ floating' = {}
    /\ UNCHANGED overtaken

Overlap(r, o) == Written(r) \cap Written(o) # {}

\* The file may already say what the request asks for.
Empties(k) == k \in {"remove", "delete"}
AlreadyThere(r) ==
    \A s \in Written(r) : git[s] # 0 =>
        IF kind[r] = "delete" THEN kind[git[s]] = "delete"
                              ELSE Empties(kind[git[s]]) = Empties(kind[r])

\* Then nothing is sent, and a PUT on its way stays up to date.
Skip(r) ==
    /\ AlreadyThere(r)
    /\ git' = [s \in Slots |-> IF s \in Written(r) THEN r ELSE git[s]]
    /\ overtaken' = overtaken \cup {o \in floating : o < r /\ Overlap(r, o)}
    /\ UNCHANGED floating

\* A commit that is given up or reported as an error may not have been tried,
\* may have been made all the same, or may be made later.
MayWrite(r) ==
    \/ UNCHANGED gitVars
    \/ run[r] = "working" /\ Write(r)
    \/ run[r] = "working" /\ floating' = floating \cup {r} /\ UNCHANGED <<git, overtaken>>

LateWrite(r) ==
    /\ r \in floating
    /\ Write(r)
    /\ UNCHANGED <<coreVars, run, stopped, deaf, killers>>

RunCommits(r) ==
    /\ run[r] = "working" /\ ~stopped[r]
    /\ run' = [run EXCEPT ![r] = "committed"]
    /\ Write(r) \/ Skip(r)
    /\ Hear(r, IF kind[r] = "config" THEN row[r] ELSE "deploying")
    /\ UNCHANGED <<started, kind, slot, recall, task, tries, victim, late, stopped,
                   killers>>

\* A build goes on to be reaped, unless its Job is gone or was never made.
End(r) ==
    \/ run' = [run EXCEPT ![r] = "over"]
    \/ kind[r] = "build" /\ run' = [run EXCEPT ![r] = "reaping"]

RunJudged(r) ==
    /\ Blocking(r) /\ ~stopped[r]
    /\ \/ Hear(r, "failed") /\ MayWrite(r)
       \/ run[r] = "committed" /\ Hear(r, "running") /\ UNCHANGED gitVars
    /\ End(r)
    /\ UNCHANGED <<started, kind, slot, recall, task, tries, victim, late, stopped,
                   killers>>

\* run.cleanup after a cancel.
RunCancelled(r) ==
    /\ Blocking(r) /\ stopped[r]
    /\ run' = [run EXCEPT ![r] = "over"]
    /\ Hear(r, "cancelled")
    /\ MayWrite(r)
    /\ UNCHANGED <<started, kind, slot, recall, task, tries, victim, late, stopped,
                   killers>>

RunReaped(r) ==
    /\ run[r] = "reaping"
    /\ run' = [run EXCEPT ![r] = "over"]
    /\ UNCHANGED <<coreVars, stopped, deaf, killers, gitVars>>

-------------------------------------------------------------------------------
UserStep ==
    \/ \E s \in Slots : StartDeploy(s)
    \/ StartRollback \/ StartRemove \/ StartConfig \/ StartDelete

TaskStep(r) ==
    \/ Check(r) \/ Prepare(r) \/ PrepareFails(r) \/ Mark(r)
    \/ Accepted(r) \/ AnswerLost(r) \/ Rejected(r) \/ Refused(r)
    \/ Conflicting(r) \/ CancelOther(r) \/ CancelOtherFails(r)

RunStep(r) == RunCommits(r) \/ RunJudged(r) \/ RunCancelled(r) \/ RunReaped(r)

Next ==
    \/ UserStep
    \/ \E r \in Requests : TaskStep(r) \/ CancelRemote(r) \/ RunStep(r) \/ LateWrite(r)

Spec == Init /\ [][Next]_vars

\* Threads and goroutines go on; the user need not.
FairSpec ==
    Spec /\ \A r \in Requests : WF_vars(TaskStep(r)) /\ WF_vars(RunStep(r))
-------------------------------------------------------------------------------
(***************************************************************************)
(* Properties.                                                             *)
(***************************************************************************)
TypeOK ==
    /\ started \in 0 .. MaxRequests
    /\ kind \in [Requests -> {"build", "set-image", "config", "remove", "delete"}]
    /\ slot \in [Requests -> {"server", "static"}]
    /\ row \in [Requests -> {"none", "applied"} \cup ActiveStatuses \cup FinalStatuses]
    /\ recall \in [Requests -> BOOLEAN]
    /\ task \in [Requests -> {"new", "check", "prepare", "mark", "posting",
                              "cancelling", "done", "raised"}]
    /\ tries \in [Requests -> 0 .. MaxAttempts]
    /\ victim \in [Requests -> 0 .. MaxRequests]
    /\ late \subseteq Requests
    /\ run \in [Requests -> {"none", "working", "committed", "reaping", "over"}]
    /\ stopped \in [Requests -> BOOLEAN]
    /\ deaf \subseteq Requests
    /\ killers \in [Requests -> SUBSET Requests]
    /\ git \in [Slots -> 0 .. MaxRequests]
    /\ floating \subseteq Requests /\ overtaken \subseteq Requests

\* Values in git give way only to those of a newer request, or of one whose
\* thread could not see the newer one any more (run_v2_build after its second
\* look, submit's retries, requests without a row), or to the PUT of a request
\* that gave up on it (Writer.Commit), was then followed by one that found its
\* values in the file already (Writer.once), and lands after all.  A PUT that
\* lands after a newer request has written is refused.
NewestWins ==
    [][\A s \in Slots : git'[s] >= git[s] \/ git'[s] \in late \cup overtaken]_git

\* A run is cancelled through a 409 only by a newer request or a late one
\* (client.submit: a redeploy replaces the old build).
OnlyNewerCancels == \A r \in Requests : \A k \in killers[r] : k > r \/ k \in late

\* A row is cancelled only in favour of a request that competes with it, and
\* that is newer or late.
CancelledIsReplaced ==
    \A r \in Made : row[r] = "cancelled" =>
        \E n \in Made \ {r} : /\ n > r \/ n \in late
                             /\ Compete(kind[n], slot[n], kind[r], slot[r])

\* client.submit: a request that meets another one in the builder is the
\* redeploy that replaces it, never the older of the two.
RedeployReplaces == \A r \in Requests : \A k \in killers[r] : k > r

\* Once every thread and every run is over, no row waits for anything: a submit
\* that gave up and a run that was cancelled leave a verdict, on a row that
\* was marked building again after it was cancelled, too.  Only a change of the
\* environment whose submit raised what env_put does not catch stays applied.
Idle == \A r \in Made : task[r] \in {"done", "raised"} /\ ~InManager(r)
RowsSettled ==
    Idle => \A r \in Made : row[r] \in FinalStatuses \cup {"none"} \/ task[r] = "raised"

\* Every request ends: its attempts are bounded and its run is judged,
\* cancelled or reaped, also when requests keep cancelling each other.
AllEnd ==
    \A r \in Requests :
        (task[r] # "new") ~> (task[r] \in {"done", "raised"} /\ ~InManager(r))
=============================================================================
