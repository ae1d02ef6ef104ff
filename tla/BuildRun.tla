------------------------------ MODULE BuildRun ------------------------------
(***************************************************************************)
(* One build, from the moment the builder has accepted it (202) to the     *)
(* verdict on core's row.                                                  *)
(*                                                                         *)
(*            Job (cluster)   registry   git --> Argo                      *)
(*               |  ^             |       |        |                       *)
(*   core --DELETE--> run goroutine (builder/internal/run/run.go)          *)
(*     ^                     |                                             *)
(*     +------- events ------+   (CallbackQueue: in order, at least once)  *)
(*                                                                         *)
(* The goroutine writes how far it is into annotations of the Job, and a   *)
(* builder that restarts continues every Job that is not marked finished   *)
(* (Manager.Resume).                                                       *)
(*                                                                         *)
(* Simplifications.                                                        *)
(*  - Log events are left out (CallbackQueue has them); the events of one  *)
(*    builder life reach core in order, a suffix of them is lost with it.  *)
(*  - The log pipe matters only for the push marker: SelectMarker may take *)
(*    it whenever the image is pushed, and a run that misses it takes the  *)
(*    Job's end (also what EARLY_TRIGGER=false does).                      *)
(*  - An annotation and the event or the local step that follows it are    *)
(*    one step: what is only in memory is lost with the process anyway.    *)
(*  - The stage and the reason of a failure, and times, are left out.      *)
(*  - Job names are taken from the build id, so a Job belongs to one run.  *)
(***************************************************************************)
EXTENDS Naturals, Sequences, FiniteSets

CONSTANTS
    Faults,      \* what may go wrong besides the ordinary errors, see below
    MaxRestarts  \* bound: builder restarts

FaultKinds ==
    { "crash",     \* the builder dies
      "drain",     \* the grace of Shutdown ends with events unsent
      "annotate",  \* an annotation is not written (run.annotate only warns)
      "delete",    \* a Job is not deleted (run.deleteJob only warns)
      "create",    \* Create fails although the API server made the Job
      "git",       \* GitHub takes the commit but the answer is lost
      "remove",    \* somebody else deletes the Job
      "expire",    \* a finished Job outlives its TTL while the builder is down
      "list" }     \* ListManaged fails, so nothing is resumed

ASSUME RunAssumption == Faults \subseteq FaultKinds /\ MaxRestarts \in Nat

VARIABLES
    up, closing,    \* the builder process; Manager.closed
    restarts,       \* history: how often the builder was started again
    pc,             \* where the run goroutine is
    cause,          \* cause of run.ctx: none, user or shutdown
    out,            \* what watchJob sent: none, succeeded, failed, gone, timeout
    late,           \* the deployment started in afterJob
    digest,         \* the run knows the image's digest
    flags,          \* run.terminal, run.deployed, run.finished
    told,           \* events emitted in this life of the builder
    heard,          \* how many of them core has applied
    job,            \* the Job: none, active, succeeded, failed, gone
    ann,            \* its progress annotations
    pushed,         \* the image is in the registry
    put,            \* a PUT to GitHub is on its way
    git,            \* the values in git name the image
    live,           \* history: Argo showed the commit Synced and Healthy
    row,            \* builds.status
    rec,            \* build_records.status once it is closed, or open
    image,          \* builds.image as committed reported it
    superseded      \* core has cancelled the row and sent DELETE

processVars == <<up, closing, restarts>>
runVars == <<pc, cause, out, late, digest, flags>>
jobVars == <<job, ann, pushed>>
gitVars == <<put, git, live>>
coreVars == <<row, rec, image, superseded>>
vars == <<processVars, runVars, told, heard, jobVars, gitVars, coreVars>>

RunStates == {"create", "select", "exists", "commit", "committing", "argo",
              "judged", "reap", "ended", "cleanup"}
EventTypes == {"committed", "deployed", "finished", "failed", "cancelled"}
Images == {"none", "bare", "pinned"}
Final == {"running", "failed", "cancelled"}

running == pc \in RunStates
stopped == cause # "none"
jobExists == job \in {"active", "succeeded", "failed"}
jobOver == job \in {"succeeded", "failed"}

\* "repo:tag@" + digest; "bare" when the digest is the empty string.
imageName == IF digest THEN "pinned" ELSE "bare"
Ev(type) == [type |-> type, image |-> IF type = "committed" THEN imageName ELSE "none"]

Init ==
    /\ up = TRUE /\ closing = FALSE /\ restarts = 0
    /\ pc = "create" /\ cause = "none" /\ out = "none" /\ late = FALSE
    /\ digest = FALSE /\ flags = {}
    /\ told = << >> /\ heard = 0
    /\ job = "none" /\ ann = {} /\ pushed = FALSE
    /\ put = FALSE /\ git = FALSE /\ live = FALSE
    /\ row = "building" /\ rec = "open" /\ image = "none" /\ superseded = FALSE

-------------------------------------------------------------------------------
(***************************************************************************)
(* run.emit, run.annotate, run.deleteJob and run.fail.                     *)
(***************************************************************************)
Emit(events) == told' = told \o events

\* The annotation is written unless the call fails or the Job is gone.
Annotate(key) ==
    ann' \in IF ~jobExists THEN {ann}
             ELSE IF "annotate" \in Faults THEN {ann, ann \cup {key}}
             ELSE {ann \cup {key}}

DeleteJob ==
    \/ /\ jobExists
       /\ job' = "gone" /\ ann' = {}
    \/ /\ ~jobExists \/ "delete" \in Faults
       /\ UNCHANGED <<job, ann>>

\* The failure is reported only by a run that nobody has stopped.
Fail ==
    IF stopped THEN UNCHANGED <<told, flags>>
               ELSE Emit(<<Ev("failed")>>) /\ flags' = flags \cup {"terminal"}

EmitFinished == Emit(<<Ev("finished")>>) /\ flags' = flags \cup {"finished"}

Goto(label) == pc' = label /\ UNCHANGED <<cause, out, late, digest, flags>>

-------------------------------------------------------------------------------
(***************************************************************************)
(* run.build up to the first of marker, Job end and stop.                  *)
(***************************************************************************)
CreateJob ==
    /\ up /\ pc = "create"
    /\ job' = "active"
    /\ Goto("select")
    /\ UNCHANGED <<processVars, told, heard, ann, pushed, gitVars, coreVars>>

CreateJobErr ==
    /\ up /\ pc = "create"
    /\ job' \in {job} \cup (IF "create" \in Faults THEN {"active"} ELSE {})
    /\ Fail
    /\ pc' = "ended"
    /\ UNCHANGED <<processVars, cause, out, late, digest, heard, ann, pushed,
                   gitVars, coreVars>>

\* watchJob: Wait sees the end of the Job, or its limit passes first.
WatchJob ==
    /\ up /\ running /\ pc # "create" /\ out = "none"
    /\ \/ job # "active" /\ out' = job
       \/ job = "active" /\ ~stopped /\ out' = "timeout"
    /\ UNCHANGED <<processVars, pc, cause, late, digest, flags, told, heard,
                   jobVars, gitVars, coreVars>>

SelectMarker ==
    /\ up /\ pc = "select" /\ pushed
    /\ pc' = "exists" /\ digest' = TRUE
    /\ UNCHANGED <<processVars, cause, out, late, flags, told, heard, jobVars,
                   gitVars, coreVars>>

SelectStopped ==
    /\ up /\ pc = "select" /\ stopped
    /\ Goto("ended")
    /\ UNCHANGED <<processVars, told, heard, jobVars, gitVars, coreVars>>

\* run.afterJob, the case of an error of Wait.
AfterJobTimeout ==
    /\ up /\ pc = "select" /\ out = "timeout"
    /\ IF stopped THEN UNCHANGED <<job, ann>> ELSE DeleteJob
    /\ Fail
    /\ pc' = "ended"
    /\ UNCHANGED <<processVars, cause, out, late, digest, heard, pushed,
                   gitVars, coreVars>>

\* Mutant: the end of a Job that somebody deleted is not reported.
AfterJobGoneSilent ==
    /\ up /\ pc = "select" /\ out = "gone"
    /\ Goto("ended")
    /\ UNCHANGED <<processVars, told, heard, jobVars, gitVars, coreVars>>

AfterJobGone ==
    /\ up /\ pc = "select" /\ out = "gone"
    /\ Emit(<<Ev("cancelled")>>) /\ flags' = flags \cup {"terminal"}
    /\ pc' = "ended"
    /\ UNCHANGED <<processVars, cause, out, late, digest, heard, jobVars,
                   gitVars, coreVars>>

\* A failed Job is marked and reported even if the run has been stopped.
AfterJobFailed ==
    /\ up /\ pc = "select" /\ out = "failed"
    /\ Annotate("finished")
    /\ Emit(<<Ev("failed")>>) /\ flags' = flags \cup {"terminal"}
    /\ pc' = "ended"
    /\ UNCHANGED <<processVars, cause, out, late, digest, heard, job, pushed,
                   gitVars, coreVars>>

\* The digest comes from the rest of the log or from Registry.Resolve.
AfterJobSucceeded ==
    /\ up /\ pc = "select" /\ out = "succeeded"
    /\ pc' = "exists" /\ late' = TRUE /\ digest' = TRUE
    /\ UNCHANGED <<processVars, cause, out, flags, told, heard, jobVars,
                   gitVars, coreVars>>

AfterJobNoDigest ==
    /\ up /\ pc = "select" /\ out = "succeeded"
    /\ IF stopped THEN UNCHANGED ann ELSE Annotate("finished")
    /\ Fail
    /\ pc' = "ended"
    /\ UNCHANGED <<processVars, cause, out, late, digest, heard, job, pushed,
                   gitVars, coreVars>>

-------------------------------------------------------------------------------
(***************************************************************************)
(* run.deployImage: registry, commit, committed, Argo, deployed.           *)
(***************************************************************************)
RegistryExists ==
    /\ up /\ pc = "exists" /\ pushed
    /\ Annotate("digest")
    /\ Goto("commit")
    /\ UNCHANGED <<processVars, told, heard, job, pushed, gitVars, coreVars>>

RegistryErr ==
    /\ up /\ pc = "exists"
    /\ Fail
    /\ pc' = "judged"
    /\ UNCHANGED <<processVars, cause, out, late, digest, heard, jobVars,
                   gitVars, coreVars>>

\* The answer of Git.Commit is in: annotate and report it.
Committed ==
    /\ Annotate("commit")
    /\ Emit(<<Ev("committed")>>)
    /\ Goto("argo")
    /\ UNCHANGED <<processVars, heard, job, pushed, gitVars, coreVars>>

\* Writer.once: the values in git are already the ones to write.
CommitSkipped == up /\ pc = "commit" /\ git /\ Committed

\* Mutant: the commit is annotated before GitHub has answered.
PutAnnotates ==
    /\ up /\ pc = "commit" /\ ~git
    /\ put' = TRUE
    /\ Annotate("commit")
    /\ Goto("committing")
    /\ UNCHANGED <<processVars, told, heard, job, pushed, git, live, coreVars>>

CommitPut ==
    /\ up /\ pc = "commit" /\ ~git
    /\ put' = TRUE
    /\ Goto("committing")
    /\ UNCHANGED <<processVars, told, heard, jobVars, git, live, coreVars>>

CommitDone == up /\ pc = "committing" /\ git /\ Committed

\* An error before the PUT, a PUT that was refused, one whose answer is lost,
\* or run.ctx ended while the writer still works on the request.
CommitErr ==
    /\ up
    /\ \/ pc = "commit"
       \/ pc = "committing" /\ (stopped \/ "git" \in Faults \/ ~(put \/ git))
    /\ Fail
    /\ pc' = "judged"
    /\ UNCHANGED <<processVars, cause, out, late, digest, heard, jobVars,
                   gitVars, coreVars>>

\* run.waitArgo: Synced and Healthy on our commit.
ArgoHealthy ==
    /\ up /\ pc = "argo" /\ git
    /\ Annotate("synced")
    /\ Emit(<<Ev("deployed")>>) /\ flags' = flags \cup {"terminal", "deployed"}
    /\ live' = TRUE
    /\ pc' = "judged"
    /\ UNCHANGED <<processVars, cause, out, late, digest, heard, job, pushed,
                   put, git, coreVars>>

ArgoFails ==
    /\ up /\ pc = "argo"
    /\ Fail
    /\ pc' = "judged"
    /\ UNCHANGED <<processVars, cause, out, late, digest, heard, jobVars,
                   gitVars, coreVars>>

-------------------------------------------------------------------------------
(***************************************************************************)
(* After the verdict: the rest of afterJob, run.reap and run.cleanup.      *)
(***************************************************************************)

\* Mutant: a stopped run marks its Job before it looks whether it is stopped.
JudgedMarksFirst ==
    /\ up /\ pc = "judged"
    /\ Annotate("finished")
    /\ IF late /\ ~stopped /\ "deployed" \in flags
       THEN EmitFinished ELSE UNCHANGED <<told, flags>>
    /\ pc' = IF stopped \/ late THEN "ended" ELSE "reap"
    /\ UNCHANGED <<processVars, cause, out, late, digest, heard, job, pushed,
                   gitVars, coreVars>>

Judged ==
    /\ up /\ pc = "judged"
    /\ IF late /\ ~stopped
       THEN /\ Annotate("finished")
            /\ IF "deployed" \in flags THEN EmitFinished
                                       ELSE UNCHANGED <<told, flags>>
       ELSE UNCHANGED <<ann, told, flags>>
    /\ pc' = IF stopped \/ late THEN "ended" ELSE "reap"
    /\ UNCHANGED <<processVars, cause, out, late, digest, heard, job, pushed,
                   gitVars, coreVars>>

\* Mutant: the reaper waits on when the wait for the Job ran into its limit.
ReapJobOnly ==
    /\ up /\ pc = "reap" /\ out \notin {"none", "timeout"}
    /\ Annotate("finished")
    /\ IF "deployed" \in flags THEN EmitFinished ELSE UNCHANGED <<told, flags>>
    /\ pc' = "ended"
    /\ UNCHANGED <<processVars, cause, out, late, digest, heard, job, pushed,
                   gitVars, coreVars>>

\* A Job that Wait gave up on is deleted, and then there is nothing to mark.
ReapJob ==
    \/ /\ out = "timeout" /\ jobExists
       /\ job' = "gone" /\ ann' = {}
    \/ /\ out # "timeout" \/ ~jobExists \/ "delete" \in Faults
       /\ job' = job /\ Annotate("finished")

\* Mutant: no finished event after a Job that ended badly.
ReapSilentOnFailure ==
    /\ up /\ pc = "reap" /\ out # "none" /\ ~(out = "timeout" /\ stopped)
    /\ ReapJob
    /\ IF "deployed" \in flags /\ out = "succeeded"
       THEN EmitFinished ELSE UNCHANGED <<told, flags>>
    /\ pc' = "ended"
    /\ UNCHANGED <<processVars, cause, out, late, digest, heard, pushed,
                   gitVars, coreVars>>

Reap ==
    /\ up /\ pc = "reap" /\ out # "none" /\ ~(out = "timeout" /\ stopped)
    /\ ReapJob
    /\ IF "deployed" \in flags THEN EmitFinished ELSE UNCHANGED <<told, flags>>
    /\ pc' = "ended"
    /\ UNCHANGED <<processVars, cause, out, late, digest, heard, pushed,
                   gitVars, coreVars>>

ReapStopped ==
    /\ up /\ pc = "reap" /\ stopped
    /\ Goto("ended")
    /\ UNCHANGED <<processVars, told, heard, jobVars, gitVars, coreVars>>

\* run.execute: the last look at run.ctx before the run is over.
Ended ==
    /\ up /\ pc = "ended"
    /\ Goto(IF stopped THEN "cleanup" ELSE "done")
    /\ UNCHANGED <<processVars, told, heard, jobVars, gitVars, coreVars>>

\* Mutant: a cancelled run reports cancelled whatever it has reported before.
CleanupUnchecked ==
    /\ up /\ pc = "cleanup"
    /\ IF cause = "shutdown"
       THEN UNCHANGED <<job, ann, told, flags>>
       ELSE /\ DeleteJob
            /\ Emit(<<Ev("cancelled")>>) /\ flags' = flags \cup {"terminal"}
    /\ pc' = "done"
    /\ UNCHANGED <<processVars, cause, out, late, digest, heard, pushed,
                   gitVars, coreVars>>

\* Mutant: a user's cancel leaves the Job, as a shutdown does.
CleanupKeepsJob ==
    /\ up /\ pc = "cleanup"
    /\ IF cause = "user" /\ "terminal" \notin flags
       THEN Emit(<<Ev("cancelled")>>) /\ flags' = flags \cup {"terminal"}
       ELSE UNCHANGED <<told, flags>>
    /\ pc' = "done"
    /\ UNCHANGED <<processVars, cause, out, late, digest, heard, jobVars,
                   gitVars, coreVars>>

\* A shutdown leaves everything to the next builder.  A user's cancel deletes
\* the Job, and reports finished if the deployment stands.
Cleanup ==
    /\ up /\ pc = "cleanup"
    /\ IF cause = "shutdown"
       THEN UNCHANGED <<job, ann, told, flags>>
       ELSE /\ DeleteJob
            /\ IF "finished" \in flags THEN UNCHANGED <<told, flags>>
               ELSE IF "deployed" \in flags THEN Emit(<<Ev("finished")>>) /\ UNCHANGED flags
               ELSE IF "terminal" \in flags THEN UNCHANGED <<told, flags>>
               ELSE Emit(<<Ev("cancelled")>>) /\ flags' = flags \cup {"terminal"}
    /\ pc' = "done"
    /\ UNCHANGED <<processVars, cause, out, late, digest, heard, pushed,
                   gitVars, coreVars>>

-------------------------------------------------------------------------------
(***************************************************************************)
(* core: events.apply and _cancel_stale_builds.                            *)
(***************************************************************************)

\* Mutant: a late verdict of the builder overwrites a cancelled row.
ApplyToCancelled(ev) ==
    /\ row' = IF ev.type = "committed" THEN "deploying"
              ELSE IF ev.type = "deployed" THEN "running"
              ELSE IF ev.type = "finished" THEN row ELSE ev.type
    /\ rec' = IF ev.type = "finished" THEN row
              ELSE IF ev.type \in {"failed", "cancelled"} THEN ev.type ELSE rec
    /\ image' = IF ev.type = "committed" THEN ev.image ELSE image

\* Mutant: the type of every event becomes the row's status.
ApplyTypeAsStatus(ev) ==
    /\ row' = IF ev.type = "committed" THEN "deploying" ELSE ev.type
    /\ UNCHANGED <<rec, image>>

\* The body of apply.  deployed sets the record's status without closing it;
\* on a row that core has cancelled only the answer to the cancel counts.
Apply(ev) ==
    IF row = "cancelled" THEN
        /\ rec' = IF ev.type = "cancelled" /\ rec = "open" THEN "cancelled" ELSE rec
        /\ UNCHANGED <<row, image>>
    ELSE
        /\ row' = CASE ev.type = "committed" -> "deploying"
                    [] ev.type = "deployed"  -> "running"
                    [] ev.type = "finished"  -> row
                    [] OTHER                 -> ev.type
        /\ rec' = CASE ev.type = "finished" -> row
                    [] ev.type \in {"failed", "cancelled"} -> ev.type
                    [] ev.type = "deployed" /\ rec # "open" -> "running"
                    [] OTHER -> rec
        /\ image' = IF ev.type = "committed" THEN ev.image ELSE image

\* The queue of this life delivers its next event.
Deliver ==
    /\ up /\ heard < Len(told)
    /\ heard' = heard + 1
    /\ Apply(told[heard + 1])
    /\ UNCHANGED <<processVars, runVars, told, jobVars, gitVars, superseded>>

\* A newer build of the slot was started.
Supersede ==
    /\ row \in {"building", "deploying"} /\ ~superseded
    /\ row' = "cancelled" /\ superseded' = TRUE
    /\ UNCHANGED <<processVars, runVars, told, heard, jobVars, gitVars, rec, image>>

\* Manager.Cancel.  The request may be late or lost; without a run it is 404.
Cancel ==
    /\ up /\ ~closing /\ superseded /\ running /\ ~stopped
    /\ cause' = "user"
    /\ UNCHANGED <<processVars, pc, out, late, digest, flags, told, heard,
                   jobVars, gitVars, coreVars>>

-------------------------------------------------------------------------------
(***************************************************************************)
(* The Job in the cluster and the PUT at GitHub.                           *)
(***************************************************************************)
JobPush ==
    /\ job = "active" /\ ~pushed
    /\ pushed' = TRUE
    /\ UNCHANGED <<processVars, runVars, told, heard, job, ann, gitVars, coreVars>>

\* The main container has pushed before it ends well; the cache export after
\* the push may fail, and so may the build before it.
JobEnds ==
    /\ job = "active"
    /\ job' \in {"failed"} \cup (IF pushed THEN {"succeeded"} ELSE {})
    /\ UNCHANGED <<processVars, runVars, told, heard, ann, pushed, gitVars, coreVars>>

\* Somebody deletes the Job, or its TTL after the end (20 min) passes while
\* the builder is down.
JobVanishes ==
    /\ \/ jobExists /\ "remove" \in Faults
       \/ jobOver /\ ~up /\ "expire" \in Faults
    /\ job' = "gone" /\ ann' = {}
    /\ UNCHANGED <<processVars, runVars, told, heard, pushed, gitVars, coreVars>>

PutLands ==
    /\ put
    /\ put' = FALSE /\ git' \in {git, TRUE}
    /\ UNCHANGED <<processVars, runVars, told, heard, jobVars, live, coreVars>>

-------------------------------------------------------------------------------
(***************************************************************************)
(* The builder process: main, Manager.Shutdown and Manager.Resume.         *)
(***************************************************************************)
Shutdown ==
    /\ up /\ ~closing /\ restarts < MaxRestarts
    /\ closing' = TRUE
    /\ cause' = IF running /\ ~stopped THEN "shutdown" ELSE cause
    /\ UNCHANGED <<up, restarts, pc, out, late, digest, flags, told, heard,
                   jobVars, gitVars, coreVars>>

\* Shutdown returns when the run is over and its queue is sent or given up.
Exit ==
    /\ up /\ closing /\ ~running
    /\ heard = Len(told) \/ "drain" \in Faults
    /\ up' = FALSE
    /\ UNCHANGED <<closing, restarts, runVars, told, heard, jobVars, gitVars, coreVars>>

Crash ==
    /\ "crash" \in Faults
    /\ up /\ restarts < MaxRestarts
    /\ up' = FALSE
    /\ UNCHANGED <<closing, restarts, runVars, told, heard, jobVars, gitVars, coreVars>>

\* Where a resumed run starts, what it knows and what it reports at once.
Continue(label, known, events, reached) ==
    /\ pc' = label /\ digest' = known
    /\ told' = events /\ flags' = reached

committedAgain(known) ==
    [type |-> "committed", image |-> IF known THEN "pinned" ELSE "bare"]

\* Mutant: a commit in git counts as a deployment.
ResumeTrustsCommit ==
    LET known == "digest" \in ann
    IN  IF {"digest", "commit"} \cap ann = {} THEN Continue("select", FALSE, << >>, {})
        ELSE IF "commit" \notin ann THEN Continue("exists", known, << >>, {})
        ELSE Continue("judged", known, <<committedAgain(known), Ev("deployed")>>,
                      {"terminal", "deployed"})

\* run.build of a resumed run and run.buildResumeAfterPush.
ResumeRun ==
    LET known == "digest" \in ann
    IN  IF {"digest", "commit"} \cap ann = {} THEN Continue("select", FALSE, << >>, {})
        ELSE IF "commit" \notin ann THEN Continue("exists", known, << >>, {})
        ELSE IF "synced" \notin ann THEN Continue("argo", known, <<committedAgain(known)>>, {})
        ELSE Continue("judged", known, <<committedAgain(known), Ev("deployed")>>,
                      {"terminal", "deployed"})

\* main starts again: Manager.Resume takes the Job if it is there and open.
Restart ==
    /\ ~up
    /\ up' = TRUE /\ closing' = FALSE /\ restarts' = restarts + 1
    /\ heard' = 0 /\ cause' = "none" /\ out' = "none" /\ late' = FALSE
    /\ \/ jobExists /\ "finished" \notin ann /\ ResumeRun
       \/ /\ ~jobExists \/ "finished" \in ann \/ "list" \in Faults
          /\ Continue("idle", FALSE, << >>, {})
    /\ UNCHANGED <<jobVars, gitVars, coreVars>>

-------------------------------------------------------------------------------
Work ==
    \/ CreateJob \/ CreateJobErr
    \/ SelectMarker \/ SelectStopped
    \/ AfterJobTimeout \/ AfterJobGone \/ AfterJobFailed
    \/ AfterJobSucceeded \/ AfterJobNoDigest
    \/ RegistryExists \/ RegistryErr
    \/ CommitSkipped \/ CommitPut \/ CommitDone \/ CommitErr
    \/ ArgoHealthy \/ ArgoFails
    \/ Judged \/ Reap \/ ReapStopped \/ Ended \/ Cleanup

Next ==
    \/ Work \/ WatchJob
    \/ Deliver \/ Supersede \/ Cancel
    \/ JobPush \/ JobEnds \/ JobVanishes \/ PutLands
    \/ Shutdown \/ Exit \/ Crash \/ Restart

Spec == Init /\ [][Next]_vars

\* The goroutines run, every call they wait for ends (each has a deadline),
\* activeDeadlineSeconds ends the Job, core answers in the end, and the
\* Deployment starts the builder again.
FairSpec ==
    /\ Spec
    /\ WF_vars(Work) /\ WF_vars(WatchJob) /\ WF_vars(Deliver)
    /\ WF_vars(JobEnds) /\ WF_vars(PutLands)
    /\ WF_vars(Exit) /\ WF_vars(Restart)

-------------------------------------------------------------------------------
(***************************************************************************)
(* Properties.                                                             *)
(***************************************************************************)

TypeOK ==
    /\ up \in BOOLEAN /\ closing \in BOOLEAN /\ restarts \in 0 .. MaxRestarts
    /\ pc \in RunStates \cup {"idle", "done"}
    /\ cause \in {"none", "user", "shutdown"}
    /\ out \in {"none", "succeeded", "failed", "gone", "timeout"}
    /\ late \in BOOLEAN /\ digest \in BOOLEAN
    /\ flags \subseteq {"terminal", "deployed", "finished"}
    /\ told \in Seq([type : EventTypes, image : Images])
    /\ heard \in Nat
    /\ job \in {"none", "active", "succeeded", "failed", "gone"}
    /\ ann \subseteq {"digest", "commit", "synced", "finished"}
    /\ pushed \in BOOLEAN /\ put \in BOOLEAN /\ git \in BOOLEAN /\ live \in BOOLEAN
    /\ row \in {"building", "deploying"} \cup Final
    /\ rec \in {"open"} \cup Final \cup {"building", "deploying"}
    /\ image \in Images /\ superseded \in BOOLEAN

\* No run is at work and no event is left to send.
Quiet == up /\ ~closing /\ ~running /\ heard = Len(told)

\* Resume trusts the annotations: each of them states a fact that outlives
\* the builder (run.deployImage and run.waitArgo annotate after the call).
AnnotationsTrue ==
    /\ "digest" \in ann => pushed
    /\ "commit" \in ann => git
    /\ "synced" \in ann => live

\* A row says "running" only for an image that is committed and that Argo has
\* shown healthy, also when deployed was repeated by a resumed builder.
RunningIsLive == row = "running" => git /\ live

\* A builder that is up either watches an active Job or has deleted it: no
\* error, timeout, cancel or restart leaves a build running that nobody reaps.
NoOrphanJob == up /\ ~closing /\ ~running => job # "active"

\* After a restart, crash or error the row gets a verdict once the builder is
\* quiet, if the build got as far as a Job (main and Manager.Resume: "continue").
SettledOnceJobExists == Quiet /\ job # "none" => row \in Final

\* The same from the moment the builder has answered 202, in its first life.
AcceptedIsSettled == Quiet /\ restarts = 0 => row \in Final

\* Unless core cancelled the row, a quiet build's record is closed and says what
\* the row says, in the first life of the builder.
RecordMatchesRow ==
    Quiet /\ restarts = 0 /\ ~superseded /\ job # "none" /\ row \in Final => rec = row

\* A verdict that events brought to the row is not changed by later ones:
\* failed and cancelled end the build, and a deployed build stays deployed
\* (until postwatch, which is not in this model, finds it crashing).  A builder
\* that resumes the build may change it (FailedStands).
VerdictStands == [][(row \in Final /\ restarts = 0) => (row' = row)]_row

\* What one life of the builder reports about a build follows the order that
\* docs/builder-e2e.md promises, over every path of run.go and every restart.
report == [i \in 1 .. Len(told) |-> told[i].type]
Report == INSTANCE BuildReport WITH life <- restarts
ReportsInOrder == Report!Spec

\* A row that failed stays failed.
FailedStands == [][row = "failed" => row' = "failed"]_row

\* Every accepted build comes to rest: the run ends, its events arrive and no
\* Job is left running.
ComesToRest == <>[](Quiet /\ job # "active")
=============================================================================
