--------------------------- MODULE BuildRunProofs ---------------------------
(***************************************************************************)
(* Proofs about BuildRun for every set of faults and number of restarts.   *)
(*                                                                         *)
(* RunInv carries AnnotationsTrue and RunningIsLive: what an annotation    *)
(* says and what an undelivered event says must be true at the source      *)
(* (the image is pushed, the commit is in git, Argo has shown it), and     *)
(* those facts never cease to hold.  JobInv carries NoOrphanJob: it says   *)
(* at which places of the run the Job may still be active.                 *)
(*                                                                         *)
(* The verdicts come in four layers, each of which uses the ones before:   *)
(*   TypeInv     every variable keeps its type, and a builder that goes    *)
(*               down has a restart left (with RunInv);                    *)
(*   OrderInv    what has been told is one of few words (its "stage"), and *)
(*               the stage fits the place and the flags of the run: this   *)
(*               gives the order of the report (refinement of BuildReport) *)
(*               and says that a run that is over has told a verdict;      *)
(*   VerdictInv  in the builder's first life the row and the record are    *)
(*               what the delivered events made of them;                   *)
(*   ResumeInv   over graceful restarts, a Job whose verdict is not on the *)
(*               row is a Job the next builder resumes.                    *)
(***************************************************************************)
EXTENDS BuildRun, SequenceTheorems, TLAPS

Event == [type : EventTypes, image : Images]

-------------------------------------------------------------------------------
(***************************************************************************)
(* What is annotated and what is told is true.                             *)
(***************************************************************************)
ToldTypeOK == told \in Seq(Event) /\ heard \in Nat

\* deployed is told only of a commit that Argo has shown healthy.
ToldTrue == \A i \in 1 .. Len(told) : told[i].type = "deployed" => live

\* Argo shows only what is in git.
LiveInGit == live => git

RunInv ==
    /\ ToldTypeOK
    /\ ToldTrue
    /\ LiveInGit
    /\ AnnotationsTrue
    /\ row = "running" => live

\* Telling one more event keeps the type, and the truth if the event is true.
LEMMA TellOne ==
    ASSUME told \in Seq(Event), ToldTrue, NEW e \in Event, told' = told \o <<e>>,
           live => live', e.type = "deployed" => live'
    PROVE  told' \in Seq(Event) /\ ToldTrue'
<1>1. told' \in Seq(Event) /\ Len(told') = Len(told) + 1
  OBVIOUS
<1>2. \A i \in 1 .. Len(told') : told'[i] = IF i = Len(told) + 1 THEN e ELSE told[i]
  OBVIOUS
<1>3. ToldTrue'
  BY <1>1, <1>2 DEF ToldTrue
<1> QED BY <1>1, <1>3

LEMMA EvType == \A type \in EventTypes : Ev(type) \in Event /\ Ev(type).type = type
BY DEF Ev, Event, imageName, Images

\* The failure of a run is told truly, or not at all.
LEMMA FailTold ==
    ASSUME told \in Seq(Event), ToldTrue, Fail, live' = live
    PROVE  told' \in Seq(Event) /\ ToldTrue'
<1>1. CASE stopped
  BY <1>1 DEF Fail, ToldTrue
<1>2. CASE ~stopped
  <2>1. told' = told \o <<Ev("failed")>>
    BY <1>2 DEF Fail, Emit
  <2>2. Ev("failed") \in Event /\ Ev("failed").type = "failed"
    BY EvType DEF EventTypes
  <2> QED BY <2>1, <2>2, TellOne
<1> QED BY <1>1, <1>2

\* A step that reaches nothing of the invariant but the annotations.
LEMMA AnnStep ==
    ASSUME RunInv, told' \in Seq(Event), ToldTrue', heard' = heard,
           live' = live, git' = git, pushed' = pushed, row' = row,
           ann' \subseteq ann \cup {"finished"}
    PROVE  RunInv'
BY DEF RunInv, ToldTypeOK, LiveInGit, AnnotationsTrue

LEMMA InitRunInv == Init => RunInv
BY DEF Init, RunInv, ToldTypeOK, ToldTrue, LiveInGit, AnnotationsTrue

LEMMA RunInvStep == RunInv /\ [Next]_vars => RunInv'
<1> SUFFICES ASSUME RunInv, [Next]_vars PROVE RunInv'
  OBVIOUS
<1> USE DEF processVars, runVars, jobVars, gitVars, coreVars, Goto
<1>0. told \in Seq(Event) /\ ToldTrue /\ heard \in Nat
  BY DEF RunInv, ToldTypeOK
<1>quiet. ASSUME UNCHANGED <<told, heard, live, git, pushed, row>>,
                 ann' \subseteq ann \cup {"finished"}
          PROVE  RunInv'
  BY <1>0, <1>quiet, AnnStep DEF ToldTrue
<1>1. CASE CreateJob
  BY <1>1, <1>quiet DEF CreateJob
<1>2. CASE CreateJobErr
  BY <1>0, <1>2, FailTold, AnnStep DEF CreateJobErr
<1>3. CASE SelectMarker \/ SelectStopped \/ AfterJobSucceeded
  BY <1>3, <1>quiet DEF SelectMarker, SelectStopped, AfterJobSucceeded
<1>4. CASE AfterJobTimeout
  <2>1. ann' \subseteq ann /\ UNCHANGED <<heard, live, git, pushed, row>> /\ Fail
    BY <1>4 DEF AfterJobTimeout, DeleteJob
  <2> QED BY <1>0, <2>1, FailTold, AnnStep
<1>5. CASE AfterJobGone \/ AfterJobFailed
  <2>1. /\ ann' \subseteq ann \cup {"finished"}
        /\ UNCHANGED <<heard, live, git, pushed, row>>
        /\ \E type \in {"failed", "cancelled"} : told' = told \o <<Ev(type)>>
    BY <1>5 DEF AfterJobGone, AfterJobFailed, Annotate, Emit
  <2>2. told' \in Seq(Event) /\ ToldTrue'
    BY <1>0, <2>1, EvType, TellOne DEF EventTypes
  <2> QED BY <2>1, <2>2, AnnStep
<1>6. CASE AfterJobNoDigest
  <2>1. ann' \subseteq ann \cup {"finished"} /\ UNCHANGED <<heard, live, git, pushed, row>> /\ Fail
    BY <1>6 DEF AfterJobNoDigest, Annotate
  <2> QED BY <1>0, <2>1, FailTold, AnnStep
<1>7. CASE RegistryExists
  <2>1. ann' \subseteq ann \cup {"digest"} /\ pushed
    BY <1>7 DEF RegistryExists, Annotate
  <2> QED BY <1>7, <2>1 DEF RegistryExists, RunInv, ToldTypeOK, ToldTrue, LiveInGit, AnnotationsTrue
<1>8. CASE RegistryErr \/ CommitErr \/ ArgoFails
  <2>1. UNCHANGED <<heard, live, git, pushed, row, ann>> /\ Fail
    BY <1>8 DEF RegistryErr, CommitErr, ArgoFails
  <2> QED BY <1>0, <2>1, FailTold, AnnStep
<1>9. CASE CommitSkipped \/ CommitDone
  <2>1. /\ git /\ ann' \subseteq ann \cup {"commit"}
        /\ UNCHANGED <<heard, live, git, pushed, row>>
        /\ told' = told \o <<Ev("committed")>>
    BY <1>9 DEF CommitSkipped, CommitDone, Committed, Annotate, Emit
  <2>2. told' \in Seq(Event) /\ ToldTrue'
    BY <1>0, <2>1, EvType, TellOne DEF EventTypes
  <2> QED BY <2>1, <2>2 DEF RunInv, ToldTypeOK, LiveInGit, AnnotationsTrue
<1>10. CASE CommitPut
  BY <1>10, <1>quiet DEF CommitPut
<1>11. CASE ArgoHealthy
  <2>1. /\ git /\ live' /\ ann' \subseteq ann \cup {"synced"}
        /\ UNCHANGED <<heard, git, pushed, row>>
        /\ told' = told \o <<Ev("deployed")>>
    BY <1>11 DEF ArgoHealthy, Annotate, Emit
  <2>2. told' \in Seq(Event) /\ ToldTrue'
    BY <1>0, <2>1, EvType, TellOne DEF EventTypes
  <2> QED BY <2>1, <2>2 DEF RunInv, ToldTypeOK, LiveInGit, AnnotationsTrue
<1>12. CASE Judged \/ Reap
  <2>1. ann' \subseteq ann \cup {"finished"} /\ UNCHANGED <<heard, live, git, pushed, row>>
    BY <1>12 DEF Judged, Reap, ReapJob, Annotate
  <2>2. told' = told \/ told' = told \o <<Ev("finished")>>
    BY <1>12 DEF Judged, Reap, EmitFinished, Emit
  <2>3. told' \in Seq(Event) /\ ToldTrue'
    <3>1. CASE told' = told
      BY <1>0, <2>1, <3>1 DEF ToldTrue
    <3>2. CASE told' = told \o <<Ev("finished")>>
      BY <1>0, <2>1, <3>2, EvType, TellOne DEF EventTypes
    <3> QED BY <2>2, <3>1, <3>2
  <2> QED BY <2>1, <2>3, AnnStep
<1>13. CASE ReapStopped \/ Ended
  BY <1>13, <1>quiet DEF ReapStopped, Ended
<1>14. CASE Cleanup
  <2>1. ann' \subseteq ann /\ UNCHANGED <<heard, live, git, pushed, row>>
    BY <1>14 DEF Cleanup, DeleteJob
  <2>2. told' = told \/ \E type \in {"finished", "cancelled"} : told' = told \o <<Ev(type)>>
    BY <1>14 DEF Cleanup, Emit
  <2>3. told' \in Seq(Event) /\ ToldTrue'
    <3>1. CASE told' = told
      BY <1>0, <2>1, <3>1 DEF ToldTrue
    <3>2. CASE \E type \in {"finished", "cancelled"} : told' = told \o <<Ev(type)>>
      BY <1>0, <2>1, <3>2, EvType, TellOne DEF EventTypes
    <3> QED BY <2>2, <3>1, <3>2
  <2> QED BY <2>1, <2>3, AnnStep
<1>15. CASE WatchJob \/ Cancel \/ JobEnds \/ JobVanishes \/ Shutdown \/ Exit \/ Crash
  BY <1>15, <1>quiet DEF WatchJob, Cancel, JobEnds, JobVanishes, Shutdown, Exit, Crash
<1>16. CASE Deliver
  <2>1. /\ UNCHANGED <<told, live, git, pushed, ann>> /\ heard' = heard + 1
        /\ heard + 1 \in 1 .. Len(told)
    BY <1>0, <1>16 DEF Deliver
  <2>2. row' = "running" => row = "running" \/ told[heard + 1].type = "deployed"
    <3> DEFINE ev == told[heard + 1]
    <3>0. ev \in Event
      BY <1>0, <2>1
    <3>1. ev.type \in EventTypes
      BY <3>0 DEF Event
    <3>2. Apply(ev)
      BY <1>16 DEF Deliver
    <3> HIDE DEF ev
    <3>3. row' = "running" => row = "running" \/ ev.type = "deployed"
      BY <3>1, <3>2 DEF Apply, EventTypes
    <3> QED BY <3>3 DEF ev
  <2>3. row' = "running" => live
    BY <2>1, <2>2 DEF RunInv, ToldTrue
  <2> QED BY <2>1, <2>3 DEF RunInv, ToldTypeOK, ToldTrue, LiveInGit, AnnotationsTrue
<1>17. CASE Supersede
  BY <1>17 DEF Supersede, RunInv, ToldTypeOK, ToldTrue, LiveInGit, AnnotationsTrue
<1>18. CASE JobPush \/ PutLands
  <2>1. pushed => pushed'
    BY <1>18 DEF JobPush, PutLands
  <2>2. git => git'
    BY <1>18, Zenon DEF JobPush, PutLands
  <2>3. UNCHANGED <<told, heard, ann, live, row>>
    BY <1>18 DEF JobPush, PutLands
  <2>4. AnnotationsTrue' /\ LiveInGit'
    BY <2>1, <2>2, <2>3 DEF RunInv, AnnotationsTrue, LiveInGit
  <2> QED BY <2>3, <2>4 DEF RunInv, ToldTypeOK, ToldTrue
<1>19. CASE Restart
  <2>1. UNCHANGED <<live, git, pushed, ann, row>> /\ heard' = 0
    BY <1>19 DEF Restart
  <2>2. \/ told' = << >>
        \/ \E e \in Event : e.type = "committed" /\ told' = <<e>>
        \/ \E e \in Event : /\ live /\ e.type = "committed"
                            /\ told' = <<e, Ev("deployed")>>
    BY <1>19 DEF Restart, ResumeRun, Continue, committedAgain, Event, EventTypes, Images,
                 RunInv, AnnotationsTrue
  <2>3. Ev("deployed") \in Event
    BY EvType DEF EventTypes
  <2>4. told' \in Seq(Event) /\ ToldTrue'
    <3>1. CASE told' = << >>
      BY <3>1 DEF ToldTrue
    <3>2. CASE \E e \in Event : e.type = "committed" /\ told' = <<e>>
      <4>1. PICK e \in Event : e.type = "committed" /\ told' = <<e>>
        BY <3>2
      <4> QED BY <4>1 DEF ToldTrue
    <3>3. CASE \E e \in Event : /\ live /\ e.type = "committed"
                                /\ told' = <<e, Ev("deployed")>>
      <4>1. PICK e \in Event : live /\ told' = <<e, Ev("deployed")>>
        BY <3>3
      <4> QED BY <2>1, <2>3, <4>1 DEF ToldTrue
    <3> QED BY <2>2, <3>1, <3>2, <3>3
  <2> QED BY <2>1, <2>4 DEF RunInv, ToldTypeOK, LiveInGit, AnnotationsTrue
<1>20. CASE UNCHANGED vars
  BY <1>20, <1>quiet DEF vars
<1> QED
  BY <1>1, <1>2, <1>3, <1>4, <1>5, <1>6, <1>7, <1>8, <1>9, <1>10, <1>11, <1>12, <1>13, <1>14,
     <1>15, <1>16, <1>17, <1>18, <1>19, <1>20 DEF Next, Work

\* Each annotation states a fact, for whatever goes wrong: a resumed run may
\* trust it (Manager.Resume, run.buildResumeAfterPush).
THEOREM AnnotationsAreTrue == Spec => []AnnotationsTrue
<1>1. RunInv => AnnotationsTrue
  BY DEF RunInv
<1> QED BY InitRunInv, RunInvStep, <1>1, PTL DEF Spec

\* A running row names a commit that is in git and was healthy, for whatever
\* goes wrong.
THEOREM RunningRowIsLive == Spec => []RunningIsLive
<1>1. RunInv => RunningIsLive
  BY DEF RunInv, RunningIsLive, LiveInGit
<1> QED BY InitRunInv, RunInvStep, <1>1, PTL DEF Spec

-------------------------------------------------------------------------------
(***************************************************************************)
(* Where a run may leave its Job active.  The calls that are assumed to do *)
(* what they say are Create, Delete and ListManaged of the Jobs.           *)
(***************************************************************************)
JobCallsWork == Faults \cap {"create", "delete", "list"} = {}

JobOff == job # "active"

\* What the run and its Job's annotations know of the Job's end is so.
EndIsKnown ==
    /\ "finished" \in ann => JobOff
    /\ out \in {"succeeded", "failed", "gone"} => JobOff
    /\ late => JobOff

\* Only before the Job is made, or once it is over or deleted, is a run that
\* nobody has stopped out of the places that look after the Job.
PlaceFits ==
    /\ pc = "create" => JobOff /\ "finished" \notin ann /\ out = "none" /\ ~late
    /\ pc = "idle" => JobOff
    /\ pc = "done" => JobOff \/ closing
    /\ pc = "ended" => JobOff \/ stopped
    /\ pc = "cleanup" => stopped

\* Only a shutdown leaves the Job to the next builder.
ShutdownCloses == cause = "shutdown" => closing

JobTypeOK ==
    /\ pc \in RunStates \cup {"idle", "done"}
    /\ cause \in {"none", "user", "shutdown"}
    /\ out \in {"none", "succeeded", "failed", "gone", "timeout"}
    /\ job \in {"none", "active", "succeeded", "failed", "gone"}

JobInv == JobTypeOK /\ EndIsKnown /\ PlaceFits /\ ShutdownCloses

LEMMA InitJobInv == Init => JobInv
BY DEF Init, JobInv, JobTypeOK, RunStates, JobOff, EndIsKnown, PlaceFits, ShutdownCloses

LEMMA JobInvStep ==
    ASSUME JobCallsWork, JobInv, [Next]_vars PROVE JobInv'
<1> USE DEF JobInv, JobTypeOK, RunStates, JobOff, EndIsKnown, PlaceFits, ShutdownCloses, stopped,
            processVars, runVars, jobVars, gitVars, coreVars, Goto
<1>1. CASE CreateJob
  BY <1>1 DEF CreateJob
<1>2. CASE CreateJobErr
  BY <1>2 DEF CreateJobErr, JobCallsWork
<1>3. CASE SelectMarker \/ SelectStopped \/ AfterJobSucceeded
  BY <1>3 DEF SelectMarker, SelectStopped, AfterJobSucceeded
<1>4. CASE AfterJobTimeout
  BY <1>4 DEF AfterJobTimeout, DeleteJob, jobExists, JobCallsWork
<1>5. CASE AfterJobGone \/ AfterJobFailed \/ AfterJobNoDigest
  BY <1>5 DEF AfterJobGone, AfterJobFailed, AfterJobNoDigest, Annotate
<1>6. CASE RegistryExists
  BY <1>6 DEF RegistryExists, Annotate
<1>7. CASE RegistryErr \/ CommitErr \/ ArgoFails \/ CommitPut
  BY <1>7 DEF RegistryErr, CommitErr, ArgoFails, CommitPut
<1>8. CASE CommitSkipped \/ CommitDone
  BY <1>8 DEF CommitSkipped, CommitDone, Committed, Annotate
<1>9. CASE ArgoHealthy
  BY <1>9 DEF ArgoHealthy, Annotate
<1>10. CASE Judged
  BY <1>10 DEF Judged, Annotate
<1>11. CASE Reap
  BY <1>11 DEF Reap, ReapJob, Annotate, jobExists, JobCallsWork
<1>12. CASE ReapStopped \/ Ended
  BY <1>12 DEF ReapStopped, Ended
<1>13. CASE Cleanup
  BY <1>13 DEF Cleanup, DeleteJob, jobExists, JobCallsWork
<1>14. CASE WatchJob
  BY <1>14 DEF WatchJob
<1>15. CASE Deliver \/ Supersede \/ JobPush \/ PutLands
  <2>1. UNCHANGED <<pc, cause, out, late, job, ann, closing>>
    BY <1>15, Zenon DEF Deliver, Supersede, JobPush, PutLands
  <2> QED BY <2>1
<1>16. CASE JobEnds \/ JobVanishes
  BY <1>16 DEF JobEnds, JobVanishes
<1>17. CASE Cancel \/ Shutdown
  BY <1>17 DEF Cancel, Shutdown, running
<1>18. CASE Exit \/ Crash
  BY <1>18 DEF Exit, Crash
<1>19. CASE Restart
  BY <1>19 DEF Restart, ResumeRun, Continue, jobExists, JobCallsWork
<1>20. CASE UNCHANGED vars
  BY <1>20 DEF vars
<1> QED
  BY <1>1, <1>2, <1>3, <1>4, <1>5, <1>6, <1>7, <1>8, <1>9, <1>10, <1>11, <1>12, <1>13, <1>14,
     <1>15, <1>16, <1>17, <1>18, <1>19, <1>20 DEF Next, Work

\* If the API server does what it says of Jobs, no stop, crash, lost annotation
\* or cancel, in any order, leaves an active Job that no run looks after.
THEOREM NoJobIsOrphaned ==
    ASSUME JobCallsWork PROVE Spec => []NoOrphanJob
<1>1. JobInv /\ [Next]_vars => JobInv'
  BY JobInvStep
<1>2. JobInv => NoOrphanJob
  BY DEF JobInv, JobTypeOK, PlaceFits, NoOrphanJob, running, JobOff
<1> QED BY InitJobInv, <1>1, <1>2, PTL DEF Spec

-------------------------------------------------------------------------------
(***************************************************************************)
(* Verdicts: what a run reports, and what core's row and record make of    *)
(* it.  The types of all variables come first.                             *)
(***************************************************************************)

\* A builder that is down or going down has a restart left.
RestartLeft == ~up \/ closing => restarts < MaxRestarts

Booleans ==
    /\ up \in BOOLEAN /\ closing \in BOOLEAN /\ late \in BOOLEAN /\ digest \in BOOLEAN
    /\ pushed \in BOOLEAN /\ put \in BOOLEAN /\ git \in BOOLEAN /\ live \in BOOLEAN
    /\ superseded \in BOOLEAN

\* The types of the other variables.
Places ==
    /\ pc \in RunStates \cup {"idle", "done"}
    /\ cause \in {"none", "user", "shutdown"}
    /\ out \in {"none", "succeeded", "failed", "gone", "timeout"}
    /\ job \in {"none", "active", "succeeded", "failed", "gone"}
    /\ row \in {"building", "deploying"} \cup Final
    /\ rec \in {"open"} \cup Final \cup {"building", "deploying"}
    /\ image \in Images

Marks ==
    /\ flags \subseteq {"terminal", "deployed", "finished"}
    /\ ann \subseteq {"digest", "commit", "synced", "finished"}

LEMMA BooleansStep == Booleans /\ [Next]_vars => Booleans'
<1> SUFFICES ASSUME Booleans, [Next]_vars PROVE Booleans'
  OBVIOUS
<1> USE DEF processVars, runVars, jobVars, gitVars, coreVars, Goto
<1>same. ASSUME UNCHANGED <<up, closing, late, digest, pushed, put, git, live, superseded>>
         PROVE  Booleans'
  BY <1>same, Zenon DEF Booleans
<1>1. CASE CreateJob \/ CreateJobErr \/ SelectStopped
  BY <1>1, <1>same DEF CreateJob, CreateJobErr, SelectStopped
<1>2. CASE AfterJobTimeout \/ AfterJobGone \/ AfterJobFailed \/ AfterJobNoDigest
  BY <1>2, <1>same DEF AfterJobTimeout, AfterJobGone, AfterJobFailed, AfterJobNoDigest
<1>3. CASE SelectMarker
  <2>1. digest' = TRUE /\ UNCHANGED <<up, closing, late, pushed, put, git, live, superseded>>
    BY <1>3 DEF SelectMarker
  <2> QED BY <2>1, Zenon DEF Booleans
<1>4. CASE AfterJobSucceeded
  <2>1. /\ digest' = TRUE /\ late' = TRUE
        /\ UNCHANGED <<up, closing, pushed, put, git, live, superseded>>
    BY <1>4 DEF AfterJobSucceeded
  <2> QED BY <2>1, Zenon DEF Booleans
<1>5. CASE RegistryExists \/ RegistryErr \/ CommitErr \/ ArgoFails
  BY <1>5, <1>same DEF RegistryExists, RegistryErr, CommitErr, ArgoFails
<1>6. CASE CommitSkipped \/ CommitDone
  BY <1>6, <1>same DEF CommitSkipped, CommitDone, Committed
<1>7. CASE CommitPut
  <2>1. put' = TRUE /\ UNCHANGED <<up, closing, late, digest, pushed, git, live, superseded>>
    BY <1>7 DEF CommitPut
  <2> QED BY <2>1, Zenon DEF Booleans
<1>8. CASE ArgoHealthy
  <2>1. live' = TRUE /\ UNCHANGED <<up, closing, late, digest, pushed, put, git, superseded>>
    BY <1>8 DEF ArgoHealthy
  <2> QED BY <2>1, Zenon DEF Booleans
<1>9. CASE Judged \/ Reap \/ ReapStopped \/ Ended \/ Cleanup
  BY <1>9, <1>same DEF Judged, Reap, ReapStopped, Ended, Cleanup
<1>10. CASE WatchJob \/ Deliver \/ Cancel \/ JobEnds \/ JobVanishes
  BY <1>10, <1>same DEF WatchJob, Deliver, Cancel, JobEnds, JobVanishes
<1>11. CASE Supersede
  <2>1. superseded' = TRUE /\ UNCHANGED <<up, closing, late, digest, pushed, put, git, live>>
    BY <1>11 DEF Supersede
  <2> QED BY <2>1, Zenon DEF Booleans
<1>12. CASE JobPush
  <2>1. pushed' = TRUE /\ UNCHANGED <<up, closing, late, digest, put, git, live, superseded>>
    BY <1>12 DEF JobPush
  <2> QED BY <2>1, Zenon DEF Booleans
<1>13. CASE PutLands
  <2>1. put' = FALSE /\ git' \in {git, TRUE}
    BY <1>13, Zenon DEF PutLands
  <2>2. UNCHANGED <<up, closing, late, digest, pushed, live, superseded>>
    BY <1>13, Zenon DEF PutLands
  <2> QED BY <2>1, <2>2, Zenon DEF Booleans
<1>14. CASE Shutdown
  <2>1. closing' = TRUE /\ UNCHANGED <<up, late, digest, pushed, put, git, live, superseded>>
    BY <1>14 DEF Shutdown
  <2> QED BY <2>1, Zenon DEF Booleans
<1>15. CASE Exit \/ Crash
  <2>1. up' = FALSE /\ UNCHANGED <<closing, late, digest, pushed, put, git, live, superseded>>
    BY <1>15 DEF Exit, Crash
  <2> QED BY <2>1, Zenon DEF Booleans
<1>16. CASE Restart
  <2>1. /\ up' = TRUE /\ closing' = FALSE /\ late' = FALSE
        /\ UNCHANGED <<pushed, put, git, live, superseded>>
    BY <1>16 DEF Restart
  <2>2. digest' = FALSE \/ digest' = ("digest" \in ann)
    BY <1>16, Zenon DEF Restart, ResumeRun, Continue
  <2>3. digest' = FALSE \/ digest' = TRUE
    BY <2>2
  <2> QED BY <2>1, <2>3, Zenon DEF Booleans
<1>17. CASE UNCHANGED vars
  BY <1>17, <1>same DEF vars
<1> QED
  BY <1>1, <1>2, <1>3, <1>4, <1>5, <1>6, <1>7, <1>8, <1>9, <1>10, <1>11, <1>12, <1>13, <1>14,
     <1>15, <1>16, <1>17 DEF Next, Work

LEMMA PlacesStep == RunInv /\ Places /\ [Next]_vars => Places'
<1> SUFFICES ASSUME RunInv, Places, [Next]_vars PROVE Places'
  OBVIOUS
<1> USE DEF Places, RunStates, Images, Final,
            processVars, runVars, jobVars, gitVars, coreVars, Goto
<1>1. CASE CreateJob
  BY <1>1 DEF CreateJob
<1>2. CASE CreateJobErr
  BY <1>2 DEF CreateJobErr
<1>3. CASE SelectMarker \/ SelectStopped \/ AfterJobSucceeded
  BY <1>3 DEF SelectMarker, SelectStopped, AfterJobSucceeded
<1>4. CASE AfterJobTimeout
  BY <1>4 DEF AfterJobTimeout, DeleteJob
<1>5. CASE AfterJobGone \/ AfterJobFailed \/ AfterJobNoDigest
  BY <1>5 DEF AfterJobGone, AfterJobFailed, AfterJobNoDigest
<1>6. CASE RegistryExists
  BY <1>6 DEF RegistryExists
<1>7. CASE RegistryErr \/ CommitErr \/ ArgoFails \/ CommitPut
  BY <1>7 DEF RegistryErr, CommitErr, ArgoFails, CommitPut
<1>8. CASE CommitSkipped \/ CommitDone
  BY <1>8 DEF CommitSkipped, CommitDone, Committed
<1>9. CASE ArgoHealthy
  BY <1>9 DEF ArgoHealthy
<1>10. CASE Judged
  BY <1>10 DEF Judged
<1>11. CASE Reap
  BY <1>11 DEF Reap, ReapJob
<1>12. CASE ReapStopped \/ Ended
  BY <1>12 DEF ReapStopped, Ended
<1>13. CASE Cleanup
  BY <1>13 DEF Cleanup, DeleteJob
<1>14. CASE WatchJob
  BY <1>14 DEF WatchJob
<1>15. CASE Deliver
  <2> DEFINE ev == told[heard + 1]
  <2>0. ev \in Event
    BY <1>15 DEF Deliver, RunInv, ToldTypeOK
  <2>1. ev.type \in EventTypes /\ ev.image \in Images
    BY <2>0 DEF Event
  <2>2. Apply(ev)
    BY <1>15 DEF Deliver
  <2> HIDE DEF ev
  <2>3. /\ row' \in {"building", "deploying", "running", "failed", "cancelled"}
        /\ rec' \in {"open", "building", "deploying", "running", "failed", "cancelled"}
        /\ image' \in Images
    BY <2>1, <2>2 DEF Apply, EventTypes
  <2> QED BY <1>15, <2>3 DEF Deliver
<1>16. CASE Supersede \/ Cancel
  BY <1>16 DEF Supersede, Cancel
<1>17. CASE JobPush \/ JobEnds \/ JobVanishes
  BY <1>17 DEF JobPush, JobEnds, JobVanishes
<1>18. CASE PutLands
  <2>1. UNCHANGED <<pc, cause, out, job, row, rec, image>>
    BY <1>18, Zenon DEF PutLands
  <2> QED BY <2>1
<1>19. CASE Shutdown \/ Exit \/ Crash
  BY <1>19 DEF Shutdown, Exit, Crash
<1>20. CASE Restart
  BY <1>20 DEF Restart, ResumeRun, Continue
<1>21. CASE UNCHANGED vars
  BY <1>21 DEF vars
<1> QED
  BY <1>1, <1>2, <1>3, <1>4, <1>5, <1>6, <1>7, <1>8, <1>9, <1>10, <1>11, <1>12, <1>13, <1>14,
     <1>15, <1>16, <1>17, <1>18, <1>19, <1>20, <1>21 DEF Next, Work

LEMMA MarksStep == Marks /\ [Next]_vars => Marks'
<1> SUFFICES ASSUME Marks, [Next]_vars PROVE Marks'
  OBVIOUS
<1> USE DEF processVars, runVars, jobVars, gitVars, coreVars, Goto
<1> DEFINE Keys == {"digest", "commit", "synced", "finished"}
           Flags == {"terminal", "deployed", "finished"}
<1>keys. ASSUME NEW key \in Keys, Annotate(key) PROVE ann' \subseteq Keys
  BY <1>keys DEF Annotate, Marks
<1>fail. Fail => flags' \subseteq Flags
  BY DEF Fail, Marks
<1>finished. EmitFinished => flags' \subseteq Flags
  BY DEF EmitFinished, Marks
<1>delete. DeleteJob => ann' \subseteq Keys
  BY DEF DeleteJob, Marks
<1>same. /\ flags' = flags => flags' \subseteq Flags
         /\ ann' = ann => ann' \subseteq Keys
         /\ flags' = flags \cup {"terminal"} => flags' \subseteq Flags
         /\ flags' = flags \cup {"terminal", "deployed"} => flags' \subseteq Flags
         /\ ann' = {} => ann' \subseteq Keys
         /\ flags' = {} => flags' \subseteq Flags
         /\ flags' = {"terminal", "deployed"} => flags' \subseteq Flags
  BY DEF Marks
<1>goal. SUFFICES ann' \subseteq Keys /\ flags' \subseteq Flags
  BY DEF Marks
<1>in. "digest" \in Keys /\ "commit" \in Keys /\ "synced" \in Keys /\ "finished" \in Keys
  OBVIOUS
<1> HIDE DEF Keys, Flags
<1> USE <1>keys, <1>fail, <1>finished, <1>delete, <1>same, <1>in
<1>1. CASE CreateJob \/ CreateJobErr \/ SelectMarker \/ SelectStopped \/ AfterJobSucceeded
  BY <1>1 DEF CreateJob, CreateJobErr, SelectMarker, SelectStopped, AfterJobSucceeded
<1>2. CASE AfterJobTimeout \/ AfterJobGone \/ AfterJobFailed \/ AfterJobNoDigest
  BY <1>2 DEF AfterJobTimeout, AfterJobGone, AfterJobFailed, AfterJobNoDigest
<1>3. CASE RegistryExists \/ RegistryErr \/ CommitErr \/ ArgoFails \/ CommitPut
  BY <1>3 DEF RegistryExists, RegistryErr, CommitErr, ArgoFails, CommitPut
<1>4. CASE CommitSkipped \/ CommitDone \/ ArgoHealthy
  BY <1>4 DEF CommitSkipped, CommitDone, Committed, ArgoHealthy
<1>5. CASE Judged \/ Reap
  BY <1>5 DEF Judged, Reap, ReapJob
<1>6. CASE ReapStopped \/ Ended \/ Cleanup
  BY <1>6 DEF ReapStopped, Ended, Cleanup
<1>7. CASE WatchJob \/ Deliver \/ Supersede \/ Cancel
  BY <1>7 DEF WatchJob, Deliver, Supersede, Cancel
<1>8. CASE JobPush \/ JobEnds \/ JobVanishes \/ Shutdown \/ Exit \/ Crash
  BY <1>8 DEF JobPush, JobEnds, JobVanishes, Shutdown, Exit, Crash
<1>9. CASE PutLands
  <2>1. UNCHANGED <<flags, ann>>
    BY <1>9, Zenon DEF PutLands
  <2> QED BY <2>1
<1>10. CASE Restart
  BY <1>10 DEF Restart, ResumeRun, Continue
<1>11. CASE UNCHANGED vars
  BY <1>11 DEF vars
<1> QED
  BY <1>1, <1>2, <1>3, <1>4, <1>5, <1>6, <1>7, <1>8, <1>9, <1>10, <1>11 DEF Next, Work

\* Only the process's own steps touch it.
LEMMA ProcessMoves ==
    [Next]_vars => Shutdown \/ Exit \/ Crash \/ Restart \/ UNCHANGED processVars
<1>1. Work \/ WatchJob => UNCHANGED processVars
  BY Zenon DEF Work, WatchJob, CreateJob, CreateJobErr, SelectMarker, SelectStopped, AfterJobTimeout,
         AfterJobGone, AfterJobFailed, AfterJobSucceeded, AfterJobNoDigest, RegistryExists,
         RegistryErr, CommitSkipped, CommitPut, CommitDone, CommitErr, Committed,
         ArgoHealthy, ArgoFails, Judged, Reap, ReapStopped, Ended, Cleanup
<1>2. Deliver \/ Supersede \/ Cancel \/ JobPush \/ JobEnds \/ JobVanishes \/ PutLands
          => UNCHANGED processVars
  BY Zenon DEF Deliver, Supersede, Cancel, JobPush, JobEnds, JobVanishes, PutLands
<1>3. UNCHANGED vars => UNCHANGED processVars
  BY DEF vars
<1> QED BY <1>1, <1>2, <1>3 DEF Next

LEMMA RestartLeftStep ==
    Booleans /\ restarts \in 0 .. MaxRestarts /\ RestartLeft /\ [Next]_vars
        => restarts' \in 0 .. MaxRestarts /\ RestartLeft'
<1> SUFFICES ASSUME Booleans, restarts \in 0 .. MaxRestarts, RestartLeft, [Next]_vars
             PROVE  restarts' \in 0 .. MaxRestarts /\ RestartLeft'
  OBVIOUS
<1> USE RunAssumption DEF RestartLeft, processVars, runVars
<1>1. CASE UNCHANGED processVars
  BY <1>1
<1>2. CASE Shutdown \/ Exit \/ Crash
  BY <1>2 DEF Shutdown, Exit, Crash
<1>3. CASE Restart
  BY <1>3 DEF Restart
<1> QED BY <1>1, <1>2, <1>3, ProcessMoves

TypeInv == RunInv /\ Booleans /\ Places /\ Marks /\ restarts \in 0 .. MaxRestarts /\ RestartLeft

LEMMA InitTypeInv == Init => TypeInv
<1>1. Init => Booleans
  BY Zenon DEF Init, Booleans
<1>2. Init => Places /\ Marks
  BY DEF Init, Places, Marks, RunStates, Images, Final
<1>3. Init => RestartLeft /\ restarts \in 0 .. MaxRestarts
  BY RunAssumption DEF Init, RestartLeft
<1> QED BY InitRunInv, <1>1, <1>2, <1>3 DEF TypeInv

LEMMA TypeStep == TypeInv /\ [Next]_vars => TypeInv'
BY RunInvStep, BooleansStep, PlacesStep, MarksStep, RestartLeftStep DEF TypeInv

LEMMA TypesInTypeInv == TypeInv => TypeOK
BY Zenon DEF TypeInv, TypeOK, Booleans, Places, Marks, RunInv, ToldTypeOK, Event

\* Every variable keeps its type.
THEOREM TypeCorrect == Spec => []TypeOK
BY InitTypeInv, TypeStep, TypesInTypeInv, PTL DEF Spec

-------------------------------------------------------------------------------
(***************************************************************************)
(* The order of what a run tells.                                          *)
(***************************************************************************)
Ends == {"failed", "cancelled"}

\* What one life of the builder has told, as a word.
StageOf(s) ==
    IF Len(s) = 0 THEN "nothing"
    ELSE IF Len(s) = 1 /\ s[1].type = "committed" THEN "committed"
    ELSE IF Len(s) = 2 /\ s[1].type = "committed" /\ s[2].type = "deployed"
         THEN "deployed"
    ELSE IF /\ Len(s) = 3 /\ s[1].type = "committed" /\ s[2].type = "deployed"
            /\ s[3].type = "finished"
         THEN "finished"
    ELSE IF \/ Len(s) = 1 /\ s[1].type \in Ends
            \/ Len(s) = 2 /\ s[1].type = "committed" /\ s[2].type \in Ends
         THEN "given up"
    ELSE "disorder"

stage == StageOf(told)

Stages == {"nothing", "committed", "deployed", "finished", "given up", "disorder"}
Open == {"nothing", "committed"}
Over == {"finished", "given up"}

LEMMA StageType == stage \in Stages
BY DEF stage, StageOf, Stages

LEMMA StageStays == told' = told => stage' = stage
BY DEF stage, StageOf

\* One event more.
LEMMA StageMoves ==
    ASSUME told \in Seq(Event), NEW type \in EventTypes, told' = told \o <<Ev(type)>>
    PROVE  /\ stage = "nothing" /\ type = "committed" => stage' = "committed"
           /\ stage = "committed" /\ type = "deployed" => stage' = "deployed"
           /\ stage = "deployed" /\ type = "finished" => stage' = "finished"
           /\ stage \in Open /\ type \in Ends => stage' = "given up"
<1>0. Ev(type) \in Event /\ Ev(type).type = type
  BY EvType
<1> DEFINE e == Ev(type)
<1> HIDE DEF e
<1>1. told' \in Seq(Event) /\ Len(told') = Len(told) + 1 /\ Len(told) \in Nat
  BY <1>0 DEF e
<1>2. /\ told'[Len(told) + 1].type = type
      /\ \A i \in 1 .. Len(told) : told'[i] = told[i]
  BY <1>0
<1>3. CASE stage = "nothing"
  <2>1. Len(told) = 0
    BY <1>3 DEF stage, StageOf
  <2> QED BY <1>1, <1>2, <1>3, <2>1 DEF stage, StageOf, Open, Ends
<1>4. CASE stage = "committed"
  <2>1. Len(told) = 1 /\ told[1].type = "committed"
    BY <1>4 DEF stage, StageOf
  <2> QED BY <1>1, <1>2, <1>4, <2>1 DEF stage, StageOf, Open, Ends
<1>5. CASE stage = "deployed"
  <2>1. Len(told) = 2 /\ told[1].type = "committed" /\ told[2].type = "deployed"
    BY <1>5 DEF stage, StageOf
  <2> QED BY <1>1, <1>2, <1>5, <2>1 DEF stage, StageOf, Open, Ends
<1> QED BY <1>3, <1>4, <1>5 DEF Open

\* What is told fits the place the run has reached.
ToldFits ==
    /\ stage # "disorder"
    /\ pc \in {"create", "select", "exists", "commit", "committing", "idle"} => stage = "nothing"
    /\ pc = "argo" => stage = "committed"
    /\ pc = "judged" => stopped \/ stage \notin Open
    /\ pc = "reap" => stage \notin Open
    /\ pc \in {"judged", "reap"} => stage # "finished"
    /\ pc = "ended" => stopped \/ stage \in Over
    /\ pc = "cleanup" => stopped
    /\ pc = "done" => cause = "shutdown" \/ stage \in Over

\* The flags of the run say what has been told.
FlagsFit ==
    /\ "terminal" \in flags <=> stage \notin Open
    /\ "deployed" \in flags <=> stage \in {"deployed", "finished"}
    /\ "finished" \in flags => stage = "finished"
    /\ stage = "finished" /\ pc # "done" => "finished" \in flags

OrderInv == ToldFits /\ FlagsFit

LEMMA InitOrder == Init => OrderInv
BY DEF Init, OrderInv, ToldFits, FlagsFit, stage, StageOf, Open

\* What Fail tells and marks.
LEMMA FailMoves ==
    ASSUME told \in Seq(Event), Fail, stage \in Open
    PROVE  \/ stopped /\ stage' = stage /\ flags' = flags
           \/ stage' = "given up" /\ flags' = flags \cup {"terminal"}
<1>1. CASE stopped
  BY <1>1, StageStays DEF Fail
<1>2. CASE ~stopped
  <2>1. told' = told \o <<Ev("failed")>> /\ flags' = flags \cup {"terminal"}
    BY <1>2 DEF Fail, Emit
  <2>2. stage' = "given up"
    BY <2>1, StageMoves DEF EventTypes, Ends
  <2> QED BY <2>1, <2>2
<1> QED BY <1>1, <1>2

LEMMA OrderStep == TypeInv /\ OrderInv /\ [Next]_vars => OrderInv'
<1> SUFFICES ASSUME TypeInv, OrderInv, [Next]_vars PROVE OrderInv'
  OBVIOUS
<1>type. /\ told \in Seq(Event)
         /\ pc \in RunStates \cup {"idle", "done"}
         /\ cause \in {"none", "user", "shutdown"}
  BY DEF TypeInv, RunInv, ToldTypeOK, Places
<1> USE <1>type, StageType
    DEF OrderInv, ToldFits, FlagsFit, Open, Over, Stages, stopped, RunStates,
        processVars, runVars, jobVars, gitVars, coreVars, Goto
<1>quiet. ASSUME UNCHANGED <<told, flags, pc>>, UNCHANGED cause \/ (~stopped /\ running)
          PROVE  OrderInv'
  BY <1>quiet, StageStays DEF running
<1>1. CASE CreateJob
  BY <1>1, StageStays DEF CreateJob
<1>2. CASE CreateJobErr
  <2>1. stage = "nothing" /\ pc' = "ended" /\ UNCHANGED cause /\ Fail
    BY <1>2 DEF CreateJobErr
  <2> QED BY <2>1, FailMoves
<1>3. CASE SelectMarker \/ SelectStopped \/ AfterJobSucceeded
  BY <1>3, StageStays DEF SelectMarker, SelectStopped, AfterJobSucceeded
<1>4. CASE AfterJobTimeout \/ AfterJobNoDigest
  <2>1. stage = "nothing" /\ pc' = "ended" /\ UNCHANGED cause /\ Fail
    BY <1>4 DEF AfterJobTimeout, AfterJobNoDigest
  <2> QED BY <2>1, FailMoves
<1>5. CASE AfterJobGone \/ AfterJobFailed
  <2>1. /\ stage = "nothing" /\ pc' = "ended" /\ UNCHANGED cause
        /\ \E type \in Ends : told' = told \o <<Ev(type)>>
        /\ flags' = flags \cup {"terminal"}
    BY <1>5 DEF AfterJobGone, AfterJobFailed, Emit, Ends
  <2>2. stage' = "given up"
    BY <2>1, StageMoves DEF EventTypes, Ends
  <2> QED BY <2>1, <2>2
<1>6. CASE RegistryExists \/ CommitPut
  BY <1>6, StageStays DEF RegistryExists, CommitPut
<1>7. CASE RegistryErr \/ CommitErr \/ ArgoFails
  <2>1. stage \in Open /\ pc' = "judged" /\ UNCHANGED cause /\ Fail
    BY <1>7 DEF RegistryErr, CommitErr, ArgoFails
  <2> QED BY <2>1, FailMoves
<1>8. CASE CommitSkipped \/ CommitDone
  <2>1. /\ stage = "nothing" /\ pc' = "argo" /\ UNCHANGED <<cause, flags>>
        /\ told' = told \o <<Ev("committed")>>
    BY <1>8 DEF CommitSkipped, CommitDone, Committed, Emit
  <2>2. stage' = "committed"
    BY <2>1, StageMoves DEF EventTypes
  <2> QED BY <2>1, <2>2
<1>9. CASE ArgoHealthy
  <2>1. /\ stage = "committed" /\ pc' = "judged" /\ UNCHANGED cause
        /\ told' = told \o <<Ev("deployed")>> /\ flags' = flags \cup {"terminal", "deployed"}
    BY <1>9 DEF ArgoHealthy, Emit
  <2>2. stage' = "deployed"
    BY <2>1, StageMoves DEF EventTypes
  <2> QED BY <2>1, <2>2
<1>10. ASSUME pc \in {"judged", "reap"}, UNCHANGED cause, pc' = "ended", stage \notin Open,
              IF "deployed" \in flags THEN EmitFinished ELSE UNCHANGED <<told, flags>>
       PROVE  OrderInv'
  <2>1. CASE "deployed" \in flags
    <3>1. stage = "deployed" /\ told' = told \o <<Ev("finished")>>
          /\ flags' = flags \cup {"finished"}
      BY <1>10, <2>1 DEF EmitFinished, Emit
    <3>2. stage' = "finished"
      BY <3>1, StageMoves DEF EventTypes
    <3> QED BY <1>10, <3>1, <3>2
  <2>2. CASE "deployed" \notin flags
    <3>1. UNCHANGED <<told, flags>> /\ stage = "given up"
      BY <1>10, <2>2
    <3> QED BY <1>10, <3>1, StageStays
  <2> QED BY <2>1, <2>2
<1>11. CASE Judged
  <2>1. CASE late /\ ~stopped
    BY <1>10, <1>11, <2>1 DEF Judged
  <2>2. CASE ~(late /\ ~stopped)
    BY <1>11, <2>2, StageStays DEF Judged
  <2> QED BY <2>1, <2>2
<1>12. CASE Reap
  BY <1>10, <1>12 DEF Reap
<1>13. CASE ReapStopped \/ Ended
  BY <1>13, StageStays DEF ReapStopped, Ended
<1>14. CASE Cleanup
  <2>1. CASE cause = "shutdown"
    BY <1>14, <2>1, StageStays DEF Cleanup
  <2>2. CASE cause # "shutdown" /\ "finished" \in flags
    BY <1>14, <2>2, StageStays DEF Cleanup
  <2>3. CASE cause # "shutdown" /\ "finished" \notin flags /\ "deployed" \in flags
    <3>1. /\ stage = "deployed" /\ told' = told \o <<Ev("finished")>>
          /\ UNCHANGED <<flags, cause>> /\ pc' = "done"
      BY <1>14, <2>3 DEF Cleanup, Emit
    <3>2. stage' = "finished"
      BY <3>1, StageMoves DEF EventTypes
    <3> QED BY <3>1, <3>2
  <2>4. CASE cause # "shutdown" /\ "deployed" \notin flags /\ "terminal" \in flags
    BY <1>14, <2>4, StageStays DEF Cleanup
  <2>5. CASE cause # "shutdown" /\ "terminal" \notin flags
    <3>1. /\ stage \in Open /\ told' = told \o <<Ev("cancelled")>>
          /\ flags' = flags \cup {"terminal"} /\ UNCHANGED cause /\ pc' = "done"
      BY <1>14, <2>5 DEF Cleanup, Emit
    <3>2. stage' = "given up"
      BY <3>1, StageMoves DEF EventTypes, Ends
    <3> QED BY <3>1, <3>2
  <2> QED BY <2>1, <2>2, <2>3, <2>4, <2>5
<1>15. CASE WatchJob \/ Deliver \/ Supersede \/ JobEnds \/ JobVanishes \/ JobPush \/ Exit \/ Crash
  BY <1>15, <1>quiet DEF WatchJob, Deliver, Supersede, JobEnds, JobVanishes, JobPush, Exit, Crash
<1>16. CASE PutLands
  <2>1. UNCHANGED <<told, flags, pc, cause>>
    BY <1>16, Zenon DEF PutLands
  <2> QED BY <2>1, <1>quiet
<1>17. CASE Cancel \/ Shutdown
  BY <1>17, <1>quiet DEF Cancel, Shutdown
<1>18. CASE Restart
  <2>1. cause' = "none"
    BY <1>18 DEF Restart
  <2>2. \/ pc' \in {"select", "exists", "idle"} /\ told' = << >> /\ flags' = {}
        \/ /\ pc' = "argo" /\ flags' = {}
           /\ \E e \in Event : e.type = "committed" /\ told' = <<e>>
        \/ /\ pc' = "judged" /\ flags' = {"terminal", "deployed"}
           /\ \E e \in Event : e.type = "committed" /\ told' = <<e, Ev("deployed")>>
    BY <1>18 DEF Restart, ResumeRun, Continue, committedAgain, Event, EventTypes, Images
  <2>3. CASE pc' \in {"select", "exists", "idle"} /\ told' = << >> /\ flags' = {}
    <3>1. stage' = "nothing"
      BY <2>3 DEF stage, StageOf
    <3> QED BY <2>1, <2>3, <3>1
  <2>4. CASE /\ pc' = "argo" /\ flags' = {}
             /\ \E e \in Event : e.type = "committed" /\ told' = <<e>>
    <3>1. stage' = "committed"
      BY <2>4 DEF stage, StageOf
    <3> QED BY <2>1, <2>4, <3>1
  <2>5. CASE /\ pc' = "judged" /\ flags' = {"terminal", "deployed"}
             /\ \E e \in Event : e.type = "committed" /\ told' = <<e, Ev("deployed")>>
    <3>0. Ev("deployed").type = "deployed"
      BY EvType DEF EventTypes
    <3>1. stage' = "deployed"
      BY <2>5, <3>0 DEF stage, StageOf
    <3> QED BY <2>1, <2>5, <3>1
  <2> QED BY <2>2, <2>3, <2>4, <2>5
<1>19. CASE UNCHANGED vars
  BY <1>19, <1>quiet DEF vars
<1> QED
  BY <1>1, <1>2, <1>3, <1>4, <1>5, <1>6, <1>7, <1>8, <1>9, <1>11, <1>12, <1>13, <1>14,
     <1>15, <1>16, <1>17, <1>18, <1>19 DEF Next, Work

\* What a step tells: nothing, one event that is due, or, when the builder
\* has restarted, what is already true.
Due(type) ==
    \/ stage = "nothing" /\ type = "committed"
    \/ stage = "committed" /\ type = "deployed"
    \/ stage = "deployed" /\ type = "finished"
    \/ stage \in Open /\ type \in Ends

TellMoves ==
    \/ UNCHANGED <<told, restarts>>
    \/ /\ \E type \in EventTypes : Due(type) /\ told' = told \o <<Ev(type)>>
       /\ UNCHANGED restarts
    \/ restarts' = restarts + 1 /\ stage' \in {"nothing", "committed", "deployed"}

LEMMA StepTells == TypeInv /\ OrderInv /\ [Next]_vars => TellMoves
<1> SUFFICES ASSUME TypeInv, OrderInv, [Next]_vars PROVE TellMoves
  OBVIOUS
<1>type. pc \in RunStates \cup {"idle", "done"}
  BY DEF TypeInv, Places
<1> USE <1>type, StageType
    DEF OrderInv, ToldFits, FlagsFit, Open, Over, Stages, Ends, EventTypes, TellMoves, Due, RunStates,
        processVars, runVars, jobVars, gitVars, coreVars, Goto
<1>fail. ASSUME Fail, stage \in Open, UNCHANGED restarts PROVE TellMoves
  BY <1>fail DEF Fail, Emit
<1>1. CASE CreateJob \/ SelectMarker \/ SelectStopped \/ AfterJobSucceeded
  BY <1>1 DEF CreateJob, SelectMarker, SelectStopped, AfterJobSucceeded
<1>2. CASE CreateJobErr \/ AfterJobTimeout \/ AfterJobNoDigest
  BY <1>2, <1>fail DEF CreateJobErr, AfterJobTimeout, AfterJobNoDigest
<1>3. CASE AfterJobGone \/ AfterJobFailed
  BY <1>3 DEF AfterJobGone, AfterJobFailed, Emit
<1>4. CASE RegistryErr \/ CommitErr \/ ArgoFails
  BY <1>4, <1>fail DEF RegistryErr, CommitErr, ArgoFails
<1>5. CASE RegistryExists \/ CommitPut
  BY <1>5 DEF RegistryExists, CommitPut
<1>6. CASE CommitSkipped \/ CommitDone
  BY <1>6 DEF CommitSkipped, CommitDone, Committed, Emit
<1>7. CASE ArgoHealthy
  BY <1>7 DEF ArgoHealthy, Emit
<1>8. CASE Judged \/ Reap
  BY <1>8 DEF Judged, Reap, EmitFinished, Emit
<1>9. CASE ReapStopped \/ Ended
  BY <1>9 DEF ReapStopped, Ended
<1>10. CASE Cleanup
  BY <1>10 DEF Cleanup, Emit
<1>11. CASE WatchJob \/ Deliver \/ Supersede \/ Cancel \/ JobEnds \/ JobVanishes \/ JobPush
  BY <1>11 DEF WatchJob, Deliver, Supersede, Cancel, JobEnds, JobVanishes, JobPush
<1>12. CASE PutLands \/ Shutdown \/ Exit \/ Crash
  BY <1>12, Zenon DEF PutLands, Shutdown, Exit, Crash
<1>13. CASE Restart
  <2>1. \/ told' = << >>
        \/ \E e \in Event : e.type = "committed" /\ told' = <<e>>
        \/ \E e \in Event : e.type = "committed" /\ told' = <<e, Ev("deployed")>>
    BY <1>13 DEF Restart, ResumeRun, Continue, committedAgain, Event, Images
  <2>2. Ev("deployed").type = "deployed"
    BY EvType
  <2>3. stage' \in {"nothing", "committed", "deployed"}
    BY <2>1, <2>2 DEF stage, StageOf
  <2> QED BY <1>13, <2>3 DEF Restart
<1>14. CASE UNCHANGED vars
  BY <1>14 DEF vars
<1> QED
  BY <1>1, <1>2, <1>3, <1>4, <1>5, <1>6, <1>7, <1>8, <1>9, <1>10, <1>11, <1>12, <1>13, <1>14
     DEF Next, Work

-------------------------------------------------------------------------------
(***************************************************************************)
(* BuildRun implements BuildReport.                                        *)
(***************************************************************************)

\* The types of a sequence of events.
LEMMA TypesOf ==
    ASSUME NEW s \in Seq(Event)
    PROVE  LET types == [i \in 1 .. Len(s) |-> s[i].type]
           IN  types \in Seq(EventTypes) /\ Len(types) = Len(s)
<1>1. Len(s) \in Nat /\ \A i \in 1 .. Len(s) : s[i] \in Event
  OBVIOUS
<1>2. \A i \in 1 .. Len(s) : s[i].type \in EventTypes
  BY <1>1 DEF Event
<1> DEFINE types == [i \in 1 .. Len(s) |-> s[i].type]
<1>3. types \in [1 .. Len(s) -> EventTypes]
  BY <1>2
<1> HIDE DEF types
<1>4. types \in Seq(EventTypes) /\ Len(types) = Len(s)
  BY <1>1, <1>3
<1> QED BY <1>4 DEF types

\* The word of a stage is the report of BuildReport.
LEMMA ReportOfStage ==
    ASSUME NEW s \in Seq(Event)
    PROVE  LET types == [i \in 1 .. Len(s) |-> s[i].type]
           IN  /\ StageOf(s) = "nothing" => types = << >>
               /\ StageOf(s) = "committed" => types = <<"committed">>
               /\ StageOf(s) = "deployed" => types = <<"committed", "deployed">>
<1> DEFINE types == [i \in 1 .. Len(s) |-> s[i].type]
<1>1. /\ types \in Seq(EventTypes) /\ Len(types) = Len(s)
      /\ \A i \in 1 .. Len(s) : types[i] = s[i].type
  BY TypesOf
<1> HIDE DEF types
<1>2. ASSUME StageOf(s) = "nothing" PROVE types = << >>
  BY <1>1, <1>2 DEF StageOf
<1>3. ASSUME StageOf(s) = "committed" PROVE types = <<"committed">>
  <2>1. Len(types) = 1 /\ types[1] = "committed"
    BY <1>1, <1>3 DEF StageOf
  <2> QED BY <1>1, <2>1, SeqEqual DEF EventTypes
<1>4. ASSUME StageOf(s) = "deployed" PROVE types = <<"committed", "deployed">>
  <2>1. Len(types) = 2 /\ types[1] = "committed" /\ types[2] = "deployed"
    BY <1>1, <1>4 DEF StageOf
  <2> QED BY <1>1, <2>1, SeqEqual DEF EventTypes
<1>5. /\ StageOf(s) = "nothing" => types = << >>
      /\ StageOf(s) = "committed" => types = <<"committed">>
      /\ StageOf(s) = "deployed" => types = <<"committed", "deployed">>
  BY <1>2, <1>3, <1>4
<1> QED BY <1>5 DEF types

\* One event more is one type more.
LEMMA ReportGrows ==
    ASSUME told \in Seq(Event), NEW type \in EventTypes, told' = told \o <<Ev(type)>>
    PROVE  report' = Append(report, type)
<1>0. Ev(type) \in Event /\ Ev(type).type = type
  BY EvType
<1> DEFINE e == Ev(type)
<1> HIDE DEF e
<1>1. told' \in Seq(Event) /\ Len(told') = Len(told) + 1
  BY <1>0 DEF e
<1>2. /\ told'[Len(told) + 1].type = type
      /\ \A i \in 1 .. Len(told) : told'[i] = told[i]
  BY <1>0
<1>3. report \in Seq(EventTypes) /\ Len(report) = Len(told)
  BY TypesOf DEF report
<1>4. report' \in Seq(EventTypes) /\ Len(report') = Len(told')
  BY <1>1, TypesOf DEF report
<1>5. \A i \in 1 .. Len(told') : report'[i] = IF i = Len(told) + 1 THEN type ELSE report[i]
  BY <1>1, <1>2 DEF report
<1> DEFINE longer == Append(report, type)
<1>6. longer \in Seq(EventTypes) /\ Len(longer) = Len(report')
  BY <1>1, <1>3, <1>4
<1>7. \A i \in 1 .. Len(report') : report'[i] = longer[i]
  BY <1>1, <1>3, <1>4, <1>5
<1> HIDE DEF longer
<1>8. report' = longer
  BY <1>4, <1>6, <1>7, SeqEqual
<1> QED BY <1>8 DEF longer

LEMMA InitReport == Init => Report!Init
<1> SUFFICES ASSUME Init PROVE Report!Init
  OBVIOUS
<1>1. StageOf(told) = "nothing" /\ told \in Seq(Event) /\ restarts = 0
  BY DEF Init, StageOf
<1>2. report = << >>
  BY <1>1, ReportOfStage DEF report
<1> QED BY <1>1, <1>2 DEF Report!Init

\* Every step of the run, of core, of the cluster or of the process is a step
\* of BuildReport or leaves the report alone.
LEMMA ReportStep ==
    TypeInv /\ OrderInv /\ [Next]_vars => [Report!Next]_<<restarts, report>>
<1> SUFFICES ASSUME TypeInv, OrderInv, [Next]_vars
             PROVE  Report!Next \/ UNCHANGED <<restarts, report>>
  OBVIOUS
<1>type. told \in Seq(Event) /\ told' \in Seq(Event)
  BY TypeStep DEF TypeInv, RunInv, ToldTypeOK
<1>now. /\ stage = "nothing" => report = << >>
        /\ stage = "committed" => report = <<"committed">>
        /\ stage = "deployed" => report = <<"committed", "deployed">>
  BY <1>type, ReportOfStage DEF stage, report
<1>then. /\ stage' = "nothing" => report' = << >>
         /\ stage' = "committed" => report' = <<"committed">>
         /\ stage' = "deployed" => report' = <<"committed", "deployed">>
  BY <1>type, ReportOfStage DEF stage, report
<1>moves. TellMoves
  BY StepTells
<1>1. CASE UNCHANGED <<told, restarts>>
  BY <1>1 DEF report
<1>2. CASE /\ \E type \in EventTypes : Due(type) /\ told' = told \o <<Ev(type)>>
           /\ UNCHANGED restarts
  <2>1. PICK type \in EventTypes : Due(type) /\ told' = told \o <<Ev(type)>>
    BY <1>2
  <2>2. report' = Append(report, type)
    BY <1>type, <2>1, ReportGrows
  <2>3. CASE stage = "nothing" /\ type = "committed"
    <3>1. stage' = "committed"
      BY <1>type, <2>1, <2>3, StageMoves
    <3> QED BY <1>2, <1>now, <1>then, <2>3, <3>1 DEF Report!Next, Report!Commit
  <2>4. CASE stage = "committed" /\ type = "deployed"
    <3>1. stage' = "deployed"
      BY <1>type, <2>1, <2>4, StageMoves
    <3> QED BY <1>2, <1>now, <1>then, <2>4, <3>1
            DEF Report!Next, Report!Deploy, Report!Deployed
  <2>5. CASE stage = "deployed" /\ type = "finished"
    BY <1>2, <1>now, <2>2, <2>5 DEF Report!Next, Report!Finish, Report!Deployed
  <2>6. CASE stage \in Open /\ type \in Ends
    <3>1. report \in Report!Undecided
      BY <1>now, <2>6 DEF Open, Report!Undecided
    <3> QED BY <1>2, <2>2, <2>6, <3>1 DEF Ends, Report!Next, Report!GiveUp
  <2> QED BY <2>1, <2>3, <2>4, <2>5, <2>6 DEF Due
<1>3. CASE restarts' = restarts + 1 /\ stage' \in {"nothing", "committed", "deployed"}
  BY <1>3, <1>then DEF Report!Next, Report!Restart, Report!Undecided, Report!Deployed
<1> QED BY <1>moves, <1>1, <1>2, <1>3 DEF TellMoves

LEMMA OrderAlways == Spec => [](TypeInv /\ OrderInv)
<1>1. Init => TypeInv /\ OrderInv
  BY InitTypeInv, InitOrder
<1>2. TypeInv /\ OrderInv /\ [Next]_vars => TypeInv' /\ OrderInv'
  BY TypeStep, OrderStep
<1> QED BY <1>1, <1>2, PTL DEF Spec

\* BuildRun implements BuildReport: over every path of run.go, with every
\* fault and however often the builder restarts, a life's report is a prefix
\* of committed, deployed, finished, or one that failed or cancelled ends.
THEOREM RunImplementsReport == Spec => ReportsInOrder
<1>1. Init => Report!Init
  BY InitReport
<1>2. TypeInv /\ OrderInv /\ [Next]_vars => [Report!Next]_<<restarts, report>>
  BY ReportStep
<1> QED BY <1>1, <1>2, OrderAlways, PTL DEF Spec, ReportsInOrder, Report!Spec

-------------------------------------------------------------------------------
(***************************************************************************)
(* What core makes of the events it has heard.                             *)
(***************************************************************************)
last == told[heard].type

\* The status that an event brings.
StatusOf(type) ==
    CASE type = "committed" -> "deploying"
      [] type \in {"deployed", "finished"} -> "running"
      [] OTHER -> type

\* A row that nobody has cancelled says what the last event said.
RowHeard ==
    /\ heard <= Len(told)
    /\ heard > 0 /\ row # "cancelled" => row = StatusOf(last)

\* In the first life of the builder core has heard everything: a row that it
\* has not cancelled, and its record, are what the events made of them.
FirstLife ==
    restarts = 0 =>
        /\ pc # "idle"
        /\ superseded => row = "cancelled"
        /\ ~superseded => row = IF heard = 0 THEN "building" ELSE StatusOf(last)
        /\ ~superseded => rec = IF heard = 0 \/ last \in {"committed", "deployed"}
                                THEN "open" ELSE StatusOf(last)

VerdictInv == ShutdownCloses /\ RowHeard /\ FirstLife

\* The event that is due after the last one.
LEMMA NextInOrder ==
    ASSUME told \in Seq(Event), stage # "disorder", heard \in Nat, heard < Len(told)
    PROVE  LET type == told[heard + 1].type
           IN  /\ type \in EventTypes
               /\ heard = 0 => type \in {"committed", "failed", "cancelled"}
               /\ heard > 0 => \/ last = "committed" /\ type \in {"deployed", "failed", "cancelled"}
                               \/ last = "deployed" /\ type = "finished"
<1>1. Len(told) \in Nat /\ told[heard + 1] \in Event
  OBVIOUS
<1>2. told[heard + 1].type \in EventTypes
  BY <1>1 DEF Event
<1>3. Len(told) \in {1, 2, 3} /\ heard \in {0, 1, 2}
  BY <1>1 DEF stage, StageOf
<1>4. CASE heard = 0
  BY <1>1, <1>2, <1>4 DEF stage, StageOf, Ends
<1>5. CASE heard = 1
  BY <1>1, <1>2, <1>3, <1>5 DEF stage, StageOf, Ends, last
<1>6. CASE heard = 2
  BY <1>1, <1>2, <1>3, <1>6 DEF stage, StageOf, Ends, last
<1> QED BY <1>3, <1>4, <1>5, <1>6

\* A run that is over has told its verdict last.
LEMMA LastOfStage ==
    ASSUME told \in Seq(Event)
    PROVE  /\ stage \in Over => /\ Len(told) > 0
                               /\ told[Len(told)].type \in {"finished", "failed", "cancelled"}
           /\ stage = "deployed" => Len(told) > 0 /\ told[Len(told)].type = "deployed"
BY DEF stage, StageOf, Over, Ends

LEMMA InitVerdict == Init => VerdictInv
BY DEF Init, VerdictInv, ShutdownCloses, RowHeard, FirstLife

\* core hears the next event.
LEMMA DeliverVerdict ==
    ASSUME TypeInv, OrderInv, VerdictInv, Deliver
    PROVE  VerdictInv' /\ (restarts = 0 /\ row \in Final => row' = row)
<1> DEFINE type == told[heard + 1].type
<1>1. told \in Seq(Event) /\ heard \in Nat /\ stage # "disorder"
  BY DEF TypeInv, RunInv, ToldTypeOK, OrderInv, ToldFits
<1>2. /\ type \in EventTypes
      /\ heard = 0 => type \in {"committed", "failed", "cancelled"}
      /\ heard > 0 => \/ last = "committed" /\ type \in {"deployed", "failed", "cancelled"}
                      \/ last = "deployed" /\ type = "finished"
  BY <1>1, NextInOrder DEF Deliver
<1>3. /\ heard' = heard + 1 /\ last' = type /\ heard' <= Len(told')
      /\ UNCHANGED <<closing, restarts, cause, pc, superseded, told>>
  BY <1>1 DEF Deliver, last, processVars, runVars
<1>4. IF row = "cancelled"
      THEN /\ rec' = IF type = "cancelled" /\ rec = "open" THEN "cancelled" ELSE rec
           /\ UNCHANGED row
      ELSE /\ row' = CASE type = "committed" -> "deploying"
                       [] type = "deployed"  -> "running"
                       [] type = "finished"  -> row
                       [] OTHER              -> type
           /\ rec' = CASE type = "finished" -> row
                       [] type \in {"failed", "cancelled"} -> type
                       [] type = "deployed" /\ rec # "open" -> "running"
                       [] OTHER -> rec
  BY DEF Deliver, Apply
<1> HIDE DEF type
<1>5. row # "cancelled" => row' = StatusOf(type)
  BY <1>1, <1>2, <1>4 DEF VerdictInv, RowHeard, StatusOf, EventTypes
<1>6. ShutdownCloses' /\ RowHeard'
  BY <1>1, <1>2, <1>3, <1>4, <1>5 DEF VerdictInv, ShutdownCloses, RowHeard
<1>7. CASE restarts = 0 /\ superseded
  BY <1>1, <1>3, <1>4, <1>6, <1>7 DEF VerdictInv, FirstLife
<1>8. CASE restarts = 0 /\ ~superseded
  <2>1. row = IF heard = 0 THEN "building" ELSE StatusOf(last)
    BY <1>8 DEF VerdictInv, FirstLife
  <2>2. rec = IF heard = 0 \/ last \in {"committed", "deployed"} THEN "open" ELSE StatusOf(last)
    BY <1>8 DEF VerdictInv, FirstLife
  <2>3. row # "cancelled"
    BY <1>1, <1>2, <2>1 DEF StatusOf
  <2>4. rec' = IF type \in {"committed", "deployed"} THEN "open" ELSE StatusOf(type)
    BY <1>1, <1>2, <1>4, <2>1, <2>2, <2>3 DEF StatusOf, EventTypes
  <2>5. row \in Final => row' = row
    BY <1>1, <1>2, <1>4, <2>1, <2>3 DEF StatusOf, Final
  <2>6. FirstLife'
    BY <1>1, <1>3, <1>5, <1>8, <2>3, <2>4 DEF FirstLife, VerdictInv
  <2> QED BY <1>6, <2>5, <2>6 DEF VerdictInv
<1>9. CASE restarts # 0
  BY <1>3, <1>6, <1>9 DEF VerdictInv, FirstLife
<1> QED BY <1>7, <1>8, <1>9

\* Steps that bring core nothing.
LEMMA UnheardVerdict ==
    ASSUME TypeInv, OrderInv, VerdictInv, UNCHANGED <<heard, row, rec, superseded, restarts>>,
           TellMoves, ShutdownCloses', restarts = 0 /\ pc # "idle" => pc' # "idle"
    PROVE  VerdictInv'
<1>1. told \in Seq(Event) /\ heard \in Nat /\ Len(told) \in Nat
  BY DEF TypeInv, RunInv, ToldTypeOK
<1>2. Len(told) <= Len(told') /\ (heard > 0 => last' = last)
  <2>1. CASE UNCHANGED told
    BY <1>1, <2>1 DEF last
  <2>2. CASE \E type \in EventTypes : told' = told \o <<Ev(type)>>
    <3>1. PICK type \in EventTypes : told' = told \o <<Ev(type)>>
      BY <2>2
    <3>2. Ev(type) \in Event
      BY EvType
    <3> QED BY <1>1, <3>1, <3>2 DEF last, VerdictInv, RowHeard
  <2>3. restarts' # restarts + 1
    BY DEF TypeInv
  <2> QED BY <2>1, <2>2, <2>3 DEF TellMoves
<1> QED BY <1>1, <1>2 DEF VerdictInv, RowHeard, FirstLife

\* Where the run and the process may go in the first life.
LEMMA PlaceMoves ==
    [Next]_vars => \/ Restart
                   \/ /\ pc # "idle" => pc' # "idle"
                      /\ cause' = "shutdown" => cause = "shutdown" \/ closing'
                      /\ closing => closing'
<1> SUFFICES ASSUME [Next]_vars, ~Restart
             PROVE  /\ pc # "idle" => pc' # "idle"
                    /\ cause' = "shutdown" => cause = "shutdown" \/ closing'
                    /\ closing => closing'
  OBVIOUS
<1> USE DEF processVars, runVars, Goto
<1>1. CASE CreateJob \/ CreateJobErr \/ SelectMarker \/ SelectStopped \/ AfterJobSucceeded
  BY <1>1 DEF CreateJob, CreateJobErr, SelectMarker, SelectStopped, AfterJobSucceeded
<1>2. CASE AfterJobTimeout \/ AfterJobGone \/ AfterJobFailed \/ AfterJobNoDigest
  BY <1>2 DEF AfterJobTimeout, AfterJobGone, AfterJobFailed, AfterJobNoDigest
<1>3. CASE RegistryExists \/ RegistryErr \/ CommitErr \/ ArgoFails \/ CommitPut
  BY <1>3 DEF RegistryExists, RegistryErr, CommitErr, ArgoFails, CommitPut
<1>4. CASE CommitSkipped \/ CommitDone \/ ArgoHealthy
  BY <1>4 DEF CommitSkipped, CommitDone, Committed, ArgoHealthy
<1>5. CASE Judged \/ Reap \/ ReapStopped \/ Ended \/ Cleanup
  BY <1>5 DEF Judged, Reap, ReapStopped, Ended, Cleanup
<1>6. CASE WatchJob \/ Deliver \/ Supersede \/ Cancel
  BY <1>6 DEF WatchJob, Deliver, Supersede, Cancel
<1>7. CASE JobPush \/ JobEnds \/ JobVanishes \/ Shutdown \/ Exit \/ Crash
  BY <1>7 DEF JobPush, JobEnds, JobVanishes, Shutdown, Exit, Crash
<1>8. CASE PutLands \/ UNCHANGED vars
  <2>1. UNCHANGED <<pc, cause, closing>>
    BY <1>8, Zenon DEF PutLands, vars
  <2> QED BY <2>1
<1> QED BY <1>1, <1>2, <1>3, <1>4, <1>5, <1>6, <1>7, <1>8 DEF Next, Work

\* Only Deliver and Supersede write core's row.
LEMMA CoreMoves ==
    [Next]_vars => \/ Deliver \/ Supersede
                   \/ /\ UNCHANGED <<row, rec, superseded>>
                      /\ heard' = heard \/ Restart
<1> SUFFICES ASSUME [Next]_vars, ~Deliver, ~Supersede
             PROVE  UNCHANGED <<row, rec, superseded>> /\ (heard' = heard \/ Restart)
  OBVIOUS
<1> USE DEF processVars, runVars, coreVars, Goto
<1>1. CASE CreateJob \/ CreateJobErr \/ SelectMarker \/ SelectStopped \/ AfterJobSucceeded
  BY <1>1 DEF CreateJob, CreateJobErr, SelectMarker, SelectStopped, AfterJobSucceeded
<1>2. CASE AfterJobTimeout \/ AfterJobGone \/ AfterJobFailed \/ AfterJobNoDigest
  BY <1>2 DEF AfterJobTimeout, AfterJobGone, AfterJobFailed, AfterJobNoDigest
<1>3. CASE RegistryExists \/ RegistryErr \/ CommitErr \/ ArgoFails \/ CommitPut
  BY <1>3 DEF RegistryExists, RegistryErr, CommitErr, ArgoFails, CommitPut
<1>4. CASE CommitSkipped \/ CommitDone \/ ArgoHealthy
  BY <1>4 DEF CommitSkipped, CommitDone, Committed, ArgoHealthy
<1>5. CASE Judged \/ Reap \/ ReapStopped \/ Ended \/ Cleanup
  BY <1>5 DEF Judged, Reap, ReapStopped, Ended, Cleanup
<1>6. CASE WatchJob \/ Cancel \/ Restart
  BY <1>6 DEF WatchJob, Cancel, Restart
<1>7. CASE JobPush \/ JobEnds \/ JobVanishes \/ Shutdown \/ Exit \/ Crash
  BY <1>7 DEF JobPush, JobEnds, JobVanishes, Shutdown, Exit, Crash
<1>8. CASE PutLands \/ UNCHANGED vars
  BY <1>8, Zenon DEF PutLands, vars
<1> QED BY <1>1, <1>2, <1>3, <1>4, <1>5, <1>6, <1>7, <1>8 DEF Next, Work

LEMMA VerdictStep ==
    TypeInv /\ OrderInv /\ VerdictInv /\ [Next]_vars
        => VerdictInv' /\ (restarts = 0 /\ row \in Final => row' = row)
<1> SUFFICES ASSUME TypeInv, OrderInv, VerdictInv, [Next]_vars
             PROVE  VerdictInv' /\ (restarts = 0 /\ row \in Final => row' = row)
  OBVIOUS
<1>1. CASE Deliver
  BY <1>1, DeliverVerdict
<1>2. CASE Supersede
  BY <1>2 DEF Supersede, VerdictInv, ShutdownCloses, RowHeard, FirstLife, last, Final,
              processVars, runVars
<1>3. CASE Restart
  BY <1>3 DEF Restart, VerdictInv, ShutdownCloses, RowHeard, FirstLife, last, coreVars, TypeInv
<1>4. CASE ~Deliver /\ ~Supersede /\ ~Restart
  <2>1. UNCHANGED <<heard, row, rec, superseded>>
    BY <1>4, CoreMoves
  <2>2. TellMoves
    BY StepTells
  <2>3. ShutdownCloses' /\ (pc # "idle" => pc' # "idle")
    BY <1>4, PlaceMoves DEF VerdictInv, ShutdownCloses
  <2>4. UNCHANGED restarts
    BY <1>4, ProcessMoves DEF processVars, Shutdown, Exit, Crash
  <2> QED BY <2>1, <2>2, <2>3, <2>4, UnheardVerdict
<1> QED BY <1>1, <1>2, <1>3, <1>4

HeardInv == TypeInv /\ OrderInv /\ VerdictInv

LEMMA InitHeard == Init => HeardInv
BY InitTypeInv, InitOrder, InitVerdict DEF HeardInv

LEMMA HeardStep == HeardInv /\ [Next]_vars => HeardInv'
BY TypeStep, OrderStep, VerdictStep DEF HeardInv

LEMMA HeardAlways == Spec => []HeardInv
BY InitHeard, HeardStep, PTL DEF Spec

\* A builder that is quiet and has run a build has brought core its verdict,
\* whatever went wrong.
LEMMA QuietRun ==
    ASSUME HeardInv, Quiet, pc # "idle"
    PROVE  /\ heard > 0 /\ last \in {"finished", "failed", "cancelled"}
           /\ row \in Final
<1>1. told \in Seq(Event) /\ pc = "done"
  BY DEF HeardInv, TypeInv, RunInv, ToldTypeOK, Places, Quiet, running
<1>2. stage \in Over
  BY <1>1 DEF HeardInv, OrderInv, ToldFits, VerdictInv, ShutdownCloses, Quiet
<1>3. heard > 0 /\ last \in {"finished", "failed", "cancelled"}
  BY <1>1, <1>2, LastOfStage DEF Quiet, last
<1> QED BY <1>3 DEF HeardInv, VerdictInv, RowHeard, StatusOf, Final

\* A verdict that events brought to the row stands in the builder's first life.
THEOREM VerdictsStand == Spec => VerdictStands
<1>1. HeardInv /\ [Next]_vars => [(row \in Final /\ restarts = 0) => (row' = row)]_row
  BY VerdictStep DEF HeardInv
<1> QED BY <1>1, HeardAlways, PTL DEF Spec, VerdictStands

\* Every build that was accepted gets a verdict in the builder's first life.
THEOREM AcceptedIsSettledAlways == Spec => []AcceptedIsSettled
<1>1. HeardInv => AcceptedIsSettled
  <2> SUFFICES ASSUME HeardInv, Quiet, restarts = 0 PROVE row \in Final
    BY DEF AcceptedIsSettled
  <2>1. pc # "idle"
    BY DEF HeardInv, VerdictInv, FirstLife
  <2> QED BY <2>1, QuietRun
<1> QED BY <1>1, HeardAlways, PTL

\* In that life the record of a quiet build is closed and agrees with the row.
THEOREM RecordMatches == Spec => []RecordMatchesRow
<1>1. HeardInv => RecordMatchesRow
  <2> SUFFICES ASSUME HeardInv, Quiet, restarts = 0, ~superseded PROVE rec = row
    BY DEF RecordMatchesRow
  <2>1. FirstLife
    BY DEF HeardInv, VerdictInv
  <2>2. heard > 0 /\ last \in {"finished", "failed", "cancelled"}
    BY <2>1, QuietRun DEF FirstLife
  <2>3. heard # 0
    BY <2>2
  <2> QED BY <2>1, <2>2, <2>3 DEF FirstLife
<1> QED BY <1>1, HeardAlways, PTL

-------------------------------------------------------------------------------
(***************************************************************************)
(* Restarts.  What must not go wrong for a build that has a Job to get its *)
(* verdict over any number of restarts: the builder is stopped gracefully, *)
(* has the time to send its events, finds its Jobs again, and nobody else  *)
(* deletes them.  Create, Delete, the annotations and GitHub may fail.     *)
(***************************************************************************)
Graceful == Faults \cap {"crash", "drain", "remove", "expire", "list"} = {}

JobDone == job = "gone" \/ "finished" \in ann

ResumeInv ==
    \* A Job that the next builder will not resume has a verdict told.
    /\ JobDone /\ pc # "idle" => stage \notin Open
    \* A builder that resumed nothing had nothing to resume.
    /\ pc = "idle" /\ job # "none" => row \in Final
    \* A builder that has ended has sent everything.
    /\ ~up => heard = Len(told) /\ pc \in {"idle", "done"}
    \* Before the Job there is nothing of it.
    /\ pc = "create" => ~JobDone
    /\ out = "gone" => JobDone

LEMMA InitResume == Init => ResumeInv
BY DEF Init, ResumeInv, JobDone

\* A verdict is not taken back within a life.
LEMMA StageStands ==
    ASSUME TypeInv, OrderInv, [Next]_vars, ~Restart, stage \notin Open
    PROVE  stage' \notin Open
<1>1. told \in Seq(Event) /\ stage \in Stages
  BY StageType DEF TypeInv, RunInv, ToldTypeOK
<1>2. UNCHANGED restarts /\ restarts \in Nat
  BY ProcessMoves DEF processVars, Shutdown, Exit, Crash, TypeInv
<1>3. UNCHANGED told \/ \E type \in EventTypes : Due(type) /\ told' = told \o <<Ev(type)>>
  BY <1>2, StepTells DEF TellMoves
<1>4. CASE UNCHANGED told
  BY <1>4, StageStays
<1>5. CASE \E type \in EventTypes : Due(type) /\ told' = told \o <<Ev(type)>>
  BY <1>1, <1>5, StageMoves DEF Due, Open, Stages
<1> QED BY <1>3, <1>4, <1>5

LEMMA ResumeStep ==
    ASSUME Graceful, HeardInv, ResumeInv, [Next]_vars PROVE ResumeInv'
<1>type. /\ pc \in RunStates \cup {"idle", "done"} /\ stage \in Stages
         /\ told \in Seq(Event) /\ heard \in Nat
         /\ out \in {"none", "succeeded", "failed", "gone", "timeout"}
         /\ job \in {"none", "active", "succeeded", "failed", "gone"}
  BY StageType DEF HeardInv, TypeInv, RunInv, ToldTypeOK, Places
<1>order. ToldFits /\ FlagsFit /\ TypeInv /\ OrderInv
  BY DEF HeardInv, OrderInv
<1>then. ToldFits'
  BY HeardStep DEF HeardInv, OrderInv
<1>stands. ~Restart /\ stage \notin Open => stage' \notin Open
  BY <1>order, StageStands
<1> USE <1>type
    DEF ResumeInv, JobDone, Graceful, processVars, runVars, jobVars, gitVars, coreVars, Goto
\* A step of the run that does not end its Job or mark it finished, or has
\* told the verdict when it does.
<1>run. ASSUME up, pc # "idle", UNCHANGED <<up, out>>, pc' \notin {"create", "idle"},
               JobDone' => JobDone \/ stage' \notin Open, JobDone => JobDone'
        PROVE  ResumeInv'
  <2>1. ~Restart
    BY <1>run DEF Restart
  <2> QED BY <1>run, <1>stands, <2>1
<1>1. CASE CreateJob
  BY <1>1, <1>run, <1>stands DEF CreateJob
<1>2. CASE CreateJobErr
  BY <1>2, <1>run DEF CreateJobErr
<1>3. CASE SelectMarker \/ SelectStopped \/ AfterJobSucceeded
  BY <1>3, <1>run DEF SelectMarker, SelectStopped, AfterJobSucceeded
<1>4. CASE AfterJobTimeout \/ AfterJobNoDigest
  <2>1. /\ up /\ pc = "select" /\ pc' = "ended" /\ UNCHANGED <<up, out, cause>>
        /\ stopped => UNCHANGED <<job, ann>>
        /\ JobDone => JobDone'
    BY <1>4 DEF AfterJobTimeout, AfterJobNoDigest, DeleteJob, Annotate
  <2>2. ~stopped => stage' \notin Open
    BY <1>then, <2>1 DEF ToldFits, Over, Open, stopped
  <2> QED BY <1>run, <2>1, <2>2
<1>5. CASE AfterJobGone \/ AfterJobFailed
  <2>1. /\ pc = "select" /\ up /\ pc' = "ended" /\ UNCHANGED <<up, out>>
        /\ \E type \in Ends : told' = told \o <<Ev(type)>>
        /\ JobDone => JobDone'
    BY <1>5 DEF AfterJobGone, AfterJobFailed, Emit, Ends, Annotate
  <2>2. stage = "nothing"
    BY <1>order, <2>1 DEF ToldFits
  <2>3. stage' \notin Open
    BY <2>1, <2>2, StageMoves DEF EventTypes, Ends, Open
  <2> QED BY <1>run, <2>1, <2>3
<1>6. CASE RegistryExists
  BY <1>6, <1>run DEF RegistryExists, Annotate
<1>7. CASE RegistryErr \/ CommitErr \/ ArgoFails \/ CommitPut
  BY <1>7, <1>run DEF RegistryErr, CommitErr, ArgoFails, CommitPut
<1>8. CASE CommitSkipped \/ CommitDone
  BY <1>8, <1>run DEF CommitSkipped, CommitDone, Committed, Annotate
<1>9. CASE ArgoHealthy
  BY <1>9, <1>run DEF ArgoHealthy, Annotate
<1>10. CASE Judged
  <2>1. /\ pc = "judged" /\ up /\ pc' \in {"ended", "reap"} /\ UNCHANGED <<up, out>>
        /\ stopped => UNCHANGED <<job, ann>>
        /\ JobDone => JobDone'
    BY <1>10 DEF Judged, Annotate
  <2>2. ~stopped => stage' \notin Open
    BY <1>order, <1>stands, <2>1 DEF ToldFits, Restart
  <2> QED BY <1>run, <2>1, <2>2
<1>11. CASE Reap
  <2>1. /\ pc = "reap" /\ up /\ pc' = "ended" /\ UNCHANGED <<up, out>>
        /\ JobDone => JobDone'
    BY <1>11 DEF Reap, ReapJob, Annotate
  <2>2. ~Restart
    BY <2>1 DEF Restart
  <2>3. stage' \notin Open
    BY <1>order, <1>stands, <2>1, <2>2 DEF ToldFits
  <2> QED BY <1>run, <2>1, <2>3
<1>12. CASE ReapStopped \/ Ended
  BY <1>12, <1>run DEF ReapStopped, Ended
<1>13. CASE Cleanup
  <2>1. /\ pc = "cleanup" /\ up /\ pc' = "done" /\ UNCHANGED <<up, out, cause>>
        /\ cause = "shutdown" => UNCHANGED <<job, ann>>
        /\ JobDone => JobDone'
    BY <1>13 DEF Cleanup, DeleteJob
  <2>2. cause # "shutdown" => stage' \notin Open
    BY <1>then, <2>1 DEF ToldFits, Over, Open
  <2> QED BY <1>run, <2>1, <2>2
<1>14. CASE WatchJob
  BY <1>14, StageStays DEF WatchJob, running, RunStates
<1>15. CASE Deliver
  <2>1. pc # "idle"
    <3>1. Len(told) # 0
      BY <1>15 DEF Deliver
    <3> QED BY <3>1, <1>order DEF ToldFits, stage, StageOf
  <2> QED BY <1>15, <2>1, StageStays DEF Deliver
<1>16. CASE Supersede \/ Cancel
  BY <1>16, StageStays DEF Supersede, Cancel, Final
<1>17. CASE JobPush \/ JobEnds \/ JobVanishes
  BY <1>17, StageStays DEF JobPush, JobEnds, JobVanishes
<1>18. CASE PutLands
  <2>1. UNCHANGED <<up, told, heard, pc, out, job, ann, row>>
    BY <1>18, Zenon DEF PutLands
  <2> QED BY <2>1, StageStays
<1>19. CASE Shutdown \/ Exit \/ Crash
  BY <1>19, StageStays DEF Shutdown, Exit, Crash, running
<1>20. CASE Restart
  <2>1. /\ up' = TRUE /\ out' = "none" /\ UNCHANGED <<job, ann, row>> /\ pc' # "create"
        /\ pc' # "idle" => ~JobDone
        /\ pc' = "idle" => job \in {"none", "gone"} \/ "finished" \in ann
    BY <1>20 DEF Restart, ResumeRun, Continue, jobExists
  <2>2. heard = Len(told) /\ pc \in {"idle", "done"}
    BY <1>20 DEF Restart
  <2>3. JobDone => row \in Final \/ job = "none"
    <3>1. CASE pc = "idle"
      BY <3>1
    <3>2. CASE JobDone /\ pc = "done"
      <4>1. stage \in {"deployed"} \cup Over
        BY <1>order, <3>2 DEF ToldFits, Open, Over, Stages
      <4>2. heard > 0 /\ last \in {"deployed", "finished", "failed", "cancelled"}
        BY <2>2, <4>1, LastOfStage DEF last
      <4> QED BY <4>2 DEF HeardInv, VerdictInv, RowHeard, StatusOf, Final
    <3> QED BY <2>2, <3>1, <3>2
  <2> QED BY <2>1, <2>3
<1>21. CASE UNCHANGED vars
  BY <1>21, StageStays DEF vars
<1> QED
  BY <1>1, <1>2, <1>3, <1>4, <1>5, <1>6, <1>7, <1>8, <1>9, <1>10, <1>11, <1>12, <1>13, <1>14,
     <1>15, <1>16, <1>17, <1>18, <1>19, <1>20, <1>21 DEF Next, Work

\* With graceful restarts only, of any number, every build that got as far as a
\* Job has its verdict on core's row once the builder is quiet, whatever else
\* fails.  "drain" is among what must not happen: RunDrain.cfg shows a
\* build without a verdict when the grace of Shutdown is too short.
THEOREM SettledOverRestarts ==
    ASSUME Graceful PROVE Spec => []SettledOnceJobExists
<1>1. Init => HeardInv /\ ResumeInv
  BY InitHeard, InitResume
<1>2. (HeardInv /\ ResumeInv) /\ [Next]_vars => (HeardInv /\ ResumeInv)'
  BY HeardStep, ResumeStep
<1>3. HeardInv /\ ResumeInv => SettledOnceJobExists
  BY QuietRun DEF SettledOnceJobExists, ResumeInv
<1> QED BY <1>1, <1>2, <1>3, PTL DEF Spec
===============================================================================
