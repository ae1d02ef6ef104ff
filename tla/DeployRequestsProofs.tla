------------------------ MODULE DeployRequestsProofs ------------------------
(***************************************************************************)
(* Proofs about DeployRequests, for any number of requests, attempts and    *)
(* builds: whom a request may cancel, whose values reach git, and that      *)
(* every row gets its verdict (the last section).                           *)
(*                                                                         *)
(* The argument.  A thread that goes on although a newer competing request  *)
(* was made is late, or is about to see its row cancelled (OlderIsLate).    *)
(* So whoever cancels another one in the builder, where only competing      *)
(* requests meet (VictimCompetes), is newer or late.  And a run that works  *)
(* beside a newer competing one was accepted after it, hence late           *)
(* (WorkingOlderIsLate): its commit is one exception of NewestWins.  A PUT  *)
(* that a run gave up on is refused once another one has landed, so what it *)
(* may take back was found there by a request that wrote nothing            *)
(* (FloatingIsOld): the other exception.                                    *)
(***************************************************************************)
EXTENDS DeployRequests, TLAPS

Competing(r, o) == Compete(kind[r], slot[r], kind[o], slot[o])

\* Only requests that were made have a thread, a row, a run or a cancel.
OnlyMade ==
    \A r \in Requests :
        IF r \in Made THEN task[r] # "new"
        ELSE /\ task[r] = "new" /\ row[r] = "none" /\ run[r] = "none"
             /\ ~recall[r] /\ ~stopped[r]

TriesLeft == \A r \in Requests : task[r] \notin {"done", "raised"} => tries[r] < MaxAttempts

VictimCompetes ==
    \A r \in Requests :
        task[r] = "cancelling" => victim[r] \in Made \ {r} /\ Competing(victim[r], r)

OlderIsLate ==
    \A r \in Made : \A n \in Made :
        r < n /\ Competing(r, n) =>
            \/ r \in late
            \/ task[r] = "done"
            \/ task[r] \in {"check", "prepare"} /\ row[r] = "cancelled"

WorkingOlderIsLate ==
    \A r \in Made : \A n \in Made :
        r < n /\ Competing(r, n) /\ Blocking(r) /\ run[n] # "none" => r \in late

GitOfRun ==
    \A s \in Slots : git[s] # 0 =>
        git[s] \in Made /\ run[git[s]] # "none" /\ s \in Written(git[s])

FloatingIsOld ==
    \A o \in floating :
        /\ o \in Made /\ run[o] # "none"
        /\ o \in late \cup overtaken \/ \A s \in Slots : s \in Written(o) => git[s] <= o

\* The request that replaces r.
Replaced(r) ==
    \E n \in Made \ {r} : (n > r \/ n \in late) /\ Competing(n, r)

CancelHasReason ==
    \A r \in Made : row[r] = "cancelled" \/ recall[r] \/ stopped[r] => Replaced(r)

RequestInv ==
    /\ TypeOK /\ OnlyMade /\ TriesLeft /\ VictimCompetes
    /\ OlderIsLate /\ WorkingOlderIsLate /\ GitOfRun /\ FloatingIsOld
    /\ CancelHasReason /\ OnlyNewerCancels

-------------------------------------------------------------------------------
(***************************************************************************)
(* What a step of the user may do, and what no step takes back.            *)
(***************************************************************************)
\* The new row and those replaced; nothing else of core's changes.
NewRequest(k, s, first) ==
    /\ NewTask(k, s, first) /\ first \in {"check", "posting"}
    /\ \A r \in Requests :
          \/ r \in Stale(s) /\ row'[r] = "cancelled" /\ recall'[r] = TRUE
          \/ /\ r = started + 1 /\ recall'[r] = recall[r]
             /\ row'[r] \in {"none", "applied", "queued", "deploying"}
          \/ r # started + 1 /\ row'[r] = row[r] /\ recall'[r] = recall[r]
    /\ row' \in [Requests -> {"none", "applied"} \cup ActiveStatuses \cup FinalStatuses]
    /\ recall' \in [Requests -> BOOLEAN]

LEMMA UserFacts ==
    ASSUME TypeOK, OnlyMade, UserStep
    PROVE  \E k \in Kinds, s \in Slots, first \in {"check", "posting"} : NewRequest(k, s, first)
<1> USE RequestAssumption DEF TypeOK, NewRequest, NewTask, ReplaceStale, ActiveStatuses, FinalStatuses
<1>0. started + 1 \notin Made /\ \A s \in Slots : Stale(s) \subseteq Made
  BY DEF Made, Stale
<1>1. CASE \E s \in Slots : StartDeploy(s)
  <2>1. PICK s \in Slots : StartDeploy(s)
    BY <1>1
  <2>2. NewRequest("build", s, "check")
    BY <1>0, <2>1 DEF StartDeploy
  <2> QED BY <2>1, <2>2 DEF StartDeploy
<1>2. CASE StartRollback
  BY <1>0, <1>2 DEF StartRollback
<1>3. CASE StartRemove
  BY <1>0, <1>3 DEF StartRemove
<1>4. CASE StartConfig
  BY <1>0, <1>4 DEF StartConfig
<1>5. CASE StartDelete
  <2>1. row[started + 1] = "none"
    BY <1>0, <1>5 DEF StartDelete, OnlyMade, Requests
  <2>2. NewRequest("delete", "server", "posting")
    BY <1>0, <1>5, <2>1 DEF StartDelete
  <2> QED BY <1>5, <2>2 DEF StartDelete
<1> QED BY <1>1, <1>2, <1>3, <1>4, <1>5 DEF UserStep

\* Requests are never unmade, keep their kind and slot, and stay late.
Monotone ==
    /\ Made \subseteq Made' /\ late \subseteq late'
    /\ \A r \in Made : kind'[r] = kind[r] /\ slot'[r] = slot[r]

LEMMA MonotoneStep ==
    ASSUME TypeOK, OnlyMade, [Next]_vars
    PROVE  Monotone
<1> USE DEF Monotone
<1>1. CASE UserStep
  <2>1. PICK k \in Kinds, s \in Slots, first \in {"check", "posting"} : NewRequest(k, s, first)
    BY <1>1, UserFacts
  <2> QED BY <2>1 DEF NewRequest, NewTask, Made, TypeOK
<1>2. CASE \E r \in Requests : TaskStep(r) \/ CancelRemote(r) \/ RunStep(r) \/ LateWrite(r)
  <2>1. UNCHANGED <<started, kind, slot, late>>
    BY <1>2 DEF TaskStep, RunStep, CancelRemote, Check, Prepare, Look, PrepareFails, Mark, Accepted,
                AnswerLost, Rejected, Refused, Conflicting, CancelOther, CancelOtherFails, RunCommits,
                RunJudged, RunCancelled, RunReaped, LateWrite, coreVars
  <2> QED BY <2>1 DEF Made
<1>3. CASE UNCHANGED vars
  BY <1>3 DEF vars, coreVars, Made
<1> QED BY <1>1, <1>2, <1>3 DEF Next

-------------------------------------------------------------------------------
(***************************************************************************)
(* Types, with what is known of requests that were not made.               *)
(***************************************************************************)
Types == TypeOK /\ OnlyMade /\ TriesLeft

LEMMA InitTypes == Init => Types
BY RequestAssumption DEF Init, Types, TypeOK, OnlyMade, TriesLeft, Made, Requests

\* The statuses that events and failures write, on a row that is there and not cancelled.
RowChange(r, statuses) ==
    /\ row' \in [Requests -> {"none", "applied"} \cup ActiveStatuses \cup FinalStatuses]
    /\ \A q \in Requests : q # r => row'[q] = row[q]
    /\ row'[r] # row[r] => row[r] \notin {"cancelled", "none"} /\ row'[r] \in statuses

LEMMA FailRowChange ==
    ASSUME TypeOK, NEW r \in Requests, FailRow(r)
    PROVE  RowChange(r, {"failed"})
BY DEF TypeOK, FailRow, RowChange, ActiveStatuses, FinalStatuses

LEMMA HearChange ==
    ASSUME TypeOK, NEW r \in Requests,
           NEW status \in {"applied"} \cup ActiveStatuses \cup FinalStatuses, Hear(r, status)
    PROVE  RowChange(r, {status}) /\ deaf' \subseteq Requests
BY DEF TypeOK, Hear, RowChange, ActiveStatuses, FinalStatuses

\* A failed attempt: another one while there are some left.
LEMMA AttemptChange ==
    ASSUME Types, NEW r \in Requests, task[r] \in {"posting", "cancelling"}, NextAttempt(r)
    PROVE  /\ RowChange(r, {"failed"})
           /\ \E t \in {"posting", "done"} : task' = [task EXCEPT ![r] = t]
           /\ tries' \in [Requests -> 0 .. MaxAttempts]
           /\ \A q \in Requests : q # r => tries'[q] = tries[q]
           /\ task'[r] = "posting" => tries'[r] < MaxAttempts
<1> USE RequestAssumption DEF Types, TypeOK, TriesLeft, GoOn
<1>1. tries[r] \in 0 .. MaxAttempts /\ tries[r] < MaxAttempts
  OBVIOUS
<1>2. tries' = [tries EXCEPT ![r] = @ + 1]
  BY DEF NextAttempt
<1>3. CASE tries[r] + 1 < MaxAttempts
  BY <1>1, <1>2, <1>3 DEF NextAttempt, RowChange
<1>4. CASE ~(tries[r] + 1 < MaxAttempts)
  <2>1. GoOn(r, "done") /\ RowChange(r, {"failed"})
    BY <1>4, FailRowChange DEF NextAttempt, GiveUp
  <2> QED BY <1>1, <1>2, <2>1
<1> QED BY <1>3, <1>4

\* A commit reaches the slots of the request's run and no other; of the PUTs
\* that float, one that the run has just left is the only new one, and a commit
\* that lets one of an older request float has overtaken it.
GitChange(r) ==
    /\ git' \in [Slots -> 0 .. MaxRequests]
    /\ floating' \subseteq Requests /\ overtaken' \subseteq Requests
    /\ \A s \in Slots :
          git'[s] # git[s] => git'[s] = r /\ s \in Written(r) /\ run[r] = "working"
    /\ overtaken \subseteq overtaken'
    /\ \A o \in floating' :
          \/ o = r /\ run[r] = "working" /\ git' = git
          \/ o \in floating /\ (o \in overtaken' \/ \A s \in Slots :
                 s \in Written(o) => git'[s] = git[s] \/ git'[s] <= o)

LEMMA CommitChange ==
    ASSUME TypeOK, NEW r \in Requests,
           MayWrite(r) \/ (run[r] = "working" /\ (Write(r) \/ Skip(r)))
    PROVE  GitChange(r)
<1>0. /\ r \in 0 .. MaxRequests
      /\ git \in [Slots -> 0 .. MaxRequests] /\ floating \subseteq Requests /\ overtaken \subseteq Requests
  BY RequestAssumption DEF Requests, TypeOK
<1>1. CASE UNCHANGED gitVars
  BY <1>0, <1>1 DEF gitVars, GitChange
<1>2. CASE run[r] = "working" /\ Write(r)
  BY <1>0, <1>2 DEF Write, GitChange
<1>3. CASE run[r] = "working" /\ floating' = floating \cup {r} /\ UNCHANGED <<git, overtaken>>
  BY <1>0, <1>3 DEF GitChange
<1>4. CASE run[r] = "working" /\ Skip(r)
  <2>1. /\ git' = [s \in Slots |-> IF s \in Written(r) THEN r ELSE git[s]]
        /\ overtaken' = overtaken \cup {o \in floating : o < r /\ Overlap(r, o)}
        /\ floating' = floating
    BY <1>4 DEF Skip
  <2>2. ASSUME NEW o \in floating, o \notin overtaken', NEW s \in Slots, s \in Written(o)
        PROVE  git'[s] = git[s] \/ git'[s] <= o
    <3>1. CASE s \in Written(r)
      <4>1. o \in Nat /\ r \in Nat
        BY <1>0 DEF Requests
      <4>2. ~(o < r)
        BY <2>1, <2>2, <3>1 DEF Overlap
      <4> QED BY <2>1, <3>1, <4>1, <4>2
    <3>2. CASE s \notin Written(r)
      BY <2>1, <3>2
    <3> QED BY <3>1, <3>2
  <2> QED BY <1>0, <1>4, <2>1, <2>2 DEF GitChange
<1> QED BY <1>1, <1>2, <1>3, <1>4 DEF MayWrite

\* The types after a step of the thread of r.
LEMMA ThreadTypes ==
    ASSUME Types, NEW r \in Requests, NEW to \in {"prepare", "mark", "posting", "cancelling", "done", "raised"},
           task[r] # "new", task' = [task EXCEPT ![r] = to],
           row' \in [Requests -> {"none", "applied"} \cup ActiveStatuses \cup FinalStatuses],
           \A q \in Requests : q # r => row'[q] = row[q],
           tries' \in [Requests -> 0 .. MaxAttempts],
           \A q \in Requests : q # r => tries'[q] = tries[q],
           to \notin {"done", "raised"} => tries'[r] < MaxAttempts,
           victim' \in [Requests -> 0 .. MaxRequests],
           run' \in [Requests -> {"none", "working", "committed", "reaping", "over"}],
           \A q \in Requests : q # r => run'[q] = run[q],
           stopped' \in [Requests -> BOOLEAN],
           \A q \in Requests : q # r => stopped'[q] = stopped[q] \/ run[q] # "none",
           deaf' \subseteq Requests, killers' \in [Requests -> SUBSET Requests],
           UNCHANGED <<started, kind, slot, recall, late, gitVars>>
    PROVE  Types'
<1>1. r \in Made
  BY DEF Types, OnlyMade
<1>2. TypeOK'
  BY DEF Types, TypeOK, gitVars
<1>3. OnlyMade'
  BY <1>1 DEF Types, TypeOK, OnlyMade, Made
<1>4. TriesLeft'
  BY DEF Types, TypeOK, TriesLeft
<1> QED BY <1>2, <1>3, <1>4 DEF Types

\* The attempt of r has failed: what AttemptChange says, and one of the two tasks.
LEMMA AttemptTypes ==
    ASSUME Types, NEW r \in Requests, task[r] \in {"posting", "cancelling"}, NextAttempt(r)
    PROVE  \E t \in {"posting", "done"} :
              /\ task' = [task EXCEPT ![r] = t]
              /\ t \notin {"done", "raised"} => tries'[r] < MaxAttempts
<1>1. PICK t \in {"posting", "done"} : task' = [task EXCEPT ![r] = t]
  BY AttemptChange
<1>2. task'[r] = t
  BY <1>1 DEF Types, TypeOK
<1> QED BY <1>1, <1>2, AttemptChange

LEMMA AcceptTypes ==
    ASSUME TypeOK, NEW r \in Requests, Accept(r)
    PROVE  /\ run' \in [Requests -> {"none", "working", "committed", "reaping", "over"}]
           /\ stopped' \in [Requests -> BOOLEAN] /\ deaf' \subseteq Requests
           /\ \A q \in Requests : q # r => run'[q] = run[q] /\ stopped'[q] = stopped[q]
BY DEF Accept, TypeOK

\* The same when the builder is left alone.
LEMMA CoreTypes ==
    ASSUME Types, NEW r \in Requests, NEW to \in {"prepare", "mark", "posting", "cancelling", "done", "raised"},
           task[r] # "new", task' = [task EXCEPT ![r] = to],
           row' \in [Requests -> {"none", "applied"} \cup ActiveStatuses \cup FinalStatuses],
           \A q \in Requests : q # r => row'[q] = row[q],
           tries' \in [Requests -> 0 .. MaxAttempts],
           \A q \in Requests : q # r => tries'[q] = tries[q],
           to \notin {"done", "raised"} => tries'[r] < MaxAttempts,
           victim' \in [Requests -> 0 .. MaxRequests],
           UNCHANGED <<started, kind, slot, recall, late, builderVars>>
    PROVE  Types'
<1>1. TypeOK /\ UNCHANGED <<run, stopped, deaf, killers, gitVars>>
  BY DEF Types, builderVars, gitVars
<1> QED BY <1>1, ThreadTypes DEF TypeOK

\* The types after a step of the run of r.
LEMMA RunTypes ==
    ASSUME Types, NEW r \in Requests, run[r] # "none",
           row' \in [Requests -> {"none", "applied"} \cup ActiveStatuses \cup FinalStatuses],
           \A q \in Requests : q # r => row'[q] = row[q],
           run' \in [Requests -> {"none", "working", "committed", "reaping", "over"}],
           \A q \in Requests : q # r => run'[q] = run[q],
           deaf' \subseteq Requests, git' \in [Slots -> 0 .. MaxRequests],
           floating' \subseteq Requests, overtaken' \subseteq Requests,
           UNCHANGED <<started, kind, slot, recall, task, tries, victim, late, stopped, killers>>
    PROVE  Types'
<1>1. r \in Made
  BY DEF Types, OnlyMade
<1>2. TypeOK' /\ TriesLeft'
  BY DEF Types, TypeOK, TriesLeft
<1>3. OnlyMade'
  BY <1>1 DEF Types, TypeOK, OnlyMade, Made
<1> QED BY <1>2, <1>3 DEF Types

\* A cancel reaches the request that is named in the 409, if it is in the
\* builder.
LEMMA KillTypes ==
    ASSUME TypeOK, NEW r \in Requests, Kill(r)
    PROVE  /\ stopped' \in [Requests -> BOOLEAN] /\ killers' \in [Requests -> SUBSET Requests]
           /\ \A q \in Requests : stopped'[q] = stopped[q] \/ run[q] # "none"
<1>1. CASE InManager(victim[r])
  <2>1. /\ stopped' = [stopped EXCEPT ![victim[r]] = TRUE]
        /\ killers' = [killers EXCEPT ![victim[r]] = @ \cup {r}]
    BY <1>1 DEF Kill
  <2>2. \A q \in Requests : q = victim[r] => run[q] # "none"
    BY <1>1 DEF InManager
  <2>3. \A q \in Requests : killers'[q] = IF q = victim[r] THEN killers[q] \cup {r} ELSE killers[q]
    BY <2>1 DEF TypeOK
  <2>4. \A q \in Requests : killers'[q] \in SUBSET Requests
    <3> TAKE q \in Requests
    <3>1. killers[q] \subseteq Requests
      BY DEF TypeOK
    <3> QED BY <2>3, <3>1
  <2>5. killers' = [q \in Requests |-> killers'[q]]
    BY <2>1 DEF TypeOK
  <2>6. killers' \in [Requests -> SUBSET Requests]
    BY <2>4, <2>5
  <2>7. \A q \in Requests : q # victim[r] => stopped'[q] = stopped[q]
    BY <2>1 DEF TypeOK
  <2>8. stopped' \in [Requests -> BOOLEAN]
    BY <2>1 DEF TypeOK
  <2> QED BY <2>2, <2>6, <2>7, <2>8
<1>2. CASE ~InManager(victim[r])
  BY <1>2 DEF Kill, TypeOK
<1> QED BY <1>1, <1>2

LEMMA TypesStep ==
    ASSUME Types, [Next]_vars
    PROVE  Types'
<1> USE RequestAssumption DEF GoOn, builderVars, gitVars
<1>1. CASE UserStep
  <2> USE DEF Types, TypeOK, OnlyMade, TriesLeft, Made, ActiveStatuses, FinalStatuses
  <2>1. PICK k \in Kinds, s \in Slots, first \in {"check", "posting"} : NewRequest(k, s, first)
    BY <1>1, UserFacts
  <2>2. TypeOK'
    <3>0. started + 1 \in Requests /\ Made \subseteq Requests
      BY <2>1 DEF NewRequest, NewTask, Requests
    <3>1. started + 1 \in Requests /\ late' \subseteq Requests
      <4>1. Missed(k, s) \subseteq Made
        BY DEF Missed
      <4> QED BY <2>1, <3>0, <4>1 DEF NewRequest, NewTask
    <3> QED BY <2>1, <3>1 DEF NewRequest, NewTask
  <2>3. OnlyMade'
    BY <2>1 DEF NewRequest, NewTask, Stale, Requests
  <2>4. TriesLeft'
    BY <2>1 DEF NewRequest, NewTask, Requests
  <2> QED BY <2>2, <2>3, <2>4
<1>2. ASSUME NEW r \in Requests, TaskStep(r) PROVE Types'
  <2>0. /\ TypeOK /\ r \in 0 .. MaxRequests
        /\ task[r] \notin {"done", "raised"} => tries[r] < MaxAttempts
    BY DEF Types, TriesLeft, Requests
  <2>1. CASE Check(r) \/ Prepare(r)
    BY <2>0, <2>1, CoreTypes, ZenonT(60) DEF Check, Prepare, Look, TypeOK
  <2>2. CASE PrepareFails(r) \/ Rejected(r)
    <3>1. /\ RowChange(r, {"failed"}) /\ task[r] # "new" /\ task' = [task EXCEPT ![r] = "done"]
          /\ UNCHANGED <<started, kind, slot, recall, tries, victim, late, builderVars>>
      BY <2>0, <2>2, FailRowChange DEF PrepareFails, Rejected, GiveUp
    <3> QED BY <2>0, <3>1, CoreTypes DEF TypeOK, RowChange
  <2>3. CASE Mark(r)
    <3>1. row' \in [Requests -> {"none", "applied"} \cup ActiveStatuses \cup FinalStatuses]
      BY <2>0, <2>3 DEF Mark, TypeOK, ActiveStatuses
    <3> QED BY <2>0, <2>3, <3>1, CoreTypes DEF Mark, TypeOK
  <2>4. CASE Accepted(r)
    <3>1. CASE InManager(r)
      BY <2>0, <2>4, <3>1, CoreTypes DEF Accepted, TypeOK
    <3>2. CASE Accept(r)
      <4>1. /\ task[r] # "new" /\ task' = [task EXCEPT ![r] = "done"]
            /\ UNCHANGED <<started, kind, slot, row, recall, tries, victim, late, killers, gitVars>>
        BY <2>4 DEF Accepted
      <4>2. /\ run' \in [Requests -> {"none", "working", "committed", "reaping", "over"}]
            /\ stopped' \in [Requests -> BOOLEAN] /\ deaf' \subseteq Requests
            /\ \A q \in Requests : q # r => run'[q] = run[q]
            /\ \A q \in Requests : q # r => stopped'[q] = stopped[q] \/ run[q] # "none"
        BY <2>0, <3>2, AcceptTypes
      <4>3. /\ row' \in [Requests -> {"none", "applied"} \cup ActiveStatuses \cup FinalStatuses]
            /\ tries' \in [Requests -> 0 .. MaxAttempts] /\ victim' \in [Requests -> 0 .. MaxRequests]
            /\ killers' \in [Requests -> SUBSET Requests]
        BY <2>0, <4>1 DEF TypeOK
      <4> QED BY <4>1, <4>2, <4>3, ThreadTypes
    <3> QED BY <2>4, <3>1, <3>2 DEF Accepted
  <2>5. CASE AnswerLost(r)
    <3>2. /\ task[r] = "posting" /\ NextAttempt(r) /\ Accept(r)
          /\ UNCHANGED <<started, kind, slot, recall, victim, late, killers, gitVars>>
      BY <2>5 DEF AnswerLost
    <3>3. PICK t \in {"posting", "done"} :
            /\ task' = [task EXCEPT ![r] = t]
            /\ t \notin {"done", "raised"} => tries'[r] < MaxAttempts
      BY <3>2, AttemptTypes
    <3>4. /\ RowChange(r, {"failed"}) /\ tries' \in [Requests -> 0 .. MaxAttempts]
          /\ \A q \in Requests : q # r => tries'[q] = tries[q]
      BY <3>2, AttemptChange
    <3>5. /\ run' \in [Requests -> {"none", "working", "committed", "reaping", "over"}]
          /\ stopped' \in [Requests -> BOOLEAN] /\ deaf' \subseteq Requests
          /\ \A q \in Requests : q # r => run'[q] = run[q]
          /\ \A q \in Requests : q # r => stopped'[q] = stopped[q] \/ run[q] # "none"
      BY <2>0, <3>2, AcceptTypes
    <3>6. victim' \in [Requests -> 0 .. MaxRequests] /\ killers' \in [Requests -> SUBSET Requests]
      BY <2>0, <3>2 DEF TypeOK
    <3> QED BY <3>2, <3>3, <3>4, <3>5, <3>6, ThreadTypes DEF RowChange
  <2>6. CASE Refused(r)
    <3>2. /\ task[r] = "posting" /\ NextAttempt(r)
          /\ UNCHANGED <<started, kind, slot, recall, victim, late, builderVars>>
      BY <2>6 DEF Refused
    <3>3. PICK t \in {"posting", "done"} :
            /\ task' = [task EXCEPT ![r] = t]
            /\ t \notin {"done", "raised"} => tries'[r] < MaxAttempts
      BY <3>2, AttemptTypes
    <3>4. /\ RowChange(r, {"failed"}) /\ tries' \in [Requests -> 0 .. MaxAttempts]
          /\ \A q \in Requests : q # r => tries'[q] = tries[q]
      BY <3>2, AttemptChange
    <3> QED BY <2>0, <3>2, <3>3, <3>4, CoreTypes DEF TypeOK, RowChange
  <2>7. CASE Conflicting(r)
    <3>1. victim' \in [Requests -> 0 .. MaxRequests]
      BY <2>0, <2>7 DEF Conflicting, Conflicts, TypeOK, Requests
    <3> QED BY <2>0, <2>7, <3>1, CoreTypes DEF Conflicting, TypeOK
  <2>8. CASE CancelOther(r)
    <3>1. /\ task[r] = "cancelling" /\ NextAttempt(r) /\ Kill(r)
          /\ victim' = [victim EXCEPT ![r] = 0]
          /\ UNCHANGED <<started, kind, slot, recall, late, run, deaf, gitVars>>
      BY <2>8 DEF CancelOther
    <3>2. /\ stopped' \in [Requests -> BOOLEAN] /\ killers' \in [Requests -> SUBSET Requests]
          /\ \A q \in Requests : stopped'[q] = stopped[q] \/ run[q] # "none"
          /\ victim' \in [Requests -> 0 .. MaxRequests]
      BY <2>0, <3>1, KillTypes DEF TypeOK
    <3>3. PICK t \in {"posting", "done"} :
            /\ task' = [task EXCEPT ![r] = t]
            /\ t \notin {"done", "raised"} => tries'[r] < MaxAttempts
      BY <3>1, AttemptTypes
    <3>4. /\ RowChange(r, {"failed"}) /\ tries' \in [Requests -> 0 .. MaxAttempts]
          /\ \A q \in Requests : q # r => tries'[q] = tries[q]
      BY <3>1, AttemptChange
    <3> QED BY <2>0, <3>1, <3>2, <3>3, <3>4, ThreadTypes, ZenonT(60) DEF TypeOK, RowChange
  <2>9. CASE CancelOtherFails(r)
    <3>1. /\ RowChange(r, {"failed"}) \/ row' = row
          /\ victim' \in [Requests -> 0 .. MaxRequests] /\ task[r] = "cancelling"
          /\ Kill(r) \/ UNCHANGED <<stopped, killers>>
          /\ UNCHANGED <<started, kind, slot, recall, tries, late, run, deaf, gitVars>>
      BY <2>0, <2>9, FailRowChange DEF CancelOtherFails, GiveUp, TypeOK
    <3>2. PICK t \in {"done", "raised"} : task' = [task EXCEPT ![r] = t]
      BY <2>9 DEF CancelOtherFails, GiveUp
    <3>3. /\ stopped' \in [Requests -> BOOLEAN] /\ killers' \in [Requests -> SUBSET Requests]
          /\ \A q \in Requests : stopped'[q] = stopped[q] \/ run[q] # "none"
      BY <2>0, <3>1, KillTypes DEF TypeOK
    <3>4. /\ row' \in [Requests -> {"none", "applied"} \cup ActiveStatuses \cup FinalStatuses]
          /\ \A q \in Requests : q # r => row'[q] = row[q]
      BY <2>0, <3>1 DEF TypeOK, RowChange
    <3>5. /\ run' \in [Requests -> {"none", "working", "committed", "reaping", "over"}]
          /\ deaf' \subseteq Requests /\ tries' \in [Requests -> 0 .. MaxAttempts]
          /\ run' = run /\ tries' = tries
      BY <2>0, <3>1 DEF TypeOK
    <3> QED BY <2>0, <3>1, <3>2, <3>3, <3>4, <3>5, ThreadTypes, ZenonT(60)
  <2> QED BY <1>2, <2>1, <2>2, <2>3, <2>4, <2>5, <2>6, <2>7, <2>8, <2>9 DEF TaskStep
<1>3. ASSUME NEW r \in Requests, CancelRemote(r) PROVE Types'
  BY <1>3, ZenonT(60) DEF Types, TypeOK, OnlyMade, TriesLeft, Made, CancelRemote, InManager
<1>4. ASSUME NEW r \in Requests, RunStep(r) PROVE Types'
  <2>0. TypeOK
    BY DEF Types
  <2>1. run' \in [Requests -> {"none", "working", "committed", "reaping", "over"}]
    BY <2>0, <1>4 DEF RunStep, RunCommits, RunJudged, RunCancelled, RunReaped, End, TypeOK
  <2>2. CASE RunCommits(r)
    <3>1. RowChange(r, {"applied"} \cup ActiveStatuses \cup FinalStatuses) /\ deaf' \subseteq Requests
      BY <2>0, <2>2 DEF RunCommits, Hear, TypeOK, RowChange, ActiveStatuses, FinalStatuses
    <3>2. GitChange(r)
      BY <2>0, <2>2, CommitChange DEF RunCommits
    <3> QED BY <2>1, <2>2, <3>1, <3>2, RunTypes DEF RunCommits, RowChange, GitChange
  <2>3. CASE RunJudged(r)
    <3>1. RowChange(r, {"failed", "running"}) /\ deaf' \subseteq Requests
      BY <2>0, <2>3, HearChange DEF RunJudged, RowChange, FinalStatuses
    <3>2. GitChange(r)
      BY <2>0, <2>3, CommitChange DEF RunJudged, MayWrite
    <3> QED BY <2>1, <2>3, <3>1, <3>2, RunTypes DEF RunJudged, RowChange, GitChange, Blocking, End
  <2>4. CASE RunCancelled(r)
    <3>1. RowChange(r, {"cancelled"}) /\ deaf' \subseteq Requests
      BY <2>0, <2>4, HearChange DEF RunCancelled, FinalStatuses
    <3>2. GitChange(r)
      BY <2>0, <2>4, CommitChange DEF RunCancelled
    <3> QED BY <2>1, <2>4, <3>1, <3>2, RunTypes DEF RunCancelled, RowChange, GitChange, Blocking
  <2>5. CASE RunReaped(r)
    BY <2>0, <2>1, <2>5, RunTypes DEF RunReaped, coreVars, TypeOK
  <2> QED BY <1>4, <2>2, <2>3, <2>4, <2>5 DEF RunStep
<1>5. CASE UNCHANGED vars
  BY <1>5 DEF Types, TypeOK, OnlyMade, TriesLeft, Made, vars, coreVars
<1>6. ASSUME NEW r \in Requests, LateWrite(r) PROVE Types'
  <2>1. /\ r \in 0 .. MaxRequests
        /\ git' = [s \in Slots |-> IF s \in Written(r) THEN r ELSE git[s]]
        /\ floating' = {} /\ overtaken' = overtaken
        /\ UNCHANGED <<coreVars, run, stopped, deaf, killers>>
    BY <1>6 DEF LateWrite, Write, Requests
  <2> QED BY <2>1 DEF Types, TypeOK, OnlyMade, TriesLeft, Made, coreVars
<1> QED BY <1>1, <1>2, <1>3, <1>4, <1>5, <1>6 DEF Next

-------------------------------------------------------------------------------
(***************************************************************************)
(* What the steps of a thread, of a run and of a cancel do, as far as the   *)
(* invariants below depend on it.                                          *)
(***************************************************************************)
\* Nothing but r's own, save a cancel of the request that a 409 has named.
ThreadMoves(r) ==
    /\ UNCHANGED <<started, kind, slot, recall, late, gitVars>>
    /\ \A q \in Requests \ {r} :
          /\ task'[q] = task[q] /\ row'[q] = row[q] /\ victim'[q] = victim[q] /\ run'[q] = run[q]
    /\ task[r] \notin {"new", "done", "raised"}
    /\ task'[r] \in {"check", "prepare"} => task[r] \in {"check", "prepare"}
    /\ task[r] \in {"check", "prepare"} /\ row[r] = "cancelled" => task'[r] = "done"
    /\ task'[r] = "cancelling" => task[r] = "posting" /\ victim'[r] \in Conflicts(r)
    /\ row'[r] = "cancelled" => row[r] = "cancelled"
    /\ run'[r] # run[r] => task[r] = "posting" /\ Conflicts(r) = {}
    /\ run[r] # "none" => run'[r] # "none"
    /\ \A q \in Requests :
          /\ stopped'[q] /\ ~stopped[q] => task[r] = "cancelling" /\ q = victim[r]
          /\ \A k \in killers'[q] :
                k \notin killers[q] => k = r /\ task[r] = "cancelling" /\ q = victim[r]

LEMMA LookMoves ==
    ASSUME Types, NEW r \in Requests, Check(r) \/ Prepare(r) \/ PrepareFails(r) \/ Mark(r)
    PROVE  ThreadMoves(r)
<1>0. TypeOK /\ UNCHANGED <<started, kind, slot, recall, late, run, stopped, deaf, killers, gitVars, victim>>
  BY DEF Types, Check, Prepare, Look, PrepareFails, Mark, builderVars, gitVars
<1>1. CASE Check(r) \/ Prepare(r)
  BY <1>0, <1>1 DEF Check, Prepare, Look, GoOn, ThreadMoves, TypeOK
<1>2. CASE PrepareFails(r)
  <2>1. RowChange(r, {"failed"})
    BY <1>0, <1>2, FailRowChange DEF PrepareFails, GiveUp
  <2> QED BY <1>0, <1>2, <2>1 DEF PrepareFails, GiveUp, GoOn, ThreadMoves, TypeOK, RowChange
<1>3. CASE Mark(r)
  BY <1>0, <1>3 DEF Mark, GoOn, ThreadMoves, TypeOK
<1> QED BY <1>1, <1>2, <1>3

LEMMA SubmitMoves ==
    ASSUME Types, NEW r \in Requests, Accepted(r) \/ AnswerLost(r) \/ Rejected(r) \/ Refused(r)
    PROVE  ThreadMoves(r)
<1>0. /\ TypeOK /\ task[r] = "posting"
      /\ UNCHANGED <<started, kind, slot, recall, late, killers, gitVars, victim>>
  BY DEF Types, Accepted, AnswerLost, Rejected, Refused, builderVars, gitVars
<1>1. RowChange(r, {"failed"}) /\ \E t \in {"posting", "done"} : task' = [task EXCEPT ![r] = t]
  <2>1. CASE Accepted(r)
    BY <1>0, <2>1 DEF Accepted, GoOn, RowChange, TypeOK
  <2>2. CASE AnswerLost(r) \/ Refused(r)
    <3>1. NextAttempt(r)
      BY <2>2 DEF AnswerLost, Refused
    <3> QED BY <1>0, <3>1, AttemptChange
  <2>3. CASE Rejected(r)
    BY <1>0, <2>3, FailRowChange DEF Rejected, GiveUp, GoOn
  <2> QED BY <2>1, <2>2, <2>3
<1>2. UNCHANGED <<run, stopped>> \/ Accept(r)
  BY DEF Accepted, AnswerLost, Rejected, Refused, builderVars, gitVars
<1>3. /\ \A q \in Requests \ {r} : run'[q] = run[q]
      /\ run'[r] # run[r] => Conflicts(r) = {}
      /\ run[r] # "none" => run'[r] # "none"
      /\ \A q \in Requests : stopped'[q] => stopped[q]
  BY <1>0, <1>2 DEF Accept, TypeOK
<1> QED BY <1>0, <1>1, <1>3 DEF ThreadMoves, RowChange, TypeOK

LEMMA CancelMoves ==
    ASSUME Types, NEW r \in Requests, Conflicting(r) \/ CancelOther(r) \/ CancelOtherFails(r)
    PROVE  ThreadMoves(r)
<1>0. TypeOK
  BY DEF Types
<1>1. CASE Conflicting(r)
  BY <1>0, <1>1 DEF Conflicting, GoOn, ThreadMoves, TypeOK, builderVars, gitVars
<1>2. ASSUME Kill(r)
      PROVE  \A q \in Requests :
               /\ stopped'[q] /\ ~stopped[q] => q = victim[r]
               /\ \A k \in killers'[q] : k \notin killers[q] => k = r /\ q = victim[r]
  BY <1>0, <1>2 DEF Kill, TypeOK
<1>3. CASE CancelOther(r)
  <2>1. /\ task[r] = "cancelling" /\ NextAttempt(r) /\ victim' = [victim EXCEPT ![r] = 0] /\ Kill(r)
        /\ UNCHANGED <<started, kind, slot, recall, late, run, deaf, gitVars>>
    BY <1>3 DEF CancelOther
  <2>2. RowChange(r, {"failed"}) /\ \E t \in {"posting", "done"} : task' = [task EXCEPT ![r] = t]
    BY <2>1, AttemptChange
  <2> QED BY <1>0, <1>2, <2>1, <2>2 DEF ThreadMoves, RowChange, TypeOK
<1>4. CASE CancelOtherFails(r)
  <2>1. /\ task[r] = "cancelling" /\ victim' = [victim EXCEPT ![r] = 0]
        /\ Kill(r) \/ UNCHANGED <<stopped, killers>>
        /\ UNCHANGED <<started, kind, slot, recall, late, run, gitVars>>
        /\ RowChange(r, {"failed"}) \/ row' = row
        /\ \E t \in {"done", "raised"} : task' = [task EXCEPT ![r] = t]
    BY <1>0, <1>4, FailRowChange DEF CancelOtherFails, GiveUp, GoOn
  <2>2. \A q \in Requests :
          /\ stopped'[q] /\ ~stopped[q] => q = victim[r]
          /\ \A k \in killers'[q] : k \notin killers[q] => k = r /\ q = victim[r]
    BY <1>2, <2>1
  <2> QED BY <1>0, <2>1, <2>2 DEF ThreadMoves, RowChange, TypeOK
<1> QED BY <1>1, <1>3, <1>4

LEMMA ThreadStep ==
    ASSUME Types, NEW r \in Requests, TaskStep(r)
    PROVE  ThreadMoves(r)
BY LookMoves, SubmitMoves, CancelMoves DEF TaskStep

\* A run tells core what has become of it, and no run blocks that did not before.
RunMoves(r) ==
    /\ UNCHANGED <<started, kind, slot, recall, task, victim, late, stopped, killers>>
    /\ \A q \in Requests \ {r} : row'[q] = row[q] /\ run'[q] = run[q]
    /\ row[r] = "cancelled" => row'[r] = "cancelled"
    /\ row'[r] = "cancelled" => row[r] = "cancelled" \/ stopped[r]
    /\ run[r] # "none" /\ run'[r] # "none"
    /\ Blocking(r)' => Blocking(r)
    /\ GitChange(r)

LEMMA RunStepMoves ==
    ASSUME Types, NEW r \in Requests, RunStep(r)
    PROVE  RunMoves(r)
<1>0. TypeOK
  BY DEF Types
<1>1. CASE RunCommits(r)
  <2>1. RowChange(r, {"applied"} \cup ActiveStatuses \cup (FinalStatuses \ {"cancelled"}))
    BY <1>0, <1>1 DEF RunCommits, Hear, TypeOK, RowChange, ActiveStatuses, FinalStatuses
  <2>2. GitChange(r)
    BY <1>0, <1>1, CommitChange DEF RunCommits
  <2> QED BY <1>0, <1>1, <2>1, <2>2
          DEF RunCommits, RunMoves, RowChange, Blocking, TypeOK, ActiveStatuses, FinalStatuses
<1>2. CASE RunJudged(r)
  <2>1. RowChange(r, {"failed", "running"})
    BY <1>0, <1>2, HearChange DEF RunJudged, RowChange, FinalStatuses
  <2>2. GitChange(r)
    BY <1>0, <1>2, CommitChange DEF RunJudged, MayWrite
  <2> QED BY <1>0, <1>2, <2>1, <2>2 DEF RunJudged, RunMoves, RowChange, Blocking, End, TypeOK
<1>3. CASE RunCancelled(r)
  <2>1. RowChange(r, {"cancelled"})
    BY <1>0, <1>3, HearChange DEF RunCancelled, FinalStatuses
  <2>2. GitChange(r)
    BY <1>0, <1>3, CommitChange DEF RunCancelled
  <2> QED BY <1>0, <1>3, <2>1, <2>2 DEF RunCancelled, RunMoves, RowChange, Blocking, TypeOK
<1>4. CASE RunReaped(r)
  BY <1>0, <1>4 DEF RunReaped, RunMoves, Blocking, TypeOK, coreVars, GitChange, gitVars
<1> QED BY <1>1, <1>2, <1>3, <1>4 DEF RunStep

\* A cancel that core has sent, a PUT that lands late, or nothing at all.
RecallMoves ==
    /\ UNCHANGED <<started, kind, slot, row, task, victim, late, run, killers>>
    /\ UNCHANGED gitVars \/ \E o \in floating : Write(o)
    /\ \A q \in Requests : (recall'[q] => recall[q]) /\ (stopped'[q] => stopped[q] \/ recall[q])

LEMMA StepMoves ==
    ASSUME Types, [Next]_vars
    PROVE  \/ \E k \in Kinds, s \in Slots, first \in {"check", "posting"} : NewRequest(k, s, first)
           \/ \E r \in Requests : ThreadMoves(r) \/ RunMoves(r)
           \/ RecallMoves
<1>0. TypeOK /\ OnlyMade
  BY DEF Types
<1>1. CASE UserStep
  BY <1>0, <1>1, UserFacts
<1>2. CASE \E r \in Requests : TaskStep(r) \/ RunStep(r)
  BY <1>2, ThreadStep, RunStepMoves
<1>3. CASE \E r \in Requests : CancelRemote(r)
  BY <1>0, <1>3 DEF CancelRemote, RecallMoves, TypeOK
<1>4. CASE UNCHANGED vars
  BY <1>4 DEF vars, coreVars, builderVars, RecallMoves
<1>5. CASE \E r \in Requests : LateWrite(r)
  BY <1>5 DEF LateWrite, coreVars, RecallMoves
<1> QED BY <1>1, <1>2, <1>3, <1>4, <1>5 DEF Next

-------------------------------------------------------------------------------
(***************************************************************************)
(* The conjuncts of the invariant, one by one.                             *)
(***************************************************************************)
\* Made requests compete whichever of them is named first, and go on to.
LEMMA CompetingStays ==
    ASSUME Monotone, NEW r \in Made, NEW o \in Made
    PROVE  /\ Competing(r, o)' <=> Competing(r, o)
           /\ Competing(r, o) <=> Competing(o, r)
BY DEF Monotone, Competing, Compete

LEMMA MadeRequests ==
    ASSUME TypeOK
    PROVE  Made \subseteq Requests /\ started \in Nat
BY RequestAssumption DEF TypeOK, Made, Requests

\* A request that is about to cancel another one is newer or late.
LEMMA CancellerIsNewerOrLate ==
    ASSUME RequestInv, NEW r \in Requests, task[r] = "cancelling"
    PROVE  /\ r \in Made /\ victim[r] \in Made \ {r} /\ Competing(r, victim[r])
           /\ r > victim[r] \/ r \in late
<1>1. r \in Made
  BY DEF RequestInv, OnlyMade
<1>2. victim[r] \in Made \ {r} /\ Competing(r, victim[r])
  BY DEF RequestInv, VictimCompetes, Competing, Compete
<1>3. CASE r < victim[r]
  BY <1>1, <1>2, <1>3 DEF RequestInv, OlderIsLate
<1>4. CASE ~(r < victim[r])
  BY <1>1, <1>2, <1>4 DEF RequestInv, TypeOK, Made
<1> QED BY <1>1, <1>2, <1>3, <1>4

LEMMA VictimStep ==
    ASSUME RequestInv, Monotone, [Next]_vars
    PROVE  VictimCompetes'
<1> USE DEF RequestInv
<1> SUFFICES ASSUME NEW q \in Requests, task'[q] = "cancelling"
             PROVE  victim'[q] \in Made' \ {q} /\ Competing(victim[q], q)' 
  BY DEF VictimCompetes, Competing
<1>0. Types
  BY DEF Types
<1>1. CASE task[q] = "cancelling" /\ victim'[q] = victim[q]
  <2>1. q \in Made /\ victim[q] \in Made \ {q} /\ Competing(victim[q], q)
    BY <1>1 DEF OnlyMade, VictimCompetes
  <2> QED BY <1>1, <2>1 DEF Monotone, Competing
<1>2. CASE task[q] # "cancelling" \/ victim'[q] # victim[q]
  <2>1. ThreadMoves(q)
    <3>1. ASSUME NEW k \in Kinds, NEW s \in Slots, NEW first \in {"check", "posting"},
                 NewRequest(k, s, first)
          PROVE  FALSE
      <4>1. task' = [task EXCEPT ![started + 1] = first] /\ victim' = victim
        BY <3>1 DEF NewRequest, NewTask
      <4> QED BY <1>2, <4>1 DEF TypeOK
    <3>2. ASSUME NEW r \in Requests, ThreadMoves(r) \/ RunMoves(r)
          PROVE  ThreadMoves(q)
      BY <1>2, <3>2 DEF ThreadMoves, RunMoves
    <3>3. CASE RecallMoves
      BY <1>2, <3>3 DEF RecallMoves
    <3> QED BY <1>0, <3>1, <3>2, <3>3, StepMoves
  <2>2. victim'[q] \in Conflicts(q)
    BY <2>1 DEF ThreadMoves
  <2>3. q \in Made /\ victim'[q] \in Made \ {q}
    BY <2>1, <2>2 DEF ThreadMoves, OnlyMade, Conflicts, Blocking
  <2>4. Compete(kind[victim'[q]], slot[victim'[q]], kind[q], slot[q])
    BY <2>2 DEF Conflicts
  <2> QED BY <2>3, <2>4 DEF Monotone, Competing
<1> QED BY <1>1, <1>2

LEMMA OlderStep ==
    ASSUME RequestInv, Monotone, [Next]_vars
    PROVE  OlderIsLate'
<1> USE DEF RequestInv
<1> SUFFICES ASSUME NEW r \in Made', NEW n \in Made', r < n, Competing(r, n)'
             PROVE  \/ r \in late'
                    \/ task'[r] = "done"
                    \/ task'[r] \in {"check", "prepare"} /\ row'[r] = "cancelled"
  BY DEF OlderIsLate
<1>0. Types /\ Types'
  BY TypesStep DEF Types
<1>9. Made' \subseteq Requests
  BY <1>0, RequestAssumption DEF Types, TypeOK, Made, Requests
<1>1. ASSUME NEW k \in Kinds, NEW s \in Slots, NEW first \in {"check", "posting"},
             NewRequest(k, s, first)
      PROVE  \/ r \in late'
             \/ task'[r] = "done"
             \/ task'[r] \in {"check", "prepare"} /\ row'[r] = "cancelled"
  <2>1. started' = started + 1 /\ started \in Nat
    BY <1>1 DEF NewRequest, NewTask, TypeOK
  <2>2. r \in Made /\ r \in Requests
    <3>1. r \in Made
      BY <2>1 DEF Made
    <3> QED BY <3>1, MadeRequests
  <2>3. task'[r] = task[r] /\ kind'[r] = kind[r] /\ slot'[r] = slot[r]
    BY <1>1, <2>1, <2>2 DEF NewRequest, NewTask, Made, TypeOK
  <2>4. row[r] = "cancelled" => row'[r] = "cancelled"
    BY <1>1, <2>1, <2>2 DEF NewRequest, Made
  <2>5. CASE n = started + 1
    <3>1. kind'[n] = k /\ slot'[n] = s
      <4>1. n \in Requests
        BY <1>9
      <4> QED BY <1>1, <2>5, <4>1 DEF NewRequest, NewTask, TypeOK
    <3>2. Compete(k, s, kind[r], slot[r])
      BY <2>3, <3>1 DEF Competing, Compete
    <3>3. late' = late \cup Missed(k, s)
      BY <1>1 DEF NewRequest, NewTask
    <3> QED BY <2>2, <2>3, <3>2, <3>3 DEF Missed
  <2>6. CASE n # started + 1
    <3>1. n \in Made
      BY <2>1, <2>6 DEF Made
    <3>2. Competing(r, n)
      BY <2>2, <3>1, CompetingStays
    <3> QED BY <2>2, <2>3, <2>4, <3>1, <3>2 DEF OlderIsLate, Monotone
  <2> QED BY <2>5, <2>6
<1>2. ASSUME UNCHANGED <<started, kind, slot, late>>
      PROVE  /\ r \in Made /\ r \in Requests
             /\ \/ r \in late
                \/ task[r] = "done"
                \/ task[r] \in {"check", "prepare"} /\ row[r] = "cancelled"
  <2>1. r \in Made /\ n \in Made
    BY <1>2 DEF Made
  <2>2. Competing(r, n)
    BY <2>1, CompetingStays
  <2> QED BY <2>1, <2>2, MadeRequests DEF OlderIsLate
<1>3. ASSUME NEW q \in Requests, ThreadMoves(q) \/ RunMoves(q)
      PROVE  \/ r \in late'
             \/ task'[r] = "done"
             \/ task'[r] \in {"check", "prepare"} /\ row'[r] = "cancelled"
  BY <1>2, <1>3 DEF ThreadMoves, RunMoves
<1>4. CASE RecallMoves
  BY <1>2, <1>4 DEF RecallMoves
<1> QED BY <1>0, <1>1, <1>3, <1>4, StepMoves

LEMMA WorkingStep ==
    ASSUME RequestInv, Monotone, [Next]_vars
    PROVE  WorkingOlderIsLate'
<1> USE DEF RequestInv
<1> SUFFICES ASSUME NEW r \in Made', NEW n \in Made', r < n, Competing(r, n)',
                    Blocking(r)', run'[n] # "none"
             PROVE  r \in late'
  BY DEF WorkingOlderIsLate
<1>0. Types /\ Types'
  BY TypesStep DEF Types
<1>1. /\ Made' \subseteq Requests
      /\ n \in Made /\ r \in Made => Competing(r, n)
  <2>1. Made' \subseteq Requests
    BY <1>0, RequestAssumption DEF Types, TypeOK, Made, Requests
  <2> QED BY <2>1, CompetingStays
<1>2. ASSUME NEW k \in Kinds, NEW s \in Slots, NEW first \in {"check", "posting"},
             NewRequest(k, s, first)
      PROVE  r \in late'
  <2>1. run' = run /\ started' = started + 1 /\ started \in Nat
    BY <1>2 DEF NewRequest, NewTask, builderVars, gitVars, TypeOK
  <2>2. n \in Made
    <3>1. n \in Requests /\ run[n] # "none"
      BY <1>1, <2>1
    <3> QED BY <3>1 DEF OnlyMade
  <2>3. r \in Made
    BY <2>1, <2>2 DEF Made
  <2>4. Competing(r, n) /\ Blocking(r)
    BY <1>1, <2>1, <2>2, <2>3 DEF Blocking
  <2> QED BY <2>1, <2>2, <2>3, <2>4 DEF WorkingOlderIsLate, Monotone
<1>3. ASSUME NEW q \in Requests, ThreadMoves(q) PROVE r \in late'
  <2>1. r \in Made /\ n \in Made /\ r \in Requests /\ n \in Requests /\ late' = late
    BY <1>3, MadeRequests DEF ThreadMoves, Made
  <2>2. Competing(r, n)
    BY <1>1, <2>1
  <2>3. CASE run'[r] = run[r] /\ run'[n] = run[n]
    BY <2>1, <2>2, <2>3 DEF WorkingOlderIsLate, Blocking
  <2>4. CASE run'[r] # run[r]
    <3>1. q = r /\ task[r] = "posting"
      BY <1>3, <2>1, <2>4 DEF ThreadMoves
    <3> QED BY <2>1, <2>2, <3>1 DEF OlderIsLate
  <2>5. CASE run'[r] = run[r] /\ run'[n] # run[n]
    <3>1. q = n /\ Conflicts(n) = {}
      BY <1>3, <2>1, <2>5 DEF ThreadMoves
    <3>2. r \in Conflicts(n)
      BY <2>1, <2>2, <2>5 DEF Conflicts, Blocking, Competing
    <3> QED BY <3>1, <3>2
  <2> QED BY <2>3, <2>4, <2>5
<1>4. ASSUME NEW q \in Requests, RunMoves(q) PROVE r \in late'
  <2>1. r \in Made /\ n \in Made /\ r \in Requests /\ n \in Requests /\ late' = late
    BY <1>4, MadeRequests DEF RunMoves, Made
  <2>2. Blocking(r) /\ run[n] # "none"
    BY <1>4, <2>1 DEF RunMoves, Blocking
  <2> QED BY <1>1, <2>1, <2>2 DEF WorkingOlderIsLate
<1>5. CASE RecallMoves
  BY <1>1, <1>5 DEF RecallMoves, WorkingOlderIsLate, Blocking, Made
<1> QED BY <1>0, <1>2, <1>3, <1>4, <1>5, StepMoves

LEMMA GitStep ==
    ASSUME RequestInv, Monotone, [Next]_vars
    PROVE  GitOfRun'
<1> USE DEF RequestInv
<1>0. Types /\ Made \subseteq Requests
  BY MadeRequests DEF Types
<1>1. ASSUME NEW g \in Made PROVE Written(g)' = Written(g)
  BY DEF Monotone, Written
<1>2. ASSUME NEW k \in Kinds, NEW s \in Slots, NEW first \in {"check", "posting"},
             NewRequest(k, s, first)
      PROVE  GitOfRun'
  <2>1. run' = run /\ git' = git
    BY <1>2 DEF NewRequest, NewTask, builderVars, gitVars
  <2> QED BY <1>1, <2>1 DEF GitOfRun, Monotone
<1>3. ASSUME NEW q \in Requests, ThreadMoves(q) PROVE GitOfRun'
  <2>1. git' = git
    BY <1>3 DEF ThreadMoves, gitVars
  <2>2. \A g \in Made : run[g] # "none" => run'[g] # "none"
    BY <1>0, <1>3 DEF ThreadMoves
  <2> QED BY <1>1, <2>1, <2>2 DEF GitOfRun, Monotone
<1>4. ASSUME NEW q \in Requests, RunMoves(q) PROVE GitOfRun'
  <2>1. \A g \in Made : run[g] # "none" => run'[g] # "none"
    BY <1>0, <1>4 DEF RunMoves
  <2>2. q \in Made /\ run'[q] # "none"
    BY <1>4 DEF RunMoves, OnlyMade
  <2>3. \A s \in Slots : git'[s] # git[s] => git'[s] = q /\ s \in Written(q)
    BY <1>4 DEF RunMoves, GitChange
  <2> QED BY <1>1, <2>1, <2>2, <2>3 DEF GitOfRun, Monotone
<1>5. CASE RecallMoves
  <2>1. run' = run
    BY <1>5 DEF RecallMoves
  <2>2. CASE UNCHANGED gitVars
    BY <1>1, <2>1, <2>2 DEF GitOfRun, Monotone, gitVars
  <2>3. CASE \E o \in floating : Write(o)
    <3>1. PICK o \in floating : Write(o)
      BY <2>3
    <3>2. o \in Made /\ run[o] # "none"
      BY DEF FloatingIsOld
    <3>3. \A s \in Slots : git'[s] = IF s \in Written(o) THEN o ELSE git[s]
      BY <3>1 DEF Write
    <3> QED BY <1>1, <2>1, <3>2, <3>3 DEF GitOfRun, Monotone
  <2> QED BY <1>5, <2>2, <2>3 DEF RecallMoves
<1> QED BY <1>0, <1>2, <1>3, <1>4, <1>5, StepMoves

\* A run that works finds newer values in its slots only if it is late.
LEMMA WorkingIsNewest ==
    ASSUME RequestInv, NEW q \in Requests, run[q] = "working", NEW s \in Slots, s \in Written(q)
    PROVE  git[s] <= q \/ q \in late
<1> USE DEF RequestInv
<1>1. q \in Made /\ q \in Nat
  BY DEF OnlyMade, Made
<1>2. CASE git[s] = 0
  BY <1>1, <1>2
<1>3. CASE git[s] # 0
  <2>1. git[s] \in Made /\ run[git[s]] # "none" /\ s \in Written(git[s])
    BY <1>3 DEF GitOfRun
  <2>2. Competing(q, git[s])
    BY <2>1 DEF Written, Competing, Compete
  <2>3. q < git[s] => q \in late
    BY <1>1, <2>1, <2>2 DEF WorkingOlderIsLate, Blocking
  <2>4. git[s] \in Nat
    BY <2>1 DEF Made
  <2> QED BY <1>1, <2>3, <2>4
<1> QED BY <1>2, <1>3

LEMMA FloatingStep ==
    ASSUME RequestInv, Monotone, [Next]_vars
    PROVE  FloatingIsOld'
<1> USE DEF RequestInv
<1>0. Types /\ Made \subseteq Requests
  BY MadeRequests DEF Types
<1>1. ASSUME NEW g \in Made PROVE Written(g)' = Written(g)
  BY DEF Monotone, Written
<1>2. ASSUME UNCHANGED gitVars, \A g \in Made : run[g] # "none" => run'[g] # "none"
      PROVE  FloatingIsOld'
  BY <1>1, <1>2 DEF FloatingIsOld, Monotone, gitVars
<1>3. ASSUME NEW k \in Kinds, NEW s \in Slots, NEW first \in {"check", "posting"},
             NewRequest(k, s, first)
      PROVE  FloatingIsOld'
  BY <1>2, <1>3 DEF NewRequest, NewTask, builderVars
<1>4. ASSUME NEW q \in Requests, ThreadMoves(q) PROVE FloatingIsOld'
  <2>1. \A g \in Made : run[g] # "none" => run'[g] # "none"
    BY <1>0, <1>4 DEF ThreadMoves
  <2> QED BY <1>2, <1>4, <2>1 DEF ThreadMoves
<1>5. ASSUME NEW q \in Requests, RunMoves(q) PROVE FloatingIsOld'
  <2> SUFFICES ASSUME NEW o \in floating'
               PROVE  /\ o \in Made' /\ run'[o] # "none"
                      /\ \/ o \in late' \cup overtaken'
                         \/ \A s \in Slots : s \in Written(o)' => git'[s] <= o
    BY DEF FloatingIsOld
  <2>1. /\ \A g \in Made : run[g] # "none" => run'[g] # "none"
        /\ GitChange(q) /\ q \in Made /\ late' = late
    BY <1>0, <1>5 DEF RunMoves, OnlyMade
  <2>2. CASE o = q /\ run[q] = "working" /\ git' = git
    <3>1. \A s \in Slots : s \in Written(q) => git[s] <= q \/ q \in late
      BY <2>2, WorkingIsNewest
    <3> QED BY <1>1, <2>1, <2>2, <3>1 DEF Monotone
  <2>3. CASE o \in floating /\ o \in overtaken'
    BY <2>1, <2>3 DEF FloatingIsOld, Monotone
  <2>4. CASE /\ o \in floating
             /\ \A s \in Slots : s \in Written(o) => git'[s] = git[s] \/ git'[s] <= o
    <3>1. /\ o \in Made /\ run[o] # "none"
          /\ o \in late \cup overtaken \/ \A s \in Slots : s \in Written(o) => git[s] <= o
      BY <2>4 DEF FloatingIsOld
    <3>2. overtaken \subseteq overtaken'
      BY <2>1 DEF GitChange
    <3> QED BY <1>1, <2>1, <2>4, <3>1, <3>2 DEF Monotone
  <2> QED BY <2>1, <2>2, <2>3, <2>4 DEF GitChange
<1>6. CASE RecallMoves
  <2>1. CASE UNCHANGED gitVars
    BY <1>2, <1>6, <2>1 DEF RecallMoves
  <2>2. CASE \E o \in floating : Write(o)
    BY <2>2 DEF Write, FloatingIsOld
  <2> QED BY <1>6, <2>1, <2>2 DEF RecallMoves
<1> QED BY <1>0, <1>3, <1>4, <1>5, <1>6, StepMoves

LEMMA CancelStep ==
    ASSUME RequestInv, Monotone, [Next]_vars
    PROVE  CancelHasReason'
<1> USE DEF RequestInv
<1>0. Types /\ Made \subseteq Requests /\ started \in Nat
  BY MadeRequests DEF Types
<1>1. ASSUME NEW r \in Made, Replaced(r) PROVE Replaced(r)'
  <2>1. PICK n \in Made \ {r} : (n > r \/ n \in late) /\ Competing(n, r)
    BY <1>1 DEF Replaced
  <2>2. n \in Made' \ {r} /\ Competing(n, r)'
    BY <2>1, CompetingStays DEF Monotone
  <2> QED BY <2>1, <2>2 DEF Replaced, Monotone
<1>2. ASSUME NEW k \in Kinds, NEW s \in Slots, NEW first \in {"check", "posting"},
             NewRequest(k, s, first)
      PROVE  CancelHasReason'
  <2> SUFFICES ASSUME NEW r \in Made', row'[r] = "cancelled" \/ recall'[r] \/ stopped'[r]
               PROVE  Replaced(r)'
    BY DEF CancelHasReason
  <2>1. /\ started' = started + 1 /\ stopped' = stopped /\ started + 1 \in Requests
        /\ kind'[started + 1] = k /\ slot'[started + 1] = s
    <3>1. started + 1 \in Requests
      BY <1>0, <1>2, RequestAssumption DEF NewRequest, NewTask, Requests
    <3> QED BY <1>2, <3>1 DEF NewRequest, NewTask, builderVars, gitVars, TypeOK
  <2>2. r \in Requests /\ (r \in Made \/ r = started + 1)
    BY <1>0, <2>1 DEF Made, Requests
  <2>3. CASE r \in Stale(s)
    <3>1. r \in Made /\ slot'[r] = s
      BY <2>3 DEF Stale, Monotone
    <3>2. started + 1 \in Made' \ {r} /\ started + 1 > r
      BY <1>0, <2>1, <3>1 DEF Made
    <3> QED BY <2>1, <3>1, <3>2 DEF Replaced, Competing, Compete
  <2>4. CASE r = started + 1
    <3>1. started + 1 \notin Made
      BY <1>0 DEF Made
    <3>2. ~recall[r] /\ ~stopped[r] /\ r \notin Stale(s)
      BY <2>2, <2>4, <3>1 DEF OnlyMade, Stale
    <3> QED BY <1>2, <2>1, <2>2, <2>4, <3>2 DEF NewRequest
  <2>5. CASE r \notin Stale(s) /\ r # started + 1
    <3>1. row'[r] = row[r] /\ recall'[r] = recall[r]
      BY <1>2, <2>2, <2>5 DEF NewRequest
    <3> QED BY <1>1, <2>1, <2>2, <2>5, <3>1 DEF CancelHasReason
  <2> QED BY <2>3, <2>4, <2>5
<1>3. ASSUME NEW q \in Requests, ThreadMoves(q) PROVE CancelHasReason'
  <2> SUFFICES ASSUME NEW r \in Made', row'[r] = "cancelled" \/ recall'[r] \/ stopped'[r]
               PROVE  Replaced(r)'
    BY DEF CancelHasReason
  <2>1. r \in Made /\ r \in Requests /\ recall' = recall
    BY <1>0, <1>3 DEF ThreadMoves, Made
  <2>2. row'[r] = "cancelled" => row[r] = "cancelled"
    BY <1>3, <2>1 DEF ThreadMoves
  <2>3. CASE stopped'[r] /\ ~stopped[r]
    <3>1. task[q] = "cancelling" /\ r = victim[q]
      BY <1>3, <2>1, <2>3 DEF ThreadMoves
    <3>2. q \in Made \ {r} /\ (q > r \/ q \in late) /\ Competing(q, r)
      BY <3>1, CancellerIsNewerOrLate
    <3>3. Replaced(r)
      BY <3>2 DEF Replaced
    <3> QED BY <1>1, <2>1, <3>3
  <2>4. CASE ~(stopped'[r] /\ ~stopped[r])
    BY <1>1, <2>1, <2>2, <2>4 DEF CancelHasReason
  <2> QED BY <2>3, <2>4
<1>4. ASSUME NEW q \in Requests, RunMoves(q) PROVE CancelHasReason'
  <2> SUFFICES ASSUME NEW r \in Made', row'[r] = "cancelled" \/ recall'[r] \/ stopped'[r]
               PROVE  Replaced(r)'
    BY DEF CancelHasReason
  <2>1. r \in Made /\ r \in Requests /\ recall' = recall /\ stopped' = stopped
    BY <1>0, <1>4 DEF RunMoves, Made
  <2>2. row'[r] = "cancelled" => row[r] = "cancelled" \/ stopped[r]
    BY <1>4, <2>1 DEF RunMoves
  <2> QED BY <1>1, <2>1, <2>2 DEF CancelHasReason
<1>5. CASE RecallMoves
  <2> SUFFICES ASSUME NEW r \in Made', row'[r] = "cancelled" \/ recall'[r] \/ stopped'[r]
               PROVE  Replaced(r)'
    BY DEF CancelHasReason
  <2>1. r \in Made /\ r \in Requests /\ row' = row
    BY <1>0, <1>5 DEF RecallMoves, Made
  <2>2. recall[r] \/ stopped[r] \/ row[r] = "cancelled"
    BY <1>5, <2>1 DEF RecallMoves
  <2> QED BY <1>1, <2>1, <2>2 DEF CancelHasReason
<1> QED BY <1>0, <1>2, <1>3, <1>4, <1>5, StepMoves

LEMMA KillersStep ==
    ASSUME RequestInv, Monotone, [Next]_vars
    PROVE  OnlyNewerCancels'
<1> USE DEF RequestInv
<1>0. Types
  BY DEF Types
<1>1. ASSUME killers' = killers PROVE OnlyNewerCancels'
  BY <1>1 DEF OnlyNewerCancels, Monotone
<1>2. ASSUME NEW q \in Requests, ThreadMoves(q) PROVE OnlyNewerCancels'
  <2> SUFFICES ASSUME NEW r \in Requests, NEW k \in killers'[r]
               PROVE  k > r \/ k \in late'
    BY DEF OnlyNewerCancels
  <2>1. CASE k \in killers[r]
    BY <2>1 DEF OnlyNewerCancels, Monotone
  <2>2. CASE k \notin killers[r]
    <3>1. k = q /\ task[q] = "cancelling" /\ r = victim[q]
      BY <1>2, <2>2 DEF ThreadMoves
    <3> QED BY <3>1, CancellerIsNewerOrLate DEF Monotone
  <2> QED BY <2>1, <2>2
<1>3. \/ killers' = killers
      \/ \E q \in Requests : ThreadMoves(q)
  <2>1. ASSUME NEW k \in Kinds, NEW s \in Slots, NEW first \in {"check", "posting"},
               NewRequest(k, s, first)
        PROVE  killers' = killers
    BY <2>1 DEF NewRequest, NewTask, builderVars, gitVars
  <2> QED BY <1>0, <2>1, StepMoves DEF RunMoves, RecallMoves
<1> QED BY <1>1, <1>2, <1>3

-------------------------------------------------------------------------------
(***************************************************************************)
(* The theorems.                                                           *)
(***************************************************************************)
LEMMA InitRequests == Init => RequestInv
<1> SUFFICES ASSUME Init PROVE RequestInv
  OBVIOUS
<1>1. Made = {}
  BY DEF Init, Made
<1>2. VictimCompetes /\ OnlyNewerCancels /\ GitOfRun /\ FloatingIsOld
  BY DEF Init, VictimCompetes, OnlyNewerCancels, GitOfRun, FloatingIsOld
<1>3. OlderIsLate /\ WorkingOlderIsLate /\ CancelHasReason
  BY <1>1 DEF OlderIsLate, WorkingOlderIsLate, CancelHasReason
<1> QED BY <1>2, <1>3, InitTypes DEF RequestInv, Types

LEMMA StepRequests == RequestInv /\ [Next]_vars => RequestInv'
<1> SUFFICES ASSUME RequestInv, [Next]_vars PROVE RequestInv'
  OBVIOUS
<1>1. Types /\ Monotone
  BY MonotoneStep DEF RequestInv, Types
<1>2. TypeOK' /\ OnlyMade' /\ TriesLeft'
  BY <1>1, TypesStep DEF Types
<1> QED BY <1>1, <1>2, VictimStep, OlderStep, WorkingStep, GitStep, FloatingStep, CancelStep,
        KillersStep
        DEF RequestInv

LEMMA RequestsAlways == Spec => []RequestInv
BY InitRequests, StepRequests, PTL DEF Spec

\* The variables keep their types, whatever threads, cancels and runs do.
THEOREM TypeCorrect == Spec => []TypeOK
<1>1. RequestInv => TypeOK
  BY DEF RequestInv
<1> QED BY <1>1, RequestsAlways, PTL

\* Through a 409 of the builder (client.submit) only a newer request cancels
\* another one, or one that was past its last look at its row.
THEOREM CancelsAreNewer == Spec => []OnlyNewerCancels
<1>1. RequestInv => OnlyNewerCancels
  BY DEF RequestInv
<1> QED BY <1>1, RequestsAlways, PTL

\* A row is cancelled (_cancel_stale_builds, or the event of its run) only when
\* there is a competing request that is newer or late.
THEOREM CancelsReplace == Spec => []CancelledIsReplaced
<1>1. RequestInv => CancelledIsReplaced
  BY DEF RequestInv, CancelHasReason, CancelledIsReplaced, Replaced, Competing
<1> QED BY <1>1, RequestsAlways, PTL

LEMMA GitMoves ==
    ASSUME RequestInv, [Next]_vars
    PROVE  [\A s \in Slots : git'[s] >= git[s] \/ git'[s] \in late \cup overtaken]_git
<1> USE DEF RequestInv
<1>0. Types /\ Made \subseteq Requests
  BY MadeRequests DEF Types
<1>1. ASSUME NEW q \in Requests, RunMoves(q), NEW s \in Slots
      PROVE  git'[s] >= git[s] \/ git'[s] \in late
  <2>1. CASE git'[s] = git[s]
    BY <2>1 DEF TypeOK
  <2>2. CASE git'[s] # git[s]
    <3>1. git'[s] = q /\ s \in Written(q) /\ run[q] = "working"
      BY <1>1, <2>2 DEF RunMoves, GitChange
    <3>2. git[s] <= q \/ q \in late
      BY <3>1, WorkingIsNewest
    <3>3. q \in Nat /\ git[s] \in Nat
      BY RequestAssumption DEF Requests, TypeOK
    <3> QED BY <3>1, <3>2, <3>3
  <2> QED BY <2>1, <2>2
<1>2. ASSUME NEW o \in floating, Write(o), NEW s \in Slots
      PROVE  git'[s] >= git[s] \/ git'[s] \in late \cup overtaken
  <2>1. git'[s] = IF s \in Written(o) THEN o ELSE git[s]
    BY <1>2 DEF Write
  <2>2. o \in Nat /\ git[s] \in Nat
    BY RequestAssumption DEF TypeOK, Requests
  <2>3. o \in late \cup overtaken \/ (s \in Written(o) => git[s] <= o)
    BY DEF FloatingIsOld
  <2> QED BY <2>1, <2>2, <2>3
<1>3. \/ git' = git
      \/ \E q \in Requests : RunMoves(q)
      \/ \E o \in floating : Write(o)
  <2>1. ASSUME NEW k \in Kinds, NEW s \in Slots, NEW first \in {"check", "posting"},
               NewRequest(k, s, first)
        PROVE  git' = git
    BY <2>1 DEF NewRequest, NewTask, builderVars, gitVars
  <2> QED BY <1>0, <2>1, StepMoves DEF ThreadMoves, RecallMoves, gitVars
<1> QED BY <1>1, <1>2, <1>3

\* The values of a slot in git go back to those of an older request only when
\* that one was past its last look when the newer one was made, or had given up
\* on a PUT that GitHub makes after the newer one found its values there.
THEOREM NewestStays == Spec => NewestWins
<1>1. RequestInv /\ [Next]_vars =>
        [\A s \in Slots : git'[s] >= git[s] \/ git'[s] \in late \cup overtaken]_git
  BY GitMoves
<1> QED BY <1>1, RequestsAlways, PTL DEF Spec, NewestWins

-------------------------------------------------------------------------------
(***************************************************************************)
(* Every row gets its verdict.  A row that waits belongs to a thread that   *)
(* has not ended or to a run that has not been judged; a run whose events   *)
(* core takes for old ones (deaf) is the second of a request whose first    *)
(* one has been judged, so nothing waits for what it would tell.            *)
(***************************************************************************)
RowSettled(r) == row[r] \in FinalStatuses \cup {"none"}

RowFits(r) ==
    /\ task[r] \in {"new", "check", "prepare", "mark"} => run[r] = "none"
    /\ r \in deaf => run[r] # "none" /\ RowSettled(r)
    /\ run[r] \in {"reaping", "over"} => RowSettled(r)
    /\ task[r] = "done" => RowSettled(r) \/ Blocking(r)

RowInv == \A r \in Requests : RowFits(r)

\* A thread of r and a run of r leave the other requests as they are.
LeavesOthers(r) ==
    \A q \in Requests \ {r} :
        /\ task'[q] = task[q] /\ row'[q] = row[q] /\ run'[q] = run[q]
        /\ q \in deaf' => q \in deaf

LEMMA OthersFit ==
    ASSUME RowInv, NEW r \in Requests, LeavesOthers(r), RowFits(r)'
    PROVE  RowInv'
BY DEF RowInv, RowFits, RowSettled, Blocking, LeavesOthers

\* _fail leaves a settled row.
LEMMA FailSettles ==
    ASSUME TypeOK, NEW r \in Requests, FailRow(r)
    PROVE  RowSettled(r)' /\ \A q \in Requests \ {r} : row'[q] = row[q]
BY DEF TypeOK, FailRow, RowSettled, FinalStatuses

\* Another attempt, or a settled row.
LEMMA AttemptSettles ==
    ASSUME TypeOK, NEW r \in Requests, NextAttempt(r)
    PROVE  /\ \/ task'[r] = "posting" /\ row' = row
              \/ task'[r] = "done" /\ RowSettled(r)'
           /\ \A q \in Requests \ {r} : task'[q] = task[q] /\ row'[q] = row[q]
<1>1. CASE tries[r] + 1 < MaxAttempts
  BY <1>1 DEF NextAttempt, GoOn, TypeOK
<1>2. CASE ~(tries[r] + 1 < MaxAttempts)
  BY <1>2, FailSettles DEF NextAttempt, GiveUp, GoOn, TypeOK
<1> QED BY <1>1, <1>2

\* An accepted run: the second one of a request is deaf, and its row settled.
LEMMA AcceptFits ==
    ASSUME TypeOK, NEW r \in Requests, RowFits(r), Accept(r)
    PROVE  /\ run'[r] = "working"
           /\ r \in deaf' => RowSettled(r)
           /\ \A q \in Requests \ {r} : run'[q] = run[q] /\ (q \in deaf' => q \in deaf)
BY DEF TypeOK, Accept, RowFits

LEMMA UserFits ==
    ASSUME Types, RowInv, UserStep
    PROVE  RowInv'
<1> SUFFICES ASSUME NEW r \in Requests PROVE RowFits(r)'
  BY DEF RowInv
<1>1. PICK k \in Kinds, s \in Slots, first \in {"check", "posting"} : NewRequest(k, s, first)
  BY UserFacts DEF Types
<1>2. UNCHANGED <<run, deaf>> /\ task' = [task EXCEPT ![started + 1] = first]
  BY <1>1 DEF NewRequest, NewTask, builderVars, gitVars
<1>3. RowFits(r) /\ TypeOK /\ started \in Nat
  BY MadeRequests DEF Types, RowInv
<1>4. CASE r = started + 1
  <2>1. r \notin Made
    BY <1>3, <1>4 DEF Made
  <2>2. run[r] = "none" /\ r \notin deaf
    BY <1>3, <2>1 DEF Types, OnlyMade, RowFits
  <2>3. task'[r] \in {"check", "posting"}
    BY <1>2, <1>3, <1>4 DEF TypeOK
  <2> QED BY <1>2, <2>2, <2>3 DEF RowFits
<1>5. CASE r # started + 1
  <2>1. task'[r] = task[r]
    BY <1>2, <1>3, <1>5 DEF TypeOK
  <2>2. row'[r] = row[r] \/ row'[r] = "cancelled"
    BY <1>1, <1>5 DEF NewRequest
  <2> QED BY <1>2, <1>3, <2>1, <2>2 DEF RowFits, RowSettled, Blocking, FinalStatuses
<1> QED BY <1>4, <1>5

LEMMA ThreadFits ==
    ASSUME Types, RowInv, NEW r \in Requests, TaskStep(r)
    PROVE  RowInv'
<1>0. TypeOK /\ RowFits(r)
  BY DEF Types, RowInv
<1> USE <1>0 DEF GoOn, builderVars, gitVars
<1> SUFFICES RowFits(r)' /\ LeavesOthers(r)
  BY OthersFit
<1>1. CASE Check(r) \/ Prepare(r)
  BY <1>1 DEF Check, Prepare, Look, TypeOK, RowFits, RowSettled, Blocking, LeavesOthers, FinalStatuses
<1>2. CASE PrepareFails(r)
  BY <1>2, FailSettles DEF PrepareFails, GiveUp, TypeOK, RowFits, LeavesOthers
<1>3. CASE Mark(r)
  BY <1>3 DEF Mark, TypeOK, RowFits, LeavesOthers
<1>4. CASE Accepted(r)
  <2>1. /\ task'[r] = "done" /\ row' = row
        /\ \A q \in Requests \ {r} : task'[q] = task[q]
    BY <1>4 DEF Accepted, TypeOK
  <2>2. CASE InManager(r)
    <3>1. UNCHANGED <<run, deaf>>
      BY <1>4, <2>2 DEF Accepted
    <3> QED BY <2>1, <2>2, <3>1 DEF RowFits, RowSettled, Blocking, InManager, LeavesOthers
  <2>3. CASE ~InManager(r)
    <3>1. Accept(r)
      BY <1>4, <2>3 DEF Accepted
    <3> QED BY <2>1, <3>1, AcceptFits DEF RowFits, RowSettled, Blocking, LeavesOthers
  <2> QED BY <2>2, <2>3
<1>5. CASE AnswerLost(r)
  BY <1>5, AcceptFits, AttemptSettles DEF AnswerLost, RowFits, RowSettled, Blocking, LeavesOthers
<1>6. CASE Rejected(r)
  <2>1. /\ task'[r] = "done" /\ UNCHANGED <<run, deaf>> /\ FailRow(r)
        /\ \A q \in Requests \ {r} : task'[q] = task[q]
    BY <1>6 DEF Rejected, GiveUp, TypeOK
  <2> QED BY <2>1, FailSettles DEF RowFits, LeavesOthers
<1>7. CASE Refused(r) \/ CancelOther(r)
  <2>1. NextAttempt(r) /\ UNCHANGED <<run, deaf>>
    BY <1>7 DEF Refused, CancelOther
  <2> QED BY <2>1, AttemptSettles DEF RowFits, RowSettled, LeavesOthers
<1>8. CASE Conflicting(r)
  BY <1>8 DEF Conflicting, TypeOK, RowFits, RowSettled, LeavesOthers
<1>9. CASE CancelOtherFails(r)
  <2>1. UNCHANGED <<run, deaf>> /\ \A q \in Requests \ {r} : task'[q] = task[q]
    BY <1>9 DEF CancelOtherFails, GiveUp, TypeOK
  <2>2. CASE GiveUp(r)
    BY <2>1, <2>2, FailSettles DEF GiveUp, TypeOK, RowFits, LeavesOthers
  <2>3. CASE GoOn(r, "raised") /\ row' = row
    BY <2>1, <2>3 DEF TypeOK, RowFits, RowSettled, LeavesOthers
  <2> QED BY <1>9, <2>2, <2>3 DEF CancelOtherFails
<1> QED
  BY <1>1, <1>2, <1>3, <1>4, <1>5, <1>6, <1>7, <1>8, <1>9 DEF TaskStep

\* A verdict that core hears settles the row, and one that it does not hear
\* finds it settled.
LEMMA HearSettles ==
    ASSUME TypeOK, NEW r \in Requests, RowFits(r), NEW status \in FinalStatuses, Hear(r, status)
    PROVE  /\ RowSettled(r)'
           /\ \A q \in Requests \ {r} : row'[q] = row[q] /\ (q \in deaf' => q \in deaf)
BY DEF TypeOK, Hear, RowFits, RowSettled, FinalStatuses

LEMMA RunFits ==
    ASSUME Types, RowInv, NEW r \in Requests, RunStep(r)
    PROVE  RowInv'
<1>0. TypeOK /\ RowFits(r)
  BY DEF Types, RowInv
<1> USE <1>0
<1> SUFFICES RowFits(r)' /\ LeavesOthers(r)
  BY OthersFit
<1>1. CASE RunCommits(r)
  <2>1. /\ run[r] = "working" /\ run' = [run EXCEPT ![r] = "committed"] /\ task' = task
        /\ \E status \in {"deploying", row[r]} : Hear(r, status)
    BY <1>1 DEF RunCommits
  <2>2. run'[r] = "committed" /\ \A q \in Requests \ {r} : run'[q] = run[q]
    BY <2>1 DEF TypeOK
  <2>3. /\ r \in deaf' => r \in deaf /\ row' = row
        /\ \A q \in Requests \ {r} : row'[q] = row[q] /\ (q \in deaf' => q \in deaf)
    BY <2>1 DEF Hear, TypeOK
  <2> QED BY <2>1, <2>2, <2>3 DEF RowFits, RowSettled, Blocking, LeavesOthers
<1>2. CASE RunJudged(r) \/ RunCancelled(r)
  <2>1. /\ Blocking(r) /\ task' = task
        /\ \E over \in {"over", "reaping"} : run' = [run EXCEPT ![r] = over]
        /\ \E status \in FinalStatuses : Hear(r, status)
    BY <1>2 DEF RunJudged, RunCancelled, End, FinalStatuses
  <2>2. run[r] # "none" /\ run'[r] # "none" /\ \A q \in Requests \ {r} : run'[q] = run[q]
    BY <2>1 DEF TypeOK, Blocking
  <2> QED BY <2>1, <2>2, HearSettles DEF RowFits, LeavesOthers
<1>3. CASE RunReaped(r)
  BY <1>3 DEF RunReaped, coreVars, TypeOK, RowFits, RowSettled, Blocking, LeavesOthers
<1> QED BY <1>1, <1>2, <1>3 DEF RunStep

LEMMA RowStep == Types /\ RowInv /\ [Next]_vars => RowInv'
<1> SUFFICES ASSUME Types, RowInv, [Next]_vars PROVE RowInv'
  OBVIOUS
<1>1. CASE UNCHANGED <<task, row, run, deaf>>
  BY <1>1 DEF RowInv, RowFits, RowSettled, Blocking
<1>2. CASE UNCHANGED vars \/ \E r \in Requests : CancelRemote(r) \/ LateWrite(r)
  BY <1>1, <1>2 DEF vars, coreVars, builderVars, CancelRemote, LateWrite
<1> QED BY <1>2, UserFits, ThreadFits, RunFits DEF Next

\* Once every thread and every run is over, no row waits for anything, whatever
\* cancels, lost answers, repeated runs and failures it has been through; only
\* what env_put lets a failed cancel raise leaves its row as it was.
THEOREM RowsSettleAlways == Spec => []RowsSettled
<1>1. Init => RowInv
  BY DEF Init, RowInv, RowFits
<1>2. RequestInv => Types
  BY DEF RequestInv, Types
<1>3. RequestInv /\ RowInv => RowsSettled
  <2> SUFFICES ASSUME RequestInv, RowInv, Idle, NEW r \in Made
               PROVE  row[r] \in FinalStatuses \cup {"none"} \/ task[r] = "raised"
    BY DEF RowsSettled
  <2>1. r \in Requests
    BY MadeRequests DEF RequestInv
  <2> QED BY <2>1 DEF Idle, RowInv, RowFits, RowSettled, Blocking, InManager
<1> QED BY <1>1, <1>2, <1>3, RowStep, RequestsAlways, PTL DEF Spec
=============================================================================
