--------------------------- MODULE DeployProgress ---------------------------
(***************************************************************************)
(* The page a deployment is watched on (web/src/components/deploy/          *)
(* DeployProgress.jsx) with the card of the diagnosis (app/AiDiagnosis.jsx). *)
(* Two polls feed one state: the list, which picks the build, and the log   *)
(* of the build picked.                                                     *)
(*                                                                         *)
(* Abstracted: the periods of the polls; the text of the log is as old as   *)
(* the status it comes with; "built" counts as "deploying", which no test   *)
(* on the page tells apart.                                                 *)
(***************************************************************************)
EXTENDS Naturals, Sequences

CONSTANTS
    MaxBuilds,  \* bound: builds of the app
    Outcomes,   \* statuses a build may end with
    Null

Statuses == {"queued", "building", "deploying", "running", "failed", "cancelled"}
Build == [id : 1 .. MaxBuilds, status : Statuses, ai : {Null, "pending", "done"}]

ProgressAssumption ==
    /\ MaxBuilds \in Nat \ {0} /\ Null \notin Nat /\ Null \notin Build
    /\ Outcomes \subseteq {"running", "failed", "cancelled"}

VARIABLES
    rows,       \* builds of the server, the oldest first: kind, status, ai
    wanted,     \* ?build=, or Null
    build,      \* the build shown: id, status, ai; Null before
    loaded, error,
    list,       \* the request of the list: see Request
    log,        \* the poll of the log, with the build it is about
    deps,       \* what the effect of the log was set up with
    highWater,
    seen,       \* history: the highest stage the build shown has been shown in
    capped      \* 5 minutes have passed since the last failure

pageVars == <<build, loaded, error, log, deps, highWater, seen>>
vars == <<rows, wanted, list, capped, pageVars>>

Kinds == {"build", "env_change"}
ACTIVE_BUILD == {"queued", "building", "deploying"}
Row == [kind : Kinds, status : Statuses, ai : {Null, "pending", "done"}]

stageOf(s) ==
    CASE s = "queued" -> 1 [] s = "building" -> 2 [] s = "deploying" -> 3
      [] s = "running" -> 4 [] OTHER -> 0

live(b) == b # Null /\ b.status \in ACTIVE_BUILD
isDiagnosing(b) == b # Null /\ b.status = "failed" /\ b.ai = "pending" /\ ~capped

\* What the card of a build says; "none" when there is no card.
AiDiagnosis(b) ==
    CASE b = Null -> "none"
      [] b # Null /\ b.ai = "done" -> "diagnosis"
      [] isDiagnosing(b) -> "pending"
      [] b # Null /\ b.ai = "pending" /\ ~isDiagnosing(b) -> "missing"
      [] OTHER -> "none"

failed == build # Null /\ build.status \in {"failed", "cancelled"}
failedStage == IF failed THEN highWater ELSE 0
StepMark(n) ==
    CASE failedStage = n -> "fail"
      [] failedStage # n /\ n <= IF stageOf(build.status) > 0 THEN stageOf(build.status)
                                 ELSE failedStage -> "reached"
      [] OTHER -> "ahead"
LogBody == IF build # Null THEN "log" ELSE IF loaded THEN "no builds" ELSE "loading"

\* The line below the log, and the button at the foot of the page.
Foot ==
    [line |-> IF error THEN "error" ELSE IF build = Null THEN "" ELSE build.status,
     button |-> IF failed THEN "redeploy"
                ELSE IF build # Null /\ build.status = "running" THEN "workspace" ELSE "disabled"]

-----------------------------------------------------------------------------
At(n) == [id |-> n, status |-> rows[n].status, ai |-> rows[n].ai]
Request == [at : {"wait", "sent", "back", "ended"}, got : Build \cup {Null}]
Sent == [at |-> "sent", got |-> Null]
Wait == [at |-> "wait", got |-> Null]
Ended == [at |-> "ended", got |-> Null]

Init ==
    /\ rows \in {<<[kind |-> "build", status |-> s, ai |-> Null]>> : s \in {"queued", "running"}}
    /\ wanted \in {Null, 1}
    /\ build = Null /\ loaded = FALSE /\ error = FALSE
    /\ list = Sent /\ log = Ended
    /\ deps = <<Null, FALSE, FALSE>> /\ highWater = 0 /\ seen = 0 /\ capped = FALSE

-----------------------------------------------------------------------------
(* The server *)

After(s) ==
    CASE s = "queued" -> {"building"} \cup (Outcomes \ {"running"})
      [] s = "building" -> {"deploying"} \cup (Outcomes \ {"running"})
      [] s = "deploying" -> Outcomes \ {"cancelled"}
      [] OTHER -> {}

Step(n) ==
    /\ rows[n].kind = "build"
    /\ \E s \in After(rows[n].status) :
         rows' = [rows EXCEPT ![n].status = s,
                              ![n].ai = IF s = "failed" THEN "pending" ELSE Null]
    /\ UNCHANGED <<wanted, list, capped, pageVars>>

Diagnosed(n) ==
    /\ rows[n].ai = "pending" /\ rows' = [rows EXCEPT ![n].ai = "done"]
    /\ UNCHANGED <<wanted, list, capped, pageVars>>

\* A deployment or a change of the environment made elsewhere.
NewBuild(k) ==
    /\ Len(rows) < MaxBuilds
    /\ rows' = Append(rows, [kind |-> k, status |-> IF k = "build" THEN "queued" ELSE "running",
                             ai |-> Null])
    /\ UNCHANGED <<wanted, list, capped, pageVars>>

CapPasses ==
    /\ ~capped /\ \E n \in DOMAIN rows : rows[n].ai = "pending"
    /\ capped' = TRUE
    /\ UNCHANGED <<rows, wanted, list, pageVars>>

-----------------------------------------------------------------------------
(* The page *)

\* setBuild and the effects that follow it: the poll of the log starts anew when
\* what it depends on has changed, and the highest stage is noted, then forgotten
\* if the build is another one.  "then" is the poll if it goes on.
setBuild(b, then) ==
    LET id == IF b = Null THEN Null ELSE b.id
        stage == IF b = Null THEN 0 ELSE stageOf(b.status)
        old == IF build = Null THEN Null ELSE build.id
        oldStage == IF build = Null THEN 0 ELSE stageOf(build.status)
        Larger(v) == IF stage > v /\ stage # oldStage THEN stage ELSE v
        d == <<id, live(b), isDiagnosing(b)>>
    IN /\ build' = b /\ deps' = d
       /\ log' = IF d = deps THEN then
                 ELSE IF b # Null /\ (live(b) \/ isDiagnosing(b)) THEN Wait ELSE Ended
       /\ highWater' = IF id # old THEN 0 ELSE Larger(highWater)
       /\ seen' = IF id # old THEN stage ELSE IF stage > seen THEN stage ELSE seen

\* The list picks the build asked for, or the newest that is one.
Target ==
    LET Real == {n \in DOMAIN rows : rows[n].kind # "env_change"}
    IN IF wanted # Null THEN IF wanted \in DOMAIN rows THEN At(wanted) ELSE Null
       ELSE IF Real = {} THEN Null ELSE At(CHOOSE n \in Real : \A m \in Real : m <= n)

ListRead ==
    /\ list.at = "sent" /\ list' = [at |-> "back", got |-> Target]
    /\ UNCHANGED <<rows, wanted, capped, pageVars>>

\* A build that is shown already is left to the poll of the log.
Chosen(b) == IF build # Null /\ b # Null /\ build.id = b.id THEN build ELSE b

ListAnswered ==
    /\ list.at = "back" /\ list' = Wait
    /\ setBuild(Chosen(list.got), log) /\ error' = FALSE /\ loaded' = TRUE
    /\ UNCHANGED <<rows, wanted, capped>>

\* A 401 ends the poll, anything else is tried again.
ListFails ==
    /\ list.at \in {"sent", "back"}
    /\ \/ list' = Wait /\ error' = TRUE /\ loaded' = TRUE
       \/ list' = Ended /\ UNCHANGED <<error, loaded>>
    /\ UNCHANGED <<rows, wanted, capped, build, log, deps, highWater, seen>>

ListAgain ==
    /\ list.at = "wait" /\ list' = Sent
    /\ UNCHANGED <<rows, wanted, capped, pageVars>>

logRest == <<rows, wanted, list, capped, build, loaded, error, deps, highWater, seen>>

LogAgain == log.at = "wait" /\ log' = Sent /\ UNCHANGED logRest

LogRead == log.at = "sent" /\ log' = [at |-> "back", got |-> At(build.id)] /\ UNCHANGED logRest

LogAnswered ==
    /\ log.at = "back"
    /\ setBuild(log.got, IF live(log.got) \/ isDiagnosing(log.got) THEN Wait ELSE Ended)
    /\ UNCHANGED <<rows, wanted, list, capped, loaded, error>>

LogFails == log.at \in {"sent", "back"} /\ log' \in {Wait, Ended} /\ UNCHANGED logRest

Next ==
    \/ \E n \in DOMAIN rows : Step(n) \/ Diagnosed(n)
    \/ \E k \in Kinds : NewBuild(k)
    \/ CapPasses
    \/ ListRead \/ ListAnswered \/ ListFails \/ ListAgain
    \/ LogAgain \/ LogRead \/ LogAnswered \/ LogFails

Spec == Init /\ [][Next]_vars

-----------------------------------------------------------------------------
TypeOK ==
    /\ rows \in Seq(Row) /\ Len(rows) \in 1 .. MaxBuilds
    /\ build \in Build \cup {Null} /\ {list, log} \subseteq Request
    /\ highWater \in 0 .. 4 /\ seen \in 0 .. 4
    /\ AiDiagnosis(build) \in {"none", "diagnosis", "pending", "missing"}
    /\ build # Null => \A n \in 1 .. 4 : StepMark(n) \in {"fail", "reached", "ahead"}
    /\ Foot.button \in {"redeploy", "workspace", "disabled"}
    /\ LogBody \in {"log", "no builds", "loading"}

\* A failure is marked at the stage this very build was last seen to reach, or at
\* none: never at a stage of the build shown before it.
MarkIsTrue == failedStage \in {0, seen}

\* What is shown of a build is never replaced by something older, though the
\* answers of the two polls overtake each other.
Rank(b) == 2 * (IF b.status \in {"failed", "cancelled"} THEN 4 ELSE stageOf(b.status))
             + (IF b.ai = "done" THEN 1 ELSE 0)
LogsGoForward ==
    build # Null /\ build' # Null /\ build'.id = build.id => Rank(build') >= Rank(build)

\* What each step keeps: what has been read of a build is no newer than the build, and
\* an answer about the log is of the build that is shown and no older than it.
Read(b) == b \in Build /\ b.id \in DOMAIN rows /\ Rank(b) <= Rank(rows[b.id])
ReadInv ==
    /\ rows \in Seq(Row) /\ Len(rows) <= MaxBuilds
    /\ build # Null => Read(build)
    /\ list.at = "back" /\ list.got # Null => Read(list.got)
    /\ log.at # "ended" => build # Null
    /\ log.at = "back" => /\ Read(log.got) /\ log.got.id = build.id
                          /\ Rank(build) <= Rank(log.got)
    /\ deps[1] = IF build = Null THEN Null ELSE build.id

\* And the mark: the highest stage of a build is the one it is shown in, or was last.
StageInv ==
    /\ seen \in 0 .. 4 /\ highWater \in {0, seen}
    /\ build # Null => stageOf(build.status) \in {0, seen}
ProgressInv == ReadInv /\ StageInv

\* The inductive invariant behind the types.
TypeInv == TypeOK /\ ProgressInv

=============================================================================
