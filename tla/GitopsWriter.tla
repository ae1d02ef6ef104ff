----------------------------- MODULE GitopsWriter -----------------------------
(***************************************************************************)
(* gitops.Writer: the commits of one app's values file.                    *)
(*                                                                         *)
(*   run.commit, run.delete --Commit--> writer goroutine --HTTP--> GitHub  *)
(*                                                                         *)
(* One goroutine takes one change at a time: it reads the file, merges the *)
(* change, and writes the file with the blob sha that it read.  GitHub     *)
(* refuses another sha (409, 422, 404), and then it starts over.  A caller *)
(* whose context ends leaves, and so does a call that times out, but what  *)
(* is on its way to GitHub may be carried out later.                       *)
(*                                                                         *)
(* Simplifications.                                                        *)
(*  - The blob sha is the content: GitHub's is its hash.                   *)
(*  - Other apps' changes only keep the goroutine busy.                    *)
(*  - Nobody else writes the file; GitHub may refuse a write for a change  *)
(*    of the branch, whatever the file.                                    *)
(*  - What the file holds can be parsed, and namespaces are valid.         *)
(***************************************************************************)
EXTENDS ValuesMerge, Naturals

CONSTANTS
    Requests,     \* those who call Commit
    NoRequest,    \* nobody
    MaxAttempts   \* maxAttempts of writer.go (5)

ASSUME WriterAssumption ==
    MaxAttempts \in Nat \ {0} /\ NoRequest \notin Requests

VARIABLES
    change,     \* the change each request asks for
    call,       \* none, asking, taken; or its answer: ok, skipped, error; or left
    ended,      \* the requests whose context has ended
    serving,    \* the request the goroutine works on
    at,         \* where it is: idle, get, head, put
    attempt,    \* the attempt it is making
    answer,     \* GitHub's answer to its PUT or DELETE: none, done, conflict
    wire,       \* PUTs and DELETEs on their way, with the file they were made from
    file,       \* the values in git
    merged      \* history: requests whose change is in the file, or was there already

callers == <<change, call, ended>>
goroutine == <<serving, at, attempt, answer>>
github == <<wire, file, merged>>
vars == <<callers, goroutine, github>>

Returned == {"ok", "skipped", "error", "left"}

WriterInit ==
    /\ call = [r \in Requests |-> "none"] /\ ended = {}
    /\ serving = NoRequest /\ at = "idle" /\ attempt = 0 /\ answer = "none"
    /\ wire = {} /\ merged = {}

-------------------------------------------------------------------------------
(***************************************************************************)
(* Commit.                                                                 *)
(***************************************************************************)
Ask(r, c) ==
    /\ call[r] = "none"
    /\ call' = [call EXCEPT ![r] = "asking"]
    /\ change' = [change EXCEPT ![r] = c]
    /\ UNCHANGED <<ended, goroutine, github>>

\* A cancel or a shutdown.
EndContext(r) ==
    /\ ended' = ended \cup {r}
    /\ UNCHANGED <<change, call, goroutine, github>>

Leave(r) ==
    /\ r \in ended /\ call[r] \in {"asking", "taken"}
    /\ call' = [call EXCEPT ![r] = "left"]
    /\ UNCHANGED <<change, ended, goroutine, github>>

-------------------------------------------------------------------------------
(***************************************************************************)
(* Run, apply and once: the goroutine.                                     *)
(***************************************************************************)
Take(r) ==
    /\ at = "idle" /\ call[r] = "asking"
    /\ call' = [call EXCEPT ![r] = "taken"]
    /\ serving' = r /\ at' = "get" /\ attempt' = 1
    /\ UNCHANGED <<change, ended, answer, github>>

\* The reply, which nobody reads once the caller has left.
Reply(result) ==
    /\ call' = IF call[serving] = "taken" THEN [call EXCEPT ![serving] = result] ELSE call
    /\ serving' = NoRequest /\ at' = "idle" /\ attempt' = 0 /\ answer' = "none"
    /\ UNCHANGED <<change, ended>>

\* The context has ended, the read fails, or there is no file to configure.
ReadFails ==
    /\ at = "get"
    /\ Reply("error")
    /\ UNCHANGED github

\* A delete finds no file.
ReadNothing ==
    /\ at = "get" /\ change[serving].kind = "delete" /\ file = NoFile
    /\ merged' = merged \cup {serving}
    /\ Reply("skipped")
    /\ UNCHANGED <<wire, file>>

\* Nothing would change: the answer is the end of the branch, read next.
ReadSame ==
    /\ at = "get" /\ change[serving].kind # "delete"
    /\ file # NoFile /\ After(file, change[serving]) = file
    /\ merged' = merged \cup {serving}
    /\ at' = "head"
    /\ UNCHANGED <<callers, serving, attempt, answer, wire, file>>

HeadDone ==
    /\ at = "head"
    /\ \E result \in {"skipped", "error"} : Reply(result)
    /\ UNCHANGED github

\* PUT or DELETE with the sha that was read.
Read ==
    /\ at = "get"
    /\ Applicable(file, change[serving]) /\ After(file, change[serving]) # file
    /\ wire' = wire \cup {[of |-> serving, base |-> file]}
    /\ at' = "put"
    /\ UNCHANGED <<callers, serving, attempt, answer, file, merged>>

PutDone ==
    /\ at = "put" /\ answer = "done"
    /\ Reply("ok")
    /\ UNCHANGED github

\* Mutant: conflicts are tried again without end.
PutConflictForever ==
    /\ at = "put" /\ answer = "conflict"
    /\ at' = "get" /\ attempt' = attempt + 1 /\ answer' = "none"
    /\ UNCHANGED <<callers, serving, github>>

PutConflict ==
    /\ at = "put" /\ answer = "conflict"
    /\ IF attempt < MaxAttempts
       THEN /\ at' = "get" /\ attempt' = attempt + 1 /\ answer' = "none"
            /\ UNCHANGED <<callers, serving>>
       ELSE Reply("error")
    /\ UNCHANGED github

\* The context has ended, the call timed out or its answer is lost or an error.
PutFails ==
    /\ at = "put"
    /\ Reply("error")
    /\ UNCHANGED github

-------------------------------------------------------------------------------
(***************************************************************************)
(* GitHub.                                                                 *)
(***************************************************************************)
AnswerTo(p, result) == answer' = IF serving = p.of THEN result ELSE answer

\* Mutant: the write carries no sha.
LandUnchecked(p) ==
    /\ p \in wire
    /\ file' = After(p.base, change[p.of])
    /\ merged' = merged \cup {p.of}
    /\ wire' = wire \ {p}
    /\ AnswerTo(p, "done")
    /\ UNCHANGED <<callers, serving, at, attempt>>

Land(p) ==
    /\ p \in wire /\ file = p.base
    /\ file' = After(p.base, change[p.of])
    /\ merged' = merged \cup {p.of}
    /\ wire' = wire \ {p}
    /\ AnswerTo(p, "done")
    /\ UNCHANGED <<callers, serving, at, attempt>>

\* Refused, or lost on the way.
Refuse(p) ==
    /\ p \in wire
    /\ wire' = wire \ {p}
    /\ AnswerTo(p, "conflict")
    /\ UNCHANGED <<callers, serving, at, attempt, file, merged>>

-------------------------------------------------------------------------------
WriterStep ==
    \/ \E r \in Requests : Take(r)
    \/ ReadFails \/ ReadNothing \/ ReadSame \/ HeadDone \/ Read
    \/ PutDone \/ PutConflict \/ PutFails

GitHubStep == \E p \in wire : Land(p) \/ Refuse(p)

WriterNext ==
    \/ \E r \in Requests :
          \/ \E c \in Change : Ask(r, c)
          \/ EndContext(r) \/ Leave(r)
    \/ WriterStep \/ GitHubStep

WriterSpec ==
    /\ WriterInit
    /\ change \in [Requests -> Change] /\ file \in Values \cup {NoFile}
    /\ [][WriterNext]_vars

-------------------------------------------------------------------------------
(***************************************************************************)
(* Properties.                                                             *)
(***************************************************************************)
WriterTypeOK ==
    /\ change \in [Requests -> Change]
    /\ call \in [Requests -> {"none", "asking", "taken"} \cup Returned]
    /\ ended \subseteq Requests
    /\ serving \in Requests \cup {NoRequest}
    /\ at \in {"idle", "get", "head", "put"}
    /\ attempt \in 0 .. MaxAttempts
    /\ answer \in {"none", "done", "conflict"}
    /\ wire \subseteq [of : Requests, base : Values \cup {NoFile}]
    /\ file \in Values \cup {NoFile}
    /\ merged \subseteq Requests

\* What a caller of Commit can tell of its answer.
ResultOf(r) ==
    CASE call[r] = "none" -> "none"
      [] call[r] \in {"asking", "taken"} -> "waiting"
      [] call[r] \in {"ok", "skipped"} -> "merged"
      [] OTHER -> "error"

Abstract == INSTANCE ValuesFile WITH result <- [r \in Requests |-> ResultOf(r)]

\* Reading, merging and writing are three steps, and a write may be carried
\* out long after its caller has been told that it failed; and yet every
\* change is merged into the newest file, at most once, and before its answer
\* says so (Writer: one goroutine, the blob sha, and no retry but after a
\* conflict).
CommitsAtomic == Abstract!Spec
=============================================================================
