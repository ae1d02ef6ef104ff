------------------------- MODULE GitopsWriterProofs -------------------------
(***************************************************************************)
(* Proofs about GitopsWriter, for any number of requests, fields, values   *)
(* and attempts: the commits of the writer are atomic.                     *)
(*                                                                         *)
(* The argument.  A write on its way is the only one of its request and    *)
(* has not been carried out before (OneWriteEach): the goroutine reads     *)
(* again only after a conflict, and then nothing is on its way for it      *)
(* (ServedInOrder).  So a write that lands is the first of its request,    *)
(* and it was made from the file that it replaces.                         *)
(***************************************************************************)
EXTENDS GitopsWriter, TLAPS

\* The goroutine serves a request that it took, and knows how far it is.
ServedInOrder ==
    /\ (at = "idle") = (serving = NoRequest)
    /\ at # "put" => answer = "none"
    /\ at # "idle" => call[serving] \notin {"none", "asking"}
    /\ at = "get" \/ (at = "put" /\ answer # "done") => serving \notin merged
    /\ at = "head" \/ (at = "put" /\ answer = "done") => serving \in merged
    /\ \A p \in wire : p.of = serving => at = "put" /\ answer = "none"

\* A write on its way may be carried out; that of a request comes alone.
OneWriteEach ==
    /\ \A p \in wire : Applicable(p.base, change[p.of]) /\ p.of \notin merged
    /\ \A p \in wire : \A q \in wire : p.of = q.of => p = q

\* Only what was taken is on its way or merged.
OnlyTaken ==
    /\ \A p \in wire : call[p.of] \notin {"none", "asking"}
    /\ \A r \in merged : call[r] \notin {"none", "asking"}
    /\ \A r \in Requests : call[r] \in {"ok", "skipped"} => r \in merged

WriterInv == WriterTypeOK /\ ServedInOrder /\ OneWriteEach /\ OnlyTaken

-------------------------------------------------------------------------------
(***************************************************************************)
(* The file keeps its type.                                                *)
(***************************************************************************)
LEMMA SentValues ==
    ASSUME NEW c \in Change, NEW f \in DOMAIN c.values
    PROVE  c.values[f] \in Value /\ f \in CoreFields
<1>1. PICK sent \in SUBSET CoreFields : c.values \in [sent -> Value]
  BY DEF Change
<1> QED
  BY <1>1

LEMMA MergeIsValues ==
    ASSUME NEW cur \in Values \cup {NoFile}, NEW c \in Change
    PROVE  Merge(cur, c) \in Values
<1> DEFINE old == IF cur = NoFile THEN Empty ELSE cur
<1>1. old \in Values
  BY ValuesAssumption
<1>2. \A f \in Fields : old[f] \in Value
  BY <1>1 DEF Values
<1>3. c.image \in Value
  BY DEF Change
<1>4. Empty["server"] \in Value
  BY ValuesAssumption DEF Values, Fields, Slots
<1> DEFINE next(f) ==
      CASE f \in DOMAIN c.values -> c.values[f]
        [] c.kind \in {"build", "set-image"} /\ f = c.slot -> c.image
        [] c.kind = "remove" /\ f = "server" -> Empty["server"]
        [] OTHER -> old[f]
<1>5. ASSUME NEW f \in Fields PROVE next(f) \in Value
  <2> HIDE DEF old
  <2>1. f \in DOMAIN c.values => c.values[f] \in Value
    BY SentValues
  <2> QED
    BY <2>1, <1>2, <1>3, <1>4
<1>6. Merge(cur, c) = [f \in Fields |-> next(f)]
  BY DEF Merge
<1> QED
  BY <1>5, <1>6 DEF Values

LEMMA AfterIsFile ==
    ASSUME NEW cur \in Values \cup {NoFile}, NEW c \in Change
    PROVE  After(cur, c) \in Values \cup {NoFile}
BY MergeIsValues DEF After

-------------------------------------------------------------------------------
(***************************************************************************)
(* WriterInv is inductive.                                                 *)
(***************************************************************************)
LEMMA WriterInitInv ==
    ASSUME WriterInit, change \in [Requests -> Change], file \in Values \cup {NoFile}
    PROVE  WriterInv
BY WriterAssumption DEF WriterInit, WriterInv, WriterTypeOK, ServedInOrder, OneWriteEach,
    OnlyTaken, Returned

LEMMA CallerStep ==
    ASSUME WriterInv, NEW r \in Requests,
           (\E c \in Change : Ask(r, c)) \/ EndContext(r) \/ Leave(r)
    PROVE  WriterInv'
<1> USE WriterAssumption DEF WriterInv, WriterTypeOK, Returned, goroutine, github
<1>1. ASSUME NEW c \in Change, Ask(r, c) PROVE WriterInv'
  <2>1. r # serving \/ at = "idle"
    BY <1>1 DEF Ask, ServedInOrder
  <2>2. \A p \in wire : p.of # r
    BY <1>1 DEF Ask, OnlyTaken
  <2>3. WriterTypeOK'
    BY <1>1 DEF Ask
  <2>4. ServedInOrder'
    BY <1>1, <2>1 DEF Ask, ServedInOrder
  <2>5. OneWriteEach'
    BY <1>1, <2>2 DEF Ask, OneWriteEach
  <2>6. OnlyTaken'
    BY <1>1, <2>2 DEF Ask, OnlyTaken
  <2> QED
    BY <2>3, <2>4, <2>5, <2>6
<1>2. CASE EndContext(r)
  BY <1>2 DEF EndContext, ServedInOrder, OneWriteEach, OnlyTaken
<1>3. CASE Leave(r)
  <2>1. WriterTypeOK'
    BY <1>3 DEF Leave
  <2>2. ServedInOrder'
    BY <1>3 DEF Leave, ServedInOrder
  <2>3. OneWriteEach'
    BY <1>3 DEF Leave, OneWriteEach
  <2>4. OnlyTaken'
    BY <1>3 DEF Leave, OnlyTaken
  <2> QED
    BY <2>1, <2>2, <2>3, <2>4
<1> QED
  BY <1>1, <1>2, <1>3

\* The answer leaves the goroutine idle, and what is on its way as it is.
LEMMA ReplyStep ==
    ASSUME WriterInv, at # "idle", NEW result \in {"ok", "skipped", "error"}, Reply(result),
           merged' \in {merged, merged \cup {serving}},
           merged' # merged => \A p \in wire : p.of # serving,
           result # "error" => serving \in merged', UNCHANGED <<wire, file>>
    PROVE  WriterInv'
<1> USE WriterAssumption DEF WriterInv, WriterTypeOK, Returned
<1>1. serving \in Requests /\ call[serving] \notin {"none", "asking"}
  BY DEF ServedInOrder
<1>2. WriterTypeOK'
  BY <1>1 DEF Reply
<1>3. ServedInOrder'
  BY DEF Reply, ServedInOrder
<1>4. OneWriteEach'
  BY DEF Reply, OneWriteEach
<1>5. OnlyTaken'
  BY <1>1 DEF Reply, OnlyTaken
<1> QED
  BY <1>2, <1>3, <1>4, <1>5

LEMMA GoroutineStep ==
    ASSUME WriterInv, WriterStep
    PROVE  WriterInv'
<1> USE WriterAssumption DEF WriterInv, WriterTypeOK, Returned, github, callers
<1>1. ASSUME NEW r \in Requests, Take(r) PROVE WriterInv'
  <2>1. r \notin merged /\ \A p \in wire : p.of # r
    BY <1>1 DEF Take, OnlyTaken
  <2>2. answer = "none"
    BY <1>1 DEF Take, ServedInOrder
  <2>3. WriterTypeOK'
    BY <1>1 DEF Take
  <2>4. ServedInOrder'
    BY <1>1, <2>1, <2>2 DEF Take, ServedInOrder
  <2>5. OneWriteEach'
    BY <1>1 DEF Take, OneWriteEach
  <2>6. OnlyTaken'
    BY <1>1, <2>1 DEF Take, OnlyTaken
  <2> QED
    BY <2>3, <2>4, <2>5, <2>6
<1>2. CASE ReadFails
  BY <1>2, ReplyStep DEF ReadFails
<1>3. CASE ReadNothing
  <2>1. \A p \in wire : p.of # serving
    BY <1>3 DEF ReadNothing, ServedInOrder
  <2> QED
    BY <1>3, <2>1, ReplyStep DEF ReadNothing
<1>4. CASE ReadSame
  <2>1. serving \in Requests /\ \A p \in wire : p.of # serving
    BY <1>4 DEF ReadSame, ServedInOrder
  <2>2. WriterTypeOK'
    BY <1>4, <2>1 DEF ReadSame
  <2>3. ServedInOrder'
    BY <1>4, <2>1 DEF ReadSame, ServedInOrder
  <2>4. OneWriteEach'
    BY <1>4, <2>1 DEF ReadSame, OneWriteEach
  <2>5. OnlyTaken'
    BY <1>4, <2>1 DEF ReadSame, OnlyTaken, ServedInOrder
  <2> QED
    BY <2>2, <2>3, <2>4, <2>5
<1>5. CASE HeadDone
  <2>1. PICK result \in {"skipped", "error"} : Reply(result)
    BY <1>5 DEF HeadDone
  <2>2. serving \in merged
    BY <1>5 DEF HeadDone, ServedInOrder
  <2> QED
    BY <1>5, <2>1, <2>2, ReplyStep DEF HeadDone
<1>6. CASE Read
  <2> DEFINE w == [of |-> serving, base |-> file]
  <2>1. serving \in Requests /\ \A p \in wire : p.of # serving
    BY <1>6 DEF Read, ServedInOrder
  <2>2. wire' = wire \cup {w} /\ w.of = serving /\ w.base = file
    BY <1>6 DEF Read
  <2>3. WriterTypeOK'
    BY <1>6, <2>1 DEF Read
  <2> HIDE DEF w
  <2>4. ServedInOrder'
    BY <1>6, <2>1, <2>2 DEF Read, ServedInOrder
  <2>5. OneWriteEach'
    BY <1>6, <2>1, <2>2 DEF Read, OneWriteEach, ServedInOrder
  <2>6. OnlyTaken'
    BY <1>6, <2>1, <2>2 DEF Read, OnlyTaken, ServedInOrder
  <2> QED
    BY <2>3, <2>4, <2>5, <2>6
<1>7. CASE PutDone
  <2>1. serving \in merged
    BY <1>7 DEF PutDone, ServedInOrder
  <2> QED
    BY <1>7, <2>1, ReplyStep DEF PutDone
<1>8. CASE PutConflict
  <2>1. CASE attempt < MaxAttempts
    <3>1. serving \notin merged /\ \A p \in wire : p.of # serving
      BY <1>8 DEF PutConflict, ServedInOrder
    <3>2. WriterTypeOK'
      BY <1>8, <2>1 DEF PutConflict
    <3>3. ServedInOrder'
      BY <1>8, <2>1, <3>1 DEF PutConflict, ServedInOrder
    <3>4. OneWriteEach' /\ OnlyTaken'
      BY <1>8, <2>1 DEF PutConflict, OneWriteEach, OnlyTaken
    <3> QED
      BY <3>2, <3>3, <3>4
  <2>2. CASE ~(attempt < MaxAttempts)
    BY <1>8, <2>2, ReplyStep DEF PutConflict
  <2> QED
    BY <2>1, <2>2
<1>9. CASE PutFails
  BY <1>9, ReplyStep DEF PutFails
<1> QED
  BY <1>1, <1>2, <1>3, <1>4, <1>5, <1>6, <1>7, <1>8, <1>9 DEF WriterStep

LEMMA GitHubKeeps ==
    ASSUME WriterInv, NEW p \in wire, Land(p) \/ Refuse(p)
    PROVE  WriterInv'
<1> USE WriterAssumption DEF WriterInv, WriterTypeOK, Returned, callers, AnswerTo
<1>1. /\ p.of \in Requests /\ p.base \in Values \cup {NoFile}
      /\ p.of \notin merged /\ call[p.of] \notin {"none", "asking"}
      /\ p.of = serving => at = "put" /\ answer = "none"
      /\ \A q \in wire \ {p} : q.of # p.of
  BY DEF OneWriteEach, OnlyTaken, ServedInOrder
<1>2. CASE Land(p)
  <2>1. change[p.of] \in Change
    BY <1>1
  <2>2. file' \in Values \cup {NoFile}
    BY <1>1, <1>2, <2>1, AfterIsFile DEF Land
  <2>3. WriterTypeOK'
    BY <1>1, <1>2, <2>2 DEF Land
  <2>4. ServedInOrder'
    BY <1>1, <1>2 DEF Land, ServedInOrder
  <2>5. OneWriteEach'
    BY <1>1, <1>2 DEF Land, OneWriteEach
  <2>6. OnlyTaken'
    BY <1>1, <1>2 DEF Land, OnlyTaken
  <2> QED
    BY <2>3, <2>4, <2>5, <2>6
<1>3. CASE Refuse(p)
  <2>1. WriterTypeOK'
    BY <1>1, <1>3 DEF Refuse
  <2>2. ServedInOrder'
    BY <1>1, <1>3 DEF Refuse, ServedInOrder
  <2>3. OneWriteEach'
    BY <1>1, <1>3 DEF Refuse, OneWriteEach
  <2>4. OnlyTaken'
    BY <1>1, <1>3 DEF Refuse, OnlyTaken
  <2> QED
    BY <2>1, <2>2, <2>3, <2>4
<1> QED
  BY <1>2, <1>3

LEMMA WriterKeeps ==
    ASSUME WriterInv, [WriterNext]_vars
    PROVE  WriterInv'
<1>1. CASE UNCHANGED vars
  BY <1>1 DEF vars, callers, goroutine, github, WriterInv, WriterTypeOK, ServedInOrder,
      OneWriteEach, OnlyTaken, Returned
<1>2. CASE WriterNext
  BY <1>2, CallerStep, GoroutineStep, GitHubKeeps DEF WriterNext, GitHubStep
<1> QED
  BY <1>1, <1>2

\* The variables of the writer keep their types.
THEOREM WriterTypeCorrect == WriterSpec => []WriterTypeOK
<1>1. WriterInit /\ change \in [Requests -> Change] /\ file \in Values \cup {NoFile}
        => WriterInv
  BY WriterInitInv
<1>2. WriterInv /\ [WriterNext]_vars => WriterInv'
  BY WriterKeeps
<1>3. WriterInv => WriterTypeOK
  BY DEF WriterInv
<1> QED
  BY <1>1, <1>2, <1>3, PTL DEF WriterSpec

-------------------------------------------------------------------------------
(***************************************************************************)
(* Every step is one of ValuesFile, or none.                               *)
(***************************************************************************)
Result == [r \in Requests |-> ResultOf(r)]

\* ValuesFile has the same files and changes.
LEMMA SameFile ==
    /\ Abstract!Values = Values /\ Abstract!Change = Change
    /\ \A cur, c : /\ Abstract!Applicable(cur, c) = Applicable(cur, c)
                   /\ Abstract!After(cur, c) = After(cur, c)
<1>1. Abstract!Fields = Fields /\ Abstract!Slots = Slots /\ Abstract!Kinds = Kinds
  BY DEF Abstract!Fields, Fields, Abstract!Slots, Slots, Abstract!Kinds, Kinds
<1>2. \A cur, c : Abstract!Merge(cur, c) = Merge(cur, c)
  BY <1>1 DEF Abstract!Merge, Merge
<1> QED
  BY <1>1, <1>2 DEF Abstract!Values, Values, Abstract!Change, Change, Abstract!Applicable,
      Applicable, Abstract!After, After

\* The answer to r is the only result that changes.
LEMMA Answered ==
    ASSUME WriterInv, NEW r \in Requests, call[r] \in {"asking", "taken"},
           NEW answered \in Returned, call' = [call EXCEPT ![r] = answered],
           answered \in {"ok", "skipped"} => r \in merged,
           UNCHANGED <<change, file, merged>>
    PROVE  Abstract!Answer(r)
<1>1. Result' = [Result EXCEPT ![r] =
          IF answered \in {"ok", "skipped"} THEN "merged" ELSE "error"]
  BY DEF Result, ResultOf, Returned, WriterInv, WriterTypeOK
<1>2. Result[r] = "waiting"
  BY DEF Result, ResultOf
<1> QED
  BY <1>1, <1>2 DEF Abstract!Answer, Result

LEMMA ReplySimulates ==
    ASSUME WriterInv, at # "idle", NEW result \in {"ok", "skipped", "error"}, Reply(result),
           result # "error" => serving \in merged, UNCHANGED <<file, merged>>
    PROVE  [Abstract!Next]_Abstract!vars
<1>1. serving \in Requests
  BY DEF WriterInv, WriterTypeOK, ServedInOrder
<1>2. CASE call[serving] = "taken"
  BY <1>1, <1>2, Answered DEF Reply, Returned, Abstract!Next
<1>3. CASE call[serving] # "taken"
  BY <1>3 DEF Reply, Abstract!vars, ResultOf
<1> QED
  BY <1>2, <1>3

LEMMA AskSimulates ==
    ASSUME WriterInv, NEW r \in Requests, NEW c \in Change, Ask(r, c)
    PROVE  Abstract!Next
<1>1. Result' = [Result EXCEPT ![r] = "waiting"] /\ Result[r] = "none"
  BY DEF Ask, Result, ResultOf, Returned, WriterInv, WriterTypeOK
<1> QED
  BY <1>1, SameFile DEF Ask, github, Result, Abstract!Next, Abstract!Ask

LEMMA GoroutineSimulates ==
    ASSUME WriterInv, WriterStep
    PROVE  [Abstract!Next]_Abstract!vars
<1> USE DEF github, callers
<1>1. ASSUME NEW r \in Requests, Take(r) PROVE UNCHANGED Abstract!vars
  <2>1. Result' = Result
    BY <1>1 DEF Take, Result, ResultOf, WriterInv, WriterTypeOK, Returned
  <2> QED
    BY <1>1, <2>1 DEF Take, Result, Abstract!vars
<1>2. CASE ReadFails \/ PutFails
  BY <1>2, ReplySimulates DEF ReadFails, PutFails
<1>3. CASE ReadNothing
  <2>1. serving \in Requests /\ serving \notin merged /\ call[serving] \notin {"none", "asking"}
    BY <1>3 DEF ReadNothing, WriterInv, WriterTypeOK, ServedInOrder
  <2>2. /\ Applicable(file, change[serving]) /\ file' = After(file, change[serving])
        /\ merged' = merged \cup {serving} /\ UNCHANGED change
    BY <1>3 DEF ReadNothing, Reply, Applicable, After
  <2>3. Result[serving] # "none"
    BY <2>1 DEF Result, ResultOf, WriterInv, WriterTypeOK, Returned
  <2>4. \/ Result' = Result
        \/ Result[serving] = "waiting" /\ Result' = [Result EXCEPT ![serving] = "merged"]
    BY <1>3, <2>1 DEF ReadNothing, Reply, Result, ResultOf, WriterInv, WriterTypeOK, Returned
  <2>5. Abstract!Apply(serving)
    BY <2>1, <2>2, <2>3, <2>4, SameFile DEF Abstract!Apply, Result
  <2> QED
    BY <2>1, <2>5 DEF Abstract!Next
<1>4. CASE ReadSame
  <2>1. serving \in Requests /\ serving \notin merged /\ call[serving] \notin {"none", "asking"}
    BY <1>4 DEF ReadSame, WriterInv, WriterTypeOK, ServedInOrder
  <2>2. /\ Applicable(file, change[serving]) /\ file' = After(file, change[serving])
        /\ merged' = merged \cup {serving} /\ UNCHANGED change
    BY <1>4 DEF ReadSame, Applicable
  <2>3. Result[serving] # "none"
    BY <2>1 DEF Result, ResultOf, WriterInv, WriterTypeOK, Returned
  <2>4. Result' = Result
    BY <1>4 DEF ReadSame, Result, ResultOf
  <2>5. Abstract!Apply(serving)
    BY <2>1, <2>2, <2>3, <2>4, SameFile DEF Abstract!Apply, Result
  <2> QED
    BY <2>1, <2>5 DEF Abstract!Next
<1>5. CASE HeadDone
  <2>1. PICK result \in {"skipped", "error"} : Reply(result)
    BY <1>5 DEF HeadDone
  <2>2. serving \in merged
    BY <1>5 DEF HeadDone, WriterInv, ServedInOrder
  <2> QED
    BY <1>5, <2>1, <2>2, ReplySimulates DEF HeadDone
<1>6. CASE Read
  BY <1>6 DEF Read, Abstract!vars, ResultOf
<1>7. CASE PutDone
  <2>1. serving \in merged
    BY <1>7 DEF PutDone, WriterInv, ServedInOrder
  <2> QED
    BY <1>7, <2>1, ReplySimulates DEF PutDone
<1>8. CASE PutConflict
  <2>1. CASE attempt < MaxAttempts
    BY <1>8, <2>1 DEF PutConflict, Abstract!vars, ResultOf
  <2>2. CASE ~(attempt < MaxAttempts)
    BY <1>8, <2>2, ReplySimulates DEF PutConflict
  <2> QED
    BY <2>1, <2>2
<1> QED
  BY <1>1, <1>2, <1>3, <1>4, <1>5, <1>6, <1>7, <1>8 DEF WriterStep

LEMMA GitHubSimulates ==
    ASSUME WriterInv, NEW p \in wire, Land(p) \/ Refuse(p)
    PROVE  [Abstract!Next]_Abstract!vars
<1> USE DEF callers
<1>1. CASE Land(p)
  <2>1. /\ p.of \in Requests /\ p.of \notin merged
        /\ call[p.of] \notin {"none", "asking"} /\ Applicable(p.base, change[p.of])
    BY DEF WriterInv, WriterTypeOK, OneWriteEach, OnlyTaken
  <2>2. Result[p.of] # "none"
    BY <2>1 DEF Result, ResultOf, WriterInv, WriterTypeOK, Returned
  <2>3. Result' = Result
    BY <1>1 DEF Land, Result, ResultOf
  <2>4. Abstract!Apply(p.of)
    BY <1>1, <2>1, <2>2, <2>3, SameFile DEF Land, Abstract!Apply, Result
  <2> QED
    BY <2>1, <2>4 DEF Abstract!Next
<1>2. CASE Refuse(p)
  BY <1>2 DEF Refuse, Abstract!vars, ResultOf
<1> QED
  BY <1>1, <1>2

LEMMA StepSimulates ==
    ASSUME WriterInv, [WriterNext]_vars
    PROVE  [Abstract!Next]_Abstract!vars
<1>1. CASE UNCHANGED vars
  BY <1>1 DEF vars, callers, github, Abstract!vars, ResultOf
<1>2. ASSUME NEW r \in Requests, Leave(r) PROVE Abstract!Next
  BY <1>2, Answered DEF Leave, github, Returned, Abstract!Next
<1>3. ASSUME NEW r \in Requests, EndContext(r) PROVE UNCHANGED Abstract!vars
  BY <1>3 DEF EndContext, github, Abstract!vars, ResultOf
<1> QED
  BY <1>1, <1>2, <1>3, AskSimulates, GoroutineSimulates, GitHubSimulates
  DEF WriterNext, GitHubStep

\* Every change is merged into the newest file, at once, once at most, and
\* before its answer says so: for any number of requests and attempts, and any
\* fields and values.
THEOREM AtomicCommits == WriterSpec => CommitsAtomic
<1>1. WriterInit /\ change \in [Requests -> Change] /\ file \in Values \cup {NoFile}
        => WriterInv /\ Abstract!Init
  BY WriterInitInv, SameFile DEF WriterInit, Abstract!Init, ResultOf
<1>2. WriterInv /\ [WriterNext]_vars => WriterInv' /\ [Abstract!Next]_Abstract!vars
  BY WriterKeeps, StepSimulates
<1> QED
  BY <1>1, <1>2, PTL DEF WriterSpec, CommitsAtomic, Abstract!Spec
=============================================================================
