---------------------------- MODULE CallbackQueue ----------------------------
(***************************************************************************)
(* The event channel of one build, from the builder to core:               *)
(*                                                                         *)
(*   run goroutine --Log, Event, Close--> callback.Queue --POST--> core    *)
(*                                             |                           *)
(*                                           onAck --> Job annotations     *)
(*                                                                         *)
(* The queue (builder/internal/callback/callback.go) numbers events, sends *)
(* the first one until core answers 2xx, and drops the oldest log lines    *)
(* when core is slow.  core (core/app/internal/events.py) applies an event *)
(* only if its number is above the last one of the build's row.  onAck     *)
(* (run.go) writes what core has answered into annotations of the build's  *)
(* Job, from which a restarted builder numbers its first event             *)
(* (Manager.Resume, manager.go).                                           *)
(*                                                                         *)
(* Simplifications.                                                        *)
(*  - The body of an event other than a log is a number, in the order of   *)
(*    the calls to Event.  A log item carries no text: its lines are the   *)
(*    last n of the lines up to srcEnd of the build log.                   *)
(*  - Signing is left out, and so are wall-clock times: a log's ack within *)
(*    ackWriteEvery of the last one written and an annotation write that   *)
(*    fails are the same choice, not to record (OnAckSkip).                *)
(*  - The body a log item is sent with is fixed when it is picked, and the *)
(*    picked item is kept in cur instead of at the head of items.          *)
(***************************************************************************)
EXTENDS Integers, Sequences, FiniteSets

CONSTANTS
    MaxLinesPerEvent,   \* callback.MaxLinesPerEvent (200)
    MaxQueuedLines,     \* callback.MaxQueuedLines (5000)
    SeqResumeMargin,    \* seqResumeMargin of manager.go (100)
    MaxEvents,          \* bound: calls of Event
    MaxLines,           \* bound: lines of the build log
    MaxUnrecorded,      \* bound: successive acks that onAck does not record
    MaxUnackedRestarts, \* bound: builder restarts with no ack recorded between
    MaxRestarts         \* bound: builder restarts in all

ASSUME QueueAssumption ==
    /\ MaxLinesPerEvent \in Nat \ {0} /\ MaxQueuedLines \in Nat
    /\ MaxLinesPerEvent <= MaxQueuedLines
    /\ SeqResumeMargin \in Nat
    /\ MaxEvents \in Nat /\ MaxLines \in Nat
    /\ MaxUnackedRestarts \in Nat /\ MaxRestarts \in Nat

\* A builder that restarts skips more numbers than acks can go unrecorded.
ASSUME MarginAssumption ==
    MaxUnrecorded \in Nat /\ MaxUnrecorded < SeqResumeMargin

VARIABLES
    items,      \* Queue.items behind the one being sent
    queued,     \* Queue.queued: log lines in the queue, sent one included
    srcTotal,   \* Queue.srcTotal: log lines handed to Log
    ackedSrc,   \* Queue.ackedSrc: log lines core has, or that were dropped
    nextSeq,    \* Queue.nextSeq
    closed,     \* Queue.closed
    phase,      \* the sending goroutine: idle, posting, answered, acked, done
    cur,        \* the item it sends: [seq, body]
    up,         \* the builder process runs
    ann,        \* Job annotations acked-seq and acked-log-lines
    posts,      \* requests that core has not handled yet
    lastSeq,    \* builds.last_event_seq
    applied,    \* history: events core has applied
    effects,    \* history: how many times core applied an event
    delivered,  \* history: events other than logs, in the order core applied them
    submitted,  \* history: calls of Event
    unrecorded, \* history: acks since the last one recorded
    unackedRestarts, \* history: restarts since the last ack recorded
    restarts    \* history: restarts

queueVars == <<items, queued, srcTotal, closed>>
builderVars == <<queueVars, ackedSrc, nextSeq, phase, cur, up>>
coreVars == <<lastSeq, applied, effects, delivered>>
historyVars == <<unrecorded, unackedRestarts, restarts>>
vars == <<builderVars, ann, posts, coreVars, submitted, historyVars>>

EventItem(id) == [type |-> "event", id |-> id]
LogItem(n, omitted, srcEnd) ==
    [type |-> "log", n |-> n, omitted |-> omitted, srcEnd |-> srcEnd]
IsLog(it) == it.type = "log"
Smaller(a, b) == IF a <= b THEN a ELSE b
LinesOf(it) == IF IsLog(it) THEN it.n ELSE 0

Item == [type : {"event"}, id : Nat \ {0}]
        \cup [type : {"log"}, n : Nat, omitted : Nat, srcEnd : Nat]
Post == [seq : Nat \ {0}, body : Item]
None == [seq |-> 0, body |-> EventItem(0)]

-------------------------------------------------------------------------------
(***************************************************************************)
(* Queue.Log and Queue.dropOldLocked.                                      *)
(***************************************************************************)

\* The items that n more lines become.
Split(n) ==
    [k \in 1 .. (n + MaxLinesPerEvent - 1) \div MaxLinesPerEvent |->
        LET before == (k - 1) * MaxLinesPerEvent
            size   == Smaller(MaxLinesPerEvent, n - before)
        IN  LogItem(size, 0, srcTotal + before + size)]

\* Item i of s gives up k of its oldest lines.
Shortened(s, i, k) ==
    [s EXCEPT ![i] = LogItem(@.n - k, @.omitted + k, @.srcEnd)]

\* Mutant: the merge forgets what item i had omitted.
AbsorbedForgets(s, i) == SubSeq(s, 1, i - 1) \o SubSeq(s, i + 1, Len(s))

\* Item i of s, which is empty, becomes part of the omission of item i + 1.
Absorbed(s, i) ==
    LET merged == [s EXCEPT ![i + 1] = LogItem(@.n, @.omitted + s[i].omitted, @.srcEnd)]
    IN  SubSeq(merged, 1, i - 1) \o SubSeq(merged, i + 1, Len(merged))

\* The loop of dropOldLocked, entered at item i with "excess" lines too many.
dropOld[arg \in Seq(Item) \X (Nat \ {0}) \X Nat] ==
    LET s == arg[1]
        i == arg[2]
        excess == arg[3]
        k == Smaller(LinesOf(s[i]), excess)
        t == Shortened(s, i, k)
    IN  IF excess = 0 \/ i > Len(s)   THEN s
        ELSE IF LinesOf(s[i]) = 0     THEN dropOld[<<s, i + 1, excess>>]
        ELSE IF t[i].n > 0            THEN t
        ELSE IF i < Len(s) /\ IsLog(s[i + 1])
                                      THEN dropOld[<<Absorbed(t, i), i, excess - k>>]
        ELSE dropOld[<<t, i + 1, excess - k>>]

\* Mutants: one line goes at a time; the limit is off by one.
OverflowOneLine(q) == IF q > MaxQueuedLines THEN 1 ELSE 0
OverflowOffByOne(q) == IF q > MaxQueuedLines + 1 THEN q - MaxQueuedLines - 1 ELSE 0

Overflow(q) == IF q > MaxQueuedLines THEN q - MaxQueuedLines ELSE 0

Log(n) ==
    /\ up /\ ~ closed
    /\ srcTotal + n <= MaxLines
    /\ items' = dropOld[<<items \o Split(n), 1, Overflow(queued + n)>>]
    /\ queued' = queued + n - Overflow(queued + n)
    /\ srcTotal' = srcTotal + n
    /\ UNCHANGED <<ackedSrc, nextSeq, closed, phase, cur, up, ann, posts,
                   coreVars, submitted, historyVars>>

Event ==
    /\ up /\ ~ closed
    /\ submitted < MaxEvents
    /\ submitted' = submitted + 1
    /\ items' = Append(items, EventItem(submitted'))
    /\ UNCHANGED <<queued, srcTotal, ackedSrc, nextSeq, closed, phase, cur, up,
                   ann, posts, coreVars, historyVars>>

Close ==
    /\ up /\ ~ closed
    /\ closed' = TRUE
    /\ UNCHANGED <<items, queued, srcTotal, ackedSrc, nextSeq, phase, cur, up,
                   ann, posts, coreVars, submitted, historyVars>>

-------------------------------------------------------------------------------
(***************************************************************************)
(* The sending goroutine: Queue.next and Queue.run.                        *)
(***************************************************************************)

PickWith(newNext) ==
    /\ up /\ phase = "idle" /\ items # <<>>
    /\ cur' = [seq |-> nextSeq, body |-> Head(items)]
    /\ items' = Tail(items)
    /\ nextSeq' = newNext
    /\ phase' = "posting"
    /\ UNCHANGED <<queued, srcTotal, ackedSrc, closed, up, ann, posts, coreVars,
                   submitted, historyVars>>

\* Mutant: log events do not use up a number.
PickLogKeepsSeq == PickWith(IF IsLog(Head(items)) THEN nextSeq ELSE nextSeq + 1)

\* next takes the first item and numbers it.
Pick == PickWith(nextSeq + 1)

\* Mutant: a queue that is closed before it sent anything is not woken.
DrainedMissed ==
    /\ nextSeq > 1
    /\ up /\ phase = "idle" /\ items = <<>> /\ closed
    /\ phase' = "done"
    /\ UNCHANGED <<queueVars, ackedSrc, nextSeq, cur, up, ann, posts, coreVars,
                   submitted, historyVars>>

\* next finds the queue closed and empty: the goroutine ends.
Drained ==
    /\ up /\ phase = "idle" /\ items = <<>> /\ closed
    /\ phase' = "done"
    /\ UNCHANGED <<queueVars, ackedSrc, nextSeq, cur, up, ann, posts, coreVars,
                   submitted, historyVars>>

\* One attempt of post.  It is made again, with the same number, as long as
\* no 2xx comes back.
SendPost ==
    /\ up /\ phase = "posting"
    /\ posts' = posts \cup {cur}
    /\ UNCHANGED <<builderVars, ann, coreVars, submitted, historyVars>>

\* Mutant: the goroutine gives up on an event that fails.
LosePostGivesUp(p) ==
    /\ p \in posts
    /\ posts' = posts \ {p}
    /\ IF p = cur /\ phase = "posting" THEN phase' = "idle" /\ cur' = None
                                      ELSE UNCHANGED <<phase, cur>>
    /\ UNCHANGED <<queueVars, ackedSrc, nextSeq, up, ann, coreVars, submitted,
                   historyVars>>

\* The request does not reach core, or core answers with an error.
LosePost(p) ==
    /\ p \in posts
    /\ posts' = posts \ {p}
    /\ UNCHANGED <<builderVars, ann, coreVars, submitted, historyVars>>

\* core handles a request (events.apply under the row lock): an event whose
\* number is not above last_event_seq is a duplicate.
ApplyEvent(p) ==
    /\ lastSeq' = p.seq
    /\ applied' = applied \cup {p}
    /\ effects' = effects + 1
    /\ delivered' = IF IsLog(p.body) THEN delivered ELSE Append(delivered, p.body.id)

ApplyEqualSeq(p) == IF p.seq >= lastSeq THEN ApplyEvent(p) ELSE UNCHANGED coreVars
ApplyUnchecked(p) == ApplyEvent(p)

Apply(p) == IF p.seq > lastSeq THEN ApplyEvent(p) ELSE UNCHANGED coreVars

\* core handles a request whose answer does not reach the builder: the
\* connection broke, the attempt had timed out or the builder is gone.
\* Another attempt of the same request may still be on its way.
HandleUnheard(p) ==
    /\ p \in posts
    /\ Apply(p)
    /\ posts' \in {posts, posts \ {p}}
    /\ UNCHANGED <<builderVars, ann, submitted, historyVars>>

\* core handles the request the builder is waiting for and its 2xx arrives.
HandleAnswered ==
    /\ up /\ phase = "posting" /\ cur \in posts
    /\ Apply(cur)
    /\ posts' \in {posts, posts \ {cur}}
    /\ phase' = "answered"
    /\ UNCHANGED <<queueVars, ackedSrc, nextSeq, cur, up, ann, submitted,
                   historyVars>>

\* run takes the item off the queue.
Ack ==
    /\ up /\ phase = "answered"
    /\ phase' = "acked"
    /\ queued' = queued - LinesOf(cur.body)
    /\ ackedSrc' = IF IsLog(cur.body) THEN cur.body.srcEnd ELSE ackedSrc
    /\ UNCHANGED <<items, srcTotal, closed, nextSeq, cur, up, ann, posts, coreVars,
                   submitted, historyVars>>

\* onAck writes the annotations.
Record(seq, lines) ==
    /\ up /\ phase = "acked"
    /\ ann' = [seq |-> seq, lines |-> lines]
    /\ unrecorded' = 0 /\ unackedRestarts' = 0
    /\ phase' = "idle" /\ cur' = None
    /\ UNCHANGED <<queueVars, ackedSrc, nextSeq, up, posts, coreVars, submitted,
                   restarts>>

\* Mutant: the annotation counts lines that are only queued.
RecordQueuedLines == Record(cur.seq, srcTotal)

OnAckRecord == Record(cur.seq, ackedSrc)

\* onAck does not: a log event within ackWriteEvery, or the write failed.
OnAckSkip ==
    /\ up /\ phase = "acked"
    /\ unrecorded < MaxUnrecorded
    /\ unrecorded' = unrecorded + 1
    /\ phase' = "idle" /\ cur' = None
    /\ UNCHANGED <<queueVars, ackedSrc, nextSeq, up, ann, posts, coreVars, submitted,
                   unackedRestarts, restarts>>

-------------------------------------------------------------------------------
(***************************************************************************)
(* Restart of the builder.                                                 *)
(***************************************************************************)

\* The process ends: the queue is lost, requests already sent are not.
Crash ==
    /\ up
    /\ restarts < MaxRestarts /\ unackedRestarts < MaxUnackedRestarts
    /\ up' = FALSE
    /\ items' = <<>> /\ queued' = 0
    /\ phase' = "idle" /\ cur' = None
    /\ UNCHANGED <<srcTotal, closed, ackedSrc, nextSeq, ann, posts, coreVars,
                   submitted, historyVars>>

\* A new process starts a queue that numbers from "first".
ResumeFrom(first) ==
    /\ ~ up
    /\ up' = TRUE
    /\ nextSeq' = first
    /\ srcTotal' = ann.lines /\ ackedSrc' = ann.lines
    /\ closed' = FALSE
    /\ restarts' = restarts + 1
    /\ unackedRestarts' = unackedRestarts + 1
    /\ UNCHANGED <<items, queued, phase, cur, ann, posts, coreVars, submitted,
                   unrecorded>>

\* Mutant: no margin after the last recorded number.
ResumeNoMargin == ResumeFrom(ann.seq + 1)

\* Manager.Resume reads the annotations.
Resume == ResumeFrom(ann.seq + 1 + SeqResumeMargin)

-------------------------------------------------------------------------------
Init ==
    /\ items = <<>> /\ queued = 0 /\ srcTotal = 0 /\ ackedSrc = 0
    /\ nextSeq = 1 /\ closed = FALSE
    /\ phase = "idle" /\ cur = None
    /\ up = TRUE
    /\ ann = [seq |-> 0, lines |-> 0]
    /\ posts = {}
    /\ lastSeq = 0 /\ applied = {} /\ effects = 0 /\ delivered = <<>>
    /\ submitted = 0
    /\ unrecorded = 0 /\ unackedRestarts = 0 /\ restarts = 0

Next ==
    \/ \E n \in 1 .. MaxLines : Log(n)
    \/ Event \/ Close
    \/ Pick \/ Drained \/ SendPost
    \/ \E p \in posts : LosePost(p) \/ HandleUnheard(p)
    \/ HandleAnswered \/ Ack \/ OnAckRecord \/ OnAckSkip
    \/ Crash \/ Resume

Spec == Init /\ [][Next]_vars

(***************************************************************************)
(* Fairness: the sending goroutine keeps running, post is repeated without *)
(* end, and core, which is restarted when it fails, answers some attempt   *)
(* in the end.  Nothing is assumed of the run goroutine or of crashes.     *)
(***************************************************************************)
Fairness ==
    /\ WF_vars(Pick) /\ WF_vars(Drained) /\ WF_vars(SendPost)
    /\ SF_vars(HandleAnswered)
    /\ WF_vars(Ack) /\ WF_vars(OnAckRecord \/ OnAckSkip)

FairSpec == Spec /\ Fairness

-------------------------------------------------------------------------------
(***************************************************************************)
(* Properties.                                                             *)
(***************************************************************************)

\* The types of the channel's delivery half: numbers, requests and the row.
DeliveryTypeOK ==
    /\ nextSeq \in Nat \ {0}
    /\ phase \in {"idle", "posting", "answered", "acked", "done"}
    /\ up \in BOOLEAN
    /\ ann.seq \in Nat /\ lastSeq \in Nat
    /\ cur.seq \in Nat
    /\ \A p \in posts \cup applied : p.seq \in Nat \ {0}
    /\ unrecorded \in 0 .. MaxUnrecorded
    /\ unackedRestarts \in 0 .. MaxUnackedRestarts /\ restarts \in Nat

\* The type invariant of the whole channel.
TypeOK ==
    /\ DeliveryTypeOK
    /\ items \in Seq(Item)
    /\ queued \in 0 .. MaxQueuedLines /\ srcTotal \in 0 .. MaxLines
    /\ ackedSrc \in 0 .. MaxLines /\ ann.lines \in 0 .. MaxLines
    /\ closed \in BOOLEAN
    /\ cur \in Post \cup {None}
    /\ posts \subseteq Post /\ applied \subseteq Post
    /\ submitted \in 0 .. MaxEvents /\ effects \in Nat
    /\ delivered \in Seq(Nat \ {0})

\* At least once (callback.go:2): an item leaves the queue only after core
\* has applied that very event.  A 2xx that core gives to a duplicate is as
\* good as one it gives to the event itself, whatever was lost, repeated or
\* delayed in between and however often the builder was restarted.
AckedMeansApplied ==
    phase \in {"answered", "acked"} => cur \in applied

\* A number stands for one event only, among what core has applied, what is
\* on its way and what is being sent (manager.go:88-89).
Known == posts \cup applied \cup ({cur} \ {None})
SeqNamesOneEvent == \A p, q \in Known : p.seq = q.seq => p = q

\* core applies an event once, however often its request is repeated: two
\* attempts of one event may be handled one after the other (events.py:3-5).
AppliedOnce == effects = Cardinality(applied)

\* The items of the queue, the one being sent first.
Sent == phase \in {"posting", "answered"}
InQueue == (IF Sent THEN <<cur.body>> ELSE <<>>) \o items

FirstLine(it) == it.srcEnd - it.n - it.omitted + 1
LogsIn(s) == {i \in 1 .. Len(s) : IsLog(s[i])}

\* However lines are split, dropped and merged (dropOldLocked), the items of
\* a queue account for every line since the last acknowledged one, in order
\* and once: as text or inside the count of an omission marker.
LinesTiled ==
    LET q == InQueue
    IN  up => /\ \A i, j \in LogsIn(q) : i < j => q[i].srcEnd < FirstLine(q[j])
              /\ UNION {FirstLine(q[i]) .. q[i].srcEnd : i \in LogsIn(q)}
                    = ackedSrc + 1 .. srcTotal

\* The newest lines survive (callback.go:130): the queue holds at most
\* MaxQueuedLines, and the lines that wait with their text behind the item
\* being sent are the newest ones, as many as q.queued says.
NewestKept ==
    LET waiting == queued - (IF Sent THEN LinesOf(cur.body) ELSE 0)
    IN  /\ queued <= MaxQueuedLines
        /\ UNION {items[i].srcEnd - items[i].n + 1 .. items[i].srcEnd : i \in LogsIn(items)}
              = srcTotal - waiting + 1 .. srcTotal

\* The build log core shows has no silent gap, over restarts too: each line
\* up to the newest one core has was shown by an earlier event or counted in
\* its omission marker.
AppliedLogs == {p \in applied : IsLog(p.body)}
Accounts(p, line) == line \in FirstLine(p.body) .. p.body.srcEnd
NoSilentGap ==
    \A p \in AppliedLogs : \A line \in 1 .. p.body.srcEnd :
        \E q \in AppliedLogs : q.seq <= p.seq /\ Accounts(q, line)

\* An event other than a log is never dropped (callback.go:3): unless the
\* builder dies first, core gets it in the end.
Waits(id) ==
    \/ phase = "posting" /\ cur.body = EventItem(id)
    \/ \E i \in 1 .. Len(items) : items[i] = EventItem(id)
Arrived(id) == \E p \in applied : p.body = EventItem(id)
EventsArrive == \A id \in 1 .. MaxEvents : Waits(id) ~> (Arrived(id) \/ ~ up)

\* After Close the goroutine sends what is left and ends (callback.go:167),
\* which Manager.Shutdown waits for.
CloseDrains == (closed /\ up) ~> (phase = "done" \/ ~ up)

\* Events of the running process that core has not applied: those that wait,
\* and the one being sent.
EventIds(s) == {s[i].id : i \in (1 .. Len(s)) \ LogsIn(s)}
SendsNew == phase = "posting" /\ cur \notin applied /\ ~ IsLog(cur.body)
Undelivered == EventIds(items) \cup (IF SendsNew THEN {cur.body.id} ELSE {})

\* They are to be told in the order of their numbers, from the first one on.
FirstPending ==
    CHOOSE x \in Undelivered \cup {submitted + 1} : \A y \in Undelivered : x <= y
PendingEvents == [i \in 1 .. submitted + 1 - FirstPending |-> FirstPending + i - 1]

\* Requests of earlier processes that core would still apply.
LateEvents ==
    {p.body.id : p \in {q \in posts : ~ IsLog(q.body) /\ q # cur /\ q.seq > lastSeq}}

Abstract == INSTANCE OrderedDelivery
    WITH Bound <- MaxEvents, count <- submitted, pending <- PendingEvents,
         late <- LateEvents

\* The channel keeps the promise of OrderedDelivery: events reach core in the
\* order the run goroutine submitted them, none skipped, none twice.
DeliversInOrder == Abstract!Spec
===============================================================================
