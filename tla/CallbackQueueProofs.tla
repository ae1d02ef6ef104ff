------------------------- MODULE CallbackQueueProofs -------------------------
(***************************************************************************)
(* CallbackQueue, proved for queues, margins, events, log lines and        *)
(* restarts of any number.  First the delivery half, when no builder       *)
(* restarts twice without an acknowledgement recorded in between; that     *)
(* core applies an event once needs no such limit.  Then the log half:     *)
(* what splitting, dropping and merging make of the lines of a build.      *)
(* Last the order of the events, with an introduction of its own.          *)
(*                                                                         *)
(* The delivery half.  Every number in use is below nextSeq.  While the    *)
(* process runs, a new number is nextSeq itself, so it is new.  When it    *)
(* restarts, the numbers in use are at most MaxUnrecorded + 1 above the    *)
(* annotation, and the first new one is SeqResumeMargin + 1 above it.      *)
(*                                                                         *)
(* The log half.                                                           *)
(*   - dropOld is defined by a recursion that TLAPS cannot unfold. It is a *)
(*     tail recursion, and a measure falls with every turn                 *)
(*     (TailRecursion), so the equation has a solution and dropOld         *)
(*     satisfies it (DropOldStep).                                         *)
(*   - What holds at the end of the loop is found as for a loop: an        *)
(*     invariant (Loop) that every turn keeps, and no argument of least    *)
(*     measure can be the first where it fails (NoDescent, DropOldKeeps).  *)
(*   - Tiles says which lines items account for, Keeps which ones they     *)
(*     hold with their text.  Split, \o, Tail and dropOld keep both.       *)
(*   - LogInv says both of the queue behind the item being sent, and ties  *)
(*     that item to the line core has acknowledged.                        *)
(*   - ShownInv goes from there to core: a log event starts at most one    *)
(*     line behind what core has been shown.                               *)
(***************************************************************************)
EXTENDS CallbackQueue, FiniteSetTheorems, SequenceTheorems, WellFoundedInduction, TLAPS

Sending == phase \in {"posting", "answered", "acked"}

\* Every number in use is below nextSeq, and the event being sent has the
\* newest one.
NumbersBelow ==
    /\ \A p \in posts \cup applied : p.seq < nextSeq
    /\ Sending => cur.seq = nextSeq - 1 /\ cur.seq # 0
    /\ ~ Sending => cur = None

\* Where the annotation stands, as long as the running process has recorded
\* one: what is not recorded yet is at most one event more than the skipped
\* acknowledgements.
AnnotationNear ==
    /\ ~ up => phase = "idle" /\ unackedRestarts < MaxUnackedRestarts
    /\ unackedRestarts = 0 =>
          nextSeq <= ann.seq + unrecorded + (IF up /\ ~ Sending THEN 1 ELSE 2)

\* core's row carries the number of an event it applied.
RowBacked ==
    /\ lastSeq < nextSeq
    /\ lastSeq = 0 \/ \E p \in applied : p.seq = lastSeq

DeliveryInv ==
    /\ DeliveryTypeOK
    /\ NumbersBelow
    /\ AnnotationNear
    /\ RowBacked
    /\ SeqNamesOneEvent
    /\ AckedMeansApplied

-------------------------------------------------------------------------------
LEMMA NoneHasNoNumber == None.seq = 0
BY DEF None, EventItem

\* The initial state.
LEMMA InitDelivery == MaxUnackedRestarts = 1 /\ Init => DeliveryInv
<1> SUFFICES ASSUME MaxUnackedRestarts = 1, Init PROVE DeliveryInv
  OBVIOUS
<1> USE MarginAssumption, QueueAssumption, NoneHasNoNumber DEF Init
<1>1. DeliveryTypeOK
  BY DEF DeliveryTypeOK
<1>2. NumbersBelow /\ AnnotationNear /\ RowBacked
  BY DEF NumbersBelow, AnnotationNear, RowBacked, Sending
<1>3. SeqNamesOneEvent /\ AckedMeansApplied
  BY DEF SeqNamesOneEvent, AckedMeansApplied, Known
<1> QED BY <1>1, <1>2, <1>3 DEF DeliveryInv

-------------------------------------------------------------------------------
(***************************************************************************)
(* The invariant step, one lemma per kind of action.                       *)
(***************************************************************************)

\* Actions of the run goroutine and of the network leave numbers alone.
LEMMA QuietStep ==
    ASSUME DeliveryInv,
           UNCHANGED <<nextSeq, phase, cur, up, ann, applied, lastSeq,
                       historyVars>>,
           posts' \subseteq posts \cup ({cur} \ {None})
    PROVE  DeliveryInv'
<1> USE DEF DeliveryInv, historyVars
<1>1. DeliveryTypeOK'
  BY NoneHasNoNumber DEF DeliveryTypeOK, NumbersBelow, Sending
<1>2. NumbersBelow'
  BY NoneHasNoNumber DEF NumbersBelow, Sending, DeliveryTypeOK
<1>3. AnnotationNear' /\ RowBacked'
  BY DEF AnnotationNear, RowBacked, Sending
<1>4. SeqNamesOneEvent'
  BY DEF SeqNamesOneEvent, Known
<1>5. AckedMeansApplied'
  BY DEF AckedMeansApplied
<1> QED BY <1>1, <1>2, <1>3, <1>4, <1>5

\* A new event gets a number that is not in use.
LEMMA PickStep ==
    ASSUME DeliveryInv, Pick PROVE DeliveryInv'
<1> USE DEF DeliveryInv, Pick, PickWith, queueVars, coreVars, historyVars
<1>1. cur = None /\ cur'.seq = nextSeq /\ phase' = "posting"
  BY DEF NumbersBelow, Sending
<1>2. DeliveryTypeOK'
  BY <1>1 DEF DeliveryTypeOK
<1>3. NumbersBelow'
  BY <1>1 DEF NumbersBelow, Sending, DeliveryTypeOK
<1>4. AnnotationNear' /\ RowBacked'
  BY <1>1 DEF AnnotationNear, RowBacked, Sending, DeliveryTypeOK
<1>5. SeqNamesOneEvent'
  BY <1>1 DEF SeqNamesOneEvent, Known, NumbersBelow, DeliveryTypeOK
<1>6. AckedMeansApplied'
  BY <1>1 DEF AckedMeansApplied
<1> QED BY <1>2, <1>3, <1>4, <1>5, <1>6

\* The goroutine ends with nothing in its hands.
LEMMA DrainedStep ==
    ASSUME DeliveryInv, Drained PROVE DeliveryInv'
<1> USE DEF DeliveryInv, Drained, queueVars, coreVars, historyVars
<1>1. DeliveryTypeOK' /\ SeqNamesOneEvent' /\ AckedMeansApplied'
  BY DEF DeliveryTypeOK, SeqNamesOneEvent, Known, AckedMeansApplied
<1>2. NumbersBelow' /\ AnnotationNear' /\ RowBacked'
  BY DEF NumbersBelow, AnnotationNear, RowBacked, Sending, DeliveryTypeOK
<1> QED BY <1>1, <1>2

\* What core makes of a request keeps the row backed by an applied event.
LEMMA ApplyKeeps ==
    ASSUME DeliveryInv, NEW p \in posts, Apply(p)
    PROVE  /\ applied' \subseteq applied \cup {p} /\ applied \subseteq applied'
           /\ lastSeq' \in Nat /\ lastSeq' < nextSeq
           /\ lastSeq' = 0 \/ \E q \in applied' : q.seq = lastSeq'
BY DEF DeliveryInv, DeliveryTypeOK, NumbersBelow, RowBacked, Apply, ApplyEvent, coreVars

\* core handles some request, whoever hears the answer.
LEMMA UnheardStep ==
    ASSUME DeliveryInv, NEW p \in posts, HandleUnheard(p) PROVE DeliveryInv'
<1> USE DEF DeliveryInv, HandleUnheard, builderVars, queueVars, historyVars
<1>1. /\ applied' \subseteq applied \cup {p} /\ applied \subseteq applied'
      /\ lastSeq' \in Nat /\ lastSeq' < nextSeq
      /\ lastSeq' = 0 \/ \E q \in applied' : q.seq = lastSeq'
  BY ApplyKeeps
<1>2. posts' \subseteq posts
  OBVIOUS
<1>3. DeliveryTypeOK'
  BY <1>1, <1>2 DEF DeliveryTypeOK
<1>4. NumbersBelow' /\ AnnotationNear' /\ RowBacked'
  BY <1>1, <1>2 DEF NumbersBelow, AnnotationNear, RowBacked, Sending
<1>5. SeqNamesOneEvent'
  BY <1>1, <1>2 DEF SeqNamesOneEvent, Known
<1>6. AckedMeansApplied'
  BY <1>1 DEF AckedMeansApplied
<1> QED BY <1>3, <1>4, <1>5, <1>6

\* A 2xx means core has applied this very event: either now, or before, in
\* which case the number on its row is the number of this event and so the
\* event it applied is this one.
LEMMA AnsweredStep ==
    ASSUME DeliveryInv, HandleAnswered PROVE DeliveryInv'
<1> USE DEF DeliveryInv, HandleAnswered, queueVars, historyVars
<1>1. /\ applied' \subseteq applied \cup {cur} /\ applied \subseteq applied'
      /\ lastSeq' \in Nat /\ lastSeq' < nextSeq
      /\ lastSeq' = 0 \/ \E q \in applied' : q.seq = lastSeq'
  BY ApplyKeeps
<1>2. posts' \subseteq posts
  OBVIOUS
<1>3. cur.seq = nextSeq - 1 /\ cur.seq # 0 /\ cur # None
  BY NoneHasNoNumber DEF NumbersBelow, Sending
<1>4. cur \in applied'
  <2>1. CASE cur.seq > lastSeq
    BY <2>1 DEF Apply, ApplyEvent
  <2>2. CASE ~ (cur.seq > lastSeq)
    <3>1. lastSeq = cur.seq
      BY <2>2, <1>3 DEF RowBacked, DeliveryTypeOK
    <3>2. PICK q \in applied : q.seq = cur.seq
      BY <3>1, <1>3 DEF RowBacked
    <3>3. q = cur
      BY <3>2, <1>3 DEF SeqNamesOneEvent, Known
    <3> QED BY <3>2, <3>3, <1>1
  <2> QED BY <2>1, <2>2
<1>5. DeliveryTypeOK'
  BY <1>1, <1>2 DEF DeliveryTypeOK
<1>6. NumbersBelow' /\ AnnotationNear' /\ RowBacked'
  BY <1>1, <1>2, <1>3 DEF NumbersBelow, AnnotationNear, RowBacked, Sending
<1>7. SeqNamesOneEvent'
  BY <1>1, <1>2 DEF SeqNamesOneEvent, Known
<1>8. AckedMeansApplied'
  BY <1>4 DEF AckedMeansApplied
<1> QED BY <1>5, <1>6, <1>7, <1>8

\* Taking the item off the queue leaves it in the goroutine's hands.
LEMMA AckStep ==
    ASSUME DeliveryInv, Ack PROVE DeliveryInv'
<1> USE DEF DeliveryInv, Ack, coreVars, historyVars
<1>1. DeliveryTypeOK' /\ SeqNamesOneEvent' /\ AckedMeansApplied'
  BY DEF DeliveryTypeOK, SeqNamesOneEvent, Known, AckedMeansApplied
<1>2. NumbersBelow' /\ AnnotationNear' /\ RowBacked'
  BY DEF NumbersBelow, AnnotationNear, RowBacked, Sending
<1> QED BY <1>1, <1>2

\* The annotation catches up with the numbers in use.
LEMMA RecordStep ==
    ASSUME DeliveryInv, OnAckRecord, MaxUnackedRestarts = 1 PROVE DeliveryInv'
<1> USE MarginAssumption, NoneHasNoNumber
    DEF DeliveryInv, OnAckRecord, Record, queueVars, coreVars
<1>1. DeliveryTypeOK' /\ SeqNamesOneEvent' /\ AckedMeansApplied'
  BY DEF DeliveryTypeOK, SeqNamesOneEvent, Known, AckedMeansApplied
<1>2. NumbersBelow' /\ AnnotationNear' /\ RowBacked'
  BY DEF NumbersBelow, AnnotationNear, RowBacked, Sending, DeliveryTypeOK
<1> QED BY <1>1, <1>2

\* An ack that is not recorded is counted.
LEMMA SkipStep ==
    ASSUME DeliveryInv, OnAckSkip PROVE DeliveryInv'
<1> USE MarginAssumption, NoneHasNoNumber
    DEF DeliveryInv, OnAckSkip, queueVars, coreVars
<1>1. DeliveryTypeOK' /\ SeqNamesOneEvent' /\ AckedMeansApplied'
  BY DEF DeliveryTypeOK, SeqNamesOneEvent, Known, AckedMeansApplied
<1>2. NumbersBelow' /\ AnnotationNear' /\ RowBacked'
  BY DEF NumbersBelow, AnnotationNear, RowBacked, Sending, DeliveryTypeOK
<1> QED BY <1>1, <1>2

\* A dead process sends nothing; what it sent stays known.
LEMMA CrashStep ==
    ASSUME DeliveryInv, Crash PROVE DeliveryInv'
<1> USE NoneHasNoNumber DEF DeliveryInv, Crash, coreVars, historyVars
<1>0. up' \in BOOLEAN
  BY Zenon
<1>1. DeliveryTypeOK' /\ SeqNamesOneEvent' /\ AckedMeansApplied'
  BY <1>0 DEF DeliveryTypeOK, SeqNamesOneEvent, Known, AckedMeansApplied
<1>2. NumbersBelow' /\ RowBacked'
  BY DEF NumbersBelow, RowBacked, Sending
<1>3. AnnotationNear'
  BY DEF AnnotationNear, Sending, DeliveryTypeOK
<1> QED BY <1>1, <1>2, <1>3

\* The margin puts the new queue's first number above all numbers in use.
LEMMA ResumeStep ==
    ASSUME DeliveryInv, Resume, MaxUnackedRestarts = 1 PROVE DeliveryInv'
<1> USE MarginAssumption, QueueAssumption
    DEF DeliveryInv, Resume, ResumeFrom, coreVars
<1>1. unackedRestarts = 0 /\ nextSeq <= ann.seq + unrecorded + 2
  BY DEF AnnotationNear, DeliveryTypeOK
<1>2. nextSeq <= nextSeq' /\ nextSeq' \in Nat \ {0}
  BY <1>1 DEF DeliveryTypeOK
<1>3. DeliveryTypeOK' /\ SeqNamesOneEvent' /\ AckedMeansApplied'
  BY <1>1, <1>2 DEF DeliveryTypeOK, SeqNamesOneEvent, Known, AckedMeansApplied
<1>4. phase = "idle" /\ cur = None
  BY DEF AnnotationNear, NumbersBelow, Sending
<1>5. NumbersBelow' /\ RowBacked'
  BY <1>2, <1>4 DEF NumbersBelow, RowBacked, Sending, DeliveryTypeOK
<1>6. AnnotationNear'
  BY <1>1, <1>4 DEF AnnotationNear, Sending
<1> QED BY <1>3, <1>5, <1>6

-------------------------------------------------------------------------------
LEMMA NextDelivery ==
    ASSUME MaxUnackedRestarts = 1, DeliveryInv, [Next]_vars PROVE DeliveryInv'
<1>1. CASE \E n \in 1 .. MaxLines : Log(n)
  <2>1. /\ UNCHANGED <<nextSeq, phase, cur, up, ann, applied, lastSeq, historyVars>>
        /\ posts' \subseteq posts \cup ({cur} \ {None})
    BY <1>1 DEF Log, coreVars
  <2> QED BY <2>1, QuietStep
<1>2. CASE Event \/ Close
  <2>1. /\ UNCHANGED <<nextSeq, phase, cur, up, ann, applied, lastSeq, historyVars>>
        /\ posts' \subseteq posts \cup ({cur} \ {None})
    BY <1>2 DEF Event, Close, coreVars
  <2> QED BY <2>1, QuietStep
<1>3. CASE SendPost
  <2>1. cur # None
    BY <1>3, NoneHasNoNumber DEF SendPost, DeliveryInv, NumbersBelow, Sending
  <2>2. /\ UNCHANGED <<nextSeq, phase, cur, up, ann, applied, lastSeq, historyVars>>
        /\ posts' \subseteq posts \cup ({cur} \ {None})
    BY <1>3, <2>1 DEF SendPost, builderVars, coreVars
  <2> QED BY <2>2, QuietStep
<1>4. CASE \E p \in posts : LosePost(p)
  <2>1. /\ UNCHANGED <<nextSeq, phase, cur, up, ann, applied, lastSeq, historyVars>>
        /\ posts' \subseteq posts \cup ({cur} \ {None})
    BY <1>4 DEF LosePost, builderVars, coreVars
  <2> QED BY <2>1, QuietStep
<1>5. CASE \E p \in posts : HandleUnheard(p)
  BY <1>5, UnheardStep
<1>6. CASE Pick \/ Drained
  BY <1>6, PickStep, DrainedStep
<1>7. CASE HandleAnswered \/ Ack \/ OnAckRecord \/ OnAckSkip
  BY <1>7, AnsweredStep, AckStep, RecordStep, SkipStep
<1>8. CASE Crash \/ Resume
  BY <1>8, CrashStep, ResumeStep
<1>9. CASE UNCHANGED vars
  <2>1. /\ UNCHANGED <<nextSeq, phase, cur, up, ann, applied, lastSeq, historyVars>>
        /\ posts' \subseteq posts \cup ({cur} \ {None})
    BY <1>9 DEF vars, builderVars, coreVars
  <2> QED BY <2>1, QuietStep
<1> QED BY <1>1, <1>2, <1>3, <1>4, <1>5, <1>6, <1>7, <1>8, <1>9 DEF Next

\* Whatever is lost, repeated, delayed or dropped, and however often the
\* builder restarts (with an ack recorded in between): the delivery half has
\* its types, every number names one event, and an event leaves the queue
\* only when core has applied it.  MaxUnackedRestarts = 1 is needed: run
\* queue_two_restarts shows an event lost when it is 2.
THEOREM DeliveryCorrect ==
    ASSUME MaxUnackedRestarts = 1
    PROVE  Spec => []DeliveryInv
<1>1. Init => DeliveryInv
  BY InitDelivery
<1>2. DeliveryInv /\ [Next]_vars => DeliveryInv'
  BY NextDelivery
<1> QED BY <1>1, <1>2, PTL DEF Spec

\* At least once: an event leaves the queue only after core has applied it.
THEOREM AtLeastOnce ==
    ASSUME MaxUnackedRestarts = 1
    PROVE  Spec => []AckedMeansApplied
<1>1. DeliveryInv => AckedMeansApplied
  BY DEF DeliveryInv
<1> QED BY <1>1, DeliveryCorrect, PTL

\* A number never names two events.
THEOREM NumbersAreUnique ==
    ASSUME MaxUnackedRestarts = 1
    PROVE  Spec => []SeqNamesOneEvent
<1>1. DeliveryInv => SeqNamesOneEvent
  BY DEF DeliveryInv
<1> QED BY <1>1, DeliveryCorrect, PTL

-------------------------------------------------------------------------------
(***************************************************************************)
(* core applies an event once.  This needs neither unique numbers nor a    *)
(* limit on restarts: what core has applied is not above its row.          *)
(***************************************************************************)
NumbersOK ==
    /\ nextSeq \in Nat /\ ann.seq \in Nat /\ cur.seq \in Nat /\ lastSeq \in Nat
    /\ \A p \in posts : p.seq \in Nat

AppliedBelow ==
    /\ IsFiniteSet(applied)
    /\ \A p \in applied : p.seq \in Nat /\ p.seq <= lastSeq

AppliedInv == NumbersOK /\ AppliedBelow /\ AppliedOnce

\* core makes of a request nothing, or one effect.
LEMMA ApplyOnce ==
    ASSUME AppliedInv, NEW p \in posts, Apply(p)
    PROVE  AppliedBelow' /\ AppliedOnce' /\ lastSeq' \in Nat
<1> USE DEF AppliedInv, NumbersOK, AppliedBelow, AppliedOnce
<1>1. CASE p.seq > lastSeq
  <2>1. lastSeq' = p.seq /\ applied' = applied \cup {p} /\ effects' = effects + 1
    BY <1>1 DEF Apply, ApplyEvent
  <2>2. p \notin applied
    BY <1>1
  <2>3. IsFiniteSet(applied') /\ Cardinality(applied') = Cardinality(applied) + 1
    BY <2>1, <2>2, FS_AddElement
  <2> QED BY <1>1, <2>1, <2>3
<1>2. CASE ~ (p.seq > lastSeq)
  BY <1>2 DEF Apply, coreVars
<1> QED BY <1>1, <1>2

LEMMA AppliedStep == AppliedInv /\ [Next]_vars => AppliedInv'
<1> SUFFICES ASSUME AppliedInv, [Next]_vars PROVE AppliedInv'
  OBVIOUS
<1> USE DEF AppliedInv, builderVars, queueVars, historyVars
<1>same. ASSUME UNCHANGED coreVars, NumbersOK' PROVE AppliedInv'
  BY <1>same DEF coreVars, AppliedBelow, AppliedOnce
<1>none. None.seq \in Nat
  BY DEF None
<1>1. CASE (\E n \in 1 .. MaxLines : Log(n)) \/ Event \/ Close \/ Drained
  <2>1. UNCHANGED <<nextSeq, ann, cur, posts, coreVars>>
    BY <1>1 DEF Log, Event, Close, Drained
  <2> QED BY <1>same, <2>1 DEF NumbersOK, coreVars
<1>2. CASE Pick
  BY <1>2, <1>same DEF Pick, PickWith, NumbersOK, coreVars
<1>3. CASE SendPost \/ \E p \in posts : LosePost(p)
  BY <1>3, <1>same DEF SendPost, LosePost, NumbersOK, coreVars
<1>4. CASE \E p \in posts : HandleUnheard(p)
  <2>1. PICK p \in posts : HandleUnheard(p)
    BY <1>4
  <2>2. AppliedBelow' /\ AppliedOnce' /\ lastSeq' \in Nat
    BY <2>1, ApplyOnce DEF HandleUnheard
  <2> QED BY <2>1, <2>2 DEF HandleUnheard, NumbersOK
<1>5. CASE HandleAnswered
  <2>2. AppliedBelow' /\ AppliedOnce' /\ lastSeq' \in Nat
    BY <1>5, ApplyOnce DEF HandleAnswered
  <2> QED BY <1>5, <2>2 DEF HandleAnswered, NumbersOK
<1>6. CASE Ack
  BY <1>6, <1>same DEF Ack, NumbersOK, coreVars
<1>7. CASE OnAckRecord \/ OnAckSkip
  BY <1>7, <1>same, <1>none DEF OnAckRecord, Record, OnAckSkip, NumbersOK, coreVars
<1>8. CASE Crash
  BY <1>8, <1>same, <1>none DEF Crash, NumbersOK, coreVars
<1>9. CASE Resume
  BY <1>9, <1>same, QueueAssumption, MarginAssumption DEF Resume, ResumeFrom, NumbersOK, coreVars
<1>10. CASE UNCHANGED vars
  BY <1>10, <1>same DEF vars, NumbersOK, coreVars
<1> QED BY <1>1, <1>2, <1>3, <1>4, <1>5, <1>6, <1>7, <1>8, <1>9, <1>10 DEF Next

LEMMA InitApplied == Init => AppliedInv
<1>1. Init => NumbersOK
  BY DEF Init, NumbersOK, None
<1>2. Init => AppliedBelow /\ AppliedOnce
  BY FS_EmptySet DEF Init, AppliedBelow, AppliedOnce
<1> QED BY <1>1, <1>2 DEF AppliedInv

\* core applies an event once, however often its request is sent, repeated or
\* handled, and however often the builder restarts.
THEOREM EffectsAreSingle == Spec => []AppliedOnce
<1>1. Init => AppliedInv
  BY InitApplied
<1>2. AppliedInv => AppliedOnce
  BY DEF AppliedInv
<1> QED BY <1>1, <1>2, AppliedStep, PTL DEF Spec

-------------------------------------------------------------------------------
(***************************************************************************)
(* Loops whose measure falls.                                              *)
(***************************************************************************)

\* A nonempty set of naturals has a least element.
LEMMA Least ==
    ASSUME NEW T, T \subseteq Nat, T # {}
    PROVE  \E n \in T : \A k \in T : n <= k
<1>1. PICK n \in T : \A k \in T : ~ (<<k, n>> \in OpToRel(<, Nat))
  BY NatLessThanWellFounded, WFMin
<1>2. ASSUME NEW k \in T PROVE ~ (k < n)
  BY <1>1, <1>2, Zenon DEF OpToRel
<1>3. \A k \in T : n <= k
  BY <1>2
<1> QED BY <1>3

\* No set has an element of smaller measure for each of its elements.
LEMMA NoDescent ==
    ASSUME NEW D, NEW m \in [D -> Nat], NEW bad, bad \subseteq D,
           \A d \in bad : \E e \in bad : m[e] < m[d]
    PROVE  bad = {}
<1> SUFFICES ASSUME bad # {} PROVE FALSE
  OBVIOUS
<1> DEFINE T == {m[d] : d \in bad}
<1>1. T \subseteq Nat /\ T # {}
  OBVIOUS
<1> HIDE DEF T
<1>2. PICK n \in T : \A k \in T : n <= k
  BY <1>1, Least
<1>3. PICK d \in bad : n = m[d]
  BY DEF T
<1>4. PICK e \in bad : m[e] < m[d]
  OBVIOUS
<1>5. m[e] \in T
  BY DEF T
<1> QED BY <1>1, <1>2, <1>3, <1>4, <1>5

\* g solves the tail-recursive equation below the measure n.
Solves(D, stop, out, nx, m, n, g) ==
    \A d \in D : m[d] < n => g[d] = IF d \in stop THEN out[d] ELSE g[nx[d]]

\* A loop: where it stops and with what, where it goes on, and a measure
\* that falls when it does.
Terminates(D, stop, out, nx, m) ==
    /\ out = [d \in D |-> out[d]] /\ nx \in [D -> D] /\ m \in [D -> Nat]
    /\ \A d \in D \ stop : m[nx[d]] < m[d]

\* A tail-recursive equation whose measure falls has a solution.
LEMMA TailRecursion ==
    ASSUME NEW D, NEW stop, NEW out, NEW nx, NEW m, Terminates(D, stop, out, nx, m)
    PROVE  \E f : /\ f = [d \in D |-> f[d]]
                  /\ \A d \in D : f[d] = IF d \in stop THEN out[d] ELSE f[nx[d]]
<1> USE DEF Terminates
<1> DEFINE Sol(n, g) == Solves(D, stop, out, nx, m, n, g)
<1>1. ASSUME NEW k, NEW n, k \in Nat, n \in Nat, NEW g, NEW h, Sol(k, g), Sol(n, h),
             NEW d \in D, m[d] < k, m[d] < n
      PROVE  g[d] = h[d]
  <2> DEFINE bad == {e \in D : m[e] < k /\ m[e] < n /\ g[e] # h[e]}
  <2>1. ASSUME NEW e \in bad PROVE \E c \in bad : m[c] < m[e]
    <3>1. e \in D /\ e \notin stop /\ g[e] = g[nx[e]] /\ h[e] = h[nx[e]]
      BY <1>1, <2>1 DEF Solves
    <3>2. nx[e] \in D /\ m[nx[e]] \in Nat /\ m[nx[e]] < m[e] /\ m[e] \in Nat
      BY <3>1
    <3>3. nx[e] \in bad
      BY <1>1, <2>1, <3>1, <3>2
    <3> QED BY <3>2, <3>3
  <2>2. bad = {}
    <3> HIDE DEF bad
    <3>1. bad \subseteq D
      BY DEF bad
    <3> QED BY <2>1, <3>1, NoDescent
  <2> QED BY <1>1, <2>2
<1>2. \A n \in Nat : \E g : Sol(n, g)
  <2> DEFINE N == {n \in Nat : ~ \E g : Sol(n, g)}
  <2>1. CASE N = {}
    BY <2>1
  <2>2. CASE N # {}
    <3>1. PICK n \in N : \A k \in N : n <= k
      <4> N \subseteq Nat
        OBVIOUS
      <4> HIDE DEF N
      <4> QED BY <2>2, Least
    <3>2. n # 0
      <4>1. Sol(0, out)
        BY DEF Solves
      <4> QED BY <3>1, <4>1
    <3>3. n - 1 \in Nat /\ n - 1 \notin N
      BY <3>1, <3>2
    <3>4. PICK g : Sol(n - 1, g)
      BY <3>3
    <3> DEFINE h == [d \in D |-> IF d \in stop THEN out[d] ELSE g[nx[d]]]
    <3>5. ASSUME NEW d \in D, m[d] < n PROVE h[d] = IF d \in stop THEN out[d] ELSE h[nx[d]]
      <4>1. CASE d \in stop
        BY <4>1
      <4>2. CASE d \notin stop
        <5>1. nx[d] \in D /\ m[nx[d]] \in Nat /\ m[nx[d]] < m[d] /\ m[d] \in Nat
          BY <4>2
        <5>2. m[nx[d]] < n - 1
          BY <3>1, <3>5, <5>1
        <5>3. g[nx[d]] = IF nx[d] \in stop THEN out[nx[d]] ELSE g[nx[nx[d]]]
          BY <3>4, <5>1, <5>2 DEF Solves
        <5>4. h[nx[d]] = g[nx[d]]
          BY <5>1, <5>3
        <5> QED BY <4>2, <5>4
      <4> QED BY <4>1, <4>2
    <3>6. Sol(n, h)
      BY <3>5 DEF Solves
    <3> QED BY <3>1, <3>6
  <2> QED BY <2>1, <2>2
<1> DEFINE f == [d \in D |-> (CHOOSE g : Sol(m[d] + 1, g))[d]]
<1>3. ASSUME NEW d \in D PROVE f[d] = IF d \in stop THEN out[d] ELSE f[nx[d]]
  <2>1. PICK g : g = (CHOOSE x : Sol(m[d] + 1, x))
    OBVIOUS
  <2>2. m[d] \in Nat /\ m[d] + 1 \in Nat /\ Sol(m[d] + 1, g)
    <3>1. m[d] \in Nat /\ m[d] + 1 \in Nat
      OBVIOUS
    <3>2. \E x : Sol(m[d] + 1, x)
      BY <1>2, <3>1
    <3> HIDE DEF Sol
    <3> QED BY <2>1, <3>1, <3>2
  <2>3. f[d] = g[d]
    BY <2>1
  <2>4. g[d] = IF d \in stop THEN out[d] ELSE g[nx[d]]
    BY <2>2 DEF Solves
  <2>5. CASE d \in stop
    BY <2>3, <2>4, <2>5
  <2>6. CASE d \notin stop
    <3>1. nx[d] \in D /\ m[nx[d]] \in Nat /\ m[nx[d]] < m[d]
      BY <2>6
    <3>2. PICK h : h = (CHOOSE x : Sol(m[nx[d]] + 1, x))
      OBVIOUS
    <3>3. Sol(m[nx[d]] + 1, h) /\ m[nx[d]] + 1 \in Nat
      BY <1>2, <3>1, <3>2
    <3>4. f[nx[d]] = h[nx[d]]
      BY <3>1, <3>2
    <3>5. g[nx[d]] = h[nx[d]]
      <4>1. m[nx[d]] < m[nx[d]] + 1 /\ m[nx[d]] < m[d] + 1
        BY <2>2, <3>1
      <4> HIDE DEF Sol, f
      <4> QED BY <1>1, <2>2, <3>1, <3>3, <4>1
    <3> QED BY <2>3, <2>4, <2>6, <3>4, <3>5
  <2> QED BY <2>5, <2>6
<1>4. f = [d \in D |-> f[d]]
  OBVIOUS
<1> QED BY <1>3, <1>4

-------------------------------------------------------------------------------
(***************************************************************************)
(* Items, and the equation of dropOldLocked.                               *)
(***************************************************************************)

\* The fields of a log item.
LEMMA LogFields ==
    ASSUME NEW it \in Item, IsLog(it)
    PROVE  /\ it.n \in Nat /\ it.omitted \in Nat /\ it.srcEnd \in Nat
           /\ it = LogItem(it.n, it.omitted, it.srcEnd)
BY DEF Item, IsLog, LogItem

\* A log item is an item.
LEMMA LogIsItem ==
    ASSUME NEW n \in Nat, NEW omitted \in Nat, NEW srcEnd \in Nat
    PROVE  /\ LogItem(n, omitted, srcEnd) \in Item /\ IsLog(LogItem(n, omitted, srcEnd))
           /\ LogItem(n, omitted, srcEnd).n = n
           /\ LogItem(n, omitted, srcEnd).omitted = omitted
           /\ LogItem(n, omitted, srcEnd).srcEnd = srcEnd
BY DEF Item, IsLog, LogItem

\* Lines are a number, and only logs have any.
LEMMA LinesType ==
    ASSUME NEW it \in Item
    PROVE  LinesOf(it) \in Nat /\ (IsLog(it) => LinesOf(it) = it.n)
           /\ (LinesOf(it) # 0 => IsLog(it))
BY LogFields DEF LinesOf

\* Shortened changes item i only.
LEMMA ShortenedItems ==
    ASSUME NEW s \in Seq(Item), NEW i \in 1 .. Len(s), IsLog(s[i]), NEW k \in 0 .. s[i].n
    PROVE  /\ Shortened(s, i, k) \in Seq(Item) /\ Len(Shortened(s, i, k)) = Len(s)
           /\ Shortened(s, i, k)[i] = LogItem(s[i].n - k, s[i].omitted + k, s[i].srcEnd)
           /\ \A j \in 1 .. Len(s) : j # i => Shortened(s, i, k)[j] = s[j]
<1>1. s[i] \in Item
  BY ElementOfSeq
<1> DEFINE it == LogItem(s[i].n - k, s[i].omitted + k, s[i].srcEnd)
<1>2. /\ s[i].n \in Nat /\ s[i].omitted \in Nat /\ s[i].srcEnd \in Nat
      /\ s[i] = LogItem(s[i].n, s[i].omitted, s[i].srcEnd)
  BY <1>1, LogFields
<1>4. it \in Item
  <2>1. s[i].n - k \in Nat /\ s[i].omitted + k \in Nat
    BY <1>2
  <2> QED BY <1>2, <2>1, LogIsItem
<1>5. Shortened(s, i, k) = [s EXCEPT ![i] = it]
  BY Zenon DEF Shortened
<1> HIDE DEF it
<1> QED BY <1>4, <1>5, ExceptSeq DEF it

\* Absorbed takes item i out and changes item i + 1 only.
LEMMA AbsorbedItems ==
    ASSUME NEW s \in Seq(Item), NEW i \in 1 .. Len(s) - 1, IsLog(s[i]), IsLog(s[i + 1])
    PROVE  /\ Absorbed(s, i) \in Seq(Item) /\ Len(Absorbed(s, i)) = Len(s) - 1
           /\ Absorbed(s, i)[i] = LogItem(s[i + 1].n, s[i + 1].omitted + s[i].omitted,
              s[i + 1].srcEnd)
           /\ \A j \in 1 .. Len(s) - 1 :
                 j # i => Absorbed(s, i)[j] = IF j < i THEN s[j] ELSE s[j + 1]
<1>0. Len(s) \in Nat /\ i + 1 \in 1 .. Len(s) /\ i \in 1 .. Len(s)
  OBVIOUS
<1>1. s[i] \in Item /\ s[i + 1] \in Item
  BY <1>0, ElementOfSeq
<1> DEFINE it == LogItem(s[i + 1].n, s[i + 1].omitted + s[i].omitted, s[i + 1].srcEnd)
<1>2. /\ s[i + 1].n \in Nat /\ s[i + 1].omitted \in Nat /\ s[i + 1].srcEnd \in Nat
      /\ s[i].omitted \in Nat
      /\ s[i + 1] = LogItem(s[i + 1].n, s[i + 1].omitted, s[i + 1].srcEnd)
  BY <1>1, LogFields
<1>4. it \in Item
  <2>1. s[i + 1].omitted + s[i].omitted \in Nat
    BY <1>2
  <2> QED BY <1>2, <2>1, LogIsItem
<1> DEFINE merged == [s EXCEPT ![i + 1] = it]
<1>5. Absorbed(s, i) = SubSeq(merged, 1, i - 1) \o SubSeq(merged, i + 1, Len(merged))
  BY Zenon DEF Absorbed
<1>6. /\ merged \in Seq(Item) /\ Len(merged) = Len(s)
      /\ \A j \in 1 .. Len(s) : merged[j] = IF j = i + 1 THEN it ELSE s[j]
  <2> HIDE DEF it
  <2> QED BY <1>0, <1>4, ExceptSeq
<1> HIDE DEF it, merged
<1>7. \A j \in 1 .. Len(s) : merged[j] \in Item
  BY <1>6, ElementOfSeq
<1> DEFINE a == SubSeq(merged, 1, i - 1)
           b == SubSeq(merged, i + 1, Len(merged))
<1>8. a \in Seq(Item) /\ Len(a) = i - 1 /\ \A j \in 1 .. i - 1 : a[j] = merged[j]
  <2>1. \A j \in 1 .. i - 1 : merged[j] \in Item
    BY <1>7
  <2> QED BY <2>1, SubSeqProperties
<1>9. b \in Seq(Item) /\ Len(b) = Len(s) - i /\ \A j \in 1 .. Len(s) - i : b[j] = merged[i + j]
  <2>1. \A j \in i + 1 .. Len(merged) : merged[j] \in Item
    BY <1>6, <1>7
  <2>2. /\ b \in Seq(Item) /\ Len(b) = IF i + 1 <= Len(merged) THEN Len(merged) - (i + 1) + 1 ELSE 0
        /\ \A j \in 1 .. Len(merged) - (i + 1) + 1 : b[j] = merged[i + 1 + j - 1]
    BY <1>0, <1>6, <2>1, SubSeqProperties
  <2> QED BY <1>0, <1>6, <2>2
<1> HIDE DEF a, b
<1>10. /\ a \o b \in Seq(Item) /\ Len(a \o b) = Len(a) + Len(b)
       /\ \A j \in 1 .. Len(a) + Len(b) : (a \o b)[j] = IF j <= Len(a) THEN a[j] ELSE b[j - Len(a)]
  BY <1>8, <1>9, ConcatProperties
<1>11. Absorbed(s, i) = a \o b
  BY <1>5 DEF a, b
<1> HIDE DEF it
<1>12. (a \o b)[i] = it
  <2>1. i \in 1 .. Len(a) + Len(b) /\ ~ (i <= Len(a)) /\ i - Len(a) = 1
    BY <1>0, <1>8, <1>9
  <2>2. (a \o b)[i] = b[1]
    BY <1>10, <2>1
  <2>3. 1 \in 1 .. Len(s) - i
    BY <1>0
  <2>4. b[1] = merged[i + 1]
    BY <1>9, <2>3
  <2>5. merged[i + 1] = it
    BY <1>0, <1>6
  <2> QED BY <2>2, <2>4, <2>5
<1>13. ASSUME NEW j \in 1 .. Len(s) - 1, j # i
       PROVE  (a \o b)[j] = IF j < i THEN s[j] ELSE s[j + 1]
  <2>1. j \in 1 .. Len(a) + Len(b)
    BY <1>0, <1>8, <1>9
  <2>2. CASE j < i
    <3>1. j <= Len(a) /\ j \in 1 .. i - 1 /\ j \in 1 .. Len(s) /\ j # i + 1
      BY <1>0, <1>8, <2>2
    <3> QED BY <1>6, <1>8, <1>10, <2>1, <2>2, <3>1
  <2>3. CASE ~ (j < i)
    <3>1. /\ ~ (j <= Len(a)) /\ j - Len(a) \in 1 .. Len(s) - i /\ i + (j - Len(a)) = j + 1
          /\ j + 1 \in 1 .. Len(s) /\ j + 1 # i + 1
      BY <1>0, <1>8, <1>13, <2>3
    <3>2. (a \o b)[j] = b[j - Len(a)]
      BY <1>10, <2>1, <3>1
    <3>3. b[j - Len(a)] = merged[i + (j - Len(a))]
      BY <1>9, <3>1
    <3>4. merged[j + 1] = s[j + 1]
      BY <1>6, <3>1
    <3> QED BY <2>3, <3>1, <3>2, <3>3, <3>4
  <2> QED BY <2>2, <2>3
<1>14. Len(a) + Len(b) = Len(s) - 1
  BY <1>0, <1>8, <1>9
<1> QED BY <1>10, <1>11, <1>12, <1>13, <1>14 DEF it

\* The loop of dropOldLocked: its arguments, what a turn takes from item i,
\* where it ends and with what, where it goes on, and the measure that falls.
Arg == Seq(Item) \X (Nat \ {0}) \X Nat
Taken(s, i, e) == Smaller(LinesOf(s[i]), e)
Cut(s, i, e) == Shortened(s, i, Taken(s, i, e))
Ends(s, i, e) == e = 0 \/ i > Len(s) \/ (LinesOf(s[i]) # 0 /\ Cut(s, i, e)[i].n > 0)
Left(s, i, e) == IF e = 0 \/ i > Len(s) THEN s ELSE Cut(s, i, e)
Onward(s, i, e) ==
    IF LinesOf(s[i]) = 0 THEN <<s, i + 1, e>>
    ELSE IF i < Len(s) /\ IsLog(s[i + 1])
         THEN <<Absorbed(Cut(s, i, e), i), i, e - Taken(s, i, e)>>
    ELSE <<Cut(s, i, e), i + 1, e - Taken(s, i, e)>>
Measure(s, i) == IF i <= Len(s) THEN 2 * Len(s) + 1 - i ELSE 0

\* What one turn of the loop makes of item i.
LEMMA CutItems ==
    ASSUME NEW s \in Seq(Item), NEW i \in 1 .. Len(s), NEW e \in Nat, LinesOf(s[i]) # 0
    PROVE  /\ IsLog(s[i]) /\ s[i].n \in Nat /\ s[i].omitted \in Nat /\ s[i].srcEnd \in Nat
           /\ s[i].n # 0
           /\ Taken(s, i, e) \in 0 .. s[i].n /\ e - Taken(s, i, e) \in Nat
           /\ Taken(s, i, e) = e \/ Taken(s, i, e) = s[i].n
           /\ Cut(s, i, e) \in Seq(Item) /\ Len(Cut(s, i, e)) = Len(s)
           /\ Cut(s, i, e)[i] = LogItem(s[i].n - Taken(s, i, e), s[i].omitted + Taken(s, i, e),
              s[i].srcEnd)
           /\ \A j \in 1 .. Len(s) : j # i => Cut(s, i, e)[j] = s[j]
<1>1. s[i] \in Item
  BY ElementOfSeq
<1>2. IsLog(s[i]) /\ s[i].n \in Nat /\ s[i].omitted \in Nat /\ s[i].srcEnd \in Nat
      /\ LinesOf(s[i]) = s[i].n
  BY <1>1, LinesType, LogFields
<1>3. /\ Taken(s, i, e) \in 0 .. s[i].n /\ e - Taken(s, i, e) \in Nat
      /\ Taken(s, i, e) = e \/ Taken(s, i, e) = s[i].n
  BY <1>2 DEF Taken, Smaller
<1> QED BY <1>2, <1>3, ShortenedItems DEF Cut

\* The measure is a number.
LEMMA MeasureType ==
    ASSUME NEW s \in Seq(Item), NEW i \in Nat \ {0}
    PROVE  Measure(s, i) \in Nat
BY LenProperties DEF Measure

\* A turn that goes on keeps items, and the measure falls.
LEMMA OnwardItems ==
    ASSUME NEW s \in Seq(Item), NEW i \in Nat \ {0}, NEW e \in Nat, ~ Ends(s, i, e)
    PROVE  \E t \in Seq(Item), j \in Nat \ {0}, x \in Nat :
              Onward(s, i, e) = <<t, j, x>> /\ Measure(t, j) < Measure(s, i)
<1>0. Len(s) \in Nat /\ i \in 1 .. Len(s)
  BY LenProperties DEF Ends
<1>1. CASE LinesOf(s[i]) = 0
  BY <1>0, <1>1 DEF Onward, Measure
<1>2. CASE LinesOf(s[i]) # 0 /\ i < Len(s) /\ IsLog(s[i + 1])
  <2> DEFINE c == Cut(s, i, e)
  <2>1. /\ c \in Seq(Item) /\ Len(c) = Len(s) /\ e - Taken(s, i, e) \in Nat
        /\ c[i] = LogItem(s[i].n - Taken(s, i, e), s[i].omitted + Taken(s, i, e), s[i].srcEnd)
        /\ \A j \in 1 .. Len(s) : j # i => c[j] = s[j]
    BY <1>0, <1>2, CutItems
  <2>2. IsLog(c[i]) /\ IsLog(c[i + 1])
    BY <1>0, <1>2, <2>1 DEF LogItem, IsLog
  <2>3. i \in 1 .. Len(c) - 1
    BY <1>0, <1>2, <2>1
  <2> HIDE DEF c
  <2>4. Absorbed(c, i) \in Seq(Item) /\ Len(Absorbed(c, i)) = Len(s) - 1
    BY <2>1, <2>2, <2>3, AbsorbedItems
  <2>5. Measure(Absorbed(c, i), i) < Measure(s, i)
    BY <1>0, <1>2, <2>4 DEF Measure
  <2>6. Onward(s, i, e) = <<Absorbed(c, i), i, e - Taken(s, i, e)>>
    BY <1>2, Zenon DEF Onward, c
  <2> QED BY <2>1, <2>4, <2>5, <2>6
<1>3. CASE LinesOf(s[i]) # 0 /\ ~ (i < Len(s) /\ IsLog(s[i + 1]))
  <2>1. Cut(s, i, e) \in Seq(Item) /\ Len(Cut(s, i, e)) = Len(s) /\ e - Taken(s, i, e) \in Nat
    BY <1>0, <1>3, CutItems
  <2>2. Measure(Cut(s, i, e), i + 1) < Measure(s, i)
    BY <1>0, <2>1 DEF Measure
  <2>3. Onward(s, i, e) = <<Cut(s, i, e), i + 1, e - Taken(s, i, e)>>
    BY <1>3, Zenon DEF Onward
  <2> QED BY <2>1, <2>2, <2>3
<1> QED BY <1>1, <1>2, <1>3

\* An argument is a triple.
LEMMA ArgParts ==
    ASSUME NEW a \in Arg
    PROVE  /\ a[1] \in Seq(Item) /\ a[2] \in Nat \ {0} /\ a[3] \in Nat
           /\ a = <<a[1], a[2], a[3]>>
BY DEF Arg

\* A triple is an argument, and its parts are found in it.
LEMMA PartsArg ==
    ASSUME NEW s \in Seq(Item), NEW i \in Nat \ {0}, NEW e \in Nat
    PROVE  /\ <<s, i, e>> \in Arg
           /\ <<s, i, e>>[1] = s /\ <<s, i, e>>[2] = i /\ <<s, i, e>>[3] = e
BY DEF Arg

\* The body of dropOld, of any function f in the place of dropOld.
Step(f, a) ==
    IF Ends(a[1], a[2], a[3]) THEN Left(a[1], a[2], a[3]) ELSE f[Onward(a[1], a[2], a[3])]

\* The recursion of dropOld has a solution: TailRecursion, for this loop.
LEMMA DropOldExists == \E f : f = [a \in Arg |-> Step(f, a)]
<1> DEFINE stop == {a \in Arg : Ends(a[1], a[2], a[3])}
           out == [a \in Arg |-> Left(a[1], a[2], a[3])]
           nx == [a \in Arg |-> IF a \in stop THEN a ELSE Onward(a[1], a[2], a[3])]
           m == [a \in Arg |-> Measure(a[1], a[2])]
<1>1. ASSUME NEW a \in Arg PROVE m[a] \in Nat
  BY ArgParts, MeasureType
<1>2. ASSUME NEW a \in Arg, a \notin stop
      PROVE  nx[a] \in Arg /\ m[nx[a]] < m[a]
  <2>1. PICK t \in Seq(Item), j \in Nat \ {0}, x \in Nat :
          Onward(a[1], a[2], a[3]) = <<t, j, x>> /\ Measure(t, j) < Measure(a[1], a[2])
    BY <1>2, ArgParts, OnwardItems
  <2>2. nx[a] = <<t, j, x>>
    BY <1>2, <2>1
  <2>3. <<t, j, x>> \in Arg /\ m[<<t, j, x>>] = Measure(t, j)
    BY PartsArg
  <2> QED BY <2>1, <2>2, <2>3
<1>3. nx \in [Arg -> Arg] /\ m \in [Arg -> Nat]
  <2>1. ASSUME NEW a \in Arg PROVE nx[a] \in Arg
    BY <1>2
  <2> QED BY <1>1, <2>1
<1>4. PICK f : /\ f = [d \in Arg |-> f[d]]
               /\ \A d \in Arg : f[d] = IF d \in stop THEN out[d] ELSE f[nx[d]]
  <2>1. \A a \in Arg \ stop : m[nx[a]] < m[a]
    BY <1>2
  <2>2. out = [a \in Arg |-> out[a]]
    OBVIOUS
  <2> HIDE DEF stop, out, nx, m
  <2>3. Terminates(Arg, stop, out, nx, m)
    BY <1>3, <2>1, <2>2 DEF Terminates
  <2> QED BY <2>3, TailRecursion
<1>5. ASSUME NEW a \in Arg PROVE f[a] = Step(f, a)
  <2>1. CASE a \in stop
    BY <1>4, <2>1 DEF Step
  <2>2. CASE a \notin stop
    <3>1. f[a] = f[nx[a]]
      BY <1>4, <2>2
    <3>2. nx[a] = Onward(a[1], a[2], a[3])
      BY <2>2
    <3> HIDE DEF nx
    <3> QED BY <2>2, <3>1, <3>2 DEF Step
  <2> QED BY <2>1, <2>2
<1>6. f = [a \in Arg |-> Step(f, a)]
  <2> HIDE DEF stop, out, nx, m
  <2> QED BY <1>4, <1>5
<1> QED BY <1>6

\* So dropOld is one: what it returns is what the loop returns.
LEMMA DropOldStep ==
    ASSUME NEW s \in Seq(Item), NEW i \in Nat \ {0}, NEW e \in Nat
    PROVE  dropOld[<<s, i, e>>] =
              IF Ends(s, i, e) THEN Left(s, i, e) ELSE dropOld[Onward(s, i, e)]
<1> DEFINE Body(f, arg) ==
          LET s_1 == arg[1]
              i_1 == arg[2]
              excess == arg[3]
              k == Smaller(LinesOf(s_1[i_1]), excess)
              t == Shortened(s_1, i_1, k)
          IN  IF excess = 0 \/ i_1 > Len(s_1)   THEN s_1
              ELSE IF LinesOf(s_1[i_1]) = 0     THEN f[<<s_1, i_1 + 1, excess>>]
              ELSE IF t[i_1].n > 0            THEN t
              ELSE IF i_1 < Len(s_1) /\ IsLog(s_1[i_1 + 1])
                                      THEN f[<<Absorbed(t, i_1), i_1, excess - k>>]
              ELSE f[<<t, i_1 + 1, excess - k>>]
<1>1. \A f : \A a \in Arg : Step(f, a) = Body(f, a)
  BY DEF Step, Ends, Left, Onward, Cut, Taken
<1>2. dropOld = [a \in Arg |-> Step(dropOld, a)]
  <2>1. dropOld = CHOOSE f : f = [arg \in Seq(Item) \X (Nat \ {0}) \X Nat |-> Body(f, arg)]
    BY Zenon DEF dropOld
  <2> HIDE DEF Body
  <2>2. dropOld = CHOOSE f : f = [a \in Arg |-> Body(f, a)]
    BY <2>1, Zenon DEF Arg
  <2>3. \A f : [a \in Arg |-> Step(f, a)] = [a \in Arg |-> Body(f, a)]
    BY <1>1
  <2>4. PICK f : f = [a \in Arg |-> Step(f, a)]
    BY DropOldExists
  <2>5. f = [a \in Arg |-> Body(f, a)]
    BY <2>3, <2>4
  <2>6. dropOld = [a \in Arg |-> Body(dropOld, a)]
    BY <2>2, <2>5, Zenon
  <2> QED BY <2>3, <2>6
<1>3. dropOld[<<s, i, e>>] = Step(dropOld, <<s, i, e>>)
  BY <1>2, PartsArg
<1> QED BY <1>3, PartsArg DEF Step

-------------------------------------------------------------------------------
(***************************************************************************)
(* What the items of a queue account for and hold, and what the loop of    *)
(* dropOldLocked leaves of it.                                             *)
(***************************************************************************)

\* Item j of s accounts for the line, or holds its text.
Covers(s, j, line) == IsLog(s[j]) /\ FirstLine(s[j]) <= line /\ line <= s[j].srcEnd
Holds(s, j, line) == IsLog(s[j]) /\ s[j].srcEnd - s[j].n < line /\ line <= s[j].srcEnd

\* The items of s account for the lines above lo up to hi, in order and once.
Tiles(s, lo, hi) ==
    /\ lo <= hi
    /\ \A j \in 1 .. Len(s) :
          IsLog(s[j]) => lo < FirstLine(s[j]) /\ FirstLine(s[j]) <= s[j].srcEnd /\ s[j].srcEnd <= hi
    /\ \A i, j \in 1 .. Len(s) :
          i < j /\ IsLog(s[i]) /\ IsLog(s[j]) => s[i].srcEnd < FirstLine(s[j])
    /\ \A line \in lo + 1 .. hi : \E j \in 1 .. Len(s) : Covers(s, j, line)

\* The lines that s holds with their text are the last w up to hi.
Keeps(s, hi, w) ==
    \A line \in Int :
        (\E j \in 1 .. Len(s) : Holds(s, j, line)) <=> hi - w < line /\ line <= hi

\* No item holds more than MaxLinesPerEvent lines.
Small(s) == \A j \in 1 .. Len(s) : LinesOf(s[j]) <= MaxLinesPerEvent

\* The items of s before i have no text.
Emptied(s, i) == \A j \in 1 .. Len(s) : j < i => LinesOf(s[j]) = 0

\* The loop of dropOldLocked: what is before i has no text left, and of the
\* lines with text "kept" will stay.
Loop(s, i, e, lo, hi, kept) ==
    /\ Tiles(s, lo, hi) /\ Keeps(s, hi, kept + e) /\ Small(s)
    /\ Emptied(s, i)

\* The numbers of a log item of a sequence.
LEMMA ItemNumbers ==
    ASSUME NEW s \in Seq(Item), NEW j \in 1 .. Len(s), IsLog(s[j])
    PROVE  /\ s[j].n \in Nat /\ s[j].omitted \in Nat /\ s[j].srcEnd \in Nat
           /\ FirstLine(s[j]) = s[j].srcEnd - s[j].n - s[j].omitted + 1
           /\ FirstLine(s[j]) \in Int /\ LinesOf(s[j]) = s[j].n
<1>1. s[j] \in Item
  BY ElementOfSeq
<1>2. s[j].n \in Nat /\ s[j].omitted \in Nat /\ s[j].srcEnd \in Nat /\ LinesOf(s[j]) = s[j].n
  BY <1>1, LogFields, LinesType
<1> QED BY <1>2 DEF FirstLine

\* Items with the same spans tile the same lines.
LEMMA SameSpans ==
    ASSUME NEW s, NEW t, NEW lo, NEW hi, Tiles(s, lo, hi), Len(t) = Len(s),
           \A j \in 1 .. Len(s) :
              /\ IsLog(t[j]) <=> IsLog(s[j])
              /\ IsLog(s[j]) => t[j].srcEnd = s[j].srcEnd /\ FirstLine(t[j]) = FirstLine(s[j])
    PROVE  Tiles(t, lo, hi)
BY DEF Tiles, Covers

\* Lines that go from the text into the omission still count.
LEMMA CutTiles ==
    ASSUME NEW s \in Seq(Item), NEW i \in 1 .. Len(s), NEW e \in Nat, LinesOf(s[i]) # 0,
           NEW lo, NEW hi, Tiles(s, lo, hi)
    PROVE  Tiles(Cut(s, i, e), lo, hi)
<1> DEFINE c == Cut(s, i, e)
           k == Taken(s, i, e)
<1>1. /\ IsLog(s[i]) /\ s[i].n \in Nat /\ s[i].omitted \in Nat /\ s[i].srcEnd \in Nat
         /\ k \in 0 .. s[i].n
      /\ Len(c) = Len(s) /\ c[i] = LogItem(s[i].n - k, s[i].omitted + k, s[i].srcEnd)
      /\ \A j \in 1 .. Len(s) : j # i => c[j] = s[j]
  BY CutItems
<1> HIDE DEF c, k
<1>2. IsLog(c[i]) /\ c[i].srcEnd = s[i].srcEnd /\ c[i].n = s[i].n - k
      /\ c[i].omitted = s[i].omitted + k
  BY <1>1 DEF LogItem, IsLog
<1>3. FirstLine(c[i]) = FirstLine(s[i])
  BY <1>1, <1>2 DEF FirstLine
<1>4. Tiles(c, lo, hi)
  BY <1>1, <1>2, <1>3, SameSpans
<1> QED BY <1>4 DEF c

\* A line is in the text of one item at most, and later items hold later lines.
LEMMA HeldLater ==
    ASSUME NEW s \in Seq(Item), NEW lo \in Int, NEW hi \in Int, Tiles(s, lo, hi),
           NEW i \in 1 .. Len(s), NEW j \in 1 .. Len(s), i < j, IsLog(s[i]),
           NEW line \in Int, Holds(s, j, line)
    PROVE  s[i].srcEnd < line
<1>1. IsLog(s[j]) /\ s[i].srcEnd < FirstLine(s[j])
  BY DEF Tiles, Holds
<1>2. FirstLine(s[j]) <= line
  <2>1. /\ s[j].n \in Nat /\ s[j].omitted \in Nat /\ s[j].srcEnd \in Nat
        /\ FirstLine(s[j]) = s[j].srcEnd - s[j].n - s[j].omitted + 1
    BY <1>1, ItemNumbers
  <2>2. s[j].srcEnd - s[j].n < line
    BY DEF Holds
  <2>3. ASSUME NEW x \in Nat, NEW n \in Nat, NEW o \in Nat, x - n < line
        PROVE  x - n - o + 1 <= line
    BY <2>3
  <2> QED BY <2>1, <2>2, <2>3
<1> QED BY <1>1, <1>2, ItemNumbers

\* The first item with text holds the oldest line that is kept.
LEMMA OldestHeld ==
    ASSUME NEW s \in Seq(Item), NEW lo \in Int, NEW hi \in Int, NEW w \in Nat,
           Tiles(s, lo, hi), Keeps(s, hi, w),
           NEW i \in 1 .. Len(s), LinesOf(s[i]) # 0,
           Emptied(s, i)
    PROVE  s[i].srcEnd - s[i].n = hi - w
<1>1. IsLog(s[i]) /\ s[i].n \in Nat /\ s[i].n # 0 /\ s[i].srcEnd \in Nat
  BY CutItems, 0 \in Nat
<1> DEFINE first == s[i].srcEnd - s[i].n + 1
<1>2. Holds(s, i, first) /\ first \in Int
  BY <1>1 DEF Holds
<1>3. hi - w < first /\ first <= hi
  BY <1>2 DEF Keeps
<1> DEFINE oldest == hi - w + 1
<1>4. oldest \in Int /\ oldest <= first /\ hi - w < oldest /\ oldest <= hi
  BY <1>1, <1>3
<1>5. PICK j \in 1 .. Len(s) : Holds(s, j, oldest)
  BY <1>4 DEF Keeps
<1>6. ~ (j < i)
  <2>1. IsLog(s[j])
    BY <1>5 DEF Holds
  <2>2. s[j].n # 0 /\ LinesOf(s[j]) = s[j].n
    BY <1>5, <2>1, ItemNumbers DEF Holds
  <2> QED BY <2>2 DEF Emptied
<1>7. ~ (i < j)
  <2> SUFFICES ASSUME i < j PROVE FALSE
    OBVIOUS
  <2>1. s[i].srcEnd < oldest
    BY <1>1, <1>4, <1>5, HeldLater
  <2> QED BY <1>1, <1>4, <2>1
<1>8. j = i
  BY <1>6, <1>7, LenProperties
<1>9. s[i].srcEnd - s[i].n < oldest
  BY <1>5, <1>8 DEF Holds
<1>10. s[i].srcEnd - s[i].n \in Int
  BY <1>1
<1> HIDE DEF oldest
<1>11. oldest = s[i].srcEnd - s[i].n + 1
  BY <1>4, <1>9, <1>10
<1> QED BY <1>10, <1>11 DEF oldest

\* What a cut takes is the oldest of the lines held.
LEMMA CutKeeps ==
    ASSUME NEW s \in Seq(Item), NEW i \in 1 .. Len(s), NEW e \in Nat, LinesOf(s[i]) # 0,
           NEW lo \in Int, NEW hi \in Int, NEW w \in Nat, Tiles(s, lo, hi), Keeps(s, hi, w),
           Emptied(s, i)
    PROVE  Keeps(Cut(s, i, e), hi, w - Taken(s, i, e))
<1> DEFINE c == Cut(s, i, e)
           k == Taken(s, i, e)
<1>1. /\ IsLog(s[i]) /\ s[i].n \in Nat /\ s[i].omitted \in Nat /\ s[i].srcEnd \in Nat
         /\ k \in 0 .. s[i].n
      /\ Len(c) = Len(s) /\ c[i] = LogItem(s[i].n - k, s[i].omitted + k, s[i].srcEnd)
      /\ \A j \in 1 .. Len(s) : j # i => c[j] = s[j]
  BY CutItems
<1> HIDE DEF c, k
<1>2. IsLog(c[i]) /\ c[i].srcEnd = s[i].srcEnd /\ c[i].n = s[i].n - k
  BY <1>1 DEF LogItem, IsLog
<1>3. s[i].srcEnd - s[i].n = hi - w
  BY OldestHeld
<1>4. ASSUME NEW line \in Int
      PROVE  Holds(c, i, line) <=> Holds(s, i, line) /\ hi - (w - k) < line
  <2>1. c[i].srcEnd - c[i].n = hi - (w - k)
    <3>1. \A a, b, x \in Int : a - b = hi - w => a - (b - x) = hi - (w - x)
      OBVIOUS
    <3>2. s[i].srcEnd \in Int /\ s[i].n \in Int /\ k \in Int
      BY <1>1
    <3>3. s[i].srcEnd - (s[i].n - k) = hi - (w - k)
      BY <1>3, <3>1, <3>2, SMTT(30)
    <3> QED BY <1>2, <3>3
  <2>2. Holds(c, i, line) <=> hi - (w - k) < line /\ line <= s[i].srcEnd
    BY <1>2, <2>1 DEF Holds
  <2>3. Holds(s, i, line) <=> hi - w < line /\ line <= s[i].srcEnd
    BY <1>1, <1>3 DEF Holds
  <2>4. hi - (w - k) < line => hi - w < line
    BY <1>1
  <2> QED BY <2>2, <2>3, <2>4
<1>5. ASSUME NEW line \in Int, NEW j \in 1 .. Len(s), j # i
      PROVE  /\ Holds(c, j, line) <=> Holds(s, j, line)
             /\ Holds(s, j, line) => hi - (w - k) < line
  <2>1. c[j] = s[j]
    BY <1>1, <1>5
  <2>2. Holds(c, j, line) <=> Holds(s, j, line)
    BY <2>1 DEF Holds
  <2>3. ASSUME Holds(s, j, line) PROVE hi - (w - k) < line
    <3>1. IsLog(s[j])
      BY <2>3 DEF Holds
    <3>2. s[j].n # 0 /\ LinesOf(s[j]) = s[j].n
      BY <2>3, <3>1, ItemNumbers DEF Holds
    <3>3. i < j
      BY <1>5, <3>2, LenProperties DEF Emptied
    <3>4. s[i].srcEnd < line
      BY <1>1, <2>3, <3>3, HeldLater
    <3> QED BY <1>1, <1>3, <3>4, SMTT(30)
  <2> QED BY <2>2, <2>3
<1>6. ASSUME NEW line \in Int
      PROVE  (\E j \in 1 .. Len(c) : Holds(c, j, line)) <=> hi - (w - k) < line /\ line <= hi
  <2>1. (\E j \in 1 .. Len(s) : Holds(s, j, line)) <=> hi - w < line /\ line <= hi
    BY DEF Keeps
  <2>2. hi - (w - k) < line => hi - w < line
    BY <1>1
  <2>3. \A j \in 1 .. Len(s) : Holds(c, j, line) <=> Holds(s, j, line) /\ hi - (w - k) < line
    BY <1>4, <1>5
  <2> QED BY <1>1, <2>1, <2>2, <2>3
<1>7. Keeps(c, hi, w - k)
  BY <1>6 DEF Keeps
<1> QED BY <1>7 DEF c, k

\* The item behind an accounted one starts where that one ends.
LEMMA SpansMeet ==
    ASSUME NEW s \in Seq(Item), NEW lo \in Int, NEW hi \in Int, Tiles(s, lo, hi),
           NEW i \in 1 .. Len(s) - 1, IsLog(s[i]), IsLog(s[i + 1])
    PROVE  FirstLine(s[i + 1]) = s[i].srcEnd + 1
<1>0. Len(s) \in Nat /\ i \in 1 .. Len(s) /\ i + 1 \in 1 .. Len(s)
  OBVIOUS
<1>1. s[i].srcEnd \in Nat /\ FirstLine(s[i + 1]) \in Int /\ s[i + 1].srcEnd \in Nat
  BY <1>0, ItemNumbers
<1>2. s[i].srcEnd < FirstLine(s[i + 1]) /\ FirstLine(s[i + 1]) <= s[i + 1].srcEnd
      /\ s[i + 1].srcEnd <= hi
  BY <1>0 DEF Tiles
<1>3. lo < FirstLine(s[i]) /\ FirstLine(s[i]) <= s[i].srcEnd /\ FirstLine(s[i]) \in Int
  BY <1>0, ItemNumbers DEF Tiles
<1> DEFINE line == s[i].srcEnd + 1
<1>4. line \in lo + 1 .. hi
  BY <1>1, <1>2, <1>3, SMTT(30)
<1>5. PICK j \in 1 .. Len(s) : Covers(s, j, line)
  BY <1>4 DEF Tiles
<1>6. IsLog(s[j]) /\ FirstLine(s[j]) <= line /\ line <= s[j].srcEnd
  BY <1>5 DEF Covers
<1>7. FirstLine(s[j]) \in Int /\ s[j].srcEnd \in Nat
  BY <1>6, ItemNumbers
<1>8. ~ (j <= i)
  <2>1. CASE j = i
    BY <1>1, <1>6, <2>1
  <2>2. CASE j < i
    <3>1. s[j].srcEnd < FirstLine(s[i])
      BY <1>0, <1>6, <2>2 DEF Tiles
    <3> QED BY <1>1, <1>3, <1>6, <1>7, <3>1
  <2> QED BY <2>1, <2>2
<1>9. ~ (i + 1 < j)
  <2> SUFFICES ASSUME i + 1 < j PROVE FALSE
    OBVIOUS
  <2>1. s[i + 1].srcEnd < FirstLine(s[j])
    BY <1>0, <1>6 DEF Tiles
  <2> QED BY <1>1, <1>2, <1>6, <1>7, <2>1
<1>10. j = i + 1
  BY <1>0, <1>8, <1>9
<1> QED BY <1>1, <1>2, <1>6, <1>10

\* Where item j of the merged sequence begins and ends in the old one.
Begin(i, j) == IF j <= i THEN j ELSE j + 1
Finish(i, j) == IF j < i THEN j ELSE j + 1

\* Every item of the merged sequence spans what it spanned, and item i spans
\* what the two did.
LEMMA AbsorbedSpans ==
    ASSUME NEW s \in Seq(Item), NEW lo \in Int, NEW hi \in Int, Tiles(s, lo, hi),
           NEW i \in 1 .. Len(s) - 1, IsLog(s[i]), IsLog(s[i + 1]), s[i].n = 0,
           NEW j \in 1 .. Len(s) - 1
    PROVE  /\ Begin(i, j) \in 1 .. Len(s) /\ Finish(i, j) \in 1 .. Len(s)
           /\ IsLog(Absorbed(s, i)[j]) <=> IsLog(s[Begin(i, j)])
           /\ IsLog(Absorbed(s, i)[j]) <=> IsLog(s[Finish(i, j)])
           /\ IsLog(Absorbed(s, i)[j]) =>
                 /\ FirstLine(Absorbed(s, i)[j]) = FirstLine(s[Begin(i, j)])
                 /\ Absorbed(s, i)[j].srcEnd = s[Finish(i, j)].srcEnd
                 /\ Absorbed(s, i)[j].n = s[Finish(i, j)].n
<1> DEFINE r == Absorbed(s, i)
<1>0. Len(s) \in Nat /\ i \in 1 .. Len(s) /\ i + 1 \in 1 .. Len(s) /\ j \in Nat
  OBVIOUS
<1>1. /\ r[i] = LogItem(s[i + 1].n, s[i + 1].omitted + s[i].omitted, s[i + 1].srcEnd)
      /\ \A x \in 1 .. Len(s) - 1 : x # i => r[x] = IF x < i THEN s[x] ELSE s[x + 1]
  BY AbsorbedItems
<1>2. Begin(i, j) \in 1 .. Len(s) /\ Finish(i, j) \in 1 .. Len(s)
  BY <1>0 DEF Begin, Finish
<1> HIDE DEF r
<1>3. CASE j # i
  <2>1. Begin(i, j) = Finish(i, j)
    BY <1>0, <1>3 DEF Begin, Finish
  <2>2. r[j] = s[Begin(i, j)]
    BY <1>0, <1>1, <1>3 DEF Begin
  <2> QED BY <1>2, <2>1, <2>2 DEF r
<1>4. CASE j = i
  <2>1. Begin(i, j) = i /\ Finish(i, j) = i + 1
    BY <1>0, <1>4 DEF Begin, Finish
  <2>2. /\ IsLog(r[i]) /\ r[i].n = s[i + 1].n /\ r[i].omitted = s[i + 1].omitted + s[i].omitted
        /\ r[i].srcEnd = s[i + 1].srcEnd
    BY <1>1 DEF LogItem, IsLog
  <2>3. FirstLine(r[i]) = FirstLine(s[i])
    <3>1. /\ s[i].omitted \in Nat /\ s[i].srcEnd \in Nat
          /\ s[i + 1].n \in Nat /\ s[i + 1].omitted \in Nat /\ s[i + 1].srcEnd \in Nat
      BY <1>0, ItemNumbers
    <3>2. s[i + 1].srcEnd - s[i + 1].n - s[i + 1].omitted + 1 = s[i].srcEnd + 1
      BY SpansMeet DEF FirstLine
    <3> DEFINE x == s[i + 1].srcEnd
               n == s[i + 1].n
               o == s[i + 1].omitted
               p == s[i].omitted
               q == s[i].srcEnd
    <3>3. x \in Int /\ n \in Int /\ o \in Int /\ p \in Int /\ q \in Int
      BY <3>1
    <3>6. FirstLine(r[i]) = x - n - (o + p) + 1
      BY <2>2 DEF FirstLine
    <3>7. FirstLine(s[i]) = q - 0 - p + 1
      BY DEF FirstLine
    <3>8. x - n - o + 1 = q + 1
      BY <3>2
    <3> HIDE DEF x, n, o, p, q
    <3>5. x - n - (o + p) + 1 = q - 0 - p + 1
      BY <3>3, <3>8
    <3> QED BY <3>5, <3>6, <3>7
  <2> QED BY <1>2, <1>4, <2>1, <2>2, <2>3 DEF r
<1> QED BY <1>3, <1>4

\* A merge leaves the same lines accounted for.
LEMMA AbsorbedTiles ==
    ASSUME NEW s \in Seq(Item), NEW lo \in Int, NEW hi \in Int, Tiles(s, lo, hi),
           NEW i \in 1 .. Len(s) - 1, IsLog(s[i]), IsLog(s[i + 1]), s[i].n = 0
    PROVE  Tiles(Absorbed(s, i), lo, hi)
<1> DEFINE r == Absorbed(s, i)
<1>0. Len(s) \in Nat /\ i \in 1 .. Len(s) /\ i + 1 \in 1 .. Len(s)
  OBVIOUS
<1>1. Len(r) = Len(s) - 1 /\ r \in Seq(Item)
  BY AbsorbedItems
<1>2. ASSUME NEW j \in 1 .. Len(r)
      PROVE  /\ Begin(i, j) \in 1 .. Len(s) /\ Finish(i, j) \in 1 .. Len(s)
             /\ IsLog(r[j]) <=> IsLog(s[Begin(i, j)])
             /\ IsLog(r[j]) <=> IsLog(s[Finish(i, j)])
             /\ IsLog(r[j]) =>
                   /\ FirstLine(r[j]) = FirstLine(s[Begin(i, j)])
                   /\ r[j].srcEnd = s[Finish(i, j)].srcEnd
  <2>1. j \in 1 .. Len(s) - 1
    BY <1>1
  <2> HIDE DEF r
  <2> QED BY <2>1, AbsorbedSpans DEF r
<1> HIDE DEF r
<1>3. ASSUME NEW a \in 1 .. Len(s), NEW b \in 1 .. Len(s), IsLog(s[a]), IsLog(s[b])
      PROVE  /\ a < b => s[a].srcEnd < FirstLine(s[b])
             /\ lo < FirstLine(s[a]) /\ FirstLine(s[a]) <= s[a].srcEnd /\ s[a].srcEnd <= hi
             /\ FirstLine(s[a]) \in Int /\ s[a].srcEnd \in Int
  <2>1. FirstLine(s[a]) \in Int /\ s[a].srcEnd \in Int
    BY <1>3, ItemNumbers
  <2>2. lo < FirstLine(s[a]) /\ FirstLine(s[a]) <= s[a].srcEnd /\ s[a].srcEnd <= hi
    BY <1>3 DEF Tiles
  <2>3. a < b => s[a].srcEnd < FirstLine(s[b])
    BY <1>3 DEF Tiles
  <2> QED BY <2>1, <2>2, <2>3
<1>4. ASSUME NEW j \in 1 .. Len(r), IsLog(r[j])
      PROVE  lo < FirstLine(r[j]) /\ FirstLine(r[j]) <= r[j].srcEnd /\ r[j].srcEnd <= hi
  <2>1. /\ IsLog(s[Begin(i, j)]) /\ IsLog(s[Finish(i, j)])
        /\ FirstLine(r[j]) = FirstLine(s[Begin(i, j)]) /\ r[j].srcEnd = s[Finish(i, j)].srcEnd
        /\ Begin(i, j) \in 1 .. Len(s) /\ Finish(i, j) \in 1 .. Len(s)
    BY <1>2, <1>4
  <2>2. Begin(i, j) = Finish(i, j) \/ Begin(i, j) < Finish(i, j)
    BY <1>0, <1>1 DEF Begin, Finish
  <2>3. FirstLine(s[Begin(i, j)]) <= s[Finish(i, j)].srcEnd
    <3>1. CASE Begin(i, j) = Finish(i, j)
      BY <1>3, <2>1, <3>1
    <3>2. CASE Begin(i, j) < Finish(i, j)
      <4>1. /\ s[Begin(i, j)].srcEnd < FirstLine(s[Finish(i, j)])
            /\ FirstLine(s[Begin(i, j)]) <= s[Begin(i, j)].srcEnd
            /\ FirstLine(s[Finish(i, j)]) <= s[Finish(i, j)].srcEnd
        BY <1>3, <2>1, <3>2
      <4>2. /\ s[Begin(i, j)].srcEnd \in Int /\ FirstLine(s[Begin(i, j)]) \in Int
            /\ s[Finish(i, j)].srcEnd \in Int /\ FirstLine(s[Finish(i, j)]) \in Int
        BY <1>3, <2>1
      <4> QED BY <4>1, <4>2, SMTT(30)
    <3> QED BY <2>2, <3>1, <3>2
  <2> QED BY <1>3, <2>1, <2>3
<1>5. ASSUME NEW a \in 1 .. Len(r), NEW b \in 1 .. Len(r), a < b, IsLog(r[a]), IsLog(r[b])
      PROVE  r[a].srcEnd < FirstLine(r[b])
  <2>1. Finish(i, a) < Begin(i, b)
    BY <1>0, <1>1, <1>5 DEF Begin, Finish
  <2>2. /\ IsLog(s[Begin(i, b)]) /\ IsLog(s[Finish(i, a)])
        /\ FirstLine(r[b]) = FirstLine(s[Begin(i, b)]) /\ r[a].srcEnd = s[Finish(i, a)].srcEnd
        /\ Begin(i, b) \in 1 .. Len(s) /\ Finish(i, a) \in 1 .. Len(s)
    BY <1>2, <1>5
  <2> QED BY <1>3, <2>1, <2>2
<1>6. ASSUME NEW line \in lo + 1 .. hi
      PROVE  \E j \in 1 .. Len(r) : Covers(r, j, line)
  <2>1. PICK a \in 1 .. Len(s) : Covers(s, a, line)
    BY DEF Tiles
  <2>2. IsLog(s[a]) /\ FirstLine(s[a]) <= line /\ line <= s[a].srcEnd /\ a \in Nat
    BY <2>1 DEF Covers
  <2> DEFINE j == IF a <= i THEN a ELSE a - 1
  <2>3. j \in 1 .. Len(r)
    BY <1>0, <1>1
  <2>4. Begin(i, j) = a \/ (a = i + 1 /\ Begin(i, j) = i /\ Finish(i, j) = i + 1)
    BY <1>0, <2>2 DEF Begin, Finish
  <2>5. Finish(i, j) = a \/ (a = i /\ Begin(i, j) = i /\ Finish(i, j) = i + 1)
    BY <1>0, <2>2 DEF Begin, Finish
  <2> HIDE DEF j
  <2>6. IsLog(r[j])
    BY <1>2, <2>2, <2>3, <2>4
  <2>7. FirstLine(r[j]) = FirstLine(s[Begin(i, j)]) /\ r[j].srcEnd = s[Finish(i, j)].srcEnd
    BY <1>2, <2>3, <2>6
  <2>8. s[i].srcEnd < FirstLine(s[i + 1]) /\ FirstLine(s[i]) <= s[i].srcEnd
        /\ FirstLine(s[i + 1]) <= s[i + 1].srcEnd
    BY <1>0, <1>3
  <2>9. FirstLine(s[i]) \in Int /\ s[i].srcEnd \in Int /\ FirstLine(s[i + 1]) \in Int
        /\ s[i + 1].srcEnd \in Int /\ line \in Int
    BY <1>0, <1>3
  <2>10. FirstLine(r[j]) <= line
    BY <2>2, <2>4, <2>7, <2>8, <2>9
  <2>11. line <= r[j].srcEnd
    BY <2>2, <2>5, <2>7, <2>8, <2>9, SMTT(30)
  <2> QED BY <2>3, <2>6, <2>10, <2>11 DEF Covers
<1>7. Tiles(r, lo, hi)
  BY <1>4, <1>5, <1>6 DEF Tiles
<1> QED BY <1>7 DEF r

\* A merge of an empty item leaves the same lines held.
LEMMA AbsorbedKeeps ==
    ASSUME NEW s \in Seq(Item), NEW lo \in Int, NEW hi \in Int, Tiles(s, lo, hi),
           NEW i \in 1 .. Len(s) - 1, IsLog(s[i]), IsLog(s[i + 1]), s[i].n = 0,
           NEW w, Keeps(s, hi, w)
    PROVE  Keeps(Absorbed(s, i), hi, w)
<1> DEFINE r == Absorbed(s, i)
<1>0. Len(s) \in Nat /\ i \in 1 .. Len(s) /\ i + 1 \in 1 .. Len(s)
  OBVIOUS
<1>1. Len(r) = Len(s) - 1
  BY AbsorbedItems
<1>2. ASSUME NEW j \in 1 .. Len(r), NEW line \in Int
      PROVE  Finish(i, j) \in 1 .. Len(s) /\ (Holds(r, j, line) <=> Holds(s, Finish(i, j), line))
  <2>1. j \in 1 .. Len(s) - 1
    BY <1>1
  <2>2. /\ Finish(i, j) \in 1 .. Len(s)
        /\ IsLog(r[j]) <=> IsLog(s[Finish(i, j)])
        /\ IsLog(r[j]) => r[j].srcEnd = s[Finish(i, j)].srcEnd /\ r[j].n = s[Finish(i, j)].n
    BY <2>1, AbsorbedSpans
  <2> QED BY <2>2 DEF Holds
<1> HIDE DEF r
<1>3. ASSUME NEW line \in Int, NEW a \in 1 .. Len(s), Holds(s, a, line)
      PROVE  \E j \in 1 .. Len(r) : Holds(r, j, line)
  <2>1. a # i
    <3>1. s[i].srcEnd \in Nat
      BY <1>0, ItemNumbers
    <3> QED BY <1>3, <3>1 DEF Holds
  <2> DEFINE j == IF a < i THEN a ELSE a - 1
  <2>2. j \in 1 .. Len(r) /\ Finish(i, j) = a
    BY <1>0, <1>1, <2>1 DEF Finish
  <2> QED BY <1>2, <1>3, <2>2
<1>4. Keeps(r, hi, w)
  BY <1>2, <1>3 DEF Keeps
<1> QED BY <1>4 DEF r

\* What the loop is to return.
Dropped(r, lo, hi, kept) == r \in Seq(Item) /\ Tiles(r, lo, hi) /\ Keeps(r, hi, kept) /\ Small(r)

\* An item that holds a line has lines.
LEMMA HolderHasLines ==
    ASSUME NEW s \in Seq(Item), NEW j \in 1 .. Len(s), NEW line \in Int, Holds(s, j, line)
    PROVE  LinesOf(s[j]) # 0 /\ IsLog(s[j])
BY ItemNumbers DEF Holds

\* A cut makes no item larger.
LEMMA CutSmall ==
    ASSUME NEW s \in Seq(Item), NEW i \in 1 .. Len(s), NEW e \in Nat, LinesOf(s[i]) # 0, Small(s)
    PROVE  /\ Small(Cut(s, i, e))
           /\ LinesOf(Cut(s, i, e)[i]) = s[i].n - Taken(s, i, e)
           /\ IsLog(Cut(s, i, e)[i]) /\ Cut(s, i, e)[i].n = s[i].n - Taken(s, i, e)
<1> DEFINE c == Cut(s, i, e)
           k == Taken(s, i, e)
<1>1. /\ IsLog(s[i]) /\ s[i].n \in Nat /\ k \in 0 .. s[i].n
      /\ Len(c) = Len(s) /\ c[i] = LogItem(s[i].n - k, s[i].omitted + k, s[i].srcEnd)
      /\ \A j \in 1 .. Len(s) : j # i => c[j] = s[j]
  BY CutItems
<1> HIDE DEF c, k
<1>2. LinesOf(c[i]) = s[i].n - k /\ IsLog(c[i]) /\ c[i].n = s[i].n - k
  BY <1>1 DEF LinesOf, IsLog, LogItem
<1>3. LinesOf(s[i]) = s[i].n /\ s[i].n <= MaxLinesPerEvent /\ MaxLinesPerEvent \in Nat
  BY <1>1, ItemNumbers, QueueAssumption DEF Small
<1>4. Small(c)
  BY <1>1, <1>2, <1>3 DEF Small
<1> QED BY <1>2, <1>4 DEF c, k

\* Where the loop ends, it returns what it is to return.
LEMMA LoopEnds ==
    ASSUME NEW s \in Seq(Item), NEW i \in Nat \ {0}, NEW e \in Nat,
           NEW lo \in Nat, NEW hi \in Nat, NEW kept \in Nat,
           Loop(s, i, e, lo, hi, kept), Ends(s, i, e)
    PROVE  Dropped(Left(s, i, e), lo, hi, kept)
<1>1. CASE e = 0
  <2>1. kept + e = kept
    BY <1>1
  <2> QED BY <1>1, <2>1 DEF Loop, Left, Dropped
<1>2. CASE e # 0 /\ i > Len(s)
  <2>1. hi - (kept + e) < hi /\ hi <= hi /\ hi \in Int
    BY <1>2
  <2>2. PICK j \in 1 .. Len(s) : Holds(s, j, hi)
    BY <2>1 DEF Loop, Keeps
  <2>3. j < i
    BY <1>2, LenProperties
  <2> QED BY <2>2, <2>3, HolderHasLines DEF Loop, Emptied
<1>3. CASE e # 0 /\ ~ (i > Len(s))
  <2>1. i \in 1 .. Len(s) /\ LinesOf(s[i]) # 0 /\ Cut(s, i, e)[i].n > 0
    BY <1>3, LenProperties DEF Ends
  <2>2. Taken(s, i, e) = e
    <3>1. Cut(s, i, e)[i].n = s[i].n - Taken(s, i, e) /\ s[i].n \in Nat
      BY <2>1, CutItems, CutSmall DEF Loop
    <3>2. Taken(s, i, e) = e \/ Taken(s, i, e) = s[i].n
      BY <2>1, CutItems
    <3> QED BY <2>1, <3>1, <3>2
  <2>3. Keeps(Cut(s, i, e), hi, kept + e - e)
    <3>1. /\ Tiles(s, lo, hi) /\ Keeps(s, hi, kept + e)
          /\ Emptied(s, i)
      BY DEF Loop
    <3>2. kept + e \in Nat /\ lo \in Int /\ hi \in Int
      OBVIOUS
    <3> DEFINE w == kept + e
    <3>3. w \in Nat /\ Keeps(s, hi, w)
      BY <3>1
    <3> HIDE DEF w
    <3>4. Keeps(Cut(s, i, e), hi, w - Taken(s, i, e))
      BY <2>1, <3>1, <3>2, <3>3, CutKeeps
    <3> QED BY <2>2, <3>4 DEF w
  <2>4. kept + e - e = kept
    OBVIOUS
  <2>5. Left(s, i, e) = Cut(s, i, e)
    BY <1>3 DEF Left
  <2> QED BY <2>1, <2>3, <2>4, <2>5, CutItems, CutTiles, CutSmall DEF Loop, Dropped
<1> QED BY <1>1, <1>2, <1>3

\* A turn that goes on keeps the loop invariant.
LEMMA LoopGoes ==
    ASSUME NEW s \in Seq(Item), NEW i \in Nat \ {0}, NEW e \in Nat,
           NEW lo \in Nat, NEW hi \in Nat, NEW kept \in Nat,
           Loop(s, i, e, lo, hi, kept), ~ Ends(s, i, e)
    PROVE  \E t \in Seq(Item), j \in Nat \ {0}, x \in Nat :
              /\ Onward(s, i, e) = <<t, j, x>> /\ Measure(t, j) < Measure(s, i)
              /\ Loop(t, j, x, lo, hi, kept)
<1>0. Len(s) \in Nat /\ i \in 1 .. Len(s)
  BY LenProperties DEF Ends
<1>1. PICK t \in Seq(Item), j \in Nat \ {0}, x \in Nat :
         Onward(s, i, e) = <<t, j, x>> /\ Measure(t, j) < Measure(s, i)
  BY OnwardItems
<1> SUFFICES Loop(t, j, x, lo, hi, kept)
  BY <1>1
<1>2. CASE LinesOf(s[i]) = 0
  <2>1. t = s /\ j = i + 1 /\ x = e
    BY <1>1, <1>2 DEF Onward
  <2> QED BY <1>0, <1>2, <2>1 DEF Loop, Emptied
<1>3. CASE LinesOf(s[i]) # 0
  <2> DEFINE c == Cut(s, i, e)
             k == Taken(s, i, e)
  <2>1. /\ c \in Seq(Item) /\ Len(c) = Len(s) /\ k \in 0 .. s[i].n /\ s[i].n \in Nat
        /\ k = e \/ k = s[i].n
        /\ e - k \in Nat /\ k \in Nat
        /\ \A a \in 1 .. Len(s) : a # i => c[a] = s[a]
    <3>1. /\ c \in Seq(Item) /\ Len(c) = Len(s) /\ k \in 0 .. s[i].n /\ s[i].n \in Nat
          /\ k = e \/ k = s[i].n
          /\ e - k \in Nat
      BY <1>0, <1>3, CutItems
    <3>2. \A a \in 1 .. Len(s) : a # i => c[a] = s[a]
      BY <1>0, <1>3, CutItems
    <3> HIDE DEF c, k
    <3> QED BY <3>1, <3>2
  <2>2. /\ Tiles(c, lo, hi) /\ Keeps(c, hi, kept + e - k) /\ Small(c)
        /\ LinesOf(c[i]) = s[i].n - k /\ IsLog(c[i]) /\ c[i].n = s[i].n - k
    <3>1. kept + e \in Nat /\ lo \in Int /\ hi \in Int
      OBVIOUS
    <3>2. Tiles(c, lo, hi)
      BY <1>0, <1>3, CutTiles DEF Loop
    <3>3. Keeps(c, hi, kept + e - k)
      <4>1. PICK w \in Nat : w = kept + e
        BY <3>1
      <4>2. Tiles(s, lo, hi) /\ Keeps(s, hi, w) /\ Emptied(s, i)
        BY <4>1 DEF Loop
      <4>3. Keeps(Cut(s, i, e), hi, w - Taken(s, i, e))
        BY <1>0, <1>3, <3>1, <4>2, CutKeeps
      <4>4. Keeps(c, hi, w - k)
        BY <4>3
      <4> HIDE DEF c, k
      <4>5. w - k = kept + e - k
        BY <2>1, <4>1
      <4> QED BY <4>4, <4>5, Zenon
    <3>4. Small(c) /\ LinesOf(c[i]) = s[i].n - k /\ IsLog(c[i]) /\ c[i].n = s[i].n - k
      BY <1>0, <1>3, CutSmall DEF Loop
    <3> HIDE DEF c, k
    <3> QED BY <3>2, <3>3, <3>4
  <2>3. ~ (c[i].n > 0)
    BY <1>0, <1>3 DEF Ends
  <2> HIDE DEF c, k
  <2>4. c[i].n = 0 /\ LinesOf(c[i]) = 0
    BY <2>1, <2>2, <2>3
  <2>5. kept + e - k = kept + (e - k)
    BY <2>1
  <2>6. \A a \in 1 .. Len(c) : a < i \/ a = i => LinesOf(c[a]) = 0
    BY <2>1, <2>4 DEF Loop, Emptied
  <2>7. CASE i < Len(s) /\ IsLog(s[i + 1])
    <3>1. t = Absorbed(c, i) /\ j = i /\ x = e - k
      BY <1>1, <1>3, <2>7 DEF Onward, c, k
    <3>2. i \in 1 .. Len(c) - 1 /\ IsLog(c[i]) /\ IsLog(c[i + 1])
      <4>1. i + 1 \in 1 .. Len(s) /\ i + 1 # i
        BY <1>0, <2>7
      <4>2. c[i + 1] = s[i + 1]
        BY <2>1, <4>1
      <4> QED BY <1>0, <2>1, <2>2, <2>7, <4>2
    <3>3. Tiles(t, lo, hi) /\ Keeps(t, hi, kept + x)
      BY <2>1, <2>2, <2>4, <2>5, <3>1, <3>2, AbsorbedTiles, AbsorbedKeeps
    <3>4. /\ Len(t) = Len(c) - 1
          /\ t[i] = LogItem(c[i + 1].n, c[i + 1].omitted + c[i].omitted, c[i + 1].srcEnd)
          /\ \A a \in 1 .. Len(c) - 1 : a # i => t[a] = IF a < i THEN c[a] ELSE c[a + 1]
      BY <2>1, <3>1, <3>2, AbsorbedItems
    <3>5. \A a \in 1 .. Len(t) : a < i => LinesOf(t[a]) = 0
      <4> SUFFICES ASSUME NEW a \in 1 .. Len(t), a < i PROVE LinesOf(t[a]) = 0
        OBVIOUS
      <4>1. a \in 1 .. Len(c) - 1 /\ a # i /\ a \in 1 .. Len(c)
        BY <1>0, <2>1, <3>4, SMTT(30)
      <4>2. t[a] = c[a]
        BY <3>4, <4>1
      <4> QED BY <2>6, <4>1, <4>2
    <3>6. LinesOf(t[i]) = LinesOf(c[i + 1])
      BY <3>2, <3>4 DEF LinesOf, IsLog, LogItem
    <3>7. Small(t)
      <4> SUFFICES ASSUME NEW a \in 1 .. Len(t) PROVE LinesOf(t[a]) <= MaxLinesPerEvent
        BY DEF Small
      <4>1. CASE a = i
        <5>1. i + 1 \in 1 .. Len(c)
          BY <1>0, <2>1, <2>7
        <5>2. LinesOf(c[i + 1]) <= MaxLinesPerEvent
          BY <2>2, <5>1 DEF Small
        <5> QED BY <3>6, <4>1, <5>2
      <4>2. CASE a # i
        <5>1. t[a] = c[a] \/ t[a] = c[a + 1]
          BY <3>4, <4>2
        <5>2. a \in 1 .. Len(c) /\ a + 1 \in 1 .. Len(c)
          BY <1>0, <2>1, <3>4
        <5> QED BY <2>2, <5>1, <5>2 DEF Small
      <4> QED BY <4>1, <4>2
    <3> QED BY <3>1, <3>3, <3>5, <3>7 DEF Loop, Emptied
  <2>8. CASE ~ (i < Len(s) /\ IsLog(s[i + 1]))
    <3>1. t = c /\ j = i + 1 /\ x = e - k
      BY <1>1, <1>3, <2>8 DEF Onward, c, k
    <3>2. \A a \in 1 .. Len(t) : a < j => LinesOf(t[a]) = 0
      BY <1>0, <2>6, <3>1
    <3> QED BY <2>2, <2>5, <3>1, <3>2 DEF Loop, Emptied
  <2> QED BY <2>7, <2>8
<1> QED BY <1>2, <1>3

\* dropOldLocked drops the oldest lines, as many as it is told, and counts them.
LEMMA DropOldKeeps ==
    ASSUME NEW lo \in Nat, NEW hi \in Nat, NEW kept \in Nat,
           NEW s \in Seq(Item), NEW e \in Nat, Loop(s, 1, e, lo, hi, kept)
    PROVE  Dropped(dropOld[<<s, 1, e>>], lo, hi, kept)
<1> DEFINE m == [a \in Arg |-> Measure(a[1], a[2])]
           bad == {a \in Arg : Loop(a[1], a[2], a[3], lo, hi, kept) /\ ~ Dropped(dropOld[a], lo,
               hi, kept)}
<1>1. m \in [Arg -> Nat] /\ bad \subseteq Arg
  BY ArgParts, MeasureType
<1>2. ASSUME NEW a \in bad PROVE \E b \in bad : m[b] < m[a]
  <2>1. PICK u \in Seq(Item), i \in Nat \ {0}, y \in Nat : a = <<u, i, y>>
    BY ArgParts
  <2>2. /\ a \in Arg /\ m[a] = Measure(u, i) /\ Loop(u, i, y, lo, hi, kept)
        /\ ~ Dropped(dropOld[<<u, i, y>>], lo, hi, kept)
    BY <2>1, PartsArg
  <2>3. ~ Ends(u, i, y)
    BY <2>2, DropOldStep, LoopEnds, SMTT(30)
  <2>4. PICK t \in Seq(Item), j \in Nat \ {0}, x \in Nat :
          /\ Onward(u, i, y) = <<t, j, x>> /\ Measure(t, j) < Measure(u, i)
          /\ Loop(t, j, x, lo, hi, kept)
    BY <2>2, <2>3, LoopGoes
  <2>5. dropOld[<<u, i, y>>] = dropOld[<<t, j, x>>]
    BY <2>3, <2>4, DropOldStep
  <2>6. <<t, j, x>> \in bad /\ m[<<t, j, x>>] = Measure(t, j)
    BY <2>2, <2>4, <2>5, PartsArg
  <2> QED BY <2>2, <2>4, <2>6
<1>3. bad = {}
  <2> HIDE DEF m, bad
  <2> QED BY <1>1, <1>2, NoDescent
<1>4. <<s, 1, e>> \in Arg /\ <<s, 1, e>> \notin bad
  BY <1>3, PartsArg
<1> QED BY <1>4, PartsArg

-------------------------------------------------------------------------------
(***************************************************************************)
(* Queue.Log splits and appends, and Queue.next takes the first item.      *)
(***************************************************************************)

\* Multiples of m are m apart.
LEMMA MulStep ==
    ASSUME NEW a \in Nat, NEW b \in Nat, NEW m \in Nat, a < b
    PROVE  a * m \in Nat /\ b * m \in Nat /\ a * m + m <= b * m
<1>1. PICK d \in Nat : b = a + 1 + d
  <2> b - a - 1 \in Nat /\ b = a + 1 + (b - a - 1)
    OBVIOUS
  <2> QED OBVIOUS
<1>2. d * m \in Nat /\ a * m \in Nat /\ b * m = a * m + m + d * m
  BY <1>1
<1> QED BY <1>2

\* Division rounds down.
LEMMA DivBounds ==
    ASSUME NEW d \in Nat, NEW m \in Nat \ {0}
    PROVE  d \div m \in Nat /\ (d \div m) * m <= d /\ d < (d \div m) * m + m
OBVIOUS

\* Item k of n lines has the lines from Before(k) on, at most up to n.
Before(k) == (k - 1) * MaxLinesPerEvent
Until(n, k) == Before(k) + Smaller(MaxLinesPerEvent, n - Before(k))

\* The items that n lines become follow one another and leave out no line.
LEMMA SplitItems ==
    ASSUME NEW n \in Nat \ {0}, srcTotal \in Nat
    PROVE  /\ Split(n) \in Seq(Item)
           /\ \A k \in 1 .. Len(Split(n)) :
                 /\ IsLog(Split(n)[k]) /\ Split(n)[k].srcEnd = srcTotal + Until(n, k)
                 /\ Split(n)[k].n = Until(n, k) - Before(k) /\ Split(n)[k].n <= MaxLinesPerEvent
                 /\ FirstLine(Split(n)[k]) = srcTotal + Before(k) + 1
                 /\ Before(k) \in Nat /\ Until(n, k) \in Nat
                 /\ Before(k) < Until(n, k) /\ Until(n, k) <= n
           /\ \A i, j \in 1 .. Len(Split(n)) : i < j => Until(n, i) <= Before(j)
           /\ \A x \in 1 .. n : \E k \in 1 .. Len(Split(n)) : Before(k) < x /\ x <= Until(n, k)
<1> DEFINE M == MaxLinesPerEvent
           d == n + M - 1
           q == d \div M
           s == Split(n)
<1>0. M \in Nat \ {0} /\ M \in Nat
  BY QueueAssumption
<1>1. d \in Nat
  BY <1>0
<1>2. q \in Nat /\ q * M <= d /\ d < q * M + M /\ q * M \in Nat
  <2> HIDE DEF d
  <2> QED BY <1>0, <1>1, DivBounds
<1>3. ASSUME NEW k \in 1 .. q
      PROVE  /\ Before(k) \in Nat /\ Before(k) + 1 <= n /\ Before(k) + M = k * M
             /\ Until(n, k) \in Nat /\ Before(k) < Until(n, k) /\ Until(n, k) <= n
             /\ Until(n, k) <= k * M /\ k * M \in Nat
             /\ Until(n, k) = n \/ Until(n, k) = Before(k) + M
             /\ Until(n, k) - Before(k) = Smaller(M, n - Before(k))
             /\ Smaller(M, n - Before(k)) \in 1 .. M
  <2>1. k \in Nat /\ k - 1 \in Nat /\ k <= q /\ k - 1 < q
    BY <1>2
  <2>2. Before(k) \in Nat /\ Before(k) + M <= q * M
    BY <1>0, <1>2, <2>1, MulStep DEF Before
  <2>3. Before(k) + M = k * M /\ k * M \in Nat
    BY <1>0, <2>1 DEF Before
  <2>4. Before(k) + 1 <= n
    BY <1>0, <1>2, <2>2
  <2>5. Smaller(M, n - Before(k)) \in 1 .. M /\ Smaller(M, n - Before(k)) <= n - Before(k)
        /\ (Smaller(M, n - Before(k)) = M \/ Smaller(M, n - Before(k)) = n - Before(k))
    BY <1>0, <2>2, <2>4 DEF Smaller
  <2>6. Until(n, k) = Before(k) + Smaller(M, n - Before(k))
    BY DEF Until
  <2> HIDE DEF M
  <2> QED BY <1>0, <2>2, <2>3, <2>4, <2>5, <2>6
<1>4. s = [k \in 1 .. q |-> LogItem(Smaller(M, n - Before(k)), 0, srcTotal + Before(k) + Smaller(M,
      n - Before(k)))]
  BY DEF Split, Before
<1> HIDE DEF d, q
<1>5. ASSUME NEW k \in 1 .. q
      PROVE  /\ s[k] \in Item /\ IsLog(s[k]) /\ s[k].srcEnd = srcTotal + Until(n, k)
             /\ s[k].n = Until(n, k) - Before(k) /\ s[k].n <= M
             /\ FirstLine(s[k]) = srcTotal + Before(k) + 1
  <2> DEFINE size == Smaller(M, n - Before(k))
  <2>1. s[k] = LogItem(size, 0, srcTotal + Before(k) + size)
    BY <1>4
  <2> HIDE DEF s
  <2>2. size \in 1 .. M /\ Before(k) \in Nat /\ Until(n, k) = Before(k) + size
        /\ srcTotal + Before(k) + size \in Nat
    BY <1>0, <1>3 DEF Until
  <2> HIDE DEF size
  <2>3. size \in Nat /\ 0 \in Nat
    BY <1>0, <2>2
  <2>4. /\ s[k] \in Item /\ IsLog(s[k]) /\ s[k].n = size /\ s[k].omitted = 0
        /\ s[k].srcEnd = srcTotal + Before(k) + size
    BY <2>1, <2>2, <2>3, LogIsItem
  <2>5. FirstLine(s[k]) = (srcTotal + Before(k) + size) - size - 0 + 1
    BY <2>4 DEF FirstLine
  <2> HIDE DEF M
  <2>6. (srcTotal + Before(k) + size) - size - 0 + 1 = srcTotal + Before(k) + 1
    BY <2>2, <2>3
  <2>7. size = Until(n, k) - Before(k) /\ srcTotal + Before(k) + size = srcTotal + Until(n, k)
        /\ size <= M
    BY <1>0, <2>2, <2>3
  <2> QED BY <2>4, <2>5, <2>6, <2>7
<1>6. s \in Seq(Item) /\ Len(s) = q
  <2>1. s = [k \in 1 .. q |-> s[k]]
    BY <1>4
  <2>2. \A k \in 1 .. q : s[k] \in Item
    BY <1>5
  <2> HIDE DEF s
  <2> QED BY <1>2, <2>1, <2>2
<1>7. ASSUME NEW i \in 1 .. q, NEW j \in 1 .. q, i < j
      PROVE  Until(n, i) <= Before(j)
  <2>1. Until(n, i) <= i * M /\ Until(n, i) \in Nat
    BY <1>3
  <2>2. i \in Nat /\ j - 1 \in Nat /\ (i = j - 1 \/ i < j - 1)
    BY <1>2, <1>7
  <2>3. i * M \in Nat /\ Before(j) \in Nat /\ i * M <= Before(j)
    <3>1. CASE i = j - 1
      BY <1>3, <3>1 DEF Before
    <3>2. CASE i < j - 1
      <4>1. i * M \in Nat /\ (j - 1) * M \in Nat /\ i * M + M <= (j - 1) * M
        BY <1>0, <2>2, <3>2, MulStep
      <4> HIDE DEF M
      <4> QED BY <1>0, <4>1 DEF Before, M
    <3> QED BY <2>2, <3>1, <3>2
  <2> QED BY <2>1, <2>3
<1>8. ASSUME NEW x \in 1 .. n
      PROVE  \E k \in 1 .. q : Before(k) < x /\ x <= Until(n, k)
  <2> DEFINE y == x - 1
             p == y \div M
  <2>1. y \in Nat
    OBVIOUS
  <2>2. p \in Nat /\ p * M <= y /\ y < p * M + M /\ p * M \in Nat
    <3> HIDE DEF y
    <3> QED BY <1>0, <2>1, DivBounds
  <2> HIDE DEF p
  <2>3. p + 1 \in 1 .. q
    <3>1. ~ (q <= p)
      <4> SUFFICES ASSUME q <= p PROVE FALSE
        OBVIOUS
      <4>1. q * M <= p * M
        <5>1. CASE q = p
          BY <1>2, <5>1
        <5>2. CASE q < p
          <6>1. q * M + M <= p * M
            BY <1>0, <1>2, <2>2, <5>2, MulStep
          <6> HIDE DEF M
          <6> QED BY <1>0, <1>2, <2>2, <6>1 DEF M
        <5> QED BY <1>2, <2>2, <5>1, <5>2
      <4> HIDE DEF M
      <4>2. n - 1 < q * M
        BY <1>0, <1>2 DEF d
      <4> QED BY <1>2, <2>2, <4>1, <4>2
    <3> QED BY <1>2, <2>2, <3>1
  <2>4. Before(p + 1) = p * M
    BY <1>0, <2>2 DEF Before
  <2>5. Before(p + 1) < x
    BY <2>2, <2>4
  <2>6. x <= Until(n, p + 1)
    <3>1. Until(n, p + 1) = n \/ Until(n, p + 1) = Before(p + 1) + M
      BY <1>3, <2>3
    <3> HIDE DEF M
    <3> QED BY <1>0, <2>2, <2>4, <3>1
  <2> QED BY <2>3, <2>5, <2>6
<1> HIDE DEF s
<1>9. /\ s \in Seq(Item)
      /\ \A k \in 1 .. Len(s) :
            /\ IsLog(s[k]) /\ s[k].srcEnd = srcTotal + Until(n, k)
            /\ s[k].n = Until(n, k) - Before(k) /\ s[k].n <= M
            /\ FirstLine(s[k]) = srcTotal + Before(k) + 1
            /\ Before(k) \in Nat /\ Until(n, k) \in Nat
            /\ Before(k) < Until(n, k) /\ Until(n, k) <= n
  BY <1>3, <1>5, <1>6
<1> QED BY <1>6, <1>7, <1>8, <1>9 DEF s

\* They account for the n lines, and hold them all.
LEMMA SplitTiles ==
    ASSUME NEW n \in Nat \ {0}, srcTotal \in Nat
    PROVE  /\ Split(n) \in Seq(Item) /\ Tiles(Split(n), srcTotal, srcTotal + n)
           /\ Keeps(Split(n), srcTotal + n, n) /\ Small(Split(n))
<1> DEFINE s == Split(n)
<1>1. /\ s \in Seq(Item)
      /\ \A k \in 1 .. Len(s) :
            /\ IsLog(s[k]) /\ s[k].srcEnd = srcTotal + Until(n, k)
            /\ s[k].n = Until(n, k) - Before(k) /\ s[k].n <= MaxLinesPerEvent
            /\ FirstLine(s[k]) = srcTotal + Before(k) + 1
            /\ Before(k) \in Nat /\ Until(n, k) \in Nat
            /\ Before(k) < Until(n, k) /\ Until(n, k) <= n
      /\ \A i, j \in 1 .. Len(s) : i < j => Until(n, i) <= Before(j)
      /\ \A x \in 1 .. n : \E k \in 1 .. Len(s) : Before(k) < x /\ x <= Until(n, k)
  BY SplitItems
<1> HIDE DEF s
<1>2. ASSUME NEW k \in 1 .. Len(s), NEW line \in Int
      PROVE  /\ Covers(s, k, line) <=> srcTotal + Before(k) < line /\ line <= srcTotal + Until(n, k)
             /\ Holds(s, k, line) <=> srcTotal + Before(k) < line /\ line <= srcTotal + Until(n, k)
  <2>1. /\ IsLog(s[k]) /\ s[k].srcEnd = srcTotal + Until(n, k)
        /\ s[k].n = Until(n, k) - Before(k) /\ FirstLine(s[k]) = srcTotal + Before(k) + 1
        /\ Before(k) \in Nat /\ Until(n, k) \in Nat
    BY <1>1
  <2>2. Covers(s, k, line) <=> srcTotal + Before(k) < line /\ line <= srcTotal + Until(n, k)
    BY <2>1 DEF Covers
  <2>3. srcTotal + Until(n, k) - (Until(n, k) - Before(k)) = srcTotal + Before(k)
    BY <2>1
  <2>4. Holds(s, k, line) <=> srcTotal + Before(k) < line /\ line <= srcTotal + Until(n, k)
    BY <2>1, <2>3 DEF Holds
  <2> QED BY <2>2, <2>4
<1>3. ASSUME NEW line \in Int
      PROVE  (\E k \in 1 .. Len(s) : srcTotal + Before(k) < line /\ line <= srcTotal + Until(n, k))
                <=> srcTotal < line /\ line <= srcTotal + n
  <2>1. ASSUME srcTotal < line, line <= srcTotal + n
        PROVE  \E k \in 1 .. Len(s) : srcTotal + Before(k) < line /\ line <= srcTotal + Until(n, k)
    <3>1. line - srcTotal \in 1 .. n
      BY <2>1
    <3>2. PICK k \in 1 .. Len(s) : Before(k) < line - srcTotal /\ line - srcTotal <= Until(n, k)
      BY <1>1, <3>1
    <3>3. Before(k) \in Nat /\ Until(n, k) \in Nat
      BY <1>1
    <3> QED BY <3>2, <3>3
  <2>2. ASSUME NEW k \in 1 .. Len(s), srcTotal + Before(k) < line, line <= srcTotal + Until(n, k)
        PROVE  srcTotal < line /\ line <= srcTotal + n
    <3>1. Before(k) \in Nat /\ Until(n, k) \in Nat /\ Until(n, k) <= n
      BY <1>1
    <3> QED BY <2>2, <3>1
  <2> QED BY <2>1, <2>2
<1>4. Keeps(s, srcTotal + n, n)
  <2>1. srcTotal + n - n = srcTotal
    OBVIOUS
  <2> QED BY <1>2, <1>3, <2>1 DEF Keeps
<1>5. Small(s)
  BY <1>1 DEF Small, LinesOf
<1>6. Tiles(s, srcTotal, srcTotal + n)
  <2>1. ASSUME NEW j \in 1 .. Len(s)
        PROVE  /\ srcTotal < FirstLine(s[j]) /\ FirstLine(s[j]) <= s[j].srcEnd
               /\ s[j].srcEnd <= srcTotal + n
    <3>1. /\ s[j].srcEnd = srcTotal + Until(n, j) /\ FirstLine(s[j]) = srcTotal + Before(j) + 1
          /\ Before(j) \in Nat /\ Until(n, j) \in Nat /\ Before(j) < Until(n, j) /\ Until(n, j) <= n
      BY <1>1
    <3> QED BY <3>1
  <2>2. ASSUME NEW i \in 1 .. Len(s), NEW j \in 1 .. Len(s), i < j
        PROVE  s[i].srcEnd < FirstLine(s[j])
    <3>1. /\ s[i].srcEnd = srcTotal + Until(n, i) /\ FirstLine(s[j]) = srcTotal + Before(j) + 1
          /\ Until(n, i) \in Nat /\ Before(j) \in Nat /\ Until(n, i) <= Before(j)
      BY <1>1, <2>2
    <3> QED BY <3>1
  <2>3. ASSUME NEW line \in srcTotal + 1 .. srcTotal + n
        PROVE  \E j \in 1 .. Len(s) : Covers(s, j, line)
    BY <1>2, <1>3
  <2> QED BY <2>1, <2>2, <2>3 DEF Tiles
<1> QED BY <1>1, <1>4, <1>5, <1>6 DEF s

\* The items of two sequences, one behind the other.
LEMMA JoinItems ==
    ASSUME NEW s \in Seq(Item), NEW t \in Seq(Item)
    PROVE  /\ s \o t \in Seq(Item) /\ Len(s \o t) = Len(s) + Len(t)
           /\ Len(s) \in Nat /\ Len(t) \in Nat
           /\ \A j \in 1 .. Len(s) + Len(t) :
                 \/ j \in 1 .. Len(s) /\ (s \o t)[j] = s[j]
                 \/ j - Len(s) \in 1 .. Len(t) /\ (s \o t)[j] = t[j - Len(s)]
           /\ \A j \in 1 .. Len(s) : j \in 1 .. Len(s) + Len(t) /\ (s \o t)[j] = s[j]
           /\ \A j \in 1 .. Len(t) : j + Len(s) \in 1 .. Len(s) + Len(t)
              /\ (s \o t)[j + Len(s)] = t[j]
<1>1. /\ s \o t \in Seq(Item) /\ Len(s \o t) = Len(s) + Len(t)
      /\ \A j \in 1 .. Len(s) + Len(t) : (s \o t)[j] = IF j <= Len(s) THEN s[j] ELSE t[j - Len(s)]
  BY ConcatProperties
<1>2. Len(s) \in Nat /\ Len(t) \in Nat
  BY LenProperties
<1> DEFINE c == s \o t
<1> HIDE DEF c
<1>3. /\ c \in Seq(Item) /\ Len(c) = Len(s) + Len(t)
      /\ \A j \in 1 .. Len(s) + Len(t) : c[j] = IF j <= Len(s) THEN s[j] ELSE t[j - Len(s)]
  BY <1>1 DEF c
<1>4. ASSUME NEW j \in 1 .. Len(s) + Len(t)
      PROVE  \/ j \in 1 .. Len(s) /\ c[j] = s[j]
             \/ j - Len(s) \in 1 .. Len(t) /\ c[j] = t[j - Len(s)]
  BY <1>2, <1>3
<1>5. ASSUME NEW j \in 1 .. Len(s)
      PROVE  j \in 1 .. Len(s) + Len(t) /\ c[j] = s[j]
  BY <1>2, <1>3
<1>6. ASSUME NEW j \in 1 .. Len(t)
      PROVE  j + Len(s) \in 1 .. Len(s) + Len(t) /\ c[j + Len(s)] = t[j]
  <2>1. j + Len(s) \in 1 .. Len(s) + Len(t) /\ ~ (j + Len(s) <= Len(s)) /\ j + Len(s) - Len(s) = j
    BY <1>2
  <2> QED BY <1>3, <2>1
<1> QED BY <1>2, <1>3, <1>4, <1>5, <1>6 DEF c

\* Items that go on where others end.
LEMMA JoinTiles ==
    ASSUME NEW s \in Seq(Item), NEW t \in Seq(Item), NEW lo \in Int, NEW mid \in Int,
           NEW hi \in Int,
           Tiles(s, lo, mid), Tiles(t, mid, hi)
    PROVE  Tiles(s \o t, lo, hi)
<1> DEFINE c == s \o t
<1>1. /\ c \in Seq(Item) /\ Len(c) = Len(s) + Len(t) /\ Len(s) \in Nat /\ Len(t) \in Nat
      /\ \A j \in 1 .. Len(c) :
            \/ j \in 1 .. Len(s) /\ c[j] = s[j]
            \/ j - Len(s) \in 1 .. Len(t) /\ c[j] = t[j - Len(s)]
      /\ \A j \in 1 .. Len(s) : j \in 1 .. Len(c) /\ c[j] = s[j]
      /\ \A j \in 1 .. Len(t) : j + Len(s) \in 1 .. Len(c) /\ c[j + Len(s)] = t[j]
  <2>1. c \in Seq(Item) /\ Len(c) = Len(s) + Len(t) /\ Len(s) \in Nat /\ Len(t) \in Nat
    BY JoinItems
  <2>2. \A j \in 1 .. Len(s) + Len(t) :
           \/ j \in 1 .. Len(s) /\ c[j] = s[j]
           \/ j - Len(s) \in 1 .. Len(t) /\ c[j] = t[j - Len(s)]
    BY JoinItems
  <2>3. \A j \in 1 .. Len(s) : j \in 1 .. Len(s) + Len(t) /\ c[j] = s[j]
    BY JoinItems
  <2>4. \A j \in 1 .. Len(t) : j + Len(s) \in 1 .. Len(s) + Len(t) /\ c[j + Len(s)] = t[j]
    BY JoinItems
  <2> HIDE DEF c
  <2> QED BY <2>1, <2>2, <2>3, <2>4
<1> HIDE DEF c
<1>2. ASSUME NEW j \in 1 .. Len(s), IsLog(s[j])
      PROVE  /\ lo < FirstLine(s[j]) /\ FirstLine(s[j]) <= s[j].srcEnd /\ s[j].srcEnd <= mid
             /\ FirstLine(s[j]) \in Int /\ s[j].srcEnd \in Int
  BY <1>2, ItemNumbers DEF Tiles
<1>3. ASSUME NEW j \in 1 .. Len(t), IsLog(t[j])
      PROVE  /\ mid < FirstLine(t[j]) /\ FirstLine(t[j]) <= t[j].srcEnd /\ t[j].srcEnd <= hi
             /\ FirstLine(t[j]) \in Int /\ t[j].srcEnd \in Int
  BY <1>3, ItemNumbers DEF Tiles
<1>4. lo <= mid /\ mid <= hi
  BY DEF Tiles
<1>5. ASSUME NEW j \in 1 .. Len(c), IsLog(c[j])
      PROVE  lo < FirstLine(c[j]) /\ FirstLine(c[j]) <= c[j].srcEnd /\ c[j].srcEnd <= hi
  <2>1. CASE j \in 1 .. Len(s) /\ c[j] = s[j]
    BY <1>2, <1>4, <1>5, <2>1
  <2>2. CASE j - Len(s) \in 1 .. Len(t) /\ c[j] = t[j - Len(s)]
    BY <1>3, <1>4, <1>5, <2>2
  <2> QED BY <1>1, <2>1, <2>2
<1>6. ASSUME NEW i \in 1 .. Len(c), NEW j \in 1 .. Len(c), i < j, IsLog(c[i]), IsLog(c[j])
      PROVE  c[i].srcEnd < FirstLine(c[j])
  <2>1. CASE i \in 1 .. Len(s) /\ c[i] = s[i] /\ j \in 1 .. Len(s) /\ c[j] = s[j]
    BY <1>6, <2>1 DEF Tiles
  <2>2. CASE i \in 1 .. Len(s) /\ c[i] = s[i] /\ j - Len(s) \in 1 .. Len(t) /\ c[j] = t[j - Len(s)]
    <3>1. s[i].srcEnd <= mid /\ s[i].srcEnd \in Int
      BY <1>2, <1>6, <2>2
    <3>2. mid < FirstLine(t[j - Len(s)]) /\ FirstLine(t[j - Len(s)]) \in Int
      BY <1>3, <1>6, <2>2
    <3> QED BY <2>2, <3>1, <3>2
  <2>3. CASE i - Len(s) \in 1 .. Len(t) /\ c[i] = t[i - Len(s)] /\ j - Len(s) \in 1 .. Len(t)
             /\ c[j] = t[j - Len(s)]
    <3>1. i - Len(s) < j - Len(s)
      BY <1>1, <1>6
    <3> QED BY <1>6, <2>3, <3>1 DEF Tiles
  <2>4. CASE i - Len(s) \in 1 .. Len(t) /\ j \in 1 .. Len(s)
    BY <1>1, <1>6, <2>4
  <2> QED BY <1>1, <2>1, <2>2, <2>3, <2>4
<1>7. ASSUME NEW line \in lo + 1 .. hi
      PROVE  \E j \in 1 .. Len(c) : Covers(c, j, line)
  <2>1. CASE line <= mid
    <3>1. PICK j \in 1 .. Len(s) : Covers(s, j, line)
      BY <2>1, SMTT(30) DEF Tiles
    <3> QED BY <1>1, <3>1 DEF Covers
  <2>2. CASE ~ (line <= mid)
    <3>0. line \in mid + 1 .. hi
      BY <2>2
    <3>1. PICK j \in 1 .. Len(t) : Covers(t, j, line)
      BY <3>0 DEF Tiles
    <3> QED BY <1>1, <3>1 DEF Covers
  <2> QED BY <2>1, <2>2
<1>8. Tiles(c, lo, hi)
  BY <1>4, <1>5, <1>6, <1>7 DEF Tiles
<1> QED BY <1>8 DEF c

\* Behind what is held, all the lines of t are held.
LEMMA JoinKeeps ==
    ASSUME NEW s \in Seq(Item), NEW t \in Seq(Item), NEW hi \in Int, NEW w \in Nat, NEW n \in Nat,
           Keeps(s, hi, w), Keeps(t, hi + n, n)
    PROVE  Keeps(s \o t, hi + n, w + n)
<1> DEFINE c == s \o t
<1>1. /\ Len(c) = Len(s) + Len(t)
      /\ \A j \in 1 .. Len(c) :
            \/ j \in 1 .. Len(s) /\ c[j] = s[j]
            \/ j - Len(s) \in 1 .. Len(t) /\ c[j] = t[j - Len(s)]
      /\ \A j \in 1 .. Len(s) : j \in 1 .. Len(c) /\ c[j] = s[j]
      /\ \A j \in 1 .. Len(t) : j + Len(s) \in 1 .. Len(c) /\ c[j + Len(s)] = t[j]
  <2>1. c \in Seq(Item) /\ Len(c) = Len(s) + Len(t) /\ Len(s) \in Nat /\ Len(t) \in Nat
    BY JoinItems
  <2>2. \A j \in 1 .. Len(s) + Len(t) :
           \/ j \in 1 .. Len(s) /\ c[j] = s[j]
           \/ j - Len(s) \in 1 .. Len(t) /\ c[j] = t[j - Len(s)]
    BY JoinItems
  <2>3. \A j \in 1 .. Len(s) : j \in 1 .. Len(s) + Len(t) /\ c[j] = s[j]
    BY JoinItems
  <2>4. \A j \in 1 .. Len(t) : j + Len(s) \in 1 .. Len(s) + Len(t) /\ c[j + Len(s)] = t[j]
    BY JoinItems
  <2> HIDE DEF c
  <2> QED BY <2>1, <2>2, <2>3, <2>4
<1> HIDE DEF c
<1>2. ASSUME NEW line \in Int
      PROVE  (\E j \in 1 .. Len(c) : Holds(c, j, line))
                <=> (\E j \in 1 .. Len(s) : Holds(s, j, line)) \/ (\E j \in 1 .. Len(t) : Holds(t,
                    j, line))
  BY <1>1 DEF Holds
<1>3. (hi + n) - (w + n) = hi - w /\ (hi + n) - n = hi /\ hi <= hi + n /\ hi - w <= hi
  OBVIOUS
<1>4. ASSUME NEW line \in Int
      PROVE  (\E j \in 1 .. Len(c) : Holds(c, j, line)) <=> (hi + n) - (w + n) < line
             /\ line <= hi + n
  <2>1. (\E j \in 1 .. Len(s) : Holds(s, j, line)) <=> hi - w < line /\ line <= hi
    BY DEF Keeps
  <2>2. (\E j \in 1 .. Len(t) : Holds(t, j, line)) <=> (hi + n) - n < line /\ line <= hi + n
    BY DEF Keeps
  <2>3. (hi - w < line /\ line <= hi) \/ (hi < line /\ line <= hi + n) <=> hi - w < line
        /\ line <= hi + n
    BY <1>3
  <2> HIDE DEF c
  <2> QED BY <1>2, <1>3, <2>1, <2>2, <2>3, Zenon
<1>5. Keeps(c, hi + n, w + n)
  BY <1>4 DEF Keeps
<1> QED BY <1>5 DEF c

\* Joining makes no item larger.
LEMMA JoinSmall ==
    ASSUME NEW s \in Seq(Item), NEW t \in Seq(Item), Small(s), Small(t)
    PROVE  Small(s \o t)
<1> DEFINE c == s \o t
<1>1. /\ Len(c) = Len(s) + Len(t)
      /\ \A j \in 1 .. Len(c) :
            \/ j \in 1 .. Len(s) /\ c[j] = s[j]
            \/ j - Len(s) \in 1 .. Len(t) /\ c[j] = t[j - Len(s)]
  BY JoinItems
<1> HIDE DEF c
<1>2. Small(c)
  BY <1>1 DEF Small
<1> QED BY <1>2 DEF c

\* The first item goes.
LEMMA TailItems ==
    ASSUME NEW s \in Seq(Item), s # <<>>
    PROVE  /\ Tail(s) \in Seq(Item) /\ Len(s) \in Nat /\ 1 \in 1 .. Len(s) /\ Head(s) = s[1]
              /\ Head(s) \in Item
           /\ \A j \in 1 .. Len(Tail(s)) : j + 1 \in 2 .. Len(s) /\ j + 1 \in 1 .. Len(s)
              /\ Tail(s)[j] = s[j + 1]
           /\ \A j \in 2 .. Len(s) : j - 1 \in 1 .. Len(Tail(s)) /\ Tail(s)[j - 1] = s[j]
<1>1. /\ Head(s) \in Item /\ Tail(s) \in Seq(Item) /\ Len(Tail(s)) = Len(s) - 1
      /\ \A i \in 1 .. Len(Tail(s)) : Tail(s)[i] = s[i + 1]
  BY HeadTailProperties
<1>2. Len(s) \in Nat /\ Len(s) # 0 /\ Head(s) = s[1]
  BY LenProperties, EmptySeq
<1>3. \A j \in 2 .. Len(s) : j - 1 \in 1 .. Len(Tail(s)) /\ Tail(s)[j - 1] = s[j]
  <2> SUFFICES ASSUME NEW j \in 2 .. Len(s) PROVE j - 1 \in 1 .. Len(Tail(s))
      /\ Tail(s)[j - 1] = s[j]
    OBVIOUS
  <2>1. j - 1 \in 1 .. Len(Tail(s)) /\ j - 1 + 1 = j
    BY <1>1, <1>2
  <2> QED BY <1>1, <2>1
<1>4. \A j \in 1 .. Len(Tail(s)) : j + 1 \in 2 .. Len(s) /\ j + 1 \in 1 .. Len(s)
  BY <1>1, <1>2
<1> QED BY <1>1, <1>2, <1>3, <1>4

\* An event goes: the lines stay as they are.
LEMMA TailOfEvent ==
    ASSUME NEW s \in Seq(Item), s # <<>>, ~ IsLog(Head(s)), NEW lo, NEW hi, NEW w,
           Tiles(s, lo, hi), Keeps(s, hi, w)
    PROVE  Tiles(Tail(s), lo, hi) /\ Keeps(Tail(s), hi, w)
<1> DEFINE t == Tail(s)
<1>1. /\ Len(s) \in Nat /\ 1 \in 1 .. Len(s) /\ ~ IsLog(s[1])
      /\ \A j \in 1 .. Len(t) : j \in Nat /\ j + 1 \in 1 .. Len(s) /\ t[j] = s[j + 1]
      /\ \A j \in 2 .. Len(s) : j - 1 \in 1 .. Len(t) /\ t[j - 1] = s[j]
      /\ \A j \in 1 .. Len(s) : j = 1 \/ j \in 2 .. Len(s)
  BY TailItems
<1> HIDE DEF t
<1>2. \A i, j \in 1 .. Len(t) : i < j => i + 1 < j + 1
  BY <1>1
<1>3. Tiles(t, lo, hi)
  <2>1. \A j \in 1 .. Len(t) :
          IsLog(t[j]) => lo < FirstLine(t[j]) /\ FirstLine(t[j]) <= t[j].srcEnd /\ t[j].srcEnd <= hi
    BY <1>1 DEF Tiles
  <2>2. ASSUME NEW i \in 1 .. Len(t), NEW j \in 1 .. Len(t), i < j, IsLog(t[i]), IsLog(t[j])
        PROVE  t[i].srcEnd < FirstLine(t[j])
    <3>1. t[i] = s[i + 1] /\ t[j] = s[j + 1] /\ i + 1 < j + 1 /\ i + 1 \in 1 .. Len(s)
          /\ j + 1 \in 1 .. Len(s)
      BY <1>1, <1>2, <2>2
    <3> QED BY <2>2, <3>1 DEF Tiles
  <2>3. ASSUME NEW line \in lo + 1 .. hi PROVE \E j \in 1 .. Len(t) : Covers(t, j, line)
    <3>1. PICK j \in 1 .. Len(s) : Covers(s, j, line)
      BY DEF Tiles
    <3>2. j \in 2 .. Len(s)
      BY <1>1, <3>1 DEF Covers
    <3>3. j - 1 \in 1 .. Len(t) /\ t[j - 1] = s[j]
      BY <1>1, <3>2
    <3> QED BY <3>1, <3>3 DEF Covers
  <2> QED BY <2>1, <2>2, <2>3 DEF Tiles
<1>4. ASSUME NEW line \in Int
      PROVE  (\E j \in 1 .. Len(t) : Holds(t, j, line)) <=> (\E j \in 1 .. Len(s) : Holds(s, j,
             line))
  BY <1>1 DEF Holds
<1>5. Keeps(t, hi, w)
  BY <1>4 DEF Keeps
<1> QED BY <1>3, <1>5 DEF t

\* A log goes: it has the oldest lines, and the rest starts behind it.
LEMMA TailOfLog ==
    ASSUME NEW s \in Seq(Item), s # <<>>, IsLog(Head(s)),
           NEW lo \in Int, NEW hi \in Int, NEW w \in Nat, Tiles(s, lo, hi), Keeps(s, hi, w)
    PROVE  /\ FirstLine(Head(s)) = lo + 1 /\ FirstLine(Head(s)) <= Head(s).srcEnd
           /\ Tiles(Tail(s), Head(s).srcEnd, hi)
           /\ w - Head(s).n \in Nat /\ Keeps(Tail(s), hi, w - Head(s).n)
<1> DEFINE t == Tail(s)
           h == s[1]
<1>1. /\ Len(s) \in Nat /\ 1 \in 1 .. Len(s) /\ Head(s) = h
      /\ \A j \in 1 .. Len(t) : j \in Nat /\ j + 1 \in 1 .. Len(s) /\ 1 < j + 1 /\ t[j] = s[j + 1]
      /\ \A j \in 2 .. Len(s) : j - 1 \in 1 .. Len(t) /\ t[j - 1] = s[j]
      /\ \A j \in 1 .. Len(s) : j = 1 \/ (j \in 2 .. Len(s) /\ 1 < j)
  BY TailItems
<1> HIDE DEF t
<1>2. /\ IsLog(h) /\ h.n \in Nat /\ h.omitted \in Nat /\ h.srcEnd \in Nat /\ FirstLine(h) \in Int
      /\ LinesOf(h) = h.n
  BY <1>1, ItemNumbers
<1>3. lo < FirstLine(h) /\ FirstLine(h) <= h.srcEnd /\ h.srcEnd <= hi
  BY <1>1, <1>2 DEF Tiles
<1>4. ASSUME NEW j \in 1 .. Len(s), 1 < j, IsLog(s[j])
      PROVE  h.srcEnd < FirstLine(s[j]) /\ FirstLine(s[j]) \in Int
  BY <1>1, <1>2, <1>4, ItemNumbers DEF Tiles
<1>5. FirstLine(h) = lo + 1
  <2>1. lo + 1 \in lo + 1 .. hi
    BY <1>2, <1>3
  <2>2. PICK j \in 1 .. Len(s) : Covers(s, j, lo + 1)
    BY <2>1 DEF Tiles
  <2>3. j = 1
    <3> SUFFICES ASSUME 1 < j PROVE FALSE
      BY <1>1
    <3>1. IsLog(s[j]) /\ FirstLine(s[j]) <= lo + 1
      BY <2>2 DEF Covers
    <3>2. h.srcEnd < FirstLine(s[j]) /\ FirstLine(s[j]) \in Int
      BY <1>4, <3>1
    <3> HIDE DEF h
    <3> QED BY <1>2, <1>3, <3>1, <3>2
  <2>4. FirstLine(h) <= lo + 1
    BY <2>2, <2>3 DEF Covers
  <2> HIDE DEF h
  <2> QED BY <1>2, <1>3, <2>4
<1>6. Tiles(t, h.srcEnd, hi)
  <2>1. ASSUME NEW j \in 1 .. Len(t), IsLog(t[j])
        PROVE  h.srcEnd < FirstLine(t[j]) /\ FirstLine(t[j]) <= t[j].srcEnd /\ t[j].srcEnd <= hi
    <3>1. t[j] = s[j + 1] /\ j + 1 \in 1 .. Len(s) /\ 1 < j + 1
      BY <1>1
    <3> QED BY <1>4, <2>1, <3>1 DEF Tiles
  <2>2. ASSUME NEW i \in 1 .. Len(t), NEW j \in 1 .. Len(t), i < j, IsLog(t[i]), IsLog(t[j])
        PROVE  t[i].srcEnd < FirstLine(t[j])
    <3>1. t[i] = s[i + 1] /\ t[j] = s[j + 1] /\ i + 1 < j + 1 /\ i + 1 \in 1 .. Len(s)
          /\ j + 1 \in 1 .. Len(s)
      BY <1>1, <2>2
    <3> QED BY <2>2, <3>1 DEF Tiles
  <2>3. ASSUME NEW line \in h.srcEnd + 1 .. hi PROVE \E j \in 1 .. Len(t) : Covers(t, j, line)
    <3>0. line \in lo + 1 .. hi /\ ~ (line <= h.srcEnd)
      <4> HIDE DEF h
      <4> QED BY <1>2, <1>3
    <3>1. PICK j \in 1 .. Len(s) : Covers(s, j, line)
      BY <3>0 DEF Tiles
    <3>2. j # 1
      BY <3>0, <3>1 DEF Covers
    <3>3. j - 1 \in 1 .. Len(t) /\ t[j - 1] = s[j]
      BY <1>1, <3>2
    <3> QED BY <3>1, <3>3 DEF Covers
  <2> QED BY <1>3, <2>1, <2>2, <2>3 DEF Tiles
<1>7. ASSUME NEW j \in 1 .. Len(s), 1 < j, NEW line \in Int, Holds(s, j, line)
      PROVE  h.srcEnd < line
  BY <1>1, <1>2, <1>7, HeldLater
<1>8. ASSUME NEW line \in Int
      PROVE  (\E j \in 1 .. Len(t) : Holds(t, j, line))
                <=> (\E j \in 1 .. Len(s) : 1 < j /\ Holds(s, j, line))
  <2>1. ASSUME NEW j \in 1 .. Len(t), Holds(t, j, line)
        PROVE  \E i \in 1 .. Len(s) : 1 < i /\ Holds(s, i, line)
    <3>1. j + 1 \in 1 .. Len(s) /\ 1 < j + 1 /\ t[j] = s[j + 1]
      BY <1>1
    <3>2. Holds(s, j + 1, line)
      BY <2>1, <3>1 DEF Holds
    <3> QED BY <3>1, <3>2
  <2>2. ASSUME NEW j \in 1 .. Len(s), 1 < j, Holds(s, j, line)
        PROVE  \E i \in 1 .. Len(t) : Holds(t, i, line)
    <3>1. j - 1 \in 1 .. Len(t) /\ t[j - 1] = s[j]
      BY <1>1, <2>2
    <3> QED BY <2>2, <3>1 DEF Holds
  <2> QED BY <2>1, <2>2
<1>9. CASE h.n = 0
  <2>1. ASSUME NEW line \in Int PROVE ~ Holds(s, 1, line)
    <3> HIDE DEF h
    <3>1. Holds(s, 1, line) => h.srcEnd - h.n < line /\ line <= h.srcEnd
      BY DEF Holds, h
    <3> QED BY <1>2, <1>9, <3>1
  <2>2. Keeps(t, hi, w)
    BY <1>1, <1>8, <2>1 DEF Keeps
  <2>3. w - h.n = w
    <3> HIDE DEF h
    <3> QED BY <1>9
  <2> QED BY <1>1, <1>3, <1>5, <1>6, <2>2, <2>3 DEF t
<1>10. CASE h.n # 0
  <2>1. h.srcEnd - h.n = hi - w
    <3>1. LinesOf(s[1]) # 0
      BY <1>2, <1>10
    <3>2. \A j \in 1 .. Len(s) : j < 1 => LinesOf(s[j]) = 0
      BY <1>1
    <3> QED BY <1>1, <3>1, <3>2, OldestHeld DEF Emptied
  <2>2. hi - (w - h.n) = h.srcEnd /\ w - h.n \in Nat
    <3> HIDE DEF h
    <3> QED BY <1>2, <1>3, <2>1, SMTT(30)
  <2>3. ASSUME NEW line \in Int
        PROVE  (\E j \in 1 .. Len(s) : 1 < j /\ Holds(s, j, line)) <=> h.srcEnd < line /\ line <= hi
    <3>1. (\E j \in 1 .. Len(s) : Holds(s, j, line)) <=> hi - w < line /\ line <= hi
      BY DEF Keeps
    <3>2. h.srcEnd < line => ~ Holds(s, 1, line) /\ hi - w < line
      <4>1. Holds(s, 1, line) => line <= h.srcEnd
        BY DEF Holds
      <4>2. hi - w <= h.srcEnd /\ hi - w \in Int
        <5> HIDE DEF h
        <5> QED BY <1>2, <2>1
      <4> HIDE DEF h
      <4> QED BY <1>2, <4>1, <4>2
    <3>3. ASSUME NEW j \in 1 .. Len(s), 1 < j, Holds(s, j, line) PROVE h.srcEnd < line /\ line <= hi
      BY <1>7, <3>1, <3>3
    <3>4. ASSUME h.srcEnd < line, line <= hi PROVE \E j \in 1 .. Len(s) : 1 < j /\ Holds(s, j, line)
      <4>1. PICK j \in 1 .. Len(s) : Holds(s, j, line)
        BY <3>1, <3>2, <3>4
      <4>2. j # 1
        BY <3>2, <3>4, <4>1
      <4> QED BY <1>1, <4>1, <4>2
    <3> QED BY <3>3, <3>4
  <2>4. Keeps(t, hi, w - h.n)
    <3> HIDE DEF h
    <3> QED BY <1>8, <2>2, <2>3 DEF Keeps
  <2> QED BY <1>1, <1>3, <1>5, <1>6, <2>2, <2>4 DEF t
<1> QED BY <1>9, <1>10

-------------------------------------------------------------------------------
(***************************************************************************)
(* The invariant of the log half.                                          *)
(***************************************************************************)

\* The text of the item being sent, and the last line that the items behind
\* it need not account for.
Own == IF Sent THEN LinesOf(cur.body) ELSE 0
Base == IF Sent /\ IsLog(cur.body) THEN cur.body.srcEnd ELSE ackedSrc

\* A process that is down has no queue, and may still be started.
DeadQueue ==
    ~ up => items = <<>> /\ queued = 0 /\ phase = "idle" /\ unackedRestarts < MaxUnackedRestarts

\* The log being sent goes on where core's log ends.
SentNext ==
    Sent => /\ cur \in Post
            /\ up /\ IsLog(cur.body) =>
                  FirstLine(cur.body) = ackedSrc + 1 /\ ackedSrc + 1 <= cur.body.srcEnd

\* What waits behind it: counted in queued, and the newest lines.
Waiting ==
    /\ queued - Own \in Nat /\ Own \in 0 .. MaxLinesPerEvent
    /\ Small(items) /\ Keeps(items, srcTotal, queued - Own)

\* The items that wait account for every line behind the one being sent.
Tiling == up => Tiles(items, Base, srcTotal)

\* The inductive invariant of the log half.
LogInv == TypeOK /\ DeadQueue /\ SentNext /\ Waiting /\ Tiling

\* An empty queue accounts for no line.
LEMMA EmptyTiles ==
    ASSUME NEW n \in Int
    PROVE  Tiles(<<>>, n, n) /\ Keeps(<<>>, n, 0) /\ Small(<<>>)
BY DEF Tiles, Keeps, Small

\* The initial state.
LEMMA InitLog == Init => LogInv
<1> SUFFICES ASSUME Init PROVE LogInv
  OBVIOUS
<1>1. TypeOK
  <2>1. DeliveryTypeOK
    BY QueueAssumption, MarginAssumption DEF Init, DeliveryTypeOK, None
  <2>2. items \in Seq(Item) /\ queued \in 0 .. MaxQueuedLines /\ srcTotal \in 0 .. MaxLines
        /\ ackedSrc \in 0 .. MaxLines /\ ann.lines \in 0 .. MaxLines /\ submitted \in 0 .. MaxEvents
        /\ effects \in Nat /\ delivered \in Seq(Nat \ {0})
    BY QueueAssumption DEF Init
  <2> QED BY <2>1, <2>2 DEF Init, TypeOK
<1>2. ~ Sent /\ Own = 0 /\ Base = 0
  BY DEF Init, Sent, Own, Base
<1>3. Tiling /\ Waiting
  BY <1>2, EmptyTiles, QueueAssumption DEF Init, Tiling, Waiting
<1> QED BY <1>1, <1>2, <1>3 DEF Init, LogInv, DeadQueue, SentNext

\* An action that leaves the items and what is being sent alone.
LEMMA SameQueue ==
    ASSUME LogInv, TypeOK', DeadQueue', UNCHANGED <<items, queued, srcTotal, ackedSrc, up>>,
           Sent' <=> Sent, Sent => cur' = cur
    PROVE  LogInv'
<1>1. Own' = Own /\ Base' = Base
  BY DEF Own, Base
<1>2. SentNext'
  BY DEF LogInv, SentNext
<1>3. Waiting' /\ Tiling'
  BY <1>1 DEF LogInv, Waiting, Tiling
<1> QED BY <1>2, <1>3 DEF LogInv

-------------------------------------------------------------------------------
\* The parts of a request.
LEMMA PostParts ==
    ASSUME NEW p \in Post
    PROVE  p.seq \in Nat \ {0} /\ p.seq \in Nat /\ p.body \in Item
BY DEF Post

\* What the log half has types for; the rest is DeliveryTypeOK.
LogTypes ==
    /\ items \in Seq(Item)
    /\ queued \in 0 .. MaxQueuedLines /\ srcTotal \in 0 .. MaxLines
    /\ ackedSrc \in 0 .. MaxLines /\ ann.lines \in 0 .. MaxLines
    /\ submitted \in 0 .. MaxEvents

\* TypeOK in its parts.
LEMMA TypesOf == TypeOK <=>
    /\ DeliveryTypeOK /\ LogTypes /\ closed \in BOOLEAN /\ effects \in Nat
    /\ delivered \in Seq(Nat \ {0})
    /\ cur \in Post \cup {None} /\ posts \subseteq Post /\ applied \subseteq Post
BY Zenon DEF TypeOK, LogTypes

\* The run goroutine logs n lines.
LEMMA LogStep ==
    ASSUME LogInv, NEW n \in 1 .. MaxLines, Log(n) PROVE LogInv'
<1> DEFINE s == items \o Split(n)
           e == Overflow(queued + n)
           w == queued - Own
<1>1. /\ n \in Nat \ {0} /\ items \in Seq(Item) /\ srcTotal \in Nat
         /\ queued \in 0 .. MaxQueuedLines
      /\ ackedSrc \in 0 .. MaxLines /\ up /\ w \in Nat /\ Own \in 0 .. MaxLinesPerEvent
      /\ MaxLinesPerEvent \in Nat /\ MaxQueuedLines \in Nat /\ MaxLinesPerEvent <= MaxQueuedLines
      /\ MaxLines \in Nat
  BY QueueAssumption DEF LogInv, TypeOK, Waiting, Log
<1>2. Base \in Nat
  <2>1. CASE Sent /\ IsLog(cur.body)
    BY <2>1, PostParts, LogFields DEF LogInv, SentNext, Base
  <2>2. CASE ~ (Sent /\ IsLog(cur.body))
    BY <1>1, <2>2 DEF Base
  <2> QED BY <2>1, <2>2
<1>3. s \in Seq(Item) /\ Tiles(s, Base, srcTotal + n) /\ Keeps(s, srcTotal + n, w + n) /\ Small(s)
  <2>1. /\ Split(n) \in Seq(Item) /\ Tiles(Split(n), srcTotal, srcTotal + n)
        /\ Keeps(Split(n), srcTotal + n, n) /\ Small(Split(n))
    BY <1>1, SplitTiles
  <2>2. Tiles(items, Base, srcTotal) /\ Keeps(items, srcTotal, w) /\ Small(items)
    BY <1>1 DEF LogInv, Waiting, Tiling
  <2>3. Base \in Int /\ srcTotal \in Int /\ srcTotal + n \in Int /\ n \in Nat
    BY <1>1, <1>2
  <2> HIDE DEF w
  <2>4. s \in Seq(Item)
    BY <1>1, <2>1, JoinItems
  <2> QED BY <1>1, <2>1, <2>2, <2>3, <2>4, JoinTiles, JoinKeeps, JoinSmall
<1>4. /\ e \in Nat /\ queued + n - e \in 0 .. MaxQueuedLines
      /\ w + n - e \in Nat /\ (w + n - e) + e = w + n /\ (queued + n - e) - Own = w + n - e
  <2>1. CASE queued + n > MaxQueuedLines
    <3>1. e = (queued + n) - MaxQueuedLines
      BY <2>1 DEF Overflow
    <3> HIDE DEF e
    <3> QED BY <1>1, <2>1, <3>1
  <2>2. CASE ~ (queued + n > MaxQueuedLines)
    <3>1. e = 0
      BY <2>2 DEF Overflow
    <3> HIDE DEF e
    <3> QED BY <1>1, <2>2, <3>1
  <2> QED BY <2>1, <2>2
<1> DEFINE kept == w + n - e
           r == dropOld[<<s, 1, e>>]
<1> HIDE DEF s, e, w
<1>5. Dropped(r, Base, srcTotal + n, kept)
  <2>1. srcTotal + n \in Nat /\ kept \in Nat /\ 1 \in Nat
    BY <1>1, <1>4
  <2>2. Keeps(s, srcTotal + n, kept + e)
    BY <1>3, <1>4
  <2> HIDE DEF kept, r
  <2>3. ASSUME NEW j \in 1 .. Len(s), j < 1 PROVE LinesOf(s[j]) = 0
    BY <2>3
  <2>4. Loop(s, 1, e, Base, srcTotal + n, kept)
    BY <1>3, <2>2, <2>3 DEF Loop, Emptied
  <2> QED BY <1>2, <1>3, <1>4, <2>1, <2>4, DropOldKeeps DEF r
<1>6. items' = r /\ queued' = queued + n - e /\ srcTotal' = srcTotal + n
  BY DEF Log, s, e
<1>7. UNCHANGED <<ackedSrc, nextSeq, closed, phase, cur, up, ann, posts, lastSeq, applied, effects,
      delivered,
                  submitted, unrecorded, unackedRestarts, restarts>>
  BY DEF Log, coreVars, historyVars
<1> HIDE DEF r, kept
<1>8. Own' = Own /\ Base' = Base /\ (Sent' <=> Sent)
  BY <1>7 DEF Own, Base, Sent
<1>9. TypeOK'
  <2>1. LogTypes'
    <3>1. items' \in Seq(Item)
      BY <1>5, <1>6 DEF Dropped
    <3>2. LogTypes
      BY Zenon DEF LogInv, TypeOK, LogTypes
    <3>3. srcTotal' \in 0 .. MaxLines
      BY <1>1, <1>6 DEF Log
    <3> QED BY <1>4, <1>6, <1>7, <3>1, <3>2, <3>3 DEF LogTypes
  <2>2. DeliveryTypeOK'
    BY <1>7 DEF LogInv, TypeOK, DeliveryTypeOK
  <2> QED BY <1>7, <2>1, <2>2, Zenon DEF LogInv, TypeOK, LogTypes
<1>10. DeadQueue' /\ SentNext'
  BY <1>1, <1>7, <1>8 DEF LogInv, DeadQueue, SentNext
<1>11. Waiting'
  <2>1. queued' - Own' = kept
    BY <1>4, <1>6, <1>8 DEF kept
  <2> QED BY <1>1, <1>4, <1>5, <1>6, <1>8, <2>1 DEF Waiting, Dropped, kept
<1>12. Tiling'
  BY <1>5, <1>6, <1>8 DEF Tiling, Dropped
<1> QED BY <1>9, <1>10, <1>11, <1>12 DEF LogInv

\* It submits an event.
LEMMA EventStep ==
    ASSUME LogInv, Event PROVE LogInv'
<1> DEFINE it == EventItem(submitted')
           t == <<it>>
<1>1. /\ items \in Seq(Item) /\ submitted \in Nat /\ submitted < MaxEvents
         /\ submitted' = submitted + 1
      /\ up /\ srcTotal \in Nat
  BY QueueAssumption DEF LogInv, TypeOK, Event
<1>2. it \in Item /\ ~ IsLog(it)
  BY <1>1 DEF EventItem, Item, IsLog
<1> HIDE DEF it
<1>3. t \in Seq(Item) /\ Len(t) = 1 /\ t[1] = it /\ items' = items \o t
  BY <1>1, <1>2 DEF Event, it
<1>4. ASSUME NEW j \in 1 .. Len(t) PROVE ~ IsLog(t[j]) /\ LinesOf(t[j]) = 0
  BY <1>2, <1>3 DEF LinesOf
<1> HIDE DEF t
<1>5. Tiles(t, srcTotal, srcTotal) /\ Keeps(t, srcTotal + 0, 0) /\ Small(t)
  <2>1. Tiles(t, srcTotal, srcTotal)
    BY <1>1, <1>4 DEF Tiles
  <2>2. Keeps(t, srcTotal + 0, 0)
    BY <1>1, <1>4 DEF Keeps, Holds
  <2>3. Small(t)
    BY <1>4, QueueAssumption DEF Small
  <2> QED BY <2>1, <2>2, <2>3
<1>6. UNCHANGED <<queued, srcTotal, ackedSrc, nextSeq, closed, phase, cur, up, ann, posts, lastSeq,
      applied,
                  effects, delivered, unrecorded, unackedRestarts, restarts>>
  BY DEF Event, coreVars, historyVars
<1>7. Own' = Own /\ Base' = Base /\ (Sent' <=> Sent)
  BY <1>6 DEF Own, Base, Sent
<1>8. TypeOK'
  <2>1. LogTypes'
    <3>1. items' \in Seq(Item)
      BY <1>1, <1>3, JoinItems
    <3> QED BY <1>1, <1>6, <3>1, QueueAssumption DEF LogTypes, LogInv, TypeOK
  <2>2. DeliveryTypeOK'
    BY <1>6 DEF LogInv, TypeOK, DeliveryTypeOK
  <2> QED BY <1>6, <2>1, <2>2, Zenon DEF LogInv, TypeOK, LogTypes
<1>9. DeadQueue' /\ SentNext'
  BY <1>1, <1>6, <1>7 DEF LogInv, DeadQueue, SentNext
<1>10. Base \in Int
  <2>1. CASE Sent /\ IsLog(cur.body)
    BY <2>1, PostParts, LogFields DEF LogInv, SentNext, Base
  <2>2. CASE ~ (Sent /\ IsLog(cur.body))
    BY <2>2 DEF LogInv, TypeOK, Base
  <2> QED BY <2>1, <2>2
<1>11. Tiling'
  <2>1. Tiles(items, Base, srcTotal)
    BY <1>1 DEF LogInv, Tiling
  <2>2. Tiles(items \o t, Base, srcTotal)
    BY <1>1, <1>3, <1>5, <1>10, <2>1, JoinTiles
  <2> QED BY <1>3, <1>6, <1>7, <2>2 DEF Tiling
<1>12. Waiting'
  <2> DEFINE w == queued - Own
  <2>1. w \in Nat /\ Keeps(items, srcTotal, w) /\ Small(items) /\ Own \in 0 .. MaxLinesPerEvent
    BY DEF LogInv, Waiting
  <2>2. queued' - Own' = w /\ Own' = Own
    BY <1>6, <1>7
  <2> HIDE DEF w
  <2>3. Keeps(items \o t, srcTotal + 0, w + 0)
    BY <1>1, <1>3, <1>5, <2>1, JoinKeeps
  <2>4. srcTotal + 0 = srcTotal /\ w + 0 = w
    BY <1>1, <2>1
  <2>5. Small(items \o t)
    BY <1>1, <1>3, <1>5, <2>1, JoinSmall
  <2> QED BY <1>3, <1>6, <2>1, <2>2, <2>3, <2>4, <2>5 DEF Waiting
<1> QED BY <1>8, <1>9, <1>11, <1>12 DEF LogInv

\* The sending goroutine takes the first item.
LEMMA PickLog ==
    ASSUME LogInv, Pick PROVE LogInv'
<1> DEFINE h == Head(items)
<1>1. /\ items \in Seq(Item) /\ items # <<>> /\ up /\ phase = "idle" /\ phase' = "posting" /\ up'
      /\ cur' = [seq |-> nextSeq, body |-> h] /\ items' = Tail(items) /\ nextSeq' = nextSeq + 1
      /\ UNCHANGED <<queued, srcTotal, ackedSrc, closed, ann, posts, lastSeq, applied, effects,
         delivered, submitted,
                     unrecorded, unackedRestarts, restarts>>
  BY DEF LogInv, TypeOK, Pick, PickWith, coreVars, historyVars
<1>2. nextSeq \in Nat \ {0} /\ srcTotal \in Nat /\ ackedSrc \in Nat /\ queued \in Nat
  BY QueueAssumption DEF LogInv, TypeOK, DeliveryTypeOK
<1>3. ~ Sent /\ Sent' /\ Own = 0 /\ Base = ackedSrc
  BY <1>1 DEF Sent, Own, Base
<1>4. /\ h \in Item /\ Tail(items) \in Seq(Item) /\ LinesOf(h) \in Nat
         /\ LinesOf(h) <= MaxLinesPerEvent
      /\ Small(Tail(items))
  <2>1. /\ Tail(items) \in Seq(Item) /\ 1 \in 1 .. Len(items) /\ h = items[1] /\ h \in Item
        /\ \A j \in 1 .. Len(Tail(items)) : j + 1 \in 1 .. Len(items)
           /\ Tail(items)[j] = items[j + 1]
    BY <1>1, TailItems
  <2> HIDE DEF h
  <2>2. Small(items)
    BY DEF LogInv, Waiting
  <2> QED BY <2>1, <2>2, LinesType DEF Small
<1>5. cur' \in Post /\ cur'.body = h /\ cur'.seq = nextSeq
  <2> HIDE DEF h
  <2> QED BY <1>1, <1>2, <1>4 DEF Post
<1>6. /\ Tiles(items, ackedSrc, srcTotal) /\ Keeps(items, srcTotal, queued)
      /\ queued - 0 = queued
  BY <1>1, <1>2, <1>3 DEF LogInv, Waiting, Tiling
<1>7. Own' = LinesOf(h) /\ Base' = IF IsLog(h) THEN h.srcEnd ELSE ackedSrc
  BY <1>1, <1>3, <1>5 DEF Own, Base
<1> HIDE DEF h
<1>8. /\ Tiles(Tail(items), Base', srcTotal) /\ Keeps(Tail(items), srcTotal, queued - LinesOf(h))
      /\ queued - LinesOf(h) \in Nat
      /\ IsLog(h) => FirstLine(h) = ackedSrc + 1 /\ ackedSrc + 1 <= h.srcEnd
  <2>1. CASE IsLog(h)
    <3>1. LinesOf(h) = h.n /\ Base' = h.srcEnd
      BY <1>7, <2>1 DEF LinesOf
    <3>2. /\ FirstLine(h) = ackedSrc + 1 /\ FirstLine(h) <= h.srcEnd
          /\ Tiles(Tail(items), h.srcEnd, srcTotal)
          /\ queued - h.n \in Nat /\ Keeps(Tail(items), srcTotal, queued - h.n)
      <4>1. ackedSrc \in Int /\ srcTotal \in Int
        BY <1>2
      <4> QED BY <1>1, <1>2, <1>6, <2>1, <4>1, TailOfLog DEF h
    <3> QED BY <3>1, <3>2
  <2>2. CASE ~ IsLog(h)
    <3>1. LinesOf(h) = 0 /\ Base' = ackedSrc
      BY <1>7, <2>2 DEF LinesOf
    <3>2. Tiles(Tail(items), ackedSrc, srcTotal) /\ Keeps(Tail(items), srcTotal, queued)
      BY <1>1, <1>6, <2>2, TailOfEvent DEF h
    <3> QED BY <1>2, <1>6, <2>2, <3>1, <3>2
  <2> QED BY <2>1, <2>2
<1>9. TypeOK'
  <2>1. LogTypes'
    BY <1>1, <1>4 DEF LogTypes, LogInv, TypeOK
  <2>2. DeliveryTypeOK'
    BY <1>1, <1>2, <1>5 DEF LogInv, TypeOK, DeliveryTypeOK
  <2>3. cur' \in Post \cup {None}
    BY <1>5
  <2> QED BY <1>1, <2>1, <2>2, <2>3, Zenon DEF LogInv, TypeOK, LogTypes
<1>10. DeadQueue' /\ SentNext'
  BY <1>1, <1>5, <1>8 DEF DeadQueue, SentNext
<1>11. Waiting'
  BY <1>1, <1>4, <1>7, <1>8, QueueAssumption DEF Waiting
<1>12. Tiling'
  BY <1>1, <1>8 DEF Tiling
<1> QED BY <1>9, <1>10, <1>11, <1>12 DEF LogInv

\* The item being sent is acknowledged.
LEMMA AckLog ==
    ASSUME LogInv, Ack PROVE LogInv'
<1>1. /\ up /\ up' /\ phase = "answered" /\ phase' = "acked"
      /\ queued' = queued - LinesOf(cur.body)
      /\ ackedSrc' = (IF IsLog(cur.body) THEN cur.body.srcEnd ELSE ackedSrc)
      /\ UNCHANGED <<items, srcTotal, closed, nextSeq, cur, ann, posts, lastSeq, applied, effects,
         delivered, submitted,
                     unrecorded, unackedRestarts, restarts>>
  BY DEF Ack, coreVars, historyVars
<1>2. Sent /\ ~ Sent' /\ Own = LinesOf(cur.body) /\ Own' = 0 /\ Base' = Base /\ ackedSrc' = Base
  BY <1>1 DEF Sent, Own, Base
<1>3. queued - Own \in Nat /\ Own \in 0 .. MaxLinesPerEvent /\ queued \in 0 .. MaxQueuedLines
      /\ MaxQueuedLines \in Nat /\ MaxLines \in Nat /\ srcTotal \in 0 .. MaxLines
         /\ ackedSrc \in 0 .. MaxLines
  BY QueueAssumption DEF LogInv, TypeOK, Waiting
<1>4. Base \in 0 .. MaxLines
  <2>1. Tiles(items, Base, srcTotal)
    BY <1>1 DEF LogInv, Tiling
  <2>2. Base <= srcTotal
    BY <2>1 DEF Tiles
  <2>3. CASE IsLog(cur.body)
    <3>1. Base \in Nat
      BY <1>2, <2>3, PostParts, LogFields DEF LogInv, SentNext, Base
    <3> QED BY <1>3, <2>2, <3>1
  <2>4. CASE ~ IsLog(cur.body)
    BY <1>3, <2>4 DEF Base
  <2> QED BY <2>3, <2>4
<1>5. queued' = queued - Own /\ queued' \in 0 .. MaxQueuedLines /\ queued' - Own' = queued - Own
  BY <1>1, <1>2, <1>3
<1>6. TypeOK'
  <2>1. LogTypes'
    BY <1>1, <1>2, <1>4, <1>5 DEF LogTypes, LogInv, TypeOK
  <2>2. DeliveryTypeOK'
    BY <1>1 DEF LogInv, TypeOK, DeliveryTypeOK
  <2> QED BY <1>1, <2>1, <2>2, Zenon DEF LogInv, TypeOK, LogTypes
<1>7. DeadQueue' /\ SentNext'
  BY <1>1, <1>2 DEF DeadQueue, SentNext
<1>8. Waiting' /\ Tiling'
  <2>1. Waiting'
    BY <1>1, <1>2, <1>5, QueueAssumption DEF LogInv, Waiting
  <2>2. Tiling'
    BY <1>1, <1>2 DEF LogInv, Tiling
  <2> QED BY <2>1, <2>2
<1> QED BY <1>6, <1>7, <1>8 DEF LogInv

\* A process that ended, and one that starts.
LEMMA EmptyQueue ==
    ASSUME TypeOK', DeadQueue', items' = <<>>, queued' = 0, phase' = "idle",
           up' => srcTotal' = ackedSrc'
    PROVE  LogInv'
<1>1. ~ Sent' /\ Own' = 0 /\ Base' = ackedSrc'
  BY DEF Sent, Own, Base
<1>2. srcTotal' \in Int /\ ackedSrc' \in Int
  BY QueueAssumption DEF TypeOK
<1>3. Tiles(<<>>, srcTotal', srcTotal') /\ Keeps(<<>>, srcTotal', 0) /\ Small(<<>>)
  BY <1>2, EmptyTiles
<1>4. Waiting' /\ Tiling' /\ SentNext'
  BY <1>1, <1>2, <1>3, QueueAssumption DEF Waiting, Tiling, SentNext
<1> QED BY <1>4 DEF LogInv

\* The process ends.
LEMMA CrashLog ==
    ASSUME LogInv, Crash PROVE LogInv'
<1>1. /\ ~ up' /\ items' = <<>> /\ queued' = 0 /\ phase' = "idle" /\ cur' = None
      /\ unackedRestarts < MaxUnackedRestarts
      /\ UNCHANGED <<srcTotal, closed, ackedSrc, nextSeq, ann, posts, lastSeq, applied, effects,
         delivered, submitted,
                     unrecorded, unackedRestarts, restarts>>
  BY DEF Crash, coreVars, historyVars
<1>2. up' \in BOOLEAN
  BY Zenon DEF Crash
<1>3. None.seq \in Nat
  BY DEF None
<1>4. TypeOK'
  <2>1. LogTypes'
    BY <1>1, QueueAssumption DEF LogTypes, LogInv, TypeOK
  <2>2. DeliveryTypeOK'
    BY <1>1, <1>2, <1>3 DEF LogInv, TypeOK, DeliveryTypeOK
  <2> QED BY <1>1, <2>1, <2>2, TypesOf, Zenon DEF LogInv, TypeOK, LogTypes
<1>5. DeadQueue'
  BY <1>1 DEF DeadQueue
<1> QED BY <1>1, <1>4, <1>5, EmptyQueue

\* A new process starts where the annotation says.
LEMMA ResumeLog ==
    ASSUME LogInv, Resume PROVE LogInv'
<1>1. /\ ~ up /\ up' = TRUE /\ nextSeq' = ann.seq + 1 + SeqResumeMargin
      /\ srcTotal' = ann.lines /\ ackedSrc' = ann.lines /\ closed' = FALSE
      /\ restarts' = restarts + 1 /\ unackedRestarts' = unackedRestarts + 1
      /\ UNCHANGED <<items, queued, phase, cur, ann, posts, lastSeq, applied, effects, delivered,
         submitted, unrecorded>>
  BY DEF Resume, ResumeFrom, coreVars
<1>2. items = <<>> /\ queued = 0 /\ phase = "idle" /\ unackedRestarts < MaxUnackedRestarts
  BY <1>1 DEF LogInv, DeadQueue
<1>3. TypeOK'
  <2>1. LogTypes'
    BY <1>1 DEF LogTypes, LogInv, TypeOK
  <2>2. DeliveryTypeOK'
    BY <1>1, <1>2, QueueAssumption DEF LogInv, TypeOK, DeliveryTypeOK
  <2>3. closed' \in BOOLEAN
    BY <1>1
  <2> QED BY <1>1, <2>1, <2>2, <2>3, TypesOf, Zenon DEF LogInv, TypeOK, LogTypes
<1>4. DeadQueue'
  BY <1>1 DEF DeadQueue
<1> QED BY <1>1, <1>2, <1>3, <1>4, EmptyQueue

\* What core makes of a request has its types.
LEMMA ApplyTypes ==
    ASSUME TypeOK, NEW p \in Post, Apply(p)
    PROVE  /\ lastSeq' \in Nat /\ applied' \subseteq Post /\ effects' \in Nat
           /\ delivered' \in Seq(Nat \ {0})
           /\ \A q \in applied' : q.seq \in Nat \ {0}
<1>1. applied \subseteq Post /\ lastSeq \in Nat /\ effects \in Nat
  BY DEF TypeOK, DeliveryTypeOK
<1>2. lastSeq' \in Nat /\ applied' \subseteq Post /\ effects' \in Nat
  BY <1>1, PostParts DEF Apply, ApplyEvent, coreVars
<1>3. delivered' \in Seq(Nat \ {0})
  <2>1. delivered \in Seq(Nat \ {0}) /\ p.body \in Item
    BY PostParts DEF TypeOK
  <2>2. IsLog(p.body) \/ p.body.id \in Nat \ {0}
    BY <2>1 DEF Item, IsLog
  <2> QED BY <2>1, <2>2 DEF Apply, ApplyEvent, coreVars
<1> QED BY <1>2, <1>3, PostParts

\* The actions that leave the queue alone.
LEMMA QueueStep ==
    ASSUME LogInv,
           \/ Close \/ Drained \/ SendPost \/ OnAckRecord \/ OnAckSkip \/ HandleAnswered \/ UNCHANGED vars
           \/ \E p \in posts : LosePost(p) \/ HandleUnheard(p)
    PROVE  LogInv'
<1>1. /\ DeliveryTypeOK /\ LogTypes /\ closed \in BOOLEAN /\ effects \in Nat
      /\ delivered \in Seq(Nat \ {0})
      /\ cur \in Post \cup {None} /\ posts \subseteq Post /\ applied \subseteq Post
      /\ \A p \in Post : p.seq \in Nat \ {0}
  BY TypesOf, PostParts DEF LogInv
<1>2. Sent => cur \in Post
  BY DEF LogInv, SentNext
<1>3. None.seq \in Nat
  BY DEF None
<1>4. CASE Close
  <2>1. /\ closed' = TRUE /\ up
        /\ UNCHANGED <<items, queued, srcTotal, ackedSrc, nextSeq, phase, cur, up, ann, posts,
           lastSeq, applied,
                       effects, delivered, submitted, unrecorded, unackedRestarts, restarts>>
    BY <1>4 DEF Close, coreVars, historyVars
  <2>2. DeliveryTypeOK' /\ LogTypes'
    BY <1>1, <2>1 DEF DeliveryTypeOK, LogTypes
  <2>3. TypeOK'
    <3>1. closed' \in BOOLEAN
      BY <2>1
    <3> QED BY <1>1, <2>1, <2>2, <3>1, Zenon DEF TypeOK, LogTypes
  <2>4. DeadQueue' /\ (Sent' <=> Sent)
    BY <2>1 DEF DeadQueue, Sent
  <2> QED BY <2>1, <2>3, <2>4, SameQueue
<1>5. CASE Drained \/ OnAckSkip \/ OnAckRecord
  <2>1. /\ up /\ ~ Sent /\ phase' \in {"idle", "done"} /\ cur' \in {cur, None}
        /\ unrecorded' \in 0 .. MaxUnrecorded
        /\ unackedRestarts' \in {0, unackedRestarts}
        /\ ann' = ann \/ ann' = [seq |-> cur.seq, lines |-> ackedSrc]
        /\ UNCHANGED <<items, queued, srcTotal, ackedSrc, closed, nextSeq, up, posts, lastSeq,
           applied,
                       effects, delivered, submitted, restarts>>
    BY <1>1, <1>5, MarginAssumption, SMTT(30)
       DEF Drained, OnAckSkip, OnAckRecord, Record, queueVars, coreVars, historyVars, Sent,
           DeliveryTypeOK
  <2>2. ann'.seq \in Nat /\ ann'.lines \in 0 .. MaxLines /\ cur'.seq \in Nat
    BY <1>1, <1>3, <2>1, SMTT(30) DEF DeliveryTypeOK, LogTypes
  <2>3. DeliveryTypeOK' /\ LogTypes'
    <3>1. unackedRestarts' \in 0 .. MaxUnackedRestarts
      BY <1>1, <2>1, QueueAssumption DEF DeliveryTypeOK
    <3> QED BY <1>1, <2>1, <2>2, <3>1 DEF DeliveryTypeOK, LogTypes
  <2>4. TypeOK'
    <3>1. cur' \in Post \cup {None}
      BY <1>1, <2>1
    <3> QED BY <1>1, <2>1, <2>3, <3>1, Zenon DEF TypeOK, LogTypes
  <2>5. DeadQueue' /\ (Sent' <=> Sent)
    BY <2>1 DEF DeadQueue, Sent
  <2> QED BY <2>1, <2>4, <2>5, SameQueue
<1>6. CASE SendPost \/ (\E p \in posts : LosePost(p)) \/ UNCHANGED vars
  <2>1. /\ posts' \subseteq posts \cup (IF Sent THEN {cur} ELSE {})
        /\ UNCHANGED <<items, queued, srcTotal, ackedSrc, closed, nextSeq, phase, cur, up, ann,
           lastSeq, applied,
                       effects, delivered, submitted, unrecorded, unackedRestarts, restarts>>
    BY <1>6 DEF SendPost, LosePost, vars, builderVars, queueVars, coreVars, historyVars, Sent
  <2>2. posts' \subseteq Post
    BY <1>1, <1>2, <2>1
  <2>3. DeliveryTypeOK' /\ LogTypes'
    BY <1>1, <2>1, <2>2 DEF DeliveryTypeOK, LogTypes
  <2>4. TypeOK'
    BY <1>1, <2>1, <2>2, <2>3, Zenon DEF TypeOK, LogTypes
  <2>5. DeadQueue' /\ (Sent' <=> Sent)
    BY <2>1 DEF LogInv, DeadQueue, Sent
  <2> QED BY <2>1, <2>4, <2>5, SameQueue
<1>7. CASE HandleAnswered \/ \E p \in posts : HandleUnheard(p)
  <2>1. /\ posts' \subseteq posts
        /\ phase' = phase \/ (phase = "posting" /\ phase' = "answered" /\ up)
        /\ UNCHANGED <<items, queued, srcTotal, ackedSrc, closed, nextSeq, cur, up, ann, submitted,
                       unrecorded, unackedRestarts, restarts>>
    BY <1>7 DEF HandleAnswered, HandleUnheard, builderVars, queueVars, historyVars
  <2>2. \E p \in posts : Apply(p)
    BY <1>7 DEF HandleAnswered, HandleUnheard
  <2>3. /\ lastSeq' \in Nat /\ applied' \subseteq Post /\ effects' \in Nat
        /\ delivered' \in Seq(Nat \ {0})
        /\ \A q \in applied' : q.seq \in Nat \ {0}
    BY <1>1, <2>2, ApplyTypes DEF LogInv
  <2>4. posts' \subseteq Post
    BY <1>1, <2>1
  <2>5. DeliveryTypeOK' /\ LogTypes'
    BY <1>1, <2>1, <2>3, <2>4 DEF DeliveryTypeOK, LogTypes
  <2>6. TypeOK'
    BY <1>1, <2>1, <2>3, <2>4, <2>5, Zenon DEF TypeOK, LogTypes
  <2>7. DeadQueue' /\ (Sent' <=> Sent)
    BY <2>1 DEF LogInv, DeadQueue, Sent
  <2> QED BY <2>1, <2>6, <2>7, SameQueue
<1> QED BY <1>4, <1>5, <1>6, <1>7

\* Every step.
LEMMA NextLog == LogInv /\ [Next]_vars => LogInv'
<1> SUFFICES ASSUME LogInv, [Next]_vars PROVE LogInv'
  OBVIOUS
<1>1. CASE \E n \in 1 .. MaxLines : Log(n)
  BY <1>1, LogStep
<1>2. CASE Event \/ Pick \/ Ack
  BY <1>2, EventStep, PickLog, AckLog
<1>3. CASE Crash \/ Resume
  BY <1>3, CrashLog, ResumeLog
<1>4. CASE \/ Close \/ Drained \/ SendPost \/ OnAckRecord \/ OnAckSkip \/ HandleAnswered \/ UNCHANGED vars
           \/ \E p \in posts : LosePost(p) \/ HandleUnheard(p)
  BY <1>4, QueueStep
<1> QED BY <1>1, <1>2, <1>3, <1>4 DEF Next

\* The log half of the channel keeps its invariant, over any number of
\* restarts, acknowledged or not.
THEOREM LogsCorrect == Spec => []LogInv
BY InitLog, NextLog, PTL DEF Spec

-------------------------------------------------------------------------------
(***************************************************************************)
(* The properties of the queue, and of the log that core shows.            *)
(***************************************************************************)

\* Tiles, in the words of LinesTiled.
LEMMA TilesSpans ==
    ASSUME NEW q \in Seq(Item), NEW lo \in Int, NEW hi \in Int, Tiles(q, lo, hi)
    PROVE  /\ \A i, j \in LogsIn(q) : i < j => q[i].srcEnd < FirstLine(q[j])
           /\ UNION {FirstLine(q[i]) .. q[i].srcEnd : i \in LogsIn(q)} = lo + 1 .. hi
<1>1. \A i, j \in LogsIn(q) : i < j => q[i].srcEnd < FirstLine(q[j])
  BY DEF Tiles, LogsIn
<1>2. ASSUME NEW i \in LogsIn(q)
      PROVE  /\ i \in 1 .. Len(q) /\ IsLog(q[i]) /\ q[i].srcEnd \in Int /\ FirstLine(q[i]) \in Int
             /\ lo < FirstLine(q[i]) /\ q[i].srcEnd <= hi
  BY ItemNumbers DEF LogsIn, Tiles
<1>3. ASSUME NEW line \in Int
      PROVE  (\E i \in LogsIn(q) : FirstLine(q[i]) <= line /\ line <= q[i].srcEnd) <=> lo < line
             /\ line <= hi
  <2>1. ASSUME NEW i \in LogsIn(q), FirstLine(q[i]) <= line, line <= q[i].srcEnd PROVE lo < line
               /\ line <= hi
    BY <1>2, <2>1
  <2>2. ASSUME lo < line, line <= hi PROVE \E i \in LogsIn(q) : FirstLine(q[i]) <= line
               /\ line <= q[i].srcEnd
    <3>1. line \in lo + 1 .. hi
      BY <2>2
    <3> QED BY <3>1 DEF Tiles, Covers, LogsIn
  <2> QED BY <2>1, <2>2
<1> DEFINE U == UNION {FirstLine(q[i]) .. q[i].srcEnd : i \in LogsIn(q)}
<1>4. ASSUME NEW line PROVE line \in U <=> line \in lo + 1 .. hi
  <2>1. line \in U <=> line \in Int /\ \E i \in LogsIn(q) : FirstLine(q[i]) <= line
        /\ line <= q[i].srcEnd
    BY <1>2
  <2>2. line \in lo + 1 .. hi <=> line \in Int /\ lo < line /\ line <= hi
    OBVIOUS
  <2> HIDE DEF U
  <2> QED BY <1>3, <2>1, <2>2
<1>5. U = lo + 1 .. hi
  <2> HIDE DEF U
  <2> QED BY <1>4
<1> QED BY <1>1, <1>5

\* LinesTiled follows.
LEMMA TiledOfInv == LogInv => LinesTiled
<1> SUFFICES ASSUME LogInv, up PROVE LinesTiled
  BY DEF LinesTiled
<1>1. items \in Seq(Item) /\ ackedSrc \in Nat /\ srcTotal \in Nat /\ Tiles(items, Base, srcTotal)
  BY QueueAssumption DEF LogInv, TypeOK, Tiling
<1> DEFINE first == IF Sent THEN <<cur.body>> ELSE <<>>
<1>2. first \in Seq(Item) /\ Tiles(first, ackedSrc, Base) /\ Base \in Int
  <2>1. CASE ~ Sent
    BY <1>1, <2>1, EmptyTiles DEF Base
  <2>2. CASE Sent
    <3>1. cur.body \in Item
      BY <2>2, PostParts DEF LogInv, SentNext
    <3> DEFINE t == <<cur.body>>
    <3>2. t \in Seq(Item) /\ Len(t) = 1 /\ t[1] = cur.body /\ first = t
      BY <2>2, <3>1
    <3> HIDE DEF t, first
    <3>3. CASE IsLog(cur.body)
      <4>1. /\ Base = cur.body.srcEnd /\ cur.body.srcEnd \in Nat
               /\ FirstLine(cur.body) = ackedSrc + 1
            /\ ackedSrc + 1 <= cur.body.srcEnd
        BY <2>2, <3>1, <3>3, LogFields DEF LogInv, SentNext, Base
      <4>2. ackedSrc < FirstLine(cur.body) /\ FirstLine(cur.body) <= cur.body.srcEnd
            /\ ackedSrc <= Base
        BY <1>1, <4>1
      <4>3. \A line \in ackedSrc + 1 .. Base : Covers(t, 1, line)
        BY <1>1, <3>2, <3>3, <4>1 DEF Covers
      <4>4. \A j \in 1 .. Len(t) : j = 1
        BY <3>2
      <4>5. Tiles(t, ackedSrc, Base)
        <5>1. \A i, j \in 1 .. Len(t) : ~ (i < j)
          BY <3>2
        <5>2. 1 \in 1 .. Len(t) /\ Base <= Base
          BY <3>2, <4>1
        <5>3. cur.body.srcEnd <= Base
          BY <4>1
        <5> QED BY <3>2, <4>2, <4>3, <4>4, <5>1, <5>2, <5>3 DEF Tiles
      <4> QED BY <3>2, <4>1, <4>5
    <3>4. CASE ~ IsLog(cur.body)
      <4>1. Base = ackedSrc
        BY <3>4 DEF Base
      <4>2. \A j \in 1 .. Len(t) : ~ IsLog(t[j])
        BY <3>2, <3>4
      <4>3. Tiles(t, ackedSrc, ackedSrc)
        BY <1>1, <4>2 DEF Tiles
      <4> QED BY <1>1, <3>2, <4>1, <4>3
    <3> QED BY <3>3, <3>4
  <2> QED BY <2>1, <2>2
<1>3. InQueue = first \o items
  BY DEF InQueue
<1> HIDE DEF first
<1>4. Tiles(InQueue, ackedSrc, srcTotal) /\ InQueue \in Seq(Item)
  BY <1>1, <1>2, <1>3, JoinTiles, JoinItems
<1> QED BY <1>1, <1>4, TilesSpans DEF LinesTiled

\* NewestKept follows.
LEMMA KeptOfInv == LogInv => NewestKept
<1> SUFFICES ASSUME LogInv PROVE NewestKept
  OBVIOUS
<1> DEFINE w == queued - Own
<1>1. /\ items \in Seq(Item) /\ w \in Nat /\ srcTotal \in Nat /\ Keeps(items, srcTotal, w)
      /\ queued <= MaxQueuedLines
  BY QueueAssumption DEF LogInv, TypeOK, Waiting
<1>2. w = queued - (IF Sent THEN LinesOf(cur.body) ELSE 0)
  BY DEF Own
<1> HIDE DEF w
<1>3. ASSUME NEW i \in LogsIn(items)
      PROVE  i \in 1 .. Len(items) /\ IsLog(items[i]) /\ items[i].srcEnd \in Int
             /\ items[i].n \in Int
  BY <1>1, ItemNumbers DEF LogsIn
<1> DEFINE U == UNION {items[i].srcEnd - items[i].n + 1 .. items[i].srcEnd : i \in LogsIn(items)}
<1>4. ASSUME NEW line PROVE line \in U <=> line \in srcTotal - w + 1 .. srcTotal
  <2>1. line \in U <=> line \in Int
        /\ \E i \in LogsIn(items) : items[i].srcEnd - items[i].n < line /\ line <= items[i].srcEnd
    <3>1. ASSUME NEW i \in LogsIn(items)
          PROVE  line \in items[i].srcEnd - items[i].n + 1 .. items[i].srcEnd
                    <=> line \in Int /\ items[i].srcEnd - items[i].n < line
                        /\ line <= items[i].srcEnd
      BY <1>3
    <3>2. line \in U <=> \E i \in LogsIn(items) : line \in items[i].srcEnd - items[i].n + 1 .. items[i].srcEnd
      BY Zenon
    <3> HIDE DEF U
    <3> QED BY <3>1, <3>2
  <2>2. (\E i \in LogsIn(items) : items[i].srcEnd - items[i].n < line /\ line <= items[i].srcEnd)
           <=> \E i \in 1 .. Len(items) : Holds(items, i, line)
    BY DEF LogsIn, Holds
  <2>3. line \in srcTotal - w + 1 .. srcTotal <=> line \in Int /\ srcTotal - w < line
        /\ line <= srcTotal
    BY <1>1
  <2>4. line \in Int => ((\E i \in 1 .. Len(items) : Holds(items, i,
        line)) <=> srcTotal - w < line /\ line <= srcTotal)
    BY <1>1 DEF Keeps
  <2> HIDE DEF U
  <2> QED BY <2>1, <2>2, <2>3, <2>4
<1>5. U = srcTotal - w + 1 .. srcTotal
  <2> HIDE DEF U
  <2> QED BY <1>4
<1> QED BY <1>1, <1>2, <1>5, Zenon DEF NewestKept

\* Every variable of the channel keeps its type; with it, the queue never
\* holds more than MaxQueuedLines lines.
THEOREM ChannelTypes == Spec => []TypeOK
<1>1. LogInv => TypeOK
  BY DEF LogInv
<1> QED BY <1>1, LogsCorrect, PTL

\* However lines are split, dropped and merged, the items of the queue account
\* for every line since the last acknowledged one, in order and once.
THEOREM EveryLineTiled == Spec => []LinesTiled
BY TiledOfInv, LogsCorrect, PTL

\* The lines that wait with their text are the newest ones, as many as
\* q.queued says.
THEOREM NewestLinesKept == Spec => []NewestKept
BY KeptOfInv, LogsCorrect, PTL

-------------------------------------------------------------------------------
\* Each line up to n is shown or counted by a log in S.
Shown(S, n) == \A line \in 1 .. n : \E q \in S : IsLog(q.body) /\ Accounts(q, line)

\* What core's log has when an event is applied: the lines before it.
ShownInv ==
    /\ Shown(applied, ackedSrc) /\ Shown(applied, ann.lines)
    /\ \A p \in posts : IsLog(p.body) => Shown(applied, FirstLine(p.body) - 1)
    /\ Sent /\ IsLog(cur.body) => Shown(applied, FirstLine(cur.body) - 1)
    /\ NoSilentGap

\* With the invariants of both halves.
GapInv == LogInv /\ DeliveryInv /\ AppliedInv /\ ShownInv

\* More logs show more.
LEMMA ShownMore ==
    ASSUME NEW S, NEW T, S \subseteq T, NEW n, Shown(S, n)
    PROVE  Shown(T, n)
BY DEF Shown

\* A log whose earlier lines are shown adds its own.
LEMMA ShownOn ==
    ASSUME NEW S, S \subseteq Post, NEW p \in S, IsLog(p.body), Shown(S, FirstLine(p.body) - 1)
    PROVE  Shown(S, p.body.srcEnd)
<1>1. FirstLine(p.body) \in Int /\ p.body.srcEnd \in Nat
  BY PostParts, LogFields DEF FirstLine
<1> SUFFICES ASSUME NEW line \in 1 .. p.body.srcEnd
             PROVE  \E q \in S : IsLog(q.body) /\ Accounts(q, line)
  BY DEF Shown
<1>2. CASE line \in 1 .. FirstLine(p.body) - 1
  BY <1>2 DEF Shown
<1>3. CASE ~ (line \in 1 .. FirstLine(p.body) - 1)
  <2>1. line \in FirstLine(p.body) .. p.body.srcEnd
    BY <1>1, <1>3
  <2> QED BY <2>1 DEF Accounts
<1> QED BY <1>2, <1>3

\* core applies the request p, or leaves it.
LEMMA ApplyShown ==
    ASSUME GapInv, NEW p \in posts, Apply(p)
    PROVE  applied \subseteq applied' /\ NoSilentGap'
<1>1. CASE p.seq > lastSeq
  <2>1. lastSeq' = p.seq /\ applied' = applied \cup {p}
    BY <1>1 DEF Apply, ApplyEvent
  <2>2. applied' \subseteq Post /\ p \in applied' /\ p.seq \in Nat
    BY <2>1, PostParts DEF GapInv, LogInv, TypeOK
  <2>3. ASSUME NEW r \in applied, IsLog(r.body), NEW line \in 1 .. r.body.srcEnd
        PROVE  \E q \in applied' : IsLog(q.body) /\ q.seq <= r.seq /\ Accounts(q, line)
    BY <2>1, <2>3 DEF GapInv, ShownInv, NoSilentGap, AppliedLogs
  <2>4. ASSUME IsLog(p.body), NEW line \in 1 .. p.body.srcEnd
        PROVE  \E q \in applied' : IsLog(q.body) /\ q.seq <= p.seq /\ Accounts(q, line)
    <3>1. Shown(applied', FirstLine(p.body) - 1)
      BY <2>1, <2>4, ShownMore DEF GapInv, ShownInv
    <3>2. Shown(applied', p.body.srcEnd)
      BY <2>2, <2>4, <3>1, ShownOn
    <3>3. PICK q \in applied' : IsLog(q.body) /\ Accounts(q, line)
      BY <2>4, <3>2 DEF Shown
    <3>4. q.seq <= p.seq
      <4>1. \A r \in applied : r.seq \in Nat /\ r.seq <= lastSeq
        BY DEF GapInv, AppliedInv, AppliedBelow
      <4>2. lastSeq \in Nat
        BY DEF GapInv, AppliedInv, NumbersOK
      <4> QED BY <1>1, <2>1, <2>2, <4>1, <4>2
    <3> QED BY <3>3, <3>4
  <2>5. NoSilentGap'
    BY <2>1, <2>3, <2>4 DEF NoSilentGap, AppliedLogs
  <2> QED BY <2>1, <2>5
<1>2. CASE ~ (p.seq > lastSeq)
  <2>1. UNCHANGED coreVars
    BY <1>2 DEF Apply
  <2> QED BY <2>1 DEF GapInv, ShownInv, NoSilentGap, AppliedLogs, coreVars
<1> QED BY <1>1, <1>2

\* Steps that leave the numbers of lines alone.
LEMMA ShownSame ==
    ASSUME ShownInv, NoSilentGap', applied \subseteq applied', UNCHANGED <<ackedSrc, ann>>,
           posts' \subseteq posts \cup (IF Sent THEN {cur} ELSE {}),
           Sent' => Sent /\ cur' = cur
    PROVE  ShownInv'
<1>1. \A n : Shown(applied, n) => Shown(applied', n)
  BY ShownMore
<1>2. Shown(applied', ackedSrc') /\ Shown(applied', ann'.lines)
  BY <1>1 DEF ShownInv
<1>3. ASSUME NEW p \in posts', IsLog(p.body) PROVE Shown(applied', FirstLine(p.body) - 1)
  BY <1>1, <1>3 DEF ShownInv
<1>4. ASSUME Sent', IsLog(cur'.body) PROVE Shown(applied', FirstLine(cur'.body) - 1)
  BY <1>1, <1>4 DEF ShownInv
<1> QED BY <1>2, <1>3, <1>4 DEF ShownInv

\* Every step.
LEMMA ShownStep ==
    ASSUME GapInv, LogInv', [Next]_vars PROVE ShownInv'
<1>0. ShownInv
  BY DEF GapInv
<1>gap. ASSUME UNCHANGED applied PROVE NoSilentGap'
  BY <1>0, <1>gap DEF ShownInv, NoSilentGap, AppliedLogs
<1>1. CASE \/ (\E n \in 1 .. MaxLines : Log(n)) \/ Event \/ Close \/ Drained \/ SendPost
           \/ (\E p \in posts : LosePost(p)) \/ OnAckSkip \/ Crash \/ UNCHANGED vars
  <2>1. /\ UNCHANGED <<ackedSrc, ann, applied>>
           /\ posts' \subseteq posts \cup (IF Sent THEN {cur} ELSE {})
        /\ Sent' => Sent /\ cur' = cur
    BY <1>1 DEF Log, Event, Close, Drained, SendPost, LosePost, OnAckSkip, Crash, vars,
       builderVars, queueVars,
                coreVars, Sent
  <2> QED BY <1>0, <1>gap, <2>1, ShownSame
<1>2. CASE HandleAnswered \/ \E p \in posts : HandleUnheard(p)
  <2>1. /\ UNCHANGED <<ackedSrc, ann, cur>> /\ posts' \subseteq posts /\ (Sent' => Sent)
    BY <1>2 DEF HandleAnswered, HandleUnheard, builderVars, queueVars, Sent
  <2>2. \E p \in posts : Apply(p)
    BY <1>2 DEF HandleAnswered, HandleUnheard
  <2>3. applied \subseteq applied' /\ NoSilentGap'
    BY <2>2, ApplyShown
  <2> QED BY <1>0, <2>1, <2>3, ShownSame
<1>3. CASE Pick
  <2>1. /\ UNCHANGED <<ackedSrc, ann, applied, posts>> /\ Sent' /\ up'
    BY <1>3 DEF Pick, PickWith, coreVars, Sent
  <2>2. IsLog(cur'.body) => FirstLine(cur'.body) = ackedSrc + 1
    BY <2>1 DEF LogInv, SentNext
  <2>3. ackedSrc \in Int /\ ackedSrc + 1 - 1 = ackedSrc
    BY QueueAssumption DEF GapInv, LogInv, TypeOK
  <2>4. IsLog(cur'.body) => Shown(applied', FirstLine(cur'.body) - 1)
    BY <1>0, <2>1, <2>2, <2>3 DEF ShownInv
  <2> QED BY <1>0, <1>gap, <2>1, <2>4 DEF ShownInv
<1>4. CASE Ack
  <2>1. /\ UNCHANGED <<ann, applied, posts>> /\ ~ Sent' /\ Sent /\ phase = "answered"
        /\ ackedSrc' = IF IsLog(cur.body) THEN cur.body.srcEnd ELSE ackedSrc
    BY <1>4 DEF Ack, coreVars, Sent
  <2>2. cur \in applied /\ applied \subseteq Post
    BY <2>1 DEF GapInv, DeliveryInv, AckedMeansApplied, LogInv, TypeOK
  <2>3. Shown(applied', ackedSrc')
    BY <1>0, <2>1, <2>2, ShownOn DEF ShownInv
  <2> QED BY <1>0, <1>gap, <2>1, <2>3 DEF ShownInv
<1>5. CASE OnAckRecord
  <2>1. UNCHANGED <<ackedSrc, applied, posts>> /\ ~ Sent' /\ ann'.lines = ackedSrc
    BY <1>5 DEF OnAckRecord, Record, queueVars, coreVars, Sent
  <2> QED BY <1>0, <1>gap, <2>1 DEF ShownInv
<1>6. CASE Resume
  <2>1. /\ UNCHANGED <<ann, applied, posts>> /\ ackedSrc' = ann.lines /\ ~ Sent'
    BY <1>6 DEF Resume, ResumeFrom, coreVars, Sent, GapInv, LogInv, DeadQueue
  <2> QED BY <1>0, <1>gap, <2>1 DEF ShownInv
<1> QED BY <1>1, <1>2, <1>3, <1>4, <1>5, <1>6 DEF Next

\* The initial state.
LEMMA InitGap == MaxUnackedRestarts = 1 /\ Init => GapInv
<1> SUFFICES ASSUME MaxUnackedRestarts = 1, Init PROVE GapInv
  OBVIOUS
<1>1. ShownInv
  BY DEF Init, ShownInv, Shown, NoSilentGap, AppliedLogs, Sent
<1>2. AppliedInv
  BY InitApplied
<1> QED BY <1>1, <1>2, InitLog, InitDelivery DEF GapInv

\* The log that core shows has no silent gap.
THEOREM NoGapInTheLog ==
    ASSUME MaxUnackedRestarts = 1
    PROVE  Spec => []NoSilentGap
<1>1. Init => GapInv
  BY InitGap
<1>2. GapInv /\ [Next]_vars => GapInv'
  BY NextLog, NextDelivery, AppliedStep, ShownStep DEF GapInv
<1>3. GapInv => NoSilentGap
  BY DEF GapInv, ShownInv
<1> QED BY <1>1, <1>2, <1>3, PTL DEF Spec

-------------------------------------------------------------------------------
(***************************************************************************)
(* The order of the events: the channel of CallbackQueue implements        *)
(* OrderedDelivery.  Core gets the events of a build in the order they     *)
(* were submitted, none skipped and none twice, whatever is lost,          *)
(* repeated, delayed or dropped.                                           *)
(*                                                                         *)
(* The argument.  The events in the queue are those with the numbers above *)
(* the last one that was taken off it, in order (EventRun), and neither a  *)
(* split nor dropOldLocked changes that.  The event being sent is the last *)
(* one taken off.  So what is pending to OrderedDelivery is an interval,   *)
(* the event being sent its first (PendingNow).  Requests of earlier       *)
(* processes carry smaller numbers in both senses (SentInOrder): once core *)
(* has applied one of them, the ones it would still apply are the later    *)
(* ones.                                                                   *)
(***************************************************************************)

-------------------------------------------------------------------------------
(***************************************************************************)
(* The events of a queue.                                                  *)
(***************************************************************************)

\* The events in s are those with the numbers above a up to b, in order.
EventRun(s, a, b) ==
    /\ a <= b
    /\ \A j \in 1 .. Len(s) : ~ IsLog(s[j]) => a < s[j].id /\ s[j].id <= b
    /\ \A i, j \in 1 .. Len(s) : i < j /\ ~ IsLog(s[i]) /\ ~ IsLog(s[j]) => s[i].id < s[j].id
    /\ \A x \in a + 1 .. b : \E j \in 1 .. Len(s) : ~ IsLog(s[j]) /\ s[j].id = x

\* An event has a number.
LEMMA EventNumbers ==
    ASSUME NEW s \in Seq(Item), NEW j \in 1 .. Len(s), ~ IsLog(s[j])
    PROVE  s[j].id \in Nat \ {0} /\ s[j].id \in Nat
<1>1. s[j] \in Item
  BY ElementOfSeq
<1> QED BY <1>1 DEF Item, IsLog

\* The events of t are those of s, in the same order: pos and inv say where.
SameEvents(s, t, pos, inv) ==
    /\ \A j \in 1 .. Len(t) : ~ IsLog(t[j]) => pos[j] \in 1 .. Len(s) /\ t[j] = s[pos[j]]
    /\ \A i, j \in 1 .. Len(t) : i < j /\ ~ IsLog(t[i]) /\ ~ IsLog(t[j]) => pos[i] < pos[j]
    /\ \A j \in 1 .. Len(s) : ~ IsLog(s[j]) => inv[j] \in 1 .. Len(t) /\ t[inv[j]] = s[j]

\* So they are in one run.
LEMMA SameRun ==
    ASSUME NEW s, NEW t, NEW a \in Int, NEW b \in Int, EventRun(s, a, b),
           NEW pos, NEW inv, SameEvents(s, t, pos, inv)
    PROVE  EventRun(t, a, b)
<1>1. ASSUME NEW j \in 1 .. Len(t), ~ IsLog(t[j]) PROVE a < t[j].id /\ t[j].id <= b
  BY <1>1 DEF EventRun, SameEvents
<1>2. ASSUME NEW i \in 1 .. Len(t), NEW j \in 1 .. Len(t), i < j, ~ IsLog(t[i]), ~ IsLog(t[j])
      PROVE  t[i].id < t[j].id
  BY <1>2, ZenonT(60) DEF EventRun, SameEvents
<1>3. ASSUME NEW x \in a + 1 .. b PROVE \E j \in 1 .. Len(t) : ~ IsLog(t[j]) /\ t[j].id = x
  <2>1. PICK j \in 1 .. Len(s) : ~ IsLog(s[j]) /\ s[j].id = x
    BY DEF EventRun
  <2> QED BY <2>1 DEF SameEvents
<1> QED BY <1>1, <1>2, <1>3 DEF EventRun

\* A cut leaves events alone.
LEMMA CutRun ==
    ASSUME NEW s \in Seq(Item), NEW i \in 1 .. Len(s), NEW e \in Nat, LinesOf(s[i]) # 0,
           NEW a \in Int, NEW b \in Int, EventRun(s, a, b)
    PROVE  EventRun(Cut(s, i, e), a, b)
<1> DEFINE c == Cut(s, i, e)
<1>1. /\ c \in Seq(Item) /\ Len(c) = Len(s) /\ IsLog(s[i]) /\ IsLog(c[i])
      /\ \A j \in 1 .. Len(s) : j # i => c[j] = s[j]
  <2>1. /\ c \in Seq(Item) /\ Len(c) = Len(s) /\ IsLog(s[i])
        /\ c[i] = LogItem(s[i].n - Taken(s, i, e), s[i].omitted + Taken(s, i, e), s[i].srcEnd)
        /\ \A j \in 1 .. Len(s) : j # i => c[j] = s[j]
    BY CutItems
  <2> HIDE DEF c
  <2> QED BY <2>1 DEF IsLog, LogItem
<1> DEFINE pos == [j \in 1 .. Len(s) |-> j]
<1> HIDE DEF c
<1>2. \A j \in 1 .. Len(s) : pos[j] = j
  OBVIOUS
<1> HIDE DEF pos
<1>3. SameEvents(s, c, pos, pos)
  BY <1>1, <1>2 DEF SameEvents
<1>4. EventRun(c, a, b)
  BY <1>3, SameRun
<1> QED BY <1>4 DEF c

\* A merge leaves events alone.
LEMMA AbsorbedRun ==
    ASSUME NEW s \in Seq(Item), NEW i \in 1 .. Len(s) - 1, IsLog(s[i]), IsLog(s[i + 1]),
           NEW a \in Int, NEW b \in Int, EventRun(s, a, b)
    PROVE  EventRun(Absorbed(s, i), a, b)
<1> DEFINE r == Absorbed(s, i)
<1>1. /\ r \in Seq(Item) /\ Len(r) = Len(s) - 1 /\ IsLog(r[i])
      /\ \A j \in 1 .. Len(s) - 1 : j # i => r[j] = IF j < i THEN s[j] ELSE s[j + 1]
  <2>1. /\ r \in Seq(Item) /\ Len(r) = Len(s) - 1
        /\ r[i] = LogItem(s[i + 1].n, s[i + 1].omitted + s[i].omitted, s[i + 1].srcEnd)
        /\ \A j \in 1 .. Len(s) - 1 : j # i => r[j] = IF j < i THEN s[j] ELSE s[j + 1]
    BY AbsorbedItems
  <2> HIDE DEF r
  <2> QED BY <2>1 DEF IsLog, LogItem
<1>2. Len(s) \in Nat
  BY LenProperties
<1> DEFINE pos == [j \in 1 .. Len(r) |-> IF j < i THEN j ELSE j + 1]
           inv == [j \in 1 .. Len(s) |-> IF j < i THEN j ELSE j - 1]
<1>3. \A j \in 1 .. Len(r) : pos[j] = IF j < i THEN j ELSE j + 1
  OBVIOUS
<1>4. \A j \in 1 .. Len(s) : inv[j] = IF j < i THEN j ELSE j - 1
  OBVIOUS
<1> HIDE DEF r, pos, inv
<1>5. ASSUME NEW j \in 1 .. Len(r), ~ IsLog(r[j])
      PROVE  pos[j] \in 1 .. Len(s) /\ r[j] = s[pos[j]]
  <2>1. j # i /\ j \in 1 .. Len(s) - 1
    BY <1>1, <1>5
  <2> QED BY <1>1, <1>2, <1>3, <2>1
<1>6. \A x, j \in 1 .. Len(r) : x < j => pos[x] < pos[j]
  BY <1>1, <1>2, <1>3
<1>7. ASSUME NEW j \in 1 .. Len(s), ~ IsLog(s[j])
      PROVE  inv[j] \in 1 .. Len(r) /\ r[inv[j]] = s[j]
  <2>1. j # i /\ j # i + 1
    BY <1>7
  <2>2. CASE j < i
    <3>1. inv[j] = j /\ j \in 1 .. Len(s) - 1 /\ j # i
      BY <1>2, <1>4, <2>2
    <3> QED BY <1>1, <2>2, <3>1
  <2>3. CASE ~ (j < i)
    <3>1. inv[j] = j - 1 /\ j - 1 \in 1 .. Len(s) - 1 /\ j - 1 # i /\ ~ (j - 1 < i) /\ j - 1 + 1 = j
      BY <1>2, <1>4, <2>1, <2>3
    <3> QED BY <1>1, <3>1
  <2> QED BY <2>2, <2>3
<1>8. EventRun(r, a, b)
  <2>1. SameEvents(s, r, pos, inv)
    BY <1>5, <1>6, <1>7 DEF SameEvents
  <2> QED BY <2>1, SameRun
<1> QED BY <1>8 DEF r

\* dropOldLocked never drops an event.
LEMMA DropOldRun ==
    ASSUME NEW a \in Int, NEW b \in Int, NEW s \in Seq(Item), NEW e \in Nat, EventRun(s, a, b)
    PROVE  EventRun(dropOld[<<s, 1, e>>], a, b)
<1> DEFINE m == [x \in Arg |-> Measure(x[1], x[2])]
           bad == {x \in Arg : EventRun(x[1], a, b) /\ ~ EventRun(dropOld[x], a, b)}
<1>1. m \in [Arg -> Nat] /\ bad \subseteq Arg
  BY ArgParts, MeasureType
<1>2. ASSUME NEW x \in bad PROVE \E y \in bad : m[y] < m[x]
  <2>1. PICK u \in Seq(Item), i \in Nat \ {0}, c \in Nat : x = <<u, i, c>>
    BY ArgParts
  <2>2. /\ m[x] = Measure(u, i) /\ EventRun(u, a, b)
        /\ ~ EventRun(dropOld[<<u, i, c>>], a, b)
    BY <2>1, PartsArg
  <2>3. ~ Ends(u, i, c)
    <3> SUFFICES ASSUME Ends(u, i, c) PROVE FALSE
      OBVIOUS
    <3>1. dropOld[<<u, i, c>>] = Left(u, i, c)
      BY DropOldStep
    <3>2. CASE c = 0 \/ i > Len(u)
      BY <2>2, <3>1, <3>2 DEF Left
    <3>3. CASE ~ (c = 0 \/ i > Len(u))
      <4>1. i \in 1 .. Len(u) /\ LinesOf(u[i]) # 0 /\ Left(u, i, c) = Cut(u, i, c)
        BY <3>3, LenProperties DEF Ends, Left
      <4> QED BY <2>2, <3>1, <4>1, CutRun
    <3> QED BY <3>2, <3>3
  <2>4. PICK t \in Seq(Item), j \in Nat \ {0}, y \in Nat :
          Onward(u, i, c) = <<t, j, y>> /\ Measure(t, j) < Measure(u, i)
    BY <2>3, OnwardItems
  <2>5. dropOld[<<u, i, c>>] = dropOld[<<t, j, y>>]
    BY <2>3, <2>4, DropOldStep
  <2>6. EventRun(t, a, b)
    <3>0. Len(u) \in Nat /\ i \in 1 .. Len(u)
      BY <2>3, LenProperties DEF Ends
    <3>1. CASE LinesOf(u[i]) = 0
      BY <2>2, <2>4, <3>1 DEF Onward
    <3>2. CASE LinesOf(u[i]) # 0
      <4> DEFINE v == Cut(u, i, c)
      <4>1. /\ v \in Seq(Item) /\ Len(v) = Len(u) /\ EventRun(v, a, b)
            /\ v[i] = LogItem(u[i].n - Taken(u, i, c), u[i].omitted + Taken(u, i, c), u[i].srcEnd)
            /\ \A x_1 \in 1 .. Len(u) : x_1 # i => v[x_1] = u[x_1]
        BY <2>2, <3>0, <3>2, CutItems, CutRun
      <4>2. CASE i < Len(u) /\ IsLog(u[i + 1])
        <5>1. t = Absorbed(v, i)
          BY <2>4, <3>2, <4>2 DEF Onward
        <5> HIDE DEF v
        <5>2. IsLog(v[i]) /\ IsLog(v[i + 1]) /\ i \in 1 .. Len(v) - 1
          BY <3>0, <4>1, <4>2 DEF IsLog, LogItem
        <5> QED BY <4>1, <5>1, <5>2, AbsorbedRun
      <4>3. CASE ~ (i < Len(u) /\ IsLog(u[i + 1]))
        <5>1. t = v
          BY <2>4, <3>2, <4>3 DEF Onward
        <5> QED BY <4>1, <5>1
      <4> QED BY <4>2, <4>3
    <3> QED BY <3>1, <3>2
  <2>7. <<t, j, y>> \in bad /\ m[<<t, j, y>>] = Measure(t, j)
    BY <2>2, <2>5, <2>6, PartsArg
  <2> QED BY <2>2, <2>4, <2>7
<1>3. bad = {}
  <2> HIDE DEF m, bad
  <2> QED BY <1>1, <1>2, NoDescent
<1>4. <<s, 1, e>> \in Arg /\ <<s, 1, e>> \notin bad
  BY <1>3, PartsArg
<1> QED BY <1>4, PartsArg

\* Two runs, one behind the other.
LEMMA JoinRun ==
    ASSUME NEW s \in Seq(Item), NEW t \in Seq(Item), NEW a \in Int, NEW m \in Int, NEW b \in Int,
           EventRun(s, a, m), EventRun(t, m, b)
    PROVE  EventRun(s \o t, a, b)
<1> DEFINE c == s \o t
<1>1. /\ c \in Seq(Item) /\ Len(c) = Len(s) + Len(t) /\ Len(s) \in Nat /\ Len(t) \in Nat
      /\ \A j \in 1 .. Len(c) :
            \/ j \in 1 .. Len(s) /\ c[j] = s[j]
            \/ j - Len(s) \in 1 .. Len(t) /\ c[j] = t[j - Len(s)]
      /\ \A j \in 1 .. Len(s) : j \in 1 .. Len(c) /\ c[j] = s[j]
      /\ \A j \in 1 .. Len(t) : j + Len(s) \in 1 .. Len(c) /\ c[j + Len(s)] = t[j]
  <2>1. c \in Seq(Item) /\ Len(c) = Len(s) + Len(t) /\ Len(s) \in Nat /\ Len(t) \in Nat
    BY JoinItems
  <2>2. \A j \in 1 .. Len(s) + Len(t) :
           \/ j \in 1 .. Len(s) /\ c[j] = s[j]
           \/ j - Len(s) \in 1 .. Len(t) /\ c[j] = t[j - Len(s)]
    BY JoinItems
  <2>3. \A j \in 1 .. Len(s) : j \in 1 .. Len(s) + Len(t) /\ c[j] = s[j]
    BY JoinItems
  <2>4. \A j \in 1 .. Len(t) : j + Len(s) \in 1 .. Len(s) + Len(t) /\ c[j + Len(s)] = t[j]
    BY JoinItems
  <2> HIDE DEF c
  <2> QED BY <2>1, <2>2, <2>3, <2>4
<1> HIDE DEF c
<1>2. \A j \in 1 .. Len(s) : ~ IsLog(s[j]) => a < s[j].id /\ s[j].id <= m /\ s[j].id \in Int
  BY EventNumbers DEF EventRun
<1>3. \A j \in 1 .. Len(t) : ~ IsLog(t[j]) => m < t[j].id /\ t[j].id <= b /\ t[j].id \in Int
  BY EventNumbers DEF EventRun
<1>4. a <= m /\ m <= b
  BY DEF EventRun
<1>5. ASSUME NEW j \in 1 .. Len(c), ~ IsLog(c[j]) PROVE a < c[j].id /\ c[j].id <= b
  <2>1. CASE j \in 1 .. Len(s) /\ c[j] = s[j]
    <3>1. a < c[j].id /\ c[j].id <= m /\ c[j].id \in Int
      BY <1>2, <1>5, <2>1
    <3> QED BY <1>4, <3>1
  <2>2. CASE j - Len(s) \in 1 .. Len(t) /\ c[j] = t[j - Len(s)]
    <3>1. m < c[j].id /\ c[j].id <= b /\ c[j].id \in Int
      BY <1>3, <1>5, <2>2
    <3> QED BY <1>4, <3>1
  <2> QED BY <1>1, <2>1, <2>2
<1>6. ASSUME NEW i \in 1 .. Len(c), NEW j \in 1 .. Len(c), i < j, ~ IsLog(c[i]), ~ IsLog(c[j])
      PROVE  c[i].id < c[j].id
  <2>1. CASE i \in 1 .. Len(s) /\ c[i] = s[i] /\ j \in 1 .. Len(s) /\ c[j] = s[j]
    BY <1>6, <2>1 DEF EventRun
  <2>2. CASE i \in 1 .. Len(s) /\ c[i] = s[i] /\ j - Len(s) \in 1 .. Len(t) /\ c[j] = t[j - Len(s)]
    <3>1. c[i].id <= m /\ c[i].id \in Int /\ m < c[j].id /\ c[j].id \in Int
      BY <1>2, <1>3, <1>6, <2>2
    <3> QED BY <3>1
  <2>3. CASE i - Len(s) \in 1 .. Len(t) /\ c[i] = t[i - Len(s)] /\ j - Len(s) \in 1 .. Len(t)
             /\ c[j] = t[j - Len(s)]
    <3>1. i - Len(s) < j - Len(s)
      BY <1>1, <1>6
    <3> QED BY <1>6, <2>3, <3>1 DEF EventRun
  <2>4. CASE i - Len(s) \in 1 .. Len(t) /\ j \in 1 .. Len(s)
    BY <1>1, <1>6, <2>4
  <2> QED BY <1>1, <2>1, <2>2, <2>3, <2>4
<1>7. ASSUME NEW x \in a + 1 .. b PROVE \E j \in 1 .. Len(c) : ~ IsLog(c[j]) /\ c[j].id = x
  <2>1. CASE x <= m
    <3>1. PICK j \in 1 .. Len(s) : ~ IsLog(s[j]) /\ s[j].id = x
      BY <2>1 DEF EventRun
    <3> QED BY <1>1, <3>1
  <2>2. CASE ~ (x <= m)
    <3>0. x \in m + 1 .. b
      BY <2>2
    <3>1. PICK j \in 1 .. Len(t) : ~ IsLog(t[j]) /\ t[j].id = x
      BY <3>0 DEF EventRun
    <3> QED BY <1>1, <3>1
  <2> QED BY <2>1, <2>2
<1>8. EventRun(c, a, b)
  <2>1. a <= b
    BY <1>4
  <2>2. \A i, j \in 1 .. Len(c) : i < j /\ ~ IsLog(c[i]) /\ ~ IsLog(c[j]) => c[i].id < c[j].id
    BY <1>6
  <2>3. \A j \in 1 .. Len(c) : ~ IsLog(c[j]) => a < c[j].id /\ c[j].id <= b
    BY <1>5
  <2> QED BY <1>7, <2>1, <2>2, <2>3 DEF EventRun
<1> QED BY <1>8 DEF c

\* The first item goes: if it is an event, it is the one with the next number.
LEMMA TailRun ==
    ASSUME NEW s \in Seq(Item), s # <<>>, NEW a \in Int, NEW b \in Int, EventRun(s, a, b)
    PROVE  /\ IsLog(Head(s)) => EventRun(Tail(s), a, b)
           /\ ~ IsLog(Head(s)) => Head(s).id = a + 1 /\ EventRun(Tail(s), a + 1, b)
<1> DEFINE t == Tail(s)
           h == s[1]
<1>1. /\ t \in Seq(Item) /\ Len(s) \in Nat /\ 1 \in 1 .. Len(s) /\ Head(s) = h
      /\ \A j \in 1 .. Len(t) : j \in Nat /\ j + 1 \in 1 .. Len(s) /\ 1 < j + 1 /\ t[j] = s[j + 1]
      /\ \A j \in 2 .. Len(s) : j - 1 \in 1 .. Len(t) /\ t[j - 1] = s[j]
      /\ \A j \in 1 .. Len(s) : j = 1 \/ (j \in 2 .. Len(s) /\ 1 < j)
  BY TailItems
<1> HIDE DEF t
<1>2. ASSUME NEW i \in 1 .. Len(t), NEW j \in 1 .. Len(t), i < j, ~ IsLog(t[i]), ~ IsLog(t[j])
      PROVE  t[i].id < t[j].id
  <2>1. t[i] = s[i + 1] /\ t[j] = s[j + 1] /\ i + 1 < j + 1 /\ i + 1 \in 1 .. Len(s)
        /\ j + 1 \in 1 .. Len(s)
    BY <1>1, <1>2
  <2> QED BY <1>2, <2>1 DEF EventRun
<1>3. ASSUME IsLog(h) PROVE EventRun(t, a, b)
  <2>1. ASSUME NEW j \in 1 .. Len(t), ~ IsLog(t[j]) PROVE a < t[j].id /\ t[j].id <= b
    BY <1>1, <2>1 DEF EventRun
  <2>2. ASSUME NEW x \in a + 1 .. b PROVE \E j \in 1 .. Len(t) : ~ IsLog(t[j]) /\ t[j].id = x
    <3>1. PICK j \in 1 .. Len(s) : ~ IsLog(s[j]) /\ s[j].id = x
      BY DEF EventRun
    <3>2. j \in 2 .. Len(s)
      BY <1>1, <1>3, <3>1
    <3> QED BY <1>1, <3>1, <3>2
  <2> QED BY <1>2, <2>1, <2>2 DEF EventRun
<1>4. ASSUME ~ IsLog(h) PROVE h.id = a + 1 /\ EventRun(t, a + 1, b)
  <2>0. h.id \in Int /\ a < h.id /\ h.id <= b
    BY <1>1, <1>4, EventNumbers DEF EventRun
  <2>1. h.id = a + 1
    <3>1. a + 1 \in a + 1 .. b
      <4> HIDE DEF h
      <4> QED BY <2>0
    <3>2. PICK j \in 1 .. Len(s) : ~ IsLog(s[j]) /\ s[j].id = a + 1
      BY <3>1 DEF EventRun
    <3>3. j = 1
      <4> SUFFICES ASSUME 1 < j PROVE FALSE
        BY <1>1
      <4>1. h.id < s[j].id
        BY <1>1, <1>4, <3>2 DEF EventRun
      <4> HIDE DEF h
      <4> QED BY <2>0, <3>2, <4>1
    <3> QED BY <3>2, <3>3
  <2> HIDE DEF h
  <2>2. ASSUME NEW j \in 1 .. Len(t), ~ IsLog(t[j]) PROVE a + 1 < t[j].id /\ t[j].id <= b
    <3>1. t[j] = s[j + 1] /\ j + 1 \in 1 .. Len(s) /\ 1 < j + 1
      BY <1>1
    <3>2. h.id < s[j + 1].id
      BY <1>1, <1>4, <2>2, <3>1 DEF EventRun, h
    <3> QED BY <2>1, <2>2, <3>1, <3>2 DEF EventRun
  <2>3. ASSUME NEW x \in a + 1 + 1 .. b PROVE \E j \in 1 .. Len(t) : ~ IsLog(t[j]) /\ t[j].id = x
    <3>1. x \in a + 1 .. b /\ x # a + 1
      OBVIOUS
    <3>2. PICK j \in 1 .. Len(s) : ~ IsLog(s[j]) /\ s[j].id = x
      BY <3>1 DEF EventRun
    <3>3. j # 1
      BY <2>1, <3>1, <3>2 DEF h
    <3>4. j \in 2 .. Len(s)
      BY <1>1, <3>3
    <3> QED BY <1>1, <3>2, <3>4
  <2>4. a + 1 <= b
    BY <2>0, <2>1
  <2> QED BY <1>2, <2>1, <2>2, <2>3, <2>4 DEF EventRun
<1> QED BY <1>1, <1>3, <1>4 DEF t

-------------------------------------------------------------------------------
(***************************************************************************)
(* The invariant, and what is pending.                                     *)
(***************************************************************************)

\* The events that core may still be asked for: on their way, or being sent.
EventsSent == {p \in posts \cup (IF Sending THEN {cur} ELSE {}) : ~ IsLog(p.body)}

\* The running process has taken the events up to a off the queue's front.
HandedUpTo(a) ==
    /\ EventRun(items, a, submitted)
    /\ \A p \in EventsSent : p.body.id <= a
    /\ Sending /\ ~ IsLog(cur.body) => cur.body.id = a

\* Numbers of requests follow the order of the events they carry.
SentInOrder == \A p, q \in EventsSent : p.seq < q.seq => p.body.id < q.body.id

\* The inductive invariant, with ChannelInv.
OrderInv == (\E a \in Nat : HandedUpTo(a)) /\ SentInOrder

\* What is known of the channel already.
ChannelInv == LogInv /\ DeliveryInv /\ AppliedInv

\* The numbers of a request that carries an event.
LEMMA EventOfPost ==
    ASSUME NEW p \in Post, ~ IsLog(p.body)
    PROVE  p.body.id \in Nat /\ p.seq \in Nat \ {0} /\ p.seq \in Nat
BY DEF Post, Item, IsLog

-------------------------------------------------------------------------------
\* The numbers from f to n, as the abstract channel holds them.
Pend(f, n) == [i \in 1 .. n + 1 - f |-> f + i - 1]

\* It is a sequence.
LEMMA PendIsSeq ==
    ASSUME NEW f \in Nat, NEW n \in Nat, f <= n + 1
    PROVE  /\ Pend(f, n) \in Seq(Nat) /\ Len(Pend(f, n)) = n + 1 - f /\ n + 1 - f \in Nat
           /\ \A i \in 1 .. n + 1 - f : Pend(f, n)[i] = f + i - 1
<1>1. n + 1 - f \in Nat
  OBVIOUS
<1>2. \A i \in 1 .. n + 1 - f : f + i - 1 \in Nat
  OBVIOUS
<1> DEFINE m == n + 1 - f
<1>3. m \in Nat /\ m = n + 1 - f
  BY <1>1
<1> HIDE DEF m
<1>4. [i \in 1 .. m |-> f + i - 1] \in Seq(Nat) /\ Len([i \in 1 .. m |-> f + i - 1]) = m
  BY <1>2, <1>3
<1> QED BY <1>3, <1>4 DEF Pend

\* One more is submitted.
LEMMA PendAppend ==
    ASSUME NEW f \in Nat, NEW n \in Nat, f <= n + 1
    PROVE  Append(Pend(f, n), n + 1) = Pend(f, n + 1)
<1> DEFINE s == Append(Pend(f, n), n + 1)
           t == Pend(f, n + 1)
<1>1. t \in Seq(Nat) /\ Len(t) = n + 2 - f /\ \A i \in 1 .. n + 2 - f : t[i] = f + i - 1
  <2>1. n + 1 + 1 - f = n + 2 - f /\ n + 1 \in Nat /\ f <= n + 1 + 1
    OBVIOUS
  <2> QED BY <2>1, PendIsSeq
<1>2. /\ s \in Seq(Nat) /\ Len(s) = n + 1 - f + 1
      /\ \A i \in 1 .. n + 1 - f : s[i] = Pend(f, n)[i]
      /\ s[n + 1 - f + 1] = n + 1
  <2> DEFINE u == Pend(f, n)
  <2>1. u \in Seq(Nat) /\ Len(u) = n + 1 - f /\ n + 1 \in Nat
    BY PendIsSeq
  <2> HIDE DEF u
  <2>2. /\ Append(u, n + 1) \in Seq(Nat) /\ Len(Append(u, n + 1)) = Len(u) + 1
        /\ \A i \in 1 .. Len(u) : Append(u, n + 1)[i] = u[i]
        /\ Append(u, n + 1)[Len(u) + 1] = n + 1
    BY <2>1, AppendProperties
  <2> QED BY <2>1, <2>2 DEF u
<1> HIDE DEF s, t
<1>3. ASSUME NEW i \in 1 .. n + 2 - f PROVE s[i] = t[i]
  <2>1. CASE i = n + 1 - f + 1
    <3>1. t[i] = f + i - 1 /\ f + i - 1 = n + 1
      BY <1>1, <2>1
    <3> QED BY <1>2, <2>1, <3>1
  <2>2. CASE i # n + 1 - f + 1
    <3>1. i \in 1 .. n + 1 - f
      BY <2>2
    <3>2. s[i] = Pend(f, n)[i] /\ Pend(f, n)[i] = f + i - 1
      BY <1>2, <3>1, PendIsSeq
    <3> QED BY <1>1, <3>2
  <2> QED BY <2>1, <2>2
<1>4. Len(s) = n + 2 - f
  BY <1>2
<1>5. s = t
  BY <1>1, <1>2, <1>3, <1>4, SeqEqual
<1> QED BY <1>5 DEF s, t

\* The first one is delivered.
LEMMA PendTail ==
    ASSUME NEW f \in Nat, NEW n \in Nat, f <= n
    PROVE  Pend(f, n) # <<>> /\ Head(Pend(f, n)) = f /\ Tail(Pend(f, n)) = Pend(f + 1, n)
<1> DEFINE s == Pend(f, n)
           t == Pend(f + 1, n)
<1>1. s \in Seq(Nat) /\ Len(s) = n + 1 - f /\ n + 1 - f \in Nat
      /\ \A i \in 1 .. n + 1 - f : s[i] = f + i - 1
  BY PendIsSeq
<1>2. t \in Seq(Nat) /\ Len(t) = n - f /\ \A i \in 1 .. n - f : t[i] = f + i
  <2>1. f + 1 \in Nat /\ f + 1 <= n + 1 /\ n + 1 - (f + 1) = n - f
    OBVIOUS
  <2>2. \A i \in 1 .. n - f : f + 1 + i - 1 = f + i
    OBVIOUS
  <2>3. /\ t \in Seq(Nat) /\ Len(t) = n + 1 - (f + 1)
        /\ \A i \in 1 .. n + 1 - (f + 1) : t[i] = f + 1 + i - 1
    BY <2>1, PendIsSeq
  <2> HIDE DEF t
  <2> QED BY <2>1, <2>2, <2>3
<1> HIDE DEF s, t
<1>3. s # <<>>
  <2>1. Len(s) # 0
    BY <1>1
  <2> QED BY <2>1
<1>4. /\ Head(s) = s[1] /\ Tail(s) \in Seq(Nat) /\ Len(Tail(s)) = Len(s) - 1
      /\ \A i \in 1 .. Len(Tail(s)) : Tail(s)[i] = s[i + 1]
  BY <1>1, <1>3, HeadTailProperties
<1>5. Head(s) = f
  <2>1. 1 \in 1 .. n + 1 - f /\ f + 1 - 1 = f
    OBVIOUS
  <2> QED BY <1>1, <1>4, <2>1
<1>6. ASSUME NEW i \in 1 .. n - f PROVE Tail(s)[i] = t[i]
  <2>1. i + 1 \in 1 .. n + 1 - f /\ f + (i + 1) - 1 = f + i /\ i \in 1 .. Len(Tail(s))
    BY <1>1, <1>4
  <2> QED BY <1>1, <1>2, <1>4, <2>1
<1>7. Len(Tail(s)) = n - f
  BY <1>1, <1>4
<1>8. Tail(s) = t
  BY <1>2, <1>4, <1>6, <1>7, SeqEqual
<1> QED BY <1>3, <1>5, <1>8 DEF s, t

\* Nothing is pending.
LEMMA PendNone ==
    ASSUME NEW n \in Nat
    PROVE  Pend(n + 1, n) = <<>>
<1>1. n + 1 \in Nat /\ n + 1 <= n + 1 /\ n + 1 - (n + 1) = 0
  OBVIOUS
<1>2. Pend(n + 1, n) \in Seq(Nat) /\ Len(Pend(n + 1, n)) = 0
  BY <1>1, PendIsSeq
<1> QED BY <1>2, EmptySeq

\* The least of U, or n + 1 (FirstPending).
FirstIn(U, n) == CHOOSE x \in U \cup {n + 1} : \A y \in U : x <= y

\* Of an interval it is the lower end.
LEMMA LeastOf ==
    ASSUME NEW lo \in Nat, NEW b \in Nat, lo <= b + 1
    PROVE  FirstIn(lo .. b, b) = lo
<1>1. lo \in (lo .. b) \cup {b + 1} /\ \A y \in lo .. b : lo <= y
  OBVIOUS
<1>2. ASSUME NEW x \in (lo .. b) \cup {b + 1}, \A y \in lo .. b : x <= y PROVE x = lo
  <2>1. CASE lo <= b
    BY <1>2, <2>1
  <2>2. CASE ~ (lo <= b)
    BY <1>2, <2>2
  <2> QED BY <2>1, <2>2
<1> DEFINE S == (lo .. b) \cup {b + 1}
           P(x) == \A y \in lo .. b : x <= y
<1>3. (\E x \in S : P(x)) /\ \A x \in S : P(x) => x = lo
  BY <1>1, <1>2
<1>4. (CHOOSE x \in S : P(x)) = lo
  <2> HIDE DEF S, P
  <2> QED BY <1>3
<1> QED BY <1>4 DEF FirstIn

\* The numbers of the events of a run.
LEMMA EventIdsOf ==
    ASSUME NEW s \in Seq(Item), NEW a \in Nat, NEW b \in Nat, EventRun(s, a, b)
    PROVE  EventIds(s) = a + 1 .. b
<1>1. ASSUME NEW x \in EventIds(s) PROVE x \in a + 1 .. b
  <2>1. PICK j \in 1 .. Len(s) : ~ IsLog(s[j]) /\ x = s[j].id
    BY <1>1 DEF EventIds, LogsIn
  <2>2. x \in Nat /\ a < x /\ x <= b
    BY <2>1, EventNumbers DEF EventRun
  <2> QED BY <2>2
<1>2. ASSUME NEW x \in a + 1 .. b PROVE x \in EventIds(s)
  <2>1. PICK j \in 1 .. Len(s) : ~ IsLog(s[j]) /\ s[j].id = x
    BY DEF EventRun
  <2> QED BY <2>1 DEF EventIds, LogsIn
<1> QED BY <1>1, <1>2

\* Where what is pending starts, without and with an event being sent.
LEMMA PendingOf ==
    ASSUME NEW s \in Seq(Item), NEW a \in Nat, NEW b \in Nat, EventRun(s, a, b)
    PROVE  /\ a <= b
           /\ FirstIn(EventIds(s) \cup {}, b) = a + 1
           /\ FirstIn(EventIds(s) \cup {a}, b) = a
<1>1. a <= b
  BY DEF EventRun
<1>2. EventIds(s) \cup {} = a + 1 .. b /\ EventIds(s) \cup {a} = a .. b
  <2>1. (a + 1 .. b) \cup {} = a + 1 .. b /\ (a + 1 .. b) \cup {a} = a .. b
    BY <1>1
  <2> QED BY <2>1, EventIdsOf
<1>3. a + 1 \in Nat /\ a + 1 <= b + 1 /\ a <= b + 1
  BY <1>1
<1>4. FirstIn(a + 1 .. b, b) = a + 1 /\ FirstIn(a .. b, b) = a
  BY <1>3, LeastOf
<1> QED BY <1>1, <1>2, <1>4

\* What the abstract channel has pending: the events after a, and a itself
\* while it is being sent.
LEMMA PendingNow ==
    ASSUME NEW a \in Nat, HandedUpTo(a), items \in Seq(Item), submitted \in Nat
    PROVE  a <= submitted /\ PendingEvents = Pend(IF SendsNew THEN a ELSE a + 1, submitted)
<1>1. EventRun(items, a, submitted) /\ (SendsNew => cur.body.id = a)
  BY DEF HandedUpTo, SendsNew, Sending
<1>2. Undelivered = EventIds(items) \cup (IF SendsNew THEN {a} ELSE {})
  BY <1>1 DEF Undelivered
<1>3. FirstPending = FirstIn(Undelivered, submitted)
  BY DEF FirstPending, FirstIn
<1>4. FirstPending = IF SendsNew THEN a ELSE a + 1
  BY <1>1, <1>2, <1>3, PendingOf, ZenonT(60)
<1> QED BY <1>1, <1>4, PendingOf DEF PendingEvents, Pend

\* The same after a step.
LEMMA PendingNext ==
    ASSUME NEW a \in Nat, HandedUpTo(a)', items' \in Seq(Item), submitted' \in Nat
    PROVE  a <= submitted' /\ PendingEvents' = Pend(IF SendsNew' THEN a ELSE a + 1, submitted')
<1>1. EventRun(items', a, submitted') /\ (SendsNew' => cur'.body.id = a)
  BY DEF HandedUpTo, SendsNew, Sending
<1>2. Undelivered' = EventIds(items') \cup (IF SendsNew' THEN {a} ELSE {})
  BY <1>1 DEF Undelivered
<1>3. FirstPending' = FirstIn(Undelivered', submitted')
  BY DEF FirstPending, FirstIn
<1>4. FirstPending' = IF SendsNew' THEN a ELSE a + 1
  BY <1>1, <1>2, <1>3, PendingOf, ZenonT(60)
<1> QED BY <1>1, <1>4, PendingOf DEF PendingEvents, Pend

-------------------------------------------------------------------------------
(***************************************************************************)
(* Submitting and taking off the queue.                                    *)
(***************************************************************************)

\* What a step of the channel is, to the abstract one.
AbstractStep == [Abstract!Next]_(Abstract!vars)

\* What the steps below need to know of the channel.
LEMMA ChannelTypesNow ==
    ASSUME ChannelInv
    PROVE  /\ items \in Seq(Item) /\ submitted \in Nat /\ posts \subseteq Post
              /\ applied \subseteq Post
           /\ cur \in Post \cup {None} /\ lastSeq \in Nat /\ nextSeq \in Nat /\ nextSeq \in Int
           /\ Sending => cur \in Post /\ cur.seq = nextSeq - 1
           /\ ~ Sending => cur = None
           /\ None \notin posts
           /\ \A p \in posts \cup applied : p.seq \in Nat /\ p.seq < nextSeq
           /\ \A p \in applied : p.seq <= lastSeq
           /\ phase \in {"answered", "acked"} => cur \in applied
           /\ ~ up => items = <<>> /\ phase = "idle"
<1>1. /\ items \in Seq(Item) /\ submitted \in Nat /\ posts \subseteq Post /\ applied \subseteq Post
      /\ cur \in Post \cup {None} /\ lastSeq \in Nat /\ nextSeq \in Nat /\ nextSeq \in Int
  <2>1. TypeOK
    BY DEF ChannelInv, LogInv
  <2>2. submitted \in 0 .. MaxEvents /\ items \in Seq(Item) /\ DeliveryTypeOK
        /\ posts \subseteq Post
        /\ applied \subseteq Post /\ cur \in Post \cup {None}
    BY <2>1, Zenon DEF TypeOK
  <2> QED BY <2>2, QueueAssumption DEF DeliveryTypeOK
<1>2. /\ (Sending => cur.seq = nextSeq - 1 /\ cur.seq # 0) /\ (~ Sending => cur = None)
      /\ \A p \in posts \cup applied : p.seq < nextSeq
  BY DEF ChannelInv, DeliveryInv, NumbersBelow
<1>3. \A p \in Post : p.seq \in Nat \ {0}
  BY PostParts
<1>4. None \notin Post
  BY <1>3, NoneHasNoNumber
<1>5. \A p \in applied : p.seq <= lastSeq
  BY DEF ChannelInv, AppliedInv, AppliedBelow
<1>6. phase \in {"answered", "acked"} => cur \in applied
  BY DEF ChannelInv, DeliveryInv, AckedMeansApplied
<1>7. ~ up => items = <<>> /\ phase = "idle"
  BY DEF ChannelInv, LogInv, DeadQueue
<1>8. Sending => cur \in Post
  BY <1>1, <1>2, NoneHasNoNumber
<1> QED BY <1>1, <1>2, <1>3, <1>4, <1>5, <1>6, <1>7, <1>8

\* Steps that submit, deliver and take nothing.
LEMMA QuietOrder ==
    ASSUME ChannelInv, SentInOrder, NEW a \in Nat, HandedUpTo(a), items' \in Seq(Item),
           EventRun(items', a, submitted),
           UNCHANGED <<submitted, delivered>>,
           posts' \subseteq posts \cup (IF Sending THEN {cur} ELSE {}),
           Sending' => Sending /\ cur' = cur,
           SendsNew' <=> SendsNew, LateEvents' \subseteq LateEvents
    PROVE  OrderInv' /\ AbstractStep
<1>1. EventsSent' \subseteq EventsSent
  BY DEF EventsSent
<1>2. HandedUpTo(a)' /\ SentInOrder'
  BY <1>1 DEF HandedUpTo, SentInOrder
<1>3. items \in Seq(Item) /\ submitted \in Nat
  BY ChannelTypesNow
<1>4. PendingEvents' = PendingEvents
  BY <1>2, <1>3, PendingNow, PendingNext
<1>5. Abstract!Forget
  BY <1>4 DEF Abstract!Forget
<1> QED BY <1>2, <1>5 DEF OrderInv, AbstractStep, Abstract!Next

\* The events of dead processes that may still come change only with these.
LEMMA LateSame ==
    ASSUME posts' \subseteq posts \cup {cur'}, cur' = cur, lastSeq <= lastSeq', lastSeq \in Nat,
           lastSeq' \in Nat,
           posts \subseteq Post
    PROVE  LateEvents' \subseteq LateEvents
<1>1. \A q \in posts : q.seq \in Nat
  BY PostParts
<1> QED BY <1>1 DEF LateEvents

\* Lines are logged, and old ones dropped: no event is.
LEMMA LogOrder ==
    ASSUME ChannelInv, SentInOrder, NEW a \in Nat, HandedUpTo(a), NEW n \in 1 .. MaxLines, Log(n)
    PROVE  OrderInv' /\ AbstractStep
<1>1. /\ items \in Seq(Item) /\ submitted \in Nat /\ srcTotal \in Nat /\ queued \in Nat
         /\ n \in Nat \ {0}
      /\ lastSeq \in Nat /\ posts \subseteq Post
  BY ChannelTypesNow, QueueAssumption DEF ChannelInv, LogInv, TypeOK
<1> DEFINE t == Split(n)
           s == items \o t
           e == Overflow(queued + n)
<1>2. t \in Seq(Item) /\ \A k \in 1 .. Len(t) : IsLog(t[k])
  BY <1>1, SplitItems
<1>3. items' = dropOld[<<s, 1, e>>]
  BY DEF Log
<1>4. e \in Nat
  BY <1>1, QueueAssumption DEF Overflow
<1> HIDE DEF t, e
<1>5. EventRun(t, submitted, submitted)
  BY <1>1, <1>2 DEF EventRun
<1>6. s \in Seq(Item) /\ EventRun(s, a, submitted)
  BY <1>1, <1>2, <1>5, JoinItems, JoinRun DEF HandedUpTo
<1> HIDE DEF s
<1>7. EventRun(items', a, submitted)
  BY <1>1, <1>3, <1>4, <1>6, DropOldRun
<1>8. UNCHANGED <<submitted, delivered, posts, lastSeq, applied, phase, cur>>
  BY DEF Log, coreVars
<1>9. (SendsNew' <=> SendsNew) /\ (Sending' <=> Sending) /\ LateEvents' \subseteq LateEvents
  BY <1>1, <1>8, LateSame DEF SendsNew, Sending
<1>10. items' \in Seq(Item)
  <2>1. LogInv'
    BY LogStep DEF ChannelInv
  <2> QED BY <2>1 DEF LogInv, TypeOK
<1> QED BY <1>7, <1>8, <1>9, <1>10, QuietOrder

\* An event is submitted.
LEMMA EventOrder ==
    ASSUME ChannelInv, SentInOrder, NEW a \in Nat, HandedUpTo(a), Event
    PROVE  OrderInv' /\ AbstractStep
<1> DEFINE n == submitted
           it == EventItem(n + 1)
           t == <<it>>
<1>1. items \in Seq(Item) /\ n \in Nat
  BY ChannelTypesNow
<1>2. it \in Item /\ ~ IsLog(it) /\ it.id = n + 1
  BY <1>1 DEF EventItem, Item, IsLog
<1>3. /\ n < MaxEvents /\ submitted' = n + 1 /\ items' = Append(items, it)
      /\ UNCHANGED <<posts, lastSeq, applied, delivered, phase, cur>>
  BY DEF Event, coreVars
<1> HIDE DEF it
<1>4. t \in Seq(Item) /\ Len(t) = 1 /\ t[1] = it
  BY <1>2
<1>5. EventRun(t, n, n + 1)
  BY <1>1, <1>2, <1>4 DEF EventRun
<1>6. items' = items \o t
  BY <1>1, <1>2, <1>3
<1> HIDE DEF t
<1>7. items' \in Seq(Item) /\ EventRun(items', a, n + 1)
  BY <1>1, <1>4, <1>5, <1>6, JoinItems, JoinRun DEF HandedUpTo
<1>8. HandedUpTo(a)' /\ SentInOrder'
  <2>1. EventsSent' = EventsSent /\ (Sending' <=> Sending)
    BY <1>3 DEF EventsSent, Sending
  <2> QED BY <1>3, <1>7, <2>1 DEF HandedUpTo, SentInOrder
<1>9. (SendsNew' <=> SendsNew) /\ LateEvents' = LateEvents
  BY <1>3 DEF SendsNew, LateEvents
<1> DEFINE f == IF SendsNew THEN a ELSE a + 1
<1>10. a <= n /\ PendingEvents = Pend(f, n) /\ PendingEvents' = Pend(f, n + 1) /\ n + 1 \in Nat
  BY <1>1, <1>3, <1>7, <1>8, <1>9, PendingNow, PendingNext
<1>11. f \in Nat /\ f <= n + 1
  <2>1. a \in Nat /\ a + 1 \in Nat /\ a <= n + 1 /\ a + 1 <= n + 1
    BY <1>1, <1>10
  <2> QED BY <2>1
<1> HIDE DEF f
<1>12. PendingEvents' = Append(PendingEvents, n + 1)
  BY <1>1, <1>10, <1>11, PendAppend
<1>13. Abstract!Submit
  BY <1>3, <1>9, <1>12 DEF Abstract!Submit
<1> QED BY <1>8, <1>13 DEF OrderInv, AbstractStep, Abstract!Next

\* The sending goroutine takes the first item: nothing is delivered yet.
LEMMA PickOrder ==
    ASSUME ChannelInv, SentInOrder, NEW a \in Nat, HandedUpTo(a), Pick
    PROVE  OrderInv' /\ AbstractStep
<1> DEFINE h == Head(items)
<1>1. /\ items \in Seq(Item) /\ submitted \in Nat /\ posts \subseteq Post /\ nextSeq \in Nat
      /\ cur = None /\ None \notin posts /\ ~ Sending
      /\ \A p \in posts \cup applied : p.seq \in Nat /\ p.seq < nextSeq
  BY ChannelTypesNow DEF Sending, Pick, PickWith
<1>2. /\ items # <<>> /\ phase = "idle" /\ phase' = "posting" /\ items' = Tail(items)
      /\ cur' = [seq |-> nextSeq, body |-> h]
      /\ UNCHANGED <<posts, lastSeq, applied, delivered, submitted>>
  BY DEF Pick, PickWith, coreVars
<1> HIDE DEF h
<1>3. Tail(items) \in Seq(Item)
  BY <1>1, <1>2, TailItems
<1>4. cur'.seq = nextSeq /\ cur'.body = h /\ cur' \notin posts /\ cur' \notin applied /\ Sending'
  BY <1>1, <1>2 DEF Sending
<1>5. LateEvents' \subseteq LateEvents
  BY <1>1, <1>2 DEF LateEvents
<1>6. EventRun(items, a, submitted)
  BY DEF HandedUpTo
<1>7. ~ SendsNew
  BY <1>2 DEF SendsNew
<1>8. CASE IsLog(h)
  <2>1. EventRun(Tail(items), a, submitted)
    BY <1>1, <1>2, <1>6, <1>8, TailRun DEF h
  <2>2. EventsSent' \subseteq EventsSent
    BY <1>2, <1>4, <1>8 DEF EventsSent
  <2>3. HandedUpTo(a)' /\ SentInOrder'
    BY <1>2, <1>4, <1>8, <2>1, <2>2 DEF HandedUpTo, SentInOrder
  <2>4. ~ SendsNew'
    BY <1>4, <1>8 DEF SendsNew
  <2>5. PendingEvents' = PendingEvents
    BY <1>1, <1>2, <1>3, <1>7, <2>3, <2>4, PendingNow, PendingNext
  <2>6. Abstract!Forget
    BY <1>2, <1>5, <2>5 DEF Abstract!Forget
  <2> QED BY <2>3, <2>6 DEF OrderInv, AbstractStep, Abstract!Next
<1>9. CASE ~ IsLog(h)
  <2>1. h.id = a + 1 /\ EventRun(Tail(items), a + 1, submitted)
    BY <1>1, <1>2, <1>6, <1>9, TailRun DEF h
  <2>2. EventsSent' = EventsSent \cup {cur'}
    BY <1>1, <1>2, <1>4, <1>9 DEF EventsSent
  <2>3. \A p \in EventsSent : p \in posts /\ p.seq < nextSeq /\ p.seq \in Nat /\ p.body.id <= a
        /\ p.body.id \in Nat
    BY <1>1, EventOfPost DEF EventsSent, HandedUpTo
  <2>4. HandedUpTo(a + 1)'
    BY <1>2, <1>4, <2>1, <2>2, <2>3 DEF HandedUpTo
  <2>5. SentInOrder'
    BY <1>1, <1>4, <2>1, <2>2, <2>3 DEF SentInOrder
  <2>6. SendsNew' /\ a + 1 \in Nat
    BY <1>2, <1>4, <1>9 DEF SendsNew
  <2>7. PendingEvents' = PendingEvents
    BY <1>1, <1>2, <1>3, <1>7, <2>4, <2>6, PendingNow, PendingNext
  <2>8. Abstract!Forget
    BY <1>2, <1>5, <2>7 DEF Abstract!Forget
  <2> QED BY <2>4, <2>5, <2>6, <2>8 DEF OrderInv, AbstractStep, Abstract!Next
<1> QED BY <1>8, <1>9

-------------------------------------------------------------------------------
(***************************************************************************)
(* core handles a request.                                                 *)
(***************************************************************************)

\* core handles the request p: the answer to one that the builder waits for
\* arrives, or no answer does.
HandleOrderHyp(p) ==
    /\ p \in posts /\ Apply(p) /\ posts' \in {posts, posts \ {p}}
    /\ UNCHANGED <<items, submitted, cur>>
    /\ phase' = phase \/ (p = cur /\ phase = "posting" /\ phase' = "answered")

\* core leaves it, or it is a log.
LEMMA HandleQuiet ==
    ASSUME ChannelInv, ChannelInv', SentInOrder, NEW a \in Nat, HandedUpTo(a), NEW p,
           HandleOrderHyp(p),
           p.seq > lastSeq => IsLog(p.body)
    PROVE  OrderInv' /\ AbstractStep
<1>1. /\ items \in Seq(Item) /\ lastSeq \in Nat /\ posts \subseteq Post /\ p \in posts
         /\ p.seq \in Nat
      /\ posts' \subseteq posts /\ UNCHANGED <<items, submitted, cur>>
      /\ phase' = phase \/ (p = cur /\ phase = "posting" /\ phase' = "answered")
      /\ phase' \in {"answered", "acked"} => cur' \in applied'
  BY ChannelTypesNow DEF HandleOrderHyp, ChannelInv, DeliveryInv, AckedMeansApplied
<1>2. Sending' => Sending
  BY <1>1 DEF Sending
<1>3. EventRun(items', a, submitted)
  BY <1>1 DEF HandedUpTo
<1>4. CASE p.seq > lastSeq
  <2>1. IsLog(p.body) /\ lastSeq' = p.seq /\ applied' = applied \cup {p} /\ delivered' = delivered
    BY <1>4 DEF HandleOrderHyp, Apply, ApplyEvent
  <2>2. SendsNew' <=> SendsNew
    BY <1>1, <2>1 DEF SendsNew
  <2>3. LateEvents' \subseteq LateEvents
    BY <1>1, <1>4, <2>1, LateSame
  <2> QED BY <1>1, <1>2, <1>3, <2>1, <2>2, <2>3, QuietOrder
<1>5. CASE ~ (p.seq > lastSeq)
  <2>1. UNCHANGED <<lastSeq, applied, delivered>>
    BY <1>5 DEF HandleOrderHyp, Apply, coreVars
  <2>2. SendsNew' <=> SendsNew
    BY <1>1, <2>1 DEF SendsNew
  <2>3. LateEvents' \subseteq LateEvents
    BY <1>1, <2>1, LateSame
  <2> QED BY <1>1, <1>2, <1>3, <2>1, <2>2, <2>3, QuietOrder
<1> QED BY <1>4, <1>5

\* core applies the event being sent: the first of those pending.
LEMMA HandleCurrent ==
    ASSUME ChannelInv, ChannelInv', SentInOrder, NEW a \in Nat, HandedUpTo(a), HandleOrderHyp(cur),
           cur.seq > lastSeq, ~ IsLog(cur.body)
    PROVE  OrderInv' /\ AbstractStep
<1>1. /\ items \in Seq(Item) /\ items' \in Seq(Item) /\ submitted \in Nat /\ submitted' \in Nat
      /\ lastSeq \in Nat /\ posts \subseteq Post /\ cur \in posts
      /\ cur.seq \in Nat /\ None \notin posts /\ (Sending => cur.seq = nextSeq - 1)
         /\ (~ Sending => cur = None)
      /\ nextSeq \in Nat /\ (\A q \in posts : q.seq \in Nat /\ q.seq < nextSeq)
      /\ (\A q \in applied : q.seq <= lastSeq)
      /\ posts' \subseteq posts /\ UNCHANGED <<items, submitted, cur>>
      /\ phase' = phase \/ (phase = "posting" /\ phase' = "answered")
      /\ phase \in {"answered", "acked"} => cur \in applied
  BY ChannelTypesNow DEF HandleOrderHyp
<1>2. /\ lastSeq' = cur.seq /\ applied' = applied \cup {cur}
      /\ delivered' = Append(delivered, cur.body.id)
  BY DEF HandleOrderHyp, Apply, ApplyEvent
<1>3. cur \notin applied /\ Sending /\ SendsNew /\ ~ SendsNew'
  <2>1. cur \notin applied
    <3>1. cur \in applied => cur.seq <= lastSeq
      BY <1>1
    <3>2. ~ (cur.seq <= lastSeq)
      BY <1>1
    <3> QED BY <3>1, <3>2
  <2>2. Sending
    BY <1>1
  <2>3. phase = "posting"
    BY <1>1, <2>1, <2>2 DEF Sending
  <2>4. cur' \in applied'
    BY <1>1, <1>2
  <2> QED BY <2>1, <2>2, <2>3, <2>4 DEF SendsNew
<1>4. cur.body.id = a
  BY <1>3 DEF HandedUpTo
<1>5. EventsSent' \subseteq EventsSent /\ (Sending' <=> Sending)
  BY <1>1, <1>3 DEF EventsSent, Sending
<1>6. HandedUpTo(a)' /\ SentInOrder'
  BY <1>1, <1>5 DEF HandedUpTo, SentInOrder
<1>7. a <= submitted /\ PendingEvents = Pend(a, submitted) /\ PendingEvents' = Pend(a + 1,
      submitted)
  BY <1>1, <1>3, <1>6, PendingNow, PendingNext
<1>8. PendingEvents # <<>> /\ Head(PendingEvents) = a /\ PendingEvents' = Tail(PendingEvents)
  BY <1>1, <1>7, PendTail
<1>9. LateEvents' = {}
  <2>1. ASSUME NEW q \in posts', q.seq > lastSeq' PROVE FALSE
    BY <1>1, <1>2, <1>3, <2>1
  <2> QED BY <2>1 DEF LateEvents
<1>10. Abstract!Deliver
  BY <1>1, <1>2, <1>4, <1>8, <1>9 DEF Abstract!Deliver
<1> QED BY <1>6, <1>10 DEF OrderInv, AbstractStep, Abstract!Next

\* core applies an event of a process that is gone.
LEMMA HandleLate ==
    ASSUME ChannelInv, ChannelInv', SentInOrder, NEW a \in Nat, HandedUpTo(a), NEW p,
           HandleOrderHyp(p),
           p.seq > lastSeq, ~ IsLog(p.body), p # cur
    PROVE  OrderInv' /\ AbstractStep
<1>1. /\ items \in Seq(Item) /\ items' \in Seq(Item) /\ submitted \in Nat /\ submitted' \in Nat
      /\ lastSeq \in Nat /\ posts \subseteq Post /\ p \in posts
      /\ posts' \subseteq posts /\ UNCHANGED <<items, submitted, cur, phase>>
  BY ChannelTypesNow DEF HandleOrderHyp
<1>2. /\ lastSeq' = p.seq /\ applied' = applied \cup {p} /\ delivered' = Append(delivered,
         p.body.id)
  BY DEF HandleOrderHyp, Apply, ApplyEvent
<1>3. SendsNew' <=> SendsNew
  BY <1>1, <1>2 DEF SendsNew
<1>4. EventsSent' \subseteq EventsSent /\ (Sending' <=> Sending)
  BY <1>1 DEF EventsSent, Sending
<1>5. HandedUpTo(a)' /\ SentInOrder'
  BY <1>1, <1>4 DEF HandedUpTo, SentInOrder
<1>6. PendingEvents' = PendingEvents
  BY <1>1, <1>3, <1>5, PendingNow, PendingNext
<1>7. p.body.id \in LateEvents
  BY <1>1 DEF LateEvents
<1>8. \A q \in posts : ~ IsLog(q.body) => q \in EventsSent /\ q.seq \in Nat /\ q.body.id \in Nat
  BY <1>1, EventOfPost DEF EventsSent
<1>9. ASSUME NEW x \in LateEvents' PROVE x \in LateEvents /\ x > p.body.id
  <2>1. PICK q \in posts : x = q.body.id /\ ~ IsLog(q.body) /\ q # cur /\ q.seq > p.seq
    BY <1>1, <1>2 DEF LateEvents
  <2>2. p.body.id < q.body.id
    BY <1>1, <1>8, <2>1 DEF SentInOrder
  <2>3. q.seq > lastSeq
    BY <1>1, <1>8, <2>1
  <2>4. x \in LateEvents
    BY <2>1, <2>3 DEF LateEvents
  <2> QED BY <1>1, <1>8, <2>1, <2>2, <2>4
<1>11. ASSUME NEW x \in LateEvents, x > p.body.id, \A q \in posts : q # p => q \in posts'
       PROVE  x \in LateEvents'
  <2>1. PICK q \in posts : x = q.body.id /\ ~ IsLog(q.body) /\ q # cur /\ q.seq > lastSeq
    BY DEF LateEvents
  <2>2. q # p /\ q.seq # p.seq
    <3>1. q # p
      BY <1>1, <1>8, <1>11, <2>1
    <3>2. q \in Known /\ p \in Known
      BY <1>1, <2>1 DEF Known
    <3>3. SeqNamesOneEvent
      BY DEF ChannelInv, DeliveryInv
    <3> QED BY <3>1, <3>2, <3>3 DEF SeqNamesOneEvent
  <2>3. ~ (q.seq < p.seq)
    <3> SUFFICES ASSUME q.seq < p.seq PROVE FALSE
      OBVIOUS
    <3>1. q.body.id < p.body.id
      BY <1>1, <1>8, <2>1 DEF SentInOrder
    <3> QED BY <1>1, <1>8, <1>11, <2>1, <3>1
  <2>4. q.seq > p.seq
    BY <1>1, <1>8, <2>1, <2>2, <2>3
  <2> QED BY <1>1, <1>2, <1>11, <2>1, <2>2, <2>4 DEF LateEvents
<1>12. \A q \in posts : q # p => q \in posts'
  BY DEF HandleOrderHyp
<1>13. LateEvents' = {x \in LateEvents : x > p.body.id}
  BY <1>9, <1>11, <1>12
<1>14. Abstract!DeliverLate
  BY <1>1, <1>2, <1>6, <1>7, <1>13 DEF Abstract!DeliverLate
<1> QED BY <1>5, <1>14 DEF OrderInv, AbstractStep, Abstract!Next

-------------------------------------------------------------------------------
(***************************************************************************)
(* Restarts, the other steps, and the refinement.                          *)
(***************************************************************************)

\* The process ends: what it had not handed over is lost, and the event it
\* was sending may come later.
LEMMA CrashOrder ==
    ASSUME ChannelInv, ChannelInv', SentInOrder, NEW a \in Nat, HandedUpTo(a), Crash
    PROVE  OrderInv' /\ AbstractStep
<1>1. /\ items \in Seq(Item) /\ items' \in Seq(Item) /\ submitted \in Nat /\ submitted' \in Nat
      /\ lastSeq \in Nat /\ posts \subseteq Post
      /\ (~ Sending => cur = None) /\ None \notin posts
      /\ (\A q \in applied : q.seq <= lastSeq)
      /\ phase \in {"answered", "acked"} => cur \in applied
  BY ChannelTypesNow DEF Crash
<1>2. /\ items' = <<>> /\ phase' = "idle" /\ cur' = None
      /\ UNCHANGED <<submitted, posts, lastSeq, applied, delivered>>
  BY DEF Crash, coreVars
<1>3. a <= submitted /\ PendingEvents = Pend(IF SendsNew THEN a ELSE a + 1, submitted)
  BY <1>1, PendingNow
<1>4. EventsSent' \subseteq EventsSent /\ ~ Sending' /\ ~ SendsNew'
  BY <1>2 DEF EventsSent, Sending, SendsNew
<1>5. HandedUpTo(submitted)' /\ SentInOrder'
  <2>1. EventRun(<<>>, submitted, submitted)
    BY <1>1 DEF EventRun
  <2>2. ASSUME NEW p \in EventsSent' PROVE p.body.id <= submitted
    <3>1. p \in EventsSent /\ p.body.id <= a /\ p \in posts
      BY <1>2, <1>4, <2>2 DEF EventsSent, HandedUpTo
    <3>2. p.body.id \in Nat
      BY <1>1, <2>2, <3>1, EventOfPost DEF EventsSent
    <3> QED BY <1>1, <1>3, <3>1, <3>2
  <2>3. HandedUpTo(submitted)'
    BY <1>2, <1>4, <2>1, <2>2 DEF HandedUpTo
  <2> QED BY <1>4, <2>3 DEF SentInOrder
<1>6. PendingEvents' = <<>>
  <2>1. EventRun(items', submitted, submitted')
    BY <1>2, <1>5 DEF HandedUpTo
  <2>2. HandedUpTo(submitted)' => PendingEvents' = Pend(submitted + 1, submitted)
    <3> DEFINE b == submitted
    <3>1. Undelivered' = EventIds(items') \cup {}
      BY <1>4 DEF Undelivered
    <3>2. FirstPending' = FirstIn(Undelivered', submitted')
      BY DEF FirstPending, FirstIn
    <3>3. FirstPending' = submitted + 1
      BY <1>1, <1>2, <2>1, <3>1, <3>2, PendingOf, ZenonT(60)
    <3> QED BY <1>2, <3>3 DEF PendingEvents, Pend
  <2> QED BY <1>1, <1>5, <2>2, PendNone
<1>7. CASE LateEvents' = LateEvents
  <2>1. Abstract!Crash
    BY <1>2, <1>6, <1>7 DEF Abstract!Crash
  <2> QED BY <1>1, <1>5, <2>1 DEF OrderInv, AbstractStep, Abstract!Next
<1>8. CASE LateEvents' # LateEvents
  <2>1. /\ cur \in posts /\ ~ IsLog(cur.body) /\ cur.seq > lastSeq
        /\ LateEvents' = LateEvents \cup {cur.body.id}
    <3>1. LateEvents' = {p.body.id : p \in {q \in posts : ~ IsLog(q.body) /\ q.seq > lastSeq}}
      BY <1>1, <1>2 DEF LateEvents
    <3>2. CASE cur \in posts /\ ~ IsLog(cur.body) /\ cur.seq > lastSeq
      BY <3>1, <3>2 DEF LateEvents
    <3>3. CASE ~ (cur \in posts /\ ~ IsLog(cur.body) /\ cur.seq > lastSeq)
      <4>1. LateEvents' = LateEvents
        BY <3>1, <3>3 DEF LateEvents
      <4> QED BY <1>8, <4>1
    <3> QED BY <3>2, <3>3
  <2>2. cur \notin applied
    <3>1. cur \in applied => cur.seq <= lastSeq
      BY <1>1
    <3>2. cur.seq \in Nat
      BY <1>1, <2>1, PostParts
    <3> QED BY <1>1, <2>1, <3>1, <3>2
  <2>3. SendsNew /\ cur.body.id = a
    <3>1. Sending
      BY <1>1, <2>1
    <3>2. phase = "posting"
      BY <1>1, <2>2, <3>1 DEF Sending
    <3> QED BY <2>1, <2>2, <3>1, <3>2 DEF SendsNew, HandedUpTo
  <2>4. PendingEvents # <<>> /\ Head(PendingEvents) = a
    BY <1>1, <1>3, <2>3, PendTail
  <2>5. Abstract!Crash
    BY <1>2, <1>6, <2>1, <2>3, <2>4 DEF Abstract!Crash
  <2> QED BY <1>1, <1>5, <2>5 DEF OrderInv, AbstractStep, Abstract!Next
<1> QED BY <1>7, <1>8

\* The rest moves no event.
OtherStep ==
    \/ Close \/ Drained \/ SendPost \/ (\E p \in posts : LosePost(p))
    \/ Ack \/ OnAckRecord \/ OnAckSkip \/ Resume \/ UNCHANGED vars

\* To the abstract channel they are nothing, or a late event that is lost.
LEMMA OtherOrder ==
    ASSUME ChannelInv, SentInOrder, NEW a \in Nat, HandedUpTo(a), OtherStep
    PROVE  OrderInv' /\ AbstractStep
<1>1. /\ items \in Seq(Item) /\ lastSeq \in Nat /\ posts \subseteq Post
      /\ (~ Sending => cur = None) /\ None \notin posts
      /\ (\A q \in applied : q.seq <= lastSeq)
      /\ phase \in {"answered", "acked"} => cur \in applied
      /\ (~ up => phase = "idle")
  BY ChannelTypesNow
<1>2. UNCHANGED <<items, submitted, lastSeq, applied, delivered>>
  BY DEF OtherStep, Close, Drained, SendPost, LosePost, Ack, OnAckRecord, Record, OnAckSkip,
     Resume, ResumeFrom,
         vars, builderVars, queueVars, coreVars
<1>3. EventRun(items', a, submitted) /\ items' \in Seq(Item)
  BY <1>1, <1>2 DEF HandedUpTo
<1>4. CASE Close \/ Drained \/ SendPost \/ (\E p \in posts : LosePost(p)) \/ Ack \/ Resume \/ UNCHANGED vars
  <2>1. /\ posts' \subseteq posts \cup (IF Sending THEN {cur} ELSE {}) /\ cur' = cur
        /\ (phase' = phase \/ (phase = "idle" /\ phase' = "done") \/ (phase = "answered"
           /\ phase' = "acked"))
    BY <1>4 DEF Close, Drained, SendPost, LosePost, Ack, Resume, ResumeFrom, vars, builderVars,
       queueVars, Sending
  <2>2. Sending' => Sending
    BY <2>1 DEF Sending
  <2>3. SendsNew' <=> SendsNew
    BY <1>2, <2>1 DEF SendsNew
  <2>4. LateEvents' \subseteq LateEvents
    <3>1. posts' \subseteq posts \cup {cur'}
      BY <2>1
    <3> QED BY <1>1, <1>2, <2>1, <3>1, LateSame
  <2> QED BY <1>2, <1>3, <2>1, <2>2, <2>3, <2>4, QuietOrder
<1>5. CASE OnAckRecord \/ OnAckSkip
  <2>1. phase = "acked" /\ phase' = "idle" /\ cur' = None /\ posts' = posts
    BY <1>5 DEF OnAckRecord, Record, OnAckSkip
  <2>2. ~ Sending' /\ ~ SendsNew' /\ ~ SendsNew
    BY <2>1 DEF Sending, SendsNew
  <2>3. cur.seq <= lastSeq
    BY <1>1, <2>1
  <2>4. LateEvents' \subseteq LateEvents
    <3>1. ASSUME NEW q \in posts, q.seq > lastSeq PROVE q # cur
      BY <1>1, <2>3, <3>1, PostParts
    <3> QED BY <1>2, <2>1, <3>1 DEF LateEvents
  <2> QED BY <1>2, <1>3, <2>1, <2>2, <2>4, QuietOrder
<1> QED BY <1>4, <1>5 DEF OtherStep

\* Every step is one of the abstract channel, or none.
LEMMA NextOrder ==
    ASSUME ChannelInv, ChannelInv', OrderInv, [Next]_vars
    PROVE  OrderInv' /\ AbstractStep
<1>1. SentInOrder
  BY DEF OrderInv
<1>2. PICK a \in Nat : HandedUpTo(a)
  BY DEF OrderInv
<1>3. CASE \E n \in 1 .. MaxLines : Log(n)
  BY <1>1, <1>2, <1>3, LogOrder
<1>4. CASE Event
  BY <1>1, <1>2, <1>4, EventOrder
<1>5. CASE Pick
  BY <1>1, <1>2, <1>5, PickOrder
<1>6. CASE HandleAnswered \/ \E p \in posts : HandleUnheard(p)
  <2>1. PICK p : HandleOrderHyp(p)
    BY <1>6 DEF HandleAnswered, HandleUnheard, HandleOrderHyp, builderVars, queueVars
  <2>2. CASE p.seq > lastSeq => IsLog(p.body)
    BY <1>1, <1>2, <2>1, <2>2, HandleQuiet
  <2>3. CASE p.seq > lastSeq /\ ~ IsLog(p.body) /\ p = cur
    BY <1>1, <1>2, <2>1, <2>3, HandleCurrent
  <2>4. CASE p.seq > lastSeq /\ ~ IsLog(p.body) /\ p # cur
    BY <1>1, <1>2, <2>1, <2>4, HandleLate
  <2> QED BY <2>2, <2>3, <2>4
<1>7. CASE Crash
  BY <1>1, <1>2, <1>7, CrashOrder
<1>8. CASE OtherStep
  BY <1>1, <1>2, <1>8, OtherOrder
<1> QED BY <1>3, <1>4, <1>5, <1>6, <1>7, <1>8 DEF Next, OtherStep

\* The initial state.
LEMMA InitOrder ==
    ASSUME Init PROVE OrderInv /\ Abstract!Init
<1>1. items = <<>> /\ submitted = 0 /\ posts = {} /\ phase = "idle" /\ delivered = <<>>
      /\ cur = None
  BY DEF Init
<1>2. EventsSent = {} /\ ~ Sending /\ ~ SendsNew /\ LateEvents = {}
  BY <1>1 DEF EventsSent, Sending, SendsNew, LateEvents
<1>3. items \in Seq(Item) /\ EventRun(items, 0, 0)
  BY <1>1 DEF EventRun
<1>4. HandedUpTo(0) /\ SentInOrder
  BY <1>1, <1>2, <1>3 DEF HandedUpTo, SentInOrder
<1>5. PendingEvents = <<>>
  <2>1. PendingEvents = Pend(0 + 1, 0)
    BY <1>1, <1>2, <1>3, <1>4, PendingNow
  <2> QED BY <2>1, PendNone
<1> QED BY <1>1, <1>2, <1>4, <1>5 DEF OrderInv, Abstract!Init

\* The other invariants go on.
LEMMA NextChannel ==
    ASSUME MaxUnackedRestarts = 1, ChannelInv, [Next]_vars PROVE ChannelInv'
BY NextLog, NextDelivery, AppliedStep DEF ChannelInv

\* The channel keeps the promise of OrderedDelivery.
THEOREM DeliveryIsOrdered ==
    ASSUME MaxUnackedRestarts = 1
    PROVE  Spec => DeliversInOrder
<1> DEFINE Inv == ChannelInv /\ OrderInv
<1>1. Init => Inv /\ Abstract!Init
  BY InitOrder, InitLog, InitDelivery, InitApplied DEF ChannelInv
<1>2. Inv /\ [Next]_vars => Inv' /\ [Abstract!Next]_(Abstract!vars)
  <2> SUFFICES ASSUME Inv, [Next]_vars PROVE Inv' /\ AbstractStep
    BY DEF AbstractStep
  <2>1. ChannelInv'
    BY NextChannel
  <2> QED BY <2>1, NextOrder
<1> QED BY <1>1, <1>2, PTL DEF Spec, DeliversInOrder, Abstract!Spec
===============================================================================
