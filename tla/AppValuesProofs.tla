--------------------------- MODULE AppValuesProofs ---------------------------
(***************************************************************************)
(* Proofs about AppValues, for any number of requests, domains and         *)
(* attempts: a stored domain stays in the values file.                     *)
(*                                                                         *)
(* The argument.  What a request carries to the writer is fixed when its   *)
(* thread prepares it (Prepared).  A request that may still be merged and  *)
(* carries a domain either carries the newest one, or was prepared before  *)
(* that one was stored and is among the holders (NewestCarried).  So until *)
(* a holder is merged, every merge leaves the newest domain in the file    *)
(* from the moment on that its own request was merged (ChangerCarries).    *)
(***************************************************************************)
EXTENDS AppValues, GitopsWriterProofs, FiniteSetTheorems

\* A request that core does not have to send any more has a run, or had one; what
\* was not made has nothing.
Lived(r) ==
    /\ r > made => task[r] = "new"
    /\ task[r] # "done" => run[r] = "none"
    /\ run[r] = "none" => call[r] = "none"
    /\ call[r] \in {"asking", "taken"} => run[r] = "working"

\* What a thread has prepared, by where it is and what it is for.
PreparedFor(r) ==
    /\ task[r] = "load" => what[r] \in {"server", "static"}
    /\ task[r] \in {"look", "mark"} => what[r] \in Deployments
    /\ task[r] \in {"cloudflare", "apply"} => what[r] \in {"domain", "clear"}
    /\ task[r] = "load" \/ (task[r] = "look" /\ what[r] = "rollback") => DOMAIN payload[r].values = {}
    /\ task[r] = "look" /\ what[r] # "rollback" => DOMAIN payload[r].values = {"split", "domain"}
    /\ task[r] \in {"mark", "cloudflare"} => DOMAIN payload[r].values = {"split", "domain"}
    /\ (payload[r].kind = "delete") = (what[r] = "delete")
    /\ call[r] # "none" => change[r] = payload[r]

\* A request that may still be merged and carries a domain carries the newest one,
\* unless it was prepared before that one was stored.
CarriesNewest(r) ==
    r \in Pending \ holders /\ "domain" \in DOMAIN payload[r].values =>
        payload[r].values["domain"] = domain

\* The request that stored the domain carries one.
CarriesOwn(r) ==
    r = changer =>
        /\ r \notin holders
        /\ task[r] \in {"apply", "send", "done"}
        /\ task[r] = "send" \/ run[r] # "none" => "domain" \in DOMAIN payload[r].values

Lifecycle == \A r \in Requests : Lived(r)
Prepared == \A r \in Requests : PreparedFor(r)
NewestCarried == \A r \in Requests : CarriesNewest(r)
ChangerCarries == \A r \in Requests : CarriesOwn(r)

\* Only a deletion takes the file away.
FileThere ==
    merged # {} /\ (\A r \in merged : what[r] # "delete") => file # NoFile

AppInv ==
    /\ WriterInv /\ TypeOK /\ Lifecycle /\ Prepared /\ NewestCarried /\ ChangerCarries
    /\ FileThere /\ DomainStays

-------------------------------------------------------------------------------
(***************************************************************************)
(* What is sent is a change, and the requests are numbered.                *)
(***************************************************************************)
LEMMA SentIsChange ==
    ASSUME NEW k \in Kinds, NEW s \in Slots, NEW sent \in SUBSET CoreFields,
           NEW v \in [sent -> Value], NEW i \in Value
    PROVE  Sent(k, s, v, i) \in Change
BY DEF Sent, Change

LEMMA NoValuesSent ==
    ASSUME NEW k \in Kinds, NEW i \in Value
    PROVE  Sent(k, "server", NoValues, i) \in Change
<1>1. NoValues \in [{} -> Value]
  BY DEF NoValues
<1> QED
  BY <1>1, SentIsChange DEF Slots

LEMMA EmptyImage == Empty["server"] \in Value
BY ValuesAssumption DEF Values, Fields, Slots

LEMMA NoChangeIsChange == NoChange \in Change
BY NoValuesSent, EmptyImage DEF NoChange, Kinds

LEMMA HostsSent ==
    ASSUME TypeOK, NEW k \in Kinds, NEW s \in Slots, NEW i \in Value
    PROVE  /\ hostsNow \in [{"split", "domain"} -> Value]
           /\ Sent(k, s, hostsNow, i) \in Change
<1>1. site \in Value /\ domain \in Value
  BY AppAssumption DEF TypeOK
<1>2. hostsNow \in [{"split", "domain"} -> Value]
  BY <1>1 DEF hostsNow
<1>3. {"split", "domain"} \in SUBSET CoreFields
  BY AppAssumption
<1> QED
  BY <1>2, <1>3, SentIsChange

LEMMA Numbered ==
    \E n \in Nat : Requests = 1 .. n
BY AppAssumption, FS_CardinalityType

LEMMA TargetsAreImages ==
    TypeOK => Targets \subseteq Value
BY AppAssumption DEF Targets, TypeOK

\* A draft carries no values, or those of a change of the domain, and is a deletion
\* if the request is one.
LEMMA DraftFits ==
    ASSUME TypeOK, NEW kind, NEW image \in Value
    PROVE  /\ Draft(kind, image) \in Change
           /\ (Draft(kind, image).kind = "delete") = (kind = "delete")
           /\ kind \notin {"domain", "clear"} => DOMAIN Draft(kind, image).values = {}
           /\ kind \in {"domain", "clear"} =>
                 /\ DOMAIN Draft(kind, image).values = {"split", "domain"}
                 /\ Draft(kind, image).values["domain"] = domain
<1>1. DOMAIN NoValues = {}
  BY DEF NoValues
<1>2. CASE kind = "rollback"
  BY <1>1, <1>2, NoValuesSent DEF Draft, Sent, Kinds
<1>3. CASE kind \in {"remove", "delete"}
  BY <1>1, <1>3, NoValuesSent DEF Draft, Sent, Kinds
<1>4. CASE kind \notin {"rollback", "remove", "delete", "domain", "clear"}
  BY <1>1, <1>4, NoChangeIsChange DEF Draft, NoChange, Sent
<1>5. CASE kind \in {"domain", "clear"}
  <2>1. Draft(kind, image) = Sent("config", "server", hostsNow, image)
    BY <1>5 DEF Draft
  <2>2. Sent("config", "server", hostsNow, image) \in Change
    BY HostsSent DEF Kinds, Slots
  <2> QED
    BY <1>5, <2>1, <2>2 DEF Sent, hostsNow
<1> QED
  BY <1>2, <1>3, <1>4, <1>5

-------------------------------------------------------------------------------
(***************************************************************************)
(* What a step of the writer does to the file and to its callers.          *)
(***************************************************************************)
InFlight(r) == serving = r \/ \E p \in wire : p.of = r

\* The change of x is merged, with a write that lands or a read that finds it.
MergesOne(x) ==
    /\ x \in Requests \ merged /\ InFlight(x) /\ call[x] # "none"
    /\ merged' = merged \cup {x}
    /\ file' = After(file, change[x])

\* No call starts, and what comes into flight was asked for.
CallsGoOn ==
    /\ UNCHANGED change
    /\ \A r \in Requests :
          /\ call'[r] = "none" <=> call[r] = "none"
          /\ call'[r] \in {"asking", "taken"} => call[r] \in {"asking", "taken"}
          /\ InFlight(r)' => InFlight(r) \/ call[r] = "asking"

LEMMA ReplyEffect ==
    ASSUME WriterInv, at # "idle", NEW result \in Returned, Reply(result), UNCHANGED wire
    PROVE  CallsGoOn
BY WriterAssumption DEF WriterInv, WriterTypeOK, ServedInOrder, Reply, CallsGoOn, InFlight,
    Returned

LEMMA GoroutineEffect ==
    ASSUME WriterInv, WriterStep
    PROVE  /\ CallsGoOn
           /\ UNCHANGED <<file, merged>> \/ \E x \in Requests : MergesOne(x)
<1> USE DEF WriterInv, WriterTypeOK, github, callers
<1>0. at # "idle" => serving \in Requests /\ call[serving] # "none"
  BY DEF ServedInOrder
<1>1. ASSUME NEW r \in Requests, Take(r) PROVE CallsGoOn /\ UNCHANGED <<file, merged>>
  BY <1>1, WriterAssumption DEF Take, CallsGoOn, InFlight, Returned
<1>2. CASE ReadFails \/ HeadDone \/ PutDone \/ PutFails
  <2>1. at # "idle" /\ (\E result \in Returned : Reply(result)) /\ UNCHANGED github
    BY <1>2 DEF ReadFails, HeadDone, PutDone, PutFails, Returned
  <2> QED
    BY <2>1, ReplyEffect
<1>3. CASE ReadNothing
  <2>1. CallsGoOn
    BY <1>3, ReplyEffect DEF ReadNothing, Returned
  <2>2. MergesOne(serving)
    BY <1>0, <1>3 DEF ReadNothing, MergesOne, InFlight, After, ServedInOrder
  <2> QED
    BY <1>0, <1>3, <2>1, <2>2 DEF ReadNothing
<1>4. CASE ReadSame
  <2>1. CallsGoOn
    BY <1>4 DEF ReadSame, CallsGoOn, InFlight
  <2>2. MergesOne(serving)
    BY <1>0, <1>4 DEF ReadSame, MergesOne, InFlight, ServedInOrder
  <2> QED
    BY <1>0, <1>4, <2>1, <2>2 DEF ReadSame
<1>5. CASE Read
  <2> DEFINE w == [of |-> serving, base |-> file]
  <2>1. wire' = wire \cup {w} /\ w.of = serving /\ UNCHANGED <<callers, serving, file, merged>>
    BY <1>5 DEF Read
  <2> HIDE DEF w
  <2>2. CallsGoOn
    BY <2>1 DEF CallsGoOn, InFlight
  <2> QED
    BY <2>1, <2>2
<1>6. CASE PutConflict
  <2>1. CASE attempt < MaxAttempts
    BY <1>6, <2>1 DEF PutConflict, CallsGoOn, InFlight
  <2>2. CASE ~(attempt < MaxAttempts)
    BY <1>6, <2>2, ReplyEffect DEF PutConflict, Returned
  <2> QED
    BY <2>1, <2>2
<1> QED
  BY <1>1, <1>2, <1>3, <1>4, <1>5, <1>6 DEF WriterStep

LEMMA GitHubEffect ==
    ASSUME WriterInv, GitHubStep
    PROVE  /\ CallsGoOn
           /\ UNCHANGED <<file, merged>> \/ \E x \in Requests : MergesOne(x)
<1> USE DEF WriterInv, WriterTypeOK, callers
<1>1. PICK p \in wire : Land(p) \/ Refuse(p)
  BY DEF GitHubStep
<1>2. CallsGoOn
  BY <1>1 DEF Land, Refuse, CallsGoOn, InFlight
<1>3. CASE Land(p)
  <2>1. p.of \in Requests /\ p.of \notin merged /\ call[p.of] # "none"
    BY DEF OneWriteEach, OnlyTaken
  <2>2. MergesOne(p.of)
    BY <1>3, <2>1 DEF Land, MergesOne, InFlight
  <2> QED
    BY <1>2, <2>1, <2>2
<1>4. CASE Refuse(p)
  BY <1>2, <1>4 DEF Refuse
<1> QED
  BY <1>1, <1>3, <1>4

LEMMA LeaveEffect ==
    ASSUME WriterInv, NEW r \in Requests, Leave(r) \/ EndContext(r)
    PROVE  CallsGoOn /\ UNCHANGED <<file, merged>>
BY DEF WriterInv, WriterTypeOK, Leave, EndContext, CallsGoOn, InFlight, Returned, goroutine,
    github

-------------------------------------------------------------------------------
(***************************************************************************)
(* The steps of the writer, with nothing of core's.                        *)
(***************************************************************************)
LEMMA MergedDomain ==
    ASSUME NEW cur \in Values \cup {NoFile}, NEW c \in Change, c.kind # "delete"
    PROVE  /\ After(cur, c) # NoFile
           /\ "domain" \in DOMAIN c.values => After(cur, c)["domain"] = c.values["domain"]
           /\ "domain" \notin DOMAIN c.values /\ cur # NoFile =>
                  After(cur, c)["domain"] = cur["domain"]
<1>1. After(cur, c) = Merge(cur, c) /\ Merge(cur, c) \in Values
  BY MergeIsValues DEF After
<1>2. "domain" \in Fields /\ "domain" \notin Slots /\ c.slot \in Slots /\ "server" \in Slots
  BY AppAssumption, ValuesAssumption DEF Fields, Change, Slots
<1>3. /\ "domain" \in DOMAIN c.values => Merge(cur, c)["domain"] = c.values["domain"]
      /\ "domain" \notin DOMAIN c.values /\ cur # NoFile =>
             Merge(cur, c)["domain"] = cur["domain"]
  BY <1>2 DEF Merge
<1> QED
  BY <1>1, <1>3, ValuesAssumption

\* What may still be merged only becomes less.
LEMMA PendingShrinks ==
    ASSUME AppInv, NEW r \in Requests, r \in Pending',
           UNCHANGED <<task, what, payload, run>>, CallsGoOn, merged \subseteq merged'
    PROVE  r \in Pending
BY DEF Pending, KeepsLoaded, AppInv, Lifecycle, Lived, CallsGoOn, InFlight

LEMMA WriterSide ==
    ASSUME AppInv, WriterInv', CallsGoOn, recall' \in SUBSET Requests,
           UNCHANGED <<appRow, made, what, row, task, payload, history, run>>,
           UNCHANGED <<file, merged>> \/ \E x \in Requests : MergesOne(x)
    PROVE  AppInv'
<1> USE DEF AppInv, coreVars, appRow, requestVars, history
<1>1. merged \subseteq merged'
  BY DEF MergesOne
<1>2. TypeOK'
  BY DEF TypeOK, WriterInv
<1>3. Lifecycle'
  BY DEF Lifecycle, Lived, CallsGoOn
<1>4. Prepared'
  BY DEF Prepared, PreparedFor, CallsGoOn
<1>5. Pending' \subseteq Pending
  <2> SUFFICES ASSUME NEW r \in Pending' PROVE r \in Pending
    OBVIOUS
  <2>1. r \in Requests
    BY DEF Pending
  <2> QED
    BY <1>1, <2>1, PendingShrinks
<1>6. NewestCarried'
  BY <1>5 DEF NewestCarried, CarriesNewest
<1>7. ChangerCarries'
  BY DEF ChangerCarries, CarriesOwn
<1>8. CASE UNCHANGED <<file, merged>>
  BY <1>2, <1>3, <1>4, <1>6, <1>7, <1>8 DEF FileThere, DomainStays
<1>9. ASSUME NEW x \in Requests, MergesOne(x) PROVE FileThere' /\ DomainStays'
  <2>1. /\ change[x] = payload[x] /\ change[x] \in Change
        /\ (change[x].kind = "delete") = (what[x] = "delete")
    BY <1>9 DEF MergesOne, Prepared, PreparedFor, WriterInv, WriterTypeOK
  <2>2. CASE what[x] = "delete"
    BY <1>9, <2>2 DEF MergesOne, FileThere, DomainStays
  <2>3. CASE what[x] # "delete"
    <3>1. file \in Values \cup {NoFile}
      BY DEF WriterInv, WriterTypeOK
    <3>2. FileThere'
      BY <1>9, <2>1, <2>3, <3>1, MergedDomain DEF MergesOne, FileThere
    <3>3. SUFFICES ASSUME changer \in merged', holders \cap merged' = {},
                          \A r \in merged' : what[r] # "delete"
                   PROVE  file'["domain"] = domain
      BY <3>2 DEF DomainStays
    <3>4. x \in Pending \ holders
      BY <1>9, <3>3 DEF MergesOne, Pending, InFlight, Lifecycle, Lived
    <3>5. "domain" \in DOMAIN change[x].values => change[x].values["domain"] = domain
      BY <2>1, <3>4 DEF NewestCarried, CarriesNewest
    <3>6. CASE x = changer
      <4>1. "domain" \in DOMAIN change[x].values
        BY <1>9, <2>1, <3>6, WriterAssumption DEF MergesOne, ChangerCarries, CarriesOwn,
            Lifecycle, Lived
      <4> QED
        BY <1>9, <2>1, <2>3, <3>1, <3>5, <4>1, MergedDomain DEF MergesOne
    <3>7. CASE x # changer
      <4>1. file # NoFile /\ file["domain"] = domain
        BY <1>9, <3>3, <3>7 DEF MergesOne, FileThere, DomainStays
      <4> QED
        BY <1>9, <2>1, <2>3, <3>1, <3>5, <4>1, MergedDomain DEF MergesOne
    <3> QED
      BY <3>6, <3>7
  <2> QED
    BY <2>2, <2>3
<1> QED
  BY <1>2, <1>3, <1>4, <1>6, <1>7, <1>8, <1>9

-------------------------------------------------------------------------------
(***************************************************************************)
(* The steps of core and of the manager, with nothing of the writer's.     *)
(***************************************************************************)
LEMMA NotYet ==
    ASSUME AppInv, NEW r \in Requests, task[r] # "done"
    PROVE  run[r] = "none" /\ call[r] = "none" /\ ~InFlight(r) /\ r \notin merged
BY WriterAssumption DEF AppInv, Lifecycle, Lived, InFlight, WriterInv, WriterTypeOK, OnlyTaken,
    ServedInOrder

\* As long as no domain is stored, what holds of the file goes on to hold.
LEMMA FileStays ==
    ASSUME AppInv, UNCHANGED <<vars, domain, changer, holders>>,
           \A r \in merged : what'[r] = what[r]
    PROVE  WriterInv' /\ WriterTypeOK' /\ FileThere' /\ DomainStays'
<1>1. WriterInv'
  BY WriterKeeps DEF AppInv
<1> QED
  BY <1>1 DEF AppInv, WriterInv, FileThere, DomainStays, vars, github

UserKinds == Deployments \cup {"domain", "clear", "remove", "delete"}

LEMMA NewKeeps ==
    ASSUME AppInv, NEW kinds, Len(kinds) \in 1 .. 2,
           \A i \in 1 .. Len(kinds) : kinds[i] \in UserKinds,
           NEW replaced \in SUBSET Requests, NEW image \in Value,
           New(kinds, replaced, image), site' \in 0 .. 1
    PROVE  AppInv'
<1> DEFINE fresh == made + 1 .. made + Len(kinds)
<1>1. PICK n \in Nat : Requests = 1 .. n
  BY Numbered
<1>2. /\ made \in 0 .. n /\ made + Len(kinds) \in 1 .. n
      /\ made' = made + Len(kinds) /\ fresh \subseteq Requests
  <2>1. made' = made + Len(kinds) /\ fresh \subseteq Requests
    BY DEF New
  <2>2. made \in 0 .. n
    BY <1>1 DEF AppInv, TypeOK
  <2>3. made + Len(kinds) \in fresh
    BY <2>2
  <2> QED
    BY <1>1, <2>1, <2>2, <2>3
<1>3. \A r \in fresh : r - made \in 1 .. Len(kinds)
  BY <1>1, <1>2
<1>4. \A r \in fresh : task[r] = "new"
  BY <1>1, <1>2 DEF AppInv, Lifecycle, Lived
<1>5. \A r \in fresh :
          /\ what'[r] \in UserKinds /\ task'[r] = FirstTask(what'[r])
          /\ payload'[r] = Draft(what'[r], image)
  BY <1>2, <1>3 DEF New, AppInv, TypeOK
<1>6. \A r \in Requests \ fresh :
          what'[r] = what[r] /\ task'[r] = task[r] /\ payload'[r] = payload[r]
  BY <1>2 DEF New
<1>7. \A r \in Requests : r > made' => r > made /\ r \notin fresh
  BY <1>1, <1>2
<1>8. /\ what' = [r \in Requests |-> what'[r]] /\ task' = [r \in Requests |-> task'[r]]
      /\ payload' = [r \in Requests |-> payload'[r]]
      /\ row' \in [Requests -> {"none", "active", "running", "failed", "cancelled"}]
      /\ recall' \subseteq Requests
      /\ UNCHANGED <<vars, earlier, app, domain, run, history>>
  <2>1. /\ what' = [r \in Requests |-> what'[r]] /\ task' = [r \in Requests |-> task'[r]]
        /\ payload' = [r \in Requests |-> payload'[r]]
    BY DEF New
  <2>2. row' \in [Requests -> {"none", "active", "running", "failed", "cancelled"}]
    BY DEF New, AppInv, TypeOK
  <2>3. recall' \subseteq Requests
    BY DEF New, AppInv, TypeOK
  <2>4. UNCHANGED <<vars, earlier, app, domain, run, history>>
    BY DEF New
  <2> QED
    BY <2>1, <2>2, <2>3, <2>4
<1>9. UNCHANGED <<call, change, serving, wire, merged, changer, holders>>
  BY <1>8 DEF vars, callers, goroutine, github, history
<1>10. \A r \in fresh :
           /\ task'[r] \in {"load", "look", "cloudflare", "send"}
           /\ task'[r] = "load" => what'[r] \in {"server", "static"}
           /\ task'[r] = "look" => what'[r] = "rollback"
           /\ task'[r] = "cloudflare" <=> what'[r] \in {"domain", "clear"}
           /\ payload'[r] \in Change
           /\ task'[r] # "cloudflare" => DOMAIN payload'[r].values = {}
           /\ task'[r] = "cloudflare" => /\ DOMAIN payload'[r].values = {"split", "domain"}
                                         /\ payload'[r].values["domain"] = domain
           /\ (payload'[r].kind = "delete") = (what'[r] = "delete")
  <2> SUFFICES ASSUME NEW r \in fresh
               PROVE  /\ task'[r] \in {"load", "look", "cloudflare", "send"}
                      /\ task'[r] = "load" => what'[r] \in {"server", "static"}
                      /\ task'[r] = "look" => what'[r] = "rollback"
                      /\ task'[r] = "cloudflare" <=> what'[r] \in {"domain", "clear"}
                      /\ payload'[r] \in Change
                      /\ task'[r] # "cloudflare" => DOMAIN payload'[r].values = {}
                      /\ task'[r] = "cloudflare" =>
                            /\ DOMAIN payload'[r].values = {"split", "domain"}
                            /\ payload'[r].values["domain"] = domain
                      /\ (payload'[r].kind = "delete") = (what'[r] = "delete")
    OBVIOUS
  <2> DEFINE k == what'[r]
  <2>1. k \in UserKinds /\ task'[r] = FirstTask(k) /\ payload'[r] = Draft(k, image)
    BY <1>5
  <2> HIDE DEF k
  <2>2. /\ task'[r] \in {"load", "look", "cloudflare", "send"}
        /\ task'[r] = "load" => k \in {"server", "static"}
        /\ task'[r] = "look" => k = "rollback"
        /\ task'[r] = "cloudflare" <=> k \in {"domain", "clear"}
    BY <2>1 DEF FirstTask, UserKinds, Deployments
  <2>3. TypeOK
    BY DEF AppInv
  <2> QED
    BY <2>1, <2>2, <2>3, DraftFits DEF k
<1>11. \A r \in fresh : run[r] = "none" /\ call[r] = "none" /\ r \notin merged
  BY <1>2, <1>4, NotYet
<1> HIDE DEF fresh
<1>12. WriterInv' /\ WriterTypeOK' /\ FileThere' /\ DomainStays'
  BY <1>6, <1>8, <1>9, <1>11, FileStays DEF AppInv, WriterInv, WriterTypeOK
<1>13. TypeOK'
  <2>1. \A r \in Requests :
            /\ what'[r] \in Deployments \cup {"new", "domain", "clear", "remove", "delete"}
            /\ task'[r] \in {"new", "load", "look", "mark", "cloudflare", "apply", "send", "done"}
            /\ payload'[r] \in Change
    BY <1>5, <1>6, <1>10 DEF AppInv, TypeOK, UserKinds
  <2> QED
    BY <1>1, <1>2, <1>8, <1>9, <1>12, <2>1 DEF AppInv, TypeOK
<1>14. Lifecycle'
  BY <1>6, <1>7, <1>8, <1>9, <1>10, <1>11 DEF AppInv, Lifecycle, Lived
<1>15. Prepared'
  <2>1. ASSUME NEW r \in fresh PROVE PreparedFor(r)'
    BY <1>9, <1>10, <1>11 DEF PreparedFor, Deployments
  <2>2. ASSUME NEW r \in Requests \ fresh PROVE PreparedFor(r)'
    BY <1>6, <1>9 DEF AppInv, Prepared, PreparedFor
  <2> QED
    BY <2>1, <2>2 DEF Prepared
<1>16. NewestCarried'
  <2>1. ASSUME NEW r \in fresh, r \in Requests PROVE CarriesNewest(r)'
    BY <1>8, <1>10, <2>1 DEF CarriesNewest
  <2>2. ASSUME NEW r \in Requests \ fresh PROVE CarriesNewest(r)'
    <3>1. what'[r] = what[r] /\ task'[r] = task[r] /\ payload'[r] = payload[r]
      BY <1>6
    <3>2. r \in Pending' => r \in Pending
      BY <1>8, <1>9, <3>1 DEF Pending, KeepsLoaded
    <3> QED
      BY <1>8, <1>9, <3>1, <3>2 DEF AppInv, NewestCarried, CarriesNewest
  <2> QED
    BY <2>1, <2>2 DEF NewestCarried
<1>17. ChangerCarries'
  <2>1. changer \notin fresh
    BY <1>2, <1>4 DEF AppInv, ChangerCarries, CarriesOwn
  <2> QED
    BY <1>6, <1>8, <1>9, <2>1 DEF AppInv, ChangerCarries, CarriesOwn
<1> QED
  BY <1>12, <1>13, <1>14, <1>15, <1>16, <1>17 DEF AppInv

LEMMA UserKeeps ==
    ASSUME AppInv, StartDeploy \/ StartRollback \/ PutDomain \/ DeleteDomain \/ DeleteApp
    PROVE  AppInv'
<1> USE EmptyImage DEF UserKinds, Deployments
<1>1. ActiveRows \in SUBSET Requests /\ site \in 0 .. 1
  BY DEF ActiveRows, AppInv, TypeOK
<1>2. CASE StartDeploy
  <2>1. CASE New(<<"server">>, ActiveRows, Empty["server"]) /\ site' = 0
    BY <1>1, <2>1, NewKeeps
  <2>2. CASE New(<<"server", "static">>, ActiveRows, Empty["server"]) /\ site' = 1
    BY <1>1, <2>2, NewKeeps
  <2>3. CASE /\ site' = 1
             /\ \/ New(<<"remove", "static">>, ActiveRows, Empty["server"])
                \/ New(<<"static">>, ActiveRows, Empty["server"])
    BY <1>1, <2>3, NewKeeps
  <2> QED
    BY <1>2, <2>1, <2>2, <2>3 DEF StartDeploy
<1>3. CASE StartRollback
  <2> DEFINE replaced == {r \in ActiveRows : SlotOf(what[r]) = "server"}
  <2>1. PICK image \in Targets : New(<<"rollback">>, replaced, image)
    BY <1>3 DEF StartRollback
  <2>2. image \in Value /\ replaced \in SUBSET Requests /\ site' \in 0 .. 1
    BY <1>1, <1>3, TargetsAreImages DEF AppInv, StartRollback
  <2> HIDE DEF replaced
  <2> QED
    BY <2>1, <2>2, NewKeeps
<1>4. CASE PutDomain
  BY <1>1, <1>4, NewKeeps DEF PutDomain
<1>5. CASE DeleteDomain
  BY <1>1, <1>5, NewKeeps DEF DeleteDomain
<1>6. CASE DeleteApp
  BY <1>1, <1>6, NewKeeps DEF DeleteApp
<1> QED
  BY <1>2, <1>3, <1>4, <1>5, <1>6

\* A step for one request leaves the invariant, if it leaves it for that request.
LEMMA OneKeeps ==
    ASSUME AppInv, NEW r \in Requests, TypeOK',
           UNCHANGED <<vars, made, what, domain, changer, holders>>,
           \A q \in Requests \ {r} :
               task'[q] = task[q] /\ payload'[q] = payload[q] /\ run'[q] = run[q],
           Lived(r)', PreparedFor(r)', CarriesNewest(r)', CarriesOwn(r)'
    PROVE  AppInv'
<1>1. WriterInv' /\ FileThere' /\ DomainStays'
  BY FileStays
<1>2. UNCHANGED <<call, change, serving, wire, merged>>
  BY DEF vars, callers, goroutine, github
<1>3. ASSUME NEW q \in Requests \ {r}
      PROVE  Lived(q)' /\ PreparedFor(q)' /\ CarriesNewest(q)' /\ CarriesOwn(q)'
  <2>1. Lived(q)'
    BY <1>2 DEF AppInv, Lifecycle, Lived
  <2>2. PreparedFor(q)'
    BY <1>2 DEF AppInv, Prepared, PreparedFor
  <2>3. q \in Pending' => q \in Pending
    BY <1>2 DEF Pending, KeepsLoaded
  <2>4. CarriesNewest(q)'
    BY <2>3 DEF AppInv, NewestCarried, CarriesNewest
  <2>5. CarriesOwn(q)'
    BY DEF AppInv, ChangerCarries, CarriesOwn
  <2> QED
    BY <2>1, <2>2, <2>4, <2>5
<1> QED
  BY <1>1, <1>3 DEF AppInv, Lifecycle, Prepared, NewestCarried, ChangerCarries

LEMMA OldIsMade ==
    ASSUME AppInv, NEW r \in Requests, task[r] # "new"
    PROVE  ~(r > made)
BY DEF AppInv, Lifecycle, Lived

\* The hosts of a build are computed: they name the newest domain.
LEMMA HostsKeep ==
    ASSUME AppInv, NEW r \in Requests, NEW label \in {"look", "mark"},
           task[r] \in {"load", "look"}, what[r] \in {"server", "static"},
           task' = [task EXCEPT ![r] = label],
           payload' = [payload EXCEPT ![r] = Sent("build", what[r], hostsNow, r)],
           UNCHANGED <<vars, appRow, requestVars, row, run, history>>
    PROVE  AppInv'
<1> USE DEF appRow, requestVars, history
<1>1. call[r] = "none" /\ run[r] = "none"
  BY NotYet
<1>2. r # changer
  BY DEF AppInv, ChangerCarries, CarriesOwn
<1>3. WriterTypeOK' /\ call'[r] = "none" /\ run'[r] = "none"
  BY <1>1, FileStays DEF vars, callers
<1>4. Sent("build", what[r], hostsNow, r) \in Change
  BY HostsSent, AppAssumption DEF AppInv, Kinds, Slots
<1>5. TypeOK'
  BY <1>3, <1>4 DEF AppInv, TypeOK
<1>6. /\ task'[r] = label /\ payload'[r] = Sent("build", what[r], hostsNow, r)
      /\ UNCHANGED <<made, what, domain>>
  BY DEF AppInv, TypeOK
<1>7. Lived(r)'
  BY <1>1, <1>3, <1>6, OldIsMade DEF Lived
<1>8. PreparedFor(r)'
  BY <1>3, <1>6 DEF PreparedFor, Sent, hostsNow, Deployments
<1>9. CarriesNewest(r)'
  BY <1>6 DEF CarriesNewest, Sent, hostsNow
<1>10. CarriesOwn(r)'
  BY <1>2 DEF CarriesOwn
<1> QED
  BY <1>5, <1>7, <1>8, <1>9, <1>10, OneKeeps DEF AppInv, TypeOK

\* The thread goes on with what it has.
LEMMA GoesOn ==
    ASSUME AppInv, NEW r \in Requests, NEW label \in {"mark", "send", "done"},
           task[r] \in {"load", "look"},
           label = "mark" => task[r] = "look" /\ what[r] = "server",
           label = "send" => what[r] = "rollback",
           task' = [task EXCEPT ![r] = label],
           UNCHANGED <<vars, appRow, requestVars, row, payload, run, history>>
    PROVE  AppInv'
<1> USE DEF appRow, requestVars, history
<1>1. /\ call[r] = "none" /\ run[r] = "none" /\ r \notin merged /\ ~InFlight(r)
      /\ UNCHANGED <<call, change, serving, wire, merged, made, what, domain>>
      /\ PreparedFor(r)
  BY NotYet DEF AppInv, Prepared, vars, callers, goroutine, github
<1>2. r # changer
  BY DEF AppInv, ChangerCarries, CarriesOwn
<1>3. WriterTypeOK' /\ task'[r] = label /\ run'[r] = "none"
  BY <1>1, FileStays DEF AppInv, TypeOK
<1>4. TypeOK'
  BY <1>3 DEF AppInv, TypeOK
<1>5. Lived(r)'
  BY <1>1, <1>3, OldIsMade DEF Lived
<1>6. PreparedFor(r)'
  BY <1>1, <1>3 DEF PreparedFor, Deployments
<1>7. CarriesNewest(r)'
  <2>1. CASE label = "mark"
    <3>1. r \in Pending
      BY <1>1, <2>1 DEF Pending
    <3> QED
      BY <1>1, <3>1 DEF AppInv, NewestCarried, CarriesNewest
  <2>2. CASE label = "send"
    BY <1>1, <2>2 DEF PreparedFor, CarriesNewest
  <2>3. CASE label = "done"
    <3>1. r \notin Pending'
      BY <1>1, <1>3, <2>3 DEF Pending, InFlight
    <3> QED
      BY <3>1 DEF CarriesNewest
  <2> QED
    BY <2>1, <2>2, <2>3
<1>8. CarriesOwn(r)'
  BY <1>2 DEF CarriesOwn
<1> QED
  BY <1>4, <1>5, <1>6, <1>7, <1>8, OneKeeps DEF AppInv, TypeOK

LEMMA LookKeeps ==
    ASSUME AppInv, NEW r \in Requests, Load(r) \/ Look(r)
    PROVE  AppInv'
<1>1. PreparedFor(r)
  BY DEF AppInv, Prepared
<1>2. CASE Load(r)
  <2>1. task[r] = "load" /\ what[r] \in {"server", "static"}
    BY <1>1, <1>2 DEF Load, PreparedFor
  <2> QED
    BY <1>2, <2>1, HostsKeep, GoesOn DEF Load, Goto
<1>3. CASE Look(r)
  <2>1. task[r] = "look" /\ what[r] \in {"server", "static", "rollback"}
    BY <1>1, <1>3 DEF Look, PreparedFor, Deployments
  <2>2. CASE row[r] # "active" \/ what[r] = "rollback" \/ what[r] = "server"
    BY <1>3, <2>1, <2>2, GoesOn DEF Look, Goto
  <2>3. CASE row[r] = "active" /\ what[r] = "static"
    BY <1>3, <2>1, <2>3, HostsKeep DEF Look, Goto
  <2> QED
    BY <2>1, <2>2, <2>3
<1> QED
  BY <1>2, <1>3

LEMMA MarkKeeps ==
    ASSUME AppInv, NEW r \in Requests, Mark(r)
    PROVE  AppInv'
<1> USE DEF appRow, requestVars, history
<1> DEFINE values ==
      [split |-> payload[r].values.split, domain |-> payload[r].values.domain,
       enabled |-> IF what[r] = "static" THEN 1 ELSE site]
<1>1. /\ task[r] = "mark" /\ call[r] = "none" /\ run[r] = "none" /\ r \notin merged
      /\ what[r] \in Deployments /\ DOMAIN payload[r].values = {"split", "domain"}
      /\ (payload[r].kind = "delete") = (what[r] = "delete")
  BY NotYet DEF Mark, AppInv, Prepared, PreparedFor
<1>2. r # changer
  BY <1>1 DEF AppInv, ChangerCarries, CarriesOwn
<1>3. r \notin holders => values.domain = domain
  BY <1>1 DEF AppInv, NewestCarried, CarriesNewest, Pending
<1>4. payload[r] \in Change
  BY DEF AppInv, TypeOK
<1>5. values \in [CoreFields -> Value]
  <2>1. payload[r].values["split"] \in Value /\ payload[r].values["domain"] \in Value
    BY <1>1, <1>4, SentValues
  <2>2. (IF what[r] = "static" THEN 1 ELSE site) \in Value
    BY AppAssumption DEF AppInv, TypeOK
  <2> QED
    BY <2>1, <2>2, AppAssumption
<1>6. DOMAIN values = {"split", "domain", "enabled"} /\ values["domain"] = values.domain
  OBVIOUS
<1> HIDE DEF values
<1>7. payload' = [payload EXCEPT ![r].values = values]
  BY DEF Mark, values
<1>8. /\ payload'[r] = [payload[r] EXCEPT !.values = values]
      /\ payload' = [payload EXCEPT ![r] = payload'[r]]
  BY <1>7 DEF AppInv, TypeOK
<1>9. /\ payload'[r].values = values /\ payload'[r].kind = payload[r].kind
      /\ payload'[r] \in Change
  BY <1>4, <1>5, <1>8 DEF Change
<1>10. /\ task' = [task EXCEPT ![r] = "send"]
       /\ UNCHANGED <<vars, made, earlier, app, site, what, recall, domain, run, changer, holders>>
  BY DEF Mark, Goto
<1>11. WriterTypeOK' /\ call'[r] = "none" /\ run'[r] = "none" /\ task'[r] = "send"
  BY <1>1, <1>10, FileStays DEF vars, callers, AppInv, TypeOK
<1>12. TypeOK'
  <2>1. row' \in [Requests -> {"none", "active", "running", "failed", "cancelled"}]
    BY DEF Mark, AppInv, TypeOK
  <2>2. payload' \in [Requests -> Change]
    BY <1>8, <1>9 DEF AppInv, TypeOK
  <2>3. task' \in [Requests -> {"new", "load", "look", "mark", "cloudflare", "apply", "send", "done"}]
    BY <1>10 DEF AppInv, TypeOK
  <2> QED
    BY <1>10, <1>11, <2>1, <2>2, <2>3 DEF AppInv, TypeOK
<1>13. Lived(r)'
  BY <1>1, <1>10, <1>11, OldIsMade DEF Lived
<1>14. PreparedFor(r)'
  BY <1>1, <1>9, <1>10, <1>11 DEF PreparedFor
<1>15. CarriesNewest(r)'
  BY <1>3, <1>6, <1>9, <1>10 DEF CarriesNewest
<1>16. CarriesOwn(r)'
  BY <1>2, <1>10 DEF CarriesOwn
<1> QED
  BY <1>8, <1>10, <1>12, <1>13, <1>14, <1>15, <1>16, OneKeeps DEF AppInv, TypeOK

LEMMA ReloadKeeps ==
    ASSUME AppInv, NEW r \in Requests, Reload(r)
    PROVE  AppInv'
<1> USE DEF appRow, requestVars, history
<1> DEFINE sent == Sent("config", "server", hostsNow, Empty["server"])
<1>1. /\ task[r] = "apply" /\ call[r] = "none" /\ run[r] = "none" /\ what[r] \in {"domain", "clear"}
  BY NotYet DEF Reload, AppInv, Prepared, PreparedFor
<1>2. /\ sent \in Change /\ sent.kind = "config" /\ sent.values = hostsNow
      /\ DOMAIN sent.values = {"split", "domain"} /\ sent.values["domain"] = domain
  BY HostsSent, EmptyImage DEF AppInv, Kinds, Slots, Sent, hostsNow
<1> HIDE DEF sent
<1>3. /\ task' = [task EXCEPT ![r] = "send"] /\ payload' = [payload EXCEPT ![r] = sent]
      /\ UNCHANGED <<vars, made, earlier, app, site, what, recall, domain, row, run,
                     changer, holders>>
  BY DEF Reload, Goto, sent
<1>4. /\ WriterTypeOK' /\ call'[r] = "none" /\ run'[r] = "none" /\ task'[r] = "send"
      /\ payload'[r] = sent
  BY <1>1, <1>3, FileStays DEF vars, callers, AppInv, TypeOK
<1>5. TypeOK'
  BY <1>2, <1>3, <1>4 DEF AppInv, TypeOK
<1>6. Lived(r)'
  BY <1>1, <1>3, <1>4, OldIsMade DEF Lived
<1>7. PreparedFor(r)'
  BY <1>1, <1>2, <1>3, <1>4 DEF PreparedFor
<1>8. CarriesNewest(r)'
  BY <1>2, <1>3, <1>4 DEF CarriesNewest
<1>9. CarriesOwn(r)'
  BY <1>2, <1>3, <1>4 DEF AppInv, ChangerCarries, CarriesOwn
<1> QED
  BY <1>3, <1>5, <1>6, <1>7, <1>8, <1>9, OneKeeps DEF AppInv, TypeOK

\* The thread is done, or the run starts or ends: what was prepared stays.
LEMMA EndKeeps ==
    ASSUME AppInv, NEW r \in Requests, TypeOK',
           UNCHANGED <<vars, made, what, payload, domain, changer, holders>>,
           task' = [task EXCEPT ![r] = "done"],
           \/ task[r] \notin {"new", "done"} /\ UNCHANGED run
           \/ task[r] = "send" /\ run' = [run EXCEPT ![r] = "working"]
           \/ /\ run[r] = "working" /\ run' = [run EXCEPT ![r] = "over"]
              /\ call[r] \notin {"asking", "taken"}
    PROVE  AppInv'
<1>1. UNCHANGED <<call, change, serving, wire, merged>>
  BY DEF vars, callers, goroutine, github
<1>2. task[r] # "new" /\ task'[r] = "done"
  BY DEF AppInv, TypeOK, Lifecycle, Lived
<1>3. task[r] # "done" => run[r] = "none" /\ call[r] = "none" /\ ~InFlight(r)
  BY NotYet
<1>4. Lived(r)'
  BY <1>1, <1>2, <1>3, OldIsMade DEF Lived, AppInv, TypeOK, Lifecycle
<1>5. PreparedFor(r)'
  BY <1>1, <1>2 DEF AppInv, Prepared, PreparedFor
<1>6. r \in Pending' => r \in Pending
  BY <1>1, <1>2, <1>3 DEF Pending, KeepsLoaded, InFlight, AppInv, TypeOK, Lifecycle, Lived
<1>7. CarriesNewest(r)'
  BY <1>6 DEF AppInv, NewestCarried, CarriesNewest
<1>8. CarriesOwn(r)'
  BY <1>2, <1>3 DEF AppInv, TypeOK, ChangerCarries, CarriesOwn
<1> QED
  BY <1>4, <1>5, <1>7, <1>8, OneKeeps DEF AppInv, TypeOK

LEMMA EndsKeep ==
    ASSUME AppInv, NEW r \in Requests,
           GiveUp(r) \/ Accept(r) \/ RunEnds(r) \/ AppDeleted(r)
    PROVE  AppInv'
<1> USE DEF appRow, requestVars, history
<1>1. UNCHANGED <<vars, made, what, payload, domain, changer, holders, earlier, site, recall>>
  BY DEF GiveUp, Accept, RunEnds, AppDeleted
<1>2. WriterTypeOK'
  BY <1>1, FileStays
<1>3. row' \in [Requests -> {"none", "active", "running", "failed", "cancelled"}]
  <2>1. CASE GiveUp(r)
    BY <2>1 DEF GiveUp, AppInv, TypeOK
  <2>2. CASE Accept(r)
    BY <2>2 DEF Accept, AppInv, TypeOK
  <2>3. CASE RunEnds(r)
    <3>1. PICK status \in {"failed", "cancelled", "running"} :
              row' = IF row[r] = "active" THEN [row EXCEPT ![r] = status] ELSE row
      BY <2>3 DEF RunEnds
    <3> QED
      BY <3>1 DEF AppInv, TypeOK
  <2>4. CASE AppDeleted(r)
    BY <2>4 DEF AppDeleted
  <2> QED
    BY <2>1, <2>2, <2>3, <2>4
<1>4. run[r] = "working" => task[r] = "done"
  BY DEF AppInv, Lifecycle, Lived
<1>5. /\ task' = [task EXCEPT ![r] = "done"] /\ app' \in BOOLEAN
      /\ \/ task[r] \notin {"new", "done"} /\ UNCHANGED run
         \/ task[r] = "send" /\ run' = [run EXCEPT ![r] = "working"]
         \/ /\ run[r] = "working" /\ run' = [run EXCEPT ![r] = "over"]
            /\ call[r] \notin {"asking", "taken"}
  BY <1>4, ZenonT(60) DEF GiveUp, Accept, RunEnds, AppDeleted, Goto, AppInv, TypeOK, Returned
<1>6. TypeOK'
  <2>1. task' \in [Requests -> {"new", "load", "look", "mark", "cloudflare", "apply", "send", "done"}]
    BY <1>5 DEF AppInv, TypeOK
  <2>2. run' \in [Requests -> {"none", "working", "over"}]
    BY <1>5 DEF AppInv, TypeOK
  <2> QED
    BY <1>1, <1>2, <1>3, <1>5, <2>1, <2>2 DEF AppInv, TypeOK
<1> QED
  BY <1>1, <1>5, <1>6, EndKeeps

\* The newest domain is stored: who was prepared before becomes a holder.
LEMMA StoreKeeps ==
    ASSUME AppInv, NEW r \in Requests, NEW d \in Domains,
           task[r] = "cloudflare", ~KeepsLoaded(r), Goto(r, "apply"), Store(r, d),
           UNCHANGED <<vars, earlier, app, site, requestVars, row, payload, run>>
    PROVE  AppInv'
<1> USE DEF appRow, requestVars
<1>1. /\ what[r] \in {"domain", "clear"} /\ run[r] = "none"
      /\ call[r] = "none" /\ r \notin merged
  BY NotYet DEF AppInv, Prepared, PreparedFor
<1>2. /\ task' = [task EXCEPT ![r] = "apply"] /\ changer' = r /\ holders' = Pending
      /\ domain' \in Domains
      /\ UNCHANGED <<vars, made, earlier, app, site, what, recall, row, payload, run>>
  BY DEF Goto, Store
<1>3. UNCHANGED <<call, change, serving, wire, merged, file>>
  BY <1>2 DEF vars, callers, goroutine, github
<1>4. task'[r] = "apply" /\ \A q \in Requests \ {r} : task'[q] = task[q]
  BY <1>2 DEF AppInv, TypeOK
<1>5. WriterInv' /\ FileThere'
  BY <1>2, <1>3, WriterKeeps DEF AppInv, FileThere
<1>6. DomainStays'
  BY <1>1, <1>2, <1>3 DEF DomainStays
<1>7. TypeOK'
  <2>1. task' \in [Requests -> {"new", "load", "look", "mark", "cloudflare", "apply", "send", "done"}]
    BY <1>2 DEF AppInv, TypeOK
  <2>2. holders' \subseteq Requests
    BY <1>2 DEF Pending
  <2> QED
    BY <1>2, <1>5, <2>1, <2>2 DEF AppInv, TypeOK, WriterInv
<1>8. Lifecycle'
  <2>1. Lived(r)'
    BY <1>1, <1>2, <1>3, <1>4, OldIsMade DEF Lived
  <2>2. \A q \in Requests \ {r} : Lived(q)'
    BY <1>2, <1>3, <1>4 DEF AppInv, Lifecycle, Lived
  <2> QED
    BY <2>1, <2>2 DEF Lifecycle
<1>9. Prepared'
  <2>1. PreparedFor(r)'
    BY <1>1, <1>2, <1>3, <1>4 DEF AppInv, Prepared, PreparedFor
  <2>2. \A q \in Requests \ {r} : PreparedFor(q)'
    BY <1>2, <1>3, <1>4 DEF AppInv, Prepared, PreparedFor
  <2> QED
    BY <2>1, <2>2 DEF Prepared
<1>10. Pending' \subseteq holders'
  BY <1>2, <1>3, <1>4 DEF Pending, KeepsLoaded
<1>11. NewestCarried'
  BY <1>10 DEF NewestCarried, CarriesNewest
<1>12. ChangerCarries'
  <2>1. r \notin holders'
    BY <1>2 DEF Pending
  <2> QED
    BY <1>1, <1>2, <1>4, <2>1 DEF ChangerCarries, CarriesOwn
<1> QED
  BY <1>5, <1>6, <1>7, <1>8, <1>9, <1>11, <1>12 DEF AppInv

\* The row has the domain already, or had none to clear.
LEMMA SameDomainKeeps ==
    ASSUME AppInv, NEW r \in Requests, NEW label \in {"apply", "send"},
           task[r] = "cloudflare", label = "send" => KeepsLoaded(r), Goto(r, label),
           UNCHANGED <<vars, earlier, app, site, domain, requestVars, row, payload, run, history>>
    PROVE  AppInv'
<1> USE DEF requestVars, history
<1>1. /\ what[r] \in {"domain", "clear"} /\ run[r] = "none" /\ call[r] = "none" /\ r \notin merged
      /\ PreparedFor(r)
      /\ UNCHANGED <<call, change, serving, wire, merged, made, what, domain>>
  BY NotYet DEF AppInv, Prepared, PreparedFor, vars, callers, goroutine, github
<1>2. task' = [task EXCEPT ![r] = label] /\ r # changer
  BY DEF Goto, AppInv, ChangerCarries, CarriesOwn
<1>3. WriterTypeOK' /\ task'[r] = label /\ run'[r] = "none"
  BY <1>1, <1>2, FileStays DEF AppInv, TypeOK
<1>4. TypeOK'
  BY <1>2, <1>3 DEF AppInv, TypeOK
<1>5. Lived(r)'
  BY <1>1, <1>3, OldIsMade DEF Lived
<1>6. PreparedFor(r)'
  BY <1>1, <1>3 DEF PreparedFor
<1>7. CarriesNewest(r)'
  <2>1. CASE label = "apply"
    BY <1>3, <2>1 DEF Pending, CarriesNewest
  <2>2. CASE label = "send"
    <3>1. r \in Pending
      BY <1>1, <2>2 DEF Pending
    <3> QED
      BY <1>1, <3>1 DEF AppInv, NewestCarried, CarriesNewest
  <2> QED
    BY <2>1, <2>2
<1>8. CarriesOwn(r)'
  BY <1>2 DEF CarriesOwn
<1> QED
  BY <1>2, <1>4, <1>5, <1>6, <1>7, <1>8, OneKeeps DEF AppInv, TypeOK

LEMMA SaveDomainKeeps ==
    ASSUME AppInv, NEW r \in Requests, SaveDomain(r) \/ ClearDomain(r)
    PROVE  AppInv'
<1>1. CASE SaveDomain(r)
  <2>1. ~KeepsLoaded(r)
    BY <1>1 DEF SaveDomain, KeepsLoaded
  <2>2. PICK d \in Domains \ {0} :
            IF payload[r].values["domain"] = d THEN UNCHANGED <<domain, history>> ELSE Store(r, d)
    BY <1>1 DEF SaveDomain
  <2> QED
    BY <1>1, <2>1, <2>2, StoreKeeps, SameDomainKeeps DEF SaveDomain
<1>2. CASE ClearDomain(r)
  BY <1>2, StoreKeeps, SameDomainKeeps, AppAssumption DEF ClearDomain
<1> QED
  BY <1>1, <1>2

-------------------------------------------------------------------------------
(***************************************************************************)
(* All steps.                                                              *)
(***************************************************************************)
LEMMA CommitKeeps ==
    ASSUME AppInv, NEW r \in Requests, RunCommits(r)
    PROVE  AppInv'
<1> USE DEF coreVars, appRow, requestVars, history
<1>1. /\ run[r] = "working" /\ call[r] = "none"
      /\ call' = [call EXCEPT ![r] = "asking"] /\ change' = [change EXCEPT ![r] = payload[r]]
      /\ UNCHANGED <<serving, wire, file, merged, coreVars, run>>
  BY DEF RunCommits, Ask, goroutine, github
<1>2. payload[r] \in Change
  BY DEF AppInv, TypeOK
<1>3. WriterInv'
  BY <1>2, CallerStep DEF RunCommits, AppInv
<1>4. TypeOK'
  BY <1>1, <1>3 DEF AppInv, TypeOK, WriterInv
<1>5. Lifecycle'
  BY <1>1 DEF AppInv, WriterInv, WriterTypeOK, Lifecycle, Lived
<1>6. Prepared'
  BY <1>1 DEF AppInv, WriterInv, WriterTypeOK, Prepared, PreparedFor
<1>7. Pending' = Pending
  BY <1>1 DEF Pending, KeepsLoaded
<1>8. NewestCarried' /\ ChangerCarries'
  BY <1>1, <1>7 DEF AppInv, NewestCarried, CarriesNewest, ChangerCarries, CarriesOwn
<1>9. FileThere' /\ DomainStays'
  BY <1>1 DEF AppInv, FileThere, DomainStays
<1> QED
  BY <1>3, <1>4, <1>5, <1>6, <1>8, <1>9 DEF AppInv

LEMMA StutterKeeps ==
    ASSUME AppInv, TypeOK', UNCHANGED <<vars, made, what, task, payload, run, domain, history>>
    PROVE  AppInv'
<1>1. WriterInv' /\ FileThere' /\ DomainStays'
  BY FileStays DEF history
<1>2. UNCHANGED <<call, change, serving, wire, merged>>
  BY DEF vars, callers, goroutine, github
<1>3. Lifecycle' /\ Prepared'
  BY <1>2 DEF AppInv, Lifecycle, Lived, Prepared, PreparedFor
<1>4. Pending' = Pending
  BY <1>2 DEF Pending, KeepsLoaded
<1>5. NewestCarried' /\ ChangerCarries'
  BY <1>4 DEF AppInv, NewestCarried, CarriesNewest, ChangerCarries, CarriesOwn, history
<1> QED
  BY <1>1, <1>3, <1>5 DEF AppInv

LEMMA CancelRemoteKeeps ==
    ASSUME AppInv, NEW r \in Requests, CancelRemote(r)
    PROVE  AppInv'
<1>1. /\ recall' \in SUBSET Requests
      /\ UNCHANGED <<appRow, made, what, row, task, payload, history, run>>
  BY DEF CancelRemote, AppInv, TypeOK
<1>2. CASE run[r] = "working"
  <2>1. EndContext(r) /\ WriterInv'
    BY <1>2, CallerStep DEF CancelRemote, AppInv
  <2>2. CallsGoOn /\ UNCHANGED <<file, merged>>
    BY <2>1, LeaveEffect DEF AppInv
  <2> QED
    BY <1>1, <2>1, <2>2, WriterSide
<1>3. CASE run[r] # "working"
  <2>1. UNCHANGED vars
    BY <1>3 DEF CancelRemote
  <2>2. WriterInv'
    BY <2>1, WriterKeeps DEF AppInv
  <2>3. TypeOK'
    BY <1>1, <2>2 DEF AppInv, TypeOK, WriterInv, appRow, history
  <2> QED
    BY <1>1, <2>1, <2>3, StutterKeeps DEF appRow
<1> QED
  BY <1>2, <1>3

\* A caller's context ends, or it leaves, and nothing of core's changes.
LEMMA CallerKeeps ==
    ASSUME AppInv, NEW r \in Requests, EndContext(r) \/ Leave(r), UNCHANGED <<coreVars, run>>
    PROVE  AppInv'
<1>1. WriterInv'
  BY CallerStep DEF AppInv
<1>2. CallsGoOn /\ UNCHANGED <<file, merged>>
  BY LeaveEffect DEF AppInv
<1>3. recall' \in SUBSET Requests
  BY DEF coreVars, requestVars, AppInv, TypeOK
<1> QED
  BY <1>1, <1>2, <1>3, WriterSide DEF coreVars, requestVars

LEMMA WriterStepKeeps ==
    ASSUME AppInv, WriterStep \/ GitHubStep, UNCHANGED <<coreVars, run>>
    PROVE  AppInv'
<1>1. WriterInv'
  BY GoroutineStep, GitHubKeeps DEF AppInv, GitHubStep
<1>2. /\ CallsGoOn
      /\ UNCHANGED <<file, merged>> \/ \E x \in Requests : MergesOne(x)
  BY GoroutineEffect, GitHubEffect DEF AppInv
<1>3. recall' \in SUBSET Requests
  BY DEF coreVars, requestVars, AppInv, TypeOK
<1> QED
  BY <1>1, <1>2, <1>3, WriterSide DEF coreVars, requestVars

LEMMA AppKeeps ==
    ASSUME AppInv, [AppNext]_appVars
    PROVE  AppInv'
<1>1. CASE UNCHANGED appVars
  <2>1. UNCHANGED <<vars, coreVars, run>>
    BY <1>1 DEF appVars
  <2>2. WriterInv'
    BY <2>1, WriterKeeps DEF AppInv
  <2>3. TypeOK'
    BY <2>1, <2>2 DEF AppInv, TypeOK, WriterInv, coreVars, appRow, requestVars, history
  <2> QED
    BY <2>1, <2>3, StutterKeeps DEF coreVars, appRow, requestVars
<1>2. CASE StartDeploy \/ StartRollback \/ PutDomain \/ DeleteDomain \/ DeleteApp
  BY <1>2, UserKeeps
<1>3. ASSUME NEW r \in Requests,
             \/ CancelRemote(r) \/ Load(r) \/ Look(r) \/ Mark(r) \/ SaveDomain(r)
             \/ ClearDomain(r) \/ Reload(r) \/ GiveUp(r) \/ Accept(r) \/ CancelOther(r) \/ RunCommits(r) \/ RunEnds(r)
             \/ AppDeleted(r) \/ (Leave(r) /\ UNCHANGED <<coreVars, run>>)
      PROVE  AppInv'
  <2>1. CASE CancelOther(r)
    <3>1. PICK o \in Conflicts(r) : EndContext(o)
      BY <2>1 DEF CancelOther
    <3>2. o \in Requests
      BY DEF Conflicts
    <3> QED
      BY <2>1, <3>1, <3>2, CallerKeeps DEF CancelOther
  <2>2. CASE Leave(r) /\ UNCHANGED <<coreVars, run>>
    BY <2>2, CallerKeeps
  <2> QED
    BY <1>3, <2>1, <2>2, CancelRemoteKeeps, LookKeeps, MarkKeeps, SaveDomainKeeps,
        ReloadKeeps, EndsKeep, CommitKeeps
<1>4. CASE (WriterStep \/ GitHubStep) /\ UNCHANGED <<coreVars, run>>
  BY <1>4, WriterStepKeeps
<1> QED
  BY <1>1, <1>2, <1>3, <1>4 DEF AppNext

LEMMA AppInitInv ==
    ASSUME AppInit
    PROVE  AppInv
<1>1. change \in [Requests -> Change] /\ payload = change
  BY NoChangeIsChange DEF AppInit
<1>2. file \in Values \cup {NoFile}
  <2>1. Empty \in Values /\ 0 \in Value
    BY ValuesAssumption, AppAssumption
  <2> QED
    BY <2>1 DEF AppInit, Values
<1>3. WriterInv
  BY <1>1, <1>2, WriterInitInv DEF AppInit
<1>4. /\ merged = {} /\ made = 0 /\ changer = NoRequest /\ NoRequest \notin Requests
      /\ \A r \in Requests :
            /\ task[r] = "new" /\ what[r] = "new" /\ run[r] = "none" /\ call[r] = "none"
            /\ payload[r] = NoChange
  BY WriterAssumption DEF AppInit, WriterInit
<1>5. TypeOK
  <2>1. payload \in [Requests -> Change] /\ 0 \in Domains
    BY <1>1, AppAssumption
  <2> QED
    BY <1>3, <2>1 DEF AppInit, TypeOK, WriterInv
<1>6. Lifecycle /\ Prepared
  <2>1. NoChange.kind # "delete"
    BY DEF NoChange, Sent
  <2> QED
    BY <1>4, <2>1 DEF Lifecycle, Lived, Prepared, PreparedFor, Deployments
<1>7. NewestCarried /\ ChangerCarries
  BY <1>4 DEF NewestCarried, CarriesNewest, Pending, ChangerCarries, CarriesOwn
<1>8. FileThere /\ DomainStays
  BY <1>4 DEF FileThere, DomainStays
<1> QED
  BY <1>3, <1>5, <1>6, <1>7, <1>8 DEF AppInv

-------------------------------------------------------------------------------
(***************************************************************************)
(* What holds of every behaviour of AppSpec.                               *)
(***************************************************************************)

\* The records of core and of the writer have their types, whatever requests are
\* made and however they interleave (start_deploy, start_rollback, put_domain,
\* delete_app; Manager.Submit; gitops.Writer).
THEOREM AppTypeCorrect == AppSpec => []TypeOK
<1>1. AppInv => TypeOK
  BY DEF AppInv
<1> QED
  BY <1>1, AppInitInv, AppKeeps, PTL DEF AppSpec

\* A domain that put_domain or delete_domain has stored and the writer has merged
\* stays in the values file, until the file is deleted or a request is merged that
\* was prepared before the domain was stored (_slot_hostnames, apply_hostnames,
\* Writer.apply).
THEOREM StoredDomainStays == AppSpec => []DomainStays
<1>1. AppInv => DomainStays
  BY DEF AppInv
<1> QED
  BY <1>1, AppInitInv, AppKeeps, PTL DEF AppSpec

LEMMA AppDrivesWriter ==
    ASSUME AppInv, [AppNext]_appVars
    PROVE  [WriterNext]_vars
<1>1. CASE UNCHANGED appVars
  BY <1>1 DEF appVars
<1>2. CASE StartDeploy \/ StartRollback \/ PutDomain \/ DeleteDomain \/ DeleteApp
  BY <1>2 DEF StartDeploy, StartRollback, PutDomain, DeleteDomain, DeleteApp, New
<1>3. ASSUME NEW r \in Requests,
             \/ Load(r) \/ Look(r) \/ Mark(r) \/ SaveDomain(r) \/ ClearDomain(r)
             \/ Reload(r) \/ GiveUp(r)
             \/ Accept(r) \/ RunEnds(r) \/ AppDeleted(r)
      PROVE  UNCHANGED vars
  BY <1>3 DEF Load, Look, Mark, SaveDomain, ClearDomain, Reload, GiveUp, Accept, RunEnds, AppDeleted
<1>4. ASSUME NEW r \in Requests, CancelRemote(r) PROVE [WriterNext]_vars
  BY <1>4 DEF CancelRemote, WriterNext
<1>5. ASSUME NEW r \in Requests, CancelOther(r) PROVE WriterNext
  BY <1>5 DEF CancelOther, Conflicts, WriterNext
<1>6. ASSUME NEW r \in Requests, RunCommits(r) PROVE WriterNext
  <2>1. payload[r] \in Change
    BY DEF AppInv, TypeOK
  <2> QED
    BY <1>6, <2>1 DEF RunCommits, WriterNext
<1>7. ASSUME NEW r \in Requests, Leave(r) PROVE WriterNext
  BY <1>7 DEF WriterNext
<1>8. CASE WriterStep \/ GitHubStep
  BY <1>8 DEF WriterNext
<1> QED
  BY <1>1, <1>2, <1>3, <1>4, <1>5, <1>6, <1>7, <1>8 DEF AppNext

\* Every change that a run of core's requests commits is merged into the newest
\* file, at most once, and before its answer says so: core and the manager ask of
\* the writer only what it is made for (run.commit, Writer.Commit).
THEOREM RequestsCommitAtomically == AppSpec => CommitsAtomic
<1>1. AppInit => Abstract!Init
  <2>1. ASSUME AppInit PROVE AppInv
    BY <2>1, AppInitInv
  <2>2. AppInv => change \in [Requests -> Change] /\ file \in Values \cup {NoFile}
    BY DEF AppInv, WriterInv, WriterTypeOK
  <2> QED
    BY <2>1, <2>2, SameFile DEF AppInit, WriterInit, Abstract!Init, ResultOf
<1>2. AppInv /\ [AppNext]_appVars => [Abstract!Next]_Abstract!vars
  BY AppDrivesWriter, StepSimulates DEF AppInv
<1> QED
  BY <1>1, <1>2, AppInitInv, AppKeeps, PTL DEF AppSpec, CommitsAtomic, Abstract!Spec
=============================================================================
