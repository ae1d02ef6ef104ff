---------------------------- MODULE WebTypesProofs ----------------------------
(***************************************************************************)
(* Proofs about the types of the pages of the web console.  The pages      *)
(* whose invariant in WebProofs or WebAnswersProofs says their types are   *)
(* done there; here are the others, by page, and what all pages keep       *)
(* together.                                                               *)
(*                                                                         *)
(* Where the types need more than that invariant they have a formula of    *)
(* their own (AdminTyped, SharingTyped ...), equivalent to TypeInv with    *)
(* it, so that a step is shown to keep it conjunct by conjunct.            *)
(***************************************************************************)
EXTENDS WebAnswersProofs

-------------------------------------------------------------------------------
(***************************************************************************)
(* MetricsView: v1 is the range, v3 the figures shown, v7 the point under  *)
(* the pointer, v8 the loads that are out.                                 *)
(***************************************************************************)
\* The mark of the pointer is a point of the series.
LEMMA MetricsMark ==
    ASSUME v7 \in {Null} \cup Nat
    PROVE  MetricsPage!Chart.mark \subseteq Nat
BY DEF MetricsPage!Chart

\* The types hold at the start.
LEMMA MetricsTypesInit == MetricsPage!Init => MetricsPage!TypeInv
<1> USE PageAssumptions DEF MetricsPage!MetricsAssumption
<1> SUFFICES ASSUME MetricsPage!Init PROVE MetricsPage!TypeInv
  OBVIOUS
<1>1. v1 \in MetricsRanges /\ v2 \in MetricsMetrics /\ v3 = Null /\ v7 = Null
  BY DEF MetricsPage!Init
<1>2. v8 \in [MetricsRanges -> 0 .. MetricsMaxTicks]
  BY DEF MetricsPage!Init
<1>3. v4 \in BOOLEAN /\ v5 \in BOOLEAN /\ v6 \in BOOLEAN
  BY Zenon DEF MetricsPage!Init
<1>4. MetricsPage!Status \in {"loading", "figures"}
  BY DEF MetricsPage!Status
<1> QED BY <1>1, <1>2, <1>3, <1>4, MetricsMark, Zenon
        DEF MetricsPage!TypeInv, MetricsPage!TypeOK

\* And whatever range is chosen, and however many answers are late.
LEMMA MetricsTypesStep ==
    MetricsPage!TypeInv /\ [MetricsPage!Next]_(MetricsPage!vars) => MetricsPage!TypeInv'
<1> USE PageAssumptions DEF MetricsPage!MetricsAssumption
<1> SUFFICES ASSUME MetricsPage!TypeInv, [MetricsPage!Next]_(MetricsPage!vars)
             PROVE  MetricsPage!TypeInv'
  OBVIOUS
<1> DEFINE Shown == v3 # Null => v3.range \in MetricsRanges /\ v3.points \in MetricsPoints[v3.range]
           Loads == v8 \in [MetricsRanges -> 0 .. MetricsMaxTicks]
           Choice == v1 \in MetricsRanges /\ v2 \in MetricsMetrics /\ v7 \in {Null} \cup Nat
           Flags == v4 \in BOOLEAN /\ v5 \in BOOLEAN /\ v6 \in BOOLEAN
<1>0. Shown /\ Loads /\ Choice /\ Flags
  BY Zenon DEF MetricsPage!TypeInv, MetricsPage!TypeOK
<1>goal. Shown' /\ Loads' /\ Choice' /\ Flags' => MetricsPage!TypeInv'
  <2>1. v7' \in {Null} \cup Nat => MetricsPage!Chart'.mark \subseteq Nat
    BY DEF MetricsPage!Chart
  <2>2. MetricsPage!Status' \in {"loading", "figures"}
    BY DEF MetricsPage!Status
  <2> QED BY <2>1, <2>2, Zenon DEF MetricsPage!TypeInv, MetricsPage!TypeOK
<1> HIDE DEF Shown, Loads, Choice, Flags
<1>1. ASSUME NEW r \in MetricsRanges, v8' = [v8 EXCEPT ![r] = @ + 1], v8[r] < MetricsMaxTicks
      PROVE  Loads'
  BY <1>0, <1>1 DEF Loads
<1>2. ASSUME NEW r \in MetricsRanges, v8' = [v8 EXCEPT ![r] = @ - 1], v8[r] > 0
      PROVE  Loads'
  BY <1>0, <1>2 DEF Loads
<1>3. ASSUME NEW r \in MetricsRanges, MetricsPage!setRange(r) PROVE MetricsPage!TypeInv'
  <2>1. Shown' /\ Choice' /\ Flags'
    BY <1>0, <1>3, Zenon DEF MetricsPage!setRange, MetricsPage!Load, Shown, Choice, Flags
  <2> QED BY <1>1, <1>3, <1>goal, <2>1, Zenon DEF MetricsPage!setRange, MetricsPage!Load
<1>4. CASE MetricsPage!Tick \/ MetricsPage!Refresh
  <2>1. Shown' /\ Choice' /\ Flags'
    BY <1>0, <1>4, Zenon DEF MetricsPage!Tick, MetricsPage!Refresh, MetricsPage!Load, Shown,
       Choice, Flags
  <2> QED BY <1>0, <1>1, <1>4, <1>goal, <2>1, Zenon
          DEF MetricsPage!Tick, MetricsPage!Refresh, MetricsPage!Load, Choice
<1>5. ASSUME NEW r \in MetricsRanges, MetricsPage!Loaded(r) PROVE MetricsPage!TypeInv'
  <2>1. Choice' /\ Flags'
    BY <1>0, <1>5, Zenon DEF MetricsPage!Loaded, Choice, Flags
  <2>2. Shown'
    BY <1>5 DEF MetricsPage!Loaded, Shown
  <2> QED BY <1>2, <1>5, <1>goal, <2>1, <2>2, Zenon DEF MetricsPage!Loaded
<1>6. ASSUME NEW r \in MetricsRanges, MetricsPage!LoadFails(r) PROVE MetricsPage!TypeInv'
  <2>1. Shown' /\ Choice' /\ Flags'
    BY <1>0, <1>6, Zenon DEF MetricsPage!LoadFails, Shown, Choice, Flags
  <2> QED BY <1>2, <1>6, <1>goal, <2>1, Zenon DEF MetricsPage!LoadFails
<1>7. ASSUME UNCHANGED <<v1, v3, v4, v5, v6, v8>>, v2' \in MetricsMetrics,
             v7' \in {Null} \cup Nat
      PROVE  MetricsPage!TypeInv'
  BY <1>0, <1>7, <1>goal, Zenon DEF Shown, Loads, Choice, Flags
<1>8. ASSUME NEW m \in MetricsMetrics, MetricsPage!setPicked(m) PROVE MetricsPage!TypeInv'
  BY <1>0, <1>7, <1>8, Zenon DEF MetricsPage!setPicked, MetricsPage!loadVars, Choice
<1>9. CASE MetricsPage!onMove
  <2>1. MetricsPage!series \in Nat
    BY <1>0 DEF MetricsPage!series, Shown
  <2>2. v7' \in {Null} \cup Nat
    BY <1>9, <2>1 DEF MetricsPage!onMove
  <2> QED BY <1>0, <1>7, <1>9, <2>2, Zenon DEF MetricsPage!onMove, MetricsPage!loadVars, Choice
<1>10. CASE UNCHANGED MetricsPage!vars
  BY <1>0, <1>7, <1>10, Zenon DEF MetricsPage!vars, MetricsPage!loadVars, Choice
<1> QED BY <1>3, <1>4, <1>5, <1>6, <1>8, <1>9, <1>10, Zenon DEF MetricsPage!Next

-------------------------------------------------------------------------------
(***************************************************************************)
(* RuntimeLogs: v1 is the pod, v2 what was read of it for the request that *)
(* is out, v3 and v4 the lines shown, v9 counts the requests.             *)
(***************************************************************************)
\* The types hold at the start.
LEMMA LogsTypesInit == Logs!Init => Logs!TypeOK
<1> USE PageAssumptions DEF Logs!LogsAssumption
<1> SUFFICES ASSUME Logs!Init PROVE Logs!TypeOK
  OBVIOUS
<1>1. v1 \in Logs!Pods /\ v2 \in Logs!Pods /\ v9 \in 1 .. LogsMaxLoads
  BY DEF Logs!Init
<1>2. v3 \in Logs!Content /\ v4 \in Logs!Content
  BY DEF Logs!Init, Logs!Content
<1>3. Logs!LogPane \in {"error", "loading", "no logs", "no match", "lines"}
  BY DEF Logs!LogPane
<1> QED BY <1>1, <1>2, <1>3 DEF Logs!TypeOK

\* And whatever the pod, the user and the server do.
LEMMA LogsTypesStep == Logs!TypeOK /\ [Logs!Next]_(Logs!vars) => Logs!TypeOK'
<1> USE PageAssumptions DEF Logs!LogsAssumption
<1> SUFFICES ASSUME Logs!TypeOK, [Logs!Next]_(Logs!vars) PROVE Logs!TypeOK'
  OBVIOUS
<1>0. /\ v1 \in Logs!Pods /\ v2 \in Logs!Pods /\ v9 \in 1 .. LogsMaxLoads
      /\ v3 \in Logs!Content /\ v4 \in Logs!Content
  BY Zenon DEF Logs!TypeOK
<1>1. v2.current \in Logs!Content /\ v2.previous \in Logs!Content /\ "none" \in Logs!Content
  BY <1>0 DEF Logs!Pods, Logs!Content
<1>2. v1' \in Logs!Pods /\ v2' \in Logs!Pods
  BY <1>0, Zenon DEF Logs!Next, Logs!vars, Logs!PodChanges, Logs!Load, Logs!Loaded,
     Logs!LoadedError, Logs!LoadFails, Logs!SetSource, Logs!SetLevel
<1>3. v3' \in Logs!Content /\ v4' \in Logs!Content
  BY <1>0, <1>1, Zenon DEF Logs!Next, Logs!vars, Logs!PodChanges, Logs!Load, Logs!Loaded,
     Logs!LoadedError, Logs!LoadFails, Logs!SetSource, Logs!SetLevel, Logs!shownVars
<1>4. v9' = v9 \/ (v9 < LogsMaxLoads /\ v9' = v9 + 1)
  BY Zenon DEF Logs!Next, Logs!vars, Logs!PodChanges, Logs!Load, Logs!Loaded,
     Logs!LoadedError, Logs!LoadFails, Logs!SetSource, Logs!SetLevel
<1>5. v9' \in 1 .. LogsMaxLoads
  BY <1>0, <1>4
<1>6. Logs!LogPane' \in {"error", "loading", "no logs", "no match", "lines"}
  BY DEF Logs!LogPane
<1> QED BY <1>2, <1>3, <1>5, <1>6 DEF Logs!TypeOK

-------------------------------------------------------------------------------
(***************************************************************************)
(* AdminRows: v2 is the app whose row is open, v3 the details, v4 the      *)
(* requests for them, v9 to v13 the tier, its field and what is saved.     *)
(***************************************************************************)
\* What is shown of a row or a node is one of the things that a page can show.
LEMMA RowsShown ==
    ASSUME v3 \in [RowsApps -> {Null, "stack", "error"}]
    PROVE  /\ \A a \in RowsApps :
                  Rows!AppRow(a).stack \in {"closed", "loading", "error", "stack"}
           /\ Rows!NodePods.loading => ~Rows!NodePods.table
<1> USE PageAssumptions DEF Rows!RowsAssumption
<1>1. ASSUME NEW a \in RowsApps PROVE Rows!Stack(a) \in {"loading", "error", "stack"}
  BY DEF Rows!Stack
<1>2. ASSUME NEW a \in RowsApps
      PROVE  Rows!AppRow(a).stack \in {"closed", "loading", "error", "stack"}
  BY <1>1 DEF Rows!AppRow
<1>3. Rows!NodePods.loading => ~Rows!NodePods.table
  BY DEF Rows!NodePods
<1> QED BY <1>2, <1>3

\* The types hold at the start.
LEMMA RowsTypesInit == Rows!Init => Rows!TypeInv
<1> USE PageAssumptions DEF Rows!RowsAssumption
<1> SUFFICES ASSUME Rows!Init PROVE Rows!TypeInv
  OBVIOUS
<1>1. v3 \in [RowsApps -> {Null, "stack", "error"}] /\ v4 \in [RowsApps -> 0 .. RowsMaxCalls]
  BY DEF Rows!Init
<1>2. v2 = Null /\ v9 \in Rows!Limits /\ v10 = v9 /\ v11 = v10 /\ v12 = {} /\ v13 = 0
  BY DEF Rows!Init
<1> QED BY <1>1, <1>2, RowsShown DEF Rows!TypeInv, Rows!TypeOK

\* A step leaves two of the three parts of the page alone.
LEMMA RowsTypesStep == Rows!TypeInv /\ [Rows!Next]_(Rows!vars) => Rows!TypeInv'
<1> USE PageAssumptions DEF Rows!RowsAssumption
<1> SUFFICES ASSUME Rows!TypeInv, [Rows!Next]_(Rows!vars) PROVE Rows!TypeInv'
  OBVIOUS
<1> DEFINE AppTypes == /\ v2 \in RowsApps \cup {Null} /\ v4 \in [RowsApps -> 0 .. RowsMaxCalls]
                       /\ v3 \in [RowsApps -> {Null, "stack", "error"}]
           TierTypes == /\ v9 \in Rows!Limits /\ v10 \in Rows!Limits
                        /\ v11 \in Rows!Limits \cup {0}
                        /\ v12 \subseteq Rows!Limits /\ v13 \in 0 .. RowsMaxCalls
<1>0. AppTypes /\ TierTypes
  BY DEF Rows!TypeInv, Rows!TypeOK
<1>goal. AppTypes' /\ TierTypes' => Rows!TypeInv'
  <2>1. (\A a \in RowsApps :
             Rows!AppRow(a).stack \in {"closed", "loading", "error", "stack"})'
        <=> \A a \in RowsApps :
                Rows!AppRow(a)'.stack \in {"closed", "loading", "error", "stack"}
    OBVIOUS
  <2>2. ASSUME AppTypes', NEW a \in RowsApps
        PROVE  Rows!AppRow(a)'.stack \in {"closed", "loading", "error", "stack"}
    BY <2>2 DEF Rows!AppRow, Rows!Stack
  <2>3. Rows!NodePods'.loading => ~Rows!NodePods'.table
    BY DEF Rows!NodePods
  <2> QED BY <2>1, <2>2, <2>3 DEF Rows!TypeInv, Rows!TypeOK
<1>1. ASSUME NEW a \in RowsApps, Rows!toggle(a) PROVE AppTypes' /\ TierTypes'
  BY <1>0, <1>1 DEF Rows!toggle, Rows!tierVars
<1>2. ASSUME NEW a \in RowsApps, NEW d \in {"stack", "error"}, Rows!DetailsCame(a, d)
      PROVE  AppTypes' /\ TierTypes'
  BY <1>0, <1>2 DEF Rows!DetailsCame, Rows!tierVars
<1>3. CASE Rows!LeaveApps
  BY <1>0, <1>3, <1>goal DEF Rows!LeaveApps, Rows!tierVars
<1>4. CASE Rows!toggleNode \/ \E error \in BOOLEAN : Rows!PodsCame(error)
  <2>1. UNCHANGED <<Rows!appVars, Rows!tierVars>>
    BY <1>4, Zenon DEF Rows!toggleNode, Rows!PodsCame
  <2> QED BY <1>0, <2>1, <1>goal DEF Rows!appVars, Rows!tierVars
<1>5. ASSUME \/ \E v \in Rows!Limits \cup {0} : Rows!Type(v)
             \/ Rows!commit \/ Rows!TiersListed \/ Rows!TiersFail \/ Rows!TiersAsked
             \/ \E n \in Rows!Limits : Rows!Saved(n) \/ Rows!SaveFails(n)
      PROVE  AppTypes' /\ TierTypes'
  <2>1. UNCHANGED Rows!appVars
    BY <1>5, Zenon DEF Rows!Type, Rows!commit, Rows!TiersListed, Rows!TiersFail,
       Rows!TiersAsked, Rows!Saved, Rows!SaveFails, Rows!tierRest
  <2>2. AppTypes'
    BY <1>0, <2>1 DEF Rows!appVars
  <2>3. v9' \in Rows!Limits /\ v10' \in Rows!Limits /\ v11' \in Rows!Limits \cup {0}
    BY <1>0, <1>5 DEF Rows!Type, Rows!commit, Rows!TiersListed, Rows!TiersFail,
       Rows!TiersAsked, Rows!Saved, Rows!SaveFails
  <2>4. v12' \subseteq Rows!Limits
    BY <1>0, <1>5 DEF Rows!Type, Rows!commit, Rows!TiersListed, Rows!TiersFail,
       Rows!TiersAsked, Rows!Saved, Rows!SaveFails
  <2>5. v13' \in 0 .. RowsMaxCalls
    BY <1>0, <1>5 DEF Rows!Type, Rows!commit, Rows!TiersListed, Rows!TiersFail,
       Rows!TiersAsked, Rows!Saved, Rows!SaveFails
  <2> QED BY <2>2, <2>3, <2>4, <2>5
<1>6. CASE UNCHANGED Rows!vars
  BY <1>0, <1>6, <1>goal DEF Rows!vars, Rows!appVars, Rows!tierVars
<1> HIDE DEF AppTypes, TierTypes
<1> QED BY <1>1, <1>2, <1>3, <1>4, <1>5, <1>6, <1>goal, Zenon DEF Rows!Next

\* A set of numbers has a least one.
LEMMA LeastExists ==
    ASSUME NEW S \in SUBSET Nat, S # {}
    PROVE  \E x \in S : \A y \in S : x <= y
<1>1. PICK x \in S : \A y \in S : ~ (<<y, x>> \in OpToRel(<, Nat))
  BY NatLessThanWellFounded, WFMin
<1>2. ASSUME NEW y \in S PROVE x <= y
  <2>1. ~ (y < x)
    BY <1>1, Zenon DEF OpToRel
  <2> QED BY <2>1
<1> QED BY <1>2

\* What is found in the rows is a declaration, or nothing.
LEMMA FrontendFinds ==
    ASSUME NEW s \in Seq(Frontend!Row), NEW slots
    PROVE  Frontend!find(s, slots) \in FrontendDecls \cup {Null}
<1> DEFINE at == {i \in DOMAIN s : s[i].slot \in slots}
<1>1. CASE at = {}
  BY <1>1, Zenon DEF Frontend!find
<1>2. CASE at # {}
  <2>1. PICK x \in at : \A y \in at : x <= y
    <3>1. at \in SUBSET Nat
      OBVIOUS
    <3> HIDE DEF at
    <3> QED BY <1>2, <3>1, LeastExists
  <2> DEFINE first == CHOOSE i \in at : \A j \in at : i <= j
  <2>2. first \in at
    <3> HIDE DEF at
    <3> QED BY <2>1, Zenon
  <2>3. s[first] \in Frontend!Row
    <3> HIDE DEF first
    <3> QED BY <2>2
  <2>4. s[first].decl \in FrontendDecls \cup {Null}
    <3> HIDE DEF first
    <3> QED BY <2>3 DEF Frontend!Row
  <2> QED BY <1>2, <2>4, Zenon DEF Frontend!find
<1> QED BY <1>1, <1>2

\* The rows that are put in front.
LEMMA FrontendRows ==
    /\ Frontend!SiteRow \in Frontend!Row /\ Frontend!EnvRow \in Frontend!Row
    /\ \A d \in FrontendDecls : Frontend!ServerRow(d) \in Frontend!Row
BY DEF Frontend!Row, Frontend!Slots, Frontend!SiteRow, Frontend!EnvRow, Frontend!ServerRow

\* The types.
FrontendTyped ==
    /\ v1 \in Seq(Frontend!Row) /\ v6 \in Seq(Frontend!Row)
    /\ v2 \in FrontendDecls \cup {Null} /\ v8 \in FrontendDecls \cup {Null}
    /\ v14 \in FrontendDecls \cup {Null} /\ v5 \in {"no", "sent", "back"}
    /\ v10 \in {"", "site", "typed"} /\ v11 \in {"", "site", "api", "typed", "wrong"}
    /\ v17 \in 0 .. FrontendMaxOthers

\* Rail and Button have no other values than theirs, so this is the type invariant.
LEMMA FrontendTypes == Frontend!TypeInv <=> FrontendTyped
<1>1. Frontend!Rail \in {"name", "name and status", "no app", "loading"}
  BY Zenon DEF Frontend!Rail
<1>2. Frontend!Button \in {"on", "off", "submitting"}
  BY Zenon DEF Frontend!Button
<1> QED BY <1>1, <1>2, Zenon DEF Frontend!TypeInv, Frontend!TypeOK, FrontendTyped

\* And the same a step later.
LEMMA FrontendTypesKept == FrontendTyped' => Frontend!TypeInv'
BY FrontendTypes, PTL

\* They hold at the start.
LEMMA FrontendTypesInit == Frontend!Init => Frontend!TypeInv
<1> SUFFICES ASSUME Frontend!Init PROVE FrontendTyped
  BY FrontendTypes
<1>1. v1 \in Seq(Frontend!Row)
  BY FrontendInit, Zenon DEF Frontend!FormInv, Frontend!Init
<1>2. v2 \in FrontendDecls \cup {Null}
  BY <1>1, FrontendFinds, Zenon DEF Frontend!Init, Frontend!newestServer
<1>3. v6 \in Seq(Frontend!Row) /\ v17 \in 0 .. FrontendMaxOthers
  <2>1. v6 = <<>> /\ v17 = 0 /\ FrontendMaxOthers \in Nat
    BY PageAssumptions, Zenon DEF Frontend!Init, Frontend!FrontendAssumption
  <2> QED BY <2>1
<1> QED BY <1>1, <1>2, <1>3, Zenon DEF Frontend!Init, FrontendTyped

\* Each step of the page, and of others, keeps the types.
LEMMA FrontendTypesStep ==
    Frontend!TypeInv /\ [Frontend!Next]_(Frontend!vars) => Frontend!TypeInv'
<1> SUFFICES ASSUME FrontendTyped, [Frontend!Next]_(Frontend!vars) PROVE FrontendTyped'
  BY FrontendTypes, FrontendTypesKept
<1> USE DEF Frontend!formRest
<1>0. FrontendTyped
  OBVIOUS
<1>a. v17 \in Nat /\ (v17 < FrontendMaxOthers => v17 + 1 \in 0 .. FrontendMaxOthers)
  <2>1. v17 \in 0 .. FrontendMaxOthers /\ FrontendMaxOthers \in Nat
    BY PageAssumptions, Zenon DEF FrontendTyped, Frontend!FrontendAssumption
  <2> QED BY <2>1
<1>b. ASSUME NEW r \in Frontend!Row, NEW s \in Seq(Frontend!Row)
      PROVE  <<r>> \o s \in Seq(Frontend!Row)
  OBVIOUS
<1>1. ASSUME NEW d \in FrontendDecls, Frontend!OthersDeploy(d) PROVE FrontendTyped'
  <2>1. v1' \in Seq(Frontend!Row)
    BY <1>1, <1>b, FrontendRows, Zenon DEF Frontend!OthersDeploy, FrontendTyped
  <2> QED BY <1>1, <1>a, <2>1, Zenon DEF Frontend!OthersDeploy, Frontend!formVars, FrontendTyped
<1>2. CASE Frontend!OthersRemove
  <2>1. v1' \in Seq(Frontend!Row)
    BY <1>2, <1>b, FrontendRows, Zenon DEF Frontend!OthersRemove, FrontendTyped
  <2> QED BY <1>2, <1>a, <2>1, Zenon DEF Frontend!OthersRemove, Frontend!formVars, FrontendTyped
<1>3. CASE Frontend!ListRead
  BY <1>3, Zenon DEF Frontend!ListRead, FrontendTyped
<1>4. CASE Frontend!ListAnswered
  <2>1. v8' \in FrontendDecls \cup {Null}
    BY <1>4, FrontendFinds, Zenon DEF Frontend!ListAnswered, Frontend!newestServer, FrontendTyped
  <2>2. v10' \in {v10, "site"} /\ v11' \in {v11, "site", "api"}
    BY <1>4, Zenon DEF Frontend!ListAnswered
  <2> QED BY <1>4, <2>1, <2>2, Zenon DEF Frontend!ListAnswered, FrontendTyped
<1>5. CASE Frontend!ListFails
  BY <1>5, Zenon DEF Frontend!ListFails, FrontendTyped
<1>6. ASSUME NEW v \in {"", "typed"}, Frontend!TypeRepo(v) PROVE FrontendTyped'
  BY <1>6, Zenon DEF Frontend!TypeRepo, FrontendTyped
<1>7. ASSUME NEW v \in {"typed", "wrong"}, Frontend!EditEnv(v) PROVE FrontendTyped'
  BY <1>7, Zenon DEF Frontend!EditEnv, FrontendTyped
<1>8. CASE Frontend!handleSubmit
  <2>1. v14' \in {v8, v14}
    BY <1>8, Zenon DEF Frontend!handleSubmit
  <2> QED BY <1>8, <2>1, Zenon DEF Frontend!handleSubmit, FrontendTyped
<1>9. CASE Frontend!Accepted
  <2>1. v1' \in Seq(Frontend!Row)
    <3>1. CASE v14 = Null
      BY <1>9, <1>b, <3>1, FrontendRows, Zenon DEF Frontend!Accepted, FrontendTyped
    <3>2. CASE v14 # Null
      <4>1. <<Frontend!ServerRow(v14)>> \o v1 \in Seq(Frontend!Row)
        BY <1>b, <3>2, FrontendRows, Zenon DEF FrontendTyped
      <4> QED BY <1>9, <1>b, <3>2, <4>1, FrontendRows, Zenon DEF Frontend!Accepted
    <3> QED BY <3>1, <3>2
  <2> QED BY <1>9, <2>1, Zenon DEF Frontend!Accepted, FrontendTyped
<1>10. CASE Frontend!Refused \/ Frontend!Cancel
  BY <1>10, Zenon DEF Frontend!Refused, Frontend!Cancel, FrontendTyped
<1>11. CASE UNCHANGED Frontend!vars
  BY <1>11, Zenon DEF Frontend!vars, Frontend!formVars, FrontendTyped
<1> QED BY <1>1, <1>2, <1>3, <1>4, <1>5, <1>6, <1>7, <1>8, <1>9, <1>10, <1>11, Zenon
        DEF Frontend!Next

\* The types follow from it.
LEMMA HistoryTypes == History!HistoryInv => History!TypeOK
<1> SUFFICES ASSUME History!HistoryInv PROVE History!TypeOK
  OBVIOUS
<1>0. History!RowsInv /\ History!DetailInv /\ History!RollbackInv
  BY DEF History!HistoryInv
<1>1. /\ {v1, v2} \subseteq Seq(History!Row) /\ v5 \in DOMAIN v2 /\ v4 \in 0 .. HistoryMaxBuilds
      /\ v7.at \in {"off", "wait", "sent", "back"}
  BY <1>0, Zenon DEF History!RowsInv, History!DetailInv
<1>2. v13 \subseteq [of : 1 .. HistoryMaxBuilds, mine : BOOLEAN]
  BY <1>0, Zenon DEF History!RollbackInv
<1>3. \A n \in DOMAIN v2 : History!BuildRow(n).icon \in {"ok", "bad", "grey", "spin"}
  BY DEF History!BuildRow
<1>4. History!Pane.body \in {"summary", "logs"}
  <2>1. History!active \in {"summary", "logs"}
    BY Zenon DEF History!active, History!tabs
  <2> HIDE DEF History!active
  <2> QED BY <2>1 DEF History!Pane
<1>5. History!Pane.card \in BOOLEAN
  <2>1. (v6.ai # Null) \in BOOLEAN
    BY Zenon
  <2>2. ASSUME NEW x, NEW y, NEW z PROVE [body |-> x, card |-> y, button |-> z].card = y
    OBVIOUS
  <2> QED BY <2>1, <2>2, Zenon DEF History!Pane
<1> QED BY <1>1, <1>2, <1>3, <1>4, <1>5, Zenon DEF History!TypeOK

\* The types of AdminPage: v2 counts what was done, v4 is the tab, v9 the builds, v10 what
\* administrators did, v12 are the requests that are out.
AdminCalls == [kind : {"all", "actions", "records"}, got : {Null} \cup 0 .. AdminMaxLoad]
AdminTyped ==
    /\ v1 \in 0 .. AdminMaxLoad /\ v2 \in 0 .. AdminMaxLoad
    /\ v4 \in Admin!Tabs /\ v5 \in 0 .. AdminMaxTurns
    /\ v9 \in {Null, "rows", "none"} /\ v10 \in {Null} \cup 0 .. AdminMaxLoad
    /\ v11 \in BOOLEAN
    /\ IsFiniteSet(v12) /\ v12 \subseteq AdminCalls /\ Cardinality(v12) <= AdminMaxCalls

\* What the module assumes of its constants.
LEMMA AdminAssumed ==
    /\ AdminMaxLoad \in Nat \ {0} /\ AdminMaxTurns \in Nat /\ AdminMaxCalls \in Nat \ {0}
BY PageAssumptions DEF Admin!AdminAssumption

\* The module counts as this one does.
LEMMA AdminCounts ==
    ASSUME NEW S
    PROVE  /\ Admin!Cardinality(S) = Cardinality(S)
           /\ Admin!IsFiniteSet(S) <=> IsFiniteSet(S)
<1>1. Admin!Cardinality(S) = Cardinality(S)
  BY Zenon DEF Admin!Cardinality, Cardinality
<1>2. Admin!IsFiniteSet(S) <=> IsFiniteSet(S)
  BY Zenon DEF Admin!IsFiniteSet, IsFiniteSet
<1> QED BY <1>1, <1>2, Zenon

\* With what is said of the polls they are the invariant.
LEMMA AdminTypes == Admin!NodesInv /\ AdminTyped <=> Admin!TypeInv
<1>1. ASSUME Admin!NodesInv, v1 \in 0 .. AdminMaxLoad PROVE v6 \in {Null} \cup 0 .. AdminMaxLoad
  BY <1>1, AdminAssumed DEF Admin!NodesInv
<1>2. v4 \in Admin!Tabs => Admin!Screen.tab \in Admin!Tabs \cup {"none"}
  BY DEF Admin!Screen
<1>3. Admin!Screen.builds \in {"closed", Admin!BuildRecordsTable}
  BY DEF Admin!Screen, Admin!BuildRecordsTable
<1>4. Admin!AdminActions \in {"loading", "none", "rows"}
  BY DEF Admin!AdminActions
<1>5. ASSUME Admin!NodesInv, AdminTyped PROVE Admin!TypeInv
  <2>1. Admin!TypeOK
    BY <1>1, <1>2, <1>3, <1>4, <1>5, AdminCounts, Zenon DEF Admin!TypeOK, AdminTyped
  <2> QED BY <1>5, <2>1, AdminCounts, Zenon DEF Admin!TypeInv, AdminTyped, AdminCalls
<1>6. ASSUME Admin!TypeInv PROVE Admin!NodesInv /\ AdminTyped
  <2>1. Admin!TypeOK /\ Admin!NodesInv
    BY <1>6, Zenon DEF Admin!TypeInv
  <2>2. AdminTyped
    BY <1>6, <2>1, AdminCounts, Zenon
    DEF Admin!TypeInv, Admin!TypeOK, AdminTyped, AdminCalls
  <2> QED BY <2>1, <2>2, Zenon
<1> QED BY <1>5, <1>6, Zenon

\* And the same a step later.
LEMMA AdminTypesNext == Admin!NodesInv' /\ AdminTyped' => Admin!TypeInv'
<1> DEFINE Both == Admin!NodesInv /\ AdminTyped
<1>1. Both => Admin!TypeInv
  BY AdminTypes
<1> HIDE DEF Both
<1>2. Both' => Admin!TypeInv'
  BY <1>1, PTL
<1> QED BY <1>2 DEF Both

\* A request more, or one that is replaced or answered, leaves them few enough.
LEMMA AdminSends ==
    ASSUME AdminTyped, NEW kind \in {"all", "actions", "records"}, Admin!Send(kind)
    PROVE  /\ IsFiniteSet(v12') /\ v12' \subseteq AdminCalls
           /\ Cardinality(v12') <= AdminMaxCalls
<1> DEFINE call == [kind |-> kind, got |-> Null]
<1>1. v12' = v12 \cup {call} /\ Cardinality(v12) < AdminMaxCalls /\ IsFiniteSet(v12)
  BY AdminCounts, Zenon DEF Admin!Send, AdminTyped
<1>2. call \in AdminCalls /\ v12 \subseteq AdminCalls
  <2>1. v12 \subseteq AdminCalls
    BY Zenon DEF AdminTyped
  <2> QED BY <2>1 DEF AdminCalls
<1> HIDE DEF call
<1>3. /\ IsFiniteSet(v12 \cup {call}) /\ Cardinality(v12) \in Nat
      /\ Cardinality(v12 \cup {call}) \in {Cardinality(v12), Cardinality(v12) + 1}
  BY <1>1, FS_AddElement, FS_CardinalityType
<1>4. Cardinality(v12 \cup {call}) <= AdminMaxCalls
  BY <1>1, <1>3, AdminAssumed
<1> QED BY <1>1, <1>2, <1>3, <1>4

\* They hold at the start.
LEMMA AdminTypesInit == Admin!Init => Admin!TypeInv
<1> SUFFICES ASSUME Admin!Init PROVE AdminTyped
  BY AdminInit, AdminTypes
<1> DEFINE call == [kind |-> "all", got |-> Null]
<1>1. /\ v1 = 1 /\ v2 = 0 /\ v5 = 0 /\ v9 = Null /\ v10 = Null /\ v11 = FALSE
      /\ v4 = "overview" /\ (v12 = {call} \/ v12 = {})
  BY Zenon DEF Admin!Init
<1>2. call \in AdminCalls
  BY DEF AdminCalls
<1> HIDE DEF call
<1>3. IsFiniteSet(v12) /\ Cardinality(v12) <= 1 /\ v12 \subseteq AdminCalls
  BY <1>1, <1>2, FS_EmptySet, FS_Singleton
<1>4. v1 \in 0 .. AdminMaxLoad /\ v2 \in 0 .. AdminMaxLoad /\ v5 \in 0 .. AdminMaxTurns
      /\ Cardinality(v12) <= AdminMaxCalls
  BY <1>1, <1>3, AdminAssumed, FS_CardinalityType
<1>5. v4 \in Admin!Tabs
  BY <1>1 DEF Admin!Tabs
<1> QED BY <1>1, <1>3, <1>4, <1>5, Zenon DEF AdminTyped

\* Each step keeps the types.
LEMMA AdminTypesStep == Admin!TypeInv /\ [Admin!Next]_(Admin!vars) => Admin!TypeInv'
<1> SUFFICES ASSUME Admin!TypeInv, [Admin!Next]_(Admin!vars) PROVE AdminTyped'
  BY AdminTypes, AdminStep, AdminTypesNext
<1> USE DEF Admin!pollRest, Admin!listRest
<1>0. AdminTyped
  BY AdminTypes
<1>a. /\ v1 < AdminMaxLoad => v1 + 1 \in 0 .. AdminMaxLoad
      /\ v2 < AdminMaxLoad => v2 + 1 \in 0 .. AdminMaxLoad
      /\ v5 < AdminMaxTurns => v5 + 1 \in 0 .. AdminMaxTurns
  <2>1. v1 \in 0 .. AdminMaxLoad /\ v2 \in 0 .. AdminMaxLoad /\ v5 \in 0 .. AdminMaxTurns
    BY <1>0, Zenon DEF AdminTyped
  <2> QED BY <2>1, AdminAssumed
<1>1. ASSUME NEW t \in Admin!Tabs, Admin!setTab(t) PROVE AdminTyped'
  <2>1. CASE Admin!Send("actions")
    BY <1>0, <1>1, <1>a, <2>1, AdminSends, Zenon DEF Admin!setTab, AdminTyped
  <2>2. CASE v12' = v12
    BY <1>0, <1>1, <1>a, <2>2, Zenon DEF Admin!setTab, AdminTyped
  <2> QED BY <1>1, <2>1, <2>2, Zenon DEF Admin!setTab
<1>2. CASE Admin!LoadChanges
  BY <1>0, <1>2, <1>a, Zenon DEF Admin!LoadChanges, AdminTyped
<1>3. CASE Admin!toggleBuilds
  <2>1. CASE Admin!Send("records")
    BY <1>0, <1>3, <2>1, AdminSends, Zenon DEF Admin!toggleBuilds, AdminTyped
  <2>2. CASE v12' = v12
    BY <1>0, <1>3, <2>2, Zenon DEF Admin!toggleBuilds, AdminTyped
  <2> QED BY <1>3, <2>1, <2>2, Zenon DEF Admin!toggleBuilds
<1>4. CASE Admin!ActionDone
  <2>1. CASE v10' = Null /\ Admin!Send("all")
    BY <1>0, <1>4, <1>a, <2>1, AdminSends, Zenon DEF Admin!ActionDone, AdminTyped
  <2>2. CASE v10' = v10 /\ v12' = v12
    BY <1>0, <1>4, <1>a, <2>2, Zenon DEF Admin!ActionDone, AdminTyped
  <2> QED BY <1>4, <2>1, <2>2, Zenon DEF Admin!ActionDone
<1>5. ASSUME NEW p \in v7, Admin!PollRead(p) \/ Admin!PollAnswered(p) \/ Admin!PollAgain(p)
      PROVE  AdminTyped'
  BY <1>0, <1>5, Zenon DEF Admin!PollRead, Admin!PollAnswered, Admin!PollAgain, AdminTyped
\* A request that has got something is a request, and one fewer are few enough.
<1>b. ASSUME NEW c \in v12
      PROVE  /\ c \in AdminCalls /\ [c EXCEPT !.got = v2] \in AdminCalls
             /\ IsFiniteSet(v12 \ {c}) /\ Cardinality(v12 \ {c}) = Cardinality(v12) - 1
             /\ Cardinality(v12) \in Nat /\ v12 \ {c} \subseteq AdminCalls
             /\ Cardinality(v12) <= AdminMaxCalls
  <2>1. /\ IsFiniteSet(v12) /\ v12 \subseteq AdminCalls /\ v2 \in 0 .. AdminMaxLoad
        /\ Cardinality(v12) <= AdminMaxCalls
    BY <1>0, Zenon DEF AdminTyped
  <2>2. c \in AdminCalls /\ [c EXCEPT !.got = v2] \in AdminCalls
    BY <2>1 DEF AdminCalls
  <2>3. /\ IsFiniteSet(v12 \ {c}) /\ Cardinality(v12 \ {c}) = Cardinality(v12) - 1
        /\ Cardinality(v12) \in Nat
    BY <2>1, FS_RemoveElement, FS_CardinalityType
  <2> QED BY <2>1, <2>2, <2>3
<1>6. ASSUME NEW c \in v12, Admin!Read(c) PROVE AdminTyped'
  <2> DEFINE new == [c EXCEPT !.got = v2]
  <2>1. v12' = (v12 \ {c}) \cup {new} /\ new \in AdminCalls
    BY <1>6, <1>b, Zenon DEF Admin!Read
  <2> HIDE DEF new
  <2>2. /\ IsFiniteSet(v12') /\ Cardinality(v12') <= AdminMaxCalls
    <3>1. /\ IsFiniteSet((v12 \ {c}) \cup {new}) /\ Cardinality(v12 \ {c}) \in Nat
          /\ Cardinality((v12 \ {c}) \cup {new}) \in
                 {Cardinality(v12 \ {c}), Cardinality(v12 \ {c}) + 1}
      BY <1>b, FS_AddElement, FS_CardinalityType
    <3>2. Cardinality((v12 \ {c}) \cup {new}) <= AdminMaxCalls
      <4> DEFINE n == Cardinality(v12)
                 m == Cardinality(v12 \ {c})
                 k == Cardinality((v12 \ {c}) \cup {new})
      <4>1. n \in Nat /\ n <= AdminMaxCalls /\ m = n - 1 /\ k \in {m, m + 1}
        BY <1>b, <3>1
      <4> HIDE DEF n, m, k
      <4>2. k <= AdminMaxCalls
        BY <4>1, AdminAssumed
      <4> QED BY <4>2 DEF k
    <3> QED BY <2>1, <3>1, <3>2, Zenon
  <2>3. v12' \subseteq AdminCalls
    BY <1>b, <2>1
  <2> QED BY <1>0, <1>6, <2>2, <2>3, Zenon DEF Admin!Read, AdminTyped
<1>7. ASSUME NEW c \in v12, Admin!Answered(c) \/ Admin!Fails(c) PROVE AdminTyped'
  <2>1. v12' = v12 \ {c} /\ v1' = v1 /\ v2' = v2 /\ v4' = v4 /\ v5' = v5
    BY <1>7, Zenon DEF Admin!Answered, Admin!Fails
  <2>2. IsFiniteSet(v12') /\ v12' \subseteq AdminCalls /\ Cardinality(v12') <= AdminMaxCalls
    <3> DEFINE n == Cardinality(v12)
               m == Cardinality(v12 \ {c})
    <3>1. n \in Nat /\ n <= AdminMaxCalls /\ m = n - 1
      BY <1>b
    <3> HIDE DEF n, m
    <3>2. m <= AdminMaxCalls
      BY <3>1, AdminAssumed
    <3>3. Cardinality(v12 \ {c}) <= AdminMaxCalls
      BY <3>2 DEF m
    <3> QED BY <1>b, <2>1, <3>3, Zenon
  <2>3. v9' \in {Null, "rows", "none"} /\ v11' \in BOOLEAN
    <3>1. v9' \in {v9, "rows", "none"}
      BY <1>7, Zenon DEF Admin!Answered, Admin!Fails
    <3>2. v11' \in BOOLEAN
      BY <1>7, Zenon DEF Admin!Answered, Admin!Fails
    <3> QED BY <1>0, <3>1, <3>2, Zenon DEF AdminTyped
  <2>4. v10' \in {Null} \cup 0 .. AdminMaxLoad
    <3>1. c.got \in {Null} \cup 0 .. AdminMaxLoad
      BY <1>b DEF AdminCalls
    <3>2. v10' \in {v10, c.got, 0}
      BY <1>7, Zenon DEF Admin!Answered, Admin!Fails
    <3>3. 0 \in 0 .. AdminMaxLoad
      BY AdminAssumed
    <3> QED BY <1>0, <3>1, <3>2, <3>3, Zenon DEF AdminTyped
  <2> QED BY <1>0, <2>1, <2>2, <2>3, <2>4, Zenon DEF AdminTyped
<1>8. CASE UNCHANGED Admin!vars
  BY <1>0, <1>8, Zenon DEF Admin!vars, AdminTyped
<1> QED BY <1>1, <1>2, <1>3, <1>4, <1>5, <1>6, <1>7, <1>8, Zenon DEF Admin!Next

\* The types of Sharing: v3 and v5 are the apps the dashboard shows, v8 what the tab shows,
\* v9 the reads of the tab that are out, v12 counts what the owner does.
SharingGot == SharingPage!Share \cup {Null}
SharingReads == [got : SharingGot, mine : BOOLEAN]
OneLive(ticks) ==
    /\ \E t \in ticks : \A u \in ticks : u.live <=> u = t
    /\ \A t \in ticks : t.at = "wait" => t.live
SharingTyped ==
    /\ v8 \in SharingGot /\ v3 \subseteq SharingApps /\ v5 \subseteq SharingApps
    /\ v12 \in 0 .. SharingMaxChanges /\ OneLive(v2)
    /\ v9 \subseteq SharingReads

\* The module counts as this one does.
LEMMA SharingCounts == ASSUME NEW S PROVE SharingPage!Cardinality(S) = Cardinality(S)
BY Zenon DEF SharingPage!Cardinality, Cardinality

\* With the rest of the invariant they are TypeInv.
LEMMA SharingTypes == SharingPage!AnsweredInv /\ SharingTyped <=> SharingPage!TypeInv
<1>1. ASSUME SharingPage!AnsweredInv, SharingTyped PROVE SharingPage!TypeInv
  <2>1. PICK t \in v2 : \A u \in v2 : u.live <=> u = t
    BY <1>1, Zenon DEF SharingTyped, OneLive
  <2>2. {u \in v2 : u.live} = {t}
    BY <2>1
  <2>3. SharingPage!Cardinality({u \in v2 : u.live}) = 1
    BY <2>2, SharingCounts, FS_Singleton, Zenon
  <2>4. SharingPage!ShareRow \in {"loading", "none", "invited", "member"}
    BY <1>1 DEF SharingTyped, SharingGot, SharingPage!ShareRow, SharingPage!Share,
       SharingPage!NoShare
  <2>5. \A a \in SharingApps : SharingPage!SlotRow(a) => ~SharingPage!FirstDeploy
    BY DEF SharingPage!SlotRow, SharingPage!FirstDeploy
  <2>6. SharingPage!FirstDeploy \in BOOLEAN /\ SharingPage!InviteButtons \in {"on", "off"}
    BY DEF SharingPage!FirstDeploy, SharingPage!InviteButtons
  <2>7. v1 \in [SharingApps -> SharingPage!Share] /\ v2 \subseteq SharingPage!Tick
    BY <1>1, SharingHold, Zenon DEF AnsweredOver, TicksWithout
  <2>8. {v3, v4, v5} \subseteq SUBSET SharingApps
    BY <1>1, SharingHold DEF SharingTyped
  <2>9. v8 \in SharingPage!Share \cup {Null} /\ v12 \in 0 .. SharingMaxChanges
    BY <1>1, Zenon DEF SharingTyped, SharingGot
  <2>10. SharingPage!TypeOK
    BY <2>3, <2>4, <2>5, <2>6, <2>7, <2>8, <2>9, Zenon DEF SharingPage!TypeOK
  <2> QED BY <1>1, <2>10, Zenon DEF SharingPage!TypeInv, SharingTyped, OneLive, SharingGot,
       SharingReads
<1>2. ASSUME SharingPage!TypeInv PROVE SharingPage!AnsweredInv /\ SharingTyped
  <2>1. SharingPage!TypeOK /\ SharingPage!AnsweredInv
    BY <1>2, Zenon DEF SharingPage!TypeInv
  <2>2. v3 \subseteq SharingApps /\ v5 \subseteq SharingApps
    <3>1. {v3, v4, v5} \subseteq SUBSET SharingApps
      BY <2>1, Zenon DEF SharingPage!TypeOK
    <3> QED BY <3>1
  <2>3. SharingTyped
    BY <1>2, <2>1, <2>2, Zenon DEF SharingPage!TypeInv, SharingPage!TypeOK, SharingTyped,
       OneLive, SharingGot, SharingReads
  <2> QED BY <2>1, <2>3, Zenon
<1> QED BY <1>1, <1>2, Zenon

\* And the same a step later.
LEMMA SharingTypesNext ==
    SharingPage!AnsweredInv' /\ SharingTyped' => SharingPage!TypeInv'
<1> DEFINE Both == SharingPage!AnsweredInv /\ SharingTyped
<1>1. Both => SharingPage!TypeInv
  BY SharingTypes
<1> HIDE DEF Both
<1>2. Both' => SharingPage!TypeInv'
  BY <1>1, PTL
<1> QED BY <1>2 DEF Both

\* A tick is replaced by one that counts as it did, and waits only if it counts.
LEMMA LiveReplaced ==
    ASSUME NEW ticks \in SUBSET SharingPage!Tick, OneLive(ticks), NEW t \in ticks,
           NEW r \in SharingPage!Tick, r.live = t.live, r.at = "wait" => r.live
    PROVE  OneLive((ticks \ {t}) \cup {r})
<1>1. PICK one \in ticks : \A u \in ticks : u.live <=> u = one
  BY DEF OneLive
<1>2. CASE t = one
  BY <1>1, <1>2 DEF OneLive
<1>3. CASE t # one
  <2>1. one \in (ticks \ {t}) \cup {r} /\ ~r.live
    BY <1>1, <1>3
  <2>2. \A u \in (ticks \ {t}) \cup {r} : u.live <=> u = one
    BY <1>1, <2>1
  <2> QED BY <2>1, <2>2 DEF OneLive
<1> QED BY <1>2, <1>3

\* One that does not count is dropped.
LEMMA LiveDropped ==
    ASSUME NEW ticks, OneLive(ticks), NEW t \in ticks, ~t.live
    PROVE  OneLive(ticks \ {t})
BY DEF OneLive

\* They hold at the start.
LEMMA SharingTypesInit == SharingPage!Init => SharingPage!TypeInv
<1> SUFFICES ASSUME SharingPage!Init PROVE SharingTyped
  BY SharingInit, SharingTypes
<1>1. /\ v2 = {SharingPage!NewTick} /\ v3 = {} /\ v5 = {} /\ v8 = Null
      /\ v9 = {SharingPage!NewLoad} /\ v12 = 0
  BY Zenon DEF SharingPage!Init
<1>2. SharingPage!NewLoad \in SharingReads
  BY DEF SharingPage!NewLoad, SharingReads, SharingGot
<1>3. OneLive(v2)
  BY <1>1, TickIsNew DEF OneLive
<1>4. v12 \in 0 .. SharingMaxChanges
  BY <1>1, SharingAssumed DEF SharingPage!SharingAssumption
<1> QED BY <1>1, <1>2, <1>3, <1>4 DEF SharingTyped, SharingGot

\* Each step keeps the types.
LEMMA SharingTypesStep ==
    SharingPage!TypeInv /\ [SharingPage!Next]_(SharingPage!vars) => SharingPage!TypeInv'
<1> SUFFICES ASSUME SharingPage!TypeInv, [SharingPage!Next]_(SharingPage!vars)
             PROVE  SharingTyped'
  BY SharingTypes, SharingStep, SharingTypesNext
<1> USE DEF SharingPage!boardVars, SharingPage!tabVars
<1>0. /\ SharingTyped /\ AnsweredOver(v1, v7) /\ v2 \subseteq SharingPage!Tick
      /\ v4 \subseteq SharingApps
  BY SharingTypes, SharingHold, Zenon DEF TicksWithout
\* Steps of the dashboard change the tick, and the apps that are shown.
<1>board. ASSUME OneLive(v2'), v3' \subseteq SharingApps, v5' \subseteq SharingApps,
                 v8' = v8, v9' = v9, v12' = v12
          PROVE  SharingTyped'
  BY <1>0, <1>board, Zenon DEF SharingTyped
\* Steps of the tab leave the dashboard alone.
<1>tab. ASSUME v2' = v2, v3' = v3, v5' = v5, v8' \in SharingGot,
               v9' \subseteq SharingReads, v12' \in 0 .. SharingMaxChanges
        PROVE  SharingTyped'
  BY <1>0, <1>tab, Zenon DEF SharingTyped
<1>same. ASSUME v2' = v2, v3' = v3, v5' = v5, v8' = v8, v9' = v9, v12' = v12
         PROVE  SharingTyped'
  BY <1>0, <1>same, Zenon DEF SharingTyped
<1>a. /\ OneLive(v2) /\ v3 \subseteq SharingApps /\ v5 \subseteq SharingApps
      /\ v8 \in SharingGot /\ v12 \in 0 .. SharingMaxChanges
      /\ v9 \subseteq SharingReads
  BY <1>0, Zenon DEF SharingTyped
<1>1. ASSUME NEW t \in v2, SharingPage!TickRead(t) PROVE SharingTyped'
  <2> DEFINE r == [t EXCEPT !.at = "back", !.apps = SharingPage!Member,
                            !.invites = SharingPage!Invited]
  <2>1. /\ v2' = (v2 \ {t}) \cup {r} /\ v3' = v3 /\ v5' = v5 /\ v8' = v8 /\ v9' = v9
        /\ v12' = v12
    BY <1>1, Zenon DEF SharingPage!TickRead
  <2>2. r \in SharingPage!Tick /\ r.live = t.live /\ r.at = "back"
    <3>1. SharingPage!Member \in SUBSET SharingApps /\ SharingPage!Invited \in SUBSET SharingApps
      BY DEF SharingPage!Member, SharingPage!Invited
    <3> QED BY <1>0, <3>1 DEF SharingPage!Tick
  <2> HIDE DEF r
  <2>3. OneLive((v2 \ {t}) \cup {r})
    BY <1>0, <1>a, <2>2, LiveReplaced
  <2> QED BY <1>a, <1>board, <2>1, <2>3, Zenon
<1>2. ASSUME NEW t \in v2, SharingPage!TickAnswered(t) \/ SharingPage!TickFails(t)
      PROVE  SharingTyped'
  <2>1. v8' = v8 /\ v9' = v9 /\ v12' = v12
    BY <1>2, Zenon DEF SharingPage!TickAnswered, SharingPage!TickFails
  <2>2. v3' \subseteq SharingApps /\ v5' \subseteq SharingApps
    <3>1. v3' \in {v3, t.apps} /\ v5' \in {v5, {}, t.apps}
      BY <1>2, Zenon DEF SharingPage!TickAnswered, SharingPage!TickFails
    <3>2. t.apps \subseteq SharingApps
      BY <1>0 DEF SharingPage!Tick
    <3> QED BY <1>a, <3>1, <3>2
  <2>3. CASE t.live
    <3> DEFINE r == [t EXCEPT !.at = "wait", !.apps = {}, !.invites = {}]
    <3>1. v2' = (v2 \ {t}) \cup {r}
      BY <1>2, <2>3, Zenon DEF SharingPage!TickAnswered, SharingPage!TickFails
    <3>2. r \in SharingPage!Tick /\ r.live = t.live
      BY <1>0 DEF SharingPage!Tick
    <3> HIDE DEF r
    <3>3. OneLive((v2 \ {t}) \cup {r})
      BY <1>0, <1>a, <2>3, <3>2, LiveReplaced
    <3> QED BY <1>board, <2>1, <2>2, <3>1, <3>3, Zenon
  <2>4. CASE ~t.live
    <3>1. v2' = v2 \ {t}
      BY <1>2, <2>4 DEF SharingPage!TickAnswered, SharingPage!TickFails
    <3>2. OneLive(v2 \ {t})
      BY <1>a, <2>4, LiveDropped
    <3> QED BY <1>board, <2>1, <2>2, <3>1, <3>2, Zenon
  <2> QED BY <2>3, <2>4
<1>3. ASSUME NEW t \in v2, SharingPage!TickAgain(t) PROVE SharingTyped'
  <2>1. /\ v2' = (v2 \ {t}) \cup {SharingPage!NewTick} /\ v3' = v3 /\ v5' = v5 /\ v8' = v8
        /\ v9' = v9 /\ v12' = v12 /\ t.at = "wait"
    BY <1>3, Zenon DEF SharingPage!TickAgain
  <2>2. t.live /\ t \in SharingPage!Tick
    BY <1>0, <1>a, <2>1, Zenon DEF OneLive
  <2>3. SharingPage!NewTick.live = t.live
    BY <2>2 DEF SharingPage!Tick, SharingPage!NewTick
  <2>4. OneLive((v2 \ {t}) \cup {SharingPage!NewTick})
    BY <1>0, <1>a, <2>2, <2>3, TickIsNew, LiveReplaced
  <2> QED BY <1>a, <1>board, <2>1, <2>4, Zenon
<1>4. ASSUME NEW a \in v4, NEW accept \in BOOLEAN,
             SharingPage!answer(a, accept) \/ SharingPage!AnswerTaken
      PROVE  SharingTyped'
  BY <1>4, <1>same, Zenon DEF SharingPage!answer, SharingPage!AnswerTaken
<1>5. CASE SharingPage!AnswerTaken
  BY <1>5, <1>same, Zenon DEF SharingPage!AnswerTaken
<1>6. CASE SharingPage!AnswerDone
  <2>1. /\ SharingPage!Reload /\ v3' = v3 /\ v5' = v5 /\ v8' = v8 /\ v9' = v9 /\ v12' = v12
    BY <1>6, Zenon DEF SharingPage!AnswerDone
  <2>2. SharingPage!NewTick \in v2'
    BY <2>1, Zenon DEF SharingPage!Reload
  <2>3. ASSUME NEW u \in v2', u # SharingPage!NewTick PROVE ~u.live /\ u.at # "wait"
    <3>1. PICK t \in v2 : t.at # "wait" /\ u = [t EXCEPT !.live = FALSE]
      BY <2>1, <2>3 DEF SharingPage!Reload
    <3> QED BY <1>0, <3>1 DEF SharingPage!Tick
  <2>4. SharingPage!NewTick.live /\ SharingPage!NewTick.at = "sent"
    BY DEF SharingPage!NewTick
  <2>5. OneLive(v2')
    BY <2>2, <2>3, <2>4 DEF OneLive
  <2> QED BY <1>a, <1>board, <2>1, <2>5, Zenon
<1>7. ASSUME NEW l \in v9,
             \/ SharingPage!LoadRead(l) \/ SharingPage!LoadAnswered(l)
             \/ SharingPage!LoadFails(l)
      PROVE  SharingTyped'
  <2>1. /\ v2' = v2 /\ v3' = v3 /\ v5' = v5 /\ v12' = v12 /\ v8' \in {v8, l.got}
    BY <1>7, Zenon DEF SharingPage!LoadRead, SharingPage!LoadAnswered, SharingPage!LoadFails
  <2>2. v1[SharingOwn] \in SharingGot /\ l \in SharingReads
    BY <1>0, <1>a, SharingAssumed DEF SharingPage!SharingAssumption, AnsweredOver, SharingGot
  <2>3. l.got \in SharingGot /\ [l EXCEPT !.got = v1[SharingOwn]] \in SharingReads
    BY <2>2 DEF SharingReads
  <2>4. v9' \subseteq v9 \cup {[l EXCEPT !.got = v1[SharingOwn]]}
    BY <1>7 DEF SharingPage!LoadRead, SharingPage!LoadAnswered, SharingPage!LoadFails
  <2>5. v9' \subseteq SharingReads /\ v8' \in SharingGot
    BY <1>a, <2>1, <2>3, <2>4
  <2> QED BY <1>a, <1>tab, <2>1, <2>5, Zenon
<1>8. ASSUME NEW what, NEW role, SharingPage!run(what, role) PROVE SharingTyped'
  <2>1. /\ v2' = v2 /\ v3' = v3 /\ v5' = v5 /\ v8' = v8 /\ v9' = v9
        /\ v12 < SharingMaxChanges /\ v12' = v12 + 1
    BY <1>8, Zenon DEF SharingPage!run
  <2>2. v12' \in 0 .. SharingMaxChanges
    BY <1>a, <2>1, SharingAssumed DEF SharingPage!SharingAssumption
  <2> QED BY <1>a, <1>tab, <2>1, <2>2, Zenon
<1>9. CASE SharingPage!Done
  <2>1. /\ v2' = v2 /\ v3' = v3 /\ v5' = v5 /\ v8' = v8 /\ v12' = v12
        /\ v9' = v9 \cup {[SharingPage!NewLoad EXCEPT !.mine = TRUE]}
    BY <1>9, Zenon DEF SharingPage!Done
  <2>2. [SharingPage!NewLoad EXCEPT !.mine = TRUE] \in SharingReads
    BY DEF SharingPage!NewLoad, SharingReads, SharingGot
  <2>3. v9' \subseteq SharingReads
    BY <1>a, <2>1, <2>2
  <2> QED BY <1>a, <1>tab, <2>1, <2>3, Zenon
<1>10. CASE SharingPage!Refused
  BY <1>10, <1>same, Zenon DEF SharingPage!Refused
<1>11. CASE UNCHANGED SharingPage!vars
  BY <1>11, <1>same, Zenon DEF SharingPage!vars
<1>12. CASE \E r \in SharingRoles : SharingPage!onInvite(r) \/ SharingPage!onRole(r)
  BY <1>8, <1>12, Zenon DEF SharingPage!onInvite, SharingPage!onRole
<1>13. CASE SharingPage!onAction
  BY <1>8, <1>13, Zenon DEF SharingPage!onAction
<1> QED BY <1>1, <1>2, <1>3, <1>4, <1>5, <1>6, <1>7, <1>9, <1>10, <1>11, <1>12, <1>13,
           Zenon DEF SharingPage!Next

\* What the page says of a build, or without one, is always one of a few things.
LEMMA ProgressSays ==
    /\ Progress!AiDiagnosis(v3) \in {"none", "diagnosis", "pending", "missing"}
    /\ \A n \in 1 .. 4 : Progress!StepMark(n) \in {"fail", "reached", "ahead"}
    /\ Progress!Foot.button \in {"redeploy", "workspace", "disabled"}
    /\ Progress!LogBody \in {"log", "no builds", "loading"}
<1>1. Progress!AiDiagnosis(v3) \in {"none", "diagnosis", "pending", "missing"}
  BY DEF Progress!AiDiagnosis
<1>2. \A n \in 1 .. 4 : Progress!StepMark(n) \in {"fail", "reached", "ahead"}
  BY DEF Progress!StepMark
<1>3. Progress!Foot.button \in {"redeploy", "workspace", "disabled"}
  BY DEF Progress!Foot
<1>4. Progress!LogBody \in {"log", "no builds", "loading"}
  BY DEF Progress!LogBody
<1> QED BY <1>1, <1>2, <1>3, <1>4, Zenon

\* The types are the invariant and what is said of the two requests.
ProgressTyped == Len(v1) \in 1 .. ProgressMaxBuilds /\ {v6, v7} \subseteq Progress!Request

\* So the page's whole invariant is the one proved before and these two.
LEMMA ProgressTypes == Progress!ProgressInv /\ ProgressTyped <=> Progress!TypeInv
<1>1. Progress!ProgressInv => /\ v1 \in Seq(Progress!Row) /\ v3 \in Progress!Build \cup {Null}
                              /\ v10 \in 0 .. 4 /\ v9 \in 0 .. 4
  <2> SUFFICES ASSUME Progress!ProgressInv
               PROVE  /\ v1 \in Seq(Progress!Row) /\ v3 \in Progress!Build \cup {Null}
                      /\ v10 \in 0 .. 4 /\ v9 \in 0 .. 4
    OBVIOUS
  <2>1. v1 \in Seq(Progress!Row) /\ v3 \in Progress!Build \cup {Null}
    BY Zenon DEF Progress!ProgressInv, Progress!ReadInv, Progress!Read
  <2>2. v10 \in 0 .. 4 /\ v9 \in {0, v10}
    BY Zenon DEF Progress!ProgressInv, Progress!StageInv
  <2> QED BY <2>1, <2>2
<1> QED BY <1>1, ProgressSays, Zenon DEF Progress!TypeInv, Progress!TypeOK, ProgressTyped

\* And the same a step later.
LEMMA ProgressTypesNext == Progress!ProgressInv' /\ ProgressTyped' => Progress!TypeInv'
<1> DEFINE Both == Progress!ProgressInv /\ ProgressTyped
<1>1. Both => Progress!TypeInv
  BY ProgressTypes
<1> HIDE DEF Both
<1>2. Both' => Progress!TypeInv'
  BY <1>1, PTL
<1> QED BY <1>2 DEF Both

\* They hold at the start.
LEMMA ProgressTypesInit == Progress!Init => Progress!TypeInv
<1> SUFFICES ASSUME Progress!Init PROVE ProgressTyped
  BY ProgressInit, ProgressTypes
<1> USE ProgressAssumed DEF Progress!ProgressAssumption
<1>1. v6 = Progress!Sent /\ v7 = Progress!Ended
  BY Zenon DEF Progress!Init
<1>2. Progress!Sent \in Progress!Request /\ Progress!Ended \in Progress!Request
  BY DEF Progress!Sent, Progress!Ended, Progress!Request
<1>3. Len(v1) = 1
  BY DEF Progress!Init
<1> QED BY <1>1, <1>2, <1>3 DEF ProgressTyped

\* Each step keeps the types: the list of builds grows, and what is read of one is a build.
LEMMA ProgressTypesStep ==
    Progress!TypeInv /\ [Progress!Next]_(Progress!vars) => Progress!TypeInv'
<1> SUFFICES ASSUME Progress!TypeInv, [Progress!Next]_(Progress!vars) PROVE ProgressTyped'
  BY ProgressTypes, ProgressStep, ProgressTypesNext
<1> USE ProgressAssumed DEF Progress!ProgressAssumption
<1>0. Progress!ProgressInv /\ ProgressTyped
  BY ProgressTypes
<1>a. v1 \in Seq(Progress!Row) /\ Len(v1) <= ProgressMaxBuilds /\ v6 \in Progress!Request
         /\ v7 \in Progress!Request /\ Len(v1) \in 1 .. ProgressMaxBuilds
  BY <1>0, Zenon DEF Progress!ProgressInv, Progress!ReadInv, ProgressTyped
<1>b. /\ Progress!Sent \in Progress!Request /\ Progress!Ended \in Progress!Request
      /\ Progress!Wait \in Progress!Request
  BY DEF Progress!Sent, Progress!Ended, Progress!Wait, Progress!Request
<1>c. ASSUME NEW b \in Progress!Build \cup {Null}
      PROVE  [at |-> "back", got |-> b] \in Progress!Request
  BY DEF Progress!Request
<1>goal. v1' = v1 /\ v6' \in Progress!Request /\ v7' \in Progress!Request => ProgressTyped'
  BY <1>a, Zenon DEF ProgressTyped
<1>1. ASSUME \/ \E n \in DOMAIN v1 : Progress!Step(n) \/ Progress!Diagnosed(n)
             \/ \E k \in Progress!Kinds : Progress!NewBuild(k)
      PROVE  ProgressTyped'
  <2>1. Len(v1') \in 1 .. ProgressMaxBuilds
    <3>1. v1' \in Seq(Progress!Row) /\ Len(v1') <= ProgressMaxBuilds /\ ProgressOn(v1, v1')
      BY <1>1, <1>a, ProgressServer, Zenon
    <3> QED BY <1>a, <3>1 DEF ProgressOn
  <2>2. v6' = v6 /\ v7' = v7
    BY <1>1, Zenon DEF Progress!Step, Progress!Diagnosed, Progress!NewBuild, Progress!pageVars
  <2> QED BY <1>a, <2>1, <2>2, Zenon DEF ProgressTyped
<1>2. CASE Progress!CapPasses
  BY <1>2, <1>a, <1>goal, Zenon DEF Progress!CapPasses, Progress!pageVars
<1>3. CASE Progress!ListRead
  <2>1. Progress!Target \in Progress!Build \cup {Null}
    BY <1>a, ProgressTarget, Zenon DEF ProgressRead
  <2>2. [at |-> "back", got |-> Progress!Target] \in Progress!Request
    BY <1>c, <2>1, Zenon
  <2> QED BY <1>3, <1>a, <1>goal, <2>2, Zenon DEF Progress!ListRead, Progress!pageVars
<1>4. CASE Progress!ListAnswered
  <2>1. v7' \in {v7, Progress!Wait, Progress!Ended}
    BY <1>4, ProgressSetBuild, Zenon DEF Progress!ListAnswered
  <2> QED BY <1>4, <1>a, <1>b, <1>goal, <2>1, Zenon DEF Progress!ListAnswered
<1>5. CASE Progress!ListFails
  BY <1>5, <1>a, <1>b, <1>goal, Zenon DEF Progress!ListFails
<1>6. CASE Progress!ListAgain
  BY <1>6, <1>a, <1>b, <1>goal, Zenon DEF Progress!ListAgain, Progress!pageVars
<1>7. CASE Progress!LogAgain \/ Progress!LogFails
  BY <1>7, <1>a, <1>b, <1>goal, Zenon DEF Progress!LogAgain, Progress!LogFails, Progress!logRest
<1>8. CASE Progress!LogRead
  <2>1. v3 # Null /\ v3.id \in DOMAIN v1
    <3>1. v7.at = "sent"
      BY <1>8, Zenon DEF Progress!LogRead
    <3>2. v7.at # "ended"
      BY <3>1
    <3> QED BY <1>0, <3>2, Zenon DEF Progress!ProgressInv, Progress!ReadInv, Progress!Read
  <2>2. Progress!At(v3.id) \in Progress!Build
    BY <1>a, <2>1, ProgressAt, Zenon DEF ProgressRead
  <2>3. [at |-> "back", got |-> Progress!At(v3.id)] \in Progress!Request
    BY <1>c, <2>2, Zenon
  <2> QED BY <1>8, <1>a, <1>goal, <2>3, Zenon DEF Progress!LogRead, Progress!logRest
<1>9. CASE Progress!LogAnswered
  <2>1. v7' \in {Progress!Wait, Progress!Ended}
    BY <1>9, ProgressSetBuild, Zenon DEF Progress!LogAnswered
  <2> QED BY <1>9, <1>a, <1>b, <1>goal, <2>1, Zenon DEF Progress!LogAnswered
<1>10. CASE UNCHANGED Progress!vars
  BY <1>10, <1>a, <1>goal, Zenon DEF Progress!vars, Progress!pageVars
<1> QED BY <1>1, <1>2, <1>3, <1>4, <1>5, <1>6, <1>7, <1>8, <1>9, <1>10, Zenon DEF Progress!Next

-------------------------------------------------------------------------------
(***************************************************************************)
(* The types of RepoCheck: v2 is the list of the connection, v5 what the   *)
(* check says, v7 the repositories asked for, v10 counts the changes.      *)
(***************************************************************************)
\* What the module assumes of its constants.
LEMMA CheckAssumed ==
    /\ CheckConnected \subseteq CheckRepos /\ CheckMaxEdits \in Nat
BY PageAssumptions, Zenon DEF Check!CheckAssumption

CheckVerdicts == {"", "idle", "invalid", "checking", "ok", "notfound", "error"}
CheckTyped ==
    /\ v1 \in CheckRepos \cup {Check!NoRepo, "bad"} /\ v2 \subseteq CheckConnected
    /\ v4 \in [list : {"none", "has", "lacks"}, of : CheckRepos \cup {Check!NoRepo}]
    /\ v5 \in CheckVerdicts
    /\ v6 \subseteq {"check", "branches"} /\ v7 \subseteq CheckRepos
    /\ v10 \in 0 .. CheckMaxEdits
    /\ v6 # {} \/ v8 => v1 \in CheckRepos

\* They are the invariant: the line under the URL is empty for "idle".
LEMMA CheckTypes == Check!TypeInv <=> CheckTyped
<1>1. Check!CheckLine \in {"", "invalid", "checking", "ok", "notfound", "error"}
        <=> v5 \in CheckVerdicts
  BY Zenon DEF Check!CheckLine, CheckVerdicts
<1> QED BY <1>1, Zenon DEF Check!TypeInv, Check!TypeOK, CheckTyped

\* And the same a step later.
LEMMA CheckTypesKept == CheckTyped' => Check!TypeInv'
BY CheckTypes, PTL

\* They hold at the start.
LEMMA CheckTypesInit == Check!Init => Check!TypeInv
<1> SUFFICES ASSUME Check!Init PROVE CheckTyped
  BY CheckTypes
<1>1. v4 = Check!NoBranches
  BY Zenon DEF Check!Init
<1>2. v4 \in [list : {"none", "has", "lacks"}, of : CheckRepos \cup {Check!NoRepo}]
  <2> HIDE DEF Check!NoRepo
  <2> QED BY <1>1 DEF Check!NoBranches
<1>3. v1 = Check!NoRepo /\ v2 = {} /\ v5 = "idle" /\ v6 = {} /\ v7 = {} /\ v10 = 0 /\ ~v8
  BY Zenon DEF Check!Init
<1>4. v10 \in 0 .. CheckMaxEdits
  BY <1>3, CheckAssumed
<1> QED BY <1>2, <1>3, <1>4, Zenon DEF CheckTyped, CheckVerdicts

\* The verdict of the check is one of those it knows, and it waits only to ask for
\* what may be a repository.
LEMMA CheckSays ==
    /\ Check!Verdict \in CheckVerdicts
    /\ Check!CheckTimer \subseteq {"check", "branches"}
    /\ v1' \in CheckRepos \cup {Check!NoRepo, "bad"} /\ Check!CheckTimer # {}
           => v1' \in CheckRepos
<1>1. Check!Verdict \in CheckVerdicts
  BY Zenon DEF Check!Verdict, CheckVerdicts
<1>2. Check!CheckTimer \subseteq {"check", "branches"}
  BY Zenon DEF Check!CheckTimer
<1>3. v1' \in CheckRepos \cup {Check!NoRepo, "bad"} /\ Check!CheckTimer # {}
        => v1' \in CheckRepos
  <2>1. v1' = Check!NoRepo \/ v1' = "bad" => Check!Verdict # "checking"
    BY Zenon DEF Check!Verdict
  <2> QED BY <2>1, Zenon DEF Check!CheckTimer
<1> QED BY <1>1, <1>2, <1>3

\* Each step keeps the types.
LEMMA CheckTypesStep == Check!TypeInv /\ [Check!Next]_(Check!vars) => Check!TypeInv'
<1> SUFFICES ASSUME CheckTyped, [Check!Next]_(Check!vars) PROVE CheckTyped'
  BY CheckTypes, CheckTypesKept
<1>0. /\ v1 \in CheckRepos \cup {Check!NoRepo, "bad"} /\ v2 \subseteq CheckConnected
      /\ v4 \in [list : {"none", "has", "lacks"}, of : CheckRepos \cup {Check!NoRepo}]
      /\ v5 \in CheckVerdicts
      /\ v6 \subseteq {"check", "branches"} /\ v7 \subseteq CheckRepos
      /\ v10 \in 0 .. CheckMaxEdits
      /\ v6 # {} \/ v8 => v1 \in CheckRepos
  BY Zenon DEF CheckTyped
<1>1. ASSUME NEW r \in CheckRepos \cup {Check!NoRepo, "bad"}, Check!SetRepo(r)
      PROVE  CheckTyped'
  <2>1. v10' \in 0 .. CheckMaxEdits
    <3>1. v10 < CheckMaxEdits /\ v10' = v10 + 1
      BY <1>1, Zenon DEF Check!SetRepo
    <3> QED BY <1>0, <3>1, CheckAssumed
  <2>2. v4' \in [list : {"none", "has", "lacks"}, of : CheckRepos \cup {Check!NoRepo}]
    <3>1. v4' \in {v4, Check!NoBranches}
      BY <1>1, Zenon DEF Check!SetRepo
    <3>2. Check!NoBranches \in
              [list : {"none", "has", "lacks"}, of : CheckRepos \cup {Check!NoRepo}]
      <4> HIDE DEF Check!NoRepo
      <4> QED BY DEF Check!NoBranches
    <3> QED BY <1>0, <3>1, <3>2, Zenon
  <2>3. v6' \subseteq {"check", "branches"}
    <3>1. v6' = Check!CheckTimer \cup (IF r \in CheckRepos THEN {"branches"} ELSE {})
      BY <1>1, Zenon DEF Check!SetRepo
    <3> QED BY <3>1, CheckSays, Zenon
  <2>4. v6' # {} \/ v8' => v1' \in CheckRepos
    <3>1. v1' = r /\ ~v8' /\ v6' = Check!CheckTimer \cup (IF r \in CheckRepos THEN {"branches"} ELSE {})
      BY <1>1, Zenon DEF Check!SetRepo
    <3> QED BY <3>1, CheckSays, Zenon
  <2> QED BY <1>0, <1>1, <2>1, <2>2, <2>3, <2>4, CheckSays, Zenon DEF Check!SetRepo, CheckTyped
<1>2. ASSUME NEW r \in CheckRepos \cup {Check!NoRepo, "bad"}, Check!TypeRepo(r)
      PROVE  CheckTyped'
  BY <1>1, <1>2, Zenon DEF Check!TypeRepo
<1>3. ASSUME NEW r \in v2, Check!PickRepo(r) PROVE CheckTyped'
  BY <1>0, <1>1, <1>3, CheckAssumed, Zenon DEF Check!PickRepo
<1>4. CASE Check!ToggleRepoList
  BY <1>0, <1>4, Zenon DEF Check!ToggleRepoList, CheckTyped
<1>5. CASE Check!ReposListed
  <2>1. v6' = (v6 \ {"check"}) \cup Check!CheckTimer
    BY <1>5, Zenon DEF Check!ReposListed
  <2>2. v6' \subseteq {"check", "branches"}
    BY <1>0, <2>1, CheckSays, Zenon
  <2>3. v2' \subseteq CheckConnected
    BY <1>5, Zenon DEF Check!ReposListed
  <2>4. v6' # {} \/ v8' => v1' \in CheckRepos
    <3>1. v1' = v1 /\ v8' = v8
      BY <1>5, Zenon DEF Check!ReposListed
    <3> QED BY <1>0, <2>1, <3>1, CheckSays, Zenon
  <2> QED BY <1>0, <1>5, <2>2, <2>3, <2>4, CheckSays, Zenon DEF Check!ReposListed, CheckTyped
<1>6. ASSUME NEW q \in v6, Check!Elapse(q) PROVE CheckTyped'
  <2>1. v7' \subseteq CheckRepos
    <3>1. CASE q = "check"
      BY <1>0, <1>6, <3>1, Zenon DEF Check!Elapse
    <3>2. CASE q # "check"
      BY <1>0, <1>6, <3>2, Zenon DEF Check!Elapse
    <3> QED BY <3>1, <3>2
  <2>2. v1 \in CheckRepos
    BY <1>0, Zenon
  <2> QED BY <1>0, <1>6, <2>1, <2>2, Zenon DEF Check!Elapse, CheckTyped
<1>7. ASSUME NEW r \in v7, Check!Checked(r) PROVE CheckTyped'
  BY <1>0, <1>7, Zenon DEF Check!Checked, CheckTyped, CheckVerdicts
<1>8. CASE Check!BranchesListed
  <2>1. /\ v1' = v1 /\ v2' = v2 /\ v7' = v7 /\ v10' = v10 /\ v8 /\ v5' = Check!Verdict
        /\ v6' = (v6 \ {"check"}) \cup Check!CheckTimer
    BY <1>8, Zenon DEF Check!BranchesListed
  <2>2. v4' \in [list : {"none", "has", "lacks"}, of : CheckRepos \cup {Check!NoRepo}]
    <3>1. PICK l \in {"none", "has", "lacks"} : v4' = [list |-> l, of |-> v1]
      BY <1>8, Zenon DEF Check!BranchesListed
    <3> HIDE DEF Check!NoRepo
    <3> QED BY <1>0, <2>1, <3>1
  <2>3. v6' \subseteq {"check", "branches"}
    BY <1>0, <2>1, CheckSays, Zenon
  <2> QED BY <1>0, <2>1, <2>2, <2>3, CheckSays, Zenon DEF CheckTyped
<1>9. CASE UNCHANGED Check!vars
  BY <1>0, <1>9, Zenon DEF Check!vars, CheckTyped
<1> QED BY <1>2, <1>3, <1>4, <1>5, <1>6, <1>7, <1>8, <1>9, Zenon DEF Check!Next

-------------------------------------------------------------------------------
(***************************************************************************)
(* The types of WizardForm: v2 are the settings saved, v5 is the step, v7  *)
(* the repository of the site, v9 the port, v13 the question of the guess. *)
(***************************************************************************)
\* The types of what does not change, of the form, and of the rest.
WizardTyped ==
    /\ v2 \in [runtime : WizardRuntimes \cup {"none"}, site : BOOLEAN]
    /\ v6 \in WizardRepos \cup {Wizard!NoRepo} /\ v7 \in {Wizard!NoRepo, WizardSavedRepo}
    /\ v8 \in WizardRuntimes \cup {"none"} /\ v9 \in WizardRuntimes \cup {"own"}
    /\ v5 \in 1 .. 3 /\ v13 \in {"no", "pause", "sent"} /\ v16 \in 0 .. WizardMaxEdits

\* They are the invariant: the line under the runtime is always one of seven.
LEMMA WizardTypes == Wizard!TypeInv <=> WizardTyped
<1>1. Wizard!RuntimeNote \in
          {"none", "looking", "blocked", "warned", "choose", "matches", "offer"}
  <2> HIDE DEF Wizard!unsupported, Wizard!runtimeBlocked
  <2> QED BY DEF Wizard!RuntimeNote
<1> QED BY <1>1, Zenon DEF Wizard!TypeInv, Wizard!TypeOK, WizardTyped

\* And the same a step later.
LEMMA WizardTypesKept == WizardTyped' => Wizard!TypeInv'
BY WizardTypes, PTL

\* They hold at the start.
LEMMA WizardTypesInit == Wizard!Init => Wizard!TypeInv
<1> SUFFICES ASSUME Wizard!Init PROVE WizardTyped
  BY WizardTypes
<1>1. WizardFirstRuntime \in WizardRuntimes /\ WizardMaxEdits \in Nat
  BY WizardAssumed, Zenon DEF Wizard!FormAssumption
<1>2. v5 = 1 /\ v16 = 0
  BY Zenon DEF Wizard!Init
<1>3. v5 \in 1 .. 3 /\ v16 \in 0 .. WizardMaxEdits
  BY <1>1, <1>2
<1> QED BY <1>1, <1>3, Zenon DEF Wizard!Init, WizardTyped

\* The effect of a runtime leaves a runtime and a port.
LEMMA WizardSets ==
    ASSUME NEW r \in WizardRuntimes \cup {"none"}, NEW own \in WizardRuntimes \cup {"own"},
           Wizard!SetRuntime(r, own)
    PROVE  v8' \in WizardRuntimes \cup {"none"} /\ v9' \in WizardRuntimes \cup {"own"}
BY Zenon DEF Wizard!SetRuntime

\* Each step keeps the types.
LEMMA WizardTypesStep == Wizard!TypeInv /\ [Wizard!Next]_(Wizard!vars) => Wizard!TypeInv'
<1> SUFFICES ASSUME Wizard!TypeInv, [Wizard!Next]_(Wizard!vars)
             PROVE  WizardTyped'
  BY WizardTypesKept
<1> USE DEF Wizard!appVars, Wizard!formVars, Wizard!askVars
<1>0. WizardTyped
  BY WizardTypes
<1>a. /\ WizardSavedRepo \in WizardRepos /\ WizardMaxEdits \in Nat
      /\ v2.runtime \in WizardRuntimes \cup {"none"} /\ v2.site \in BOOLEAN
  <2>1. WizardSavedRepo \in WizardRepos /\ WizardMaxEdits \in Nat
    BY WizardAssumed, Zenon DEF Wizard!FormAssumption
  <2> QED BY <1>0, <2>1 DEF WizardTyped
<1>1. ASSUME NEW r \in WizardRepos \cup {Wizard!NoRepo}, Wizard!TypeRepo(r) PROVE WizardTyped'
  <2>1. v16' \in 0 .. WizardMaxEdits
    <3>1. v16 < WizardMaxEdits /\ v16' = v16 + 1
      BY <1>1, Zenon DEF Wizard!TypeRepo
    <3> QED BY <1>0, <1>a, <3>1 DEF WizardTyped
  <2>2. v13' \in {"no", "pause", "sent"}
    BY <1>1, Zenon DEF Wizard!TypeRepo, Wizard!Ask
  <2> QED BY <1>0, <1>1, <2>1, <2>2, Zenon DEF WizardTyped, Wizard!TypeRepo
<1>2. CASE Wizard!Restored
  <2>1. v2' = v2 /\ v5' = v5 /\ v16' = v16
    BY <1>2, Zenon DEF Wizard!Restored
  <2>2. CASE v2.runtime = "none"
    <3>1. Wizard!SetRuntime(IF v2.site THEN "none" ELSE v8, v9)
      BY <1>2, <2>2, Zenon DEF Wizard!Restored
    <3>2. (IF v2.site THEN "none" ELSE v8) \in WizardRuntimes \cup {"none"}
      BY <1>0, Zenon DEF WizardTyped
    <3>3. v8' \in WizardRuntimes \cup {"none"} /\ v9' \in WizardRuntimes \cup {"own"}
      BY <1>0, <3>1, <3>2, WizardSets, Zenon DEF WizardTyped
    <3>4. v6' = v6 /\ v13' = v13 /\ v7' \in {Wizard!NoRepo, WizardSavedRepo}
      BY <1>2, <2>2, Zenon DEF Wizard!Restored
    <3> QED BY <1>0, <2>1, <3>3, <3>4, Zenon DEF WizardTyped
  <2>3. CASE v2.runtime # "none"
    <3>1. Wizard!SetRuntime(v2.runtime, "own")
      BY <1>2, <2>3, Zenon DEF Wizard!Restored
    <3>2. v8' \in WizardRuntimes \cup {"none"} /\ v9' \in WizardRuntimes \cup {"own"}
      BY <1>a, <3>1, WizardSets, Zenon
    <3>3. v6' = WizardSavedRepo /\ v7' = v7 /\ v13' \in {v13, "no", "pause"}
      BY <1>2, <2>3, Zenon DEF Wizard!Restored, Wizard!Ask
    <3> QED BY <1>0, <1>a, <2>1, <3>2, <3>3, Zenon DEF WizardTyped
  <2> QED BY <2>2, <2>3
<1>3. CASE Wizard!RestoreFails
  BY <1>0, <1>3, Zenon DEF Wizard!RestoreFails, WizardTyped
<1>4. CASE Wizard!Elapse
  BY <1>0, <1>4, Zenon DEF Wizard!Elapse, WizardTyped
<1>5. CASE Wizard!Detected
  <2>1. v8' \in WizardRuntimes \cup {"none"} /\ v9' \in WizardRuntimes \cup {"own"}
    <3>1. CASE v8' = v8 /\ v9' = v9
      BY <1>0, <3>1, Zenon DEF WizardTyped
    <3>2. CASE WizardGuess[v6] \in WizardRuntimes /\ Wizard!SetRuntime(WizardGuess[v6], v9)
      BY <1>0, <3>2, WizardSets, Zenon DEF WizardTyped
    <3> QED BY <1>5, <3>1, <3>2, Zenon DEF Wizard!Detected
  <2> QED BY <1>0, <1>5, <2>1, Zenon DEF Wizard!Detected, WizardTyped
<1>6. CASE Wizard!DetectFails
  BY <1>0, <1>6, Zenon DEF Wizard!DetectFails, WizardTyped
<1>7. ASSUME NEW r \in WizardRuntimes, Wizard!pickRuntime(r) PROVE WizardTyped'
  <2>1. v8' \in WizardRuntimes \cup {"none"} /\ v9' \in WizardRuntimes \cup {"own"}
    BY <1>0, <1>7, WizardSets, Zenon DEF Wizard!pickRuntime, WizardTyped
  <2> QED BY <1>0, <1>7, <2>1, Zenon DEF Wizard!pickRuntime, WizardTyped
<1>8. CASE Wizard!TypePort
  BY <1>0, <1>8, Zenon DEF Wizard!TypePort, WizardTyped
<1>9. ASSUME Wizard!Forward \/ \E to \in 1 .. 2 : Wizard!Back(to) PROVE WizardTyped'
  <2>1. v5' \in 1 .. 3
    BY <1>0, <1>9 DEF Wizard!Forward, Wizard!Back, WizardTyped
  <2> QED BY <1>0, <1>9, <2>1, Zenon DEF Wizard!Forward, Wizard!Back, WizardTyped
<1>10. CASE Wizard!Submit \/ Wizard!SubmitFails
  BY <1>0, <1>10, Zenon DEF Wizard!Submit, Wizard!SubmitFails, WizardTyped
<1>11. CASE UNCHANGED Wizard!vars
  BY <1>0, <1>11, Zenon DEF Wizard!vars, WizardTyped
<1> QED BY <1>1, <1>2, <1>3, <1>4, <1>5, <1>6, <1>7, <1>8, <1>9, <1>10, <1>11, Zenon
        DEF Wizard!Next

\* The types of DbBrowse: v2 says whether the tables could be read, v3 counts the requests
\* for them that are out, v4 is the table picked, v6 the conditions on the screen.
BrowseTyped ==
    /\ v2 \in BOOLEAN /\ v3 \in 0 .. BrowseMaxLists /\ v4 \in Browse!Tables \cup {Null}
    /\ IsFiniteSet(v6) /\ Cardinality(v6) <= BrowseMaxFilters
    /\ v11 \in BOOLEAN /\ v12 \in BOOLEAN /\ v13 \in 0 .. BrowseMaxSeq

\* The module counts as this one does.
LEMMA BrowseCounts ==
    ASSUME NEW S
    PROVE  /\ Browse!Cardinality(S) = Cardinality(S)
           /\ Browse!IsFiniteSet(S) <=> IsFiniteSet(S)
<1>1. Browse!Cardinality(S) = Cardinality(S)
  BY Zenon DEF Browse!Cardinality, Cardinality
<1>2. Browse!IsFiniteSet(S) <=> IsFiniteSet(S)
  BY Zenon DEF Browse!IsFiniteSet, IsFiniteSet
<1> QED BY <1>1, <1>2, Zenon

\* With the rest of the invariant they are TypeInv.
LEMMA BrowseTypes == Browse!BrowseInv /\ BrowseTyped <=> Browse!TypeInv
<1>1. ASSUME Browse!BrowseInv, BrowseTyped PROVE Browse!TypeInv
  <2>1. v14 \subseteq [n : 1 .. v13, spec : Browse!Queries]
    BY <1>1, BrowseHold, Zenon DEF Browse!BrowseInv, BrowseRows
  <2>2. \A p \in v14 : p.n \in 1 .. v13
    BY <2>1
  <2>3. v1 \in BrowseLists \cup {Null, <<>>}
    BY <1>1, Zenon DEF Browse!BrowseInv, Browse!ControlsInv
  <2>4. Browse!TypeOK
    BY <1>1, <2>2, <2>3, BrowseCounts, Zenon DEF Browse!TypeOK, BrowseTyped
  <2> QED BY <1>1, <2>4, BrowseCounts, Zenon DEF Browse!TypeInv, BrowseTyped
<1>2. ASSUME Browse!TypeInv PROVE Browse!BrowseInv /\ BrowseTyped
  BY <1>2, BrowseCounts, Zenon DEF Browse!TypeInv, Browse!TypeOK, BrowseTyped
<1> QED BY <1>1, <1>2, Zenon

\* And the same a step later.
LEMMA BrowseTypesNext == Browse!BrowseInv' /\ BrowseTyped' => Browse!TypeInv'
<1> DEFINE Both == Browse!BrowseInv /\ BrowseTyped
<1>1. Both => Browse!TypeInv
  BY BrowseTypes
<1> HIDE DEF Both
<1>2. Both' => Browse!TypeInv'
  BY <1>1, PTL
<1> QED BY <1>2 DEF Both

\* The effect that sends a changed query.
LEMMA BrowseFetches ==
    ASSUME BrowseTyped, NEW reload \in BOOLEAN, Browse!Fetch(reload)
    PROVE  v11' \in BOOLEAN /\ v12' \in BOOLEAN /\ v13' \in 0 .. BrowseMaxSeq
<1>0. v11 \in BOOLEAN /\ v12 \in BOOLEAN /\ v13 \in 0 .. BrowseMaxSeq
  BY Zenon DEF BrowseTyped
<1>1. CASE Browse!spec' # Null /\ (reload \/ Browse!spec' # Browse!spec)
  <2>1. v13 < BrowseMaxSeq /\ v13' = v13 + 1 /\ v12' = TRUE /\ v11' = FALSE
    BY <1>1, Zenon DEF Browse!Fetch
  <2>2. v13' \in 0 .. BrowseMaxSeq
    BY <1>0, <2>1, BrowseAssumed DEF Browse!BrowseAssumption
  <2> QED BY <2>1, <2>2, Zenon
<1>2. CASE ~ (Browse!spec' # Null /\ (reload \/ Browse!spec' # Browse!spec))
  BY <1>0, <1>2, Zenon DEF Browse!Fetch
<1> QED BY <1>1, <1>2

\* They hold at the start.
LEMMA BrowseTypesInit == Browse!Init => Browse!TypeInv
<1> SUFFICES ASSUME Browse!Init PROVE BrowseTyped
  BY BrowseInit, BrowseTypes
<1>1. /\ v2 = FALSE /\ v3 = 1 /\ v4 = Null /\ v6 = {} /\ v11 = FALSE /\ v12 = FALSE
      /\ v13 = 0
  BY Zenon DEF Browse!Init
<1>2. /\ v3 \in 0 .. BrowseMaxLists /\ v13 \in 0 .. BrowseMaxSeq
      /\ 0 <= BrowseMaxFilters
  BY <1>1, BrowseAssumed DEF Browse!BrowseAssumption
<1>3. IsFiniteSet(v6) /\ Cardinality(v6) = 0
  BY <1>1, FS_EmptySet, Zenon
<1> QED BY <1>1, <1>2, <1>3, Zenon DEF BrowseTyped

\* Each step keeps the types.
LEMMA BrowseTypesStep ==
    Browse!TypeInv /\ [Browse!Next]_(Browse!vars) => Browse!TypeInv'
<1> SUFFICES ASSUME Browse!TypeInv, [Browse!Next]_(Browse!vars) PROVE BrowseTyped'
  BY BrowseTypes, BrowseStep, BrowseTypesNext
<1> USE DEF Browse!listVars, Browse!controls, Browse!answerVars
<1>0. BrowseTyped /\ Browse!BrowseInv
  BY BrowseTypes
<1>a. /\ v2 \in BOOLEAN /\ v3 \in 0 .. BrowseMaxLists /\ v4 \in Browse!Tables \cup {Null}
      /\ IsFiniteSet(v6) /\ Cardinality(v6) <= BrowseMaxFilters
      /\ v11 \in BOOLEAN /\ v12 \in BOOLEAN /\ v13 \in 0 .. BrowseMaxSeq
  BY <1>0, Zenon DEF BrowseTyped
<1>max. BrowseMaxFilters \in Nat /\ BrowseMaxLists \in Nat
  BY BrowseAssumed DEF Browse!BrowseAssumption
<1>b. Cardinality(v6) \in Nat
  BY <1>a, FS_CardinalityType
\* Conditions that are on the screen are few enough when some are left out.
<1>less. ASSUME NEW S \in SUBSET v6
         PROVE  IsFiniteSet(S) /\ Cardinality(S) \in Nat /\ Cardinality(S) <= BrowseMaxFilters
  <2>1. /\ IsFiniteSet(S) /\ Cardinality(S) \in Nat
        /\ Cardinality(S) <= Cardinality(v6)
    BY <1>a, FS_Subset, FS_CardinalityType
  <2> DEFINE n == Cardinality(S)
             m == Cardinality(v6)
  <2>2. n \in Nat /\ m \in Nat /\ n <= m /\ m <= BrowseMaxFilters
    BY <1>a, <1>b, <2>1, Zenon
  <2> HIDE DEF n, m
  <2>3. n <= BrowseMaxFilters
    BY <1>max, <2>2
  <2> QED BY <2>1, <2>3 DEF n
\* Steps that send what the controls then ask for.
<1>sends. ASSUME v2' \in BOOLEAN, v3' \in 0 .. BrowseMaxLists,
                 v4' \in Browse!Tables \cup {Null}, v6' \subseteq v6,
                 \E reload \in BOOLEAN : Browse!Fetch(reload)
          PROVE  BrowseTyped'
  <2>1. v11' \in BOOLEAN /\ v12' \in BOOLEAN /\ v13' \in 0 .. BrowseMaxSeq
    BY <1>0, <1>sends, BrowseFetches
  <2>2. IsFiniteSet(v6') /\ Cardinality(v6') <= BrowseMaxFilters
    BY <1>sends, <1>less
  <2> QED BY <1>sends, <2>1, <2>2, Zenon DEF BrowseTyped
<1>1. CASE Browse!TablesListed \/ Browse!TablesFail
  <2>1. /\ v3 > 0 /\ v3' = v3 - 1 /\ v2' \in {v2, TRUE} /\ v4' = v4 /\ v6' = v6
        /\ Browse!Fetch(FALSE)
    BY <1>1, Zenon DEF Browse!TablesListed, Browse!TablesFail
  <2>2. v3' \in 0 .. BrowseMaxLists
    BY <1>a, <1>max, <2>1
  <2>3. v2' \in BOOLEAN
    BY <1>a, <2>1, Zenon
  <2> QED BY <1>a, <1>sends, <2>1, <2>2, <2>3, Zenon
<1>2. ASSUME NEW p \in v14, Browse!Answer(p) PROVE BrowseTyped'
  <2>1. /\ v2' = v2 /\ v3' = v3 /\ v4' = v4 /\ v6' = v6 /\ v13' = v13
        /\ v11' \in {v11, TRUE} /\ v12' \in {v12, FALSE}
    BY <1>2, Zenon DEF Browse!Answer
  <2> QED BY <1>a, <2>1, Zenon DEF BrowseTyped
<1>3. CASE Browse!AddFilter
  <2>1. PICK new : /\ v6' = v6 \cup {new}
                   /\ v2' = v2 /\ v3' = v3 /\ v4' = v4 /\ v11' = v11 /\ v12' = v12
                   /\ v13' = v13 /\ Cardinality(v6) < BrowseMaxFilters
    BY <1>3, BrowseCounts, Zenon DEF Browse!AddFilter
  <2>2. /\ IsFiniteSet(v6 \cup {new})
        /\ Cardinality(v6 \cup {new}) \in {Cardinality(v6), Cardinality(v6) + 1}
    BY <1>a, FS_AddElement
  <2> DEFINE n == Cardinality(v6)
             m == Cardinality(v6 \cup {new})
  <2>3. n \in Nat /\ m \in {n, n + 1} /\ n < BrowseMaxFilters
    BY <1>b, <2>1, <2>2, Zenon
  <2> HIDE DEF n, m
  <2>4. m <= BrowseMaxFilters
    BY <1>max, <2>3
  <2>5. IsFiniteSet(v6') /\ Cardinality(v6') <= BrowseMaxFilters
    BY <2>1, <2>2, <2>4, Zenon DEF m
  <2> QED BY <1>a, <2>1, <2>5, Zenon DEF BrowseTyped
<1>4. ASSUME NEW f \in v6, Browse!PatchFilter(f) PROVE BrowseTyped'
  <2>1. PICK new : /\ v6' = (v6 \ {f}) \cup {new}
                   /\ v2' = v2 /\ v3' = v3 /\ v4' = v4 /\ v11' = v11 /\ v12' = v12
                   /\ v13' = v13
    BY <1>4, Zenon DEF Browse!PatchFilter
  <2>2. /\ IsFiniteSet(v6 \ {f}) /\ Cardinality(v6 \ {f}) = Cardinality(v6) - 1
    BY <1>a, FS_RemoveElement
  <2>3. /\ IsFiniteSet((v6 \ {f}) \cup {new})
        /\ Cardinality((v6 \ {f}) \cup {new}) \in
               {Cardinality(v6 \ {f}), Cardinality(v6 \ {f}) + 1}
    BY <2>2, FS_AddElement
  <2> DEFINE n == Cardinality(v6)
             m == Cardinality(v6 \ {f})
             k == Cardinality((v6 \ {f}) \cup {new})
  <2>4. n \in Nat /\ n <= BrowseMaxFilters /\ m = n - 1 /\ k \in {m, m + 1}
    BY <1>a, <1>b, <2>2, <2>3, Zenon
  <2> HIDE DEF n, m, k
  <2>5. k <= BrowseMaxFilters
    BY <1>max, <2>4
  <2>6. IsFiniteSet(v6') /\ Cardinality(v6') <= BrowseMaxFilters
    BY <2>1, <2>3, <2>5, Zenon DEF k
  <2> QED BY <1>a, <2>1, <2>6, Zenon DEF BrowseTyped
<1>5. ASSUME NEW t \in Browse!Tables, Browse!Pick(t) PROVE BrowseTyped'
  <2>1. v2' = v2 /\ v3' = v3 /\ v4' = t /\ v6' = {} /\ Browse!Fetch(FALSE)
    BY <1>5, Zenon DEF Browse!Pick
  <2>2. v6' \subseteq v6
    BY <2>1
  <2> QED BY <1>a, <1>sends, <2>1, <2>2, Zenon
<1>6. ASSUME NEW f \in v6, Browse!RemoveFilter(f) PROVE BrowseTyped'
  <2>1. v2' = v2 /\ v3' = v3 /\ v4' = v4 /\ v6' = v6 \ {f} /\ Browse!Fetch(FALSE)
    BY <1>6, Zenon DEF Browse!RemoveFilter
  <2>2. v6' \subseteq v6
    BY <2>1
  <2> QED BY <1>a, <1>sends, <2>1, <2>2, Zenon
<1>7. CASE \/ Browse!Apply \/ Browse!ShowAll \/ Browse!TurnPage
           \/ \E c \in Browse!columns : Browse!ToggleColumn(c)
           \/ \E c \in Browse!AllColumns : Browse!SortBy(c)
  <2>1. v2' = v2 /\ v3' = v3 /\ v4' = v4 /\ v6' = v6 /\ Browse!Fetch(FALSE)
    BY <1>7, Zenon DEF Browse!Apply, Browse!ShowAll, Browse!TurnPage, Browse!ToggleColumn,
       Browse!SortBy
  <2> QED BY <1>a, <1>sends, <2>1, Zenon
<1>8. CASE Browse!Refresh
  <2>1. /\ v3 < BrowseMaxLists /\ v3' = v3 + 1 /\ v2' = FALSE /\ v4' = v4 /\ v6' = v6
        /\ Browse!Fetch(TRUE)
    BY <1>8, Zenon DEF Browse!Refresh
  <2>2. v3' \in 0 .. BrowseMaxLists
    BY <1>a, <1>max, <2>1
  <2> QED BY <1>a, <1>sends, <2>1, <2>2, Zenon
<1>9. CASE UNCHANGED Browse!vars
  BY <1>a, <1>9, Zenon DEF Browse!vars, BrowseTyped
<1> QED BY <1>1, <1>2, <1>3, <1>4, <1>5, <1>6, <1>7, <1>8, <1>9, Zenon DEF Browse!Next

-------------------------------------------------------------------------------
(***************************************************************************)
(* WizardSubmit: its types, which the user may leave the wizard at any     *)
(* moment for.                                                             *)
(***************************************************************************)
\* The types hold when the wizard opens.
LEMMA SubmitTypesInit == Submit!Init => Submit!TypeOK
BY SubmitAssumed DEF Submit!SubmitAssumption, Submit!Init, Submit!TypeOK

\* Where a request without an app of its own is sent is an app or none.
LEMMA SentToApp ==
    ASSUME Submit!TypeOK, Submit!CreateOrDeploy
    PROVE  /\ v8' \in {"create", "deploy"} /\ v10' \in 0 .. SubmitLimit
           /\ v15' \subseteq 1 .. SubmitLimit
<1>1. Submit!Served(v6) \in 1 .. SubmitLimit
  BY SubmitAssumed DEF Submit!SubmitAssumption, Submit!TypeOK, Submit!Served
<1>2. v15' \in {v15, v15 \cup {Submit!Served(v6)}}
  BY DEF Submit!CreateOrDeploy
<1>3. v15' \subseteq 1 .. SubmitLimit
  BY <1>1, <1>2 DEF Submit!TypeOK
<1>4. v8' \in {"create", "deploy"} /\ v10' \in 0 .. SubmitLimit
  BY DEF Submit!TypeOK, Submit!CreateOrDeploy, Submit!CallDeploy, Submit!scoped
<1> QED BY <1>3, <1>4

\* Each step keeps the types, at whichever of its moments the wizard is left.
LEMMA SubmitTypesStep == Submit!TypeOK /\ [Submit!Next]_(Submit!vars) => Submit!TypeOK'
<1> SUFFICES ASSUME Submit!TypeOK, [Submit!Next]_(Submit!vars) PROVE Submit!TypeOK'
  OBVIOUS
<1> USE SubmitAssumed DEF Submit!SubmitAssumption, Submit!TypeOK
<1>1. ASSUME NEW dump \in BOOLEAN, Submit!Submit(dump) PROVE Submit!TypeOK'
  <2>1. /\ v9' = 0 /\ v11' = 0 /\ v14' \in 0 .. SubmitMaxPresses
        /\ UNCHANGED <<v1, v2, v3, v4, v6, v12>>
    BY <1>1 DEF Submit!Submit
  <2>2. /\ v8' \in {"stage", "create", "deploy"} /\ v10' \in 0 .. SubmitLimit
        /\ v15' \subseteq 1 .. SubmitLimit
    BY <1>1, SentToApp DEF Submit!Submit
  <2> QED BY <2>1, <2>2
<1>2. CASE Submit!Staged
  BY <1>2, SentToApp DEF Submit!Staged
<1>3. CASE Submit!StageFails \/ Submit!CreateFails \/ Submit!DeployFails \/ Submit!DomainFails
  BY <1>3 DEF Submit!StageFails, Submit!CreateFails, Submit!DeployFails, Submit!DomainFails,
     Submit!Fail
<1>4. CASE Submit!Created
  BY <1>4 DEF Submit!Created, Submit!CallDeploy, Submit!scoped, Submit!Fail
<1>5. CASE Submit!Deployed
  <2> DEFINE at == Submit!Served(v10)
  <2>1. /\ v3' = (IF at > v3 THEN at ELSE v3) /\ v12' = v12 \cup {at}
        /\ v11' \in {at, v11} /\ v8' \in {"refresh", "domain", "form"}
        /\ UNCHANGED <<v1, v2, v4, v6, v9, v10, v14, v15>>
    BY <1>5 DEF Submit!Deployed, Submit!Fail
  <2>2. at \in 1 .. SubmitLimit
    BY DEF Submit!Served
  <2> HIDE DEF at
  <2> QED BY <2>1, <2>2
<1>6. CASE Submit!Refreshed
  <2>1. v8' = "domain" /\ v4' \in {v3, 0} /\ UNCHANGED <<v1, v2, v3, v6, v9, v10, v11, v12, v14, v15>>
    BY <1>6 DEF Submit!Refreshed
  <2> QED BY <2>1
<1>7. CASE Submit!Arrive
  <2>1. v8' = "done" /\ v6' = Submit!targetId /\ UNCHANGED <<v1, v2, v3, v4, v9, v10, v11, v12, v14, v15>>
    BY <1>7 DEF Submit!Arrive
  <2>2. Submit!targetId \in 0 .. SubmitLimit
    BY DEF Submit!targetId
  <2> QED BY <2>1, <2>2
<1>8. ASSUME NEW p \in 0 .. v3, Submit!Leave(p) PROVE Submit!TypeOK'
  BY <1>8 DEF Submit!Leave
<1>9. CASE UNCHANGED Submit!vars
  BY <1>9 DEF Submit!vars
<1> QED BY <1>1, <1>2, <1>3, <1>4, <1>5, <1>6, <1>7, <1>8, <1>9 DEF Submit!Next

-------------------------------------------------------------------------------
(***************************************************************************)
(* The types of all pages.                                                 *)
(***************************************************************************)
\* What each page keeps, and which says the types of it.
PagesTypeInv ==
    /\ page = "metrics" => MetricsPage!TypeInv
    /\ page = "settings" => Settings!RestoreInv
    /\ page = "browse" => Browse!TypeInv
    /\ page = "sql" => Sql!SqlInv
    /\ page = "files" => Bucket!ListInv /\ Bucket!PreviewInv
    /\ page = "views" => Views!ViewsInv
    /\ page = "logs" => Logs!TypeOK
    /\ page = "wizard" => Wizard!TypeInv
    /\ page = "check" => Check!TypeInv
    /\ page = "submit" => Submit!TypeOK
    /\ page = "env" => Env!EnvInv
    /\ page = "pages" => PagesOfApp!PollsInv
    /\ page = "progress" => Progress!TypeInv
    /\ page = "history" => History!HistoryInv
    /\ page = "frontend" => Frontend!TypeInv
    /\ page = "sharing" => SharingPage!TypeInv
    /\ page = "feedback" => PostsPage!CommentsInv
    /\ page = "admin" => Admin!TypeInv
    /\ page = "users" => Accounts!EndInv
    /\ page = "rows" => Rows!TypeInv
    /\ page = "summary" => Summary!SummaryInv

\* Whatever is done on a page, and in whatever order requests are answered, for any
\* constants: what it shows and keeps has its types, requests that are out and conditions
\* of the table browser are no more than the limits, one poll of the invitations counts.
THEOREM PagesTypeCorrect == Spec => []TypeOK
<1>1. Init => PagesTypeInv
  BY PagesStart, MetricsTypesInit, SettingsInit, BrowseTypesInit, SqlInit, FilesInit,
     FilesBegin, ViewsInit, LogsTypesInit, WizardTypesInit, CheckTypesInit, SubmitTypesInit,
     EnvInit, PagesInit, ProgressTypesInit, HistoryInit, FrontendTypesInit,
     SharingTypesInit, PostsInit, AdminTypesInit, AccountsInit, RowsTypesInit, SummaryInit,
     Zenon
     DEF PagesTypeInv
<1>2. PagesTypeInv /\ [Next]_vars => PagesTypeInv'
  <2> SUFFICES ASSUME PagesTypeInv, [Next]_vars PROVE PagesTypeInv'
    OBVIOUS
  <2>1. page' = "metrics" => MetricsPage!TypeInv'
    BY PagesMove, MetricsTypesStep, Zenon DEF PagesTypeInv
  <2>2. page' = "settings" => Settings!RestoreInv'
    BY PagesMove, SettingsStep, Zenon DEF PagesTypeInv
  <2>3. page' = "browse" => Browse!TypeInv'
    BY PagesMove, BrowseTypesStep, Zenon DEF PagesTypeInv
  <2>4. page' = "sql" => Sql!SqlInv'
    BY PagesMove, SqlStep, Zenon DEF PagesTypeInv
  <2>5. page' = "files" => Bucket!ListInv' /\ Bucket!PreviewInv'
    BY PagesMove, FilesStep, FilesPreview, Zenon DEF PagesTypeInv
  <2>6. page' = "views" => Views!ViewsInv'
    BY PagesMove, ViewsStep, Zenon DEF PagesTypeInv
  <2>7. page' = "logs" => Logs!TypeOK'
    BY PagesMove, LogsTypesStep, Zenon DEF PagesTypeInv
  <2>8. page' = "wizard" => Wizard!TypeInv'
    BY PagesMove, WizardTypesStep, Zenon DEF PagesTypeInv
  <2>9. page' = "check" => Check!TypeInv'
    BY PagesMove, CheckTypesStep, Zenon DEF PagesTypeInv
  <2>10. page' = "submit" => Submit!TypeOK'
    BY PagesMove, SubmitTypesStep, Zenon DEF PagesTypeInv
  <2>11. page' = "env" => Env!EnvInv'
    BY PagesMove, EnvStep, Zenon DEF PagesTypeInv
  <2>12. page' = "pages" => PagesOfApp!PollsInv'
    BY PagesMove, PagesStep, Zenon DEF PagesTypeInv
  <2>13. page' = "progress" => Progress!TypeInv'
    BY PagesMove, ProgressTypesStep, Zenon DEF PagesTypeInv
  <2>14. page' = "history" => History!HistoryInv'
    BY PagesMove, HistoryStep, Zenon DEF PagesTypeInv
  <2>15. page' = "frontend" => Frontend!TypeInv'
    BY PagesMove, FrontendTypesStep, Zenon DEF PagesTypeInv
  <2>16. page' = "sharing" => SharingPage!TypeInv'
    BY PagesMove, SharingTypesStep, Zenon DEF PagesTypeInv
  <2>17. page' = "feedback" => PostsPage!CommentsInv'
    BY PagesMove, PostsStep, Zenon DEF PagesTypeInv
  <2>18. page' = "admin" => Admin!TypeInv'
    BY PagesMove, AdminTypesStep, Zenon DEF PagesTypeInv
  <2>19. page' = "users" => Accounts!EndInv'
    BY PagesMove, AccountsStep, Zenon DEF PagesTypeInv
  <2>20. page' = "rows" => Rows!TypeInv'
    BY PagesMove, RowsTypesStep, Zenon DEF PagesTypeInv
  <2>21. page' = "summary" => Summary!SummaryInv'
    BY PagesMove, SummaryStep, Zenon DEF PagesTypeInv
  <2> QED BY <2>1, <2>2, <2>3, <2>4, <2>5, <2>6, <2>7, <2>8, <2>9, <2>10, <2>11, <2>12,
             <2>13, <2>14, <2>15, <2>16, <2>17, <2>18, <2>19, <2>20, <2>21, Zenon
             DEF PagesTypeInv
<1>3. PagesTypeInv => TypeOK
  <2> SUFFICES ASSUME PagesTypeInv PROVE TypeOK
    OBVIOUS
  <2>1. page = "metrics" => MetricsPage!TypeOK
    BY Zenon DEF PagesTypeInv, MetricsPage!TypeInv
  <2>2. page = "settings" => Settings!TypeOK
    BY Zenon DEF PagesTypeInv, Settings!RestoreInv
  <2>3. page = "browse" => Browse!TypeOK
    BY Zenon DEF PagesTypeInv, Browse!TypeInv
  <2>4. page = "sql" => Sql!TypeOK
    BY SqlTyped, Zenon DEF PagesTypeInv
  <2>5. page = "files" => Bucket!TypeOK
    BY Zenon DEF PagesTypeInv, Bucket!PreviewInv
  <2>6. page = "views" => Views!TypeOK
    BY Zenon DEF PagesTypeInv, Views!ViewsInv
  <2>7. page = "logs" => Logs!TypeOK
    BY Zenon DEF PagesTypeInv
  <2>8. page = "wizard" => Wizard!TypeOK
    BY Zenon DEF PagesTypeInv, Wizard!TypeInv
  <2>9. page = "check" => Check!TypeOK
    BY Zenon DEF PagesTypeInv, Check!TypeInv
  <2>10. page = "submit" => Submit!TypeOK
    BY Zenon DEF PagesTypeInv
  <2>11. page = "env" => Env!TypeOK
    BY EnvKept, Zenon DEF PagesTypeInv
  <2>12. page = "pages" => PagesOfApp!TypeOK
    BY PagesTyped, Zenon DEF PagesTypeInv
  <2>13. page = "progress" => Progress!TypeOK
    BY Zenon DEF PagesTypeInv, Progress!TypeInv
  <2>14. page = "history" => History!TypeOK
    BY HistoryTypes, Zenon DEF PagesTypeInv
  <2>15. page = "frontend" => Frontend!TypeOK
    BY Zenon DEF PagesTypeInv, Frontend!TypeInv
  <2>16. page = "sharing" => SharingPage!TypeOK
    BY Zenon DEF PagesTypeInv, SharingPage!TypeInv
  <2>17. page = "feedback" => PostsPage!TypeOK
    BY Zenon DEF PagesTypeInv, PostsPage!CommentsInv
  <2>18. page = "admin" => Admin!TypeOK
    BY Zenon DEF PagesTypeInv, Admin!TypeInv
  <2>19. page = "users" => Accounts!TypeOK
    BY Zenon DEF PagesTypeInv, Accounts!EndInv
  <2>20. page = "rows" => Rows!TypeOK
    BY Zenon DEF PagesTypeInv, Rows!TypeInv
  <2>21. page = "summary" => Summary!TypeOK
    BY Zenon DEF PagesTypeInv, Summary!SummaryInv
  <2> QED BY <2>1, <2>2, <2>3, <2>4, <2>5, <2>6, <2>7, <2>8, <2>9, <2>10, <2>11, <2>12,
             <2>13, <2>14, <2>15, <2>16, <2>17, <2>18, <2>19, <2>20, <2>21, Zenon
             DEF TypeOK
<1> QED BY <1>1, <1>2, <1>3, PTL DEF Spec
=============================================================================
