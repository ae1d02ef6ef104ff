------------------------------- MODULE WebProofs -------------------------------
(***************************************************************************)
(* Proofs about the pages of the web console, for all values of their      *)
(* constants.  For every page: what its inductive invariant is, is said in *)
(* the module of the page; here it is shown to hold initially, to be kept  *)
(* by each step of the page, and to imply the page's part of a property.   *)
(***************************************************************************)
EXTENDS WebPages, FiniteSetTheorems, SequenceTheorems, WellFoundedInduction, TLAPS

-------------------------------------------------------------------------------
(***************************************************************************)
(* The page that was chosen starts and moves as its module says.           *)
(***************************************************************************)
\* The page that was chosen starts as its module says.
LEMMA PagesStart ==
    Init =>
        /\ page = "metrics" => MetricsPage!Init
        /\ page = "settings" => Settings!Init
        /\ page = "browse" => Browse!Init
        /\ page = "sql" => Sql!Init
        /\ page = "files" => Bucket!Init
        /\ page = "views" => Views!Init
        /\ page = "logs" => Logs!Init
        /\ page = "wizard" => Wizard!Init
        /\ page = "check" => Check!Init
        /\ page = "submit" => Submit!Init
        /\ page = "env" => Env!Init
        /\ page = "pages" => PagesOfApp!Init
        /\ page = "progress" => Progress!Init
        /\ page = "history" => History!Init
        /\ page = "frontend" => Frontend!Init
        /\ page = "sharing" => SharingPage!Init
        /\ page = "feedback" => PostsPage!Init
        /\ page = "admin" => Admin!Init
        /\ page = "users" => Accounts!Init
        /\ page = "rows" => Rows!Init
        /\ page = "summary" => Summary!Init
BY Zenon DEF Init

\* And it moves as its module says, or not at all.
LEMMA PagesMove ==
    [Next]_vars =>
        /\ page' = page
        /\ page = "metrics" => [MetricsPage!Next]_(MetricsPage!vars)
        /\ page = "settings" => [Settings!Next]_(Settings!vars)
        /\ page = "browse" => [Browse!Next]_(Browse!vars)
        /\ page = "sql" => [Sql!Next]_(Sql!vars)
        /\ page = "files" => [Bucket!Next]_(Bucket!vars)
        /\ page = "views" => [Views!Next]_(Views!vars)
        /\ page = "logs" => [Logs!Next]_(Logs!vars)
        /\ page = "wizard" => [Wizard!Next]_(Wizard!vars)
        /\ page = "check" => [Check!Next]_(Check!vars)
        /\ page = "submit" => [Submit!Next]_(Submit!vars)
        /\ page = "env" => [Env!Next]_(Env!vars)
        /\ page = "pages" => [PagesOfApp!Next]_(PagesOfApp!vars)
        /\ page = "progress" => [Progress!Next]_(Progress!vars)
        /\ page = "history" => [History!Next]_(History!vars)
        /\ page = "frontend" => [Frontend!Next]_(Frontend!vars)
        /\ page = "sharing" => [SharingPage!Next]_(SharingPage!vars)
        /\ page = "feedback" => [PostsPage!Next]_(PostsPage!vars)
        /\ page = "admin" => [Admin!Next]_(Admin!vars)
        /\ page = "users" => [Accounts!Next]_(Accounts!vars)
        /\ page = "rows" => [Rows!Next]_(Rows!vars)
        /\ page = "summary" => [Summary!Next]_(Summary!vars)
<1>1. CASE Next
  BY <1>1, Zenon DEF Next, MetricsPageNext, SettingsNext, BrowseNext, SqlNext, BucketNext,
     ViewsNext, LogsNext, WizardNext, CheckNext, SubmitNext, EnvNext, PagesOfAppNext,
     ProgressNext, HistoryNext, FrontendNext, SharingPageNext, PostsPageNext, AdminNext,
     AccountsNext, RowsNext, SummaryNext
<1>2. CASE UNCHANGED vars
  <2>1. page = "metrics" => UNCHANGED MetricsPage!vars
    BY <1>2 DEF vars, MetricsPage!vars, MetricsPage!loadVars
  <2>2. page = "settings" => UNCHANGED Settings!vars
    BY <1>2 DEF vars, Settings!vars, Settings!domainVars, Settings!storageVars,
       Settings!deleteVars
  <2>3. page = "browse" => UNCHANGED Browse!vars
    BY <1>2 DEF vars, Browse!vars, Browse!listVars, Browse!controls, Browse!answerVars
  <2>4. page = "sql" => UNCHANGED Sql!vars
    BY <1>2 DEF vars, Sql!vars, Sql!runVars, Sql!keptVars, Sql!savedVars, Sql!formVars
  <2>5. page = "files" => UNCHANGED Bucket!vars
    BY <1>2 DEF vars, Bucket!vars, Bucket!listVars, Bucket!choice
  <2>6. page = "views" => UNCHANGED Views!vars
    BY <1>2 DEF vars, Views!vars, Views!appVars, Views!viewVars, Views!socketVars
  <2>7. page = "logs" => UNCHANGED Logs!vars
    BY <1>2 DEF vars, Logs!vars, Logs!shownVars
  <2>8. page = "wizard" => UNCHANGED Wizard!vars
    BY <1>2 DEF vars, Wizard!vars, Wizard!appVars, Wizard!formVars, Wizard!askVars
  <2>9. page = "check" => UNCHANGED Check!vars
    BY <1>2 DEF vars, Check!vars
  <2>10. page = "submit" => UNCHANGED Submit!vars
    BY <1>2 DEF vars, Submit!vars
  <2>11. page = "env" => UNCHANGED Env!vars
    BY <1>2 DEF vars, Env!vars, Env!shell, Env!tab
  <2>12. page = "pages" => UNCHANGED PagesOfApp!vars
    BY <1>2 DEF vars, PagesOfApp!vars, PagesOfApp!pollVars
  <2>13. page = "progress" => UNCHANGED Progress!vars
    BY <1>2 DEF vars, Progress!vars, Progress!pageVars
  <2>14. page = "history" => UNCHANGED History!vars
    BY <1>2 DEF vars, History!vars, History!listVars, History!detailVars,
       History!rollbackVars
  <2>15. page = "frontend" => UNCHANGED Frontend!vars
    BY <1>2 DEF vars, Frontend!vars, Frontend!formVars
  <2>16. page = "sharing" => UNCHANGED SharingPage!vars
    BY <1>2 DEF vars, SharingPage!vars, SharingPage!boardVars, SharingPage!tabVars
  <2>17. page = "feedback" => UNCHANGED PostsPage!vars
    BY <1>2 DEF vars, PostsPage!vars, PostsPage!serverVars, PostsPage!pageVars,
       PostsPage!paneVars, PostsPage!composeVars
  <2>18. page = "admin" => UNCHANGED Admin!vars
    BY <1>2 DEF vars, Admin!vars
  <2>19. page = "users" => UNCHANGED Accounts!vars
    BY <1>2 DEF vars, Accounts!vars, Accounts!rowVars, Accounts!dialogVars
  <2>20. page = "rows" => UNCHANGED Rows!vars
    BY <1>2 DEF vars, Rows!vars, Rows!appVars, Rows!nodeVars, Rows!tierVars
  <2>21. page = "summary" => UNCHANGED Summary!vars
    BY <1>2 DEF vars, Summary!vars, Summary!shellVars, Summary!overviewVars
  <2> QED BY <1>2, <2>1, <2>2, <2>3, <2>4, <2>5, <2>6, <2>7, <2>8, <2>9, <2>10, <2>11,
             <2>12, <2>13, <2>14, <2>15, <2>16, <2>17, <2>18, <2>19, <2>20, <2>21,
             Zenon DEF vars
<1> QED BY <1>1, <1>2

-------------------------------------------------------------------------------
(***************************************************************************)
(* StorageFiles: v1 is the bucket, v2 the files listed, v3 the next page,  *)
(* v10 the listing on its way.                                             *)
(***************************************************************************)
\* What the module assumes of its constants.
LEMMA FilesAssumed == Bucket!StorageAssumption
BY PageAssumptions

\* The instance's finite sets are the finite sets.
LEMMA FilesSets ==
    ASSUME NEW S
    PROVE  Bucket!Cardinality(S) = Cardinality(S) /\ (Bucket!IsFiniteSet(S) <=> IsFiniteSet(S))
<1>1. Bucket!Cardinality(S) = Cardinality(S)
  BY Zenon DEF Bucket!Cardinality, Cardinality
<1>2. Bucket!IsFiniteSet(S) <=> IsFiniteSet(S)
  BY Zenon DEF Bucket!IsFiniteSet, IsFiniteSet
<1> QED BY <1>1, <1>2

\* What lists a finite set in order.
LEMMA InOrderIs ==
    ASSUME NEW S \in SUBSET Nat, IsFiniteSet(S), NEW s \in Bucket!InOrder(S)
    PROVE  /\ s \in Seq(S) /\ Len(s) = Cardinality(S)
           /\ \A i, j \in 1 .. Len(s) : i < j => s[i] < s[j]
<1>1. Cardinality(S) \in Nat
  BY FS_CardinalityType
<1>2. /\ s \in [1 .. Cardinality(S) -> S]
      /\ \A i, j \in DOMAIN s : i < j => s[i] < s[j]
  BY FilesSets DEF Bucket!InOrder
<1> HIDE DEF Cardinality
<1>3. s \in Seq(S) /\ Len(s) = Cardinality(S)
  BY <1>1, <1>2
<1> QED BY <1>2, <1>3

\* A page of what is left fits the place it was asked for.
LEMMA PageFits ==
    ASSUME Bucket!ListInv, NEW token \in BucketKeys \cup {Null},
           NEW all \in Bucket!InOrder(Bucket!Rest(token))
    PROVE  Bucket!Page(all) \in Bucket!Answers /\ Bucket!AnswerFits(Bucket!Page(all), token)
<1> USE FilesAssumed DEF Bucket!StorageAssumption
<1> DEFINE rest == Bucket!Rest(token)
<1>1. rest \subseteq BucketKeys /\ \A k \in rest : token # Null => k > token
  BY DEF Bucket!Rest, Bucket!ListInv
<1>2. /\ all \in Seq(rest)
      /\ \A i, j \in 1 .. Len(all) : i < j => all[i] < all[j]
  <2>1. IsFiniteSet(rest)
    BY <1>1, FilesSets, FS_Subset
  <2> QED BY <1>1, <2>1, InOrderIs
<1>3. ASSUME NEW i \in 1 .. Len(all)
      PROVE  all[i] \in BucketKeys /\ all[i] \in Nat /\ (token # Null => token < all[i])
  <2> HIDE DEF rest
  <2>1. all[i] \in rest
    BY <1>2
  <2> QED BY <1>1, <2>1
<1>4. all \in Seq(BucketKeys)
  BY <1>1, <1>2
<1>5. CASE Len(all) <= BucketPageSize
  <2>1. Bucket!Page(all) = [objects |-> all, next |-> Null]
    BY <1>5 DEF Bucket!Page
  <2> QED BY <1>2, <1>3, <1>4, <2>1 DEF Bucket!AnswerFits, Bucket!Answers
<1>6. CASE ~ (Len(all) <= BucketPageSize)
  <2> DEFINE first == SubSeq(all, 1, BucketPageSize)
  <2>1. Bucket!Page(all) = [objects |-> first, next |-> all[BucketPageSize]]
    BY <1>6 DEF Bucket!Page
  <2>2. BucketPageSize \in 1 .. Len(all)
    BY <1>2, <1>6
  <2>3. /\ first \in Seq(BucketKeys) /\ Len(first) = BucketPageSize
        /\ \A i \in 1 .. BucketPageSize : first[i] = all[i]
    BY <1>4, <2>2
  <2>4. \A i \in 1 .. BucketPageSize : i \in 1 .. Len(all) /\ first[i] <= all[BucketPageSize]
    BY <1>2, <1>3, <2>2, <2>3
  <2> HIDE DEF first
  <2> QED BY <1>2, <1>3, <2>1, <2>2, <2>3, <2>4 DEF Bucket!AnswerFits, Bucket!Answers
<1> QED BY <1>5, <1>6

\* Files appended behind all that are listed.
LEMMA AppendFits ==
    ASSUME NEW K \in SUBSET Nat, NEW before \in Seq(K), NEW more \in Seq(K),
           \A i, j \in 1 .. Len(before) : before[i] = before[j] => i = j,
           \A i, j \in 1 .. Len(more) : i < j => more[i] < more[j],
           \A i \in 1 .. Len(before), j \in 1 .. Len(more) : before[i] < more[j]
    PROVE  LET both == before \o more
           IN /\ both \in Seq(K) /\ Bucket!IsInjective(both)
              /\ \A i \in 1 .. Len(both) : \/ \E j \in 1 .. Len(before) : both[i] = before[j]
                                           \/ \E j \in 1 .. Len(more) : both[i] = more[j]
<1> DEFINE both == before \o more  n == Len(before)
<1>1. /\ both \in Seq(K) /\ Len(both) = n + Len(more) /\ n \in Nat /\ Len(more) \in Nat
      /\ \A i \in 1 .. n : both[i] = before[i]
      /\ \A i \in n + 1 .. Len(both) : i - n \in 1 .. Len(more) /\ both[i] = more[i - n]
  OBVIOUS
<1>2. /\ \A i \in 1 .. n : before[i] \in Nat
      /\ \A i \in 1 .. Len(more) : more[i] \in Nat
  BY ElementOfSeq
<1> HIDE DEF both, n
<1>3. ASSUME NEW i \in 1 .. Len(both), NEW j \in 1 .. Len(both), i < j
      PROVE  both[i] # both[j]
  <2>1. CASE j <= n
    <3>1. i \in 1 .. n /\ j \in 1 .. n
      BY <1>1, <1>3, <2>1
    <3> QED BY <1>1, <1>3, <3>1 DEF n
  <2>2. CASE i <= n /\ n < j
    <3>1. i \in 1 .. n /\ j \in n + 1 .. Len(both)
      BY <1>1, <2>2
    <3>2. both[i] = before[i] /\ both[j] = more[j - n] /\ before[i] < more[j - n]
      BY <1>1, <3>1 DEF n
    <3>3. before[i] \in Nat /\ more[j - n] \in Nat
      BY <1>1, <1>2, <3>1
    <3> QED BY <3>2, <3>3
  <2>3. CASE n < i
    <3>1. i \in n + 1 .. Len(both) /\ j \in n + 1 .. Len(both) /\ i - n < j - n
      BY <1>1, <1>3, <2>3
    <3>2. both[i] = more[i - n] /\ both[j] = more[j - n] /\ more[i - n] < more[j - n]
      BY <1>1, <3>1
    <3>3. more[i - n] \in Nat /\ more[j - n] \in Nat
      BY <1>1, <1>2, <3>1
    <3> QED BY <3>2, <3>3
  <2> QED BY <1>1, <2>1, <2>2, <2>3
<1>4. Bucket!IsInjective(both)
  BY <1>1, <1>3 DEF Bucket!IsInjective
<1>5. ASSUME NEW i \in 1 .. Len(both)
      PROVE  \/ \E j \in 1 .. Len(before) : both[i] = before[j]
             \/ \E j \in 1 .. Len(more) : both[i] = more[j]
  <2>1. i \in 1 .. n \/ i \in n + 1 .. Len(both)
    BY <1>1
  <2> QED BY <1>1, <2>1 DEF n
<1> QED BY <1>1, <1>4, <1>5 DEF both

\* An answer that is appended, or that replaces what was listed, lists no file twice.
LEMMA ListedFits ==
    ASSUME Bucket!ListInv, Bucket!Listed PROVE Bucket!ListInv'
<1> DEFINE objects == v2  answer == v10.answer  token == v10.token  more == answer.objects
           before == IF token = Null THEN <<>> ELSE objects
<1>0. BucketKeys \subseteq Nat
  BY FilesAssumed DEF Bucket!StorageAssumption
<1>1. /\ answer \in Bucket!Answers /\ Bucket!AnswerFits(answer, token)
      /\ token \in BucketKeys \cup {Null} /\ Bucket!UpTo(token)
      /\ v1 \subseteq BucketKeys /\ objects \in Seq(BucketKeys) /\ Bucket!IsInjective(objects)
  BY DEF Bucket!ListInv, Bucket!Listed, Bucket!Listings
<1>2. v2' = before \o more /\ v3' = answer.next /\ v10' = Null /\ v1' = v1
  BY DEF Bucket!Listed
<1>3. /\ before \in Seq(BucketKeys)
      /\ \A i, j \in 1 .. Len(before) : before[i] = before[j] => i = j
      /\ \A i \in 1 .. Len(before) : token # Null /\ before[i] <= token
  BY <1>1 DEF Bucket!IsInjective, Bucket!UpTo
<1>4. /\ more \in Seq(BucketKeys) /\ v3' \in BucketKeys \cup {Null}
      /\ \A i, j \in 1 .. Len(more) : i < j => more[i] < more[j]
      /\ \A i \in 1 .. Len(more) : /\ v3' # Null => more[i] <= v3'
                                   /\ token # Null => token < more[i]
      /\ token # Null /\ v3' # Null => token <= v3'
  BY <1>1, <1>2 DEF Bucket!AnswerFits, Bucket!Answers
<1>5. token # Null => token \in Nat
  BY <1>0, <1>1
<1> HIDE DEF before, more, token
<1>6. /\ \A i \in 1 .. Len(before) : before[i] \in Nat
      /\ \A i \in 1 .. Len(more) : more[i] \in Nat
  BY <1>0, <1>3, <1>4, ElementOfSeq
<1>7. \A i \in 1 .. Len(before), j \in 1 .. Len(more) : before[i] < more[j]
  <2> SUFFICES ASSUME NEW i \in 1 .. Len(before), NEW j \in 1 .. Len(more)
               PROVE  before[i] < more[j]
    OBVIOUS
  <2>1. before[i] <= token /\ token < more[j] /\ token \in Nat
    BY <1>3, <1>4, <1>5
  <2>2. before[i] \in Nat /\ more[j] \in Nat
    BY <1>6
  <2> QED BY <2>1, <2>2
<1>8. /\ v2' \in Seq(BucketKeys) /\ Bucket!IsInjective(v2')
      /\ \A i \in 1 .. Len(v2') : \/ \E j \in 1 .. Len(before) : v2'[i] = before[j]
                                  \/ \E j \in 1 .. Len(more) : v2'[i] = more[j]
  <2> DEFINE both == before \o more
  <2>1. /\ both \in Seq(BucketKeys) /\ Bucket!IsInjective(both)
        /\ \A i \in 1 .. Len(both) : \/ \E j \in 1 .. Len(before) : both[i] = before[j]
                                     \/ \E j \in 1 .. Len(more) : both[i] = more[j]
    BY <1>0, <1>3, <1>4, <1>7, AppendFits, SMTT(30)
  <2> HIDE DEF both
  <2>2. v2' = both
    BY <1>2 DEF both
  <2> QED BY <2>1, <2>2, Zenon
<1>9. v3' # Null => \A i \in DOMAIN v2' : v2'[i] <= v3'
  <2> SUFFICES ASSUME v3' # Null, NEW i \in 1 .. Len(v2') PROVE v2'[i] <= v3'
    BY <1>8
  <2>1. v3' \in Nat
    BY <1>0, <1>4
  <2>2. \A j \in 1 .. Len(more) : more[j] <= v3'
    BY <1>4
  <2>3. ASSUME NEW j \in 1 .. Len(before) PROVE before[j] <= v3'
    <3>1. before[j] <= token /\ token <= v3' /\ token \in Nat /\ before[j] \in Nat
      BY <1>3, <1>4, <1>5, <1>6
    <3> QED BY <2>1, <3>1
  <2> QED BY <1>8, <2>2, <2>3
<1> QED BY <1>1, <1>2, <1>4, <1>8, <1>9 DEF Bucket!ListInv, Bucket!UpTo

\* Taking a file away keeps the order and lists none twice.
LEMMA DeletedFits ==
    ASSUME Bucket!ListInv, NEW d, Bucket!Deleted(d) PROVE Bucket!ListInv'
<1> USE FilesAssumed DEF Bucket!StorageAssumption
<1> DEFINE objects == v2  kept == {i \in DOMAIN objects : objects[i] # d.key}
<1>1. v1 \subseteq BucketKeys /\ objects \in Seq(BucketKeys) /\ Bucket!IsInjective(objects)
  BY DEF Bucket!ListInv
<1>2. v1' = v1 /\ v3' = v3 /\ v10' = v10
  BY DEF Bucket!Deleted
<1>3. PICK left \in Bucket!InOrder(kept) : v2' = [i \in DOMAIN left |-> objects[left[i]]]
  BY DEF Bucket!Deleted
<1>4. IsFiniteSet(kept)
  <2>1. kept \subseteq 1 .. Len(objects)
    BY <1>1
  <2> QED BY <1>1, <2>1, FS_Interval, FS_Subset
<1>10. kept \subseteq Nat
  BY <1>1
<1>5. /\ left \in Seq(kept)
      /\ \A i, j \in 1 .. Len(left) : i < j => left[i] < left[j]
  BY <1>4, <1>10, InOrderIs
<1>6. \A i \in 1 .. Len(left) : left[i] \in 1 .. Len(objects) /\ objects[left[i]] \in BucketKeys
  <2> HIDE DEF objects
  <2>1. \A i \in 1 .. Len(left) : left[i] \in kept
    BY <1>5
  <2> QED BY <1>1, <2>1
<1> HIDE DEF kept, objects
<1>7. /\ v2' \in Seq(BucketKeys) /\ Len(v2') = Len(left)
      /\ \A i \in 1 .. Len(left) : v2'[i] = objects[left[i]]
  BY <1>3, <1>5, <1>6
<1>8. Bucket!IsInjective(v2')
  <2>1. ASSUME NEW i \in 1 .. Len(left), NEW j \in 1 .. Len(left), i < j
        PROVE  v2'[i] # v2'[j]
    <3>1. left[i] < left[j]
      BY <1>5, <2>1
    <3>2. left[i] \in 1 .. Len(objects) /\ left[j] \in 1 .. Len(objects) /\ left[i] # left[j]
      BY <1>6, <3>1
    <3> QED BY <1>1, <1>7, <3>2 DEF Bucket!IsInjective
  <2>2. DOMAIN v2' = 1 .. Len(left)
    BY <1>5, <1>7
  <2> QED BY <1>5, <2>1, <2>2 DEF Bucket!IsInjective
<1>9. ASSUME NEW token, Bucket!UpTo(token)
      PROVE  token # Null => \A i \in DOMAIN v2' : v2'[i] <= token
  BY <1>1, <1>5, <1>6, <1>7, <1>9 DEF Bucket!UpTo, objects
<1> QED BY <1>1, <1>2, <1>7, <1>8, <1>9 DEF Bucket!ListInv, Bucket!UpTo

\* Each step of the page keeps the list in order.
LEMMA FilesStep ==
    Bucket!ListInv /\ [Bucket!Next]_(Bucket!vars) => Bucket!ListInv'
<1> SUFFICES ASSUME Bucket!ListInv, [Bucket!Next]_(Bucket!vars) PROVE Bucket!ListInv'
  OBVIOUS
<1> USE FilesAssumed DEF Bucket!StorageAssumption
<1>same. ASSUME v1' \subseteq BucketKeys, v2' = v2, v3' = v3, v10' = v10 PROVE Bucket!ListInv'
  BY <1>same DEF Bucket!ListInv, Bucket!UpTo
<1>1. CASE Bucket!Load
  <2>1. v10' = [token |-> Null, answer |-> Null] /\ v1' = v1 /\ v2' = v2 /\ v3' = v3
    BY <1>1 DEF Bucket!Load
  <2> QED BY <2>1 DEF Bucket!ListInv, Bucket!UpTo, Bucket!Listings
<1>2. CASE Bucket!LoadMore
  <2>1. v10' = [token |-> v3, answer |-> Null] /\ v1' = v1 /\ v2' = v2 /\ v3' = v3
    BY <1>2 DEF Bucket!LoadMore
  <2> QED BY <2>1 DEF Bucket!ListInv, Bucket!UpTo, Bucket!Listings
<1>3. CASE Bucket!BucketLists
  <2> DEFINE call == v10
  <2>1. call # Null /\ v1' = v1 /\ v2' = v2 /\ v3' = v3
    BY <1>3 DEF Bucket!BucketLists
  <2>2. PICK all \in Bucket!InOrder(Bucket!Rest(call.token)) :
            v10' = [call EXCEPT !.answer = Bucket!Page(all)]
    BY <1>3 DEF Bucket!BucketLists
  <2>3. /\ call \in Bucket!Listings
        /\ Bucket!UpTo(call.token)
    BY <2>1 DEF Bucket!ListInv
  <2>4. /\ Bucket!Page(all) \in Bucket!Answers
        /\ Bucket!AnswerFits(Bucket!Page(all), call.token)
    BY <2>2, <2>3, PageFits DEF Bucket!Listings
  <2>5. /\ v10'.token = call.token /\ v10'.answer = Bucket!Page(all)
        /\ v10' \in Bucket!Listings
    BY <2>2, <2>3, <2>4 DEF Bucket!Listings
  <2>6. Bucket!AnswerFits(v10'.answer, v10'.token)
    BY <2>4, <2>5
  <2> QED BY <2>1, <2>3, <2>5, <2>6 DEF Bucket!ListInv, Bucket!UpTo, Bucket!AnswerFits
<1>4. CASE Bucket!Listed
  BY <1>4, ListedFits
<1>5. CASE Bucket!ListFails
  <2>1. /\ v1' = v1 /\ v10' = Null
        /\ (v2' = v2 /\ v3' = v3) \/ (v2' = <<>> /\ v3' = Null)
    BY <1>5 DEF Bucket!ListFails
  <2>2. CASE v2' = v2 /\ v3' = v3
    BY <2>1, <2>2 DEF Bucket!ListInv, Bucket!UpTo
  <2>3. CASE v2' = <<>> /\ v3' = Null
    BY <2>1, <2>3 DEF Bucket!ListInv, Bucket!UpTo, Bucket!IsInjective
  <2> QED BY <2>1, <2>2, <2>3
<1>6. ASSUME NEW k \in BucketKeys, Bucket!Pick(k) \/ Bucket!Upload(k) PROVE Bucket!ListInv'
  BY <1>6, <1>same DEF Bucket!Pick, Bucket!Upload, Bucket!listVars, Bucket!ListInv
<1>7. CASE \/ Bucket!SortRows \/ Bucket!ClosePreview \/ Bucket!ToggleMenu \/ Bucket!Delete
           \/ Bucket!TextRead \/ UNCHANGED Bucket!vars
  BY <1>7, <1>same DEF Bucket!SortRows, Bucket!ClosePreview, Bucket!ToggleMenu, Bucket!Delete,
     Bucket!TextRead, Bucket!vars, Bucket!listVars, Bucket!ListInv
<1>8. ASSUME NEW d, Bucket!BucketDeletes(d) \/ Bucket!DeleteFails(d) PROVE Bucket!ListInv'
  BY <1>8, <1>same DEF Bucket!BucketDeletes, Bucket!DeleteFails, Bucket!listVars, Bucket!ListInv
<1>9. ASSUME NEW d, Bucket!Deleted(d) PROVE Bucket!ListInv'
  BY <1>9, DeletedFits
<1> QED BY <1>1, <1>2, <1>3, <1>4, <1>5, <1>6, <1>7, <1>8, <1>9 DEF Bucket!Next

\* And it is in order at the start.
LEMMA FilesInit == Bucket!Init => Bucket!ListInv
BY DEF Bucket!Init, Bucket!ListInv, Bucket!UpTo, Bucket!IsInjective, Bucket!Listings

\* However pages, deletions and uploads cross, no file is listed twice.
THEOREM FilesListedOnce == Spec => []EachFileOnce
<1> DEFINE Inv == page = "files" => Bucket!ListInv
<1>1. Init => Inv
  BY PagesStart, FilesInit
<1>2. Inv /\ [Next]_vars => Inv'
  BY PagesMove, FilesStep
<1>3. Inv => EachFileOnce
  BY DEF EachFileOnce, Bucket!ListInv, Bucket!EachFileOnce
<1> QED BY <1>1, <1>2, <1>3, PTL DEF Spec

\* What the preview shows is a file that is listed.
LEMMA FilesSelected ==
    ASSUME v2' \in Seq(BucketKeys), v7' \in BucketKeys \cup {Null}
    PROVE  Bucket!selected' \in BucketKeys \cup {Null}
<1>1. CASE ~v9' \/ v2' = <<>>
  BY <1>1, Zenon DEF Bucket!selected
<1>2. CASE v9' /\ v2' # <<>> /\ v7' \in Bucket!Range(v2')
  <2>1. Bucket!selected' = v7'
    BY <1>2, Zenon DEF Bucket!selected
  <2> QED BY <2>1
<1>3. CASE v9' /\ v2' # <<>> /\ ~ (v7' \in Bucket!Range(v2'))
  <2>1. Bucket!selected' = Bucket!rows'[1]
    BY <1>3, Zenon DEF Bucket!selected
  <2>2. /\ 1 \in 1 .. Len(v2') /\ Len(v2') \in 1 .. Len(v2')
        /\ \A i \in 1 .. Len(v2') : v2'[i] \in BucketKeys
    BY <1>3
  <2>3. Bucket!rows' = v2' \/ Bucket!rows' = Bucket!Reverse(v2')
    BY Zenon DEF Bucket!rows
  <2>4. Bucket!Reverse(v2')[1] = v2'[Len(v2')]
    BY <2>2 DEF Bucket!Reverse
  <2> QED BY <2>1, <2>2, <2>3, <2>4
<1> QED BY <1>1, <1>2, <1>3

\* What says which file is selected says it again.
LEMMA FilesSame ==
    v2' = v2 /\ v7' = v7 /\ v8' = v8 /\ v9' = v9 => Bucket!selected' = Bucket!selected
BY DEF Bucket!selected, Bucket!rows

\* What the parts of the state hold.
LEMMA FilesHold ==
    ASSUME Bucket!PreviewInv
    PROVE  /\ v3 \in BucketKeys \cup {Null}
           /\ v4 \in BOOLEAN /\ v5 \in BOOLEAN /\ v6 \in BOOLEAN /\ (v4 <=> v10 # Null)
           /\ v7 \in BucketKeys \cup {Null} /\ v13 \in 0 .. BucketMaxCalls
           /\ v11 # Null => /\ v11 \in Bucket!Preview /\ v11.key = Bucket!selected
                            /\ v11.menu => v11.key \in v14
           /\ v12 \subseteq [key : BucketKeys, selectedKey : BucketKeys \cup {Null}]
           /\ \A d \in v12 : d.key \in v14
BY Zenon DEF Bucket!PreviewInv, Bucket!TypeOK, Bucket!OnlyAskedIsDeleted

\* And that is all there is to keep, besides the list.
LEMMA FilesKept ==
    ASSUME Bucket!ListInv',
           v4' \in BOOLEAN, v5' \in BOOLEAN, v6' \in BOOLEAN, v4' <=> v10' # Null,
           v7' \in BucketKeys \cup {Null}, v13' \in 0 .. BucketMaxCalls,
           v11' # Null => /\ v11' \in Bucket!Preview /\ v11'.key = Bucket!selected'
                          /\ v11'.menu => v11'.key \in v14',
           v12' \subseteq [key : BucketKeys, selectedKey : BucketKeys \cup {Null}],
           \A d \in v12' : d.key \in v14'
    PROVE  Bucket!PreviewInv'
<1>1. v1' \subseteq BucketKeys /\ v2' \in Seq(BucketKeys) /\ v3' \in BucketKeys \cup {Null}
  BY Zenon DEF Bucket!ListInv
<1>2. Bucket!Range(v2') \subseteq BucketKeys
  BY <1>1 DEF Bucket!Range
<1>3. Bucket!TypeOK'
  BY <1>1, <1>2, Zenon DEF Bucket!TypeOK
<1>4. Bucket!OnlyAskedIsDeleted'
  BY Zenon DEF Bucket!OnlyAskedIsDeleted
<1> QED BY <1>3, <1>4, Zenon DEF Bucket!PreviewInv

\* A preview that turns to another file by itself starts anew, with its menu closed.
LEMMA FilesRemounted ==
    ASSUME Bucket!PreviewInv, v2' \in Seq(BucketKeys), v7' \in BucketKeys \cup {Null},
           v11' = Bucket!Remounted(Bucket!selected'), v14' = v14
    PROVE  v11' # Null => /\ v11' \in Bucket!Preview /\ v11'.key = Bucket!selected'
                          /\ v11'.menu => v11'.key \in v14'
<1> DEFINE key == Bucket!selected'
<1>1. key \in BucketKeys \cup {Null}
  BY FilesSelected
<1>2. CASE key = Null
  BY <1>2 DEF Bucket!Remounted
<1>3. CASE key # Null /\ v11 # Null /\ v11.key = key
  <2>1. v11' = v11
    BY <1>3 DEF Bucket!Remounted
  <2> QED BY <1>3, <2>1, FilesHold, Zenon
<1>4. CASE key # Null /\ ~ (v11 # Null /\ v11.key = key)
  <2>1. v11' = Bucket!Mounted(key)
    BY <1>4 DEF Bucket!Remounted
  <2> HIDE DEF key
  <2>2. /\ Bucket!Mounted(key) \in Bucket!Preview /\ Bucket!Mounted(key).key = key
        /\ ~Bucket!Mounted(key).menu
    BY <1>1, <1>4 DEF Bucket!Mounted, Bucket!Preview
  <2> QED BY <2>1, <2>2, Zenon DEF key
<1> QED BY <1>2, <1>3, <1>4

\* A deletion is on its way only of a file whose menu was opened.
LEMMA FilesAsked == Bucket!PreviewInv => Bucket!OnlyAskedIsDeleted
BY Zenon DEF Bucket!PreviewInv

\* At the start nothing is listed, and the first page is asked for.
LEMMA FilesBegin == Bucket!Init => Bucket!PreviewInv
<1> SUFFICES ASSUME Bucket!Init PROVE Bucket!PreviewInv
  OBVIOUS
<1> USE FilesAssumed DEF Bucket!StorageAssumption
<1>1. /\ v1 \subseteq BucketKeys /\ v2 = <<>> /\ v3 = Null /\ v7 = Null /\ v11 = Null
      /\ v12 = {} /\ v13 = 1 /\ v10 = [token |-> Null, answer |-> Null]
  BY DEF Bucket!Init
<1>2. v10 # Null
  <2>1. v10 \in Bucket!Listings
    BY <1>1 DEF Bucket!Listings
  <2> QED BY <2>1
<1>3. v4 /\ v5 \in BOOLEAN /\ v6 \in BOOLEAN /\ v4 \in BOOLEAN
  BY Zenon DEF Bucket!Init
<1>4. Bucket!Range(v2) \subseteq BucketKeys
  BY <1>1 DEF Bucket!Range
<1>5. 1 \in 0 .. BucketMaxCalls
  OBVIOUS
<1>6. Bucket!TypeOK
  BY <1>1, <1>2, <1>3, <1>4, <1>5, Zenon DEF Bucket!TypeOK
<1> QED BY <1>1, <1>6, Zenon DEF Bucket!PreviewInv, Bucket!OnlyAskedIsDeleted

\* Listings: the place of the preview may come to show another file.
LEMMA FilesListings ==
    ASSUME Bucket!ListInv, Bucket!ListInv', Bucket!PreviewInv,
           \/ Bucket!Load \/ Bucket!LoadMore \/ Bucket!BucketLists \/ Bucket!Listed
           \/ Bucket!ListFails
    PROVE  Bucket!PreviewInv'
<1>0. v2' \in Seq(BucketKeys)
  BY Zenon DEF Bucket!ListInv
<1>1. CASE Bucket!Load \/ Bucket!LoadMore
  <2>1. /\ v2' = v2 /\ v5' = v5 /\ v7' = v7 /\ v8' = v8 /\ v9' = v9 /\ v11' = v11
        /\ v12' = v12 /\ v14' = v14 /\ v13' = v13 + 1 /\ v13 < BucketMaxCalls
        /\ v10' \in {[token |-> t, answer |-> Null] : t \in {Null, v3}}
    BY <1>1 DEF Bucket!Load, Bucket!LoadMore, Bucket!choice
  <2>2. v10' # Null
    <3>1. v10' \in Bucket!Listings
      BY <2>1, FilesHold DEF Bucket!Listings
    <3> QED BY <3>1, FilesAssumed DEF Bucket!StorageAssumption
  <2>3. v4' /\ v4' \in BOOLEAN /\ v6' \in BOOLEAN
    BY <1>1, FilesHold, Zenon DEF Bucket!Load, Bucket!LoadMore
  <2>4. v13' \in 0 .. BucketMaxCalls
    BY <2>1, FilesHold, FilesAssumed DEF Bucket!StorageAssumption
  <2>5. Bucket!selected' = Bucket!selected
    BY <2>1, FilesSame
  <2> QED BY <2>1, <2>2, <2>3, <2>4, <2>5, FilesHold, FilesKept, Zenon
<1>2. CASE Bucket!BucketLists
  <2>1. /\ v2' = v2 /\ v4' = v4 /\ v5' = v5 /\ v6' = v6 /\ v7' = v7 /\ v8' = v8 /\ v9' = v9
        /\ v11' = v11 /\ v12' = v12 /\ v13' = v13 /\ v14' = v14 /\ v10 # Null
    BY <1>2, Zenon DEF Bucket!BucketLists, Bucket!choice
  <2>2. PICK all \in Bucket!InOrder(Bucket!Rest(v10.token)) :
            v10' = [v10 EXCEPT !.answer = Bucket!Page(all)]
    BY <1>2 DEF Bucket!BucketLists
  <2>3. v10' # Null
    <3>1. v10 \in Bucket!Listings /\ v10.token \in BucketKeys \cup {Null}
      BY <2>1 DEF Bucket!ListInv, Bucket!Listings
    <3>2. Bucket!Page(all) \in Bucket!Answers
      BY <2>2, <3>1, PageFits
    <3>3. v10' \in Bucket!Listings
      BY <2>2, <3>1, <3>2 DEF Bucket!Listings
    <3> QED BY <3>3, FilesAssumed DEF Bucket!StorageAssumption
  <2>4. Bucket!selected' = Bucket!selected
    BY <2>1, FilesSame
  <2> QED BY <2>1, <2>3, <2>4, FilesHold, FilesKept, Zenon
<1>3. CASE Bucket!Listed \/ Bucket!ListFails
  <2>1. /\ v7' = v7 /\ v10' = Null /\ v12' = v12 /\ v13' = v13 /\ v14' = v14
        /\ v11' = Bucket!Remounted(Bucket!selected')
    BY <1>3, Zenon DEF Bucket!Listed, Bucket!ListFails, Bucket!choice
  <2>2. ~v4' /\ v4' \in BOOLEAN /\ v5' \in BOOLEAN /\ v6' \in BOOLEAN
    BY <1>3, FilesHold, Zenon DEF Bucket!Listed, Bucket!ListFails
  <2> QED BY <1>0, <2>1, <2>2, FilesHold, FilesRemounted, FilesKept, Zenon
<1> QED BY <1>1, <1>2, <1>3

\* Deletions: one is sent from the menu of its file.
LEMMA FilesDeletions ==
    ASSUME Bucket!ListInv, Bucket!ListInv', Bucket!PreviewInv,
           \/ Bucket!Delete
           \/ \E d \in v12 : Bucket!BucketDeletes(d) \/ Bucket!Deleted(d) \/ Bucket!DeleteFails(d)
    PROVE  Bucket!PreviewInv'
<1>0. v2' \in Seq(BucketKeys)
  BY Zenon DEF Bucket!ListInv
<1>1. CASE Bucket!Delete
  <2>1. /\ v2' = v2 /\ v4' = v4 /\ v5' = v5 /\ v6' = v6 /\ v7' = v7 /\ v8' = v8 /\ v9' = v9
        /\ v10' = v10 /\ v14' = v14 /\ v11 # Null /\ v11.menu
        /\ v13' = v13 + 1 /\ v13 < BucketMaxCalls
        /\ v11' = [v11 EXCEPT !.deleting = TRUE]
        /\ v12' = v12 \cup {[key |-> v11.key, selectedKey |-> v7]}
    BY <1>1, Zenon DEF Bucket!Delete, Bucket!listVars, Bucket!choice
  <2>2. v13' \in 0 .. BucketMaxCalls
    BY <2>1, FilesHold, FilesAssumed DEF Bucket!StorageAssumption
  <2>3. Bucket!selected' = Bucket!selected
    BY <2>1, FilesSame
  <2>4. v11 \in Bucket!Preview /\ v11.key = Bucket!selected /\ v11.key \in v14
    BY <2>1, FilesHold, Zenon
  <2>5. v11' \in Bucket!Preview /\ v11'.key = v11.key
    BY <2>1, <2>4 DEF Bucket!Preview
  <2>6. [key |-> v11.key, selectedKey |-> v7]
            \in [key : BucketKeys, selectedKey : BucketKeys \cup {Null}]
    BY <2>4, FilesHold DEF Bucket!Preview
  <2>7. /\ v12' \subseteq [key : BucketKeys, selectedKey : BucketKeys \cup {Null}]
        /\ \A d \in v12' : d.key \in v14'
    BY <2>1, <2>4, <2>6, FilesHold
  <2>8. v11' # Null => /\ v11' \in Bucket!Preview /\ v11'.key = Bucket!selected'
                       /\ v11'.menu => v11'.key \in v14'
    <3>1. v11'.key \in v14' /\ v11'.key = Bucket!selected'
      BY <2>1, <2>3, <2>4, <2>5
    <3> QED BY <2>5, <3>1, Zenon
  <2> QED BY <2>1, <2>2, <2>7, <2>8, FilesHold, FilesKept, Zenon
<1>2. ASSUME NEW d \in v12, Bucket!BucketDeletes(d) PROVE Bucket!PreviewInv'
  <2>1. /\ v2' = v2 /\ v4' = v4 /\ v5' = v5 /\ v6' = v6 /\ v7' = v7 /\ v8' = v8 /\ v9' = v9
        /\ v10' = v10 /\ v11' = v11 /\ v12' = v12 /\ v13' = v13 /\ v14' = v14
    BY <1>2, Zenon DEF Bucket!BucketDeletes, Bucket!listVars, Bucket!choice
  <2>2. Bucket!selected' = Bucket!selected
    BY <2>1, FilesSame
  <2> QED BY <2>1, <2>2, FilesHold, FilesKept, Zenon
<1>3. ASSUME NEW d \in v12, Bucket!Deleted(d) PROVE Bucket!PreviewInv'
  <2>1. /\ v4' = v4 /\ v5' = v5 /\ v6' = v6 /\ v10' = v10 /\ v13' = v13 /\ v14' = v14
        /\ v12' \subseteq v12 /\ v7' \in {Null, v7}
        /\ v11' = Bucket!Remounted(Bucket!selected')
    BY <1>3, Zenon DEF Bucket!Deleted
  <2>2. v7' \in BucketKeys \cup {Null}
    BY <2>1, FilesHold
  <2>3. /\ v12' \subseteq [key : BucketKeys, selectedKey : BucketKeys \cup {Null}]
        /\ \A e \in v12' : e.key \in v14'
    BY <2>1, FilesHold, Zenon
  <2> QED BY <1>0, <2>1, <2>2, <2>3, FilesHold, FilesRemounted, FilesKept, Zenon
<1>4. ASSUME NEW d \in v12, Bucket!DeleteFails(d) PROVE Bucket!PreviewInv'
  <2>1. /\ v2' = v2 /\ v4' = v4 /\ v5' = v5 /\ v6' = v6 /\ v7' = v7 /\ v8' = v8 /\ v9' = v9
        /\ v10' = v10 /\ v13' = v13 /\ v14' = v14 /\ v12' \subseteq v12
        /\ \/ v11' = v11
           \/ v11 # Null /\ v11' = [v11 EXCEPT !.deleting = FALSE, !.menu = FALSE]
    BY <1>4, Zenon DEF Bucket!DeleteFails, Bucket!listVars, Bucket!choice
  <2>2. Bucket!selected' = Bucket!selected
    BY <2>1, FilesSame
  <2>3. v11 # Null => v11 \in Bucket!Preview /\ v11.key = Bucket!selected
    BY FilesHold
  <2>4. v11' # Null => /\ v11' \in Bucket!Preview /\ v11'.key = Bucket!selected'
                       /\ v11'.menu => v11'.key \in v14'
    <3>1. CASE v11' = v11
      BY <2>1, <2>2, <3>1, FilesHold, Zenon
    <3>2. CASE v11 # Null /\ v11' = [v11 EXCEPT !.deleting = FALSE, !.menu = FALSE]
      <4>1. v11' \in Bucket!Preview /\ v11'.key = v11.key /\ ~v11'.menu
        BY <2>3, <3>2 DEF Bucket!Preview
      <4> QED BY <2>2, <2>3, <3>2, <4>1, Zenon
    <3> QED BY <2>1, <3>1, <3>2
  <2>5. /\ v12' \subseteq [key : BucketKeys, selectedKey : BucketKeys \cup {Null}]
        /\ \A e \in v12' : e.key \in v14'
    BY <2>1, FilesHold, Zenon
  <2> QED BY <2>1, <2>4, <2>5, FilesHold, FilesKept, Zenon
<1> QED BY <1>1, <1>2, <1>3, <1>4

\* Each step of the page keeps what is said of its preview.
LEMMA FilesPreview ==
    Bucket!ListInv /\ Bucket!ListInv' /\ Bucket!PreviewInv /\ [Bucket!Next]_(Bucket!vars)
        => Bucket!PreviewInv'
<1> SUFFICES ASSUME Bucket!ListInv, Bucket!ListInv', Bucket!PreviewInv,
                    [Bucket!Next]_(Bucket!vars)
             PROVE  Bucket!PreviewInv'
  OBVIOUS
<1>0. v2' \in Seq(BucketKeys) /\ v2 \in Seq(BucketKeys)
  BY Zenon DEF Bucket!ListInv
<1>1. ASSUME NEW k \in BucketKeys, Bucket!Pick(k) PROVE Bucket!PreviewInv'
  <2>1. /\ v4' = v4 /\ v5' = v5 /\ v6' = v6 /\ v7' = k /\ v10' = v10 /\ v12' = v12
        /\ v13' = v13 /\ v14' = v14
        /\ v11' = Bucket!Remounted(Bucket!selected')
    BY <1>1, Zenon DEF Bucket!Pick, Bucket!listVars
  <2>2. v7' \in BucketKeys \cup {Null}
    BY <2>1
  <2> QED BY <1>0, <2>1, <2>2, FilesHold, FilesRemounted, FilesKept, Zenon
<1>2. ASSUME NEW k \in BucketKeys, Bucket!Upload(k) PROVE Bucket!PreviewInv'
  <2>1. /\ v2' = v2 /\ v4' = v4 /\ v5' = v5 /\ v6' = v6 /\ v7' = v7 /\ v8' = v8 /\ v9' = v9
        /\ v10' = v10 /\ v11' = v11 /\ v12' = v12 /\ v14' = v14
        /\ v13' = v13 + 1 /\ v13 < BucketMaxCalls
    BY <1>2, Zenon DEF Bucket!Upload, Bucket!listVars, Bucket!choice
  <2>2. v13' \in 0 .. BucketMaxCalls
    BY <2>1, FilesHold, FilesAssumed DEF Bucket!StorageAssumption
  <2>3. Bucket!selected' = Bucket!selected
    BY <2>1, FilesSame
  <2> QED BY <2>1, <2>2, <2>3, FilesHold, FilesKept, Zenon
<1>3. CASE Bucket!SortRows
  <2>1. /\ v4' = v4 /\ v5' = v5 /\ v6' = v6 /\ v7' = v7 /\ v10' = v10 /\ v12' = v12
        /\ v13' = v13 /\ v14' = v14
        /\ v11' = Bucket!Remounted(Bucket!selected')
    BY <1>3, Zenon DEF Bucket!SortRows, Bucket!listVars
  <2> QED BY <1>0, <2>1, FilesHold, FilesRemounted, FilesKept, Zenon
<1>4. CASE Bucket!ClosePreview
  <2>1. /\ v4' = v4 /\ v5' = v5 /\ v6' = v6 /\ v7' = v7 /\ v10' = v10 /\ v12' = v12
        /\ v13' = v13 /\ v14' = v14 /\ v11' = Null
    BY <1>4, Zenon DEF Bucket!ClosePreview, Bucket!listVars
  <2> QED BY <2>1, FilesHold, FilesKept, Zenon
<1>5. CASE Bucket!ToggleMenu
  <2>1. /\ v2' = v2 /\ v4' = v4 /\ v5' = v5 /\ v6' = v6 /\ v7' = v7 /\ v8' = v8 /\ v9' = v9
        /\ v10' = v10 /\ v12' = v12 /\ v13' = v13 /\ v14' = v14 \cup {v11.key}
        /\ v11 # Null /\ v11' = [v11 EXCEPT !.menu = ~v11.menu]
    BY <1>5 DEF Bucket!ToggleMenu, Bucket!listVars, Bucket!choice
  <2>2. Bucket!selected' = Bucket!selected
    BY <2>1, FilesSame
  <2>3. v11 \in Bucket!Preview /\ v11.key = Bucket!selected
    BY <2>1, FilesHold, Zenon
  <2>4. v11' \in Bucket!Preview /\ v11'.key = v11.key
    BY <2>1, <2>3 DEF Bucket!Preview
  <2>5. v11.key \in v14' /\ \A d \in v12' : d.key \in v14'
    BY <2>1, FilesHold, Zenon
  <2> QED BY <2>1, <2>2, <2>3, <2>4, <2>5, FilesHold, FilesKept, Zenon
<1>6. CASE Bucket!TextRead
  <2>1. /\ v2' = v2 /\ v4' = v4 /\ v5' = v5 /\ v6' = v6 /\ v7' = v7 /\ v8' = v8 /\ v9' = v9
        /\ v10' = v10 /\ v12' = v12 /\ v13' = v13 /\ v14' = v14 /\ v11 # Null
    BY <1>6, Zenon DEF Bucket!TextRead, Bucket!listVars, Bucket!choice
  <2>2. PICK t \in {"text", "truncated", "error"} : v11' = [v11 EXCEPT !.text = t]
    BY <1>6 DEF Bucket!TextRead
  <2>3. Bucket!selected' = Bucket!selected
    BY <2>1, FilesSame
  <2>4. v11 \in Bucket!Preview /\ v11.key = Bucket!selected /\ (v11.menu => v11.key \in v14)
    BY <2>1, FilesHold, Zenon
  <2>5. v11' \in Bucket!Preview /\ v11'.key = v11.key /\ v11'.menu = v11.menu
    BY <2>2, <2>4 DEF Bucket!Preview
  <2> QED BY <2>1, <2>3, <2>4, <2>5, FilesHold, FilesKept, Zenon
<1>7. CASE UNCHANGED Bucket!vars
  <2>1. /\ v2' = v2 /\ v4' = v4 /\ v5' = v5 /\ v6' = v6 /\ v7' = v7 /\ v8' = v8 /\ v9' = v9
        /\ v10' = v10 /\ v11' = v11 /\ v12' = v12 /\ v13' = v13 /\ v14' = v14
    BY <1>7, Zenon DEF Bucket!vars, Bucket!listVars, Bucket!choice
  <2>2. Bucket!selected' = Bucket!selected
    BY <2>1, FilesSame
  <2> QED BY <2>1, <2>2, FilesHold, FilesKept, Zenon
<1> QED BY <1>1, <1>2, <1>3, <1>4, <1>5, <1>6, <1>7, FilesListings, FilesDeletions, Zenon
        DEF Bucket!Next

-------------------------------------------------------------------------------
(***************************************************************************)
(* AppSettings: v1 is the server's domain, v4 the one shown, v5 and v6 the *)
(* poll and the check, v10 the changes on their way, v11 the file picked,  *)
(* v12 whether it was asked about, v13 the file it was asked about for.    *)
(***************************************************************************)
\* What the parts of the state hold.
LEMMA SettingsHold ==
    ASSUME Settings!RestoreInv
    PROVE  /\ v1 \in Settings!Dom /\ v2 \in Settings!SECTIONS \cup {"down", "left"}
           /\ v4 = Null \/ v4 \in Settings!Dom
           /\ v5 \in Settings!Get /\ v6 \in Settings!Get
           /\ v7 \in SettingsDomains \cup {Null} /\ v10 \subseteq Settings!Changes
           /\ v11 \in SettingsFiles \cup {Null} /\ (v12 => v13 = v11)
           /\ v19 \in 0 .. SettingsMaxCalls
BY Zenon DEF Settings!RestoreInv, Settings!TypeOK, Settings!loading

\* And that is all there is to keep.
LEMMA SettingsKept ==
    ASSUME v1' \in Settings!Dom, v2' \in Settings!SECTIONS \cup {"down", "left"},
           v4' = Null \/ v4' \in Settings!Dom,
           v5' \in Settings!Get, v6' \in Settings!Get,
           v7' \in SettingsDomains \cup {Null}, v10' \subseteq Settings!Changes,
           v11' \in SettingsFiles \cup {Null}, v12' => v13' = v11',
           v19' \in 0 .. SettingsMaxCalls
    PROVE  Settings!RestoreInv'
<1>1. Settings!OffButton' \in {"none", "off", "again"}
  BY DEF Settings!OffButton
<1>2. Settings!RestoreButton' \in {"pick", "restore", "again"}
  BY DEF Settings!RestoreButton
<1>3. Settings!records' \subseteq {"CNAME"}
  BY DEF Settings!records
<1>4. Settings!TypeOK'
  BY <1>1, <1>2, <1>3, Zenon DEF Settings!TypeOK, Settings!loading
<1> QED BY <1>4, Zenon DEF Settings!RestoreInv

\* What a restore is asked for twice it is asked for one file.
LEMMA SettingsConfirm == Settings!RestoreInv => Settings!ConfirmedFile
<1> SUFFICES ASSUME Settings!RestoreInv PROVE Settings!ConfirmedFile
  OBVIOUS
<1>1. Settings!RestoreButton = "again" => v12
  BY DEF Settings!RestoreButton
<1>2. ASSUME NEW c \in v10, c.what = "restore" PROVE c.arg \in SettingsFiles
  <2>1. c \in Settings!Changes
    BY SettingsHold
  <2> QED BY <1>2, <2>1 DEF Settings!Changes
<1> QED BY <1>1, <1>2, SettingsHold, Zenon DEF Settings!ConfirmedFile

\* At the start nothing is picked.
LEMMA SettingsInit == Settings!Init => Settings!RestoreInv
<1> SUFFICES ASSUME Settings!Init PROVE Settings!RestoreInv
  OBVIOUS
<1> USE PageAssumptions DEF Settings!SettingsAssumption
<1>1. v5 \in Settings!Get /\ v6 \in Settings!Get
  BY DEF Settings!Init, Settings!Get, Settings!Sent, Settings!NoGet, Settings!Dom
<1>2. /\ v1 \in Settings!Dom /\ v2 = "domain" /\ v4 = Null /\ v7 = Null /\ v10 = {}
      /\ v11 = Null /\ v19 = 0
  BY DEF Settings!Init
<1>3. ~v12
  BY Zenon DEF Settings!Init
<1>4. Settings!OffButton \in {"none", "off", "again"}
  BY DEF Settings!OffButton
<1>5. Settings!RestoreButton \in {"pick", "restore", "again"}
  BY DEF Settings!RestoreButton
<1>6. Settings!records \subseteq {"CNAME"}
  BY DEF Settings!records
<1>7. "domain" \in Settings!SECTIONS /\ 0 \in 0 .. SettingsMaxCalls
  BY DEF Settings!SECTIONS
<1>8. Settings!TypeOK
  BY <1>1, <1>2, <1>4, <1>5, <1>6, <1>7, Zenon DEF Settings!TypeOK, Settings!loading
<1> QED BY <1>2, <1>3, <1>8, Zenon DEF Settings!RestoreInv

\* The poll and the check bring the server's domain.
LEMMA SettingsReads ==
    ASSUME Settings!RestoreInv,
           \/ Settings!PollRead \/ Settings!PollAnswered \/ Settings!PollFails
           \/ Settings!PollAgain \/ Settings!onCheck \/ Settings!CheckRead
           \/ Settings!CheckAnswered \/ Settings!CheckFails
    PROVE  Settings!RestoreInv'
<1> USE SettingsHold
<1>1. /\ v1' = v1 /\ v2' = v2 /\ v7' = v7 /\ v10' = v10
      /\ v11' = v11 /\ v12' = v12 /\ v13' = v13 /\ v19' = v19
  BY Zenon DEF Settings!PollRead, Settings!PollAnswered, Settings!PollFails,
     Settings!PollAgain, Settings!onCheck, Settings!CheckRead, Settings!CheckAnswered,
     Settings!CheckFails, Settings!domainRest, Settings!storageVars
<1>2. /\ Settings!NoGet \in Settings!Get /\ Settings!Sent \in Settings!Get
      /\ [at |-> "back", got |-> v1] \in Settings!Get
      /\ v5.got \in Settings!Dom /\ v6.got \in Settings!Dom
      /\ Settings!NoDomain \in Settings!Dom
  BY DEF Settings!Get, Settings!Sent, Settings!NoGet, Settings!Dom
<1>3. /\ v5' \in {v5, Settings!NoGet, Settings!Sent, [at |-> "back", got |-> v1]}
      /\ v6' \in {v6, Settings!NoGet, Settings!Sent, [at |-> "back", got |-> v1]}
      /\ v4' \in {v4, v5.got, v6.got, Settings!NoDomain}
  BY Zenon DEF Settings!PollRead, Settings!PollAnswered, Settings!PollFails,
     Settings!PollAgain, Settings!onCheck, Settings!CheckRead, Settings!CheckAnswered,
     Settings!CheckFails
<1>4. v5' \in Settings!Get /\ v6' \in Settings!Get /\ (v4' = Null \/ v4' \in Settings!Dom)
  BY <1>2, <1>3, Zenon
<1> QED BY <1>1, <1>4, SettingsKept, Zenon

\* Requests of the open section: the file of a restore is the one picked.
LEMMA SettingsCalls ==
    ASSUME Settings!RestoreInv,
           \/ Settings!onConnect \/ Settings!onDisconnect \/ Settings!onRestore
    PROVE  Settings!RestoreInv'
<1> USE SettingsHold
<1>1. ASSUME NEW what, NEW arg, Settings!Call(what, arg),
             [what |-> what, arg |-> arg, mine |-> TRUE] \in Settings!Changes
      PROVE  v10' \subseteq Settings!Changes /\ v19' \in 0 .. SettingsMaxCalls
  <2>1. v10' \subseteq Settings!Changes
    BY <1>1, Zenon DEF Settings!Call
  <2>2. v19' \in 0 .. SettingsMaxCalls
    BY <1>1, PageAssumptions DEF Settings!Call, Settings!SettingsAssumption
  <2> QED BY <2>1, <2>2
<1>2. CASE Settings!onConnect
  <2>1. /\ v1' = v1 /\ v2' = v2 /\ v4' = v4 /\ v5' = v5 /\ v6' = v6 /\ v7' = v7
        /\ v11' = v11 /\ v12' = v12 /\ v13' = v13
        /\ Settings!Call("put", v7) /\ v7 # Null
    BY <1>2, Zenon DEF Settings!onConnect, Settings!domainVars, Settings!storageVars
  <2>2. [what |-> "put", arg |-> v7, mine |-> TRUE] \in Settings!Changes
    BY <2>1 DEF Settings!Changes
  <2> QED BY <1>1, <2>1, <2>2, SettingsKept, Zenon
<1>3. CASE Settings!onDisconnect
  <2>1. /\ v1' = v1 /\ v2' = v2 /\ v4' = v4 /\ v5' = v5 /\ v6' = v6 /\ v7' = v7
        /\ v11' = v11 /\ v12' = v12 /\ v13' = v13
        /\ Settings!Call("delete", Null) \/ (v10' = v10 /\ v19' = v19)
    BY <1>3, Zenon DEF Settings!onDisconnect, Settings!storageVars
  <2>2. [what |-> "delete", arg |-> Null, mine |-> TRUE] \in Settings!Changes
    BY DEF Settings!Changes
  <2> QED BY <1>1, <2>1, <2>2, SettingsKept, Zenon
<1>4. CASE Settings!onRestore
  <2>1. /\ v1' = v1 /\ v2' = v2 /\ v4' = v4 /\ v5' = v5 /\ v6' = v6 /\ v7' = v7
        /\ v11' = v11 /\ v11 # Null
        /\ \/ Settings!Call("restore", v11) /\ v12' = v12 /\ v13' = v13
           \/ v13' = v11 /\ v10' = v10 /\ v19' = v19
    BY <1>4, Zenon DEF Settings!onRestore, Settings!storageRest, Settings!domainVars
  <2>2. [what |-> "restore", arg |-> v11, mine |-> TRUE] \in Settings!Changes
    BY <2>1 DEF Settings!Changes
  <2>3. v12' => v13' = v11'
    BY <2>1, Zenon
  <2>4. v10' \subseteq Settings!Changes /\ v19' \in 0 .. SettingsMaxCalls
    BY <1>1, <2>1, <2>2, Zenon
  <2> QED BY <2>1, <2>3, <2>4, SettingsKept, Zenon
<1> QED BY <1>2, <1>3, <1>4

\* Their answers.
LEMMA SettingsAnswers ==
    ASSUME Settings!RestoreInv, NEW c \in v10,
           \/ Settings!Changed(c) \/ Settings!ChangeFails(c) \/ Settings!Restored(c)
    PROVE  Settings!RestoreInv'
<1> USE SettingsHold
<1>1. /\ v2' = v2 /\ v5' = v5 /\ v6' = v6 /\ v10' \subseteq v10 /\ v11' = v11
      /\ v13' = v13 /\ v19' = v19
  BY DEF Settings!Changed, Settings!ChangeFails, Settings!Restored, Settings!storageVars,
     Settings!storageRest, Settings!domainVars
<1>2. v12' => v12
  BY Zenon DEF Settings!Changed, Settings!ChangeFails, Settings!Restored, Settings!storageVars
<1>3. c.what \in {"put", "delete"} => Settings!After(c) \in Settings!Dom
  <2>1. c \in Settings!Changes
    OBVIOUS
  <2> QED BY <2>1 DEF Settings!After, Settings!Changes, Settings!Dom
<1>4. /\ v1' \in {v1, Settings!After(c)} /\ v4' \in {v4, Settings!After(c)}
      /\ v7' \in {v7, Null}
      /\ c.what = "restore" => v1' = v1 /\ v4' = v4
  BY DEF Settings!Changed, Settings!ChangeFails, Settings!Restored, Settings!storageRest,
     Settings!domainVars
<1>5. c.what = "restore" \/ c.what \in {"put", "delete"}
  BY Zenon DEF Settings!Changed, Settings!ChangeFails, Settings!Restored
<1>6. v1' \in Settings!Dom /\ (v4' = Null \/ v4' \in Settings!Dom)
  BY <1>3, <1>4, <1>5, Zenon
<1> QED BY <1>1, <1>2, <1>4, <1>6, SettingsKept, Zenon

\* Each step of the tab keeps what is said of it.
LEMMA SettingsStep ==
    Settings!RestoreInv /\ [Settings!Next]_(Settings!vars) => Settings!RestoreInv'
<1> SUFFICES ASSUME Settings!RestoreInv, [Settings!Next]_(Settings!vars)
             PROVE  Settings!RestoreInv'
  OBVIOUS
<1> USE SettingsHold
<1>1. ASSUME NEW s \in Settings!SECTIONS, Settings!select(s) PROVE Settings!RestoreInv'
  <2>1. /\ v1' = v1 /\ v4' = Null /\ v6' = Settings!NoGet /\ v7' = Null /\ v11' = Null
        /\ v19' = v19
        /\ v2' \in {"down", s} /\ v5' \in {Settings!Sent, Settings!NoGet}
        /\ v10' = {[c EXCEPT !.mine = FALSE] : c \in v10}
    BY <1>1 DEF Settings!select, Settings!Fresh
  <2>2. ~v12'
    BY <1>1, Zenon DEF Settings!select, Settings!Fresh
  <2>3. v10' \subseteq Settings!Changes
    <3>1. ASSUME NEW c \in Settings!Changes
          PROVE  [c EXCEPT !.mine = FALSE] \in Settings!Changes
      BY DEF Settings!Changes
    <3> QED BY <2>1, <3>1, Zenon
  <2>4. Settings!Sent \in Settings!Get /\ Settings!NoGet \in Settings!Get
    BY DEF Settings!Get, Settings!Sent, Settings!NoGet, Settings!Dom
  <2> QED BY <2>1, <2>2, <2>3, <2>4, SettingsKept, Zenon
<1>2. CASE Settings!Verified
  <2>1. /\ v2' = v2 /\ v4' = v4 /\ v5' = v5 /\ v6' = v6 /\ v7' = v7 /\ v10' = v10
        /\ v11' = v11 /\ v12' = v12 /\ v13' = v13 /\ v19' = v19
    BY <1>2, Zenon DEF Settings!Verified, Settings!domainVars, Settings!storageVars
  <2>2. v1' \in Settings!Dom
    <3>1. v1.status = "pending" /\ v1' = [v1 EXCEPT !.status = "active"]
      BY <1>2 DEF Settings!Verified
    <3>2. Null # "pending"
      BY PageAssumptions DEF Settings!SettingsAssumption
    <3> QED BY <3>1, <3>2 DEF Settings!Dom, Settings!NoDomain
  <2> QED BY <2>1, <2>2, SettingsKept, Zenon
<1>3. ASSUME NEW d \in SettingsDomains, Settings!Draft(d) PROVE Settings!RestoreInv'
  <2>1. /\ v1' = v1 /\ v2' = v2 /\ v4' = v4 /\ v5' = v5 /\ v6' = v6 /\ v7' = d
        /\ v10' = v10 /\ v11' = v11 /\ v12' = v12 /\ v13' = v13 /\ v19' = v19
    BY <1>3, Zenon DEF Settings!Draft, Settings!storageVars
  <2> QED BY <2>1, SettingsKept, Zenon
<1>4. CASE Settings!StartEdit
  <2>1. /\ v1' = v1 /\ v2' = v2 /\ v4' = v4 /\ v5' = v5 /\ v6' = v6
        /\ v7' = Settings!domain
        /\ v10' = v10 /\ v11' = v11 /\ v12' = v12 /\ v13' = v13 /\ v19' = v19
    BY <1>4, Zenon DEF Settings!StartEdit, Settings!storageVars
  <2>2. Settings!domain \in SettingsDomains \cup {Null}
    <3>1. v4 # Null
      BY <1>4 DEF Settings!StartEdit, Settings!loading
    <3> QED BY <3>1 DEF Settings!domain, Settings!loading, Settings!Dom, Settings!NoDomain
  <2> QED BY <2>1, <2>2, SettingsKept, Zenon
<1>5. CASE Settings!CancelEdit \/ Settings!Blur
  <2>1. /\ v1' = v1 /\ v2' = v2 /\ v4' = v4 /\ v5' = v5 /\ v6' = v6 /\ v7' \in {v7, Null}
        /\ v10' = v10 /\ v11' = v11 /\ v12' = v12 /\ v13' = v13 /\ v19' = v19
    BY <1>5, Zenon DEF Settings!CancelEdit, Settings!Blur, Settings!storageVars
  <2> QED BY <2>1, SettingsKept, Zenon
<1>6. ASSUME NEW f \in SettingsFiles, Settings!onPick(f) PROVE Settings!RestoreInv'
  <2>1. /\ v1' = v1 /\ v2' = v2 /\ v4' = v4 /\ v5' = v5 /\ v6' = v6 /\ v7' = v7
        /\ v10' = v10 /\ v11' = f /\ ~v12' /\ v19' = v19
    BY <1>6, Zenon DEF Settings!onPick, Settings!storageRest, Settings!domainVars
  <2> QED BY <2>1, SettingsKept, Zenon
<1>7. CASE Settings!Unpick
  <2>1. /\ v1' = v1 /\ v2' = v2 /\ v4' = v4 /\ v5' = v5 /\ v6' = v6 /\ v7' = v7
        /\ v10' = v10 /\ v11' = Null /\ ~v12' /\ v19' = v19
    BY <1>7, Zenon DEF Settings!Unpick, Settings!storageRest, Settings!domainVars
  <2> QED BY <2>1, SettingsKept, Zenon
<1>8. CASE \/ Settings!ToggleDelete \/ Settings!TypeName \/ Settings!handleDelete
           \/ Settings!Deleted \/ Settings!DeleteFails \/ UNCHANGED Settings!vars
  <2>1. /\ v1' = v1 /\ v2' \in {v2, "left"} /\ v4' = v4 /\ v5' = v5 /\ v6' = v6 /\ v7' = v7
        /\ v10' = v10 /\ v11' = v11 /\ v12' = v12 /\ v13' = v13 /\ v19' = v19
    BY <1>8, Zenon DEF Settings!ToggleDelete, Settings!TypeName, Settings!handleDelete,
       Settings!Deleted, Settings!DeleteFails, Settings!vars, Settings!deleteRest,
       Settings!domainVars, Settings!storageVars, Settings!deleteVars
  <2> QED BY <2>1, SettingsKept, Zenon
<1> QED BY <1>1, <1>2, <1>3, <1>4, <1>5, <1>6, <1>7, <1>8, SettingsReads, SettingsCalls,
           SettingsAnswers, Zenon DEF Settings!Next
-------------------------------------------------------------------------------
(***************************************************************************)
(* FrontendForm: v1 are the rows of the builds, v2 is the server that is   *)
(* deployed, v5 and v6 the request of the list and its answer, v8 what the *)
(* form holds, v12 whether it is being submitted, v14 what it declared,    *)
(* v15 the page and v16 whether the form is known to be stale.             *)
(***************************************************************************)
\* The newest row of a server is the one that was put in front.
LEMMA NewestIsFirst ==
    ASSUME v1 \in Seq(Frontend!Row), NEW d \in FrontendDecls,
           v1' = <<Frontend!ServerRow(d)>> \o v1
    PROVE  v1' \in Seq(Frontend!Row) /\ Frontend!newestServer(v1') = d
<1>1. Frontend!ServerRow(d) \in Frontend!Row
  BY DEF Frontend!ServerRow, Frontend!Row, Frontend!Slots
<1>2. /\ v1' \in Seq(Frontend!Row) /\ Len(v1') = Len(v1) + 1
      /\ v1'[1] = Frontend!ServerRow(d)
  BY <1>1
<1> DEFINE at == {i \in DOMAIN v1' : v1'[i].slot \in Frontend!real \ {"site"}}
<1>3. at \subseteq Nat /\ 1 \in at /\ \A j \in at : 1 <= j
  BY <1>2 DEF Frontend!ServerRow, Frontend!real, Frontend!Slots
<1>4. (CHOOSE i \in at : \A j \in at : i <= j) = 1
  <2> HIDE DEF at
  <2>1. \A i \in at : (\A j \in at : i <= j) => i = 1
    BY <1>3
  <2> QED BY <1>3, <2>1
<1> QED BY <1>2, <1>3, <1>4 DEF Frontend!newestServer, Frontend!find, Frontend!ServerRow

\* Nothing has been deployed when the form is opened.
LEMMA FrontendInit == Frontend!Init => Frontend!FormInv
<1> SUFFICES ASSUME Frontend!Init PROVE Frontend!FormInv
  OBVIOUS
<1>1. v1 \in Seq(Frontend!Row)
  <2> DEFINE Row == Frontend!Row
  <2>1. Frontend!SiteRow \in Row /\ Frontend!EnvRow \in Row
    BY DEF Frontend!Row, Frontend!Slots, Frontend!SiteRow, Frontend!EnvRow
  <2>2. \A d \in FrontendDecls : Frontend!ServerRow(d) \in Row
    BY DEF Frontend!Row, Frontend!Slots, Frontend!ServerRow
  <2>3. \A a, b, c \in Row : <<>> \in Seq(Row) /\ <<a>> \in Seq(Row) /\ <<a, b, c>> \in Seq(Row)
    <3> HIDE DEF Row
    <3> QED OBVIOUS
  <2>4. Frontend!Histories \subseteq Seq(Row)
    BY <2>1, <2>2, <2>3, Zenon DEF Frontend!Histories
  <2> QED BY <2>4 DEF Frontend!Init
<1>2. v1 = <<>> => Frontend!newestServer(v1) = Null
  BY DEF Frontend!newestServer, Frontend!find
<1> QED BY <1>1, <1>2 DEF Frontend!Init, Frontend!FormInv

\* Each step of the page, and of others, keeps it.
LEMMA FrontendStep ==
    Frontend!FormInv /\ [Frontend!Next]_(Frontend!vars) => Frontend!FormInv'
<1> SUFFICES ASSUME Frontend!FormInv, [Frontend!Next]_(Frontend!vars) PROVE Frontend!FormInv'
  OBVIOUS
<1> USE DEF Frontend!FormInv, Frontend!formRest
<1>1. ASSUME NEW d \in FrontendDecls, Frontend!OthersDeploy(d) PROVE Frontend!FormInv'
  <2>1. v15 = "form" => v1' \in Seq(Frontend!Row) /\ Frontend!newestServer(v1') = d
    BY <1>1, NewestIsFirst DEF Frontend!OthersDeploy
  <2> QED BY <1>1, <2>1 DEF Frontend!OthersDeploy, Frontend!formVars, Frontend!newestServer
<1>2. CASE Frontend!OthersRemove
  <2>1. Frontend!SiteRow \in Frontend!Row
    BY DEF Frontend!SiteRow, Frontend!Row, Frontend!Slots
  <2>2. v16' = TRUE /\ v5' = v5 /\ v15' = v15 /\ (v15 = "form" => v1' \in Seq(Frontend!Row))
    BY <1>2, <2>1 DEF Frontend!OthersRemove, Frontend!formVars
  <2> QED BY <2>2
<1>3. CASE Frontend!ListRead
  BY <1>3 DEF Frontend!ListRead, Frontend!newestServer
<1>4. CASE Frontend!ListAnswered
  BY <1>4 DEF Frontend!ListAnswered, Frontend!newestServer
<1>5. CASE Frontend!ListFails
  BY <1>5 DEF Frontend!ListFails
<1>6. ASSUME NEW v, Frontend!TypeRepo(v) \/ Frontend!EditEnv(v) PROVE Frontend!FormInv'
  BY <1>6 DEF Frontend!TypeRepo, Frontend!EditEnv, Frontend!newestServer
<1>7. CASE Frontend!handleSubmit
  BY <1>7 DEF Frontend!handleSubmit, Frontend!disabled, Frontend!newestServer
<1>8. CASE Frontend!Accepted
  BY <1>8 DEF Frontend!Accepted
<1>9. CASE Frontend!Refused \/ Frontend!Cancel
  BY <1>9 DEF Frontend!Refused, Frontend!Cancel, Frontend!newestServer
<1>10. CASE UNCHANGED Frontend!vars
  BY <1>10 DEF Frontend!vars, Frontend!formVars, Frontend!newestServer
<1> QED BY <1>1, <1>2, <1>3, <1>4, <1>5, <1>6, <1>7, <1>8, <1>9, <1>10 DEF Frontend!Next

\* A press that declares a server declares the one that is deployed.
LEMMA FrontendKeeps ==
    Frontend!FormInv /\ [Frontend!Next]_(Frontend!vars) => Frontend!ServerKept
<1> SUFFICES ASSUME Frontend!FormInv, [Frontend!Next]_(Frontend!vars),
                    v15 = "form", v15' # "form", ~v16
             PROVE  v2' = v2
  BY DEF Frontend!ServerKept
<1>1. Frontend!Accepted \/ Frontend!Cancel
  BY DEF Frontend!Next, Frontend!vars, Frontend!formVars, Frontend!formRest, Frontend!OthersDeploy,
     Frontend!OthersRemove, Frontend!ListRead, Frontend!ListAnswered, Frontend!ListFails,
     Frontend!TypeRepo, Frontend!EditEnv, Frontend!handleSubmit, Frontend!Refused
<1>2. CASE Frontend!Accepted
  BY <1>2 DEF Frontend!Accepted, Frontend!FormInv
<1>3. CASE Frontend!Cancel
  BY <1>3 DEF Frontend!Cancel, Frontend!formRest
<1> QED BY <1>1, <1>2, <1>3

\* Deploying a frontend leaves the server as it is, whatever histories of builds
\* an app has and however often others deploy meanwhile.
THEOREM ServersKept == Spec => ServerKept
<1> DEFINE Inv == page = "frontend" => Frontend!FormInv
<1>1. Init => Inv
  BY PagesStart, FrontendInit
<1>2. Inv /\ [Next]_vars => Inv'
  BY PagesMove, FrontendStep
<1>3. Inv /\ [Next]_vars => [page = "frontend" => Frontend!ServerKept]_vars
  BY PagesMove, FrontendKeeps
<1> QED BY <1>1, <1>2, <1>3, PTL DEF Spec, ServerKept

-------------------------------------------------------------------------------
(***************************************************************************)
(* WorkspaceViews: v1 is the role, v3 whether a build is known, v4 the     *)
(* features, v6 the views opened, v9 and v12 the terminals opened, v10 the *)
(* labels of the terminals, v13 their sockets, v14 those that are closing. *)
(***************************************************************************)
\* What the module assumes of its constants.
LEMMA ViewsAssumed == Views!ViewsAssumption
BY PageAssumptions

\* A terminal has a socket when it is on the page.
SocketsMounted == \A t \in Views!Terminals : v13[t] # "none" <=> t \in Views!Mounted

\* The part of the invariant that the choice of views and terminals keeps.
ViewsChosen ==
    /\ v5 \in {"console", "db", "storage", "metrics"} /\ v5 \in v6
    /\ v8 \in v9 /\ v9 \subseteq {"app", "db", "redis"}
    /\ v12 => "db" \in v6

\* The part about the sockets and their labels.
ViewsLabelled ==
    /\ v10 \in [Views!Terminals -> {"unset", "connecting", "open", "closed"}]
    /\ v13 \in [Views!Terminals -> {"none", "connecting", "open", "closed"}]
    /\ v14 \subseteq Views!Terminals
    /\ \A t \in Views!Terminals : v10[t] = "open" => v13[t] = "open" \/ t \in v14
    /\ v10["shell"] = "unset"

\* The invariant of the module in the parts the proofs use.
LEMMA ViewsParts == Views!ViewsInv <=> SocketsMounted /\ ViewsChosen /\ ViewsLabelled
<1>1. ASSUME ViewsChosen, NEW t \in Views!Terminals
      PROVE  t \in Views!Mounted <=>
                 /\ v3 /\ v1 = "owner"
                 /\ IF t = "shell" THEN v12
                    ELSE "console" \in v6 /\ t \in v9 \cap Views!targets(v4)
  BY <1>1 DEF ViewsChosen, Views!Mounted, Views!Terminals
<1> QED BY <1>1 DEF Views!ViewsInv, Views!TypeOK, Views!SocketsAsked, SocketsMounted, ViewsChosen,
              ViewsLabelled

\* The effects of the terminals after a step that calls none of them connected.
LEMMA ConnectKeeps ==
    ASSUME SocketsMounted, ViewsLabelled, Views!Connect,
           v10' \in [Views!Terminals -> {"unset", "connecting", "open", "closed"}],
           v10'["shell"] = v10["shell"],
           \A t \in Views!Terminals : v10'[t] = "open" => v10[t] = "open"
    PROVE  SocketsMounted' /\ ViewsLabelled'
<1>1. v13' = [t \in Views!Terminals |-> IF t \notin Views!Mounted' THEN "none"
                                        ELSE IF t \notin Views!Mounted THEN "connecting"
                                        ELSE v13[t]]
  BY DEF Views!Connect
<1>2. v14' = v14 \cup {t \in Views!Mounted \ Views!Mounted' : v13[t] \in {"connecting", "open"}}
  BY DEF Views!Connect
<1>3. SocketsMounted'
  BY <1>1 DEF SocketsMounted
<1>4. v14' \subseteq Views!Terminals
  <2>1. Views!Mounted \subseteq Views!Terminals
    BY DEF Views!Mounted, Views!Terminals, Views!targets
  <2> QED BY <1>2, <2>1 DEF ViewsLabelled
<1>5. v13' \in [Views!Terminals -> {"none", "connecting", "open", "closed"}]
  BY <1>1 DEF ViewsLabelled
<1>6. ASSUME NEW t \in Views!Terminals, v10'[t] = "open", t \notin v14'
      PROVE  v13'[t] = "open"
  <2>1. v13[t] = "open" /\ t \in Views!Mounted
    BY <1>2, <1>6 DEF ViewsLabelled, SocketsMounted
  <2>2. t \in Views!Mounted'
    BY <1>2, <1>6, <2>1
  <2> QED BY <1>1, <2>1, <2>2
<1> QED BY <1>3, <1>4, <1>5, <1>6 DEF ViewsLabelled

\* What the far end does to a socket is said on its label.
LEMMA FarEndKeeps ==
    ASSUME SocketsMounted, ViewsLabelled, NEW t \in Views!Terminals,
           Views!SocketOpens(t) \/ Views!SocketCloses(t) \/ Views!LateClose(t)
    PROVE  SocketsMounted' /\ ViewsLabelled'
<1>1. Views!Mounted' = Views!Mounted
  BY DEF Views!SocketOpens, Views!SocketCloses, Views!LateClose, Views!appVars, Views!viewVars,
     Views!Mounted, Views!targets
<1>2. CASE Views!SocketOpens(t)
  <2>1. /\ v13[t] = "connecting" /\ v13' = [v13 EXCEPT ![t] = "open"] /\ v14' = v14
        /\ v10' = IF t = "shell" THEN v10 ELSE [v10 EXCEPT ![t] = "open"]
    BY <1>2 DEF Views!SocketOpens, Views!Label
  <2> QED BY <1>1, <2>1 DEF SocketsMounted, ViewsLabelled
<1>3. CASE Views!SocketCloses(t)
  <2>1. /\ v13[t] \in {"connecting", "open"} /\ v13' = [v13 EXCEPT ![t] = "closed"] /\ v14' = v14
        /\ v10' = IF t = "shell" THEN v10 ELSE [v10 EXCEPT ![t] = "closed"]
    BY <1>3 DEF Views!SocketCloses, Views!Label
  <2> QED BY <1>1, <2>1 DEF SocketsMounted, ViewsLabelled
<1>4. CASE Views!LateClose(t)
  <2>1. /\ v13' = v13 /\ v14' = v14 \ {t}
        /\ v10' = IF t = "shell" THEN v10 ELSE [v10 EXCEPT ![t] = "closed"]
    BY <1>4 DEF Views!LateClose, Views!Label
  <2> QED BY <1>1, <2>1 DEF SocketsMounted, ViewsLabelled
<1> QED BY <1>2, <1>3, <1>4

\* No terminal is open at the start.
LEMMA ViewsInit == Views!Init => Views!ViewsInv
<1> SUFFICES ASSUME Views!Init PROVE SocketsMounted /\ ViewsChosen /\ ViewsLabelled
  BY ViewsParts
<1>1. ViewsChosen
  BY DEF Views!Init, ViewsChosen, Views!views
<1>2. SocketsMounted /\ ViewsLabelled
  BY DEF Views!Init, SocketsMounted, ViewsLabelled, Views!Terminals
<1> QED BY <1>1, <1>2

\* Each step keeps the sockets with the terminals on the page.
LEMMA ViewsStep == Views!ViewsInv /\ [Views!Next]_(Views!vars) => Views!ViewsInv'
<1> SUFFICES ASSUME SocketsMounted, ViewsChosen, ViewsLabelled, [Views!Next]_(Views!vars)
             PROVE  SocketsMounted' /\ ViewsChosen' /\ ViewsLabelled'
  <2>1. Views!ViewsInv' <=> SocketsMounted' /\ ViewsChosen' /\ ViewsLabelled'
    BY ViewsParts, PTL
  <2> QED BY <2>1, ViewsParts, Zenon
<1> DEFINE Goal == SocketsMounted' /\ ViewsChosen' /\ ViewsLabelled'
<1>same. ASSUME v10' = v10, Views!Connect PROVE SocketsMounted' /\ ViewsLabelled'
  BY <1>same, ConnectKeeps DEF ViewsLabelled
<1>1. CASE Views!BuildsChange
  BY <1>1, <1>same DEF Views!BuildsChange, Views!viewVars, ViewsChosen
<1>2. ASSUME NEW id \in {"console", "db", "storage", "metrics"}, Views!openView(id) PROVE Goal
  BY <1>2, <1>same DEF Views!openView, ViewsChosen
<1>3. ASSUME NEW side, Views!Zoom(side) PROVE Goal
  BY <1>3, <1>same DEF Views!Zoom, ViewsChosen
<1>4. ASSUME NEW id \in {"app", "db", "redis"}, Views!select(id) PROVE Goal
  <2>1. v10' = [v10 EXCEPT ![id] = IF @ = "unset" THEN "connecting" ELSE @] /\ Views!Connect
    BY <1>4 DEF Views!select
  <2>2. /\ v10' \in [Views!Terminals -> {"unset", "connecting", "open", "closed"}]
        /\ v10'["shell"] = v10["shell"]
        /\ \A t \in Views!Terminals : v10'[t] = "open" => v10[t] = "open"
    BY <2>1 DEF ViewsLabelled, Views!Terminals
  <2>3. SocketsMounted' /\ ViewsLabelled'
    BY <2>1, <2>2, ConnectKeeps
  <2>4. ViewsChosen'
    BY <1>4 DEF Views!select, ViewsChosen
  <2> QED BY <2>3, <2>4
<1>5. ASSUME NEW m, Views!setMode(m) PROVE Goal
  BY <1>5, <1>same DEF Views!setMode, ViewsChosen
<1>6. ASSUME NEW t \in Views!Terminals,
             Views!SocketOpens(t) \/ Views!SocketCloses(t) \/ Views!LateClose(t)
      PROVE  Goal
  <2>1. UNCHANGED Views!viewVars
    BY <1>6 DEF Views!SocketOpens, Views!SocketCloses, Views!LateClose
  <2>2. ViewsChosen'
    BY <2>1 DEF Views!viewVars, ViewsChosen
  <2> QED BY <1>6, <2>2, FarEndKeeps
<1>7. CASE UNCHANGED Views!vars
  BY <1>7 DEF Views!vars, Views!appVars, Views!viewVars, Views!socketVars, SocketsMounted,
     ViewsChosen, ViewsLabelled, Views!Mounted, Views!targets
<1> QED BY <1>1, <1>2, <1>3, <1>4, <1>5, <1>6, <1>7 DEF Views!Next, Views!FarEnd

\* A socket that is open stays open or is closed by the far end, unless its terminal
\* leaves the page; and only the terminal of a service does, with the service.
LEMMA ViewsKeepSessions ==
    Views!ViewsInv /\ [Views!Next]_(Views!vars) => Views!SessionKept
<1> SUFFICES ASSUME SocketsMounted, ViewsChosen, ViewsLabelled, [Views!Next]_(Views!vars),
                    NEW t \in Views!Terminals, v13[t] = "open", v13'[t] # "open"
             PROVE  v13'[t] = "closed" \/ (t = "redis" /\ "redis" \notin v4')
  BY ViewsParts, Zenon DEF Views!SessionKept
<1>1. CASE v13' = v13
  BY <1>1
<1>2. CASE \E u \in Views!Terminals : Views!SocketOpens(u) \/ Views!SocketCloses(u)
  BY <1>2 DEF Views!SocketOpens, Views!SocketCloses, ViewsLabelled
<1>3. CASE Views!Connect /\ v1' = v1 /\ v6 \subseteq v6' /\ v9 \subseteq v9' /\ (v12 => v12') /\ (v3 => v3')
  <2>1. t \in Views!Mounted /\ t \notin Views!Mounted'
    BY <1>3 DEF SocketsMounted, Views!Connect
  <2> QED BY <1>3, <2>1 DEF Views!Mounted, Views!targets
<1>4. \/ v13' = v13
      \/ \E u \in Views!Terminals : Views!SocketOpens(u) \/ Views!SocketCloses(u)
      \/ Views!Connect /\ v1' = v1 /\ v6 \subseteq v6' /\ v9 \subseteq v9' /\ (v12 => v12') /\ (v3 => v3')
  BY DEF Views!Next, Views!FarEnd, Views!vars, Views!appVars, Views!viewVars, Views!socketVars,
     Views!LateClose, Views!BuildsChange, Views!openView, Views!Zoom, Views!select, Views!setMode
<1> QED BY <1>1, <1>2, <1>3, <1>4

\* Changing views ends no session, for any number of terminals and changes.
THEOREM SessionsKept == Spec => SessionKept
<1> DEFINE Inv == page = "views" => Views!ViewsInv
<1>1. Init => Inv
  BY PagesStart, ViewsInit
<1>2. Inv /\ [Next]_vars => Inv'
  BY PagesMove, ViewsStep
<1>3. Inv /\ [Next]_vars => [page = "views" => Views!SessionKept]_vars
  BY PagesMove, ViewsKeepSessions
<1> QED BY <1>1, <1>2, <1>3, PTL DEF Spec, SessionKept


-------------------------------------------------------------------------------
(***************************************************************************)
(* SqlConsole: v1 is the database in use, v3 the result and v4 the query   *)
(* it is of, v8 the recent runs on screen and v9 those kept, v12 the       *)
(* dialog, v13 the query on its way, v18 whether the list on screen is     *)
(* mixed and v19 the scopes whose list was crossed.                        *)
(***************************************************************************)
\* What the module assumes of its constants.
LEMMA SqlAssumed == Sql!SqlAssumption
BY PageAssumptions

\* The entry of a run fits into the history, the oldest one making room.
LEMMA PushFits ==
    ASSUME NEW scopes, NEW entries \in Sql!ListsOf(scopes), NEW entry \in Sql!EntryOf(scopes)
    PROVE  Sql!pushEntry(entries, entry) \in Sql!ListsOf(scopes)
<1> DEFINE E == Sql!EntryOf(scopes)
           both == <<entry>> \o entries
           n == IF Len(entries) < SqlHISTORY_LIMIT THEN Len(entries) + 1 ELSE SqlHISTORY_LIMIT
<1>1. entries \in Seq(E) /\ entry \in E
  BY DEF Sql!ListsOf
<1> HIDE DEF E
<1>2. both \in Seq(E) /\ Len(both) = Len(entries) + 1 /\ Len(entries) \in Nat
  BY <1>1
<1>3. SqlHISTORY_LIMIT \in Nat \ {0}
  BY SqlAssumed DEF Sql!SqlAssumption
<1>4. n \in 1 .. Len(both) /\ n <= SqlHISTORY_LIMIT
  BY <1>2, <1>3
<1> HIDE DEF both, n
<1>5. SubSeq(both, 1, n) \in Seq(E) /\ Len(SubSeq(both, 1, n)) = n
  BY <1>2, <1>4
<1> QED BY <1>4, <1>5 DEF Sql!pushEntry, Sql!ListsOf, E, both, n

\* The runs that are kept are those of the closure.
LEMMA RecordKeeps ==
    ASSUME Sql!AskInv, Sql!KeptInv, v13 # Null, Sql!Record, v1' = v1, v13' = Null
    PROVE  Sql!KeptInv'
<1> USE SqlAssumed DEF Sql!SqlAssumption
<1> DEFINE call == v13  entry == [sql |-> call.sql, scope |-> call.scope]
           pushed == Sql!pushEntry(v8, entry)
<1>1. /\ call \in Sql!Query /\ v8 \in Sql!Lists /\ v9 \in [SqlScopes -> Sql!Lists]
      /\ v1 \in SqlScopes \cup {Null} /\ v18 \in BOOLEAN /\ v19 \subseteq SqlScopes
      /\ \A s \in SqlScopes \ v19 : v9[s] \in Sql!ListsOf({s})
      /\ v1 # Null /\ ~v18 => v8 = v9[v1]
  BY DEF Sql!AskInv, Sql!KeptInv, Sql!HistoryIsKept
<1>2. /\ call.sql \in SqlTexts \cup {Sql!NoText} /\ call.scope \in SqlScopes \cup {Null}
  BY <1>1 DEF Sql!Query
<1>3. entry \in Sql!EntryOf(SqlScopes \cup {Null}) /\ entry \in Sql!EntryOf({call.scope})
  BY <1>2 DEF Sql!EntryOf
<1>4. pushed \in Sql!Lists
  BY <1>1, <1>3, PushFits DEF Sql!Lists
<1>5. CASE call.log
  <2>1. /\ v8' = pushed /\ v9' = Sql!saveHistory(call.scope, pushed)
        /\ v18' = (call.scope # v1)
        /\ v19' = IF v18 \/ call.scope # v1 THEN (v19 \cup {call.scope}) \ {Null} ELSE v19
    BY <1>5 DEF Sql!Record
  <2>2. v1 # Null /\ ~v18 /\ v1 \notin v19 => Sql!pushEntry(v8, [sql |-> call.sql, scope |-> v1])
            \in Sql!ListsOf({v1})
    <3> SUFFICES ASSUME v1 # Null, ~v18, v1 \notin v19
                 PROVE  Sql!pushEntry(v8, [sql |-> call.sql, scope |-> v1]) \in Sql!ListsOf({v1})
      OBVIOUS
    <3>1. v8 \in Sql!ListsOf({v1})
      BY <1>1
    <3>2. [sql |-> call.sql, scope |-> v1] \in Sql!EntryOf({v1})
      BY <1>2 DEF Sql!EntryOf
    <3> QED BY <3>1, <3>2, PushFits
  <2>3. call.scope = v1 => pushed = Sql!pushEntry(v8, [sql |-> call.sql, scope |-> v1])
    OBVIOUS
  <2> HIDE DEF pushed, call
  <2>4. CASE call.scope = Null
    <3>1. v9' = v9 /\ v19' \in {v19, v19 \ {Null}}
      BY <2>1, <2>4 DEF Sql!saveHistory
    <3>2. v19' = v19
      BY <1>1, <3>1
    <3> QED BY <1>1, <1>4, <2>1, <2>4, <3>1, <3>2 DEF Sql!KeptInv, Sql!HistoryIsKept
  <2>5. CASE call.scope # Null
    <3>1. call.scope \in SqlScopes /\ v9' = [v9 EXCEPT ![call.scope] = pushed]
      BY <1>2, <2>1, <2>5 DEF Sql!saveHistory
    <3>2. v9' \in [SqlScopes -> Sql!Lists] /\ v9'[call.scope] = pushed
      BY <1>1, <1>4, <3>1
    <3>3. v19 \subseteq v19' /\ v19' \subseteq SqlScopes
      BY <1>1, <2>1, <3>1
    <3>4. ASSUME NEW s \in SqlScopes \ v19' PROVE v9'[s] \in Sql!ListsOf({s})
      <4>1. CASE s # call.scope
        BY <1>1, <3>1, <3>3, <4>1
      <4>2. CASE s = call.scope
        <5>1. call.scope = v1 /\ ~v18 /\ v1 \notin v19 /\ v1 # Null
          BY <2>1, <2>5, <3>4, <4>2
        <5> QED BY <2>2, <2>3, <3>2, <4>2, <5>1
      <4> QED BY <4>1, <4>2
    <3>5. v1' # Null /\ ~v18' => v8' = v9'[v1']
      BY <2>1, <3>2
    <3> QED BY <1>1, <1>4, <2>1, <3>2, <3>3, <3>4, <3>5 DEF Sql!KeptInv, Sql!HistoryIsKept
  <2> QED BY <2>4, <2>5
<1>6. CASE ~call.log
  BY <1>6 DEF Sql!Record, Sql!keptVars, Sql!KeptInv, Sql!HistoryIsKept
<1> QED BY <1>5, <1>6

\* The console opens on the stored history of one database.
LEMMA SqlInit == Sql!Init => Sql!SqlInv
<1> SUFFICES ASSUME Sql!Init PROVE Sql!SqlInv
  OBVIOUS
<1> USE SqlAssumed DEF Sql!Init, Sql!SqlAssumption
<1>1. <<>> \in Sql!Lists /\ \A s \in SqlScopes : <<>> \in Sql!ListsOf({s})
  BY DEF Sql!Lists, Sql!ListsOf
<1>2. Sql!AskInv
  BY DEF Sql!AskInv
<1>3. Sql!KeptInv
  BY <1>1 DEF Sql!KeptInv, Sql!HistoryIsKept
<1>4. Sql!FormInv
  <2>1. 0 \in 0 .. SqlMaxCalls /\ v14 = FALSE /\ v12 = Null
    OBVIOUS
  <2> QED BY <2>1 DEF Sql!FormInv
<1> QED BY <1>2, <1>3, <1>4 DEF Sql!SqlInv

\* What a query asks for and its rows.
LEMMA AskStep ==
    ASSUME Sql!SqlInv, [Sql!Next]_(Sql!vars) PROVE Sql!AskInv'
<1>0. Sql!AskInv /\ Sql!KeptInv /\ Sql!FormInv
  BY DEF Sql!SqlInv
<1>1. CASE Sql!Run
  <2>1. /\ v13' = [sql |-> v2, page |-> 0, log |-> TRUE, scope |-> v1]
        /\ v6' = TRUE /\ v5' = FALSE /\ v3' = Null /\ v4' = v4
    BY <1>1 DEF Sql!Run, Sql!FetchPage
  <2>2. v13' \in Sql!Query
    BY <1>0, <2>1 DEF Sql!Query, Sql!FormInv, Sql!KeptInv
  <2> QED BY <1>0, <2>1, <2>2 DEF Sql!AskInv
<1>2. CASE Sql!TurnPage
  <2>1. v3 \in Sql!Rows /\ v4 \in SqlTexts \cup {Sql!NoText} /\ v3.sql = v4
    BY <1>0, <1>2 DEF Sql!TurnPage, Sql!AskInv
  <2>2. PICK page_ \in Nat : v13' = [sql |-> v4, page |-> page_, log |-> FALSE, scope |-> v1]
    BY <1>2, <2>1 DEF Sql!TurnPage, Sql!FetchPage, Sql!Rows
  <2>3. v6' = TRUE /\ v5' = FALSE /\ v3' = v3 /\ v4' = v4
    BY <1>2 DEF Sql!TurnPage, Sql!FetchPage
  <2>4. v13' \in Sql!Query /\ v13'.sql = v4 /\ v13'.log = FALSE
    BY <1>0, <2>1, <2>2 DEF Sql!Query, Sql!KeptInv
  <2> QED BY <2>1, <2>3, <2>4 DEF Sql!AskInv
<1>3. CASE Sql!QueryDone
  <2>1. v13 \in Sql!Query /\ v13' = Null /\ v6' = FALSE /\ v4' = v13.sql /\ v5' = v5
    BY <1>0, <1>3 DEF Sql!QueryDone, Sql!AskInv
  <2>2. PICK more \in BOOLEAN : v3' = [sql |-> v13.sql, page |-> v13.page, more |-> more]
    BY <1>3 DEF Sql!QueryDone
  <2>3. v3' \in Sql!Rows /\ v3'.sql = v4' /\ v4' \in SqlTexts \cup {Sql!NoText}
    BY <2>1, <2>2 DEF Sql!Query, Sql!Rows
  <2> QED BY <1>0, <2>1, <2>3 DEF Sql!AskInv
<1>4. CASE Sql!QueryFails
  <2>1. v13' = Null /\ v6' = FALSE /\ v3' = Null /\ v5' = TRUE /\ v4' = v4
    BY <1>4 DEF Sql!QueryFails
  <2> QED BY <1>0, <2>1 DEF Sql!AskInv
<1>5. CASE UNCHANGED Sql!runVars
  BY <1>0, <1>5 DEF Sql!AskInv, Sql!runVars
<1>6. \/ Sql!Run \/ Sql!TurnPage \/ Sql!QueryDone \/ Sql!QueryFails
      \/ UNCHANGED Sql!runVars
  BY Zenon DEF Sql!Next, Sql!vars, Sql!SwitchScope, Sql!SavedListed, Sql!Type, Sql!Load,
     Sql!Confirm, Sql!Close, Sql!OpenSave, Sql!OpenEdit, Sql!RemoveSaved, Sql!Submit,
     Sql!Submitted, Sql!SubmitFails, Sql!Removed, Sql!OpenTab
<1> QED BY <1>1, <1>2, <1>3, <1>4, <1>5, <1>6

\* The recent runs.
LEMMA KeptStep ==
    ASSUME Sql!SqlInv, [Sql!Next]_(Sql!vars) PROVE Sql!KeptInv'
<1>0. Sql!AskInv /\ Sql!KeptInv
  BY DEF Sql!SqlInv
<1>1. ASSUME NEW s \in SqlScopes \cup {Null}, Sql!SwitchScope(s) PROVE Sql!KeptInv'
  <2>1. /\ v1' = s /\ v9' = v9 /\ v18' = FALSE /\ v19' = v19
        /\ v8' = IF s = Null THEN <<>> ELSE v9[s]
    BY <1>1 DEF Sql!SwitchScope, Sql!loadHistory
  <2>2. <<>> \in Sql!Lists
    BY SqlAssumed DEF Sql!Lists, Sql!ListsOf, Sql!SqlAssumption
  <2> QED BY <1>0, <2>1, <2>2 DEF Sql!KeptInv, Sql!HistoryIsKept
<1>2. CASE Sql!QueryDone \/ Sql!QueryFails
  <2>1. v13' = Null /\ v13 # Null /\ v1' = v1 /\ Sql!Record
    BY <1>2 DEF Sql!QueryDone, Sql!QueryFails
  <2> QED BY <1>0, <2>1, RecordKeeps
<1>3. CASE UNCHANGED <<v1, Sql!keptVars>>
  BY <1>0, <1>3 DEF Sql!KeptInv, Sql!HistoryIsKept, Sql!keptVars
<1>4. \/ \E s \in SqlScopes \cup {Null} : Sql!SwitchScope(s)
      \/ Sql!QueryDone \/ Sql!QueryFails
      \/ UNCHANGED <<v1, Sql!keptVars>>
  BY Zenon DEF Sql!Next, Sql!vars, Sql!SavedListed, Sql!Type, Sql!Run, Sql!TurnPage, Sql!Load,
     Sql!Confirm, Sql!Close, Sql!OpenSave, Sql!OpenEdit, Sql!RemoveSaved, Sql!Submit,
     Sql!Submitted, Sql!SubmitFails, Sql!Removed, Sql!OpenTab
<1> QED BY <1>1, <1>2, <1>3, <1>4

\* The editor, the dialog and the saved queries.
LEMMA SqlFormStep ==
    ASSUME Sql!SqlInv, [Sql!Next]_(Sql!vars) PROVE Sql!FormInv'
<1>0. Sql!AskInv /\ Sql!KeptInv /\ Sql!FormInv
  BY DEF Sql!SqlInv
<1> USE SqlAssumed DEF Sql!SqlAssumption, Sql!FormInv
<1>1. ASSUME NEW s \in SqlScopes \cup {Null}, Sql!SwitchScope(s) PROVE Sql!FormInv'
  <2>1. v17' \in 0 .. SqlMaxCalls
    BY <1>0, <1>1 DEF Sql!SwitchScope
  <2>3. v15' \in BOOLEAN
    BY <1>1, Zenon DEF Sql!SwitchScope
  <2>2. v10' \in SUBSET Sql!SavedQuery
    BY <1>0, <1>1 DEF Sql!SwitchScope
  <2> QED BY <1>0, <1>1, <2>1, <2>2, <2>3 DEF Sql!SwitchScope, Sql!formVars
<1>2. CASE Sql!SavedListed
  <2>1. v10' \in SUBSET Sql!SavedQuery
    BY <1>0, <1>2 DEF Sql!SavedListed, Sql!SavedQuery
  <2> QED BY <1>0, <1>2, <2>1 DEF Sql!SavedListed, Sql!formVars
<1>3. ASSUME NEW text \in SqlTexts \cup {Sql!NoText}, Sql!Type(text) PROVE Sql!FormInv'
  BY <1>0, <1>3 DEF Sql!Type, Sql!savedVars, Sql!formVars
<1>4. CASE Sql!Run \/ Sql!TurnPage
  BY <1>0, <1>4 DEF Sql!Run, Sql!TurnPage, Sql!FetchPage, Sql!savedVars, Sql!formVars
<1>5. CASE Sql!QueryDone \/ Sql!QueryFails
  BY <1>0, <1>5 DEF Sql!QueryDone, Sql!QueryFails, Sql!savedVars, Sql!formVars
<1>6. ASSUME NEW text \in SqlTexts, Sql!Load(text) PROVE Sql!FormInv'
  <2>1. v12 = Null /\ (v12' = Null \/ v12' = [kind |-> "replace", sql |-> text])
    BY <1>6 DEF Sql!Load, Sql!loadIntoEditor, Sql!putIntoEditor
  <2>2. v12' \in Sql!Dialog \cup {Null} /\ ~v14
    BY <1>0, <2>1 DEF Sql!Dialog
  <2>3. v2' \in SqlTexts \cup {Sql!NoText}
    BY <1>0, <1>6 DEF Sql!Load, Sql!loadIntoEditor, Sql!putIntoEditor
  <2> QED BY <1>0, <1>6, <2>2, <2>3 DEF Sql!Load, Sql!savedVars
<1>7. CASE Sql!Confirm
  <2>1. v12.sql \in SqlTexts /\ ~v14
    BY <1>0, <1>7 DEF Sql!Confirm, Sql!Dialog
  <2> QED BY <1>0, <1>7, <2>1 DEF Sql!Confirm, Sql!putIntoEditor, Sql!savedVars
<1>8. CASE Sql!Close
  BY <1>0, <1>8 DEF Sql!Close, Sql!savedVars
<1>9. CASE Sql!OpenSave
  <2>1. v12 = Null /\ \E text \in SqlTexts : v12' = [kind |-> "create", sql |-> text]
    BY <1>9 DEF Sql!OpenSave
  <2>2. v12' \in Sql!Dialog /\ ~v14
    BY <1>0, <2>1 DEF Sql!Dialog
  <2> QED BY <1>0, <1>9, <2>2 DEF Sql!OpenSave, Sql!savedVars
<1>10. ASSUME NEW row \in v10, Sql!OpenEdit(row) PROVE Sql!FormInv'
  <2>1. row.id \in Nat /\ row.sql \in SqlTexts
    BY <1>0 DEF Sql!SavedQuery
  <2>2. v12 = Null /\ v12' = [kind |-> "edit", id |-> row.id, sql |-> row.sql]
    BY <1>10 DEF Sql!OpenEdit
  <2>3. v12' \in Sql!Dialog /\ ~v14
    BY <1>0, <2>1, <2>2 DEF Sql!Dialog
  <2> QED BY <1>0, <1>10, <2>3 DEF Sql!OpenEdit, Sql!savedVars
<1>11. ASSUME NEW row \in v10, Sql!RemoveSaved(row) PROVE Sql!FormInv'
  <2>1. v17' \in 0 .. SqlMaxCalls
    BY <1>0, <1>11 DEF Sql!RemoveSaved
  <2> QED BY <1>0, <1>11, <2>1 DEF Sql!RemoveSaved, Sql!formVars
<1>12. CASE Sql!Submit
  BY <1>0, <1>12 DEF Sql!Submit, Sql!savedVars
<1>13. CASE Sql!Submitted
  <2>1. v12 \in Sql!Dialog /\ v12.sql \in SqlTexts /\ v10 \in SUBSET Sql!SavedQuery
    BY <1>0, <1>13 DEF Sql!Submitted, Sql!Dialog
  <2>2. v10' \in SUBSET Sql!SavedQuery
    <3>1. CASE v12.kind = "create"
      BY <1>13, <2>1, <3>1 DEF Sql!Submitted, Sql!SavedQuery
    <3>2. CASE v12.kind # "create"
      <4>1. v10' = {IF row.id = v12.id THEN [row EXCEPT !.sql = v12.sql] ELSE row : row \in v10}
        BY <1>13, <3>2 DEF Sql!Submitted
      <4> QED BY <2>1, <4>1 DEF Sql!SavedQuery
    <3> QED BY <3>1, <3>2
  <2>3. /\ v7' \in {"result", "recent", "saved"} /\ v14' = FALSE /\ v12' = Null /\ v11' = FALSE
        /\ v2' = v2 /\ v15' = v15 /\ v17' = v17
    BY <1>0, <1>13 DEF Sql!Submitted
  <2> QED BY <1>0, <2>2, <2>3
<1>14. CASE Sql!SubmitFails
  BY <1>0, <1>14 DEF Sql!SubmitFails, Sql!savedVars
<1>15. ASSUME NEW id \in v16, Sql!Removed(id) PROVE Sql!FormInv'
  <2>1. v10' \subseteq v10
    BY <1>15 DEF Sql!Removed
  <2> QED BY <1>0, <1>15, <2>1 DEF Sql!Removed, Sql!formVars
<1>16. ASSUME NEW t \in {"result", "recent", "saved"}, Sql!OpenTab(t) PROVE Sql!FormInv'
  BY <1>0, <1>16 DEF Sql!OpenTab, Sql!savedVars, Sql!formVars
<1>17. CASE UNCHANGED Sql!vars
  BY <1>0, <1>17 DEF Sql!vars, Sql!savedVars, Sql!formVars
<1> QED BY <1>1, <1>2, <1>3, <1>4, <1>5, <1>6, <1>7, <1>8, <1>9, <1>10, <1>11, <1>12, <1>13,
        <1>14, <1>15, <1>16, <1>17 DEF Sql!Next

\* Each step keeps all parts of the invariant.
LEMMA SqlStep == Sql!SqlInv /\ [Sql!Next]_(Sql!vars) => Sql!SqlInv'
BY AskStep, KeptStep, SqlFormStep, Zenon DEF Sql!SqlInv

\* Type correctness follows.
LEMMA SqlTyped == Sql!SqlInv => Sql!TypeOK
BY DEF Sql!SqlInv, Sql!AskInv, Sql!KeptInv, Sql!FormInv, Sql!TypeOK, Sql!Lists, Sql!ListsOf

\* The rows on screen are those of the query that was executed.
LEMMA SqlRows == Sql!SqlInv => Sql!RowsOfExecuted
BY DEF Sql!SqlInv, Sql!AskInv, Sql!RowsOfExecuted, Sql!Pane

\* What is listed is what is stored, and what is stored for a scope is its own.
LEMMA SqlKept == Sql!SqlInv => Sql!HistoryIsKept /\ Sql!HistoryIsOwn
<1> SUFFICES ASSUME Sql!SqlInv PROVE Sql!HistoryIsKept /\ Sql!HistoryIsOwn
  OBVIOUS
<1>1. Sql!KeptInv
  BY DEF Sql!SqlInv
<1>2. ASSUME NEW s \in SqlScopes \ v19, NEW i \in DOMAIN v9[s] PROVE v9[s][i].scope = s
  <2>1. v9[s] \in Seq(Sql!EntryOf({s}))
    BY <1>1 DEF Sql!KeptInv, Sql!ListsOf
  <2>2. v9[s][i] \in Sql!EntryOf({s})
    BY <2>1
  <2> QED BY <2>2 DEF Sql!EntryOf
<1> QED BY <1>1, <1>2 DEF Sql!KeptInv, Sql!HistoryIsOwn

-------------------------------------------------------------------------------
(***************************************************************************)
(* AppEnv: v1 is the Secret, v2 the copy of the shell, v5 and v6 whether   *)
(* the tab is open and for the which time, v7 its table, v9 what the table *)
(* is compared with, v10 the saves on their way.                           *)
(***************************************************************************)
\* What the module assumes of its constants.
LEMMA EnvAssumed == Env!EnvAssumption
BY PageAssumptions

\* A table is one after each edit.
LEMMA EditFits ==
    ASSUME v7 \in Env!Env
    PROVE  /\ \A n \in EnvNames, v \in EnvValues : Env!Merged([m \in {n} |-> v]) \in Env!Env
           /\ \A n \in EnvNames : Env!Without(n) \in Env!Env
<1>1. PICK D \in SUBSET EnvNames : v7 \in [D -> EnvValues]
  BY DEF Env!Env
<1>2. ASSUME NEW n \in EnvNames, NEW v \in EnvValues
      PROVE  Env!Merged([m \in {n} |-> v]) \in Env!Env
  <2>1. Env!Merged([m \in {n} |-> v]) \in [D \cup {n} -> EnvValues]
    BY <1>1 DEF Env!Merged
  <2>2. D \cup {n} \in SUBSET EnvNames
    BY <1>1
  <2> QED BY <2>1, <2>2 DEF Env!Env
<1>3. ASSUME NEW n \in EnvNames PROVE Env!Without(n) \in Env!Env
  <2>1. Env!Without(n) \in [D \ {n} -> EnvValues]
    BY <1>1 DEF Env!Without, Env!Restrict
  <2>2. D \ {n} \in SUBSET EnvNames
    BY <1>1
  <2> QED BY <2>1, <2>2 DEF Env!Env
<1> QED BY <1>2, <1>3

\* The environment has not been read at the start.
LEMMA EnvInit == Env!Init => Env!EnvInv
<1> SUFFICES ASSUME Env!Init PROVE Env!EnvInv
  OBVIOUS
<1> USE EnvAssumed DEF Env!Init, Env!Empty, Env!EnvAssumption
<1>1. Env!EnvTyped
  BY DEF Env!EnvTyped
<1>2. Env!Filled
  BY DEF Env!Filled, Env!SavedIsSecret
<1> QED BY <1>1, <1>2 DEF Env!EnvInv

\* An edit fills no table and empties none.
LEMMA EditKeeps ==
    ASSUME Env!EnvInv, NEW new \in Env!Env, NEW note \in {"none", "error", "imported", "saved"},
           Env!Editing, Env!Edit(new, note)
    PROVE  Env!EnvInv'
<1> USE EnvAssumed DEF Env!EnvAssumption
<1>1. /\ v1' = v1 /\ v2' = v2 /\ v3' = v3 /\ v4' = v4 /\ v5' = v5 /\ v6' = v6 /\ v7' = new
      /\ v9' = v9 /\ v10' = v10 /\ v12' = note /\ v14' = v14
  BY DEF Env!Edit, Env!shell
<1>2. v7 # Null /\ new # Null /\ v5
  BY DEF Env!Editing
<1>3. Env!EnvTyped'
  BY <1>1 DEF Env!EnvInv, Env!EnvTyped
<1>4. v9 # Null
  BY <1>2 DEF Env!EnvInv, Env!Filled
<1>5. Env!Filled'
  BY <1>1, <1>2, <1>4 DEF Env!EnvInv, Env!Filled, Env!SavedIsSecret
<1> QED BY <1>3, <1>5 DEF Env!EnvInv

\* Each step keeps what is read, shown and stored together.
LEMMA EnvStep == Env!EnvInv /\ [Env!Next]_(Env!vars) => Env!EnvInv'
<1> SUFFICES ASSUME Env!EnvInv, [Env!Next]_(Env!vars) PROVE Env!EnvInv'
  OBVIOUS
<1> USE EnvAssumed DEF Env!EnvAssumption
<1>0. Env!EnvTyped /\ Env!Filled
  BY DEF Env!EnvInv
<1>1. CASE Env!EnvRead
  <2>1. Env!NoEnv \in Env!Env
    <3>1. Env!NoEnv \in [{} -> EnvValues]
      BY DEF Env!NoEnv
    <3> QED BY <3>1 DEF Env!Env
  <2>2. Env!EnvTyped'
    BY <1>0, <1>1, <2>1 DEF Env!EnvRead, Env!tab, Env!EnvTyped
  <2>3. /\ v9 = Null /\ v10 = {} /\ v4 = 0 /\ v2' # Null /\ (v3' => v2' = v1)
        /\ UNCHANGED <<v1, v4, v5, v6, v7, v9, v10>>
    BY <1>0, <1>1, <2>1 DEF Env!EnvRead, Env!tab, Env!EnvTyped, Env!Filled
  <2>4. Env!Filled'
    BY <1>0, <2>3 DEF Env!Filled, Env!SavedIsSecret
  <2> QED BY <2>2, <2>4 DEF Env!EnvInv
<1>2. CASE Env!Open
  <2>0. /\ ~v5 /\ v5' /\ v6' = v6 + 1 /\ v6 \in Nat /\ v6' \in 0 .. EnvMaxVisits
        /\ UNCHANGED <<v1, v2, v3, v4, v7, v9, v10, v12, v14>>
    BY <1>0, <1>2 DEF Env!Open, Env!shell, Env!tab, Env!EnvTyped
  <2>1. Env!EnvTyped'
    BY <1>0, <2>0 DEF Env!EnvTyped
  <2>2. v9 = Null /\ v4 # v6' /\ \A c \in v10 : c.visit # v6'
    <3>1. v4 \in (0 .. v6) \cup {Null} /\ (\A c \in v10 : c.visit \in 1 .. v6)
      BY <1>0 DEF Env!EnvTyped
    <3>2. v9 = Null
      BY <1>0, <2>0 DEF Env!Filled
    <3>3. v6' # Null
      BY <2>0
    <3> QED BY <2>0, <3>1, <3>2, <3>3
  <2>3. Env!Filled'
    BY <1>0, <2>0, <2>2 DEF Env!Filled, Env!SavedIsSecret
  <2> QED BY <2>1, <2>3 DEF Env!EnvInv
<1>3. CASE Env!Leave
  <2>0. /\ ~v5' /\ v7' = Null /\ v9' = Null /\ v12' = "none"
        /\ UNCHANGED <<v1, v2, v3, v4, v6, v10, v14>>
    BY <1>3 DEF Env!Leave, Env!shell
  <2>1. Env!EnvTyped'
    BY <1>0, <2>0 DEF Env!EnvTyped
  <2>2. Env!Filled'
    BY <1>0, <2>0 DEF Env!Filled, Env!SavedIsSecret
  <2> QED BY <2>1, <2>2 DEF Env!EnvInv
<1>4. CASE Env!Fill
  <2>0. /\ v5 /\ v7 = Null /\ v2 # Null /\ v7' = v2 /\ v9' = v2
        /\ UNCHANGED <<v1, v2, v3, v4, v5, v6, v10, v12, v14>>
    BY <1>4 DEF Env!Fill, Env!shell
  <2>1. Env!EnvTyped'
    BY <1>0, <2>0 DEF Env!EnvTyped
  <2>2. v9 = Null /\ v4 # v6
    BY <1>0, <2>0 DEF Env!Filled
  <2>3. v4' = 0 /\ v3' => v9' = v1'
    BY <1>0, <2>0 DEF Env!Filled
  <2>4. Env!Filled'
    BY <1>0, <2>0, <2>2, <2>3 DEF Env!Filled, Env!SavedIsSecret
  <2> QED BY <2>1, <2>4 DEF Env!EnvInv
<1>5. CASE Env!ReservedRead \/ UNCHANGED Env!vars
  <2>1. UNCHANGED <<v1, v2, v3, v4, v5, v6, v7, v9, v10, v12, v14>>
    BY <1>5 DEF Env!ReservedRead, Env!vars, Env!shell, Env!tab
  <2> QED BY <1>0, <2>1 DEF Env!EnvInv, Env!EnvTyped, Env!Filled, Env!SavedIsSecret
<1>6. CASE Env!spoil \/ Env!onReset \/ Env!toggleAll
  <2>1. v7 \in Env!Env /\ v9 \in Env!Env \cup {Null} /\ v12 \in {"none", "error", "imported", "saved"}
    BY <1>0, <1>6 DEF Env!spoil, Env!onReset, Env!toggleAll, Env!Editing, Env!EnvTyped
  <2>2. Env!Editing /\ \/ Env!Edit(v7, "none") \/ Env!Edit(v7, v12)
                       \/ Env!Edit(v9, "none") /\ v9 # Null
    BY <1>6 DEF Env!spoil, Env!onReset, Env!toggleAll, Env!dirty
  <2> QED BY <2>1, <2>2, EditKeeps
<1>7. ASSUME NEW n \in EnvNames, NEW v \in EnvValues,
             Env!patch(n, v) \/ Env!onImport([m \in {n} |-> v])
      PROVE  Env!EnvInv'
  <2>1. Env!Editing /\ v7 \in Env!Env
    BY <1>0, <1>7 DEF Env!patch, Env!onImport, Env!Editing, Env!EnvTyped
  <2>2. Env!Merged([m \in {n} |-> v]) \in Env!Env
    BY <2>1, EditFits
  <2>3. \/ Env!Edit(Env!Merged([m \in {n} |-> v]), "none")
        \/ Env!Edit(Env!Merged([m \in {n} |-> v]), "imported")
    BY <1>7 DEF Env!patch, Env!onImport
  <2> HIDE DEF Env!Merged
  <2> QED BY <2>1, <2>2, <2>3, EditKeeps
<1>8. ASSUME NEW n \in EnvNames, Env!removeRow(n) PROVE Env!EnvInv'
  <2>1. /\ Env!Editing /\ v7 \in Env!Env /\ Env!Edit(Env!Without(n), v12)
        /\ v12 \in {"none", "error", "imported", "saved"}
    BY <1>0, <1>8 DEF Env!removeRow, Env!Editing, Env!EnvTyped
  <2> QED BY <2>1, EditFits, EditKeeps
<1>9. CASE Env!onSave
  <2>1. /\ v5 /\ v7 \in Env!Env /\ v10' = v10 \cup {[visit |-> v6, env |-> v7]} /\ v12' = "none"
        /\ v14' \in 0 .. EnvMaxCalls /\ v9 # Null
        /\ UNCHANGED <<v1, v2, v3, v4, v5, v6, v7, v9>>
    BY <1>0, <1>9 DEF Env!onSave, Env!dirty, Env!shell, Env!EnvTyped
  <2>2. v6 \in Nat /\ v6 # 0 /\ v2 # Null
    BY <1>0, <2>1 DEF Env!Filled, Env!EnvTyped
  <2>3. Env!EnvTyped'
    <3>1. \A c \in v10' : c.env \in Env!Env /\ c.visit \in 1 .. v6
      BY <1>0, <2>1, <2>2 DEF Env!EnvTyped
    <3> QED BY <1>0, <2>1, <3>1 DEF Env!EnvTyped
  <2>4. Env!Filled'
    BY <1>0, <2>1, <2>2 DEF Env!Filled, Env!SavedIsSecret
  <2> QED BY <2>3, <2>4 DEF Env!EnvInv
<1>10. ASSUME NEW c \in v10, Env!Saved(c) PROVE Env!EnvInv'
  <2>1. /\ c.env \in Env!Env /\ c.env # Null /\ v1' = c.env /\ v4' = c.visit /\ v10' \subseteq v10
        /\ UNCHANGED <<v2, v3, v5, v6, v14>>
    BY <1>0, <1>10 DEF Env!Saved, Env!EnvTyped
  <2>2. c.visit \in 1 .. v6 /\ v6 \in Nat /\ v2 # Null
    BY <1>0 DEF Env!EnvTyped, Env!Filled
  <2>3. CASE Env!Here(c)
    <3>1. v9' = c.env /\ v7' = c.env /\ v12' = "saved" /\ v5
      BY <1>10, <2>3 DEF Env!Saved, Env!Here
    <3>2. Env!EnvTyped'
      BY <1>0, <2>1, <2>2, <3>1 DEF Env!EnvTyped
    <3>3. Env!Filled'
      BY <1>0, <2>1, <2>2, <3>1 DEF Env!Filled, Env!SavedIsSecret
    <3> QED BY <3>2, <3>3 DEF Env!EnvInv
  <2>4. CASE ~Env!Here(c)
    <3>1. v9' = v9 /\ v7' = v7 /\ v12' = v12
      BY <1>10, <2>4 DEF Env!Saved
    <3>2. Env!EnvTyped'
      BY <1>0, <2>1, <2>2, <3>1 DEF Env!EnvTyped
    <3>3. v5 => c.visit # v6
      BY <2>4 DEF Env!Here
    <3>4. v9' # Null => v4' # v6 /\ v4' # 0
      BY <1>0, <2>1, <2>2, <3>1, <3>3 DEF Env!Filled
    <3>5. Env!Filled'
      BY <1>0, <2>1, <2>2, <3>1, <3>3, <3>4 DEF Env!Filled, Env!SavedIsSecret
    <3> QED BY <3>2, <3>5 DEF Env!EnvInv
  <2> QED BY <2>3, <2>4
<1>11. ASSUME NEW c \in v10, Env!SaveFails(c) PROVE Env!EnvInv'
  <2>1. /\ (v1' = v1 /\ v4' = v4) \/ (v1' = c.env /\ v4' = Null)
        /\ v10' \subseteq v10 /\ (v12' = "error" \/ v12' = v12) /\ c.env \in Env!Env
        /\ UNCHANGED <<v2, v3, v5, v6, v7, v9, v14>>
    BY <1>0, <1>11 DEF Env!SaveFails, Env!EnvTyped
  <2>2. Env!EnvTyped'
    BY <1>0, <2>1 DEF Env!EnvTyped
  <2>3. v2 # Null /\ v6 \in Nat
    BY <1>0 DEF Env!EnvTyped, Env!Filled
  <2>4. v1' = v1 /\ v4' = v4 => Env!Filled'
    BY <1>0, <2>1, <2>3 DEF Env!Filled, Env!SavedIsSecret
  <2>5. v6 # Null /\ 0 # Null
    BY <2>3
  <2>6. v1' = c.env /\ v4' = Null => Env!Filled'
    BY <1>0, <2>1, <2>3, <2>5 DEF Env!Filled, Env!SavedIsSecret
  <2> QED BY <2>1, <2>2, <2>4, <2>6 DEF Env!EnvInv
<1> QED BY <1>1, <1>2, <1>3, <1>4, <1>5, <1>6, <1>7, <1>8, <1>9, <1>10, <1>11 DEF Env!Next

\* The rows are compared with what is stored.
LEMMA EnvKept == Env!EnvInv => Env!SavedIsSecret /\ Env!TypeOK
BY DEF Env!EnvInv, Env!EnvTyped, Env!Filled, Env!TypeOK, Env!Footer, Env!reservedCount

\* What the page takes for stored is what is stored: the recent runs, which are nobody
\* else's, and the environment; also when the database changes while a query runs,
\* and on every visit of the tab.
THEOREM ShownAsStored == Spec => []StoredIsShown
<1> DEFINE Inv == /\ page = "sql" => Sql!SqlInv
                  /\ page = "env" => Env!EnvInv
<1>1. Init => Inv
  BY PagesStart, SqlInit, EnvInit
<1>2. Inv /\ [Next]_vars => Inv'
  BY PagesMove, SqlStep, EnvStep
<1>3. Inv => StoredIsShown
  BY SqlKept, EnvKept DEF StoredIsShown
<1> QED BY <1>1, <1>2, <1>3, PTL DEF Spec

-------------------------------------------------------------------------------
(***************************************************************************)
(* WizardSubmit: v1 is the app of a redeploy, v2 and v3 the number of apps *)
(* at first and now, v6 the page, v7 whether the wizard is on it, v8 the   *)
(* request that is out, v9 the app that was made, v10 where the deployment *)
(* was sent, v11 the app it answered for, v12 the apps deployed to, v15    *)
(* those that a wizard which was left deployed to instead of its own.      *)
(***************************************************************************)
\* What the module assumes of its constants.
LEMMA SubmitAssumed == Submit!SubmitAssumption
BY PageAssumptions

\* The wizard opens without a request.
LEMMA SubmitInit == Submit!Init => Submit!SubmitInv
BY SubmitAssumed DEF Submit!SubmitAssumption, Submit!Init, Submit!SubmitInv, Submit!TypeOK,
   Submit!DeployReachesItsApp

\* Where a request without an app of its own is sent: to that of the wizard, unless
\* the wizard was left.
LEMMA SentToOwn ==
    ASSUME Submit!SubmitInv, v5, Submit!CreateOrDeploy, v9' = 0,
           UNCHANGED <<v1, v2, v3, v4, v5, v6, v7, v12>>, v11' \in 0 .. SubmitLimit,
           v14' \in 0 .. SubmitMaxPresses
    PROVE  Submit!SubmitInv'
<1> USE SubmitAssumed DEF Submit!SubmitAssumption
<1>1. CASE v1 = 0 /\ v4 > 0
  <2>1. v8' = "create" /\ v10' = v10 /\ v15' = v15
    BY <1>1 DEF Submit!CreateOrDeploy
  <2> QED BY <1>1, <2>1 DEF Submit!SubmitInv, Submit!TypeOK, Submit!DeployReachesItsApp
<1>2. CASE ~(v1 = 0 /\ v4 > 0) /\ v7
  <2>1. v8' = "deploy" /\ v10' = v1 /\ v15' = v15
    BY <1>2 DEF Submit!CreateOrDeploy, Submit!CallDeploy, Submit!scoped, Submit!SubmitInv
  <2>2. v1 = 0 => v2 = 0
    BY <1>2 DEF Submit!SubmitInv, Submit!TypeOK
  <2> QED BY <2>1, <2>2 DEF Submit!SubmitInv, Submit!TypeOK, Submit!DeployReachesItsApp
<1>3. CASE ~(v1 = 0 /\ v4 > 0) /\ ~v7
  <2>1. v8' = "deploy" /\ v10' = v6 /\ v15' = v15 \cup {Submit!Served(v6)}
    BY <1>3 DEF Submit!CreateOrDeploy, Submit!CallDeploy, Submit!scoped
  <2>2. Submit!Served(v10') \in v15' /\ Submit!Served(v6) \in 1 .. SubmitLimit
    BY <2>1 DEF Submit!Served, Submit!SubmitInv, Submit!TypeOK
  <2>3. Submit!TypeOK'
    <3>1. v15' \subseteq 1 .. SubmitLimit /\ v10' \in 0 .. SubmitLimit
      BY <2>1, <2>2 DEF Submit!SubmitInv, Submit!TypeOK
    <3> QED BY <2>1, <3>1 DEF Submit!SubmitInv, Submit!TypeOK
  <2>4. Submit!DeployReachesItsApp'
    BY <2>1 DEF Submit!SubmitInv, Submit!DeployReachesItsApp
  <2>5. Submit!Served(v10)' \in v15'
    BY <2>2 DEF Submit!Served
  <2> QED BY <2>1, <2>3, <2>4, <2>5 DEF Submit!SubmitInv
<1> QED BY <1>1, <1>2, <1>3

\* Each step keeps where the deployment will go.
LEMMA SubmitStep ==
    ASSUME Submit!SubmitInv, [Submit!Next]_(Submit!vars)
    PROVE  Submit!SubmitInv'
<1> USE SubmitAssumed DEF Submit!SubmitAssumption
<1>1. ASSUME NEW dump \in BOOLEAN, Submit!Submit(dump) PROVE Submit!SubmitInv'
  <2>1. /\ v7 /\ v5 /\ v9' = 0 /\ v11' = 0 /\ v14' \in 0 .. SubmitMaxPresses
        /\ UNCHANGED <<v1, v2, v3, v4, v5, v6, v7, v12>>
    BY <1>1 DEF Submit!Submit, Submit!SubmitInv, Submit!TypeOK
  <2>2. CASE dump
    <3>1. v8' = "stage" /\ v10' = v10 /\ v15' = v15
      BY <1>1, <2>2 DEF Submit!Submit
    <3> QED BY <2>1, <3>1 DEF Submit!SubmitInv, Submit!TypeOK, Submit!DeployReachesItsApp
  <2>3. CASE ~dump
    <3>1. Submit!CreateOrDeploy
      BY <1>1, <2>3 DEF Submit!Submit
    <3>2. v11' \in 0 .. SubmitLimit
      BY <2>1
    <3> QED BY <2>1, <3>1, <3>2, SentToOwn
  <2> QED BY <2>2, <2>3
<1>2. CASE Submit!Staged
  <2>1. /\ v5 /\ v9' = 0 /\ v11' \in 0 .. SubmitLimit /\ v14' \in 0 .. SubmitMaxPresses
        /\ UNCHANGED <<v1, v2, v3, v4, v5, v6, v7, v12>> /\ Submit!CreateOrDeploy
    BY <1>2 DEF Submit!Staged, Submit!SubmitInv, Submit!TypeOK
  <2> QED BY <2>1, SentToOwn
<1>3. CASE Submit!StageFails \/ Submit!CreateFails \/ Submit!DeployFails \/ Submit!DomainFails
  <2>1. v8' = "form" /\ UNCHANGED <<v1, v2, v3, v4, v5, v6, v7, v9, v10, v11, v12, v14, v15>>
    BY <1>3 DEF Submit!StageFails, Submit!CreateFails, Submit!DeployFails, Submit!DomainFails,
       Submit!Fail
  <2> QED BY <2>1 DEF Submit!SubmitInv, Submit!TypeOK, Submit!DeployReachesItsApp
<1>4. CASE Submit!Created
  <2>1. /\ v8 = "create" /\ v3 < SubmitLimit /\ v3' = v3 + 1
        /\ \/ v9' = v3' /\ v8' = "deploy" /\ v10' = (IF v3' # 0 THEN v3' ELSE v6)
           \/ v8' = "form" /\ v9' = v9 /\ v10' = v10
        /\ UNCHANGED <<v1, v2, v4, v5, v6, v7, v11, v12, v14, v15>>
    BY <1>4 DEF Submit!Created, Submit!CallDeploy, Submit!scoped, Submit!Fail
  <2>2. v3 \in Nat /\ v3' \in 0 .. SubmitLimit /\ v1 = 0 /\ v2 <= v3 /\ v2 \in Nat
    BY <2>1 DEF Submit!SubmitInv, Submit!TypeOK
  <2>3. v3' # 0
    BY <2>1, <2>2
  <2> QED BY <2>1, <2>2, <2>3 DEF Submit!SubmitInv, Submit!TypeOK, Submit!DeployReachesItsApp
<1>5. CASE Submit!Deployed
  <2> DEFINE at == Submit!Served(v10)
  <2>1. /\ v8 = "deploy" /\ v3' = (IF at > v3 THEN at ELSE v3) /\ v12' = v12 \cup {at}
        /\ \/ v11' = at /\ v8' = (IF v1 = 0 THEN "refresh" ELSE "domain")
           \/ v8' = "form" /\ v11' = v11
        /\ UNCHANGED <<v1, v2, v4, v5, v6, v7, v9, v10, v14, v15>>
    BY <1>5 DEF Submit!Deployed, Submit!Fail
  <2>2. /\ at \in 1 .. SubmitLimit /\ at <= v3' /\ v3' \in 0 .. SubmitLimit /\ v3 <= v3'
        /\ \/ at \in v15
           \/ /\ (v1 # 0 => at = v1) /\ (v1 = 0 => at \in v2 + 1 .. v3')
              /\ (v1 = 0 /\ v9 # 0 => at = v9)
    BY <2>1 DEF Submit!SubmitInv, Submit!TypeOK, Submit!Served
  <2> HIDE DEF at
  <2>3. Submit!TypeOK' /\ Submit!DeployReachesItsApp'
    BY <2>1, <2>2 DEF Submit!SubmitInv, Submit!TypeOK, Submit!DeployReachesItsApp
  <2> QED BY <2>1, <2>2, <2>3 DEF Submit!SubmitInv, Submit!TypeOK, Submit!targetId
<1>6. CASE Submit!Refreshed
  <2>1. /\ v8 = "refresh" /\ v8' = "domain"
        /\ (v4' = v3 /\ v5' = v5) \/ (v4' = 0 /\ v5' = FALSE)
        /\ UNCHANGED <<v1, v2, v3, v6, v7, v9, v10, v11, v12, v14, v15>>
    BY <1>6 DEF Submit!Refreshed
  <2>2. Submit!TypeOK' /\ Submit!DeployReachesItsApp' /\ Submit!targetId' = Submit!targetId
    BY <2>1 DEF Submit!SubmitInv, Submit!TypeOK, Submit!DeployReachesItsApp, Submit!targetId
  <2> QED BY <2>1, <2>2 DEF Submit!SubmitInv
<1>7. CASE Submit!Arrive
  <2>1. /\ v8 = "domain" /\ v8' = "done" /\ v6' = Submit!targetId /\ v7' = FALSE
        /\ UNCHANGED <<v1, v2, v3, v4, v5, v9, v10, v11, v12, v14, v15>>
    BY <1>7 DEF Submit!Arrive
  <2>2. Submit!targetId \in 0 .. SubmitLimit /\ Submit!targetId' = Submit!targetId
    BY <2>1 DEF Submit!SubmitInv, Submit!TypeOK, Submit!targetId
  <2>3. Submit!TypeOK' /\ Submit!DeployReachesItsApp'
    BY <2>1, <2>2 DEF Submit!SubmitInv, Submit!TypeOK, Submit!DeployReachesItsApp
  <2> QED BY <2>1, <2>2, <2>3 DEF Submit!SubmitInv
<1>8. ASSUME NEW p \in 0 .. v3, Submit!Leave(p) PROVE Submit!SubmitInv'
  <2>1. /\ v6' = p /\ v7' = FALSE
        /\ UNCHANGED <<v1, v2, v3, v4, v5, v8, v9, v10, v11, v12, v14, v15>>
    BY <1>8 DEF Submit!Leave
  <2>2. Submit!TypeOK' /\ Submit!DeployReachesItsApp' /\ Submit!targetId' = Submit!targetId
    BY <2>1 DEF Submit!SubmitInv, Submit!TypeOK, Submit!DeployReachesItsApp, Submit!targetId
  <2> QED BY <2>1, <2>2 DEF Submit!SubmitInv
<1>9. CASE UNCHANGED Submit!vars
  BY <1>9 DEF Submit!vars, Submit!SubmitInv, Submit!TypeOK, Submit!DeployReachesItsApp,
     Submit!targetId
<1> QED BY <1>1, <1>2, <1>3, <1>4, <1>5, <1>6, <1>7, <1>8, <1>9 DEF Submit!Next

\* And so the deployment reaches its app, and the user with it.
LEMMA SubmitArrives ==
    Submit!SubmitInv => Submit!DeployReachesItsApp /\ Submit!ArrivesAtDeployed
BY DEF Submit!SubmitInv, Submit!ArrivesAtDeployed

-------------------------------------------------------------------------------
(***************************************************************************)
(* AppPages: v1 are the news of each app, v2 is the app in the address and *)
(* v4 that of the requests, v3 and v6 say whether the shell is open, v8    *)
(* are its polls and v9 is what it shows.                                  *)
(***************************************************************************)
\* What the module assumes of its constants.
LEMMA PagesAssumed == PagesOfApp!PagesAssumption
BY PageAssumptions

\* One poll of each kind starts with the page of an app.
LEMMA PagesInit == PagesOfApp!Init => PagesOfApp!PollsInv
<1> SUFFICES ASSUME PagesOfApp!Init PROVE PagesOfApp!PollsInv
  OBVIOUS
<1> USE PagesAssumed DEF PagesOfApp!Init, PagesOfApp!PagesAssumption
<1>1. PagesOfApp!AddressInv
  BY DEF PagesOfApp!AddressInv
<1>2. ~PagesOfApp!Shell
  BY DEF PagesOfApp!Shell, PagesOfApp!Ready
<1>3. PagesOfApp!LoopsInv
  BY <1>2 DEF PagesOfApp!LoopsInv, PagesOfApp!Going
<1>4. PagesOfApp!ShownInv
  BY <1>2 DEF PagesOfApp!ShownInv, PagesOfApp!Nothing
<1> QED BY <1>1, <1>3, <1>4 DEF PagesOfApp!PollsInv

\* The address.
LEMMA AddressStep ==
    ASSUME PagesOfApp!PollsInv, [PagesOfApp!Next]_(PagesOfApp!vars)
    PROVE  PagesOfApp!AddressInv'
<1> USE PagesAssumed DEF PagesOfApp!PagesAssumption, PagesOfApp!AddressInv
<1>0. PagesOfApp!AddressInv
  BY DEF PagesOfApp!PollsInv
<1>1. ASSUME NEW a \in PagesOfAppApps \cup {Null}, PagesOfApp!Move(a)
      PROVE  PagesOfApp!AddressInv'
  BY <1>0, <1>1 DEF PagesOfApp!Move
<1>2. ASSUME NEW t \in {"shell", "deploy"}, PagesOfApp!Turn(t) PROVE PagesOfApp!AddressInv'
  BY <1>0, <1>2 DEF PagesOfApp!Turn
<1>3. CASE PagesOfApp!Refresh
  BY <1>0, <1>3 DEF PagesOfApp!Refresh, PagesOfApp!Ready
<1>4. ASSUME NEW a \in v7, PagesOfApp!Found(a) \/ PagesOfApp!NotFound(a)
      PROVE  PagesOfApp!AddressInv'
  BY <1>0, <1>4 DEF PagesOfApp!Found, PagesOfApp!NotFound
<1>5. ASSUME NEW l \in v8, PagesOfApp!SignedOut(l) PROVE PagesOfApp!AddressInv'
  BY <1>0, <1>5 DEF PagesOfApp!SignedOut
<1>6. CASE UNCHANGED <<v2, v3, v4, v5, v6, v7, v11>>
  BY <1>0, <1>6
<1>7. ASSUME NEW a \in PagesOfAppApps, PagesOfApp!News(a)
      PROVE  UNCHANGED <<v2, v3, v4, v5, v6, v7, v11>>
  BY <1>7 DEF PagesOfApp!News
<1>8. ASSUME NEW l \in v8,
             PagesOfApp!Read(l) \/ PagesOfApp!Answered(l) \/ PagesOfApp!Failed(l) \/ PagesOfApp!Tick(l)
      PROVE  UNCHANGED <<v2, v3, v4, v5, v6, v7, v11>>
  BY <1>8 DEF PagesOfApp!Read, PagesOfApp!Answered, PagesOfApp!Failed, PagesOfApp!Tick,
     PagesOfApp!pollRest
<1>9. UNCHANGED PagesOfApp!vars => UNCHANGED <<v2, v3, v4, v5, v6, v7, v11>>
  BY DEF PagesOfApp!vars
<1> QED BY <1>1, <1>2, <1>3, <1>4, <1>5, <1>6, <1>7, <1>8, <1>9 DEF PagesOfApp!Next

\* Polls that were cancelled do not go on.
LEMMA CancelledAre ==
    ASSUME PagesOfApp!LoopsInv
    PROVE  /\ PagesOfApp!Cancelled \subseteq PagesOfApp!Loop
           /\ \A l \in PagesOfApp!Cancelled :
                  ~l.live /\ l.at = "sent" /\ \E m \in v8 : l.app = m.app /\ l.got = m.got
BY DEF PagesOfApp!LoopsInv, PagesOfApp!Cancelled, PagesOfApp!Loop

\* A closed shell has polls that were cancelled.
LEMMA CancelKeeps ==
    ASSUME PagesOfApp!PollsInv, ~PagesOfApp!Shell', v8' \subseteq PagesOfApp!Cancelled, v1' = v1,
           v9' = v9
    PROVE  PagesOfApp!LoopsInv' /\ PagesOfApp!ShownInv'
<1>0. PagesOfApp!LoopsInv /\ PagesOfApp!ShownInv
  BY DEF PagesOfApp!PollsInv
<1>1. /\ v8' \subseteq PagesOfApp!Loop
      /\ \A l \in v8' : ~l.live /\ l.at = "sent" /\ \E m \in v8 : l.app = m.app /\ l.got = m.got
  BY <1>0, CancelledAre
<1>2. PagesOfApp!LoopsInv'
  BY <1>1 DEF PagesOfApp!LoopsInv, PagesOfApp!Going
<1>3. PagesOfApp!ShownInv'
  BY <1>0, <1>1 DEF PagesOfApp!ShownInv
<1> QED BY <1>2, <1>3

\* An open shell that polls anew, and shows nothing yet or what it showed.
LEMMA PollKeeps ==
    ASSUME PagesOfApp!PollsInv, PagesOfApp!Shell', PagesOfApp!Poll, v1' = v1, v2' = v2, v2 # Null,
           v9' = PagesOfApp!Nothing \/ (v9' = v9 /\ PagesOfApp!Shell)
    PROVE  PagesOfApp!LoopsInv' /\ PagesOfApp!ShownInv'
<1> USE PagesAssumed DEF PagesOfApp!PagesAssumption
<1> DEFINE new(k) == [kind |-> k, app |-> v4, at |-> "sent", got |-> 0, live |-> TRUE]
<1>0. /\ PagesOfApp!LoopsInv /\ PagesOfApp!ShownInv /\ v4 = v2 /\ v2 \in PagesOfAppApps
  BY DEF PagesOfApp!PollsInv, PagesOfApp!AddressInv
<1>1. v8' = PagesOfApp!Cancelled \cup {new(k) : k \in PagesOfAppKinds}
  BY DEF PagesOfApp!Poll
<1>2. /\ PagesOfApp!Cancelled \subseteq PagesOfApp!Loop
      /\ \A l \in PagesOfApp!Cancelled :
             ~l.live /\ l.at = "sent" /\ \E m \in v8 : l.app = m.app /\ l.got = m.got
  BY <1>0, CancelledAre
<1>3. \A k \in PagesOfAppKinds :
          /\ new(k) \in PagesOfApp!Loop /\ new(k).kind = k /\ new(k).live /\ new(k).app = v2
          /\ new(k).got = 0 /\ new(k).at = "sent"
  BY <1>0 DEF PagesOfApp!Loop
<1> HIDE DEF new
<1>4. ASSUME NEW k \in PagesOfAppKinds
      PROVE  new(k) \in v8' /\ PagesOfApp!Going(k)' = {new(k)}
  BY <1>1, <1>2, <1>3 DEF PagesOfApp!Going
<1>5. PagesOfApp!LoopsInv'
  BY <1>0, <1>1, <1>2, <1>3, <1>4 DEF PagesOfApp!LoopsInv
<1>6. \A l \in v8' : l.got <= v1'[l.app] + 1 /\ (l.live => l.got = 0)
  BY <1>0, <1>1, <1>2, <1>3 DEF PagesOfApp!ShownInv
<1>7. /\ v9' \in [PagesOfAppKinds -> [app : PagesOfAppApps \cup {Null}, of : Nat]]
      /\ \A k \in PagesOfAppKinds : /\ v9'[k].app \in {Null, v2}
                                    /\ v9'[k].app = v2 => v9'[k].of <= v1[v2] + 1
  <2>1. CASE v9' = PagesOfApp!Nothing
    BY <1>0, <2>1 DEF PagesOfApp!Nothing
  <2>2. CASE v9' = v9 /\ PagesOfApp!Shell
    BY <1>0, <2>2 DEF PagesOfApp!ShownInv
  <2> QED BY <2>1, <2>2
<1>8. PagesOfApp!ShownInv'
  BY <1>0, <1>6, <1>7 DEF PagesOfApp!ShownInv
<1> QED BY <1>5, <1>8

\* One poll goes on to its next step, or ends if it was cancelled.
LEMMA LoopGoes ==
    ASSUME PagesOfApp!PollsInv, NEW l \in v8, NEW m \in PagesOfApp!Loop,
           \/ v8' = (v8 \ {l}) \cup {m} /\ m.kind = l.kind /\ m.live = l.live
           \/ v8' = v8 \ {l} /\ ~l.live,
           m.live => m.app = v2, m.at = "wait" => m.live, UNCHANGED <<v2, v3, v6>>
    PROVE  PagesOfApp!LoopsInv'
<1>0. PagesOfApp!LoopsInv
  BY DEF PagesOfApp!PollsInv
<1>1. PagesOfApp!Shell' = PagesOfApp!Shell
  BY DEF PagesOfApp!Shell, PagesOfApp!Ready
<1>2. /\ v8' \subseteq PagesOfApp!Loop
      /\ \A n \in v8' : (n.live => n.app = v2') /\ (n.at = "wait" => n.live)
  BY <1>0 DEF PagesOfApp!LoopsInv
<1>3. ASSUME NEW k \in PagesOfAppKinds
      PROVE  IF PagesOfApp!Shell' THEN \E n \in v8' : PagesOfApp!Going(k)' = {n}
             ELSE PagesOfApp!Going(k)' = {}
  <2>1. CASE l.kind = k /\ l.live
    <3>1. PagesOfApp!Shell /\ PagesOfApp!Going(k) = {l}
      BY <1>0, <2>1 DEF PagesOfApp!LoopsInv, PagesOfApp!Going
    <3>2. m \in v8' /\ PagesOfApp!Going(k)' = {m}
      BY <2>1, <3>1 DEF PagesOfApp!Going
    <3> QED BY <1>1, <3>1, <3>2
  <2>2. CASE ~(l.kind = k /\ l.live)
    <3>1. PagesOfApp!Going(k)' = PagesOfApp!Going(k)
      BY <2>2 DEF PagesOfApp!Going
    <3>2. \A n \in PagesOfApp!Going(k) : n \in v8'
      BY <3>1 DEF PagesOfApp!Going
    <3> QED BY <1>0, <1>1, <3>1, <3>2 DEF PagesOfApp!LoopsInv
  <2> QED BY <2>1, <2>2
<1> QED BY <1>1, <1>2, <1>3 DEF PagesOfApp!LoopsInv

\* A request is read at the server, answered, or made again.
LEMMA ReadKeeps ==
    ASSUME PagesOfApp!PollsInv, NEW l \in v8,
           PagesOfApp!Read(l) \/ PagesOfApp!Tick(l)
    PROVE  PagesOfApp!LoopsInv' /\ PagesOfApp!ShownInv'
<1>0. /\ PagesOfApp!LoopsInv /\ PagesOfApp!ShownInv /\ PagesOfApp!AddressInv
      /\ l \in PagesOfApp!Loop
  BY DEF PagesOfApp!PollsInv, PagesOfApp!LoopsInv
<1>1. UNCHANGED <<v1, v2, v3, v4, v6, v9>> /\ PagesOfApp!Shell' = PagesOfApp!Shell
  BY DEF PagesOfApp!Read, PagesOfApp!Tick, PagesOfApp!pollRest, PagesOfApp!Shell, PagesOfApp!Ready
<1>2. CASE PagesOfApp!Read(l)
  <2> DEFINE m == [l EXCEPT !.got = v1[l.app] + 1]
  <2>1. v8' = (v8 \ {l}) \cup {m}
    BY <1>2 DEF PagesOfApp!Read
  <2>2. v1[l.app] \in Nat
    BY <1>0 DEF PagesOfApp!Loop, PagesOfApp!ShownInv
  <2>3. /\ m \in PagesOfApp!Loop /\ m.kind = l.kind /\ m.live = l.live /\ m.app = l.app
        /\ m.got = v1[l.app] + 1 /\ m.at = "sent"
    BY <1>0, <1>2, <2>2 DEF PagesOfApp!Loop, PagesOfApp!Read
  <2> HIDE DEF m
  <2>4. m.live => m.app = v2
    BY <1>0, <2>3 DEF PagesOfApp!LoopsInv
  <2>5. PagesOfApp!LoopsInv'
    BY <1>1, <2>1, <2>3, <2>4, LoopGoes
  <2>6. \A n \in v8' : n.got <= v1'[n.app] + 1
    BY <1>0, <1>1, <2>1, <2>2, <2>3 DEF PagesOfApp!ShownInv
  <2>7. ASSUME PagesOfApp!Shell, m.live, v9[m.kind].app = v2 PROVE m.got >= v9[m.kind].of
    <3>1. m.app = v2 /\ m.kind \in PagesOfAppKinds
      BY <2>3, <2>4, <2>7 DEF PagesOfApp!Loop
    <3> QED BY <1>0, <2>3, <2>7, <3>1 DEF PagesOfApp!ShownInv
  <2>8. PagesOfApp!ShownInv'
    BY <1>0, <1>1, <2>1, <2>6, <2>7 DEF PagesOfApp!ShownInv
  <2> QED BY <2>5, <2>8
<1>3. CASE PagesOfApp!Tick(l)
  <2> DEFINE m == [l EXCEPT !.at = "sent", !.app = v4]
  <2>1. v8' = (v8 \ {l}) \cup {m} /\ l.at = "wait"
    BY <1>3 DEF PagesOfApp!Tick
  <2>2. l.live /\ l.app = v4 /\ v4 = v2 /\ l.app \in PagesOfAppApps
    BY <1>0, <2>1 DEF PagesOfApp!LoopsInv, PagesOfApp!AddressInv, PagesOfApp!Loop
  <2>3. /\ m \in PagesOfApp!Loop /\ m.kind = l.kind /\ m.live = l.live /\ m.app = l.app
        /\ m.got = l.got /\ m.at = "sent"
    BY <1>0, <2>2 DEF PagesOfApp!Loop
  <2> HIDE DEF m
  <2>4. PagesOfApp!LoopsInv'
    BY <1>1, <2>1, <2>2, <2>3, LoopGoes
  <2>5. PagesOfApp!ShownInv'
    BY <1>0, <1>1, <2>1, <2>3 DEF PagesOfApp!ShownInv
  <2> QED BY <2>4, <2>5
<1> QED BY <1>2, <1>3

\* An answer is shown if the poll goes on; a failure leaves what is shown.
LEMMA AnswerKeeps ==
    ASSUME PagesOfApp!PollsInv, NEW l \in v8,
           PagesOfApp!Answered(l) \/ PagesOfApp!Failed(l)
    PROVE  PagesOfApp!LoopsInv' /\ PagesOfApp!ShownInv'
<1> USE PagesAssumed DEF PagesOfApp!PagesAssumption
<1>0. /\ PagesOfApp!LoopsInv /\ PagesOfApp!ShownInv /\ PagesOfApp!AddressInv
      /\ l \in PagesOfApp!Loop
  BY DEF PagesOfApp!PollsInv, PagesOfApp!LoopsInv
<1>1. UNCHANGED <<v1, v2, v3, v4, v6>> /\ PagesOfApp!Shell' = PagesOfApp!Shell
  BY DEF PagesOfApp!Answered, PagesOfApp!Failed, PagesOfApp!pollRest, PagesOfApp!Shell,
     PagesOfApp!Ready
<1>2. CASE ~l.live
  <2>1. v8' = v8 \ {l} /\ v9' = v9
    BY <1>2 DEF PagesOfApp!Answered, PagesOfApp!Failed
  <2>2. PagesOfApp!LoopsInv'
    BY <1>0, <1>1, <1>2, <2>1, LoopGoes DEF PagesOfApp!LoopsInv
  <2>3. PagesOfApp!ShownInv'
    BY <1>0, <1>1, <2>1 DEF PagesOfApp!ShownInv
  <2> QED BY <2>2, <2>3
<1>3. CASE l.live
  <2> DEFINE m == [l EXCEPT !.at = "wait", !.got = 0]
  <2>1. /\ v8' = (v8 \ {l}) \cup {m} /\ l.got > 0
        /\ v9' = v9 \/ v9' = [v9 EXCEPT ![l.kind] = [app |-> l.app, of |-> l.got]]
    BY <1>3 DEF PagesOfApp!Answered, PagesOfApp!Failed
  <2>2. /\ m \in PagesOfApp!Loop /\ m.kind = l.kind /\ m.live = l.live /\ m.app = l.app
        /\ m.got = 0
    BY <1>0 DEF PagesOfApp!Loop
  <2>3. /\ l.app = v2 /\ v2 \in PagesOfAppApps /\ l.kind \in PagesOfAppKinds /\ l.got \in Nat
        /\ v2 # Null
    BY <1>0, <1>3 DEF PagesOfApp!LoopsInv, PagesOfApp!Loop
  <2>4. PagesOfApp!Shell /\ PagesOfApp!Going(l.kind) = {l}
    BY <1>0, <1>3, <2>3 DEF PagesOfApp!LoopsInv, PagesOfApp!Going
  <2> HIDE DEF m
  <2>5. PagesOfApp!LoopsInv'
    BY <1>1, <1>3, <2>1, <2>2, <2>3, LoopGoes
  <2>6. \A n \in v8' : n.got <= v1'[n.app] + 1
    <3>1. v1[l.app] \in Nat
      BY <1>0, <2>3 DEF PagesOfApp!ShownInv
    <3> QED BY <1>0, <1>1, <2>1, <2>2, <3>1 DEF PagesOfApp!ShownInv
  <2>7. CASE v9' = v9
    BY <1>0, <1>1, <2>1, <2>2, <2>5, <2>6, <2>7 DEF PagesOfApp!ShownInv
  <2>8. CASE v9' = [v9 EXCEPT ![l.kind] = [app |-> l.app, of |-> l.got]]
    <3>1. v9' \in [PagesOfAppKinds -> [app : PagesOfAppApps \cup {Null}, of : Nat]]
      BY <1>0, <2>3, <2>8 DEF PagesOfApp!ShownInv
    <3>2. /\ v9'[l.kind].app = v2 /\ v9'[l.kind].of = l.got
          /\ \A k \in PagesOfAppKinds \ {l.kind} : v9'[k] = v9[k]
      BY <1>0, <2>3, <2>8 DEF PagesOfApp!ShownInv
    <3>3. l.got <= v1[v2] + 1
      BY <1>0, <2>3 DEF PagesOfApp!ShownInv
    <3>4. \A k \in PagesOfAppKinds : /\ v9'[k].app \in {Null, v2}
                                     /\ v9'[k].app = v2 => v9'[k].of <= v1[v2] + 1
      BY <1>0, <2>4, <3>2, <3>3 DEF PagesOfApp!ShownInv
    <3>5. ASSUME NEW n \in v8', n.live, n.got > 0, v9'[n.kind].app = v2
          PROVE  n.got >= v9'[n.kind].of
      <4>1. n \in v8 \ {l} /\ n.kind \in PagesOfAppKinds
        BY <1>0, <2>1, <2>2, <3>5 DEF PagesOfApp!LoopsInv, PagesOfApp!Loop
      <4>2. n.kind # l.kind
        BY <2>4, <3>5, <4>1 DEF PagesOfApp!Going
      <4> QED BY <1>0, <2>4, <3>2, <3>5, <4>1, <4>2 DEF PagesOfApp!ShownInv
    <3> QED BY <1>0, <1>1, <2>5, <2>6, <3>1, <3>4, <3>5 DEF PagesOfApp!ShownInv
  <2> QED BY <2>1, <2>7, <2>8
<1> QED BY <1>2, <1>3

\* Each step keeps one poll of each kind, and news in their order.
LEMMA PagesStep ==
    PagesOfApp!PollsInv /\ [PagesOfApp!Next]_(PagesOfApp!vars) => PagesOfApp!PollsInv'
<1> SUFFICES ASSUME PagesOfApp!PollsInv, [PagesOfApp!Next]_(PagesOfApp!vars)
             PROVE  PagesOfApp!LoopsInv' /\ PagesOfApp!ShownInv'
  BY AddressStep DEF PagesOfApp!PollsInv
<1> USE PagesAssumed DEF PagesOfApp!PagesAssumption
<1>0. PagesOfApp!LoopsInv /\ PagesOfApp!ShownInv /\ PagesOfApp!AddressInv
  BY DEF PagesOfApp!PollsInv
<1>same. ASSUME v1' = v1, v8' = v8, v9' = v9, v2' = v2, PagesOfApp!Shell' = PagesOfApp!Shell
         PROVE  PagesOfApp!LoopsInv' /\ PagesOfApp!ShownInv'
  <2>1. PagesOfApp!LoopsInv'
    BY <1>0, <1>same DEF PagesOfApp!LoopsInv, PagesOfApp!Going
  <2>2. PagesOfApp!ShownInv'
    BY <1>0, <1>same DEF PagesOfApp!ShownInv
  <2> QED BY <2>1, <2>2
<1>1. ASSUME NEW a \in PagesOfAppApps \cup {Null}, PagesOfApp!Move(a)
      PROVE  PagesOfApp!LoopsInv' /\ PagesOfApp!ShownInv'
  <2>1. ~PagesOfApp!Shell' /\ v8' = PagesOfApp!Cancelled /\ v1' = v1 /\ v9' = v9
    BY <1>1 DEF PagesOfApp!Move, PagesOfApp!Unmount, PagesOfApp!Shell, PagesOfApp!Ready
  <2> QED BY <2>1, CancelKeeps
<1>2. ASSUME NEW t \in {"shell", "deploy"}, PagesOfApp!Turn(t)
      PROVE  PagesOfApp!LoopsInv' /\ PagesOfApp!ShownInv'
  <2>1. UNCHANGED <<v1, v2, v4, v6>> /\ v3' = t /\ v2 # Null
    BY <1>2 DEF PagesOfApp!Turn
  <2>2. PagesOfApp!Shell' <=> PagesOfApp!Ready /\ t = "shell"
    BY <2>1 DEF PagesOfApp!Shell, PagesOfApp!Ready
  <2>3. CASE PagesOfApp!Ready /\ t = "shell"
    <3>1. PagesOfApp!Poll /\ (v9' = PagesOfApp!Nothing \/ (v9' = v9 /\ PagesOfApp!Shell))
      BY <1>2, <2>3 DEF PagesOfApp!Turn, PagesOfApp!Mount, PagesOfApp!Shell
    <3> QED BY <2>1, <2>2, <2>3, <3>1, PollKeeps
  <2>4. CASE ~(PagesOfApp!Ready /\ t = "shell")
    <3>1. v8' = PagesOfApp!Cancelled /\ v9' = v9
      BY <1>2, <2>4 DEF PagesOfApp!Turn, PagesOfApp!Unmount
    <3> QED BY <2>1, <2>2, <2>4, <3>1, CancelKeeps
  <2> QED BY <2>3, <2>4
<1>3. CASE PagesOfApp!Refresh \/ UNCHANGED PagesOfApp!vars
  BY <1>3, <1>same DEF PagesOfApp!Refresh, PagesOfApp!pollVars, PagesOfApp!vars, PagesOfApp!Shell,
     PagesOfApp!Ready
<1>4. ASSUME NEW a \in v7, PagesOfApp!Found(a)
      PROVE  PagesOfApp!LoopsInv' /\ PagesOfApp!ShownInv'
  <2>1. UNCHANGED <<v1, v2, v3, v4>> /\ v6' = "ready" /\ v2 # Null
    BY <1>0, <1>4 DEF PagesOfApp!Found, PagesOfApp!AddressInv
  <2>2. PagesOfApp!Shell' <=> v3 = "shell"
    BY <2>1 DEF PagesOfApp!Shell, PagesOfApp!Ready
  <2>3. CASE UNCHANGED PagesOfApp!pollVars /\ PagesOfApp!Shell' = PagesOfApp!Shell
    BY <2>1, <2>3, <1>same DEF PagesOfApp!pollVars
  <2>4. CASE v3 = "shell" /\ ~ (UNCHANGED PagesOfApp!pollVars /\ PagesOfApp!Ready)
    <3>1. PagesOfApp!Poll /\ (v9' = PagesOfApp!Nothing \/ (v9' = v9 /\ PagesOfApp!Shell))
      BY <1>4, <2>4 DEF PagesOfApp!Found, PagesOfApp!Mount, PagesOfApp!Shell
    <3> QED BY <2>1, <2>2, <2>4, <3>1, PollKeeps
  <2>5. \/ v3 = "shell" /\ ~(UNCHANGED PagesOfApp!pollVars /\ PagesOfApp!Ready)
        \/ UNCHANGED PagesOfApp!pollVars /\ PagesOfApp!Shell' = PagesOfApp!Shell
    <3>1. CASE v3 = "shell"
      BY <2>2, <3>1 DEF PagesOfApp!Shell
    <3>2. CASE v3 # "shell"
      BY <1>4, <2>2, <3>2 DEF PagesOfApp!Found, PagesOfApp!Shell
    <3> QED BY <3>1, <3>2
  <2> QED BY <2>3, <2>4, <2>5
<1>5. ASSUME NEW a \in v7, PagesOfApp!NotFound(a)
      PROVE  PagesOfApp!LoopsInv' /\ PagesOfApp!ShownInv'
  <2>1. ~PagesOfApp!Shell' /\ v8' = PagesOfApp!Cancelled /\ v1' = v1 /\ v9' = v9
    BY <1>5 DEF PagesOfApp!NotFound, PagesOfApp!Unmount, PagesOfApp!Shell, PagesOfApp!Ready
  <2> QED BY <2>1, CancelKeeps
<1>6. ASSUME NEW a \in PagesOfAppApps, PagesOfApp!News(a)
      PROVE  PagesOfApp!LoopsInv' /\ PagesOfApp!ShownInv'
  <2>1. /\ v1' = [v1 EXCEPT ![a] = v1[a] + 1] /\ v8' = v8 /\ v9' = v9 /\ v2' = v2
        /\ PagesOfApp!Shell' = PagesOfApp!Shell
    BY <1>6 DEF PagesOfApp!News, PagesOfApp!pollVars, PagesOfApp!Shell, PagesOfApp!Ready
  <2>2. PagesOfApp!LoopsInv'
    BY <1>0, <2>1 DEF PagesOfApp!LoopsInv, PagesOfApp!Going
  <2>3. v1' \in [PagesOfAppApps -> Nat] /\ \A b \in PagesOfAppApps : v1[b] <= v1'[b] /\ v1[b] \in Nat
    BY <1>0, <2>1 DEF PagesOfApp!ShownInv
  <2>4. \A l \in v8 : l.app \in PagesOfAppApps /\ l.got \in Nat
    BY <1>0 DEF PagesOfApp!LoopsInv, PagesOfApp!Loop
  <2>5. PagesOfApp!Shell => v2 \in PagesOfAppApps
    BY <1>0 DEF PagesOfApp!AddressInv, PagesOfApp!Shell, PagesOfApp!Ready
  <2>6. \A l \in v8' : l.got <= v1'[l.app] + 1
    BY <1>0, <2>1, <2>3, <2>4 DEF PagesOfApp!ShownInv
  <2>7. PagesOfApp!Shell => \A k \in PagesOfAppKinds :
            /\ v9[k].app \in {Null, v2}
            /\ v9[k].app = v2 => v9[k].of <= v1'[v2] + 1
    BY <1>0, <2>3, <2>5 DEF PagesOfApp!ShownInv
  <2>8. PagesOfApp!ShownInv'
    BY <1>0, <2>1, <2>3, <2>6, <2>7 DEF PagesOfApp!ShownInv
  <2> QED BY <2>2, <2>8
<1>7. ASSUME NEW l \in v8, PagesOfApp!Read(l) \/ PagesOfApp!Tick(l)
      PROVE  PagesOfApp!LoopsInv' /\ PagesOfApp!ShownInv'
  BY <1>7, ReadKeeps
<1>8. ASSUME NEW l \in v8, PagesOfApp!Answered(l) \/ PagesOfApp!Failed(l)
      PROVE  PagesOfApp!LoopsInv' /\ PagesOfApp!ShownInv'
  BY <1>8, AnswerKeeps
<1>9. ASSUME NEW l \in v8, PagesOfApp!SignedOut(l)
      PROVE  PagesOfApp!LoopsInv' /\ PagesOfApp!ShownInv'
  <2>1. ~PagesOfApp!Shell' /\ v8' \subseteq PagesOfApp!Cancelled /\ v1' = v1 /\ v9' = v9
    BY <1>9 DEF PagesOfApp!SignedOut, PagesOfApp!Shell, PagesOfApp!Ready
  <2> QED BY <2>1, CancelKeeps
<1> QED BY <1>1, <1>2, <1>3, <1>4, <1>5, <1>6, <1>7, <1>8, <1>9 DEF PagesOfApp!Next

\* An open shell has one poll of each kind that goes on, a closed one none.
LEMMA OnePoll == PagesOfApp!PollsInv => PagesOfApp!OnePollEach
<1> SUFFICES ASSUME PagesOfApp!PollsInv, NEW k \in PagesOfAppKinds
             PROVE  PagesOfApp!Cardinality(PagesOfApp!Going(k)) = IF PagesOfApp!Shell THEN 1 ELSE 0
  BY DEF PagesOfApp!OnePollEach, PagesOfApp!Going
<1>1. PagesOfApp!Cardinality(PagesOfApp!Going(k)) = Cardinality(PagesOfApp!Going(k))
  BY Zenon DEF PagesOfApp!Cardinality, Cardinality
<1>2. IF PagesOfApp!Shell THEN \E l \in v8 : PagesOfApp!Going(k) = {l}
      ELSE PagesOfApp!Going(k) = {}
  BY DEF PagesOfApp!PollsInv, PagesOfApp!LoopsInv
<1> HIDE DEF Cardinality
<1> QED BY <1>1, <1>2, FS_EmptySet, FS_Singleton

\* Within one app nothing that is shown is replaced by something older.
LEMMA PagesForward ==
    PagesOfApp!PollsInv /\ [PagesOfApp!Next]_(PagesOfApp!vars) => PagesOfApp!NewsGoForward
<1> SUFFICES ASSUME PagesOfApp!PollsInv, [PagesOfApp!Next]_(PagesOfApp!vars),
                    PagesOfApp!Shell, PagesOfApp!Shell', v2' = v2, NEW k \in PagesOfAppKinds
             PROVE  /\ v9'[k].app \in {Null, v2}
                    /\ v9'[k].app = v9[k].app => v9'[k].of >= v9[k].of
  BY DEF PagesOfApp!NewsGoForward
<1>0. /\ PagesOfApp!LoopsInv /\ PagesOfApp!ShownInv
      /\ v9[k].app \in {Null, v2} /\ v9[k].of \in Nat
  BY DEF PagesOfApp!PollsInv, PagesOfApp!ShownInv
<1>1. ASSUME NEW l \in v8, PagesOfApp!Answered(l)
      PROVE  /\ v9'[k].app \in {Null, v2}
             /\ v9'[k].app = v9[k].app => v9'[k].of >= v9[k].of
  <2>1. CASE v9' = v9
    BY <1>0, <2>1
  <2>2. CASE l.live /\ v9' = [v9 EXCEPT ![l.kind] = [app |-> l.app, of |-> l.got]]
    <3>1. l.app = v2 /\ l.got > 0
      BY <1>0, <1>1, <2>2 DEF PagesOfApp!LoopsInv, PagesOfApp!Answered
    <3>2. v9[l.kind].app = v2 => l.got >= v9[l.kind].of
      BY <1>0, <2>2, <3>1 DEF PagesOfApp!ShownInv
    <3> QED BY <1>0, <2>2, <3>1, <3>2 DEF PagesOfApp!ShownInv
  <2> QED BY <1>1, <2>1, <2>2 DEF PagesOfApp!Answered
<1>2. ASSUME v9' # v9 PROVE \E l \in v8 : PagesOfApp!Answered(l)
  BY <1>2 DEF PagesOfApp!Next, PagesOfApp!vars, PagesOfApp!pollVars, PagesOfApp!pollRest,
     PagesOfApp!Move, PagesOfApp!Turn, PagesOfApp!Refresh, PagesOfApp!Found, PagesOfApp!NotFound,
     PagesOfApp!News, PagesOfApp!Read, PagesOfApp!Failed, PagesOfApp!SignedOut, PagesOfApp!Tick,
     PagesOfApp!Shell, PagesOfApp!Unmount
<1> QED BY <1>0, <1>1, <1>2

\* Type correctness follows.
LEMMA PagesTyped == PagesOfApp!PollsInv => PagesOfApp!TypeOK
BY DEF PagesOfApp!PollsInv, PagesOfApp!AddressInv, PagesOfApp!LoopsInv, PagesOfApp!Loop,
   PagesOfApp!TypeOK, PagesOfApp!TopBar

-------------------------------------------------------------------------------
(***************************************************************************)
(* AdminUsers: v1 are the accounts, v2 the same as listed, v3 the open     *)
(* row, v4 whom the dialog is for, v5 the name typed, v7 the requests.     *)
(***************************************************************************)
\* The list is empty at the start, and nobody's account is asked to be ended.
LEMMA AccountsInit == Accounts!Init => Accounts!EndInv
<1> USE PageAssumptions DEF Accounts!UsersAssumption
<1> SUFFICES ASSUME Accounts!Init PROVE Accounts!EndInv
  OBVIOUS
<1>1. PICK r \in AccountsMyRoles :
          v1 = [u \in AccountsUsers |->
                   [role |-> IF u = AccountsMe THEN r ELSE "user", tier |-> AccountsFirstTier]]
  BY DEF Accounts!Init
<1>2. DOMAIN v1 = AccountsUsers /\ \A u \in AccountsUsers : v1[u] \in Accounts!Account
  BY <1>1 DEF Accounts!Account
<1>3. DOMAIN v2 = {}
  BY DEF Accounts!Init
<1>4. v6 \in BOOLEAN
  BY Zenon DEF Accounts!Init
<1>5. Accounts!TypeOK
  <2>1. v3 = Null /\ v4 = Null /\ v5 = Null
    BY DEF Accounts!Init
  <2> QED BY <1>2, <1>3, <1>4, <2>1 DEF Accounts!TypeOK
<1>6. v7 \subseteq Accounts!Request /\ Accounts!EndedIsTyped
  BY DEF Accounts!Init, Accounts!Request, Accounts!EndedIsTyped, Accounts!All
<1> QED BY <1>2, <1>5, <1>6 DEF Accounts!EndInv, Accounts!Init

\* Steps that leave the accounts and the list alone.
LEMMA AccountsStay ==
    ASSUME Accounts!EndInv, v1' = v1, v2' = v2,
           v3' \in AccountsUsers \cup {Null}, v4' \in AccountsUsers \cup {Null},
           v5' \in AccountsUsers \cup {Null}, v6' \in BOOLEAN,
           v4' # Null => v4' # AccountsMe /\ Accounts!me = "root",
           v7' \subseteq Accounts!Request,
           \A c \in v7' \ v7 : c.kind = "delete" =>
               c.typed = c.id /\ c.id # AccountsMe /\ Accounts!me = "root"
    PROVE  Accounts!EndInv'
<1>1. Accounts!TypeOK'
  BY Zenon DEF Accounts!EndInv, Accounts!TypeOK
<1>2. Accounts!me' = Accounts!me
  BY Zenon DEF Accounts!me
<1>3. Accounts!EndedIsTyped'
  BY <1>2, Zenon DEF Accounts!EndInv, Accounts!EndedIsTyped
<1> QED BY <1>1, <1>2, <1>3, Zenon DEF Accounts!EndInv

\* An account that is ended is never the administrator's own; a change of one is not
\* one of the administrator's role.
LEMMA AccountsAnswered ==
    ASSUME Accounts!EndInv, NEW c \in v7,
           \/ Accounts!AllListed(c) \/ Accounts!Changed(c) \/ Accounts!Deleted(c)
           \/ Accounts!Fails(c)
    PROVE  Accounts!EndInv'
<1> USE PageAssumptions DEF Accounts!UsersAssumption
<1>0. /\ Accounts!TypeOK /\ v7 \subseteq Accounts!Request /\ Accounts!EndedIsTyped
      /\ AccountsMe \in DOMAIN v1 /\ \A u \in DOMAIN v1 : v1[u] \in Accounts!Account
      /\ v4 # Null => v4 # AccountsMe /\ Accounts!me = "root"
  BY Zenon DEF Accounts!EndInv
<1>9. /\ DOMAIN v1 \subseteq AccountsUsers /\ DOMAIN v2 \subseteq AccountsUsers
      /\ \A u \in DOMAIN v2 : v2[u] \in Accounts!Account
      /\ v3 \in AccountsUsers \cup {Null} /\ v4 \in AccountsUsers \cup {Null}
      /\ v5 \in AccountsUsers \cup {Null} /\ v6 \in BOOLEAN
  <2>1. \A u \in DOMAIN v2 : v2[u] \in Accounts!Account
    BY <1>0 DEF Accounts!TypeOK, Accounts!Account
  <2> QED BY <1>0, <2>1, Zenon DEF Accounts!TypeOK
<1>1. CASE Accounts!AllListed(c)
  <2>1. /\ v1' = v1 /\ v2' = v1 /\ v3' = v3 /\ v4' = v4 /\ v5' = v5 /\ v6' = v6
        /\ v7' \subseteq v7
    BY <1>1 DEF Accounts!AllListed, Accounts!dialogVars
  <2>2. \A u \in DOMAIN v1 : v1[u] \in [role : {"user"} \cup AccountsMyRoles \cup {"admin"},
                                          tier : AccountsTiers]
    BY <1>0 DEF Accounts!Account
  <2>3. Accounts!TypeOK'
    BY <1>9, <2>1, <2>2, Zenon DEF Accounts!TypeOK
  <2>4. Accounts!me' = Accounts!me
    BY <2>1, Zenon DEF Accounts!me
  <2>5. Accounts!EndedIsTyped'
    BY <1>0, <2>1, <2>4, Zenon DEF Accounts!EndedIsTyped
  <2> QED BY <1>0, <2>1, <2>3, <2>4, <2>5, Zenon DEF Accounts!EndInv
<1>2. CASE Accounts!Changed(c)
  <2>1. /\ v1' = [v1 EXCEPT ![c.id][c.kind] = c.to]
        /\ v2' = [u \in DOMAIN v2 |->
                     IF u = c.id THEN [v2[u] EXCEPT ![c.kind] = c.to] ELSE v2[u]]
        /\ v3' = v3 /\ v4' = v4 /\ v5' = v5 /\ v6' = v6 /\ v7' \subseteq v7
        /\ c.kind \in {"role", "tier"} /\ c.id \in DOMAIN v1
    BY <1>2 DEF Accounts!Changed, Accounts!dialogVars
  <2>2. \/ c.kind = "role" /\ c.id # AccountsMe /\ c.to \in {"user", "admin"}
        \/ c.kind = "tier" /\ c.to \in AccountsTiers
    BY <1>0, <2>1 DEF Accounts!Request, Accounts!All
  <2>3. ASSUME NEW r \in Accounts!Account
        PROVE  /\ [r EXCEPT ![c.kind] = c.to] \in Accounts!Account
               /\ c.kind = "tier" => [r EXCEPT ![c.kind] = c.to].role = r.role
    BY <2>2 DEF Accounts!Account
  <2>4. /\ DOMAIN v1' = DOMAIN v1 /\ DOMAIN v2' = DOMAIN v2
        /\ \A u \in DOMAIN v1 :
               v1'[u] = IF u = c.id THEN [v1[u] EXCEPT ![c.kind] = c.to] ELSE v1[u]
        /\ \A u \in DOMAIN v2 :
               v2'[u] = IF u = c.id THEN [v2[u] EXCEPT ![c.kind] = c.to] ELSE v2[u]
    BY <2>1
  <2>5. /\ \A u \in DOMAIN v1 : v1'[u] \in Accounts!Account
        /\ \A u \in DOMAIN v2 : v2'[u] \in Accounts!Account
    BY <1>0, <1>9, <2>3, <2>4
  <2>6. Accounts!me' = Accounts!me
    <3>1. v1'[AccountsMe].role = v1[AccountsMe].role
      BY <1>0, <2>2, <2>3, <2>4
    <3> QED BY <3>1, Zenon DEF Accounts!me
  <2>7. \A u \in DOMAIN v2 : v2'[u] \in [role : {"user"} \cup AccountsMyRoles \cup {"admin"},
                                          tier : AccountsTiers]
    BY <2>5 DEF Accounts!Account
  <2>8. Accounts!TypeOK'
    BY <1>9, <2>1, <2>4, <2>7, Zenon DEF Accounts!TypeOK
  <2>9. Accounts!EndedIsTyped'
    BY <1>0, <2>1, <2>6, Zenon DEF Accounts!EndedIsTyped
  <2> QED BY <1>0, <2>1, <2>4, <2>5, <2>6, <2>8, <2>9, Zenon DEF Accounts!EndInv
<1>3. CASE Accounts!Deleted(c)
  <2>1. /\ v1' = [u \in DOMAIN v1 \ {c.id} |-> v1[u]] /\ v2' = v2
        /\ v3' = Null /\ v4' = Null /\ v5' = Null /\ v7' = (v7 \ {c}) \cup {Accounts!All}
        /\ c.kind = "delete"
    BY <1>3 DEF Accounts!Deleted
  <2>2. c.id # AccountsMe
    BY <1>0, <2>1, Zenon DEF Accounts!EndedIsTyped
  <2>3. DOMAIN v1' = DOMAIN v1 \ {c.id} /\ \A u \in DOMAIN v1' : v1'[u] = v1[u]
    BY <2>1
  <2>4. AccountsMe \in DOMAIN v1' /\ \A u \in DOMAIN v1' : v1'[u] \in Accounts!Account
    BY <1>0, <2>2, <2>3
  <2>5. Accounts!me' = Accounts!me
    BY <2>3, <2>4, Zenon DEF Accounts!me
  <2>6. v6' = FALSE
    BY <1>3, Zenon DEF Accounts!Deleted
  <2>7. Accounts!TypeOK'
    BY <1>0, <1>9, <2>1, <2>3, <2>6, Zenon DEF Accounts!TypeOK
  <2>8. Accounts!All \in Accounts!Request /\ Accounts!All.kind # "delete"
    BY DEF Accounts!Request, Accounts!All
  <2>9. Accounts!EndedIsTyped'
    BY <1>0, <2>1, <2>5, <2>8, Zenon DEF Accounts!EndedIsTyped
  <2>10. v7' \subseteq Accounts!Request
    BY <1>0, <2>1, <2>8, Zenon
  <2> QED BY <2>1, <2>4, <2>7, <2>9, <2>10, Zenon DEF Accounts!EndInv
<1>4. CASE Accounts!Fails(c)
  <2>1. /\ v1' = v1 /\ v2' = v2 /\ v3' = v3 /\ v4' = v4 /\ v5' = v5 /\ v7' \subseteq v7
    BY <1>4 DEF Accounts!Fails, Accounts!rowVars
  <2>2. v6' \in BOOLEAN
    BY <1>4, Zenon DEF Accounts!Fails
  <2> QED BY <1>0, <1>9, <2>1, <2>2, AccountsStay, Zenon
<1> QED BY <1>1, <1>2, <1>3, <1>4, Zenon

\* Each step of the tab keeps what is said of it.
LEMMA AccountsStep ==
    Accounts!EndInv /\ [Accounts!Next]_(Accounts!vars) => Accounts!EndInv'
<1> SUFFICES ASSUME Accounts!EndInv, [Accounts!Next]_(Accounts!vars) PROVE Accounts!EndInv'
  OBVIOUS
<1> USE PageAssumptions DEF Accounts!UsersAssumption
<1>0. /\ v7 \subseteq Accounts!Request
      /\ v3 \in AccountsUsers \cup {Null} /\ v4 \in AccountsUsers \cup {Null}
      /\ v5 \in AccountsUsers \cup {Null} /\ v6 \in BOOLEAN
      /\ v4 # Null => v4 # AccountsMe /\ Accounts!me = "root"
  BY Zenon DEF Accounts!EndInv, Accounts!TypeOK
<1>1. ASSUME NEW u \in AccountsUsers,
             Accounts!onToggle(u) \/ Accounts!onDelete(u) \/ Accounts!Type(u)
      PROVE  Accounts!EndInv'
  <2>1. v1' = v1 /\ v2' = v2 /\ v6' = v6 /\ v7' = v7
    BY <1>1, Zenon DEF Accounts!onToggle, Accounts!onDelete, Accounts!Type, Accounts!rowVars,
       Accounts!dialogVars
  <2>2. v3' \in AccountsUsers \cup {Null} /\ v5' \in AccountsUsers \cup {Null}
    BY <1>0, <1>1, Zenon DEF Accounts!onToggle, Accounts!onDelete, Accounts!Type,
       Accounts!rowVars, Accounts!dialogVars
  <2>3. Accounts!onDelete(u) => Accounts!canEnd(u) /\ v4' = u
    BY DEF Accounts!onDelete, Accounts!UserRow
  <2>4. v4' = v4 \/ (v4' = u /\ u # AccountsMe /\ Accounts!me = "root")
    BY <1>1, <2>3, Zenon DEF Accounts!onToggle, Accounts!canEnd, Accounts!Type,
       Accounts!rowVars, Accounts!dialogVars
  <2> QED BY <1>0, <2>1, <2>2, <2>4, AccountsStay, Zenon
<1>2. ASSUME NEW u \in AccountsUsers, NEW r \in {"user", "admin"}, Accounts!onRoleChange(u, r)
      PROVE  Accounts!EndInv'
  <2>1. /\ v1' = v1 /\ v2' = v2 /\ v3' = v3 /\ v4' = v4 /\ v5' = v5 /\ v6' = v6
        /\ v7' = v7 \cup {Accounts!Change("role", u, r)}
    BY <1>2, Zenon DEF Accounts!onRoleChange, Accounts!Send, Accounts!rowVars,
       Accounts!dialogVars
  <2>2. u # AccountsMe
    BY <1>2 DEF Accounts!onRoleChange, Accounts!UserRow, Accounts!RoleLocked
  <2>3. /\ Accounts!Change("role", u, r) \in Accounts!Request
        /\ Accounts!Change("role", u, r).kind # "delete"
    BY <2>2 DEF Accounts!Change, Accounts!Request
  <2> QED BY <1>0, <2>1, <2>3, AccountsStay, Zenon
<1>3. ASSUME NEW u \in AccountsUsers, NEW t \in AccountsTiers, Accounts!onTierChange(u, t)
      PROVE  Accounts!EndInv'
  <2>1. /\ v1' = v1 /\ v2' = v2 /\ v3' = v3 /\ v4' = v4 /\ v5' = v5 /\ v6' = v6
        /\ v7' = v7 \cup {Accounts!Change("tier", u, t)}
    BY <1>3, Zenon DEF Accounts!onTierChange, Accounts!Send, Accounts!rowVars,
       Accounts!dialogVars
  <2>2. /\ Accounts!Change("tier", u, t) \in Accounts!Request
        /\ Accounts!Change("tier", u, t).kind # "delete"
    BY DEF Accounts!Change, Accounts!Request
  <2> QED BY <1>0, <2>1, <2>2, AccountsStay, Zenon
<1>4. CASE Accounts!onClose
  <2>1. /\ v1' = v1 /\ v2' = v2 /\ v3' = v3 /\ v4' = Null /\ v5' = Null /\ v6' = v6
        /\ v7' = v7
    BY <1>4, Zenon DEF Accounts!onClose, Accounts!rowVars
  <2> QED BY <1>0, <2>1, AccountsStay, Zenon
<1>5. CASE Accounts!handleDelete
  <2>1. /\ v1' = v1 /\ v2' = v2 /\ v3' = v3 /\ v4' = v4 /\ v5' = v5
        /\ v7' = v7 \cup {Accounts!End}
    BY <1>5, Zenon DEF Accounts!handleDelete, Accounts!Send, Accounts!rowVars
  <2>2. v6' \in BOOLEAN
    BY <1>5, Zenon DEF Accounts!handleDelete
  <2>3. v4 # Null /\ v5 = v4
    BY <1>5, Zenon DEF Accounts!handleDelete, Accounts!canDelete
  <2>4. /\ Accounts!End \in Accounts!Request
        /\ Accounts!End.typed = Accounts!End.id /\ Accounts!End.id = v4
    BY <1>0, <2>3 DEF Accounts!End, Accounts!Request
  <2> QED BY <1>0, <2>1, <2>2, <2>3, <2>4, AccountsStay, Zenon
<1>6. CASE UNCHANGED Accounts!vars
  <2>1. /\ v1' = v1 /\ v2' = v2 /\ v3' = v3 /\ v4' = v4 /\ v5' = v5 /\ v6' = v6 /\ v7' = v7
    BY <1>6, Zenon DEF Accounts!vars, Accounts!rowVars, Accounts!dialogVars
  <2> QED BY <1>0, <2>1, AccountsStay, Zenon
<1> QED BY <1>1, <1>2, <1>3, <1>4, <1>5, <1>6, AccountsAnswered, Zenon DEF Accounts!Next

-------------------------------------------------------------------------------
(***************************************************************************)
(* Feedback: v1 are the posts of the server, v2 the comments, v3 the posts *)
(* listed, v4 the open one, v5 whether the form for a new one is there,    *)
(* v6 where a comment is being typed, v11 the requests.                    *)
(***************************************************************************)
\* What the parts of the state hold.
LEMMA PostsHold ==
    ASSUME PostsPage!CommentsInv
    PROVE  /\ v1 \subseteq PostsPosts /\ v2 \subseteq PostsPage!Said
           /\ v3 \in {Null} \cup SUBSET PostsPosts /\ v4 \in PostsPosts \cup {Null}
           /\ v5 \in BOOLEAN /\ v6 \in PostsPosts \cup {Null} /\ v7 \in BOOLEAN
           /\ v8 \in BOOLEAN /\ v9 \in BOOLEAN /\ v10 \in BOOLEAN
           /\ v11 \subseteq PostsPage!Request
           /\ v6 # Null => PostsPage!Beside /\ v6 = v4
           /\ \A c \in v11 : c.kind = "comment" => c.comment.on = c.comment.at
           /\ \A c \in v2 : c.on = c.at
BY Zenon DEF PostsPage!CommentsInv, PostsPage!TypeOK, PostsPage!Said,
   PostsPage!CommentsWhereTyped

\* And that is all there is to keep.
LEMMA PostsKept ==
    ASSUME v1' \subseteq PostsPosts, v2' \subseteq PostsPage!Said,
           v3' \in {Null} \cup SUBSET PostsPosts, v4' \in PostsPosts \cup {Null},
           v5' \in BOOLEAN, v6' \in PostsPosts \cup {Null}, v7' \in BOOLEAN,
           v8' \in BOOLEAN, v9' \in BOOLEAN, v10' \in BOOLEAN,
           v11' \subseteq PostsPage!Request,
           v6' # Null => PostsPage!Beside' /\ v6' = v4',
           \A c \in v11' : c.kind = "comment" => c.comment.on = c.comment.at,
           \A c \in v2' : c.on = c.at
    PROVE  PostsPage!CommentsInv'
<1>1. PostsPage!Screen'.beside = "pane" => \E p \in PostsPosts : PostsPage!Card(p)'.selected
  <2> SUFFICES ASSUME PostsPage!Screen'.beside = "pane"
               PROVE  \E p \in PostsPosts : PostsPage!Card(p)'.selected
    OBVIOUS
  <2>1. v4' # Null
    BY DEF PostsPage!Screen, PostsPage!Beside
  <2>2. \E p \in PostsPosts : v4' = p
    BY <2>1
  <2> QED BY <2>2, Zenon DEF PostsPage!Card
<1>2. PostsPage!TypeOK'
  BY <1>1, Zenon DEF PostsPage!TypeOK, PostsPage!Said
<1> QED BY <1>2, Zenon DEF PostsPage!CommentsInv, PostsPage!CommentsWhereTyped

\* At the start nothing is typed.
LEMMA PostsInit == PostsPage!Init => PostsPage!CommentsInv
<1> SUFFICES ASSUME PostsPage!Init PROVE PostsPage!CommentsInv
  OBVIOUS
<1> USE PageAssumptions DEF PostsPage!FeedbackAssumption
<1>1. /\ v1 \subseteq PostsPosts /\ v2 = {} /\ v3 = Null /\ v4 = Null /\ v6 = Null
      /\ v11 = {PostsPage!List("first")}
  BY DEF PostsPage!Init
<1>2. v5 \in BOOLEAN /\ v7 \in BOOLEAN /\ v8 \in BOOLEAN /\ v9 \in BOOLEAN /\ v10 \in BOOLEAN
  BY Zenon DEF PostsPage!Init
<1>3. /\ PostsPage!List("first") \in PostsPage!Request
      /\ PostsPage!List("first").kind # "comment"
  BY DEF PostsPage!List, PostsPage!Request
<1>4. PostsPage!Screen.beside # "pane"
  BY <1>1 DEF PostsPage!Screen, PostsPage!Beside
<1>5. PostsPage!TypeOK
  BY <1>1, <1>2, <1>4, Zenon DEF PostsPage!TypeOK
<1> QED BY <1>1, <1>3, <1>5, Zenon DEF PostsPage!CommentsInv, PostsPage!CommentsWhereTyped

\* What was typed stays beside its post, or is gone.
LEMMA PostsTyped ==
    ASSUME PostsPage!CommentsInv, PostsPage!Effects
    PROVE  /\ v6' \in PostsPosts \cup {Null} /\ v7' \in BOOLEAN /\ v8' \in BOOLEAN
           /\ v9' \in BOOLEAN /\ v10' \in BOOLEAN
           /\ v6' # Null => PostsPage!Beside' /\ v6' = v4'
<1> USE PostsHold
<1>1. v8' \in BOOLEAN /\ v9' \in BOOLEAN /\ v10' \in BOOLEAN
  BY Zenon DEF PostsPage!Effects
<1>2. CASE PostsPage!PaneStays /\ v4' = v4
  <2>1. v6' = v6 /\ v7' = v7
    BY <1>2, Zenon DEF PostsPage!Effects
  <2>2. PostsPage!Beside'
    BY <1>2, Zenon DEF PostsPage!PaneStays, PostsPage!Beside
  <2> QED BY <1>1, <1>2, <2>1, <2>2, Zenon
<1>3. CASE ~ (PostsPage!PaneStays /\ v4' = v4)
  <2>1. v6' = Null
    BY <1>3, Zenon DEF PostsPage!Effects
  <2>2. v7' \in BOOLEAN
    BY <1>3, Zenon DEF PostsPage!Effects
  <2> QED BY <1>1, <2>1, <2>2, Zenon
<1> QED BY <1>2, <1>3

\* A comment that is on its way is on the post it was typed beside.
LEMMA PostsAsked ==
    ASSUME PostsPage!CommentsInv, NEW old, NEW new \in SUBSET PostsPage!Request,
           \A c \in new : c.kind = "comment" => c.comment.on = c.comment.at,
           PostsPage!Requests(old, new)
    PROVE  /\ v11' \subseteq PostsPage!Request
           /\ \A c \in v11' : c.kind = "comment" => c.comment.on = c.comment.at
<1> USE PostsHold
<1>1. ASSUME NEW c \in PostsPage!Request, c.kind \in {"comment", "create"}
      PROVE  /\ [c EXCEPT !.live = FALSE] \in PostsPage!Request
             /\ [c EXCEPT !.live = FALSE].kind = c.kind
             /\ c.kind = "comment" => [c EXCEPT !.live = FALSE].comment = c.comment
  <2>1. CASE c.kind = "comment"
    <3>1. c \in [kind : {"comment"}, comment : PostsPage!Said, live : BOOLEAN]
      BY <2>1 DEF PostsPage!Request
    <3> QED BY <2>1, <3>1 DEF PostsPage!Request
  <2>2. CASE c.kind = "create"
    <3>1. c \in [kind : {"create"}, live : BOOLEAN]
      BY <2>2 DEF PostsPage!Request
    <3> QED BY <2>2, <3>1 DEF PostsPage!Request
  <2> QED BY <1>1, <2>1, <2>2
<1>2. ASSUME NEW c \in v11
      PROVE  /\ PostsPage!Detached(c) \in PostsPage!Request
             /\ PostsPage!Detached(c).kind = c.kind
             /\ c.kind = "comment" => PostsPage!Detached(c).comment = c.comment
  <2>1. CASE /\ c.kind \in {"comment", "create"}
             /\ PostsPage!Detached(c) = [c EXCEPT !.live = FALSE]
    BY <1>1, <2>1
  <2>2. CASE PostsPage!Detached(c) = c
    BY <2>2
  <2> QED BY <2>1, <2>2 DEF PostsPage!Detached
<1>3. ASSUME NEW d \in v11'
      PROVE  d \in PostsPage!Request /\ (d.kind = "comment" => d.comment.on = d.comment.at)
  <2>1. d \in new \/ \E c \in v11 : d = PostsPage!Detached(c)
    BY Zenon DEF PostsPage!Requests
  <2>2. CASE d \in new
    BY <2>2
  <2>3. ASSUME NEW c \in v11, d = PostsPage!Detached(c)
        PROVE  d \in PostsPage!Request /\ (d.kind = "comment" => d.comment.on = d.comment.at)
    BY <1>2, <2>3, Zenon
  <2> QED BY <2>1, <2>2, <2>3
<1> QED BY <1>3, Zenon

\* What the answer of a list goes on to open are posts.
LEMMA PostsOpened ==
    ASSUME PostsPage!CommentsInv, NEW c \in v11, PostsPage!Listed(c)
    PROVE  PostsPage!CommentsInv'
<1> USE PostsHold
<1> DEFINE next == CASE c.then = "new"  -> {c.id}
                     [] c.then = "none" -> {}
                     [] OTHER           -> {p \in v3' : \A q \in v3' : q <= p}
<1>1. /\ v1' = v1 /\ v2' = v2 /\ v3' \in {v1, {}} /\ c.kind = "list"
      /\ v4' = IF c.then = "remaining" /\ next = {} THEN Null ELSE v4
      /\ PostsPage!Requests({c}, {PostsPage!Get(p) : p \in next}) /\ PostsPage!Effects
  BY Zenon DEF PostsPage!Listed, PostsPage!serverVars
<1>2. v5' \in BOOLEAN
  BY Zenon DEF PostsPage!Listed
<1>3. next \subseteq PostsPosts
  <2>1. c \in PostsPage!Request
    OBVIOUS
  <2>2. c.then = "new" => c.id \in PostsPosts
    BY <1>1, <2>1 DEF PostsPage!Request
  <2> QED BY <1>1, <2>2
<1>4. \A p \in PostsPosts : PostsPage!Get(p) \in PostsPage!Request
                            /\ PostsPage!Get(p).kind # "comment"
  BY DEF PostsPage!Get, PostsPage!Request
<1> HIDE DEF next
<1>5. /\ v11' \subseteq PostsPage!Request
      /\ \A d \in v11' : d.kind = "comment" => d.comment.on = d.comment.at
  <2> DEFINE new == {PostsPage!Get(p) : p \in next}
  <2>1. new \in SUBSET PostsPage!Request /\ \A d \in new : d.kind # "comment"
    BY <1>3, <1>4, Zenon
  <2>2. PostsPage!Requests({c}, new)
    BY <1>1
  <2> HIDE DEF new
  <2> QED BY <2>1, <2>2, PostsAsked, Zenon
<1>6. v4' \in PostsPosts \cup {Null} /\ v3' \in {Null} \cup SUBSET PostsPosts
  BY <1>1
<1> QED BY <1>1, <1>2, <1>5, <1>6, PostsTyped, PostsKept, Zenon

\* The other answers.
LEMMA PostsAnswered ==
    ASSUME PostsPage!CommentsInv, NEW c \in v11,
           \/ PostsPage!Got(c) \/ PostsPage!Commented(c) \/ PostsPage!CommentFails(c)
           \/ PostsPage!Uncommented(c) \/ PostsPage!Deleted(c) \/ PostsPage!Created(c)
           \/ PostsPage!CreateFails(c) \/ PostsPage!DeletionFails(c)
    PROVE  PostsPage!CommentsInv'
<1> USE PostsHold
<1>0. c \in PostsPage!Request
  OBVIOUS
<1>none. ASSUME PostsPage!Requests({c}, {})
         PROVE  /\ v11' \subseteq PostsPage!Request
                /\ \A d \in v11' : d.kind = "comment" => d.comment.on = d.comment.at
  <2>1. {} \in SUBSET PostsPage!Request /\ \A d \in {} : d.kind # "comment"
    OBVIOUS
  <2> QED BY <1>none, <2>1, PostsAsked, Zenon
<1>reopen. ASSUME PostsPage!Reopen(c), c.kind \in {"comment", "uncomment"}
           PROVE  /\ v3' = v3 /\ v4' = v4 /\ v5' \in BOOLEAN
                  /\ v11' \subseteq PostsPage!Request
                  /\ \A d \in v11' : d.kind = "comment" => d.comment.on = d.comment.at
  <2>1. v3' = v3 /\ v4' = v4 /\ v5' \in BOOLEAN
    BY <1>reopen, Zenon DEF PostsPage!Reopen
  <2>2. c.comment \in PostsPage!Said
    BY <1>0, <1>reopen DEF PostsPage!Request
  <2> DEFINE new == {PostsPage!Get(c.comment.on), PostsPage!List("none")}
  <2>3. new \subseteq PostsPage!Request /\ \A d \in new : d.kind # "comment"
    BY <2>2 DEF PostsPage!Get, PostsPage!List, PostsPage!Request, PostsPage!Said
  <2>4. PostsPage!Requests({c}, new)
    BY <1>reopen, Zenon DEF PostsPage!Reopen
  <2> HIDE DEF new
  <2> QED BY <2>1, <2>3, <2>4, PostsAsked, Zenon
<1>1. CASE PostsPage!Got(c)
  <2>1. /\ v1' = v1 /\ v2' = v2 /\ v3' = v3 /\ v5' = v5 /\ v4' \in {c.id, Null}
        /\ v4' = c.id => c.id \in v1
        /\ PostsPage!Requests({c}, {}) /\ PostsPage!Effects
    BY <1>1, Zenon DEF PostsPage!Got, PostsPage!serverVars
  <2>2. v4' \in PostsPosts \cup {Null}
    BY <2>1
  <2> QED BY <1>none, <2>1, <2>2, PostsTyped, PostsKept, Zenon
<1>2. CASE PostsPage!Commented(c)
  <2>1. /\ v1' = v1 /\ v2' = v2 \cup {c.comment} /\ PostsPage!Reopen(c) /\ c.kind = "comment"
        /\ \/ c.live /\ v6' = Null /\ v9' = v9 /\ v10' = v10
           \/ PostsPage!Effects
    BY <1>2, Zenon DEF PostsPage!Commented, PostsPage!composeVars
  <2>2. PostsPage!Effects \/ (v7' \in BOOLEAN /\ v8' \in BOOLEAN)
    BY <1>2, Zenon DEF PostsPage!Commented
  <2>3. c.comment \in PostsPage!Said /\ c.comment.on = c.comment.at
    BY <1>0, <2>1 DEF PostsPage!Request
  <2>4. v2' \subseteq PostsPage!Said /\ \A d \in v2' : d.on = d.at
    BY <2>1, <2>3, Zenon
  <2>5. /\ v6' \in PostsPosts \cup {Null} /\ v7' \in BOOLEAN /\ v8' \in BOOLEAN
        /\ v9' \in BOOLEAN /\ v10' \in BOOLEAN
        /\ v6' # Null => PostsPage!Beside' /\ v6' = v4'
    BY <2>1, <2>2, PostsTyped, Zenon
  <2> QED BY <1>reopen, <2>1, <2>4, <2>5, PostsKept, Zenon
<1>3. CASE PostsPage!Uncommented(c)
  <2>1. /\ v1' = v1 /\ v2' \subseteq v2 /\ PostsPage!Reopen(c) /\ c.kind = "uncomment"
        /\ PostsPage!Effects
    BY <1>3, Zenon DEF PostsPage!Uncommented
  <2> QED BY <1>reopen, <2>1, PostsTyped, PostsKept, Zenon
<1>4. CASE PostsPage!Created(c)
  <2>1. PICK p \in PostsPosts : /\ v1' = v1 \cup {p}
                                /\ PostsPage!Requests({c}, {PostsPage!ListFor(p)})
    BY <1>4, Zenon DEF PostsPage!Created
  <2>2. v2' = v2 /\ v3' = v3 /\ v4' = v4 /\ v5' \in BOOLEAN /\ PostsPage!Effects
    BY <1>4, Zenon DEF PostsPage!Created
  <2>3. /\ PostsPage!ListFor(p) \in PostsPage!Request
        /\ PostsPage!ListFor(p).kind # "comment"
    BY DEF PostsPage!ListFor, PostsPage!Request
  <2>4. /\ v11' \subseteq PostsPage!Request
        /\ \A d \in v11' : d.kind = "comment" => d.comment.on = d.comment.at
    BY <2>1, <2>3, PostsAsked, Zenon
  <2> QED BY <2>1, <2>2, <2>4, PostsTyped, PostsKept, Zenon
<1>5. CASE PostsPage!Deleted(c)
  <2>1. /\ v1' \subseteq v1 /\ v2' = v2 /\ v3' = v3 /\ v4' = v4 /\ v5' = v5 /\ v6' = v6
        /\ v7' = v7 /\ v8' = v8 /\ v9' = v9 /\ v10' = v10
        /\ PostsPage!Requests({c}, {PostsPage!List("remaining")})
    BY <1>5, Zenon DEF PostsPage!Deleted, PostsPage!pageVars, PostsPage!paneVars,
       PostsPage!composeVars
  <2>2. /\ PostsPage!List("remaining") \in PostsPage!Request
        /\ PostsPage!List("remaining").kind # "comment"
    BY DEF PostsPage!List, PostsPage!Request
  <2>3. /\ v11' \subseteq PostsPage!Request
        /\ \A d \in v11' : d.kind = "comment" => d.comment.on = d.comment.at
    BY <2>1, <2>2, PostsAsked, Zenon
  <2>4. PostsPage!Beside' = PostsPage!Beside
    BY <2>1, Zenon DEF PostsPage!Beside
  <2> QED BY <2>1, <2>3, <2>4, PostsKept, Zenon
<1>6. CASE PostsPage!CommentFails(c) \/ PostsPage!CreateFails(c) \/ PostsPage!DeletionFails(c)
  <2>1. /\ v1' = v1 /\ v2' = v2 /\ v3' = v3 /\ v4' = v4 /\ v5' = v5 /\ v6' = v6
        /\ v7' = v7 /\ v9' = v9
        /\ PostsPage!Requests({c}, {})
    BY <1>6, Zenon DEF PostsPage!CommentFails, PostsPage!CreateFails, PostsPage!DeletionFails,
       PostsPage!serverVars, PostsPage!pageVars, PostsPage!paneVars, PostsPage!composeVars
  <2>2. v8' \in BOOLEAN /\ v10' \in BOOLEAN
    BY <1>6, Zenon DEF PostsPage!CommentFails, PostsPage!CreateFails, PostsPage!DeletionFails,
       PostsPage!paneVars, PostsPage!composeVars
  <2>4. PostsPage!Beside' = PostsPage!Beside
    BY <2>1, Zenon DEF PostsPage!Beside
  <2> QED BY <1>none, <2>1, <2>2, <2>4, PostsKept, Zenon
<1> QED BY <1>1, <1>2, <1>3, <1>4, <1>5, <1>6, Zenon

\* Each step of the page keeps what is said of it.
LEMMA PostsStep ==
    PostsPage!CommentsInv /\ [PostsPage!Next]_(PostsPage!vars) => PostsPage!CommentsInv'
<1> SUFFICES ASSUME PostsPage!CommentsInv, [PostsPage!Next]_(PostsPage!vars)
             PROVE  PostsPage!CommentsInv'
  OBVIOUS
<1> USE PostsHold
<1>send. ASSUME NEW new \in SUBSET PostsPage!Request,
                \A c \in new : c.kind = "comment" => c.comment.on = c.comment.at,
                PostsPage!Send(new)
         PROVE  /\ v11' \subseteq PostsPage!Request
                /\ \A c \in v11' : c.kind = "comment" => c.comment.on = c.comment.at
  BY <1>send, PostsAsked, Zenon DEF PostsPage!Send
<1>1. ASSUME NEW p \in PostsPosts, PostsPage!Select(p) PROVE PostsPage!CommentsInv'
  <2>1. /\ v1' = v1 /\ v2' = v2 /\ v3' = v3 /\ v4' = v4 /\ v5' \in BOOLEAN
        /\ PostsPage!Effects /\ PostsPage!Send({PostsPage!Get(p)})
    BY <1>1, Zenon DEF PostsPage!Select, PostsPage!serverVars
  <2>2. PostsPage!Get(p) \in PostsPage!Request /\ PostsPage!Get(p).kind # "comment"
    BY DEF PostsPage!Get, PostsPage!Request
  <2>3. /\ v11' \subseteq PostsPage!Request
        /\ \A c \in v11' : c.kind = "comment" => c.comment.on = c.comment.at
    BY <1>send, <2>1, <2>2, Zenon
  <2> QED BY <2>1, <2>3, PostsTyped, PostsKept, Zenon
<1>2. CASE PostsPage!startCompose \/ PostsPage!cancelCompose
  <2>1. /\ v1' = v1 /\ v2' = v2 /\ v3' = v3 /\ v4' \in {v4, Null} /\ v5' \in BOOLEAN
        /\ PostsPage!Effects /\ PostsPage!Requests({}, {})
    BY <1>2, Zenon DEF PostsPage!startCompose, PostsPage!cancelCompose, PostsPage!serverVars
  <2>2. /\ v11' \subseteq PostsPage!Request
        /\ \A c \in v11' : c.kind = "comment" => c.comment.on = c.comment.at
    BY <2>1, PostsAsked, Zenon
  <2>3. v4' \in PostsPosts \cup {Null}
    BY <2>1, Zenon
  <2> QED BY <2>1, <2>2, <2>3, PostsTyped, PostsKept, Zenon
<1>3. CASE PostsPage!TypePost \/ PostsPage!SecretToggle \/ UNCHANGED PostsPage!vars
  <2>1. /\ v1' = v1 /\ v2' = v2 /\ v3' = v3 /\ v4' = v4 /\ v5' = v5 /\ v6' = v6
        /\ v8' = v8 /\ v10' = v10 /\ v11' = v11
    BY <1>3, Zenon DEF PostsPage!TypePost, PostsPage!SecretToggle, PostsPage!vars,
       PostsPage!serverVars, PostsPage!pageVars, PostsPage!paneVars, PostsPage!composeVars
  <2>2. v7' \in BOOLEAN /\ v9' \in BOOLEAN
    BY <1>3, Zenon DEF PostsPage!TypePost, PostsPage!SecretToggle, PostsPage!vars,
       PostsPage!paneVars, PostsPage!composeVars
  <2>3. PostsPage!Beside' = PostsPage!Beside
    BY <2>1, Zenon DEF PostsPage!Beside
  <2> QED BY <2>1, <2>2, <2>3, PostsKept, Zenon
<1>4. CASE PostsPage!TypeComment
  <2>1. /\ v1' = v1 /\ v2' = v2 /\ v3' = v3 /\ v4' = v4 /\ v5' = v5 /\ v6' = v4
        /\ v7' = v7 /\ v8' = v8 /\ v9' = v9 /\ v10' = v10 /\ v11' = v11 /\ PostsPage!Beside
    BY <1>4, Zenon DEF PostsPage!TypeComment, PostsPage!serverVars, PostsPage!pageVars,
       PostsPage!composeVars
  <2>2. PostsPage!Beside' = PostsPage!Beside
    BY <2>1, Zenon DEF PostsPage!Beside
  <2> QED BY <2>1, <2>2, PostsKept, Zenon
<1>5. CASE PostsPage!submit \/ PostsPage!handleDeletePost \/ PostsPage!submitPost
  <2>1. /\ v1' = v1 /\ v2' = v2 /\ v3' = v3 /\ v4' = v4 /\ v5' = v5 /\ v6' = v6
        /\ v7' = v7 /\ v9' = v9
    BY <1>5, Zenon DEF PostsPage!submit, PostsPage!handleDeletePost, PostsPage!submitPost,
       PostsPage!serverVars, PostsPage!pageVars, PostsPage!paneVars, PostsPage!composeVars
  <2>2. v8' \in BOOLEAN /\ v10' \in BOOLEAN
    BY <1>5, Zenon DEF PostsPage!submit, PostsPage!handleDeletePost, PostsPage!submitPost,
       PostsPage!paneVars, PostsPage!composeVars
  <2>3. PostsPage!Beside' = PostsPage!Beside
    BY <2>1, Zenon DEF PostsPage!Beside
  <2>4. CASE PostsPage!submit
    <3>1. PostsPage!Beside /\ v6 # Null /\ PostsPage!Send({PostsPage!Comment})
      BY <2>4, Zenon DEF PostsPage!submit, PostsPage!canSubmit
    <3>2. /\ PostsPage!Comment \in PostsPage!Request
          /\ PostsPage!Comment.comment.on = PostsPage!Comment.comment.at
      <4>1. v4 \in PostsPosts /\ v6 = v4 /\ v7 \in BOOLEAN
        BY <3>1
      <4>2. [on |-> v4, at |-> v6, secret |-> v7] \in PostsPage!Said
        BY <4>1, Zenon DEF PostsPage!Said
      <4> DEFINE comment == [on |-> v4, at |-> v6, secret |-> v7]
      <4>3. comment.on = comment.at
        BY <4>1
      <4> HIDE DEF comment
      <4>4. PostsPage!Comment = [kind |-> "comment", comment |-> comment, live |-> TRUE]
        BY DEF PostsPage!Comment, comment
      <4>5. comment \in PostsPage!Said
        BY <4>2 DEF comment
      <4> QED BY <4>3, <4>4, <4>5 DEF PostsPage!Request
    <3>3. /\ v11' \subseteq PostsPage!Request
          /\ \A c \in v11' : c.kind = "comment" => c.comment.on = c.comment.at
      BY <1>send, <3>1, <3>2, Zenon
    <3> QED BY <2>1, <2>2, <2>3, <3>3, PostsKept, Zenon
  <2>5. CASE PostsPage!handleDeletePost
    <3>1. v4 # Null /\ PostsPage!Send({PostsPage!Delete(v4)})
      BY <2>5, Zenon DEF PostsPage!handleDeletePost, PostsPage!canDelete, PostsPage!Beside
    <3>2. PostsPage!Delete(v4) \in PostsPage!Request /\ PostsPage!Delete(v4).kind # "comment"
      BY <3>1 DEF PostsPage!Delete, PostsPage!Request
    <3>3. /\ v11' \subseteq PostsPage!Request
          /\ \A c \in v11' : c.kind = "comment" => c.comment.on = c.comment.at
      BY <1>send, <3>1, <3>2, Zenon
    <3> QED BY <2>1, <2>2, <2>3, <3>3, PostsKept, Zenon
  <2>6. CASE PostsPage!submitPost
    <3>1. PostsPage!Send({PostsPage!Create})
      BY <2>6, Zenon DEF PostsPage!submitPost
    <3>2. PostsPage!Create \in PostsPage!Request /\ PostsPage!Create.kind # "comment"
      BY DEF PostsPage!Create, PostsPage!Request
    <3>3. /\ v11' \subseteq PostsPage!Request
          /\ \A c \in v11' : c.kind = "comment" => c.comment.on = c.comment.at
      BY <1>send, <3>1, <3>2, Zenon
    <3> QED BY <2>1, <2>2, <2>3, <3>3, PostsKept, Zenon
  <2> QED BY <1>5, <2>4, <2>5, <2>6
<1>6. ASSUME NEW c \in v2, PostsPage!removeComment(c) PROVE PostsPage!CommentsInv'
  <2>1. /\ v1' = v1 /\ v2' = v2 /\ v3' = v3 /\ v4' = v4 /\ v5' = v5 /\ v6' = v6
        /\ v7' = v7 /\ v8' = v8 /\ v9' = v9 /\ v10' = v10
        /\ PostsPage!Send({PostsPage!Uncomment(c)})
    BY <1>6, Zenon DEF PostsPage!removeComment, PostsPage!serverVars, PostsPage!pageVars,
       PostsPage!paneVars, PostsPage!composeVars
  <2>2. PostsPage!Uncomment(c) \in PostsPage!Request /\ PostsPage!Uncomment(c).kind # "comment"
    BY DEF PostsPage!Uncomment, PostsPage!Request
  <2>3. PostsPage!Beside' = PostsPage!Beside
    BY <2>1, Zenon DEF PostsPage!Beside
  <2>4. /\ v11' \subseteq PostsPage!Request
        /\ \A d \in v11' : d.kind = "comment" => d.comment.on = d.comment.at
    BY <1>send, <2>1, <2>2, Zenon
  <2> QED BY <2>1, <2>3, <2>4, PostsKept, Zenon
<1> QED BY <1>1, <1>2, <1>3, <1>4, <1>5, <1>6, PostsOpened, PostsAnswered, Zenon
        DEF PostsPage!Next, PostsPage!Answer
=============================================================================
