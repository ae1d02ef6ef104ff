--------------------------- MODULE WebAnswersProofs ---------------------------
(***************************************************************************)
(* Proofs about the pages of the web console whose answers come late, out  *)
(* of order or to somebody who is elsewhere by then.  Laid out as          *)
(* WebProofs, which has the other pages: by page, the invariant of its     *)
(* module at the start and over each step, then what follows.              *)
(***************************************************************************)
EXTENDS WebProofs

-------------------------------------------------------------------------------
(***************************************************************************)
(* AppSummary: v1 are the rows of the server and v2 the shell's copy, v3   *)
(* is the role, v5 the page, v6 the view of the workspace, v8 and v9 the   *)
(* members and the requests for them, v12 the link that was followed.      *)
(***************************************************************************)
\* What the module assumes of its constants.
LEMMA SummaryAssumed == Summary!SummaryAssumption
BY PageAssumptions

\* Who may what.
LEMMA Ranks ==
    /\ \A r \in Summary!Roles : Summary!can(r, "viewer")
    /\ Summary!can("owner", "editor") /\ Summary!can("owner", "owner")
    /\ Summary!can("editor", "editor")
BY DEF Summary!Roles, Summary!can, Summary!RANK

\* A set of numbers that are not above n has a greatest one.
LEMMA GreatestExists ==
    ASSUME NEW n \in Nat, NEW S \in SUBSET (1 .. n), S # {}
    PROVE  \E x \in S : \A y \in S : x >= y
<1> DEFINE T == {n - x : x \in S}
<1>1. T \subseteq Nat /\ T # {}
  <2>1. \A x \in S : n - x \in Nat
    OBVIOUS
  <2> QED BY <2>1
<1>2. PICK least \in T : \A m \in T : ~ (<<m, least>> \in OpToRel(<, Nat))
  BY <1>1, NatLessThanWellFounded, WFMin
<1>3. \A m \in T : least <= m
  <2> HIDE DEF T
  <2>1. ASSUME NEW m \in T PROVE ~ (m < least)
    BY <1>1, <1>2, <2>1, Zenon DEF OpToRel
  <2> QED BY <1>1, <2>1
<1>4. PICK x \in S : least = n - x
  OBVIOUS
<1>5. ASSUME NEW y \in S PROVE x >= y
  <2>1. n - y \in T
    OBVIOUS
  <2> HIDE DEF T
  <2> QED BY <1>3, <1>4, <2>1
<1> QED BY <1>5

\* What a server is declared to use.
LEMMA UsesAre ==
    ASSUME NEW s \in Seq(Summary!Row)
    PROVE  Summary!Uses(s) \subseteq {"db", "redis", "storage", "volume"}
<1> DEFINE servers == Summary!Servers(s)
<1>1. CASE servers = {}
  BY <1>1 DEF Summary!Uses
<1>2. CASE servers # {}
  <2>1. servers \subseteq 1 .. Len(s) /\ Len(s) \in Nat
    BY DEF Summary!Servers
  <2>2. \E x \in servers : \A y \in servers : x >= y
    BY <1>2, <2>1, GreatestExists
  <2>3. Summary!Max(servers) \in servers
    BY <2>2 DEF Summary!Max
  <2>4. s[Summary!Max(servers)] \in Summary!Row
    BY <2>1, <2>3
  <2>5. \A row \in Summary!Row : row.uses \subseteq {"db", "redis", "storage", "volume"}
    <3>1. \A u \in SummaryDeclared : u \subseteq {"db", "redis", "storage", "volume"}
      BY SummaryAssumed DEF Summary!SummaryAssumption
    <3>2. \A u \in SummaryDeclared : Summary!Server(u).uses = u
      BY DEF Summary!Server
    <3>3. ASSUME NEW row \in Summary!Row
          PROVE  row.uses = {} \/ \E u \in SummaryDeclared : row = Summary!Server(u)
      BY DEF Summary!Row
    <3> QED BY <3>1, <3>2, <3>3
  <2> HIDE DEF servers
  <2> QED BY <1>2, <2>4, <2>5 DEF Summary!Uses, servers
<1> QED BY <1>1, <1>2

\* What every link must satisfy to lead to what it names.
GoodLink(l) ==
    /\ l.page \in DOMAIN Summary!Need /\ Summary!can(v3, Summary!Need[l.page])
    /\ l.panel # Null => /\ l.page = "workspace"
                         /\ Summary!PANEL_TO_VIEW[l.panel] \in Summary!views(v3, v2)
    /\ l.build # Null => l.page = "history" /\ l.build \in DOMAIN v2

\* The pages anyone may see, and those of an editor and of the owner.
LEMMA PlainLinks ==
    ASSUME v3 \in Summary!Roles
    PROVE  /\ GoodLink(Summary!To("history")) /\ GoodLink(Summary!To("overview"))
           /\ Summary!can(v3, "editor") =>
                  GoodLink(Summary!To("env")) /\ GoodLink(Summary!To("deploy"))
           /\ v3 = "owner" => GoodLink(Summary!To("settings")) /\ GoodLink(Summary!To("members"))
           /\ \A n \in DOMAIN v2 : GoodLink(Summary!ToBuild(n))
BY Ranks DEF GoodLink, Summary!To, Summary!ToBuild, Summary!Need

\* The panels of the workspace that the links name.
LEMMA PanelLinks ==
    ASSUME v3 \in Summary!Roles
    PROVE  /\ GoodLink(Summary!ToPanel("terminal")) /\ GoodLink(Summary!ToPanel("monitoring"))
           /\ v3 = "owner" => GoodLink(Summary!ToPanel("db"))
           /\ v3 = "owner" /\ "storage" \in Summary!Uses(v2) => GoodLink(Summary!ToPanel("storage"))
BY Ranks DEF GoodLink, Summary!To, Summary!ToPanel, Summary!Need, Summary!views,
   Summary!PANEL_TO_VIEW

\* No link is offered that is not good.
LEMMA OfferedIsGood ==
    ASSUME v3 \in Summary!Roles, v2 \in Seq(Summary!Row), NEW l \in Summary!Offered
    PROVE  GoodLink(l)
<1>1. ASSUME l \in Summary!tabs PROVE GoodLink(l)
  BY <1>1 DEF Summary!tabs, Summary!Shell, GoodLink, Summary!To
<1>2. ASSUME l \in Summary!actionRedeploy PROVE GoodLink(l)
  BY <1>2, PlainLinks DEF Summary!actionRedeploy
<1>3. ASSUME NEW n \in DOMAIN v2 PROVE GoodLink(Summary!targetOf(n))
  BY PlainLinks DEF Summary!targetOf
<1>4. ASSUME l \in Summary!Latest \cup Summary!Previous PROVE GoodLink(l)
  <2>1. l = Summary!To("history") \/ \E n \in DOMAIN v2 : l = Summary!targetOf(n)
    <3>1. CASE l \in Summary!Latest
      <4>1. v2 # <<>> => Len(v2) \in DOMAIN v2
        OBVIOUS
      <4> QED BY <3>1, <4>1 DEF Summary!Latest
    <3>2. CASE l \in Summary!Previous
      BY <3>2 DEF Summary!Previous
    <3> QED BY <1>4, <3>1, <3>2
  <2> QED BY <1>3, <2>1, PlainLinks
<1>5. ASSUME l \in Summary!Resources PROVE GoodLink(l)
  <2>1. v3 = "owner"
    BY <1>5 DEF Summary!Resources
  <2>2. PICK f \in Summary!Uses(v2) \ {"volume"} :
            l = Summary!ToPanel(IF f = "redis" THEN "db" ELSE f)
    BY <1>5, <2>1 DEF Summary!Resources
  <2>3. f \in {"db", "redis", "storage"}
    BY UsesAre
  <2> QED BY <2>1, <2>2, <2>3, PanelLinks
<1>6. ASSUME l \in Summary!QuickLinks PROVE GoodLink(l)
  BY <1>6, PanelLinks DEF Summary!QuickLinks
<1>7. ASSUME l \in Summary!EnvRow \cup Summary!OwnerLinks \cup Summary!Footer PROVE GoodLink(l)
  BY <1>7, PlainLinks DEF Summary!EnvRow, Summary!OwnerLinks, Summary!Footer
<1> QED BY <1>1, <1>2, <1>4, <1>5, <1>6, <1>7, Zenon DEF Summary!Offered, Summary!Overview

\* It holds before the first step.
LEMMA SummaryInit == Summary!Init => Summary!SummaryInv
<1> SUFFICES ASSUME Summary!Init PROVE Summary!SummaryInv
  OBVIOUS
<1>1. v2 = <<>> /\ v2 \in Seq(Summary!Row) /\ v1 \in Seq(Summary!Row) /\ Len(v2) <= Len(v1)
  <2>1. CASE v1 = <<>>
    BY <2>1 DEF Summary!Init
  <2>2. ASSUME NEW u \in SummaryDeclared, v1 = <<Summary!Server(u)>>
        PROVE  v1 \in Seq(Summary!Row) /\ Len(v1) = 1
    <3>1. Summary!Server(u) \in Summary!Row
      BY DEF Summary!Row
    <3> HIDE DEF Summary!Server
    <3> QED BY <2>2, <3>1
  <2>3. v2 = <<>> /\ (v1 = <<>> \/ \E u \in SummaryDeclared : v1 = <<Summary!Server(u)>>)
    BY Zenon DEF Summary!Init
  <2> QED BY <2>1, <2>2, <2>3
<1>2. v5 \in DOMAIN Summary!Need /\ (v6 = Null <=> v5 # "workspace")
  <2>1. v5 \in DOMAIN Summary!Need
    BY DEF Summary!Init, Summary!RequireRole, Summary!Need
  <2>2. Null # "console"
    BY SummaryAssumed DEF Summary!SummaryAssumption
  <2>3. Summary!seed(Null) = "console"
    BY DEF Summary!seed
  <2> QED BY <2>1, <2>2, <2>3 DEF Summary!Init
<1>3. /\ v8 = Null /\ v9 \subseteq BOOLEAN /\ v10 = FALSE /\ v11 = FALSE /\ v12 = Null
      /\ v3 \in Summary!Roles /\ v7 \in {"none", "asked", "known"}
      /\ (TRUE \in v9 => v3 = "owner" /\ v5 = "overview")
  BY DEF Summary!Init
<1>4. Summary!TypeOK
  BY <1>1, <1>2, <1>3, Zenon DEF Summary!TypeOK
<1>5. Summary!Members.shown = 0
  BY <1>3 DEF Summary!Members
<1>6. Summary!LinksLand /\ Summary!MembersAreOwners
  <2>1. ~ (Summary!Members.shown > 0)
    BY <1>5
  <2> QED BY <1>3, <2>1, Zenon DEF Summary!LinksLand, Summary!MembersAreOwners
<1> QED BY <1>1, <1>3, <1>4, <1>6, Zenon DEF Summary!SummaryInv

\* Only what the owner has read counts: a member is shown no one.
LEMMA MembersShown ==
    /\ Summary!Members.shown > 0 => v3 = "owner"
    /\ (Summary!Members.shown > 0 => v3 = "owner")'
BY DEF Summary!Members

\* The view that a link opens is there for every link that is good.
LEMMA ViewsOpened ==
    ASSUME NEW panel
    PROVE  /\ Summary!seed(panel) # Null
           /\ panel # Null /\ Summary!PANEL_TO_VIEW[panel] \in Summary!views(v3, v2) =>
                  Summary!seed(panel) = Summary!PANEL_TO_VIEW[panel]
<1>1. Summary!views(v3, v2) \subseteq {"console", "db", "storage", "metrics"}
  BY DEF Summary!views
<1>2. Null \notin {"console", "db", "storage", "metrics"}
  BY SummaryAssumed DEF Summary!SummaryAssumption
<1> QED BY <1>1, <1>2 DEF Summary!seed

\* Mounting a page asks for the members on behalf of the owner only.
LEMMA MountsAsk ==
    ASSUME NEW r, NEW p, Summary!Mounts(r, p)
    PROVE  /\ v8' = Null /\ v9' \subseteq BOOLEAN
           /\ TRUE \in v9' => r = "owner" /\ p = "overview"
<1>1. v8' = Null
  BY Zenon DEF Summary!Mounts
<1>2. CASE p = "overview" /\ r = "owner"
  <2>1. v9' = {TRUE} \cup {FALSE : a \in v9}
    BY <1>2, Zenon DEF Summary!Mounts, Summary!AskMembers
  <2>2. v9' \subseteq BOOLEAN
    BY <2>1, Zenon
  <2> QED BY <1>1, <1>2, <2>2, Zenon
<1>3. CASE ~ (p = "overview" /\ r = "owner")
  <2>1. v9' = {FALSE : a \in v9}
    BY <1>3, Zenon DEF Summary!Mounts, Summary!Dropped
  <2>2. v9' \subseteq BOOLEAN /\ TRUE \notin v9'
    BY <2>1, Zenon
  <2> QED BY <1>1, <2>2, Zenon
<1> QED BY <1>2, <1>3, Zenon

\* A link that is followed leads to its page.
LEMMA FollowLands ==
    ASSUME Summary!SummaryInv, NEW l \in Summary!Offered, Summary!Follow(l)
    PROVE  Summary!SummaryInv'
<1> USE DEF Summary!SummaryInv, Summary!TypeOK
<1>1. GoodLink(l)
  BY OfferedIsGood
<1>2. v5' = l.page /\ v12' = l /\ v3' = v3 /\ v1' = v1
  BY <1>1 DEF GoodLink, Summary!Follow, Summary!RequireRole
<1>3. v5' \in DOMAIN Summary!Need
  BY <1>1, <1>2 DEF GoodLink
<1>4. v6' = IF v5' = "workspace" THEN Summary!seed(l.panel) ELSE Null
  BY Zenon DEF Summary!Follow
<1>5. IF v5' \in Summary!Shell THEN v2' = v2 /\ v7' = v7 ELSE v2' = <<>> /\ v7' = "none"
  BY DEF Summary!Follow
<1>6. v10' = FALSE /\ v11' = FALSE
  BY Zenon DEF Summary!Follow
<1>7. /\ v8' \in {Null} \cup SummaryPeople /\ v9' \subseteq BOOLEAN
      /\ TRUE \in v9' => v3' = "owner" /\ v5' = "overview"
  <2>1. CASE v5' = v5
    BY <1>2, <2>1 DEF Summary!Follow, Summary!overviewVars, Summary!MembersAreOwners
  <2>2. CASE v5' # v5
    <3>1. Summary!Mounts(v3, v5')
      BY <2>2, Zenon DEF Summary!Follow
    <3> QED BY <1>2, <3>1, MountsAsk
  <2> QED BY <2>1, <2>2
<1>8. /\ v2' \in Seq(Summary!Row) /\ v1' \in Seq(Summary!Row) /\ Len(v2') <= Len(v1')
      /\ v7' \in {"none", "asked", "known"}
  <2>1. CASE v5' \in Summary!Shell
    BY <1>2, <1>5, <2>1
  <2>2. CASE v5' \notin Summary!Shell
    BY <1>2, <1>5, <2>2
  <2> QED BY <2>1, <2>2
<1>9. v6' = Null <=> v5' # "workspace"
  BY <1>4, ViewsOpened
<1>10. Summary!LinksLand'
  <2>1. l.panel # Null => v6' = Summary!PANEL_TO_VIEW[l.panel]
    BY <1>1, <1>2, <1>4, ViewsOpened DEF GoodLink
  <2>2. l.build # Null => l.build \in DOMAIN v2'
    <3>1. "history" \in Summary!Shell
      BY DEF Summary!Shell, Summary!Need
    <3> QED BY <1>1, <1>2, <1>5, <3>1 DEF GoodLink
  <2> QED BY <1>2, <2>1, <2>2 DEF Summary!LinksLand
<1>11. Summary!MembersAreOwners'
  BY <1>7, MembersShown DEF Summary!MembersAreOwners
<1>12. Summary!TypeOK'
  BY <1>2, <1>3, <1>6, <1>7, <1>8, <1>9
<1> QED BY <1>7, <1>8, <1>10, <1>11, <1>12

\* The shell starts anew on the overview.
LEMMA ReturnKeeps ==
    ASSUME Summary!SummaryInv, Summary!Return
    PROVE  Summary!SummaryInv'
<1> USE DEF Summary!SummaryInv, Summary!TypeOK
<1>1. /\ v5' = "overview" /\ v6' = Null /\ v12' = Null /\ v2' = <<>>
      /\ v1' = v1 /\ v3' = v3 /\ v10' = v10 /\ v11' = v11
  BY DEF Summary!Return
<1>2. "overview" \in DOMAIN Summary!Need /\ "overview" \in Summary!Shell
  BY DEF Summary!Need, Summary!Shell
<1>3. v7' \in {"none", "asked", "known"}
  BY DEF Summary!Return, Summary!AskEnv
<1>4. /\ v8' = Null /\ v9' \subseteq BOOLEAN
      /\ TRUE \in v9' => v3 = "owner"
  BY MountsAsk DEF Summary!Return
<1>5. Summary!LinksLand' /\ Summary!MembersAreOwners'
  BY <1>1, <1>4, MembersShown DEF Summary!LinksLand, Summary!MembersAreOwners
<1>6. v2' \in Seq(Summary!Row) /\ Len(v2') <= Len(v1')
  BY <1>1
<1>7. Summary!TypeOK'
  BY <1>1, <1>2, <1>3, <1>4, <1>6
<1> QED BY <1>1, <1>4, <1>5, <1>6, <1>7

\* A page that the new role may not see gives way to the overview.
LEMMA RoleKeeps ==
    ASSUME Summary!SummaryInv, NEW r \in Summary!Roles, Summary!RoleChanges(r)
    PROVE  Summary!SummaryInv'
<1> USE DEF Summary!SummaryInv, Summary!TypeOK
<1>1. /\ v12' = Null /\ v2' = v2 /\ v1' = v1 /\ v3' = r /\ v10' = v10 /\ v11' = v11
      /\ v6' = v6 /\ v5' = Summary!RequireRole(r, v5)
  BY DEF Summary!RoleChanges
<1>2. v5' \in DOMAIN Summary!Need /\ (v5 \in Summary!Shell => v5' \in Summary!Shell)
  BY <1>1 DEF Summary!RequireRole, Summary!Need, Summary!Shell
<1>3. v6' = Null <=> v5' # "workspace"
  <2>1. v5 = "workspace" => v5' = "workspace"
    BY <1>1, Ranks DEF Summary!RequireRole, Summary!Need
  <2>2. v5' \in {v5, "overview"}
    BY <1>1 DEF Summary!RequireRole
  <2> QED BY <1>1, <2>1, <2>2
<1>4. v7' \in {"none", "asked", "known"}
  BY DEF Summary!RoleChanges, Summary!AskEnv
<1>5. /\ v8' \in {Null} \cup SummaryPeople /\ v9' \subseteq BOOLEAN
      /\ TRUE \in v9' => v3' = "owner" /\ v5' = "overview"
  <2>1. CASE v5' # v5
    <3>1. Summary!Mounts(r, v5')
      BY <2>1, Zenon DEF Summary!RoleChanges
    <3> QED BY <1>1, <3>1, MountsAsk
  <2>2. CASE v5' = v5
    BY <1>1, <2>2 DEF Summary!RoleChanges, Summary!AskMembers, Summary!Dropped
  <2> QED BY <2>1, <2>2
<1>6. Summary!LinksLand' /\ Summary!MembersAreOwners'
  BY <1>1, <1>5, MembersShown DEF Summary!LinksLand, Summary!MembersAreOwners
<1>7. Summary!TypeOK'
  BY <1>1, <1>2, <1>3, <1>4, <1>5
<1> QED BY <1>1, <1>5, <1>6, <1>7

\* The other steps leave the page, the role and the link alone; the list of the
\* shell only grows.
LEMMA RestKeeps ==
    ASSUME Summary!SummaryInv,
           /\ v3' = v3 /\ v5' = v5 /\ v6' = v6 /\ v12' = v12
           /\ v1' \in Seq(Summary!Row) /\ v2' \in Seq(Summary!Row)
           /\ Len(v2) <= Len(v2') /\ Len(v2') <= Len(v1')
           /\ v7' \in {"none", "asked", "known"}
           /\ v8' \in {v8} \cup SummaryPeople /\ v9' \subseteq v9
           /\ v10' => v5 \in Summary!Shell
           /\ v11' => v10'
    PROVE  Summary!SummaryInv'
<1> USE DEF Summary!SummaryInv, Summary!TypeOK
<1>1. DOMAIN v2 \subseteq DOMAIN v2'
  OBVIOUS
<1>2. Summary!LinksLand'
  BY <1>1 DEF Summary!LinksLand
<1>3. Summary!MembersAreOwners'
  BY MembersShown DEF Summary!MembersAreOwners
<1>4. Summary!TypeOK'
  <2>1. v8' \in {Null} \cup SummaryPeople
    OBVIOUS
  <2> QED BY <2>1, Zenon
<1> QED BY <1>2, <1>3, <1>4

\* Each step keeps the links and the members with the role.
LEMMA SummaryStep == Summary!SummaryInv /\ [Summary!Next]_(Summary!vars) => Summary!SummaryInv'
<1> SUFFICES ASSUME Summary!SummaryInv, [Summary!Next]_(Summary!vars)
             PROVE  Summary!SummaryInv'
  OBVIOUS
<1> DEFINE others == /\ v3' = v3 /\ v5' = v5 /\ v6' = v6 /\ v12' = v12
           lists == v1' = v1 /\ v2' = v2
           drawer == v10' = v10 /\ v11' = v11
           people == v8' = v8 /\ v9' = v9
<1>0. /\ v1 \in Seq(Summary!Row) /\ v2 \in Seq(Summary!Row) /\ Len(v2) <= Len(v1)
      /\ v7 \in {"none", "asked", "known"} /\ v9 \subseteq BOOLEAN
      /\ (v10 => v5 \in Summary!Shell) /\ (v11 => v10)
  BY Zenon DEF Summary!SummaryInv, Summary!TypeOK
<1>1. ASSUME NEW l \in Summary!Offered, Summary!Follow(l) PROVE Summary!SummaryInv'
  BY <1>1, FollowLands
<1>2. CASE Summary!Return
  BY <1>2, ReturnKeeps
<1>3. ASSUME NEW r \in Summary!Roles, Summary!RoleChanges(r) PROVE Summary!SummaryInv'
  BY <1>3, RoleKeeps
<1>4. ASSUME NEW b \in Summary!Row, Summary!Deployed(b) PROVE Summary!SummaryInv'
  <2>1. others /\ v2' = v2 /\ v7' = v7 /\ people /\ drawer /\ v1' = Append(v1, b)
    BY <1>4 DEF Summary!Deployed, Summary!idle, Summary!shellVars, Summary!overviewVars
  <2>2. v1' \in Seq(Summary!Row) /\ Len(v1') = Len(v1) + 1
    BY <1>0, <2>1
  <2>3. Len(v2') <= Len(v1') /\ Len(v2) <= Len(v2')
    BY <1>0, <2>1, <2>2
  <2>4. (v10' => v5 \in Summary!Shell) /\ (v11' => v10')
    BY <1>0, <2>1, Zenon
  <2> QED BY <1>0, <2>1, <2>2, <2>3, <2>4, RestKeeps
<1>5. CASE Summary!Polled
  <2>1. others /\ v1' = v1 /\ v2' = v1 /\ v7' = v7 /\ people /\ drawer
    BY <1>5 DEF Summary!Polled, Summary!idle, Summary!overviewVars
  <2>2. (v10' => v5 \in Summary!Shell) /\ (v11' => v10')
    BY <1>0, <2>1, Zenon
  <2>3. Len(v1) <= Len(v1)
    BY <1>0
  <2> QED BY <1>0, <2>1, <2>2, <2>3, RestKeeps
<1>6. CASE Summary!EnvCame
  <2>1. others /\ lists /\ v7' = "known" /\ people /\ drawer
    BY <1>6 DEF Summary!EnvCame, Summary!idle, Summary!overviewVars
  <2>2. (v10' => v5 \in Summary!Shell) /\ (v11' => v10')
    BY <1>0, <2>1, Zenon
  <2>3. Len(v2) <= Len(v2)
    BY <1>0
  <2> QED BY <1>0, <2>1, <2>2, <2>3, RestKeeps
<1>7. ASSUME NEW a \in v9, NEW n \in SummaryPeople, Summary!SharesCame(a, n)
      PROVE  Summary!SummaryInv'
  <2>1. /\ others /\ lists /\ v7' = v7 /\ drawer
        /\ v8' \in {v8} \cup SummaryPeople /\ v9' \subseteq v9
    BY <1>7 DEF Summary!SharesCame, Summary!idle, Summary!shellVars
  <2>2. (v10' => v5 \in Summary!Shell) /\ (v11' => v10')
    BY <1>0, <2>1, Zenon
  <2>3. Len(v2) <= Len(v2)
    BY <1>0
  <2> QED BY <1>0, <2>1, <2>2, <2>3, RestKeeps
<1>8. ASSUME NEW a \in v9, Summary!ShareFails(a) PROVE Summary!SummaryInv'
  <2>1. others /\ lists /\ v7' = v7 /\ drawer /\ v8' = v8 /\ v9' \subseteq v9
    BY <1>8 DEF Summary!ShareFails, Summary!idle, Summary!shellVars
  <2>2. (v10' => v5 \in Summary!Shell) /\ (v11' => v10')
    BY <1>0, <2>1, Zenon
  <2>3. Len(v2) <= Len(v2)
    BY <1>0
  <2> QED BY <1>0, <2>1, <2>2, <2>3, RestKeeps
<1>9. CASE Summary!openInfo \/ Summary!onClose \/ Summary!copy \/ Summary!CopyFades
  <2>1. others /\ lists /\ v7' = v7 /\ people
    BY <1>9 DEF Summary!openInfo, Summary!onClose, Summary!copy, Summary!CopyFades,
       Summary!idle, Summary!overviewVars
  <2>2. (v10' => v5 \in Summary!Shell) /\ (v11' => v10')
    <3>1. CASE Summary!openInfo
      BY <1>0, <3>1, Zenon DEF Summary!openInfo
    <3>2. CASE Summary!onClose
      BY <1>0, <3>2, Zenon DEF Summary!onClose
    <3>3. CASE Summary!copy
      BY <1>0, <3>3, Zenon DEF Summary!copy
    <3>4. CASE Summary!CopyFades
      BY <1>0, <3>4, Zenon DEF Summary!CopyFades
    <3> QED BY <1>9, <3>1, <3>2, <3>3, <3>4
  <2>3. Len(v2) <= Len(v2)
    BY <1>0
  <2> QED BY <1>0, <2>1, <2>2, <2>3, RestKeeps
<1>10. CASE UNCHANGED Summary!vars
  <2>1. others /\ lists /\ v7' = v7 /\ people /\ drawer
    BY <1>10 DEF Summary!vars, Summary!shellVars, Summary!overviewVars
  <2>2. (v10' => v5 \in Summary!Shell) /\ (v11' => v10')
    BY <1>0, <2>1, Zenon
  <2>3. Len(v2) <= Len(v2)
    BY <1>0
  <2> QED BY <1>0, <2>1, <2>2, <2>3, RestKeeps
<1> QED BY <1>1, <1>2, <1>3, <1>4, <1>5, <1>6, <1>7, <1>8, <1>9, <1>10, Zenon
    DEF Summary!Next


-------------------------------------------------------------------------------
(***************************************************************************)
(* BuildHistory: v1 are the builds of the server, v2 the builds listed, v3 *)
(* the answer of the list's poll, v5 the build of the detail, v6 what it   *)
(* shows, v7 its poll, v9 and v10 whether a rollback was asked for and is  *)
(* made, v12 for which build, v13 the rollbacks, v14 the page.             *)
(***************************************************************************)
HistoryShown == [status : History!Statuses, ai : {Null, "pending", "done"}]

\* What the module assumes of its constants.
LEMMA HistoryAssumed == History!HistoryAssumption
BY PageAssumptions

\* The rank of a row or a snapshot is a number, of both the same.
LEMMA HistoryRanks ==
    /\ \A b \in HistoryShown : History!Rank(b) \in Nat
    /\ \A r \in History!Row : /\ History!Rank(r) \in Nat
                              /\ History!Snapshot(r) \in HistoryShown
                              /\ History!Rank(History!Snapshot(r)) = History!Rank(r)
<1>1. ASSUME NEW b, b.status \in History!Statuses PROVE History!Rank(b) \in Nat
  BY <1>1 DEF History!Rank, History!Statuses
<1>2. ASSUME NEW r \in History!Row
      PROVE  /\ r.status \in History!Statuses /\ History!Snapshot(r) \in HistoryShown
             /\ History!Snapshot(r).status = r.status /\ History!Snapshot(r).ai = r.ai
  BY DEF History!Row, History!Snapshot, HistoryShown
<1>3. ASSUME NEW r \in History!Row
      PROVE  History!Rank(History!Snapshot(r)) = History!Rank(r)
  BY <1>2 DEF History!Rank
<1> QED BY <1>1, <1>2, <1>3 DEF HistoryShown

\* A build that has a newer one in a list has one in every later list.
LEMMA HistoryNewer ==
    ASSUME NEW s \in Seq(History!Row), NEW t \in Seq(History!Row), History!Behind(s, t),
           NEW n, History!Newer(s, n)
    PROVE  History!Newer(t, n)
<1>1. PICK m \in DOMAIN s : m > n /\ s[m].kind = "build"
  BY DEF History!Newer
<1>2. m \in DOMAIN t /\ t[m].kind = "build"
  BY <1>1 DEF History!Behind
<1> QED BY <1>1, <1>2 DEF History!Newer

\* Rows go one way, so what is behind them stays behind.
LEMMA HistoryBehind ==
    ASSUME NEW s \in Seq(History!Row), NEW t \in Seq(History!Row), NEW u \in Seq(History!Row),
           History!Behind(s, t), History!Behind(t, u)
    PROVE  History!Behind(s, u)
<1>1. Len(s) <= Len(u)
  BY DEF History!Behind
<1>2. ASSUME NEW n \in DOMAIN s
      PROVE  /\ s[n].kind = u[n].kind /\ History!Rank(s[n]) <= History!Rank(u[n])
             /\ s[n].status = "running" /\ History!Newer(s, n) => u[n].status = "running"
  <2>1. n \in DOMAIN t /\ n \in DOMAIN u
    BY DEF History!Behind
  <2>2. s[n] \in History!Row /\ t[n] \in History!Row /\ u[n] \in History!Row
    BY <2>1
  <2>3. /\ History!Rank(s[n]) \in Nat /\ History!Rank(t[n]) \in Nat
        /\ History!Rank(u[n]) \in Nat
    BY <2>2, HistoryRanks
  <2>4. History!Rank(s[n]) <= History!Rank(t[n]) /\ History!Rank(t[n]) <= History!Rank(u[n])
    BY <2>1 DEF History!Behind
  <2>5. s[n].kind = u[n].kind
    BY <2>1 DEF History!Behind
  <2>6. History!Newer(s, n) => History!Newer(t, n)
    BY HistoryNewer
  <2>7. s[n].status = "running" /\ History!Newer(s, n) => u[n].status = "running"
    BY <2>1, <2>6 DEF History!Behind
  <2> QED BY <2>3, <2>4, <2>5, <2>7
<1> QED BY <1>1, <1>2 DEF History!Behind

\* And nothing is ahead of itself.
LEMMA HistoryLevel ==
    ASSUME NEW s \in Seq(History!Row)
    PROVE  History!Behind(s, s)
<1>1. \A n \in DOMAIN s : History!Rank(s[n]) \in Nat
  BY HistoryRanks
<1> QED BY <1>1 DEF History!Behind

\* A row that ends, or whose diagnosis does, is one further on.
LEMMA HistoryRows ==
    ASSUME History!RowsInv,
           \/ \E n \in DOMAIN v1 : History!Step(n) \/ History!Diagnosed(n)
           \/ \E k \in History!Kinds, n \in 0 .. HistoryMaxBuilds :
                  Len(v1) < HistoryMaxBuilds /\ v1' = History!Added(k, n)
    PROVE  v1' \in Seq(History!Row) /\ Len(v1') <= HistoryMaxBuilds /\ History!Behind(v1, v1')
<1> USE HistoryAssumed DEF History!HistoryAssumption
<1>0. v1 \in Seq(History!Row) /\ Len(v1) <= HistoryMaxBuilds
  BY DEF History!RowsInv
<1>put. ASSUME NEW n \in DOMAIN v1, NEW r \in History!Row, v1' = [v1 EXCEPT ![n] = r],
               r.kind = v1[n].kind, History!Rank(v1[n]) <= History!Rank(r),
               v1[n].status = "running" /\ History!Newer(v1, n) => r.status = "running"
        PROVE  /\ v1' \in Seq(History!Row) /\ Len(v1') <= HistoryMaxBuilds
               /\ History!Behind(v1, v1')
  <2>1. v1' \in Seq(History!Row) /\ Len(v1') = Len(v1)
    BY <1>0, <1>put
  <2>2. \A m \in DOMAIN v1 : v1'[m] = IF m = n THEN r ELSE v1[m]
    BY <1>0, <1>put
  <2>3. \A m \in DOMAIN v1 : History!Rank(v1[m]) \in Nat
    BY <1>0, HistoryRanks
  <2>4. \A m \in DOMAIN v1 : /\ v1[m].kind = v1'[m].kind
                             /\ History!Rank(v1[m]) <= History!Rank(v1'[m])
                             /\ v1[m].status = "running" /\ History!Newer(v1, m)
                                    => v1'[m].status = "running"
    BY <1>put, <2>2, <2>3
  <2> QED BY <1>0, <2>1, <2>4 DEF History!Behind
<1>1. ASSUME NEW n \in DOMAIN v1, History!Step(n)
      PROVE  /\ v1' \in Seq(History!Row) /\ Len(v1') <= HistoryMaxBuilds
             /\ History!Behind(v1, v1')
  <2>1. PICK s \in History!After(n) :
            v1' = [v1 EXCEPT ![n].status = s,
                             ![n].ai = IF s = "failed" THEN "pending" ELSE Null]
    BY <1>1, Zenon DEF History!Step
  <2> DEFINE r == [v1[n] EXCEPT !.status = s, !.ai = IF s = "failed" THEN "pending" ELSE Null]
  <2>2. v1[n] \in History!Row
    BY <1>0
  <2>3. v1' = [v1 EXCEPT ![n] = r]
    BY <1>0, <2>1, <2>2 DEF History!Row
  <2>4. /\ s \in History!Statuses
        /\ \/ v1[n].status = "queued" /\ s # "queued"
           \/ v1[n].status = "building" /\ s \notin {"queued", "building"}
           \/ v1[n].status = "running" /\ s = "failed" /\ ~History!Newer(v1, n)
    BY <2>1 DEF History!After, History!Statuses
  <2>5. r \in History!Row /\ r.kind = v1[n].kind /\ r.status = s
    BY <2>2, <2>4 DEF History!Row
  <2>6. History!Rank(v1[n]) <= History!Rank(r)
    <3> HIDE DEF r
    <3> QED BY <2>4, <2>5 DEF History!Rank
  <2> QED BY <1>put, <2>3, <2>4, <2>5, <2>6
<1>2. ASSUME NEW n \in DOMAIN v1, History!Diagnosed(n)
      PROVE  /\ v1' \in Seq(History!Row) /\ Len(v1') <= HistoryMaxBuilds
             /\ History!Behind(v1, v1')
  <2> DEFINE r == [v1[n] EXCEPT !.ai = "done"]
  <2>1. v1[n] \in History!Row /\ v1[n].ai = "pending"
    BY <1>0, <1>2 DEF History!Diagnosed
  <2>2. v1' = [v1 EXCEPT ![n] = r]
    BY <1>0, <1>2, <2>1 DEF History!Diagnosed, History!Row
  <2>3. /\ r \in History!Row /\ r.kind = v1[n].kind /\ r.status = v1[n].status
        /\ r.ai = "done" /\ v1[n].status \in History!Statuses
    BY <2>1 DEF History!Row
  <2>4. History!Rank(v1[n]) <= History!Rank(r)
    <3> HIDE DEF r
    <3> QED BY <2>1, <2>3 DEF History!Rank, History!Statuses
  <2> QED BY <1>put, <2>2, <2>3, <2>4
<1>3. ASSUME NEW k \in History!Kinds, NEW n \in 0 .. HistoryMaxBuilds,
             Len(v1) < HistoryMaxBuilds, v1' = History!Added(k, n)
      PROVE  /\ v1' \in Seq(History!Row) /\ Len(v1') <= HistoryMaxBuilds
             /\ History!Behind(v1, v1')
  <2> DEFINE r == [kind |-> k, status |-> IF k = "build" THEN "queued" ELSE "running",
                   ai |-> Null, of |-> n]
  <2>1. r \in History!Row /\ v1' = Append(v1, r)
    BY <1>3 DEF History!Row, History!Statuses, History!Added
  <2> HIDE DEF r
  <2>2. /\ v1' \in Seq(History!Row) /\ Len(v1') = Len(v1) + 1
        /\ \A m \in DOMAIN v1 : v1'[m] = v1[m]
    BY <1>0, <2>1
  <2>3. \A m \in DOMAIN v1 : History!Rank(v1[m]) \in Nat
    BY <1>0, HistoryRanks
  <2> QED BY <1>0, <1>3, <2>2, <2>3 DEF History!Behind
<1> QED BY <1>1, <1>2, <1>3

\* The builds of the server go on: what is shown of them stays behind.
LEMMA HistoryServer ==
    ASSUME History!HistoryInv,
           v1' \in Seq(History!Row), Len(v1') <= HistoryMaxBuilds, History!Behind(v1, v1'),
           v2' = v2, v4' = v4, v5' = v5, v6' = v6, v9' = v9, v10' = v10, v12' = v12,
           v13' \subseteq v13, (v3' = v3 /\ v14' = v14) \/ v3' = Null,
           v7' = v7 \/ v7' = History!Off
    PROVE  History!HistoryInv'
<1> USE HistoryAssumed DEF History!HistoryAssumption
<1>0. History!RowsInv /\ History!DetailInv /\ History!RollbackInv
  BY DEF History!HistoryInv
<1>1. /\ {v1, v2} \subseteq Seq(History!Row) /\ History!Behind(v2, v1) /\ v5 \in DOMAIN v2
      /\ v4 \in 0 .. HistoryMaxBuilds
      /\ v3 # Null => /\ v3 \in Seq(History!Row) /\ Len(v2) <= Len(v3)
                      /\ History!Behind(v3, v1) /\ v14 = "history"
  BY <1>0, Zenon DEF History!RowsInv
<1>2. History!Behind(v2', v1')
  BY <1>1, HistoryBehind
<1>3. v3' # Null => /\ v3' \in Seq(History!Row) /\ Len(v2') <= Len(v3')
                    /\ History!Behind(v3', v1') /\ v14' = "history"
  BY <1>1, HistoryBehind
<1>4. {v1', v2'} \subseteq Seq(History!Row)
  BY <1>1
<1>5. History!RowsInv'
  BY <1>1, <1>2, <1>3, <1>4, Zenon DEF History!RowsInv
<1>6. /\ v5 \in DOMAIN v1 /\ v1[v5] \in History!Row /\ v1'[v5] \in History!Row
      /\ History!Rank(v1[v5]) <= History!Rank(v1'[v5])
  BY <1>1 DEF History!Behind
<1>7. ASSUME NEW b \in HistoryShown, History!Rank(b) <= History!Rank(v1[v5])
      PROVE  History!Rank(b) <= History!Rank(v1'[v5])
  <2>1. /\ History!Rank(b) \in Nat /\ History!Rank(v1[v5]) \in Nat
        /\ History!Rank(v1'[v5]) \in Nat
    BY <1>6, HistoryRanks
  <2> QED BY <1>6, <1>7, <2>1
<1>8. History!DetailInv'
  <2>1. v6' \in HistoryShown /\ History!Rank(v6') <= History!Rank(v1'[v5'])
    BY <1>0, <1>7 DEF History!DetailInv, HistoryShown
  <2>2. v7'.at \in {"off", "wait", "sent", "back"}
    BY <1>0 DEF History!DetailInv, History!Off
  <2>3. v7'.at = "back" => /\ v7'.got \in HistoryShown
                           /\ History!Rank(v6') <= History!Rank(v7'.got)
                           /\ History!Rank(v7'.got) <= History!Rank(v1'[v5'])
    BY <1>0, <1>7 DEF History!DetailInv, HistoryShown, History!Off
  <2> QED BY <2>1, <2>2, <2>3, Zenon DEF History!DetailInv, HistoryShown
<1>9. History!RollbackInv'
  <2>1. ASSUME NEW r \in v13'
        PROVE  /\ r \in [of : 1 .. HistoryMaxBuilds, mine : BOOLEAN]
               /\ r.of < Len(v1') /\ v1'[r.of].status = "running" /\ History!Newer(v1', r.of)
    <3>1. /\ r \in [of : 1 .. HistoryMaxBuilds, mine : BOOLEAN]
          /\ r.of < Len(v1) /\ v1[r.of].status = "running" /\ History!Newer(v1, r.of)
      BY <1>0, Zenon DEF History!RollbackInv
    <3>2. r.of \in DOMAIN v1 /\ r.of \in Nat /\ Len(v1) <= Len(v1')
          /\ Len(v1) \in Nat /\ Len(v1') \in Nat
      BY <1>1, <3>1 DEF History!Behind
    <3>3. v1'[r.of].status = "running"
      BY <3>1, <3>2 DEF History!Behind
    <3>4. r.of < Len(v1')
      BY <3>1, <3>2
    <3>5. History!Newer(v1', r.of)
      BY <1>1, <3>1, HistoryNewer
    <3> QED BY <3>1, <3>3, <3>4, <3>5
  <2> QED BY <1>0, <2>1, Zenon DEF History!RollbackInv
<1> QED BY <1>5, <1>8, <1>9, Zenon DEF History!HistoryInv

\* Another build in the detail starts from what the list says; the same one goes on.
LEMMA HistoryShow ==
    ASSUME History!HistoryInv, NEW s \in Seq(History!Row), NEW n \in DOMAIN s,
           History!Behind(s, v1), Len(v2) <= Len(s), History!Show(s, n),
           v1' = v1, v2' = s, v3' = Null \/ (v3' = v3 /\ s = v2), v14' = v14,
           v4' \in 0 .. HistoryMaxBuilds
    PROVE  History!HistoryInv'
<1> USE HistoryAssumed DEF History!HistoryAssumption
<1>0. History!RowsInv /\ History!DetailInv /\ History!RollbackInv
  BY DEF History!HistoryInv
<1>1. /\ {v1, v2} \subseteq Seq(History!Row) /\ Len(v1) <= HistoryMaxBuilds
      /\ v5 \in DOMAIN v2
      /\ v3 # Null => /\ v3 \in Seq(History!Row) /\ Len(v2) <= Len(v3)
                      /\ History!Behind(v3, v1) /\ v14 = "history"
  BY <1>0, Zenon DEF History!RowsInv
<1>2. v5' = n \/ (v5' = v5 /\ n = v5)
  BY DEF History!Show
<1>3. History!RowsInv'
  <2>1. v3' # Null => /\ v3' \in Seq(History!Row) /\ Len(v2') <= Len(v3')
                      /\ History!Behind(v3', v1') /\ v14' = "history"
    BY <1>1
  <2>2. v5' \in DOMAIN v2' /\ {v1', v2'} \subseteq Seq(History!Row)
    BY <1>1, <1>2
  <2> QED BY <1>1, <2>1, <2>2, Zenon DEF History!RowsInv
<1>4. /\ s[n] \in History!Row /\ n \in DOMAIN v1 /\ v1[n] \in History!Row
      /\ History!Rank(s[n]) <= History!Rank(v1[n])
  BY <1>1 DEF History!Behind
<1>5. /\ History!Snapshot(s[n]) \in HistoryShown
      /\ History!Rank(History!Snapshot(s[n])) <= History!Rank(v1[n])
  BY <1>4, HistoryRanks
<1>6. \A b : History!PollFor(b).at \in {"off", "wait"}
  BY DEF History!PollFor, History!Waits, History!Off
<1>7. History!DetailInv'
  <2>1. CASE n # v5
    <3>1. v5' = n /\ v6' = History!Snapshot(s[n]) /\ v7' = History!PollFor(v6')
      BY <2>1 DEF History!Show
    <3> QED BY <1>5, <1>6, <3>1, Zenon DEF History!DetailInv, HistoryShown
  <2>2. CASE n = v5
    <3>1. v5' = v5 /\ v6' = v6
      BY <2>2 DEF History!Show
    <3>2. CASE v7' = v7
      BY <1>0, <3>1, <3>2, Zenon DEF History!DetailInv
    <3>3. CASE v7' = History!PollFor(History!Snapshot(s[n]))
      BY <1>0, <1>6, <3>1, <3>3, Zenon DEF History!DetailInv
    <3> QED BY <2>2, <3>2, <3>3 DEF History!Show
  <2> QED BY <2>1, <2>2
<1>8. History!RollbackInv'
  <2>1. CASE n # v5
    <3>1. ~v9' /\ ~v10' /\ v13' = History!Forget
      BY <2>1, Zenon DEF History!Show
    <3>2. ASSUME NEW r \in v13
          PROVE  LET m == [r EXCEPT !.mine = FALSE]
                 IN /\ m \in [of : 1 .. HistoryMaxBuilds, mine : BOOLEAN]
                    /\ m.of < Len(v1) /\ v1[m.of].status = "running"
                    /\ History!Newer(v1, m.of)
      <4>1. /\ r \in [of : 1 .. HistoryMaxBuilds, mine : BOOLEAN]
            /\ r.of < Len(v1) /\ v1[r.of].status = "running" /\ History!Newer(v1, r.of)
        BY <1>0, Zenon DEF History!RollbackInv
      <4> QED BY <4>1
    <3> QED BY <3>1, <3>2, Zenon DEF History!RollbackInv, History!Forget
  <2>2. CASE n = v5
    <3>1. v5' = v5 /\ v9' = v9 /\ v10' = v10 /\ v12' = v12 /\ v13' = v13
      BY <2>2 DEF History!Show, History!rollbackVars
    <3> QED BY <1>0, <3>1, Zenon DEF History!RollbackInv
  <2> QED BY <2>1, <2>2
<1> QED BY <1>3, <1>7, <1>8, Zenon DEF History!HistoryInv

\* Steps of the detail and of its button.
LEMMA HistoryDetail ==
    ASSUME History!HistoryInv, v1' = v1, v2' = v2, v3' = v3, v4' = v4, v5' = v5, v14' = v14,
           History!DetailInv', History!RollbackInv'
    PROVE  History!HistoryInv'
<1>1. History!RowsInv'
  BY Zenon DEF History!HistoryInv, History!RowsInv
<1> QED BY <1>1, Zenon DEF History!HistoryInv

\* The poll of the detail never brings what is older than what is shown.
LEMMA HistoryPoll ==
    ASSUME History!HistoryInv,
           \/ History!PollAgain \/ History!PollRead \/ History!PollAnswered \/ History!PollFails
    PROVE  History!HistoryInv' /\ History!Rank(v6') >= History!Rank(v6)
<1>0. History!RowsInv /\ History!DetailInv /\ History!RollbackInv
  BY DEF History!HistoryInv
<1>1. /\ v1' = v1 /\ v2' = v2 /\ v3' = v3 /\ v4' = v4 /\ v5' = v5 /\ v9' = v9 /\ v10' = v10
      /\ v12' = v12 /\ v13' = v13 /\ v14' = v14
  BY Zenon DEF History!PollAgain, History!PollRead, History!PollAnswered, History!PollFails,
     History!pollRest, History!listVars, History!rollbackVars
<1>2. History!RollbackInv'
  BY <1>0, <1>1, Zenon DEF History!RollbackInv
<1>3. /\ v6 \in HistoryShown /\ History!Rank(v6) \in Nat
      /\ History!Rank(v6) <= History!Rank(v1[v5])
  BY <1>0, HistoryRanks DEF History!DetailInv, HistoryShown
<1>4. v5 \in DOMAIN v1 /\ v1[v5] \in History!Row
  BY <1>0 DEF History!RowsInv, History!Behind
<1>5. CASE History!PollAgain \/ History!PollFails
  <2>1. v6' = v6 /\ v7' \in {[at |-> "sent", got |-> Null], History!Waits}
    BY <1>5, Zenon DEF History!PollAgain, History!PollFails
  <2>2. v7'.at \in {"sent", "wait"}
    BY <2>1 DEF History!Waits
  <2>3. History!DetailInv'
    BY <1>1, <1>3, <2>1, <2>2, Zenon DEF History!DetailInv, HistoryShown
  <2> QED BY <1>1, <1>2, <1>3, <2>1, <2>3, HistoryDetail
<1>6. CASE History!PollRead
  <2>1. v6' = v6 /\ v7' = [at |-> "back", got |-> History!Snapshot(v1[v5])]
    BY <1>6, Zenon DEF History!PollRead
  <2>2. v7'.at = "back" /\ v7'.got = History!Snapshot(v1[v5])
    BY <2>1
  <2>3. /\ v7'.got \in HistoryShown /\ History!Rank(v7'.got) = History!Rank(v1[v5])
        /\ History!Rank(v1[v5]) \in Nat
    BY <1>4, <2>2, HistoryRanks
  <2>4. /\ History!Rank(v6') <= History!Rank(v7'.got)
        /\ History!Rank(v7'.got) <= History!Rank(v1'[v5'])
        /\ History!Rank(v6') <= History!Rank(v1'[v5'])
    BY <1>1, <1>3, <2>1, <2>3
  <2>5. History!DetailInv'
    BY <1>1, <1>3, <2>1, <2>2, <2>3, <2>4, Zenon DEF History!DetailInv, HistoryShown
  <2> QED BY <1>1, <1>2, <1>3, <2>1, <2>5, HistoryDetail
<1>7. CASE History!PollAnswered
  <2>1. v7.at = "back" /\ v6' = v7.got /\ v7' = History!PollFor(v7.got)
    BY <1>7, Zenon DEF History!PollAnswered
  <2>2. v7'.at \in {"off", "wait"}
    BY <2>1 DEF History!PollFor, History!Waits, History!Off
  <2>3. /\ v6' \in HistoryShown /\ History!Rank(v6) <= History!Rank(v6')
        /\ History!Rank(v6') <= History!Rank(v1'[v5'])
    BY <1>0, <1>1, <2>1, Zenon DEF History!DetailInv, HistoryShown
  <2>4. History!DetailInv'
    BY <2>2, <2>3, Zenon DEF History!DetailInv, HistoryShown
  <2>5. History!Rank(v6') \in Nat
    BY <2>3, HistoryRanks
  <2> QED BY <1>1, <1>2, <1>3, <2>3, <2>4, <2>5, HistoryDetail
<1> QED BY <1>5, <1>6, <1>7

\* Only an app that ran is gone back to, and not the one that did last.
LEMMA HistoryRollback ==
    ASSUME History!HistoryInv,
           \/ History!Confirm \/ History!Cancel \/ History!run
           \/ \E t \in {"summary", "logs"} : History!setTab(t)
           \/ \E r \in v13 : History!RollbackFails(r)
    PROVE  History!HistoryInv' /\ v6' = v6
<1> USE HistoryAssumed DEF History!HistoryAssumption
<1>0. History!RowsInv /\ History!DetailInv /\ History!RollbackInv
  BY DEF History!HistoryInv
<1>1. /\ v1' = v1 /\ v2' = v2 /\ v3' = v3 /\ v4' = v4 /\ v5' = v5 /\ v6' = v6 /\ v7' = v7
      /\ v14' = v14
  BY Zenon DEF History!Confirm, History!Cancel, History!run, History!setTab,
     History!RollbackFails, History!listVars, History!detailVars
<1>2. History!DetailInv'
  BY <1>0, <1>1, Zenon DEF History!DetailInv
<1> DEFINE Good(r) == /\ r \in [of : 1 .. HistoryMaxBuilds, mine : BOOLEAN]
                      /\ r.of < Len(v1) /\ v1[r.of].status = "running"
                      /\ History!Newer(v1, r.of)
<1>3. /\ v9 \/ v10 => v12 = v5
      /\ \A r \in v13 : Good(r)
  BY <1>0, Zenon DEF History!RollbackInv
<1>4. SUFFICES /\ v9' \/ v10' => v12' = v5
               /\ \A r \in v13' : Good(r)
  BY <1>1, <1>2, HistoryDetail, Zenon DEF History!RollbackInv
<1>5. CASE History!Confirm
  <2>1. v12' = v5 /\ v13' = v13
    BY <1>5, Zenon DEF History!Confirm
  <2> QED BY <1>3, <2>1, Zenon
<1>6. CASE History!Cancel \/ \E r \in v13 : History!RollbackFails(r)
  <2>1. (v9' => v9) /\ (v10' => v10) /\ v12' = v12 /\ v13' \subseteq v13
    <3>1. CASE History!Cancel
      BY <3>1, Zenon DEF History!Cancel
    <3>2. ASSUME NEW r \in v13, History!RollbackFails(r)
          PROVE  (v9' => v9) /\ (v10' => v10) /\ v12' = v12 /\ v13' \subseteq v13
      <4>1. v9' = v9 /\ v12' = v12 /\ v13' \subseteq v13
        BY <3>2, Zenon DEF History!RollbackFails
      <4>2. v10' => v10
        BY <3>2, Zenon DEF History!RollbackFails
      <4> QED BY <4>1, <4>2, Zenon
    <3> QED BY <1>6, <3>1, <3>2, Zenon
  <2> QED BY <1>3, <2>1, Zenon
<1>7. ASSUME NEW t \in {"summary", "logs"}, History!setTab(t)
      PROVE  /\ v9' \/ v10' => v12' = v5
             /\ \A r \in v13' : Good(r)
  <2>1. ~v9' /\ ~v10' /\ v13' = History!Forget
    BY <1>7, Zenon DEF History!setTab
  <2>2. \A r \in v13 : Good([r EXCEPT !.mine = FALSE])
    BY <1>3
  <2> HIDE DEF Good
  <2> QED BY <2>1, <2>2, Zenon DEF History!Forget
<1>8. CASE History!run
  <2>1. /\ History!Pane.button = "again" /\ v9' = v9 /\ v12' = v12
        /\ v13' = v13 \cup {[of |-> v5, mine |-> TRUE]}
    BY <1>8, Zenon DEF History!run
  <2>2. History!canRollback /\ v9
    BY <2>1 DEF History!Pane
  <2>3. v12' = v5
    BY <1>3, <2>1, <2>2, Zenon
  <2>4. /\ v5 \in DOMAIN v2 /\ v2 \in Seq(History!Row) /\ v1 \in Seq(History!Row)
        /\ History!Behind(v2, v1) /\ Len(v1) <= HistoryMaxBuilds
    BY <1>0 DEF History!RowsInv
  <2> DEFINE ran == {n \in DOMAIN v2 : History!rollbackable(n)}
  <2>5. v5 \in ran /\ v5 # History!currentId
    BY <2>2, <2>4 DEF History!canRollback
  <2>6. History!Max(ran) \in ran /\ \A y \in ran : History!Max(ran) >= y
    <3>1. \E x \in ran : \A y \in ran : x >= y
      <4>1. ran \in SUBSET (1 .. Len(v2)) /\ ran # {} /\ Len(v2) \in Nat
        BY <2>4, <2>5
      <4> HIDE DEF ran
      <4> QED BY <4>1, GreatestExists
    <3> HIDE DEF ran
    <3> QED BY <3>1 DEF History!Max
  <2>7. History!currentId = History!Max(ran)
    BY <2>5 DEF History!currentId
  <2>8. v5 < Len(v1) /\ v5 \in 1 .. HistoryMaxBuilds
    <3>1. /\ History!Max(ran) \in 1 .. Len(v2) /\ v5 \in 1 .. Len(v2)
          /\ History!Max(ran) >= v5
      BY <2>4, <2>5, <2>6
    <3>2. Len(v2) <= Len(v1) /\ Len(v2) \in Nat /\ Len(v1) \in Nat
      BY <2>4 DEF History!Behind
    <3> HIDE DEF ran
    <3> QED BY <2>4, <2>5, <2>7, <3>1, <3>2
  <2>9. History!Newer(v2, v5)
    <3>1. History!Max(ran) \in DOMAIN v2 /\ v2[History!Max(ran)].kind = "build"
      BY <2>6 DEF History!rollbackable
    <3>2. History!Max(ran) > v5
      <4>1. History!Max(ran) \in 1 .. Len(v2) /\ v5 \in 1 .. Len(v2) /\ Len(v2) \in Nat
        BY <2>4, <2>5, <3>1
      <4>2. History!Max(ran) >= v5 /\ History!Max(ran) # v5
        BY <2>5, <2>6, <2>7
      <4> HIDE DEF ran
      <4> QED BY <4>1, <4>2
    <3> HIDE DEF ran
    <3> QED BY <3>1, <3>2 DEF History!Newer
  <2>10. v1[v5].status = "running" /\ History!Newer(v1, v5)
    <3>1. v2[v5].status = "running"
      BY <2>5 DEF History!rollbackable
    <3> QED BY <2>4, <2>9, <3>1, HistoryNewer DEF History!Behind
  <2>11. Good([of |-> v5, mine |-> TRUE])
    BY <2>8, <2>10
  <2> HIDE DEF Good
  <2> QED BY <1>3, <2>1, <2>3, <2>11, Zenon
<1> QED BY <1>5, <1>6, <1>7, <1>8, Zenon

\* At the start the list and the detail show two builds that ran.
LEMMA HistoryInit == History!Init => History!HistoryInv
<1> SUFFICES ASSUME History!Init PROVE History!HistoryInv
  OBVIOUS
<1> USE HistoryAssumed DEF History!HistoryAssumption
<1> DEFINE row == [kind |-> "build", status |-> "running", ai |-> Null, of |-> 0]
<1>1. /\ v1 = [n \in 1 .. 2 |-> row] /\ v2 = v1 /\ v3 = Null /\ v4 = 0 /\ v5 = 2
      /\ v6 = History!Snapshot(v1[2]) /\ v7 = History!PollFor(v6) /\ v13 = {}
  BY DEF History!Init
<1>2. row \in History!Row
  BY DEF History!Row, History!Kinds, History!Statuses
<1> HIDE DEF row
<1>3. v1 \in Seq(History!Row) /\ Len(v1) = 2 /\ DOMAIN v1 = 1 .. 2 /\ v1[2] = row
  BY <1>1, <1>2
<1>4. History!RowsInv
  <2>1. History!Behind(v2, v1)
    BY <1>1, <1>3, HistoryLevel
  <2>2. /\ {v1, v2} \subseteq Seq(History!Row) /\ Len(v1) <= HistoryMaxBuilds
        /\ v5 \in DOMAIN v2 /\ v4 \in 0 .. HistoryMaxBuilds
    BY <1>1, <1>3
  <2> QED BY <1>1, <2>1, <2>2, Zenon DEF History!RowsInv
<1>5. History!DetailInv
  <2>1. /\ v6 \in HistoryShown /\ History!Rank(v6) = History!Rank(v1[2])
        /\ History!Rank(v1[2]) \in Nat
    BY <1>1, <1>2, <1>3, HistoryRanks
  <2>2. v7.at \in {"off", "wait"}
    BY <1>1 DEF History!PollFor, History!Waits, History!Off
  <2>3. History!Rank(v6) <= History!Rank(v1[v5])
    BY <1>1, <2>1
  <2> QED BY <2>1, <2>2, <2>3, Zenon DEF History!DetailInv, HistoryShown
<1>6. History!RollbackInv
  <2>1. ~v9 /\ ~v10
    BY Zenon DEF History!Init
  <2> QED BY <1>1, <2>1, Zenon DEF History!RollbackInv
<1> QED BY <1>4, <1>5, <1>6, Zenon DEF History!HistoryInv

\* Each step of the tab keeps what is said of it, and shows nothing older of a build.
LEMMA HistoryStep ==
    History!HistoryInv /\ [History!Next]_(History!vars)
        => /\ History!HistoryInv'
           /\ v5' = v5 => History!Rank(v6') >= History!Rank(v6)
<1> SUFFICES ASSUME History!HistoryInv, [History!Next]_(History!vars)
             PROVE  /\ History!HistoryInv'
                    /\ v5' = v5 => History!Rank(v6') >= History!Rank(v6)
  OBVIOUS
<1> USE HistoryAssumed DEF History!HistoryAssumption
<1>0. History!RowsInv /\ History!DetailInv /\ History!RollbackInv
  BY DEF History!HistoryInv
<1>same. v6' = v6 => History!Rank(v6') >= History!Rank(v6)
  <2>1. History!Rank(v6) \in Nat
    BY <1>0, HistoryRanks DEF History!DetailInv, HistoryShown
  <2> QED BY <2>1
<1>show. ASSUME NEW s, NEW n, History!Show(s, n), v5' = v5 PROVE v6' = v6
  BY <1>show DEF History!Show
<1>1. ASSUME \/ \E n \in DOMAIN v1 : History!Step(n) \/ History!Diagnosed(n)
             \/ \E k \in History!Kinds : History!NewBuild(k)
      PROVE  History!HistoryInv' /\ v6' = v6
  <2>1. /\ v2' = v2 /\ v3' = v3 /\ v4' = v4 /\ v5' = v5 /\ v6' = v6 /\ v7' = v7 /\ v9' = v9
        /\ v10' = v10 /\ v12' = v12 /\ v13' = v13 /\ v14' = v14
    BY <1>1, Zenon DEF History!Step, History!Diagnosed, History!NewBuild, History!rest,
       History!detailVars, History!rollbackVars
  <2>2. \/ \E n \in DOMAIN v1 : History!Step(n) \/ History!Diagnosed(n)
        \/ \E k \in History!Kinds, n \in 0 .. HistoryMaxBuilds :
               Len(v1) < HistoryMaxBuilds /\ v1' = History!Added(k, n)
    <3>1. 0 \in 0 .. HistoryMaxBuilds
      OBVIOUS
    <3> QED BY <1>1, <3>1, Zenon DEF History!NewBuild
  <2>3. /\ v1' \in Seq(History!Row) /\ Len(v1') <= HistoryMaxBuilds
        /\ History!Behind(v1, v1')
    BY <1>0, <2>2, HistoryRows
  <2> QED BY <2>1, <2>3, HistoryServer, Zenon
<1>2. ASSUME NEW r \in v13, History!RolledBack(r) PROVE History!HistoryInv' /\ v6' = v6
  <2>1. /\ v2' = v2 /\ v3' = Null /\ v4' = v4 /\ v5' = v5 /\ v6' = v6
        /\ v7' = History!Off /\ v9' = v9
        /\ v10' = v10 /\ v12' = v12 /\ v13' \subseteq v13
        /\ Len(v1) < HistoryMaxBuilds /\ v1' = History!Added("build", r.of)
    BY <1>2, Zenon DEF History!RolledBack, History!rollbackVars
  <2>2. r.of \in 0 .. HistoryMaxBuilds
    BY <1>0 DEF History!RollbackInv
  <2>3. "build" \in History!Kinds
    BY DEF History!Kinds
  <2>4. /\ v1' \in Seq(History!Row) /\ Len(v1') <= HistoryMaxBuilds
        /\ History!Behind(v1, v1')
    BY <1>0, <2>1, <2>2, <2>3, HistoryRows
  <2> QED BY <2>1, <2>4, HistoryServer, Zenon
<1>3. CASE History!ListRead
  <2>1. /\ v1' = v1 /\ v2' = v2 /\ v3' = v1 /\ v4' = v4 /\ v5' = v5 /\ v6' = v6 /\ v7' = v7
        /\ v9' = v9 /\ v10' = v10 /\ v12' = v12 /\ v13' = v13 /\ v14' = v14
        /\ v14 = "history"
    BY <1>3, Zenon DEF History!ListRead, History!rest, History!detailVars,
       History!rollbackVars
  <2>2. History!DetailInv' /\ History!RollbackInv'
    BY <1>0, <2>1, Zenon DEF History!DetailInv, History!RollbackInv
  <2>3. v1 \in Seq(History!Row) /\ Len(v2) <= Len(v1) /\ History!Behind(v1, v1)
    BY <1>0, HistoryLevel DEF History!RowsInv, History!Behind
  <2>4. History!RowsInv'
    BY <1>0, <2>1, <2>3, Zenon DEF History!RowsInv
  <2> QED BY <1>same, <2>1, <2>2, <2>4, Zenon DEF History!HistoryInv
<1>4. CASE History!ListAnswered
  <2>1. /\ v3 # Null /\ v2' = v3 /\ v3' = Null /\ v1' = v1 /\ v4' = v4 /\ v14' = v14
        /\ History!Show(v3, History!selected(v3))
    BY <1>4, Zenon DEF History!ListAnswered
  <2>2. /\ v3 \in Seq(History!Row) /\ Len(v2) <= Len(v3) /\ History!Behind(v3, v1)
        /\ v2 \in Seq(History!Row) /\ v5 \in DOMAIN v2 /\ v4 \in 0 .. HistoryMaxBuilds
    BY <1>0, <2>1 DEF History!RowsInv
  <2>3. History!selected(v3) \in DOMAIN v3
    BY <2>2 DEF History!selected
  <2>4. History!HistoryInv'
    BY <2>1, <2>2, <2>3, HistoryShow
  <2> QED BY <1>same, <1>show, <2>1, <2>4, Zenon
<1>5. ASSUME NEW n \in DOMAIN v1, History!select(n)
      PROVE  /\ History!HistoryInv'
             /\ v5' = v5 => v6' = v6
  <2>1. /\ v1' = v1 /\ v2' = v2 /\ v3' = v3 /\ v4' = n /\ v14' = v14 /\ n \in DOMAIN v2
        /\ History!Show(v2, n)
    BY <1>5, Zenon DEF History!select, History!listVars
  <2>2. /\ v1 \in Seq(History!Row) /\ Len(v1) <= HistoryMaxBuilds
        /\ v2 \in Seq(History!Row) /\ History!Behind(v2, v1)
    BY <1>0 DEF History!RowsInv
  <2>3. n \in 0 .. HistoryMaxBuilds /\ Len(v2) <= Len(v2)
    BY <2>2
  <2>4. History!HistoryInv'
    BY <2>1, <2>2, <2>3, HistoryShow
  <2> QED BY <1>show, <2>1, <2>4, Zenon
<1>6. CASE UNCHANGED History!vars
  <2>1. /\ v1' = v1 /\ v2' = v2 /\ v3' = v3 /\ v4' = v4 /\ v5' = v5 /\ v6' = v6 /\ v7' = v7
        /\ v9' = v9 /\ v10' = v10 /\ v12' = v12 /\ v13' = v13 /\ v14' = v14
    BY <1>6, Zenon DEF History!vars, History!listVars, History!detailVars,
       History!rollbackVars
  <2>2. History!DetailInv' /\ History!RollbackInv'
    BY <1>0, <2>1, Zenon DEF History!DetailInv, History!RollbackInv
  <2> QED BY <1>same, <2>1, <2>2, HistoryDetail, Zenon
<1> QED BY <1>same, <1>1, <1>2, <1>3, <1>4, <1>5, <1>6, HistoryPoll, HistoryRollback, Zenon
        DEF History!Next

\* What is kept says that a rollback is of the build it was confirmed for, and of one
\* that ran.
LEMMA HistoryConfirmed ==
    History!HistoryInv => History!RollbackIsConfirmed /\ History!RollbackRan
<1> SUFFICES ASSUME History!HistoryInv
             PROVE  History!RollbackIsConfirmed /\ History!RollbackRan
  OBVIOUS
<1>0. History!RowsInv /\ History!RollbackInv
  BY DEF History!HistoryInv
<1>1. History!Pane.button \in {"again", "busy"} => v9 \/ v10
  BY DEF History!Pane
<1>2. ASSUME NEW r \in v13 PROVE v1[r.of].status = "running" /\ r.of # Len(v1)
  <2>1. r \in [of : 1 .. HistoryMaxBuilds, mine : BOOLEAN] /\ r.of < Len(v1)
        /\ v1[r.of].status = "running"
    BY <1>0, Zenon DEF History!RollbackInv
  <2>2. r.of \in Nat /\ Len(v1) \in Nat
    BY <1>0, <2>1, HistoryAssumed DEF History!RowsInv, History!HistoryAssumption
  <2> QED BY <2>1, <2>2
<1> QED BY <1>0, <1>1, <1>2, Zenon DEF History!RollbackIsConfirmed, History!RollbackRan,
           History!RollbackInv

-------------------------------------------------------------------------------
(***************************************************************************)
(* AdminPage: v1 is the use of the nodes, v6 the use that is shown, v7 the *)
(* loops of its poll.                                                      *)
(***************************************************************************)
AdminPoll == [at : {"sent", "wait"}, got : Nat, live : BOOLEAN]

\* What is said of the polls of a set, when the use is `load` and `nodes` is shown.
AdminPolls(polls, load, nodes) ==
    /\ polls \subseteq AdminPoll
    /\ \A p \in polls : /\ p.got <= load
                        /\ p.at = "wait" => p.live /\ p.got = 0
                        /\ p.live /\ p.got > 0 /\ nodes # Null => nodes <= p.got
    /\ \A p, q \in polls : p.live /\ q.live => p = q

\* It is what the invariant says of them.
LEMMA AdminNodes ==
    Admin!NodesInv <=> /\ v1 \in Nat /\ (v6 # Null => v6 \in Nat /\ v6 <= v1)
                       /\ AdminPolls(v7, v1, v6)
BY Zenon DEF Admin!NodesInv, AdminPolls, AdminPoll

\* And the same a step later.
LEMMA AdminNodesNext ==
    ASSUME v1' \in Nat, v6' # Null => v6' \in Nat /\ v6' <= v1', AdminPolls(v7', v1', v6')
    PROVE  Admin!NodesInv'
BY Zenon DEF Admin!NodesInv, AdminPolls, AdminPoll

\* Polls that are given up, and a new one: it is the only one that counts.
LEMMA AdminOneMore ==
    ASSUME NEW load \in Nat, NEW nodes, NEW polls, NEW more,
           \A p \in polls : p \in AdminPoll /\ p.got <= load /\ ~p.live /\ p.at = "sent",
           more \in {{}, {Admin!Polling}}
    PROVE  AdminPolls(polls \cup more, load, nodes)
<1>1. /\ Admin!Polling \in AdminPoll /\ Admin!Polling.got = 0 /\ Admin!Polling.at = "sent"
  BY DEF Admin!Polling, AdminPoll
<1>2. \A p \in polls \cup more : /\ p \in AdminPoll /\ p.got <= load /\ p.at = "sent"
                                 /\ p.live => p = Admin!Polling
  BY <1>1
<1>3. \A p \in polls \cup more : p.live => ~ (p.got > 0)
  BY <1>1, <1>2
<1> QED BY <1>2, <1>3 DEF AdminPolls

\* One poll is replaced by another.
LEMMA AdminReplaced ==
    ASSUME NEW load \in Nat, NEW nodes, NEW new, NEW polls, NEW p \in polls, NEW r \in AdminPoll,
           AdminPolls(polls, load, nodes),
           new = nodes \/ p.live,
           r.got <= load, r.live => p.live,
           r.at = "wait" => r.live /\ r.got = 0,
           r.live /\ r.got > 0 /\ new # Null => new <= r.got
    PROVE  AdminPolls((polls \ {p}) \cup {r}, load, new)
<1> DEFINE after == (polls \ {p}) \cup {r}
<1>1. ASSUME NEW q \in after
      PROVE  /\ q \in AdminPoll /\ q.got <= load
             /\ q.at = "wait" => q.live /\ q.got = 0
             /\ q.live /\ q.got > 0 /\ new # Null => new <= q.got
  <2>1. CASE q = r
    BY <2>1
  <2>2. CASE q \in polls /\ q # p
    BY <2>2 DEF AdminPolls
  <2> QED BY <2>1, <2>2
<1>2. ASSUME NEW q \in after, NEW s \in after, q.live, s.live PROVE q = s
  BY <1>2 DEF AdminPolls
<1> QED BY <1>1, <1>2, Zenon DEF AdminPolls

\* The first poll asks when nothing is shown yet.
LEMMA AdminInit == Admin!Init => Admin!NodesInv
<1> SUFFICES ASSUME Admin!Init PROVE Admin!NodesInv
  OBVIOUS
<1>1. v1 = 1 /\ v6 = 0 /\ v7 \in {{}, {Admin!Polling}}
  BY DEF Admin!Init
<1>2. AdminPolls({} \cup v7, v1, v6)
  BY <1>1, AdminOneMore
<1>3. {} \cup v7 = v7
  OBVIOUS
<1> QED BY <1>1, <1>2, <1>3, AdminNodes

\* Each step of the page keeps what is said of its polls, and shows no earlier use.
LEMMA AdminStep ==
    Admin!NodesInv /\ [Admin!Next]_(Admin!vars) => Admin!NodesInv' /\ Admin!NodesGoForward
<1> SUFFICES ASSUME Admin!NodesInv, [Admin!Next]_(Admin!vars)
             PROVE  Admin!NodesInv' /\ Admin!NodesGoForward
  OBVIOUS
<1>0. /\ v1 \in Nat /\ (v6 # Null => v6 \in Nat /\ v6 <= v1)
      /\ AdminPolls(v7, v1, v6)
  BY AdminNodes
<1>shown. v6' = v6 => Admin!NodesGoForward
  BY <1>0 DEF Admin!NodesGoForward
<1>same. ASSUME v1' = v1, v6' = v6, v7' = v7 PROVE Admin!NodesInv'
  BY <1>0, <1>same, AdminNodesNext
<1>1. ASSUME NEW t \in Admin!Tabs, Admin!setTab(t)
      PROVE  Admin!NodesInv' /\ Admin!NodesGoForward
  <2>1. v1' = v1 /\ v6' = v6
    BY <1>1, Zenon DEF Admin!setTab
  <2>2. PICK more \in {{}, {Admin!Polling}} : v7' = Admin!Cancelled \cup more
    BY <1>1 DEF Admin!setTab
  <2>3. \A p \in Admin!Cancelled : p \in AdminPoll /\ p.got <= v1 /\ ~p.live /\ p.at = "sent"
    BY <1>0 DEF Admin!Cancelled, AdminPolls, AdminPoll
  <2>4. AdminPolls(v7', v1', v6')
    BY <1>0, <2>1, <2>2, <2>3, AdminOneMore
  <2> QED BY <1>0, <1>shown, <2>1, <2>4, AdminNodesNext
<1>2. CASE Admin!LoadChanges
  <2>1. v1' = v1 + 1 /\ v6' = v6 /\ v7' = v7
    BY <1>2, Zenon DEF Admin!LoadChanges
  <2>2. AdminPolls(v7', v1', v6')
    <3>1. \A p \in v7 : p.got \in Nat /\ p.got <= v1
      BY <1>0 DEF AdminPolls, AdminPoll
    <3>2. \A p \in v7 : p.got <= v1 + 1
      BY <1>0, <3>1
    <3> QED BY <1>0, <2>1, <3>2, Zenon DEF AdminPolls
  <2>3. v1' \in Nat /\ (v6' # Null => v6' \in Nat /\ v6' <= v1')
    BY <1>0, <2>1
  <2> QED BY <1>shown, <2>1, <2>2, <2>3, AdminNodesNext
<1>3. ASSUME NEW p \in v7, Admin!PollRead(p) PROVE Admin!NodesInv' /\ Admin!NodesGoForward
  <2> DEFINE r == [p EXCEPT !.got = v1]
  <2>1. /\ v1' = v1 /\ v6' = v6 /\ p.at = "sent" /\ v7' = (v7 \ {p}) \cup {r}
    BY <1>3, Zenon DEF Admin!PollRead, Admin!pollRest
  <2>2. /\ r \in AdminPoll /\ r.got = v1 /\ r.at = "sent" /\ (r.live => p.live)
    BY <1>0, <2>1 DEF AdminPolls, AdminPoll
  <2> HIDE DEF r
  <2>3. AdminPolls(v7', v1', v6')
    <3>1. v1 \in Nat /\ r.got <= v1 /\ (v6 # Null => v6 <= r.got)
      BY <1>0, <2>2
    <3>2. AdminPolls((v7 \ {p}) \cup {r}, v1, v6)
      BY <1>0, <2>1, <2>2, <3>1, AdminReplaced
    <3> QED BY <2>1, <3>2, Zenon
  <2> QED BY <1>0, <1>shown, <2>1, <2>3, AdminNodesNext
<1>4. ASSUME NEW p \in v7, Admin!PollAnswered(p) PROVE Admin!NodesInv' /\ Admin!NodesGoForward
  <2>1. v1' = v1 /\ p.at = "sent" /\ p.got > 0
    BY <1>4, Zenon DEF Admin!PollAnswered, Admin!pollRest
  <2>2. CASE p.live
    <3> DEFINE r == [p EXCEPT !.at = "wait", !.got = 0]
    <3>1. v6' \in {p.got, Null} /\ v7' = (v7 \ {p}) \cup {r}
      BY <1>4, <2>2, Zenon DEF Admin!PollAnswered
    <3>2. r \in AdminPoll /\ r.got = 0 /\ r.at = "wait" /\ r.live
      BY <1>0, <2>2 DEF AdminPolls, AdminPoll
    <3>3. /\ p.got \in Nat /\ p.got <= v1 /\ (v6 # Null => v6 <= p.got)
      BY <1>0, <2>1, <2>2 DEF AdminPolls, AdminPoll
    <3> HIDE DEF r
    <3>4. AdminPolls(v7', v1', v6')
      <4>1. v1 \in Nat /\ r.got <= v1 /\ ~ (r.got > 0)
        BY <1>0, <3>2
      <4>2. AdminPolls((v7 \ {p}) \cup {r}, v1, v6')
        BY <1>0, <2>2, <3>2, <4>1, AdminReplaced
      <4> QED BY <2>1, <3>1, <4>2, Zenon
    <3>5. v6' # Null => v6' \in Nat /\ v6' <= v1'
      BY <2>1, <3>1, <3>3
    <3>6. Admin!NodesGoForward
      BY <1>0, <3>1, <3>3 DEF Admin!NodesGoForward
    <3> QED BY <1>0, <2>1, <3>4, <3>5, <3>6, AdminNodesNext
  <2>3. CASE ~p.live
    <3>1. v6' = v6 /\ v7' = v7 \ {p}
      BY <1>4, <2>3, Zenon DEF Admin!PollAnswered
    <3>2. AdminPolls(v7', v1', v6')
      BY <1>0, <2>1, <3>1, Zenon DEF AdminPolls
    <3> QED BY <1>0, <1>shown, <2>1, <3>1, <3>2, AdminNodesNext
  <2> QED BY <2>2, <2>3
<1>5. ASSUME NEW p \in v7, Admin!PollAgain(p) PROVE Admin!NodesInv' /\ Admin!NodesGoForward
  <2>1. v1' = v1 /\ v6' = v6 /\ p.at = "wait" /\ v7' = (v7 \ {p}) \cup {Admin!Polling}
    BY <1>5, Zenon DEF Admin!PollAgain, Admin!pollRest
  <2>2. /\ Admin!Polling \in AdminPoll /\ Admin!Polling.got = 0 /\ Admin!Polling.at = "sent"
        /\ p.live
    BY <1>0, <2>1 DEF Admin!Polling, AdminPolls, AdminPoll
  <2>3. AdminPolls(v7', v1', v6')
    <3>1. v1 \in Nat /\ Admin!Polling.got <= v1 /\ ~ (Admin!Polling.got > 0)
      BY <1>0, <2>2
    <3>2. AdminPolls((v7 \ {p}) \cup {Admin!Polling}, v1, v6)
      BY <1>0, <2>2, <3>1, AdminReplaced
    <3> QED BY <2>1, <3>2, Zenon
  <2> QED BY <1>0, <1>shown, <2>1, <2>3, AdminNodesNext
<1>6. CASE \/ Admin!toggleBuilds \/ Admin!ActionDone \/ UNCHANGED Admin!vars
           \/ \E c \in v12 : Admin!Read(c) \/ Admin!Answered(c) \/ Admin!Fails(c)
  <2>1. v1' = v1 /\ v6' = v6 /\ v7' = v7
    BY <1>6, Zenon DEF Admin!toggleBuilds, Admin!ActionDone, Admin!vars, Admin!Read,
       Admin!Answered, Admin!Fails, Admin!listRest
  <2> QED BY <1>same, <1>shown, <2>1
<1> QED BY <1>1, <1>2, <1>3, <1>4, <1>5, <1>6, Zenon DEF Admin!Next

-------------------------------------------------------------------------------
(***************************************************************************)
(* Sharing: v1 is what each app is shared as, v2 the ticks of the          *)
(* dashboard's poll, v4 the invitations shown, v6 the answer on its way,   *)
(* v7 the invitations answered, v10 the action of the tab.                 *)
(***************************************************************************)
\* What the module assumes of its constants.
LEMMA SharingAssumed == SharingPage!SharingAssumption
BY PageAssumptions

\* Invitations that were answered are over, when the apps are shared as `share` says.
AnsweredOver(share, answered) ==
    /\ share \in [SharingApps -> SharingPage!Share] /\ answered \subseteq SharingApps
    /\ \A a \in answered : share[a].at # "invited"

\* No tick that counts has them, unless an answer is on its way.
TicksWithout(ticks, answering, answered) ==
    /\ ticks \subseteq SharingPage!Tick
    /\ answering = Null => \A t \in ticks, a \in answered : t.live => a \notin t.invites

\* The parts of the invariant.
LEMMA SharingHold ==
    SharingPage!AnsweredInv <=>
        /\ AnsweredOver(v1, v7) /\ TicksWithout(v2, v6, v7) /\ v4 \subseteq SharingApps
        /\ v6 # Null => v6 \in SharingPage!Answers
        /\ v10 # Null => v10 \in SharingPage!Actions
BY Zenon DEF SharingPage!AnsweredInv, AnsweredOver, TicksWithout

\* And the same a step later.
LEMMA SharingKept ==
    ASSUME AnsweredOver(v1', v7'), TicksWithout(v2', v6', v7'), v4' \subseteq SharingApps,
           v6' # Null => v6' \in SharingPage!Answers,
           v10' # Null => v10' \in SharingPage!Actions
    PROVE  SharingPage!AnsweredInv'
BY Zenon DEF SharingPage!AnsweredInv, AnsweredOver, TicksWithout

\* A tick is replaced by another.
LEMMA TickReplaced ==
    ASSUME NEW ticks, NEW answering, NEW answered, TicksWithout(ticks, answering, answered),
           NEW t \in ticks, NEW r \in SharingPage!Tick,
           answering = Null => \A a \in answered : a \notin r.invites
    PROVE  TicksWithout((ticks \ {t}) \cup {r}, answering, answered)
BY DEF TicksWithout

\* A new tick has nothing yet.
LEMMA TickIsNew == /\ SharingPage!NewTick \in SharingPage!Tick
                   /\ SharingPage!NewTick.invites = {} /\ SharingPage!NewTick.live
BY DEF SharingPage!NewTick, SharingPage!Tick

\* After a reload the only tick that counts is a new one.
LEMMA SharingReload ==
    ASSUME v2 \subseteq SharingPage!Tick, SharingPage!Reload, NEW answering, NEW answered
    PROVE  TicksWithout(v2', answering, answered)
<1>1. ASSUME NEW t \in v2' PROVE t \in SharingPage!Tick /\ (t.live => t.invites = {})
  <2>1. PICK u \in v2 \cup {SharingPage!NewTick} :
           t = [u EXCEPT !.live = FALSE] \/ t = SharingPage!NewTick
    BY <1>1 DEF SharingPage!Reload
  <2>2. u \in SharingPage!Tick
    BY <2>1, TickIsNew
  <2>3. CASE t = SharingPage!NewTick
    BY <2>3, TickIsNew
  <2>4. CASE t = [u EXCEPT !.live = FALSE]
    BY <2>2, <2>4 DEF SharingPage!Tick
  <2> QED BY <2>1, <2>3, <2>4
<1> QED BY <1>1 DEF TicksWithout

\* At the start nothing was answered.
LEMMA SharingInit == SharingPage!Init => SharingPage!AnsweredInv
<1> SUFFICES ASSUME SharingPage!Init PROVE SharingPage!AnsweredInv
  OBVIOUS
<1> USE SharingAssumed DEF SharingPage!SharingAssumption
<1>1. /\ v2 = {SharingPage!NewTick} /\ v4 = {} /\ v6 = Null /\ v7 = {} /\ v10 = Null
      /\ v1 \in [SharingApps -> {SharingPage!NoShare,
                                 [at |-> "invited", role |-> CHOOSE r \in SharingRoles : TRUE]}]
  BY Zenon DEF SharingPage!Init
<1>2. (CHOOSE r \in SharingRoles : TRUE) \in SharingRoles
  OBVIOUS
<1>3. [at |-> "invited", role |-> CHOOSE r \in SharingRoles : TRUE] \in SharingPage!Share
  BY <1>2 DEF SharingPage!Share
<1>4. SharingPage!NoShare \in SharingPage!Share
  BY DEF SharingPage!Share
<1>5. v1 \in [SharingApps -> SharingPage!Share]
  BY <1>1, <1>3, <1>4
<1> QED BY <1>1, <1>5, TickIsNew, SharingHold DEF AnsweredOver, TicksWithout

\* Each step of the dashboard and of the tab keeps it, and brings back no invitation that
\* was answered and has left the dashboard.
LEMMA SharingStep ==
    SharingPage!AnsweredInv /\ [SharingPage!Next]_(SharingPage!vars) =>
        SharingPage!AnsweredInv' /\ SharingPage!AnsweredStaysGone
<1> SUFFICES ASSUME SharingPage!AnsweredInv, [SharingPage!Next]_(SharingPage!vars)
             PROVE  SharingPage!AnsweredInv' /\ SharingPage!AnsweredStaysGone
  OBVIOUS
<1> USE DEF SharingPage!boardVars, SharingPage!tabVars
<1>0. /\ AnsweredOver(v1, v7) /\ TicksWithout(v2, v6, v7) /\ v4 \subseteq SharingApps
      /\ v6 # Null => v6 \in SharingPage!Answers
      /\ v10 # Null => v10 \in SharingPage!Actions
  BY SharingHold
<1>shown. v4' = v4 => SharingPage!AnsweredStaysGone
  BY DEF SharingPage!AnsweredStaysGone
\* A tick that is replaced while nothing else changes.
<1>tick. ASSUME NEW t \in v2, NEW r \in SharingPage!Tick, v2' = (v2 \ {t}) \cup {r},
                v6 = Null => \A a \in v7 : a \notin r.invites,
                v1' = v1, v4' \subseteq SharingApps, v6' = v6, v7' = v7, v10' = v10
         PROVE  SharingPage!AnsweredInv'
  <2>1. TicksWithout((v2 \ {t}) \cup {r}, v6, v7)
    BY <1>0, <1>tick, TickReplaced
  <2> QED BY <1>0, <1>tick, <2>1, SharingKept
\* And one that is dropped.
<1>drop. ASSUME NEW t \in v2, v2' = v2 \ {t},
                v1' = v1, v4' = v4, v6' = v6, v7' = v7, v10' = v10
         PROVE  SharingPage!AnsweredInv'
  <2>1. TicksWithout(v2 \ {t}, v6, v7)
    BY <1>0 DEF TicksWithout
  <2> QED BY <1>0, <1>drop, <2>1, SharingKept
\* Steps of the tab that leave the server and the dashboard alone.
<1>tab. ASSUME v1' = v1, v2' = v2, v4' = v4, v6' = v6, v7' = v7,
               v10' # Null => v10' \in SharingPage!Actions
        PROVE  SharingPage!AnsweredInv' /\ SharingPage!AnsweredStaysGone
  BY <1>0, <1>shown, <1>tab, SharingKept
<1>1. ASSUME NEW t \in v2, SharingPage!TickRead(t)
      PROVE  SharingPage!AnsweredInv' /\ SharingPage!AnsweredStaysGone
  <2> DEFINE r == [t EXCEPT !.at = "back", !.apps = SharingPage!Member,
                            !.invites = SharingPage!Invited]
  <2>1. /\ v2' = (v2 \ {t}) \cup {r} /\ v1' = v1 /\ v4' = v4 /\ v6' = v6 /\ v7' = v7
        /\ v10' = v10
    BY <1>1, Zenon DEF SharingPage!TickRead
  <2>2. r \in SharingPage!Tick /\ r.invites = SharingPage!Invited
    BY <1>0 DEF TicksWithout, SharingPage!Tick, SharingPage!Member, SharingPage!Invited
  <2>3. \A a \in v7 : a \notin r.invites
    BY <1>0, <2>2 DEF AnsweredOver, SharingPage!Invited
  <2> HIDE DEF r
  <2> QED BY <1>0, <1>shown, <1>tick, <2>1, <2>2, <2>3
<1>2. ASSUME NEW t \in v2, SharingPage!TickAnswered(t)
      PROVE  SharingPage!AnsweredInv' /\ SharingPage!AnsweredStaysGone
  <2>1. v1' = v1 /\ v6' = v6 /\ v7' = v7 /\ v10' = v10
    BY <1>2, Zenon DEF SharingPage!TickAnswered
  <2>2. CASE t.live
    <3> DEFINE r == [t EXCEPT !.at = "wait", !.apps = {}, !.invites = {}]
    <3>1. v2' = (v2 \ {t}) \cup {r} /\ v4' \in {t.invites, {}}
      BY <1>2, <2>2, Zenon DEF SharingPage!TickAnswered
    <3>2. r \in SharingPage!Tick /\ r.invites = {} /\ t.invites \subseteq SharingApps
      BY <1>0 DEF TicksWithout, SharingPage!Tick
    <3>3. v6 = Null => \A a \in v7 : a \notin v4'
      BY <1>0, <2>2, <3>1 DEF TicksWithout
    <3>4. SharingPage!AnsweredStaysGone
      BY <3>3, Zenon DEF SharingPage!AnsweredStaysGone
    <3>5. v4' \subseteq SharingApps /\ \A a \in v7 : a \notin r.invites
      BY <3>1, <3>2
    <3> HIDE DEF r
    <3> QED BY <1>tick, <2>1, <3>1, <3>2, <3>4, <3>5
  <2>3. CASE ~t.live
    <3>1. v2' = v2 \ {t} /\ v4' = v4
      BY <1>2, <2>3, Zenon DEF SharingPage!TickAnswered
    <3> QED BY <1>drop, <1>shown, <2>1, <3>1
  <2> QED BY <2>2, <2>3
<1>3. ASSUME NEW t \in v2, SharingPage!TickFails(t)
      PROVE  SharingPage!AnsweredInv' /\ SharingPage!AnsweredStaysGone
  <2>1. v1' = v1 /\ v4' = v4 /\ v6' = v6 /\ v7' = v7 /\ v10' = v10
    BY <1>3, Zenon DEF SharingPage!TickFails
  <2>2. CASE t.live
    <3> DEFINE r == [t EXCEPT !.at = "wait", !.apps = {}, !.invites = {}]
    <3>1. v2' = (v2 \ {t}) \cup {r}
      BY <1>3, <2>2, Zenon DEF SharingPage!TickFails
    <3>2. r \in SharingPage!Tick /\ r.invites = {}
      BY <1>0 DEF TicksWithout, SharingPage!Tick
    <3> HIDE DEF r
    <3> QED BY <1>0, <1>tick, <1>shown, <2>1, <3>1, <3>2
  <2>3. CASE ~t.live
    <3>1. v2' = v2 \ {t}
      BY <1>3, <2>3 DEF SharingPage!TickFails
    <3> QED BY <1>drop, <1>shown, <2>1, <3>1
  <2> QED BY <2>2, <2>3
<1>4. ASSUME NEW t \in v2, SharingPage!TickAgain(t)
      PROVE  SharingPage!AnsweredInv' /\ SharingPage!AnsweredStaysGone
  <2>1. /\ v2' = (v2 \ {t}) \cup {SharingPage!NewTick} /\ v1' = v1 /\ v4' = v4 /\ v6' = v6
        /\ v7' = v7 /\ v10' = v10
    BY <1>4, Zenon DEF SharingPage!TickAgain
  <2> QED BY <1>0, <1>tick, <1>shown, <2>1, TickIsNew
<1>5. ASSUME NEW a \in v4, NEW accept \in BOOLEAN, SharingPage!answer(a, accept)
      PROVE  SharingPage!AnsweredInv' /\ SharingPage!AnsweredStaysGone
  <2>1. /\ v6' = [app |-> a, accept |-> accept, at |-> "sent"]
        /\ v1' = v1 /\ v2' = v2 /\ v4' = v4 /\ v7' = v7 /\ v10' = v10
    BY <1>5, Zenon DEF SharingPage!answer
  <2>2. v6' \in SharingPage!Answers
    BY <1>0, <2>1 DEF SharingPage!Answers
  <2>3. v6' # Null
    BY <2>2, SharingAssumed DEF SharingPage!SharingAssumption
  <2>4. TicksWithout(v2, v6', v7)
    BY <1>0, <2>3 DEF TicksWithout
  <2> QED BY <1>0, <1>shown, <2>1, <2>2, <2>4, SharingKept
<1>6. CASE SharingPage!AnswerTaken
  <2>1. /\ v6 # Null /\ v6.at = "sent" /\ v6' = [v6 EXCEPT !.at = "back"]
        /\ v2' = v2 /\ v4' = v4 /\ v10' = v10
    BY <1>6, Zenon DEF SharingPage!AnswerTaken
  <2>2. v6' \in SharingPage!Answers /\ v6.app \in SharingApps
    BY <1>0, <2>1 DEF SharingPage!Answers
  <2>3. v6' # Null
    BY <2>2, SharingAssumed DEF SharingPage!SharingAssumption
  <2>4. TicksWithout(v2, v6', v7')
    BY <1>0, <2>3 DEF TicksWithout
  <2>5. AnsweredOver(v1', v7')
    <3>1. CASE v1[v6.app].at = "invited"
      <4> DEFINE new == IF v6.accept THEN [v1[v6.app] EXCEPT !.at = "member"]
                        ELSE SharingPage!NoShare
      <4>1. v1' = [v1 EXCEPT ![v6.app] = new] /\ v7' = v7 \cup {v6.app}
        BY <1>6, <3>1 DEF SharingPage!AnswerTaken
      <4>2. v1[v6.app] \in SharingPage!Share
        BY <1>0, <2>2 DEF AnsweredOver
      <4>3. new \in SharingPage!Share /\ new.at # "invited"
        BY <3>1, <4>2 DEF SharingPage!Share, SharingPage!NoShare
      <4> HIDE DEF new
      <4> QED BY <1>0, <2>2, <4>1, <4>3 DEF AnsweredOver
    <3>2. CASE v1[v6.app].at # "invited"
      <4>1. v1' = v1 /\ v7' = v7
        BY <1>6, <3>2, Zenon DEF SharingPage!AnswerTaken
      <4> QED BY <1>0, <4>1
    <3> QED BY <3>1, <3>2
  <2> QED BY <1>0, <1>shown, <2>1, <2>2, <2>4, <2>5, SharingKept
<1>7. CASE SharingPage!AnswerDone
  <2>1. /\ v6' = Null /\ SharingPage!Reload /\ v1' = v1 /\ v4' = v4 /\ v7' = v7 /\ v10' = v10
    BY <1>7, Zenon DEF SharingPage!AnswerDone
  <2>2. TicksWithout(v2', v6', v7')
    BY <1>0, <2>1, SharingReload DEF TicksWithout
  <2> QED BY <1>0, <1>shown, <2>1, <2>2, SharingKept
<1>8. ASSUME NEW l \in v9,
             \/ SharingPage!LoadRead(l) \/ SharingPage!LoadAnswered(l)
             \/ SharingPage!LoadFails(l)
      PROVE  SharingPage!AnsweredInv' /\ SharingPage!AnsweredStaysGone
  <2>1. /\ v1' = v1 /\ v2' = v2 /\ v4' = v4 /\ v6' = v6 /\ v7' = v7
        /\ v10' \in {v10, Null}
    BY <1>8 DEF SharingPage!LoadRead, SharingPage!LoadAnswered, SharingPage!LoadFails
  <2> QED BY <1>0, <1>tab, <2>1
<1>9. ASSUME NEW r \in SharingRoles, SharingPage!onInvite(r) \/ SharingPage!onRole(r)
      PROVE  SharingPage!AnsweredInv' /\ SharingPage!AnsweredStaysGone
  <2>1. /\ v1' = v1 /\ v2' = v2 /\ v4' = v4 /\ v6' = v6 /\ v7' = v7
        /\ \/ v10' = [what |-> "invite", role |-> r]
           \/ v10' = [what |-> "role", role |-> r]
    BY <1>9, Zenon DEF SharingPage!onInvite, SharingPage!onRole, SharingPage!run
  <2>2. v10' \in SharingPage!Actions
    BY <2>1 DEF SharingPage!Actions
  <2> QED BY <1>tab, <2>1, <2>2
<1>10. CASE SharingPage!onAction
  <2>1. /\ v1' = v1 /\ v2' = v2 /\ v4' = v4 /\ v6' = v6 /\ v7' = v7
        /\ v10' = [what |-> "remove", role |-> Null]
    BY <1>10, Zenon DEF SharingPage!onAction, SharingPage!run
  <2>2. v10' \in SharingPage!Actions
    BY <2>1 DEF SharingPage!Actions
  <2> QED BY <1>tab, <2>1, <2>2
<1>11. CASE SharingPage!Done
  <2> USE SharingAssumed DEF SharingPage!SharingAssumption
  <2> DEFINE made == SharingPage!Made(v10)
  <2>1. /\ v2' = v2 /\ v4' = v4 /\ v6' = v6 /\ v10' = v10 /\ v10 # Null
        /\ v1' = [v1 EXCEPT ![SharingOwn] = made] /\ SharingPage!Possible(v10)
        /\ v7' = IF v10.what = "invite" THEN v7 \ {SharingOwn} ELSE v7
    BY <1>11, Zenon DEF SharingPage!Done, SharingPage!busy
  <2>2. v10 \in SharingPage!Actions /\ v1[SharingOwn] \in SharingPage!Share
    BY <1>0, <2>1 DEF AnsweredOver
  <2>3. /\ made \in SharingPage!Share
        /\ v10.what # "invite" => made.at \in {v1[SharingOwn].at, "none"}
    <3>1. CASE v10.what = "invite"
      <4>1. made = [at |-> "invited", role |-> v10.role] /\ v10.role \in SharingRoles
        BY <2>2, <3>1 DEF SharingPage!Made, SharingPage!Actions
      <4> QED BY <3>1, <4>1 DEF SharingPage!Share
    <3>2. CASE v10.what = "role"
      <4>1. /\ made = [v1[SharingOwn] EXCEPT !.role = v10.role] /\ v10.role \in SharingRoles
            /\ v1[SharingOwn].at # "none"
        BY <2>1, <2>2, <3>2 DEF SharingPage!Made, SharingPage!Actions, SharingPage!Possible
      <4> QED BY <2>2, <4>1 DEF SharingPage!Share, SharingPage!NoShare
    <3>3. CASE v10.what \notin {"invite", "role"}
      <4>1. made = SharingPage!NoShare
        BY <3>3 DEF SharingPage!Made
      <4> QED BY <4>1 DEF SharingPage!Share, SharingPage!NoShare
    <3> QED BY <3>1, <3>2, <3>3
  <2> HIDE DEF made
  <2>4. AnsweredOver(v1', v7')
    <3>1. v1' \in [SharingApps -> SharingPage!Share] /\ v7' \subseteq v7
      BY <1>0, <2>1, <2>3 DEF AnsweredOver
    <3>2. ASSUME NEW a \in v7' PROVE v1'[a].at # "invited"
      <4>1. a \in v7 /\ a \in SharingApps /\ v1[a].at # "invited"
        BY <1>0, <3>1, <3>2 DEF AnsweredOver
      <4>2. CASE a = SharingOwn
        <5>1. v10.what # "invite"
          BY <2>1, <3>2, <4>2
        <5>2. v1'[a] = made
          BY <1>0, <2>1, <4>2 DEF AnsweredOver
        <5> QED BY <2>3, <4>1, <4>2, <5>1, <5>2
      <4>3. CASE a # SharingOwn
        <5>1. v1'[a] = v1[a]
          BY <1>0, <2>1, <4>1, <4>3 DEF AnsweredOver
        <5> QED BY <4>1, <5>1
      <4> QED BY <4>2, <4>3
    <3> QED BY <1>0, <3>1, <3>2 DEF AnsweredOver
  <2>5. TicksWithout(v2', v6', v7')
    <3>1. v7' \subseteq v7
      BY <2>1
    <3> QED BY <1>0, <2>1, <3>1 DEF TicksWithout
  <2> QED BY <1>0, <1>shown, <2>1, <2>4, <2>5, SharingKept
<1>12. CASE SharingPage!Refused
  <2>1. v1' = v1 /\ v2' = v2 /\ v4' = v4 /\ v6' = v6 /\ v7' = v7 /\ v10' = Null
    BY <1>12, Zenon DEF SharingPage!Refused
  <2> QED BY <1>tab, <2>1
<1>13. CASE UNCHANGED SharingPage!vars
  <2>1. v1' = v1 /\ v2' = v2 /\ v4' = v4 /\ v6' = v6 /\ v7' = v7 /\ v10' = v10
    BY <1>13, Zenon DEF SharingPage!vars
  <2> QED BY <1>0, <1>tab, <2>1
<1> QED BY <1>1, <1>2, <1>3, <1>4, <1>5, <1>6, <1>7, <1>8, <1>9, <1>10, <1>11, <1>12,
           <1>13, Zenon DEF SharingPage!Next

-------------------------------------------------------------------------------
(***************************************************************************)
(* DeployProgress: v1 are the builds of the server, v3 the build shown, v6 *)
(* the request of the list, v7 the poll of the log, v8 what its effect was *)
(* set up with, v9 the mark, v10 the highest stage the build was shown in. *)
(***************************************************************************)
\* What the module assumes of its constants.
LEMMA ProgressAssumed == Progress!ProgressAssumption
BY PageAssumptions

\* The rank of a row or of what was read of it is a number, of both the same.
LEMMA ProgressRanks ==
    /\ \A b \in Progress!Build : Progress!Rank(b) \in Nat
    /\ \A r \in Progress!Row : Progress!Rank(r) \in Nat
    /\ \A s \in Progress!Statuses : Progress!stageOf(s) \in 0 .. 4
<1>1. \A s \in Progress!Statuses : Progress!stageOf(s) \in 0 .. 4
  BY DEF Progress!stageOf, Progress!Statuses
<1>2. ASSUME NEW b, b.status \in Progress!Statuses PROVE Progress!Rank(b) \in Nat
  <2>1. Progress!stageOf(b.status) \in 0 .. 4
    BY <1>1, <1>2
  <2> QED BY <2>1 DEF Progress!Rank
<1>3. \A b \in Progress!Build : b.status \in Progress!Statuses
  BY DEF Progress!Build
<1>4. \A r \in Progress!Row : r.status \in Progress!Statuses
  BY DEF Progress!Row
<1> QED BY <1>1, <1>2, <1>3, <1>4

\* The builds of t are those of s, each as far or farther, and perhaps more.
ProgressOn(s, t) ==
    /\ Len(s) <= Len(t)
    /\ \A n \in DOMAIN s : Progress!Rank(s[n]) <= Progress!Rank(t[n])

\* What has been read of a build that is no farther than the build.
ProgressRead(b, s) ==
    /\ b \in Progress!Build /\ b.id \in DOMAIN s
    /\ Progress!Rank(b) <= Progress!Rank(s[b.id])

\* It stays so when the builds go on.
LEMMA ProgressReadOn ==
    ASSUME NEW s \in Seq(Progress!Row), NEW t \in Seq(Progress!Row), ProgressOn(s, t),
           NEW b, ProgressRead(b, s)
    PROVE  ProgressRead(b, t)
<1>1. b.id \in DOMAIN t /\ s[b.id] \in Progress!Row /\ t[b.id] \in Progress!Row
  BY DEF ProgressOn, ProgressRead
<1>2. /\ Progress!Rank(b) \in Nat /\ Progress!Rank(s[b.id]) \in Nat
      /\ Progress!Rank(t[b.id]) \in Nat
  BY <1>1, ProgressRanks DEF ProgressRead
<1>3. /\ Progress!Rank(b) <= Progress!Rank(s[b.id])
      /\ Progress!Rank(s[b.id]) <= Progress!Rank(t[b.id])
  BY DEF ProgressOn, ProgressRead
<1>4. Progress!Rank(b) <= Progress!Rank(t[b.id])
  BY <1>2, <1>3
<1> QED BY <1>1, <1>4 DEF ProgressRead

\* A build that is replaced by one as far or farther.
LEMMA ProgressRowOn ==
    ASSUME NEW s \in Seq(Progress!Row), NEW n \in DOMAIN s, NEW r \in Progress!Row,
           Progress!Rank(s[n]) <= Progress!Rank(r)
    PROVE  /\ [s EXCEPT ![n] = r] \in Seq(Progress!Row)
           /\ Len([s EXCEPT ![n] = r]) = Len(s)
           /\ ProgressOn(s, [s EXCEPT ![n] = r])
<1> DEFINE t == [s EXCEPT ![n] = r]
<1>1. t \in Seq(Progress!Row) /\ Len(t) = Len(s)
  OBVIOUS
<1>2. \A m \in DOMAIN s : t[m] = IF m = n THEN r ELSE s[m]
  OBVIOUS
<1>3. \A m \in DOMAIN s : Progress!Rank(s[m]) \in Nat
  BY ProgressRanks
<1> HIDE DEF t
<1>4. \A m \in DOMAIN s : Progress!Rank(s[m]) <= Progress!Rank(t[m])
  BY <1>2, <1>3
<1>5. ProgressOn(s, t)
  BY <1>1, <1>4 DEF ProgressOn
<1> QED BY <1>1, <1>5 DEF t

\* A status that may come next is farther.
LEMMA ProgressAfter ==
    ASSUME NEW r \in Progress!Row, NEW s \in Progress!After(r.status),
           NEW ai \in {Null, "pending"}
    PROVE  /\ [r EXCEPT !.status = s, !.ai = ai] \in Progress!Row
           /\ Progress!Rank(r) <= Progress!Rank([r EXCEPT !.status = s, !.ai = ai])
<1> DEFINE t == [r EXCEPT !.status = s, !.ai = ai]
<1>1. r.status \in Progress!Statuses
  BY DEF Progress!Row
<1>2. /\ s \in Progress!Statuses
      /\ \/ r.status = "queued" /\ s \in {"building", "failed", "cancelled"}
         \/ r.status = "building" /\ s \in {"deploying", "failed", "cancelled"}
         \/ r.status = "deploying" /\ s \in {"running", "failed"}
  BY <1>1, ProgressAssumed
  DEF Progress!ProgressAssumption, Progress!After, Progress!Statuses
<1>3. t \in Progress!Row /\ t.status = s
  BY <1>2 DEF Progress!Row
<1> HIDE DEF t
<1>4. Progress!Rank(r) <= Progress!Rank(t)
  BY <1>2, <1>3 DEF Progress!Rank, Progress!stageOf
<1> QED BY <1>3, <1>4 DEF t

\* What the server does takes its builds farther.
LEMMA ProgressServer ==
    ASSUME v1 \in Seq(Progress!Row), Len(v1) <= ProgressMaxBuilds,
           \/ \E n \in DOMAIN v1 : Progress!Step(n) \/ Progress!Diagnosed(n)
           \/ \E k \in Progress!Kinds : Progress!NewBuild(k)
    PROVE  /\ v1' \in Seq(Progress!Row) /\ Len(v1') <= ProgressMaxBuilds
           /\ ProgressOn(v1, v1')
<1> USE ProgressAssumed DEF Progress!ProgressAssumption
<1>1. ASSUME NEW n \in DOMAIN v1, Progress!Step(n)
      PROVE  /\ v1' \in Seq(Progress!Row) /\ Len(v1') <= ProgressMaxBuilds
             /\ ProgressOn(v1, v1')
  <2>1. PICK s \in Progress!After(v1[n].status) :
          v1' = [v1 EXCEPT ![n].status = s,
                           ![n].ai = IF s = "failed" THEN "pending" ELSE Null]
    BY <1>1 DEF Progress!Step
  <2>2. PICK ai \in {Null, "pending"} : ai = IF s = "failed" THEN "pending" ELSE Null
    OBVIOUS
  <2> DEFINE r == [v1[n] EXCEPT !.status = s, !.ai = ai]
  <2>3. v1' = [v1 EXCEPT ![n] = r]
    BY <2>1, <2>2
  <2>4. v1[n] \in Progress!Row
    OBVIOUS
  <2>5. r \in Progress!Row /\ Progress!Rank(v1[n]) <= Progress!Rank(r)
    BY <2>4, ProgressAfter
  <2> HIDE DEF r
  <2> QED BY <2>3, <2>5, ProgressRowOn
<1>2. ASSUME NEW n \in DOMAIN v1, Progress!Diagnosed(n)
      PROVE  /\ v1' \in Seq(Progress!Row) /\ Len(v1') <= ProgressMaxBuilds
             /\ ProgressOn(v1, v1')
  <2> DEFINE r == [v1[n] EXCEPT !.ai = "done"]
  <2>1. v1' = [v1 EXCEPT ![n] = r] /\ v1[n].ai = "pending"
    BY <1>2 DEF Progress!Diagnosed
  <2>2. v1[n] \in Progress!Row
    OBVIOUS
  <2>3. r \in Progress!Row /\ r.status = v1[n].status /\ r.ai = "done"
    BY <2>2 DEF Progress!Row
  <2> HIDE DEF r
  <2>4. Progress!stageOf(r.status) \in 0 .. 4
    BY <2>3, ProgressRanks DEF Progress!Row
  <2>5. Progress!Rank(v1[n]) <= Progress!Rank(r)
    BY <2>1, <2>3, <2>4 DEF Progress!Rank
  <2> QED BY <2>1, <2>3, <2>5, ProgressRowOn
<1>3. ASSUME NEW k \in Progress!Kinds, Progress!NewBuild(k)
      PROVE  /\ v1' \in Seq(Progress!Row) /\ Len(v1') <= ProgressMaxBuilds
             /\ ProgressOn(v1, v1')
  <2>1. PICK r \in Progress!Row : v1' = Append(v1, r)
    <3>1. [kind |-> k, status |-> IF k = "build" THEN "queued" ELSE "running", ai |-> Null]
            \in Progress!Row
      BY DEF Progress!Row, Progress!Statuses
    <3> QED BY <1>3, <3>1, Zenon DEF Progress!NewBuild
  <2>2. Len(v1) < ProgressMaxBuilds
    BY <1>3, Zenon DEF Progress!NewBuild
  <2>3. /\ v1' \in Seq(Progress!Row) /\ Len(v1') = Len(v1) + 1
        /\ \A n \in DOMAIN v1 : v1'[n] = v1[n]
    BY <2>1
  <2>4. \A n \in DOMAIN v1 : Progress!Rank(v1[n]) \in Nat
    BY ProgressRanks
  <2> QED BY <2>2, <2>3, <2>4 DEF ProgressOn
<1> QED BY <1>1, <1>2, <1>3

\* A build as it is read at this moment.
LEMMA ProgressAt ==
    ASSUME v1 \in Seq(Progress!Row), Len(v1) <= ProgressMaxBuilds, NEW n \in DOMAIN v1
    PROVE  /\ ProgressRead(Progress!At(n), v1) /\ Progress!At(n).id = n
           /\ Progress!Rank(Progress!At(n)) = Progress!Rank(v1[n])
<1> USE ProgressAssumed DEF Progress!ProgressAssumption
<1>1. v1[n] \in Progress!Row /\ n \in 1 .. ProgressMaxBuilds
  OBVIOUS
<1>2. /\ Progress!At(n) \in Progress!Build /\ Progress!At(n).id = n
      /\ Progress!At(n).status = v1[n].status /\ Progress!At(n).ai = v1[n].ai
  BY <1>1 DEF Progress!At, Progress!Build, Progress!Row
<1>3. Progress!Rank(Progress!At(n)) = Progress!Rank(v1[n])
  BY <1>2 DEF Progress!Rank
<1>4. Progress!Rank(v1[n]) \in Nat
  BY <1>1, ProgressRanks
<1> QED BY <1>2, <1>3, <1>4 DEF ProgressRead

\* And the one the list picks.
LEMMA ProgressTarget ==
    ASSUME v1 \in Seq(Progress!Row), Len(v1) <= ProgressMaxBuilds
    PROVE  Progress!Target # Null => ProgressRead(Progress!Target, v1)
<1>1. CASE v2 # Null
  <2>1. Progress!Target = IF v2 \in DOMAIN v1 THEN Progress!At(v2) ELSE Null
    BY <1>1, Zenon DEF Progress!Target
  <2> QED BY <2>1, ProgressAt
<1>2. CASE v2 = Null
  <2> DEFINE real == {n \in DOMAIN v1 : v1[n].kind # "env_change"}
             last == CHOOSE n \in real : \A m \in real : m <= n
  <2>1. Progress!Target = IF real = {} THEN Null ELSE Progress!At(last)
    BY <1>2, Zenon DEF Progress!Target
  <2>2. CASE real # {}
    <3>1. real \subseteq 1 .. Len(v1) /\ Len(v1) \in Nat
      OBVIOUS
    <3> HIDE DEF real
    <3>2. \E n \in real : \A m \in real : m <= n
      BY <2>2, <3>1, GreatestExists
    <3>3. last \in real
      BY <3>2
    <3> HIDE DEF last
    <3>4. last \in DOMAIN v1
      BY <3>3 DEF real
    <3> QED BY <2>1, <2>2, <3>4, ProgressAt
  <2> QED BY <2>1, <2>2
<1> QED BY <1>1, <1>2

-------------------------------------------------------------------------------
\* What is said of the page when the server has `s`.
ProgressHold(s, build, list, log, deps) ==
    /\ build # Null => ProgressRead(build, s)
    /\ list.at = "back" /\ list.got # Null => ProgressRead(list.got, s)
    /\ log.at # "ended" => build # Null
    /\ log.at = "back" => /\ ProgressRead(log.got, s) /\ log.got.id = build.id
                          /\ Progress!Rank(build) <= Progress!Rank(log.got)
    /\ deps[1] = IF build = Null THEN Null ELSE build.id

\* The parts of the invariant.
LEMMA ProgressParts ==
    Progress!ReadInv <=> /\ v1 \in Seq(Progress!Row) /\ Len(v1) <= ProgressMaxBuilds
                         /\ ProgressHold(v1, v3, v6, v7, v8)
BY Zenon DEF Progress!ReadInv, Progress!Read, ProgressHold, ProgressRead

\* And the same a step later.
LEMMA ProgressPartsNext ==
    ASSUME v1' \in Seq(Progress!Row), Len(v1') <= ProgressMaxBuilds,
           ProgressHold(v1', v3', v6', v7', v8')
    PROVE  Progress!ReadInv'
BY Zenon DEF Progress!ReadInv, Progress!Read, ProgressHold, ProgressRead

\* Another request of the list, or another poll of the log.
LEMMA ProgressAsked ==
    ASSUME NEW s, NEW build, NEW list, NEW log, NEW deps, NEW list2, NEW log2,
           ProgressHold(s, build, list, log, deps),
           list2 = list \/ (list2.at = "back" /\ list2.got # Null => ProgressRead(list2.got, s)),
           \/ log2 = log
           \/ /\ log2.at # "ended" => build # Null
              /\ log2.at = "back" => /\ ProgressRead(log2.got, s) /\ log2.got.id = build.id
                                     /\ Progress!Rank(build) <= Progress!Rank(log2.got)
    PROVE  ProgressHold(s, build, list2, log2, deps)
BY Zenon DEF ProgressHold

\* The states of a request that have no answer.
LEMMA ProgressWaits ==
    /\ Progress!Wait.at = "wait" /\ Progress!Sent.at = "sent" /\ Progress!Ended.at = "ended"
BY DEF Progress!Wait, Progress!Sent, Progress!Ended

\* What the effect of the log depends on names the build first.
ProgressDeps(b) ==
    <<IF b = Null THEN Null ELSE b.id, Progress!live(b), Progress!isDiagnosing(b)>>

\* The first of the three is the id of the build, or nothing where there is none.
LEMMA ProgressDepsOf ==
    ASSUME NEW b
    PROVE  ProgressDeps(b)[1] = IF b = Null THEN Null ELSE b.id
<1>1. ASSUME NEW x, NEW y, NEW z PROVE <<x, y, z>>[1] = x
  OBVIOUS
<1> QED BY <1>1, Zenon DEF ProgressDeps

\* The mark and the highest stage, when a build is shown that is another one, or as far
\* or farther.
LEMMA ProgressStages ==
    ASSUME Progress!StageInv, v3 # Null => v3 \in Progress!Build,
           NEW b, b # Null => b \in Progress!Build, NEW then, Progress!setBuild(b, then),
           v3 # Null /\ b # Null /\ b.id = v3.id => Progress!Rank(v3) <= Progress!Rank(b)
    PROVE  Progress!StageInv'
<1> USE ProgressAssumed DEF Progress!ProgressAssumption
<1> DEFINE id == IF b = Null THEN Null ELSE b.id
           stage == IF b = Null THEN 0 ELSE Progress!stageOf(b.status)
           old == IF v3 = Null THEN Null ELSE v3.id
           oldStage == IF v3 = Null THEN 0 ELSE Progress!stageOf(v3.status)
           Larger(v) == IF stage > v /\ stage # oldStage THEN stage ELSE v
<1>1. /\ v3' = b
      /\ v9' = IF id # old THEN 0 ELSE Larger(v9)
      /\ v10' = IF id # old THEN stage ELSE IF stage > v10 THEN stage ELSE v10
  BY Zenon DEF Progress!setBuild
<1>2. /\ v10 \in 0 .. 4 /\ v9 \in {0, v10} /\ oldStage \in {0, v10}
  BY DEF Progress!StageInv
<1>3. stage \in 0 .. 4 /\ oldStage \in 0 .. 4
  BY ProgressRanks DEF Progress!Build
<1>4. CASE id # old
  <2>1. v9' = 0 /\ v10' = stage
    BY <1>1, <1>4
  <2>2. b # Null => Progress!stageOf(b.status) = stage
    OBVIOUS
  <2> HIDE DEF stage
  <2> QED BY <1>1, <1>3, <2>1, <2>2 DEF Progress!StageInv
<1>5. CASE id = old
  <2>1. (b = Null <=> v3 = Null) /\ (b # Null => b.id = v3.id)
    BY <1>5 DEF Progress!Build
  <2>2. stage > v10 \/ stage \in {0, v10}
    <3>1. CASE b = Null
      BY <3>1
    <3>2. CASE b # Null
      <4>1. /\ Progress!Rank(v3) <= Progress!Rank(b)
            /\ b.status \in Progress!Statuses /\ v3.status \in Progress!Statuses
        BY <2>1, <3>2 DEF Progress!Build
      <4>2. Progress!Rank(b) <= 2 * stage + 1 \/ stage = 0
        BY <3>2, <4>1 DEF Progress!Rank, Progress!Statuses, Progress!stageOf
      <4>3. /\ oldStage = 0 => Progress!Rank(v3) >= 8
            /\ Progress!Rank(v3) >= 2 * oldStage
        BY <2>1, <3>2, <4>1 DEF Progress!Rank, Progress!Statuses, Progress!stageOf
      <4>4. Progress!Rank(b) \in Nat /\ Progress!Rank(v3) \in Nat
        BY <2>1, <3>2, ProgressRanks
      <4> HIDE DEF stage, oldStage
      <4> QED BY <1>2, <1>3, <4>1, <4>2, <4>3, <4>4
    <3> QED BY <3>1, <3>2
  <2>3. v9' = Larger(v9) /\ v10' = IF stage > v10 THEN stage ELSE v10
    BY <1>1, <1>5
  <2>4. b # Null => Progress!stageOf(b.status) = stage
    OBVIOUS
  <2> HIDE DEF stage, oldStage
  <2> QED BY <1>1, <1>2, <1>3, <2>2, <2>3, <2>4 DEF Progress!StageInv
<1> QED BY <1>4, <1>5

\* What setBuild does to the poll of the log.
LEMMA ProgressSetBuild ==
    ASSUME NEW b, NEW then, Progress!setBuild(b, then)
    PROVE  /\ v3' = b /\ v8' = ProgressDeps(b)
           /\ \/ ProgressDeps(b) = v8 /\ v7' = then
              \/ b # Null /\ v7' = Progress!Wait
              \/ v7' = Progress!Ended
<1> DEFINE d == ProgressDeps(b)
<1>1. /\ v3' = b /\ v8' = d
      /\ v7' = IF d = v8 THEN then
               ELSE IF b # Null /\ (Progress!live(b) \/ Progress!isDiagnosing(b))
                    THEN Progress!Wait ELSE Progress!Ended
  BY Zenon DEF Progress!setBuild, ProgressDeps
<1> HIDE DEF d
<1>2. CASE d = v8
  BY <1>1, <1>2, Zenon DEF d
<1>3. CASE d # v8
  BY <1>1, <1>3, Zenon DEF d
<1> QED BY <1>2, <1>3

\* At the start nothing was read.
LEMMA ProgressInit == Progress!Init => Progress!ProgressInv
<1> SUFFICES ASSUME Progress!Init PROVE Progress!ProgressInv
  OBVIOUS
<1> USE ProgressAssumed DEF Progress!ProgressAssumption
<1>1. /\ v3 = Null /\ v6 = Progress!Sent /\ v7 = Progress!Ended /\ v8 = <<Null, FALSE, FALSE>>
      /\ v9 = 0 /\ v10 = 0
  BY Zenon DEF Progress!Init
<1>2. v1 \in Seq(Progress!Row) /\ Len(v1) <= ProgressMaxBuilds
  <2>1. PICK s \in {"queued", "running"} : v1 = <<[kind |-> "build", status |-> s, ai |-> Null]>>
    BY Zenon DEF Progress!Init
  <2>2. [kind |-> "build", status |-> s, ai |-> Null] \in Progress!Row
    BY DEF Progress!Row, Progress!Kinds, Progress!Statuses
  <2> QED BY <2>1, <2>2
<1>3. v8[1] = Null
  BY <1>1
<1>4. ProgressHold(v1, v3, v6, v7, v8)
  BY <1>1, <1>3, ProgressWaits DEF ProgressHold
<1>5. Progress!StageInv
  BY <1>1 DEF Progress!StageInv
<1> QED BY <1>2, <1>4, <1>5, ProgressParts DEF Progress!ProgressInv

\* Each step of the page and of the server keeps the invariant, and what is shown of a
\* build is not replaced by something older.
LEMMA ProgressStep ==
    Progress!ProgressInv /\ [Progress!Next]_(Progress!vars) =>
        Progress!ProgressInv' /\ Progress!LogsGoForward
<1> SUFFICES ASSUME Progress!ProgressInv, [Progress!Next]_(Progress!vars)
             PROVE  Progress!ProgressInv' /\ Progress!LogsGoForward
  OBVIOUS
<1> USE ProgressAssumed DEF Progress!ProgressAssumption
<1>0. /\ v1 \in Seq(Progress!Row) /\ Len(v1) <= ProgressMaxBuilds
      /\ ProgressHold(v1, v3, v6, v7, v8) /\ Progress!StageInv
  BY ProgressParts DEF Progress!ProgressInv
<1>built. v3 # Null => v3 \in Progress!Build /\ Progress!Rank(v3) \in Nat
  BY <1>0, ProgressRanks DEF ProgressHold, ProgressRead
<1>same. ASSUME v3' = v3, v8' = v8, v9' = v9, v10' = v10,
                v1' \in Seq(Progress!Row), Len(v1') <= ProgressMaxBuilds,
                ProgressHold(v1', v3, v6', v7', v8)
         PROVE  Progress!ProgressInv' /\ Progress!LogsGoForward
  <2>1. Progress!LogsGoForward
    BY <1>built, <1>same DEF Progress!LogsGoForward
  <2>2. Progress!StageInv'
    BY <1>0, <1>same DEF Progress!StageInv
  <2>3. Progress!ReadInv'
    BY <1>same, ProgressPartsNext
  <2> QED BY <2>1, <2>2, <2>3, Zenon DEF Progress!ProgressInv
<1>1. CASE \/ \E n \in DOMAIN v1 : Progress!Step(n) \/ Progress!Diagnosed(n)
           \/ \E k \in Progress!Kinds : Progress!NewBuild(k)
  <2>1. /\ v3' = v3 /\ v6' = v6 /\ v7' = v7 /\ v8' = v8 /\ v9' = v9 /\ v10' = v10
    BY <1>1, Zenon DEF Progress!Step, Progress!Diagnosed, Progress!NewBuild,
       Progress!pageVars
  <2>2. /\ v1' \in Seq(Progress!Row) /\ Len(v1') <= ProgressMaxBuilds
        /\ ProgressOn(v1, v1')
    BY <1>0, <1>1, ProgressServer
  <2>3. \A b : ProgressRead(b, v1) => ProgressRead(b, v1')
    BY <1>0, <2>2, ProgressReadOn
  <2>4. ProgressHold(v1', v3, v6, v7, v8)
    BY <1>0, <2>3, Zenon DEF ProgressHold
  <2> QED BY <1>same, <2>1, <2>2, <2>4
<1>2. CASE \/ Progress!CapPasses \/ UNCHANGED Progress!vars
  <2>1. /\ v1' = v1 /\ v3' = v3 /\ v6' = v6 /\ v7' = v7 /\ v8' = v8 /\ v9' = v9
        /\ v10' = v10
    BY <1>2, Zenon DEF Progress!CapPasses, Progress!vars, Progress!pageVars
  <2> QED BY <1>0, <1>same, <2>1
<1>3. CASE Progress!ListRead \/ Progress!ListFails \/ Progress!ListAgain
  <2>1. /\ v1' = v1 /\ v3' = v3 /\ v7' = v7 /\ v8' = v8 /\ v9' = v9 /\ v10' = v10
        /\ \/ v6' = [at |-> "back", got |-> Progress!Target]
           \/ v6' \in {Progress!Wait, Progress!Ended, Progress!Sent}
    BY <1>3, Zenon DEF Progress!ListRead, Progress!ListFails, Progress!ListAgain,
       Progress!pageVars
  <2>2. v6'.at = "back" /\ v6'.got # Null => ProgressRead(v6'.got, v1)
    <3>1. CASE v6' = [at |-> "back", got |-> Progress!Target]
      <4>1. v6'.got = Progress!Target
        BY <3>1
      <4> QED BY <1>0, <4>1, ProgressTarget
    <3>2. CASE v6' \in {Progress!Wait, Progress!Ended, Progress!Sent}
      BY <3>2, ProgressWaits
    <3> QED BY <2>1, <3>1, <3>2
  <2>3. ProgressHold(v1, v3, v6', v7, v8)
    BY <1>0, <2>2, ProgressAsked, Zenon
  <2> QED BY <1>0, <1>same, <2>1, <2>3
<1>4. CASE Progress!LogAgain \/ Progress!LogRead \/ Progress!LogFails
  <2>1. /\ v1' = v1 /\ v3' = v3 /\ v6' = v6 /\ v8' = v8 /\ v9' = v9 /\ v10' = v10
        /\ \/ v7.at \in {"wait", "sent", "back"}
              /\ v7' \in {Progress!Wait, Progress!Ended, Progress!Sent}
           \/ v7.at = "sent" /\ v7' = [at |-> "back", got |-> Progress!At(v3.id)]
    BY <1>4, Zenon DEF Progress!LogAgain, Progress!LogRead, Progress!LogFails,
       Progress!logRest
  <2>2. v7.at # "ended" /\ v3 # Null /\ ProgressRead(v3, v1)
    BY <1>0, <2>1 DEF ProgressHold
  <2>3. v7'.at = "back" => /\ ProgressRead(v7'.got, v1) /\ v7'.got.id = v3.id
                           /\ Progress!Rank(v3) <= Progress!Rank(v7'.got)
    <3>1. CASE v7' = [at |-> "back", got |-> Progress!At(v3.id)]
      <4>1. v7'.got = Progress!At(v3.id)
        BY <3>1
      <4>2. /\ ProgressRead(Progress!At(v3.id), v1) /\ Progress!At(v3.id).id = v3.id
            /\ Progress!Rank(v3) <= Progress!Rank(Progress!At(v3.id))
        BY <1>0, <2>2, ProgressAt DEF ProgressRead
      <4> QED BY <4>1, <4>2
    <3>2. CASE v7' \in {Progress!Wait, Progress!Ended, Progress!Sent}
      BY <3>2, ProgressWaits
    <3> QED BY <2>1, <3>1, <3>2
  <2>4. ProgressHold(v1, v3, v6, v7', v8)
    BY <1>0, <2>2, <2>3, ProgressAsked, Zenon
  <2> QED BY <1>0, <1>same, <2>1, <2>4
\* A build that is set to be shown: what is common to the answers of both polls.
<1>set. ASSUME NEW b, NEW then, Progress!setBuild(b, then), v1' = v1,
               v6' = v6 \/ v6' = Progress!Wait,
               b # Null => ProgressRead(b, v1),
               v3 # Null /\ b # Null /\ b.id = v3.id => Progress!Rank(v3) <= Progress!Rank(b),
               ProgressDeps(b) = v8 => \/ then = Progress!Wait /\ b # Null
                                       \/ then = Progress!Ended
                                       \/ then = v7 /\ b = v3
        PROVE  Progress!ProgressInv' /\ Progress!LogsGoForward
  <2>1. /\ v3' = b /\ v8' = ProgressDeps(b)
        /\ \/ b # Null /\ v7' = Progress!Wait
           \/ v7' = Progress!Ended
           \/ v7' = v7 /\ b = v3
    BY <1>set, ProgressSetBuild
  <2>2. Progress!StageInv'
    <3>1. b # Null => b \in Progress!Build
      BY <1>set DEF ProgressRead
    <3> QED BY <1>0, <1>built, <1>set, <3>1, ProgressStages
  <2>3. Progress!LogsGoForward
    <3>1. b # Null => Progress!Rank(b) \in Nat
      BY <1>set, ProgressRanks DEF ProgressRead
    <3> QED BY <1>built, <1>set, <2>1, <3>1 DEF Progress!LogsGoForward
  <2>4. ProgressHold(v1, v3', v6', v7', v8')
    <3>1. v8'[1] = IF b = Null THEN Null ELSE b.id
      BY <2>1, ProgressDepsOf
    <3>2. v6'.at = "back" /\ v6'.got # Null => ProgressRead(v6'.got, v1)
      BY <1>0, <1>set, ProgressWaits DEF ProgressHold
    <3>3. v7'.at # "ended" => b # Null
      BY <1>0, <2>1, ProgressWaits DEF ProgressHold
    <3>4. v7'.at = "back" => /\ ProgressRead(v7'.got, v1) /\ v7'.got.id = b.id
                             /\ Progress!Rank(b) <= Progress!Rank(v7'.got)
      BY <1>0, <2>1, ProgressWaits DEF ProgressHold
    <3> QED BY <1>set, <2>1, <3>1, <3>2, <3>3, <3>4, Zenon DEF ProgressHold
  <2> QED BY <1>0, <1>set, <2>2, <2>3, <2>4, ProgressPartsNext, Zenon
          DEF Progress!ProgressInv
<1>5. CASE Progress!ListAnswered
  <2> DEFINE b == Progress!Chosen(v6.got)
  <2>1. v6.at = "back" /\ v6' = Progress!Wait /\ Progress!setBuild(b, v7) /\ v1' = v1
    BY <1>5, Zenon DEF Progress!ListAnswered
  <2>2. \/ b = v3 /\ v3 # Null
        \/ b = v6.got /\ ~ (v3 # Null /\ b # Null /\ b.id = v3.id)
    BY DEF Progress!Chosen
  <2> HIDE DEF b
  <2>3. b # Null => ProgressRead(b, v1)
    BY <1>0, <2>1, <2>2 DEF ProgressHold
  <2>4. v3 # Null /\ b # Null /\ b.id = v3.id => Progress!Rank(v3) <= Progress!Rank(b)
    BY <1>built, <2>2
  <2>5. ASSUME ProgressDeps(b) = v8 PROVE b = v3
    <3>1. (IF b = Null THEN Null ELSE b.id) = IF v3 = Null THEN Null ELSE v3.id
      BY <1>0, <2>5, ProgressDepsOf, Zenon DEF ProgressHold
    <3>2. (b # Null => b.id \in Nat) /\ (v3 # Null => v3.id \in Nat)
      BY <1>built, <2>3 DEF ProgressRead, Progress!Build
    <3> QED BY <2>2, <3>1, <3>2
  <2> QED BY <1>set, <2>1, <2>3, <2>4, <2>5
<1>6. CASE Progress!LogAnswered
  <2> DEFINE then == IF Progress!live(v7.got) \/ Progress!isDiagnosing(v7.got)
                     THEN Progress!Wait ELSE Progress!Ended
  <2>1. v7.at = "back" /\ Progress!setBuild(v7.got, then) /\ v1' = v1 /\ v6' = v6
    BY <1>6, Zenon DEF Progress!LogAnswered
  <2>2. /\ ProgressRead(v7.got, v1) /\ v7.got.id = v3.id
        /\ Progress!Rank(v3) <= Progress!Rank(v7.got)
    BY <1>0, <2>1 DEF ProgressHold
  <2>3. v7.got # Null
    BY <2>2 DEF ProgressRead
  <2>4. then \in {Progress!Wait, Progress!Ended}
    BY Zenon
  <2> HIDE DEF then
  <2> QED BY <1>set, <2>1, <2>2, <2>3, <2>4
<1> QED BY <1>1, <1>2, <1>3, <1>4, <1>5, <1>6, Zenon DEF Progress!Next

\* And with it a failure is marked at the stage this build was last seen to reach.
LEMMA ProgressMarked == Progress!ProgressInv => Progress!MarkIsTrue
BY DEF Progress!ProgressInv, Progress!StageInv, Progress!MarkIsTrue, Progress!failedStage

-------------------------------------------------------------------------------
(***************************************************************************)
(* RepoCheck: v1 is the repository in the form, v4 the branches to choose  *)
(* from, v6 the pauses before a question, v8 whether that of the branches  *)
(* is out.                                                                 *)
(***************************************************************************)
\* At first there are no branches to choose from.
LEMMA CheckInit == Check!Init => Check!BranchesOfInput
<1>1. Check!Init => v4 = Check!NoBranches
  BY Zenon DEF Check!Init
<1>2. Check!NoBranches.list = "none"
  BY DEF Check!NoBranches
<1> QED BY <1>1, <1>2 DEF Check!BranchesOfInput, Check!BranchField

\* Each change of the repository takes the branches away or asks for its own.
LEMMA CheckStep ==
    Check!BranchesOfInput /\ [Check!Next]_(Check!vars) => Check!BranchesOfInput'
<1> SUFFICES ASSUME Check!BranchesOfInput, [Check!Next]_(Check!vars)
             PROVE  Check!BranchesOfInput'
  OBVIOUS
<1>0. v4.list # "none" => v4.of = v1 \/ v8 \/ "branches" \in v6
  BY DEF Check!BranchesOfInput, Check!BranchField
<1>goal. (v4'.list # "none" => v4'.of = v1' \/ v8' \/ "branches" \in v6')
            => Check!BranchesOfInput'
  BY DEF Check!BranchesOfInput, Check!BranchField
<1>1. ASSUME NEW r, Check!SetRepo(r) PROVE Check!BranchesOfInput'
  <2>1. CASE r \in CheckRepos
    <3>1. "branches" \in v6'
      BY <1>1, <2>1, Zenon DEF Check!SetRepo
    <3> QED BY <1>goal, <3>1
  <2>2. CASE r \notin CheckRepos
    <3>1. v4' = Check!NoBranches
      BY <1>1, <2>2, Zenon DEF Check!SetRepo
    <3>2. Check!NoBranches.list = "none"
      BY DEF Check!NoBranches
    <3> QED BY <1>goal, <3>1, <3>2
  <2> QED BY <2>1, <2>2
<1>2. CASE Check!ReposListed
  <2>1. v1' = v1 /\ v4' = v4 /\ v8' = v8 /\ v6' = (v6 \ {"check"}) \cup Check!CheckTimer
    BY <1>2, Zenon DEF Check!ReposListed
  <2> HIDE DEF Check!CheckTimer
  <2>2. "branches" \in v6 => "branches" \in v6'
    BY <2>1
  <2> QED BY <1>0, <1>goal, <2>1, <2>2
<1>3. ASSUME NEW q \in v6, Check!Elapse(q) PROVE Check!BranchesOfInput'
  <2>1. v1' = v1 /\ v4' = v4 /\ v6' = v6 \ {q}
    BY <1>3, Zenon DEF Check!Elapse
  <2>2. CASE q = "check"
    <3>1. v8' = v8
      BY <1>3, <2>2, Zenon DEF Check!Elapse
    <3>2. "branches" \in v6 => "branches" \in v6'
      BY <2>1, <2>2
    <3> QED BY <1>0, <1>goal, <2>1, <3>1, <3>2
  <2>3. CASE q # "check"
    <3>1. v8'
      BY <1>3, <2>3, Zenon DEF Check!Elapse
    <3> QED BY <1>goal, <3>1
  <2> QED BY <2>2, <2>3
<1>4. CASE Check!BranchesListed
  <2>1. PICK l \in {"none", "has", "lacks"} : v4' = [list |-> l, of |-> v1]
    BY <1>4, Zenon DEF Check!BranchesListed
  <2>2. v1' = v1 /\ v4'.of = v1
    BY <1>4, <2>1 DEF Check!BranchesListed
  <2> QED BY <1>goal, <2>2
<1>5. CASE \/ Check!ToggleRepoList \/ UNCHANGED Check!vars
           \/ \E r \in v7 : Check!Checked(r)
  <2>1. v1' = v1 /\ v4' = v4 /\ v6' = v6 /\ v8' = v8
    BY <1>5, Zenon DEF Check!ToggleRepoList, Check!vars, Check!Checked
  <2> QED BY <1>0, <1>goal, <2>1
<1> QED BY <1>1, <1>2, <1>3, <1>4, <1>5, Zenon DEF Check!Next, Check!TypeRepo, Check!PickRepo

-------------------------------------------------------------------------------
(***************************************************************************)
(* WizardForm: v1 says whether the app is new, v3 whether its settings are *)
(* still to be restored; v6 is the repository, v8 the runtime, v10 the     *)
(* site, v11 whether the user chose, v12 what was guessed, v14 whether the *)
(* form was sent, v15 the user's choice.                                   *)
(***************************************************************************)
\* What the module assumes of its constants.
LEMMA WizardAssumed == Wizard!FormAssumption
BY PageAssumptions

\* What is said of the choices.
WizardChoices ==
    /\ v1 \in BOOLEAN /\ v11 \in BOOLEAN
    /\ v1 => ~v3 /\ v8 \in WizardRuntimes
    /\ v15 # Null => v11 /\ v8 = v15
    /\ v12.state \in {"done", "error"} => v12.repo = v6
    /\ v1 /\ ~v11 /\ v12.state = "done" =>
          (WizardGuess[v6] \in WizardRuntimes => v8 = WizardGuess[v6])

\* It is the invariant: what is guessed to be unsupported blocks the form by itself.
LEMMA WizardHold == Wizard!ChoiceInv <=> WizardChoices
<1>1. WizardChoices /\ v1 /\ ~v11 /\ v12.state = "done" /\ WizardGuess[v6] = "unsupported"
        => Wizard!disabled
  <2> SUFFICES ASSUME WizardChoices, v1, ~v11, v12.state = "done",
                      WizardGuess[v6] = "unsupported"
               PROVE  Wizard!disabled
    OBVIOUS
  <2>1. v8 \in WizardRuntimes /\ v12.repo = v6
    BY DEF WizardChoices
  <2>2. v8 # "none"
    BY <2>1, WizardAssumed, Zenon DEF Wizard!FormAssumption
  <2> QED BY <2>1, <2>2, Zenon DEF Wizard!disabled, Wizard!runtimeBlocked,
             Wizard!runtimeLocked, Wizard!unsupported
<1> QED BY <1>1, Zenon DEF Wizard!ChoiceInv, Wizard!RuntimeIsPickOrGuess, WizardChoices

\* And the same a step later.
LEMMA WizardKept == WizardChoices' => Wizard!ChoiceInv'
BY WizardHold, PTL

\* The effect of the guess leaves nothing that was guessed.
LEMMA WizardAsks ==
    ASSUME NEW r, Wizard!Ask(r)
    PROVE  v12'.state \in {"idle", "loading"}
<1>1. Wizard!idle.state = "idle"
  BY DEF Wizard!idle
<1>2. CASE r = Wizard!NoRepo
  <2>1. v12' = Wizard!idle
    BY <1>2, Zenon DEF Wizard!Ask
  <2> QED BY <1>1, <2>1
<1>3. CASE r # Wizard!NoRepo
  <2>1. v12' = [state |-> "loading", repo |-> r]
    BY <1>3, Zenon DEF Wizard!Ask
  <2> QED BY <2>1
<1> QED BY <1>2, <1>3

\* At first nothing was chosen and nothing guessed.
LEMMA WizardInit == Wizard!Init => Wizard!ChoiceInv
<1> SUFFICES ASSUME Wizard!Init PROVE WizardChoices
  BY WizardHold
<1>1. /\ v1 \in BOOLEAN /\ v11 = FALSE /\ v15 = Null /\ v12 = Wizard!idle
      /\ v3 = ~v1 /\ v8 = WizardFirstRuntime
  BY Zenon DEF Wizard!Init
<1>2. WizardFirstRuntime \in WizardRuntimes
  BY WizardAssumed, Zenon DEF Wizard!FormAssumption
<1>3. v12.state = "idle"
  BY <1>1 DEF Wizard!idle
<1>4. v12.state \notin {"done", "error"}
  BY <1>3
<1> QED BY <1>1, <1>2, <1>3, <1>4, Zenon DEF WizardChoices

\* Typing, answers, choices and steps keep it, in whatever order they come.
LEMMA WizardStep == Wizard!ChoiceInv /\ [Wizard!Next]_(Wizard!vars) => Wizard!ChoiceInv'
<1> SUFFICES ASSUME Wizard!ChoiceInv, [Wizard!Next]_(Wizard!vars)
             PROVE  WizardChoices'
  BY WizardKept
<1> USE DEF Wizard!appVars, Wizard!formVars, Wizard!askVars
<1>0. WizardChoices
  BY WizardHold
\* Nothing that is said is touched.
<1>same. ASSUME v1' = v1, v3' = v3, v6' = v6, v8' = v8, v11' = v11, v12' = v12, v15' = v15
         PROVE  WizardChoices'
  BY <1>0, <1>same, Zenon DEF WizardChoices
<1>1. ASSUME NEW r, Wizard!TypeRepo(r) PROVE WizardChoices'
  <2>1. v1' = v1 /\ v3' = v3 /\ v8' = v8 /\ v11' = v11 /\ v15' = v15 /\ Wizard!Ask(r)
    BY <1>1, Zenon DEF Wizard!TypeRepo
  <2>2. v12'.state \notin {"done", "error"} /\ v12'.state # "done"
    BY <2>1, WizardAsks
  <2> QED BY <1>0, <2>1, <2>2, Zenon DEF WizardChoices
<1>2. CASE Wizard!Restored
  <2>1. v1' = v1 /\ v3 /\ v11' = v11 /\ v15' = Null
    BY <1>2, Zenon DEF Wizard!Restored
  <2>2. ~v1
    BY <1>0, <2>1, Zenon DEF WizardChoices
  <2>3. \/ v6' = v6 /\ v12' = v12
        \/ Wizard!Ask(WizardSavedRepo)
    BY <1>2, Zenon DEF Wizard!Restored
  <2>4. v12'.state \in {"done", "error"} => v12'.repo = v6'
    <3>1. CASE v6' = v6 /\ v12' = v12
      BY <1>0, <3>1, Zenon DEF WizardChoices
    <3>2. CASE Wizard!Ask(WizardSavedRepo)
      <4>1. v12'.state \notin {"done", "error"}
        BY <3>2, WizardAsks
      <4> QED BY <4>1, Zenon
    <3> QED BY <2>3, <3>1, <3>2
  <2> QED BY <1>0, <2>1, <2>2, <2>4, Zenon DEF WizardChoices
<1>3. CASE Wizard!RestoreFails
  <2>1. /\ v1' = v1 /\ v3' = FALSE /\ v6' = v6 /\ v8' = v8 /\ v11' = v11 /\ v12' = v12
        /\ v15' = v15
    BY <1>3, Zenon DEF Wizard!RestoreFails
  <2> QED BY <1>0, <2>1, Zenon DEF WizardChoices
<1>4. CASE Wizard!Detected
  <2>1. /\ v1' = v1 /\ v3' = v3 /\ v6' = v6 /\ v11' = v11 /\ v15' = v15
        /\ v12' = [state |-> "done", repo |-> v6]
    BY <1>4, Zenon DEF Wizard!Detected
  <2>2. v12'.repo = v6
    BY <2>1
  <2>3. CASE v8 # "none" /\ ~Wizard!runtimeLocked /\ WizardGuess[v6] \in WizardRuntimes
    <3>1. v8' = WizardGuess[v6]
      BY <1>4, <2>3, Zenon DEF Wizard!Detected, Wizard!SetRuntime
    <3>2. ~v11
      BY <2>3, Zenon DEF Wizard!runtimeLocked
    <3> QED BY <1>0, <2>1, <2>2, <2>3, <3>1, <3>2, Zenon DEF WizardChoices
  <2>4. CASE ~ (v8 # "none" /\ ~Wizard!runtimeLocked /\ WizardGuess[v6] \in WizardRuntimes)
    <3>1. v8' = v8
      BY <1>4, <2>4, Zenon DEF Wizard!Detected
    <3>2. v1 /\ ~v11 => WizardGuess[v6] \notin WizardRuntimes
      <4>1. ~Wizard!runtimeLocked <=> v1 /\ ~v11
        BY Zenon DEF Wizard!runtimeLocked
      <4>2. v1 => v8 # "none"
        BY <1>0, WizardAssumed, Zenon DEF WizardChoices, Wizard!FormAssumption
      <4> QED BY <2>4, <4>1, <4>2, Zenon
    <3> QED BY <1>0, <2>1, <2>2, <3>1, <3>2, Zenon DEF WizardChoices
  <2> QED BY <2>3, <2>4
<1>5. CASE Wizard!DetectFails
  <2>1. /\ v1' = v1 /\ v3' = v3 /\ v6' = v6 /\ v8' = v8 /\ v11' = v11 /\ v15' = v15
        /\ v12' = [state |-> "error", repo |-> v6]
    BY <1>5, Zenon DEF Wizard!DetectFails
  <2>2. v12'.repo = v6 /\ v12'.state # "done"
    BY <2>1
  <2> QED BY <1>0, <2>1, <2>2, Zenon DEF WizardChoices
<1>6. ASSUME NEW r \in WizardRuntimes, Wizard!pickRuntime(r) PROVE WizardChoices'
  <2>1. /\ v1' = v1 /\ v3' = v3 /\ v6' = v6 /\ v8' = r /\ v11' = TRUE /\ v12' = v12
        /\ v15' = r
    BY <1>6, Zenon DEF Wizard!pickRuntime, Wizard!SetRuntime
  <2> QED BY <1>0, <2>1, Zenon DEF WizardChoices
<1>7. CASE \/ Wizard!Elapse \/ Wizard!TypePort \/ Wizard!Forward \/ Wizard!Submit
           \/ Wizard!SubmitFails \/ UNCHANGED Wizard!vars
           \/ \E to \in 1 .. 2 : Wizard!Back(to)
  <2>1. /\ v1' = v1 /\ v3' = v3 /\ v6' = v6 /\ v8' = v8 /\ v11' = v11 /\ v12' = v12
        /\ v15' = v15
    BY <1>7, Zenon DEF Wizard!Elapse, Wizard!TypePort, Wizard!Forward, Wizard!Submit,
       Wizard!SubmitFails, Wizard!vars, Wizard!Back
  <2> QED BY <1>same, <2>1
<1> QED BY <1>1, <1>2, <1>3, <1>4, <1>5, <1>6, <1>7, Zenon DEF Wizard!Next

-------------------------------------------------------------------------------
(***************************************************************************)
(* DbBrowse: v1 are the tables, v4 to v9 the controls, v10 the rows shown  *)
(* and the query they answer, v11 and v12 whether the last query failed or *)
(* is on its way, v13 its number, v14 the queries on their way.            *)
(***************************************************************************)
\* What the module assumes of its constants.
LEMMA BrowseAssumed == Browse!BrowseAssumption
BY PageAssumptions

\* The table the controls are about, if any, is one of the tables.
LEMMA BrowseTable ==
    ASSUME v1 \in BrowseLists \cup {Null, <<>>}
    PROVE  /\ Browse!table \in Browse!Tables \cup {Null}
           /\ v1 \notin {Null, <<>>} => Browse!table # Null
<1> USE BrowseAssumed DEF Browse!BrowseAssumption
<1>1. CASE v1 \in {Null, <<>>}
  BY <1>1 DEF Browse!table
<1>2. CASE v1 \notin {Null, <<>>}
  <2>1. v1 \in Seq(Browse!Tables) /\ v1 # <<>>
    BY <1>2
  <2> HIDE DEF Browse!Tables
  <2>2. v1[1] \in Browse!Tables /\ \A i \in DOMAIN v1 : v1[i] \in Browse!Tables
    BY <2>1
  <2>3. Browse!table \in Browse!Tables
    BY <1>2, <2>2 DEF Browse!table
  <2>4. Null \notin Browse!Tables
    BY Zenon
  <2> QED BY <2>3, <2>4
<1> QED BY <1>1, <1>2

\* The request of the controls is a query while there is a table.
BrowseAsks ==
    /\ Browse!table # Null => Browse!spec \in Browse!Queries /\ Browse!spec # Null
    /\ Browse!table = Null => Browse!spec = Null

\* Which the invariant of the controls says already.
LEMMA BrowseSpec == Browse!ControlsInv => BrowseAsks
<1> SUFFICES ASSUME Browse!ControlsInv PROVE BrowseAsks
  OBVIOUS
<1> USE DEF BrowseAsks
<1>1. CASE Browse!table = Null
  BY <1>1, Zenon DEF Browse!spec
<1>2. CASE Browse!table # Null
  <2>1. Browse!table \in Browse!Tables
    BY <1>2, BrowseTable, Zenon DEF Browse!ControlsInv
  <2> DEFINE conditions == {[column |-> f.column, value |-> f.value] : f \in v7}
  <2>2. Browse!spec = [table |-> Browse!table, columns |-> Browse!shown,
                       filters |-> conditions, sort |-> v8, offset |-> v9]
    BY <1>2, Zenon DEF Browse!spec
  <2>3. Browse!shown \subseteq Browse!AllColumns
    BY <2>1 DEF Browse!shown, Browse!columns, Browse!AllColumns
  <2>4. conditions \subseteq [column : Browse!AllColumns, value : Browse!Values]
    BY DEF Browse!ControlsInv, Browse!Condition
  <2>5. /\ v8 \in {Null} \cup [key : Browse!AllColumns, dir : {"asc", "desc"}]
        /\ v9 \in Nat
    BY Zenon DEF Browse!ControlsInv
  <2> HIDE DEF conditions
  <2>6. Browse!spec \in Browse!Queries
    BY <2>1, <2>2, <2>3, <2>4, <2>5 DEF Browse!Queries
  <2>7. Null \notin Browse!Queries
    BY BrowseAssumed, Zenon DEF Browse!BrowseAssumption
  <2> QED BY <1>2, <2>6, <2>7, Zenon
<1> QED BY <1>1, <1>2

\* And the same a step later.
LEMMA BrowseSpecNext == Browse!ControlsInv' => BrowseAsks'
BY BrowseSpec, PTL

\* The parts of the invariant about the rows that the controls do not touch.
BrowseRows(result, seq, pending) ==
    /\ seq \in Nat /\ pending \subseteq [n : 1 .. seq, spec : Browse!Queries]
    /\ result # Null => result.spec \in Browse!Queries
    /\ \A p, q \in pending : p.n = q.n => p = q

\* And those that relate them to the query of the controls, when there is a table.
BrowseShows(some, spec, result, error, loading, seq, pending) ==
    /\ loading <=> \E p \in pending : p.n = seq
    /\ some => \A p \in pending : p.n = seq => p.spec = spec
    /\ some /\ ~loading /\ ~error /\ result # Null => result.spec = spec

\* They are the invariant.
LEMMA BrowseHold ==
    Browse!RowsInv <=>
        /\ BrowseRows(v10, v13, v14)
        /\ BrowseShows(Browse!table # Null, Browse!spec, v10, v11, v12, v13, v14)
BY Zenon DEF Browse!RowsInv, BrowseRows, BrowseShows

\* Also a step later.
LEMMA BrowseKept ==
    ASSUME BrowseRows(v10', v13', v14'),
           BrowseShows(Browse!table' # Null, Browse!spec', v10', v11', v12', v13', v14')
    PROVE  Browse!RowsInv'
BY Zenon DEF Browse!RowsInv, BrowseRows, BrowseShows

\* The effect that sends a changed query keeps what is said of the rows, whether it is
\* sent or not.
LEMMA BrowseFetch ==
    ASSUME Browse!ControlsInv, Browse!RowsInv, Browse!ControlsInv',
           NEW reload \in BOOLEAN, Browse!Fetch(reload), v10' = v10 \/ v10' = Null
    PROVE  Browse!RowsInv'
<1>0. /\ BrowseRows(v10, v13, v14)
      /\ BrowseShows(Browse!table # Null, Browse!spec, v10, v11, v12, v13, v14)
  BY BrowseHold
<1>1. /\ Browse!table' # Null => Browse!spec' \in Browse!Queries /\ Browse!spec' # Null
      /\ Browse!table' = Null => Browse!spec' = Null
  BY BrowseSpecNext, Zenon DEF BrowseAsks
<1>2. Browse!table = Null => Browse!spec = Null
  BY BrowseSpec, Zenon DEF BrowseAsks
<1>3. CASE Browse!spec' # Null /\ (reload \/ Browse!spec' # Browse!spec)
  <2> DEFINE new == [n |-> v13', spec |-> Browse!spec']
  <2>1. v13' = v13 + 1 /\ v12' = TRUE /\ v14' = v14 \cup {new}
    BY <1>3, Zenon DEF Browse!Fetch
  <2>2. new.n = v13' /\ new.spec = Browse!spec'
    OBVIOUS
  <2>3. v13 \in Nat /\ \A p \in v14 : p.n \in 1 .. v13
    BY <1>0 DEF BrowseRows
  <2>4. BrowseRows(v10', v13', v14')
    <3>1. Browse!spec' \in Browse!Queries
      BY <1>1, <1>3
    <3>2. v14' \subseteq [n : 1 .. v13', spec : Browse!Queries]
      BY <1>0, <2>1, <2>3, <3>1 DEF BrowseRows
    <3>3. \A p \in v14 : p.n # new.n
      BY <2>1, <2>2, <2>3
    <3> HIDE DEF new
    <3>4. \A p, q \in v14' : p.n = q.n => p = q
      BY <1>0, <2>1, <3>3 DEF BrowseRows
    <3> QED BY <1>0, <2>1, <2>3, <3>2, <3>4 DEF BrowseRows
  <2>5. BrowseShows(Browse!table' # Null, Browse!spec', v10', v11', v12', v13', v14')
    <3>1. \E p \in v14' : p.n = v13'
      BY <2>1, <2>2
    <3>2. \A p \in v14' : p.n = v13' => p.spec = Browse!spec'
      BY <2>1, <2>2, <2>3
    <3> QED BY <2>1, <3>1, <3>2, Zenon DEF BrowseShows
  <2> QED BY <2>4, <2>5, BrowseKept
<1>4. CASE ~ (Browse!spec' # Null /\ (reload \/ Browse!spec' # Browse!spec))
  <2>1. v13' = v13 /\ v12' = v12 /\ v11' = v11 /\ v14' = v14
    BY <1>4, Zenon DEF Browse!Fetch
  <2>2. Browse!table' # Null => Browse!spec' = Browse!spec /\ Browse!table # Null
    BY <1>1, <1>2, <1>4, Zenon
  <2>3. BrowseRows(v10', v13', v14')
    BY <1>0, <2>1, Zenon DEF BrowseRows
  <2>4. BrowseShows(Browse!table' # Null, Browse!spec', v10', v11', v12', v13', v14')
    BY <1>0, <2>1, <2>2, Zenon DEF BrowseShows
  <2> QED BY <2>3, <2>4, BrowseKept
<1> QED BY <1>3, <1>4

\* The answer of a query.
LEMMA BrowseAnswer ==
    ASSUME Browse!ControlsInv, Browse!RowsInv, NEW p \in v14, Browse!Answer(p)
    PROVE  Browse!ControlsInv' /\ Browse!RowsInv'
<1>0. /\ BrowseRows(v10, v13, v14)
      /\ BrowseShows(Browse!table # Null, Browse!spec, v10, v11, v12, v13, v14)
  BY BrowseHold
<1>1. /\ v1' = v1 /\ v4' = v4 /\ v5' = v5 /\ v6' = v6 /\ v7' = v7 /\ v8' = v8 /\ v9' = v9
      /\ v13' = v13 /\ v14' = v14 \ {p}
  BY Zenon DEF Browse!Answer, Browse!listVars, Browse!controls
<1>2. Browse!table' = Browse!table /\ Browse!spec' = Browse!spec
  BY <1>1, Zenon DEF Browse!table, Browse!spec, Browse!shown, Browse!columns
<1>3. Browse!ControlsInv'
  BY <1>1, Zenon DEF Browse!ControlsInv
<1>4. p \in [n : 1 .. v13, spec : Browse!Queries]
  BY <1>0, Zenon DEF BrowseRows
<1>5. p.spec \in Browse!Queries
  BY <1>4
<1>6. CASE p.n # v13
  <2>1. v10' = v10 /\ v11' = v11 /\ v12' = v12
    BY <1>6, Zenon DEF Browse!Answer
  <2>2. BrowseRows(v10', v13', v14')
    BY <1>0, <1>1, <2>1, Zenon DEF BrowseRows
  <2>3. (\E q \in v14' : q.n = v13) <=> \E q \in v14 : q.n = v13
    BY <1>1, <1>6
  <2>4. BrowseShows(Browse!table' # Null, Browse!spec', v10', v11', v12', v13', v14')
    BY <1>0, <1>1, <1>2, <2>1, <2>3, Zenon DEF BrowseShows
  <2> QED BY <1>3, <2>2, <2>4, BrowseKept
<1>7. CASE p.n = v13
  <2>1. /\ v12' = FALSE
        /\ \/ \E more \in {TRUE, FALSE} : v10' = [spec |-> p.spec, more |-> more]
           \/ v10' = Null
    BY <1>7, Zenon DEF Browse!Answer
  <2>2. v10' # Null => v10'.spec = p.spec
    BY <2>1
  <2>3. \A q \in v14' : q.n # v13
    BY <1>0, <1>1, <1>7 DEF BrowseRows
  <2>4. BrowseRows(v10', v13', v14')
    BY <1>0, <1>1, <1>5, <2>2, Zenon DEF BrowseRows
  <2>5. Browse!table # Null => p.spec = Browse!spec
    BY <1>0, <1>7, Zenon DEF BrowseShows
  <2>6. BrowseShows(Browse!table' # Null, Browse!spec', v10', v11', v12', v13', v14')
    BY <1>1, <1>2, <2>1, <2>2, <2>3, <2>5, Zenon DEF BrowseShows
  <2> QED BY <1>3, <2>4, <2>6, BrowseKept
<1> QED BY <1>6, <1>7

\* The controls that only the user moves.
LEMMA BrowseControls ==
    ASSUME Browse!ControlsInv, Browse!RowsInv,
           \/ \E t \in Browse!Tables : Browse!Pick(t)
           \/ \E f \in v6 : Browse!RemoveFilter(f)
           \/ Browse!Apply \/ Browse!ShowAll \/ Browse!TurnPage \/ Browse!Refresh
           \/ \E c \in Browse!columns : Browse!ToggleColumn(c)
           \/ \E c \in Browse!AllColumns : Browse!SortBy(c)
    PROVE  /\ Browse!ControlsInv' /\ (v10' = v10 \/ v10' = Null)
           /\ \E reload \in BOOLEAN : Browse!Fetch(reload)
<1> DEFINE sorts == {Null} \cup [key : Browse!AllColumns, dir : {"asc", "desc"}]
           Goal == /\ Browse!ControlsInv' /\ (v10' = v10 \/ v10' = Null)
                   /\ \E reload \in BOOLEAN : Browse!Fetch(reload)
<1>0. /\ v1 \in BrowseLists \cup {Null, <<>>}
      /\ v6 \subseteq Browse!Condition /\ v7 \subseteq Browse!Condition
      /\ v8 \in sorts /\ v9 \in Nat
  BY Zenon DEF Browse!ControlsInv
<1>goal. ASSUME v1' = v1, v6' \subseteq v6, v7' \subseteq Browse!Condition, v8' \in sorts,
                v9' \in Nat, v10' = v10 \/ v10' = Null,
                \E reload \in BOOLEAN : Browse!Fetch(reload)
         PROVE  Goal
  <2>1. v6' \subseteq Browse!Condition
    BY <1>0, <1>goal
  <2>2. v1' \in BrowseLists \cup {Null, <<>>}
    BY <1>0, <1>goal
  <2> QED BY <1>goal, <2>1, <2>2, Zenon DEF Browse!ControlsInv
<1> USE DEF Browse!listVars
<1>1. ASSUME NEW t \in Browse!Tables, Browse!Pick(t) PROVE Goal
  <2>1. /\ v1' = v1 /\ v6' = {} /\ v7' = {} /\ v8' = Null /\ v9' = 0 /\ v10' = Null
        /\ Browse!Fetch(FALSE)
    BY <1>1, Zenon DEF Browse!Pick
  <2> HIDE DEF Goal
  <2> QED BY <1>goal, <2>1
<1>2. ASSUME NEW f \in v6, Browse!RemoveFilter(f) PROVE Goal
  <2>1. /\ v1' = v1 /\ v6' = v6 \ {f} /\ v7' = {g \in v7 : g.id # f.id} /\ v8' = v8
        /\ v9' \in {0, v9} /\ v10' = v10 /\ Browse!Fetch(FALSE)
    BY <1>2 DEF Browse!RemoveFilter
  <2>2. v6' \subseteq v6 /\ v7' \subseteq Browse!Condition /\ v9' \in Nat
    BY <1>0, <2>1
  <2> HIDE DEF Goal
  <2> QED BY <1>0, <1>goal, <2>1, <2>2
<1>3. ASSUME Browse!Apply PROVE Goal
  <2>1. /\ v1' = v1 /\ v6' = v6 /\ v7' = Browse!ready /\ v8' = v8 /\ v9' = 0 /\ v10' = v10
        /\ Browse!Fetch(FALSE)
    BY <1>3, Zenon DEF Browse!Apply
  <2>2. Browse!ready \subseteq Browse!Condition
    BY <1>0 DEF Browse!ready
  <2> HIDE DEF Goal
  <2> QED BY <1>0, <1>goal, <2>1, <2>2
<1>4. ASSUME Browse!ShowAll \/ \E c \in Browse!columns : Browse!ToggleColumn(c)
      PROVE  Goal
  <2>1. /\ v1' = v1 /\ v6' = v6 /\ v7' = v7 /\ v8' = v8 /\ v9' = v9 /\ v10' = v10
        /\ Browse!Fetch(FALSE)
    BY <1>4, Zenon DEF Browse!ShowAll, Browse!ToggleColumn
  <2> HIDE DEF Goal
  <2> QED BY <1>0, <1>goal, <2>1
<1>5. ASSUME NEW c \in Browse!AllColumns, Browse!SortBy(c) PROVE Goal
  <2>1. /\ v1' = v1 /\ v6' = v6 /\ v7' = v7 /\ v9' = 0 /\ v10' = v10
        /\ Browse!Fetch(FALSE)
        /\ v8' \in {[key |-> c, dir |-> "asc"], [key |-> c, dir |-> "desc"], Null}
    BY <1>5 DEF Browse!SortBy
  <2>2. v8' \in sorts
    BY <2>1
  <2> HIDE DEF Goal, sorts
  <2> QED BY <1>0, <1>goal, <2>1, <2>2
<1>6. ASSUME Browse!TurnPage PROVE Goal
  <2>1. /\ v1' = v1 /\ v6' = v6 /\ v7' = v7 /\ v8' = v8 /\ v10' = v10
        /\ Browse!Fetch(FALSE) /\ Browse!Pane = "rows"
        /\ \/ v10.spec.offset > 0 /\ v9' = v10.spec.offset - 1
           \/ v9' = v10.spec.offset + 1
    BY <1>6, Zenon DEF Browse!TurnPage
  <2>2. v10.spec \in Browse!Queries
    <3>1. v10 # Null
      BY <2>1 DEF Browse!Pane
    <3> QED BY <3>1, BrowseHold DEF BrowseRows
  <2>3. v9' \in Nat
    BY <2>1, <2>2 DEF Browse!Queries
  <2> HIDE DEF Goal
  <2> QED BY <1>0, <1>goal, <2>1, <2>3
<1>7. ASSUME Browse!Refresh PROVE Goal
  <2>1. /\ v1' = v1 /\ v6' = v6 /\ v7' = v7 /\ v8' = v8 /\ v9' = v9 /\ v10' = v10
        /\ Browse!Fetch(TRUE)
    BY <1>7, Zenon DEF Browse!Refresh, Browse!controls
  <2> HIDE DEF Goal
  <2> QED BY <1>0, <1>goal, <2>1
<1> QED BY <1>1, <1>2, <1>3, <1>4, <1>5, <1>6, <1>7, Zenon

\* At first there is no table.
LEMMA BrowseInit == Browse!Init => Browse!BrowseInv
<1> SUFFICES ASSUME Browse!Init PROVE Browse!BrowseInv
  OBVIOUS
<1>1. /\ v1 = Null /\ v6 = {} /\ v7 = {} /\ v8 = Null /\ v9 = 0 /\ v10 = Null /\ v12 = FALSE
      /\ v13 = 0 /\ v14 = {}
  BY Zenon DEF Browse!Init
<1>2. Browse!ControlsInv
  BY <1>1 DEF Browse!ControlsInv
<1>3. Browse!table = Null
  BY <1>1 DEF Browse!table
<1>4. BrowseRows(v10, v13, v14)
  BY <1>1 DEF BrowseRows
<1>5. BrowseShows(Browse!table # Null, Browse!spec, v10, v11, v12, v13, v14)
  BY <1>1, <1>3, Zenon DEF BrowseShows
<1> QED BY <1>2, <1>4, <1>5, BrowseHold, Zenon DEF Browse!BrowseInv

\* Each change of the controls and each answer, in any order, keeps it.
LEMMA BrowseStep == Browse!BrowseInv /\ [Browse!Next]_(Browse!vars) => Browse!BrowseInv'
<1> SUFFICES ASSUME Browse!BrowseInv, [Browse!Next]_(Browse!vars)
             PROVE  Browse!ControlsInv' /\ Browse!RowsInv'
  BY Zenon DEF Browse!BrowseInv
<1>0. Browse!ControlsInv /\ Browse!RowsInv
  BY Zenon DEF Browse!BrowseInv
<1>typed. /\ v1 \in BrowseLists \cup {Null, <<>>}
          /\ v6 \subseteq Browse!Condition /\ v7 \subseteq Browse!Condition
          /\ v8 \in {Null} \cup [key : Browse!AllColumns, dir : {"asc", "desc"}]
          /\ v9 \in Nat
  BY <1>0, Zenon DEF Browse!ControlsInv
<1>1. CASE Browse!TablesListed \/ Browse!TablesFail
  <2>1. /\ v1' \in BrowseLists \cup {<<>>} /\ v6' = v6 /\ v7' = v7 /\ v8' = v8 /\ v9' = v9
        /\ v10' = v10 /\ Browse!Fetch(FALSE)
    BY <1>1, Zenon DEF Browse!TablesListed, Browse!TablesFail, Browse!controls
  <2>2. Browse!ControlsInv'
    BY <1>typed, <2>1, Zenon DEF Browse!ControlsInv
  <2> QED BY <1>0, <2>1, <2>2, BrowseFetch
<1>2. ASSUME NEW p \in v14, Browse!Answer(p) PROVE Browse!ControlsInv' /\ Browse!RowsInv'
  BY <1>0, <1>2, BrowseAnswer
\* Conditions that are not applied yet are not asked for.
<1>3. CASE Browse!AddFilter \/ \E f \in v6 : Browse!PatchFilter(f)
  <2>1. /\ v1' = v1 /\ v4' = v4 /\ v5' = v5 /\ v7' = v7 /\ v8' = v8 /\ v9' = v9 /\ v10' = v10
        /\ v11' = v11 /\ v12' = v12 /\ v13' = v13 /\ v14' = v14
    BY <1>3, Zenon DEF Browse!AddFilter, Browse!PatchFilter, Browse!listVars,
       Browse!answerVars
  <2>2. v6' \subseteq Browse!Condition
    <3>1. Browse!table \in Browse!Tables \cup {Null} /\ Browse!columns \subseteq Browse!AllColumns
      BY <1>typed, BrowseTable DEF Browse!columns, Browse!AllColumns
    <3>2. Browse!NotFilled \in Browse!Values
      BY DEF Browse!Values
    <3>3. CASE Browse!AddFilter
      <4>1. PICK id \in 1 .. BrowseMaxFilters, c \in Browse!columns :
              v6' = v6 \cup {[id |-> id, column |-> c, value |-> Browse!NotFilled]}
        BY <3>3, Zenon DEF Browse!AddFilter
      <4>2. [id |-> id, column |-> c, value |-> Browse!NotFilled] \in Browse!Condition
        BY <3>1, <3>2 DEF Browse!Condition
      <4> QED BY <1>typed, <4>1, <4>2
    <3>4. ASSUME NEW f \in v6, Browse!PatchFilter(f) PROVE v6' \subseteq Browse!Condition
      <4>1. PICK c \in Browse!columns, v \in Browse!Values :
              v6' = (v6 \ {f}) \cup {[f EXCEPT !.column = c, !.value = v]}
        BY <3>4, Zenon DEF Browse!PatchFilter
      <4>2. [f EXCEPT !.column = c, !.value = v] \in Browse!Condition
        BY <1>typed, <3>1 DEF Browse!Condition
      <4> QED BY <1>typed, <4>1, <4>2
    <3> QED BY <1>3, <3>3, <3>4
  <2>3. Browse!ControlsInv'
    BY <1>typed, <2>1, <2>2, Zenon DEF Browse!ControlsInv
  <2>4. Browse!table' = Browse!table /\ Browse!spec' = Browse!spec
    BY <2>1, Zenon DEF Browse!table, Browse!spec, Browse!shown, Browse!columns
  <2>5. Browse!RowsInv'
    BY <1>0, <2>1, <2>4, Zenon DEF Browse!RowsInv
  <2> QED BY <2>3, <2>5
<1>4. CASE \/ \E t \in Browse!Tables : Browse!Pick(t)
           \/ \E f \in v6 : Browse!RemoveFilter(f)
           \/ Browse!Apply \/ Browse!ShowAll \/ Browse!TurnPage \/ Browse!Refresh
           \/ \E c \in Browse!columns : Browse!ToggleColumn(c)
           \/ \E c \in Browse!AllColumns : Browse!SortBy(c)
  <2>1. /\ Browse!ControlsInv' /\ (v10' = v10 \/ v10' = Null)
        /\ \E reload \in BOOLEAN : Browse!Fetch(reload)
    BY <1>0, <1>4, BrowseControls
  <2> QED BY <1>0, <2>1, BrowseFetch
<1>5. CASE UNCHANGED Browse!vars
  <2>1. /\ v1' = v1 /\ v4' = v4 /\ v5' = v5 /\ v6' = v6 /\ v7' = v7 /\ v8' = v8 /\ v9' = v9
        /\ v10' = v10 /\ v11' = v11 /\ v12' = v12 /\ v13' = v13 /\ v14' = v14
    BY <1>5, Zenon DEF Browse!vars, Browse!listVars, Browse!controls, Browse!answerVars
  <2>2. Browse!table' = Browse!table /\ Browse!spec' = Browse!spec
    BY <2>1, Zenon DEF Browse!table, Browse!spec, Browse!shown, Browse!columns
  <2> QED BY <1>0, <2>1, <2>2, Zenon DEF Browse!ControlsInv, Browse!RowsInv
<1> QED BY <1>1, <1>2, <1>3, <1>4, <1>5, Zenon DEF Browse!Next

\* So rows that are shown are those the controls ask for, unless an answer is due.
LEMMA BrowseMatches == Browse!BrowseInv => Browse!RowsMatchControls
<1> SUFFICES ASSUME Browse!BrowseInv PROVE Browse!RowsMatchControls
  OBVIOUS
<1>0. Browse!ControlsInv /\ Browse!RowsInv
  BY Zenon DEF Browse!BrowseInv
<1>1. Browse!Screen = "table" => v1 \notin {Null, <<>>}
  BY DEF Browse!Screen
<1>2. v1 \in BrowseLists \cup {Null, <<>>}
  BY <1>0, Zenon DEF Browse!ControlsInv
<1>3. Browse!Screen = "table" => Browse!table # Null
  BY <1>1, <1>2, BrowseTable
<1>4. Browse!Pane = "rows" => ~v11 /\ v10 # Null
  BY DEF Browse!Pane
<1> QED BY <1>0, <1>3, <1>4, Zenon DEF Browse!RowsInv, Browse!RowsMatchControls

-------------------------------------------------------------------------------
(***************************************************************************)
(* Properties of several pages.                                            *)
(***************************************************************************)
\* Sockets, polls and the list of the members are asked for where, and by whom, they
\* may be, for any number of terminals, polls, people and changes of the role.
THEOREM OnlyAskedGoOn == Spec => []OnlyAskedRuns
<1> DEFINE Inv == /\ page = "views" => Views!ViewsInv
                  /\ page = "pages" => PagesOfApp!PollsInv
                  /\ page = "summary" => Summary!SummaryInv
<1>1. Init => Inv
  BY PagesStart, ViewsInit, PagesInit, SummaryInit, Zenon
<1>2. Inv /\ [Next]_vars => Inv'
  <2> SUFFICES ASSUME Inv, [Next]_vars PROVE Inv'
    OBVIOUS
  <2>1. page' = "views" => Views!ViewsInv'
    BY PagesMove, ViewsStep, Zenon
  <2>2. page' = "pages" => PagesOfApp!PollsInv'
    BY PagesMove, PagesStep, Zenon
  <2>3. page' = "summary" => Summary!SummaryInv'
    BY PagesMove, SummaryStep, Zenon
  <2> QED BY <2>1, <2>2, <2>3, Zenon
<1>3. Inv => OnlyAskedRuns
  <2>1. Views!ViewsInv => Views!SocketsAsked
    BY Zenon DEF Views!ViewsInv
  <2>2. Summary!SummaryInv => Summary!MembersAreOwners
    BY Zenon DEF Summary!SummaryInv
  <2> QED BY <2>1, <2>2, OnePoll, Zenon DEF OnlyAskedRuns
<1> QED BY <1>1, <1>2, <1>3, PTL DEF Spec

\* What cannot be taken back is done as it was confirmed: a file is deleted whose own
\* menu was opened, a database restored with the file picked, an app rolled back to the
\* build shown, an account ended whose name was typed; and a comment is made on the post
\* it was typed beside.
THEOREM DoneAsConfirmed == Spec => []ConfirmedIsDone
<1> DEFINE Inv == /\ page = "files" => Bucket!ListInv /\ Bucket!PreviewInv
                  /\ page = "settings" => Settings!RestoreInv
                  /\ page = "history" => History!HistoryInv
                  /\ page = "users" => Accounts!EndInv
                  /\ page = "feedback" => PostsPage!CommentsInv
<1>1. Init => Inv
  BY PagesStart, FilesInit, FilesBegin, SettingsInit, HistoryInit, AccountsInit, PostsInit,
     Zenon
<1>2. Inv /\ [Next]_vars => Inv'
  <2> SUFFICES ASSUME Inv, [Next]_vars PROVE Inv'
    OBVIOUS
  <2>1. page' = "files" => Bucket!ListInv' /\ Bucket!PreviewInv'
    BY PagesMove, FilesStep, FilesPreview, Zenon
  <2>2. page' = "settings" => Settings!RestoreInv'
    BY PagesMove, SettingsStep, Zenon
  <2>3. page' = "history" => History!HistoryInv'
    BY PagesMove, HistoryStep, Zenon
  <2>4. page' = "users" => Accounts!EndInv'
    BY PagesMove, AccountsStep, Zenon
  <2>5. page' = "feedback" => PostsPage!CommentsInv'
    BY PagesMove, PostsStep, Zenon
  <2> QED BY <2>1, <2>2, <2>3, <2>4, <2>5, Zenon
<1>3. Inv => ConfirmedIsDone
  <2>1. Accounts!EndInv => Accounts!EndedIsTyped
    BY Zenon DEF Accounts!EndInv
  <2>2. PostsPage!CommentsInv => PostsPage!CommentsWhereTyped
    BY Zenon DEF PostsPage!CommentsInv
  <2> QED BY <2>1, <2>2, FilesAsked, SettingsConfirm, HistoryConfirmed, Zenon
          DEF ConfirmedIsDone
<1> QED BY <1>1, <1>2, <1>3, PTL DEF Spec

\* A deployment reaches the app of its wizard, and so does the user, at whichever
\* moment the wizard is left; but for the deployments that are sent without an app
\* after the wizard was left, which go to the app of the page.  And every link leads
\* to what it names.
THEOREM EachArrives == Spec => []ArrivesWhereMeant
<1> DEFINE Inv == /\ page = "submit" => Submit!SubmitInv
                  /\ page = "summary" => Summary!SummaryInv
<1>1. Init => Inv
  BY PagesStart, SubmitInit, SummaryInit, Zenon
<1>2. Inv /\ [Next]_vars => Inv'
  <2> SUFFICES ASSUME Inv, [Next]_vars PROVE Inv'
    OBVIOUS
  <2>1. page' = "submit" => Submit!SubmitInv'
    BY PagesMove, SubmitStep, Zenon
  <2>2. page' = "summary" => Summary!SummaryInv'
    BY PagesMove, SummaryStep, Zenon
  <2> QED BY <2>1, <2>2, Zenon
<1>3. Inv => ArrivesWhereMeant
  <2>1. Summary!SummaryInv => Summary!LinksLand
    BY Zenon DEF Summary!SummaryInv
  <2> QED BY <2>1, SubmitArrives, Zenon DEF ArrivesWhereMeant
<1> QED BY <1>1, <1>2, <1>3, PTL DEF Spec

\* Rows, branches, the guess of the runtime and the mark of a failure are those of what
\* is on the page, in whatever order and however late requests are answered.
THEOREM AnswersMatch == Spec => []AnswerOfQuestion
<1> DEFINE Inv == /\ page = "browse" => Browse!BrowseInv
                  /\ page = "sql" => Sql!SqlInv
                  /\ page = "check" => Check!BranchesOfInput
                  /\ page = "wizard" => Wizard!ChoiceInv
                  /\ page = "progress" => Progress!ProgressInv
<1>1. Init => Inv
  BY PagesStart, BrowseInit, SqlInit, CheckInit, WizardInit, ProgressInit, Zenon
<1>2. Inv /\ [Next]_vars => Inv'
  <2> SUFFICES ASSUME Inv, [Next]_vars PROVE Inv'
    OBVIOUS
  <2>1. page' = "browse" => Browse!BrowseInv'
    BY PagesMove, BrowseStep, Zenon
  <2>2. page' = "sql" => Sql!SqlInv'
    BY PagesMove, SqlStep, Zenon
  <2>3. page' = "check" => Check!BranchesOfInput'
    BY PagesMove, CheckStep, Zenon
  <2>4. page' = "wizard" => Wizard!ChoiceInv'
    BY PagesMove, WizardStep, Zenon
  <2>5. page' = "progress" => Progress!ProgressInv'
    BY PagesMove, ProgressStep, Zenon
  <2> QED BY <2>1, <2>2, <2>3, <2>4, <2>5, Zenon
<1>3. Inv => AnswerOfQuestion
  <2>1. Wizard!ChoiceInv => Wizard!RuntimeIsPickOrGuess
    BY Zenon DEF Wizard!ChoiceInv
  <2> QED BY <2>1, BrowseMatches, SqlRows, ProgressMarked, Zenon DEF AnswerOfQuestion
<1> QED BY <1>1, <1>2, <1>3, PTL DEF Spec

\* What is shown is never replaced by something older, with any number of polls, late
\* answers, builds and people: builds and their logs, the page of an app, the use of the
\* nodes; and an invitation that was answered does not come back.
THEOREM NoneGoesBack == Spec => NothingGoesBack
<1> DEFINE Inv == /\ page = "progress" => Progress!ProgressInv
                  /\ page = "history" => History!HistoryInv
                  /\ page = "pages" => PagesOfApp!PollsInv
                  /\ page = "admin" => Admin!NodesInv
                  /\ page = "sharing" => SharingPage!AnsweredInv
           Forward == /\ page = "progress" => Progress!LogsGoForward
                      /\ page = "history" => History!LogsGoForward
                      /\ page = "pages" => PagesOfApp!NewsGoForward
                      /\ page = "admin" => Admin!NodesGoForward
                      /\ page = "sharing" => SharingPage!AnsweredStaysGone
<1>1. Init => Inv
  BY PagesStart, ProgressInit, HistoryInit, PagesInit, AdminInit, SharingInit, Zenon
<1>2. Inv /\ [Next]_vars => Inv' /\ Forward
  <2> SUFFICES ASSUME Inv, [Next]_vars PROVE Inv' /\ Forward
    OBVIOUS
  <2>0. page' = page
    BY PagesMove, Zenon
  <2>1. page = "progress" => Progress!ProgressInv' /\ Progress!LogsGoForward
    BY PagesMove, ProgressStep, Zenon
  <2>2. page = "history" => History!HistoryInv' /\ History!LogsGoForward
    <3>1. (v5' = v5 => History!Rank(v6') >= History!Rank(v6)) => History!LogsGoForward
      BY Zenon DEF History!LogsGoForward
    <3> QED BY <3>1, PagesMove, HistoryStep, Zenon
  <2>3. page = "pages" => PagesOfApp!PollsInv' /\ PagesOfApp!NewsGoForward
    BY PagesMove, PagesStep, PagesForward, Zenon
  <2>4. page = "admin" => Admin!NodesInv' /\ Admin!NodesGoForward
    BY PagesMove, AdminStep, Zenon
  <2>5. page = "sharing" => SharingPage!AnsweredInv' /\ SharingPage!AnsweredStaysGone
    BY PagesMove, SharingStep, Zenon
  <2> QED BY <2>0, <2>1, <2>2, <2>3, <2>4, <2>5, Zenon
<1>3. Inv /\ [Next]_vars => [Forward]_vars
  BY <1>2, Zenon
<1> QED BY <1>1, <1>2, <1>3, PTL DEF Spec, NothingGoesBack
=============================================================================
