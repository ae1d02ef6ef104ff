------------------------------ MODULE Sharing ------------------------------
(***************************************************************************)
(* Apps shared with another user, seen from both ends: the dashboard of the *)
(* one who is invited (web/src/components/app/AppsList.jsx), and the tab of *)
(* the members of one app, which its owner has open (app/AppMembers.jsx).   *)
(*                                                                         *)
(* Abstracted: one person is invited; the invitations and the apps are read *)
(* at one moment; of the builds of an app, whether they could be read.      *)
(***************************************************************************)
EXTENDS Naturals, FiniteSets

CONSTANTS
    Apps,       \* of others, that may be shared
    Roles,      \* of "viewer" and "editor", those that are given
    Own,        \* the app whose members are shown to its owner
    MaxChanges, \* bound: actions of the owner
    Null

\* An answer to an invitation.
Answers == [app : Apps, accept : BOOLEAN, at : {"sent", "back"}]

SharingAssumption ==
    /\ Own \in Apps /\ Roles \subseteq {"viewer", "editor"} /\ Roles # {}
    /\ MaxChanges \in Nat /\ Null \notin Apps \cup Answers

VARIABLES
    share,      \* of each app, on the server: at, role
    ticks,      \* of the dashboard's poll, the cancelled ones whose answer is still to come too
    apps, invites, blank,   \* as the dashboard shows them; blank: apps with no builds read
    answering,  \* the answer to an invitation on its way, or Null
    answered,   \* history: invitations answered and not made again
    data,       \* of the tab: share[Own] as read, or Null
    loads,      \* reads of the tab that are out, with what they have read
    call,       \* the action of the tab on its way, or Null
    error, changes

boardVars == <<ticks, apps, invites, blank, answering, answered>>
tabVars == <<data, loads, call, error, changes>>
vars == <<share, boardVars, tabVars>>

NoShare == [at |-> "none", role |-> Null]
Share == {NoShare} \cup [at : {"invited", "member"}, role : Roles]

Invited == {a \in Apps : share[a].at = "invited"}
Member == {a \in Apps : share[a].at = "member"}

\* The dashboard: what it offers when there is nothing, and the rows of an app,
\* which have their place by its builds.
FirstDeploy == apps = {}
SlotRow(a) == a \in apps \ blank
InviteButtons == IF answering # Null THEN "off" ELSE "on"

\* The tab: a row for the member or the invitation; everything is off while busy.
busy == call # Null
ShareRow == IF data = Null THEN "loading" ELSE data.at

-----------------------------------------------------------------------------
Tick == [at : {"sent", "back", "wait"}, apps : SUBSET Apps, invites : SUBSET Apps, live : BOOLEAN]
NewTick == [at |-> "sent", apps |-> {}, invites |-> {}, live |-> TRUE]
NewLoad == [got |-> Null, mine |-> FALSE]

Init ==
    /\ share \in [Apps -> {NoShare, [at |-> "invited", role |-> CHOOSE r \in Roles : TRUE]}]
    /\ ticks = {NewTick} /\ apps = {} /\ invites = {} /\ blank = {}
    /\ answering = Null /\ answered = {}
    /\ data = Null /\ loads = {NewLoad} /\ call = Null /\ error = FALSE /\ changes = 0

-----------------------------------------------------------------------------
(* The dashboard *)

TickRead(t) ==
    /\ t.at = "sent"
    /\ ticks' = (ticks \ {t}) \cup {[t EXCEPT !.at = "back", !.apps = Member, !.invites = Invited]}
    /\ UNCHANGED <<share, apps, invites, blank, answering, answered, tabVars>>

\* After the cleanup an answer changes nothing and the poll is not set up again.
TickAnswered(t) ==
    /\ t.at = "back"
    /\ IF t.live
       THEN /\ ticks' = (ticks \ {t}) \cup {[t EXCEPT !.at = "wait", !.apps = {}, !.invites = {}]}
            /\ invites' \in {t.invites, {}}   \* none if they could not be read
            /\ apps' = t.apps /\ blank' \in {{}, t.apps}
       ELSE ticks' = ticks \ {t} /\ UNCHANGED <<apps, invites, blank>>
    /\ UNCHANGED <<share, answering, answered, tabVars>>

TickFails(t) ==
    /\ t.at = "back"
    /\ ticks' = (ticks \ {t}) \cup
                IF t.live THEN {[t EXCEPT !.at = "wait", !.apps = {}, !.invites = {}]} ELSE {}
    /\ UNCHANGED <<share, apps, invites, blank, answering, answered, tabVars>>

TickAgain(t) ==
    /\ t.at = "wait" /\ ticks' = (ticks \ {t}) \cup {NewTick}
    /\ UNCHANGED <<share, apps, invites, blank, answering, answered, tabVars>>

\* reload: the effect is cleaned up and set up again.
Reload == ticks' = {[t EXCEPT !.live = FALSE] : t \in {u \in ticks : u.at # "wait"}} \cup {NewTick}

answer(a, accept) ==
    /\ a \in invites /\ answering = Null
    /\ answering' = [app |-> a, accept |-> accept, at |-> "sent"]
    /\ UNCHANGED <<share, ticks, apps, invites, blank, answered, tabVars>>

\* The server takes it if the invitation is still there.
AnswerTaken ==
    /\ answering # Null /\ answering.at = "sent"
    /\ answering' = [answering EXCEPT !.at = "back"]
    /\ IF share[answering.app].at = "invited"
       THEN /\ share' = [share EXCEPT ![answering.app] =
                           IF answering.accept THEN [@ EXCEPT !.at = "member"] ELSE NoShare]
            /\ answered' = answered \cup {answering.app}
       ELSE UNCHANGED <<share, answered>>
    /\ UNCHANGED <<ticks, apps, invites, blank, tabVars>>

\* Whatever came of it, the list is read again.
AnswerDone ==
    /\ answering # Null /\ answering.at \in {"sent", "back"} /\ answering' = Null
    /\ Reload
    /\ UNCHANGED <<share, apps, invites, blank, answered, tabVars>>

-----------------------------------------------------------------------------
(* The tab of the members *)

LoadRead(l) ==
    /\ l.got = Null /\ loads' = (loads \ {l}) \cup {[l EXCEPT !.got = share[Own]]}
    /\ UNCHANGED <<share, boardVars, data, call, error, changes>>

\* An action is over when what it has read again is there.
LoadAnswered(l) ==
    /\ l.got # Null /\ loads' = loads \ {l} /\ data' = l.got
    /\ call' = IF l.mine THEN Null ELSE call
    /\ UNCHANGED <<share, boardVars, error, changes>>

LoadFails(l) ==
    /\ loads' = loads \ {l} /\ error' = TRUE
    /\ call' = IF l.mine THEN Null ELSE call
    /\ UNCHANGED <<share, boardVars, data, changes>>

run(what, role) ==
    /\ ~busy /\ changes < MaxChanges /\ changes' = changes + 1
    /\ call' = [what |-> what, role |-> role] /\ error' = FALSE
    /\ UNCHANGED <<share, boardVars, data, loads>>

onInvite(r) == run("invite", r)
onRole(r) == data # Null /\ data.at = "member" /\ run("role", r)
onAction == data # Null /\ data.at # "none" /\ run("remove", Null)

\* Actions the server would do now, and what they make of the share.
Possible(c) == IF c.what = "invite" THEN share[Own].at = "none" ELSE share[Own].at # "none"
Made(c) ==
    CASE c.what = "invite" -> [at |-> "invited", role |-> c.role]
      [] c.what = "role" -> [share[Own] EXCEPT !.role = c.role]
      [] OTHER -> NoShare

Done ==
    /\ busy /\ ~\E l \in loads : l.mine
    /\ Possible(call)
    /\ share' = [share EXCEPT ![Own] = Made(call)]
    /\ answered' = IF call.what = "invite" THEN answered \ {Own} ELSE answered
    /\ loads' = loads \cup {[NewLoad EXCEPT !.mine = TRUE]}
    /\ UNCHANGED <<ticks, apps, invites, blank, answering, data, call, error, changes>>

Refused ==
    /\ busy /\ ~\E l \in loads : l.mine
    /\ call' = Null /\ error' = TRUE
    /\ UNCHANGED <<share, boardVars, data, loads, changes>>

Next ==
    \/ \E t \in ticks : TickRead(t) \/ TickAnswered(t) \/ TickFails(t) \/ TickAgain(t)
    \/ \E a \in invites, accept \in BOOLEAN : answer(a, accept)
    \/ AnswerTaken \/ AnswerDone
    \/ \E l \in loads : LoadRead(l) \/ LoadAnswered(l) \/ LoadFails(l)
    \/ \E r \in Roles : onInvite(r) \/ onRole(r)
    \/ onAction \/ Done \/ Refused

Spec == Init /\ [][Next]_vars

-----------------------------------------------------------------------------
TypeOK ==
    /\ share \in [Apps -> Share] /\ data \in Share \cup {Null}
    /\ ticks \subseteq Tick /\ Cardinality({t \in ticks : t.live}) = 1
    /\ {apps, invites, blank} \subseteq SUBSET Apps /\ changes \in 0 .. MaxChanges
    /\ FirstDeploy \in BOOLEAN /\ InviteButtons \in {"on", "off"}
    /\ \A a \in Apps : SlotRow(a) => ~FirstDeploy
    /\ ShareRow \in {"loading", "none", "invited", "member"}

\* An invitation that was answered and has left the dashboard does not come back to
\* it, however late the answers of earlier polls are.
AnsweredStaysGone ==
    \A a \in answered : a \notin invites /\ answering = Null /\ a \in answered' => a \notin invites'

\* What each step keeps: an invitation that was answered is over on the server, and
\* once the answer is back no poll that still counts has it.
Actions == [what : {"invite", "role"}, role : Roles] \cup [what : {"remove"}, role : {Null}]
AnsweredInv ==
    /\ share \in [Apps -> Share] /\ ticks \subseteq Tick /\ invites \subseteq Apps
    /\ answering # Null => answering \in Answers
    /\ call # Null => call \in Actions
    /\ answered \subseteq Apps
    /\ \A a \in answered : share[a].at # "invited"
    /\ answering = Null => \A t \in ticks, a \in answered : t.live => a \notin t.invites

\* The inductive invariant behind the types: one poll is not cancelled, and none that
\* waits is.
TypeInv ==
    /\ TypeOK /\ AnsweredInv
    /\ \E t \in ticks : \A u \in ticks : u.live <=> u = t
    /\ \A t \in ticks : t.at = "wait" => t.live
    /\ loads \subseteq [got : Share \cup {Null}, mine : BOOLEAN]

=============================================================================
