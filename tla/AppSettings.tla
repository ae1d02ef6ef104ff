---------------------------- MODULE AppSettings ----------------------------
(***************************************************************************)
(* The tab of the settings (web/src/components/app/AppSettings.jsx): the    *)
(* custom domain with its poll and its buttons, the restore of the         *)
(* database, and the deletion of the app (DeleteAppModal.jsx).  One section *)
(* is open at a time; opening another one throws its state away, not the    *)
(* requests it made.                                                       *)
(*                                                                         *)
(* Abstracted: DNS and Cloudflare are one step from pending to active; a    *)
(* file is a model value; the poll's two periods are one.                   *)
(***************************************************************************)
EXTENDS Naturals

CONSTANTS
    Domains,    \* that may be typed
    Files,      \* that may be picked for a restore
    MaxCalls,   \* bound: changes of the domain and restores
    Null

SettingsAssumption ==
    MaxCalls \in Nat /\ Null \notin Domains \cup Files \cup {"pending", "active"}

VARIABLES
    dom,        \* the server's domain and its status
    section, moved,  \* moved: the user has left a section
    info,       \* Null while loading
    poll, check, \* the request of the poll and of the button: see Get
    draft, editing, confirmOff,
    calls,      \* changes on their way, "mine" if made from the open section
    file, confirming, asked,  \* asked: the file the first press was made for
    deleteOpen, typed, deleting, gone,
    error, made

domainVars == <<info, poll, check, draft, editing, confirmOff>>
storageVars == <<file, confirming, asked>>
deleteVars == <<deleteOpen, typed, deleting, gone>>
vars == <<dom, section, moved, domainVars, calls, storageVars, deleteVars, error, made>>

NoDomain == [name |-> Null, status |-> Null]
Dom == {NoDomain} \cup [name : Domains, status : {"pending", "active"}]
SECTIONS == {"general", "domain", "storage", "danger"}

\* A read: not made, sent, or with the server's answer on its way back.
NoGet == [at |-> "no", got |-> NoDomain]
Sent == [at |-> "sent", got |-> NoDomain]
Get == [at : {"no", "sent", "back"}, got : Dom]

busy == \E c \in calls : c.mine
loading == info = Null
domain == IF loading THEN Null ELSE info.name
editable == editing \/ domain = Null
records == IF domain # Null /\ info.status # "active" THEN {"CNAME"} ELSE {}

\* The two presses of the button that takes the domain away.
OffButton == IF editable THEN "none" ELSE IF confirmOff THEN "again" ELSE "off"
RestoreButton == IF file = Null THEN "pick" ELSE IF confirming THEN "again" ELSE "restore"

Open == section \in SECTIONS /\ ~deleteOpen

-----------------------------------------------------------------------------
Fresh ==
    /\ info' = Null /\ check' = NoGet /\ draft' = Null /\ editing' = FALSE /\ confirmOff' = FALSE
    /\ file' = Null /\ confirming' = FALSE /\ asked' = Null /\ error' = FALSE

Init ==
    /\ dom \in Dom /\ section = "domain" /\ moved = FALSE
    /\ info = Null /\ poll = Sent /\ check = NoGet
    /\ draft = Null /\ editing = FALSE /\ confirmOff = FALSE
    /\ calls = {} /\ file = Null /\ confirming = FALSE /\ asked = Null
    /\ deleteOpen = FALSE /\ typed = FALSE /\ deleting = FALSE /\ gone = FALSE
    /\ error = FALSE /\ made = 0

\* The section of the build settings links to "base", a name it does not have:
\* the page goes down with it.
select(s) ==
    /\ Open /\ s # section
    /\ section' = IF s = "general" THEN "down" ELSE s
    /\ moved' = TRUE /\ Fresh
    /\ poll' = IF s = "domain" THEN Sent ELSE NoGet
    /\ calls' = {[c EXCEPT !.mine = FALSE] : c \in calls}
    /\ UNCHANGED <<dom, deleteVars, made>>

\* The domain is checked behind the server.
Verified ==
    /\ dom.status = "pending" /\ dom' = [dom EXCEPT !.status = "active"]
    /\ UNCHANGED <<section, moved, domainVars, calls, storageVars, deleteVars, error, made>>

-----------------------------------------------------------------------------
(* The domain: poll, "check now", connect, disconnect *)

domainRest == <<dom, section, moved, draft, editing, confirmOff, calls, storageVars, deleteVars,
                made>>

PollRead ==
    /\ poll.at = "sent" /\ poll' = [at |-> "back", got |-> dom]
    /\ UNCHANGED <<domainRest, info, check, error>>

\* A failure is quiet and ends the loading all the same.
PollAnswered ==
    /\ poll.at = "back" /\ poll' = NoGet /\ info' = poll.got
    /\ UNCHANGED <<domainRest, check, error>>

PollFails ==
    /\ poll.at = "back" /\ poll' = NoGet
    /\ info' = IF loading THEN NoDomain ELSE info
    /\ UNCHANGED <<domainRest, check, error>>

\* After 8 or 30 seconds.
PollAgain ==
    /\ section = "domain" /\ poll = NoGet /\ poll' = Sent
    /\ UNCHANGED <<domainRest, info, check, error>>

onCheck ==
    /\ Open /\ section = "domain" /\ ~editable /\ check = NoGet
    /\ check' = Sent /\ error' = FALSE
    /\ UNCHANGED <<domainRest, info, poll>>

CheckRead ==
    /\ check.at = "sent" /\ check' = [at |-> "back", got |-> dom]
    /\ UNCHANGED <<domainRest, info, poll, error>>

CheckAnswered ==
    /\ check.at = "back" /\ check' = NoGet /\ info' = check.got
    /\ UNCHANGED <<domainRest, poll, error>>

CheckFails ==
    /\ check.at = "back" /\ check' = NoGet /\ error' = TRUE
    /\ UNCHANGED <<domainRest, info, poll>>

Draft(d) ==
    /\ Open /\ section = "domain" /\ ~loading /\ editable /\ ~busy /\ draft' = d
    /\ UNCHANGED <<dom, section, moved, info, poll, check, editing, confirmOff, calls, storageVars,
                   deleteVars, error, made>>

StartEdit ==
    /\ Open /\ section = "domain" /\ ~loading /\ ~editable
    /\ draft' = domain /\ editing' = TRUE /\ confirmOff' = FALSE
    /\ UNCHANGED <<dom, section, moved, info, poll, check, calls, storageVars, deleteVars, error,
                   made>>

CancelEdit ==
    /\ Open /\ section = "domain" /\ editing /\ domain # Null /\ ~busy
    /\ draft' = Null /\ editing' = FALSE /\ error' = FALSE
    /\ UNCHANGED <<dom, section, moved, info, poll, check, confirmOff, calls, storageVars,
                   deleteVars, made>>

Call(what, arg) ==
    /\ made < MaxCalls /\ made' = made + 1 /\ error' = FALSE
    /\ calls' = calls \cup {[what |-> what, arg |-> arg, mine |-> TRUE]}

onConnect ==
    /\ Open /\ section = "domain" /\ ~loading /\ editable /\ draft # Null /\ ~busy
    /\ Call("put", draft)
    /\ UNCHANGED <<dom, section, moved, domainVars, storageVars, deleteVars>>

onDisconnect ==
    /\ Open /\ section = "domain" /\ ~loading /\ ~editable /\ ~busy
    /\ IF confirmOff
       THEN Call("delete", Null) /\ UNCHANGED confirmOff
       ELSE confirmOff' = TRUE /\ UNCHANGED <<calls, error, made>>
    /\ UNCHANGED <<dom, section, moved, info, poll, check, draft, editing, storageVars, deleteVars>>

\* The press that follows is elsewhere.
Blur ==
    /\ confirmOff /\ confirmOff' = FALSE
    /\ UNCHANGED <<dom, section, moved, info, poll, check, draft, editing, calls, storageVars,
                   deleteVars, error, made>>

After(c) == IF c.what = "put" THEN [name |-> c.arg, status |-> "pending"] ELSE NoDomain

Changed(c) ==
    /\ c.what \in {"put", "delete"}
    /\ calls' = calls \ {c} /\ dom' = After(c)
    /\ IF c.mine
       THEN /\ info' = After(c) /\ draft' = Null
            /\ editing' = IF c.what = "put" THEN FALSE ELSE editing
            /\ confirmOff' = IF c.what = "delete" THEN FALSE ELSE confirmOff
       ELSE UNCHANGED <<info, draft, editing, confirmOff>>
    /\ UNCHANGED <<section, moved, poll, check, storageVars, deleteVars, error, made>>

\* Refused, or done but not passed on to the builder (502), or the answer is lost.
ChangeFails(c) ==
    /\ c.what \in {"put", "delete"}
    /\ calls' = calls \ {c} /\ dom' \in {dom, After(c)}
    /\ error' = (c.mine \/ error)
    /\ confirmOff' = IF c.mine /\ c.what = "delete" THEN FALSE ELSE confirmOff
    /\ UNCHANGED <<section, moved, info, poll, check, draft, editing, storageVars, deleteVars, made>>

-----------------------------------------------------------------------------
(* The restore and the deletion *)

storageRest == <<dom, section, moved, domainVars, deleteVars>>

onPick(f) ==
    /\ Open /\ section = "storage" /\ file = Null /\ ~busy
    /\ file' = f /\ confirming' = FALSE /\ error' = FALSE
    /\ UNCHANGED <<storageRest, calls, asked, made>>

Unpick ==
    /\ Open /\ file # Null /\ ~busy
    /\ file' = Null /\ confirming' = FALSE /\ error' = FALSE
    /\ UNCHANGED <<storageRest, calls, asked, made>>

onRestore ==
    /\ Open /\ file # Null /\ ~busy
    /\ IF confirming
       THEN Call("restore", file) /\ UNCHANGED <<confirming, asked>>
       ELSE confirming' = TRUE /\ asked' = file /\ UNCHANGED <<calls, error, made>>
    /\ UNCHANGED <<storageRest, file>>

Restored(c) ==
    /\ c.what = "restore" /\ calls' = calls \ {c}
    /\ IF c.mine THEN error' \in BOOLEAN /\ confirming' = FALSE
       ELSE UNCHANGED <<error, confirming>>
    /\ UNCHANGED <<storageRest, file, asked, made>>

deleteRest == <<dom, section, moved, domainVars, storageVars, calls, error, made>>

ToggleDelete ==
    /\ section = "danger" /\ ~deleting /\ ~gone
    /\ deleteOpen' = ~deleteOpen /\ typed' = FALSE
    /\ UNCHANGED <<deleteRest, deleting, gone>>

TypeName ==
    /\ deleteOpen /\ ~deleting /\ typed' = ~typed
    /\ UNCHANGED <<deleteRest, deleteOpen, deleting, gone>>

handleDelete ==
    /\ deleteOpen /\ typed /\ ~deleting /\ deleting' = TRUE
    /\ UNCHANGED <<deleteRest, deleteOpen, typed, gone>>

\* The list of the apps comes next.
Deleted ==
    /\ deleting /\ deleting' = FALSE /\ gone' = TRUE
    /\ deleteOpen' = FALSE /\ section' = "left"
    /\ UNCHANGED <<dom, moved, domainVars, storageVars, calls, typed, error, made>>

DeleteFails ==
    /\ deleting /\ deleting' = FALSE
    /\ UNCHANGED <<deleteRest, deleteOpen, typed, gone>>

-----------------------------------------------------------------------------
Next ==
    \/ \E s \in SECTIONS : select(s)
    \/ Verified \/ PollRead \/ PollAnswered \/ PollFails \/ PollAgain
    \/ onCheck \/ CheckRead \/ CheckAnswered \/ CheckFails
    \/ \E d \in Domains : Draft(d)
    \/ StartEdit \/ CancelEdit \/ onConnect \/ onDisconnect \/ Blur
    \/ \E c \in calls : Changed(c) \/ ChangeFails(c) \/ Restored(c)
    \/ \E f \in Files : onPick(f)
    \/ Unpick \/ onRestore
    \/ ToggleDelete \/ TypeName \/ handleDelete \/ Deleted \/ DeleteFails

CheckReturns == CheckRead \/ CheckAnswered \/ CheckFails
CallReturns == \E c \in calls : Changed(c) \/ ChangeFails(c) \/ Restored(c)

\* Timers fire, and of the polls made for ever some is answered.
Fairness ==
    /\ WF_vars(PollRead) /\ WF_vars(PollAgain) /\ SF_vars(PollAnswered)
    /\ WF_vars(CheckReturns) /\ WF_vars(CallReturns)

Spec == Init /\ [][Next]_vars /\ Fairness

-----------------------------------------------------------------------------
TypeOK ==
    /\ dom \in Dom /\ (loading \/ info \in Dom) /\ {poll, check} \subseteq Get
    /\ section \in SECTIONS \cup {"down", "left"} /\ records \subseteq {"CNAME"}
    /\ OffButton \in {"none", "off", "again"} /\ RestoreButton \in {"pick", "restore", "again"}
    /\ draft \in Domains \cup {Null} /\ made \in 0 .. MaxCalls

\* A database is overwritten with the file both presses were made for, never with
\* one picked in between.
ConfirmedFile ==
    /\ RestoreButton = "again" => asked = file
    /\ \A c \in calls : c.what = "restore" => c.arg \in Files

\* While the section of the domain stays open, it comes to show the server's
\* domain, even after a late answer of the poll or the button has put back an
\* older one, and after changes whose answer got lost.
AtDomain == section = "domain"
CaughtUp == info = dom
DomainCatchesUp == <>[]AtDomain => <>[]CaughtUp

\* What each step keeps: a file that was asked about stays until it is restored or
\* put away.
Changes ==
    [what : {"put"}, arg : Domains, mine : BOOLEAN]
        \cup [what : {"delete"}, arg : {Null}, mine : BOOLEAN]
        \cup [what : {"restore"}, arg : Files, mine : BOOLEAN]
RestoreInv ==
    /\ TypeOK /\ calls \subseteq Changes /\ file \in Files \cup {Null}
    /\ confirming => asked = file

=============================================================================
