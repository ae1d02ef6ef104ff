------------------------------- MODULE AppEnv -------------------------------
(***************************************************************************)
(* The tab of the environment variables                                    *)
(* (web/src/components/app/AppEnv.jsx) and the copy of them that the shell  *)
(* around the tabs reads once (AppLayout.jsx).  The tab is thrown away when *)
(* another one is opened, the shell is not.                                 *)
(*                                                                         *)
(* Abstracted: the table is a function from names to values; a row without *)
(* a name, or with a name twice, is "bad"; sizes and masks are left out,    *)
(* but for whether every value is shown.  Nobody else changes the Secret.   *)
(***************************************************************************)
EXTENDS Naturals, Functions

CONSTANTS
    Names,      \* of variables
    Reserved,   \* those a dependency of the app brings along
    Values,
    MaxVisits,  \* bound: times the tab is opened
    MaxCalls,   \* bound: saves
    Null

Env == UNION {[D -> Values] : D \in SUBSET Names}

EnvAssumption ==
    /\ Reserved \subseteq Names /\ Null \notin Values \cup Env \cup Nat
    /\ MaxVisits \in Nat /\ MaxCalls \in Nat

VARIABLES
    secret,     \* of the app
    envVars,    \* the shell's copy, Null while it is out
    wellRead,   \* that copy is one, not the empty one after a failure
    source,     \* history: the visit whose save replaced the Secret last; 0 if none
                \* did, Null if its answer got lost
    shown, visits,
    rows, bad, saved,   \* of the tab
    calls,              \* saves on their way, each with the visit it was made in
    reservedMap,        \* the reserved names are known
    notice, visible, made

shell == <<secret, envVars, wellRead, source>>
tab == <<rows, bad, saved, reservedMap, notice, visible>>
vars == <<shell, shown, visits, tab, calls, made>>

\* A call of a tab that is gone changes nothing on the page.
saving == shown /\ \E c \in calls : c.visit = visits

NoEnv == [n \in {} |-> Null]

dirty == rows # Null /\ saved # Null /\ rows # saved
issue == bad \/ (reservedMap /\ rows # Null /\ DOMAIN rows \cap Reserved # {})
Footer == IF notice = "error" \/ issue THEN "refused" ELSE notice
reservedCount == IF reservedMap THEN Reserved ELSE {}

-----------------------------------------------------------------------------
Empty ==
    /\ rows = Null /\ saved = Null /\ bad = FALSE
    /\ reservedMap = FALSE /\ notice = "none" /\ visible = FALSE

Init ==
    /\ secret \in {e \in Env : DOMAIN e \cap Reserved = {}}
    /\ envVars = Null /\ wellRead = FALSE /\ source = 0
    /\ shown = FALSE /\ visits = 0 /\ calls = {} /\ made = 0 /\ Empty

\* getEnvVars of the shell answers, or fails: then there are none.
EnvRead ==
    /\ envVars = Null
    /\ \/ envVars' = secret /\ wellRead' = TRUE
       \/ envVars' = NoEnv /\ wellRead' = FALSE
    /\ UNCHANGED <<secret, source, shown, visits, tab, calls, made>>

Open ==
    /\ ~shown /\ visits < MaxVisits
    /\ shown' = TRUE /\ visits' = visits + 1
    /\ UNCHANGED <<shell, tab, calls, made>>

\* A save that is out goes on without the tab.
Leave ==
    /\ shown /\ shown' = FALSE
    /\ rows' = Null /\ saved' = Null /\ bad' = FALSE /\ notice' = "none"
    /\ reservedMap' = FALSE /\ visible' = FALSE
    /\ UNCHANGED <<shell, visits, calls, made>>

\* The tab starts from the shell's copy, once.
Fill ==
    /\ shown /\ rows = Null /\ envVars # Null
    /\ rows' = envVars /\ saved' = envVars
    /\ UNCHANGED <<shell, shown, visits, bad, reservedMap, notice, visible, calls, made>>

ReservedRead ==
    /\ shown /\ ~reservedMap /\ reservedMap' = TRUE
    /\ UNCHANGED <<shell, shown, visits, rows, bad, saved, notice, visible, calls, made>>

Editing == shown /\ rows # Null

Edit(new, note) ==
    /\ rows' = new /\ notice' = note
    /\ UNCHANGED <<shell, shown, visits, saved, reservedMap, calls, made>>

Without(n) == Restrict(rows, DOMAIN rows \ {n})
Merged(file) == [n \in DOMAIN rows \cup DOMAIN file |->
                    IF n \in DOMAIN file THEN file[n] ELSE rows[n]]

patch(n, v) ==
    Editing /\ Edit(Merged([m \in {n} |-> v]), "none") /\ UNCHANGED <<bad, visible>>
spoil == Editing /\ Edit(rows, "none") /\ bad' = TRUE /\ UNCHANGED visible
removeRow(n) ==
    Editing /\ n \in DOMAIN rows /\ Edit(Without(n), notice) /\ bad' = FALSE /\ UNCHANGED visible
onImport(file) ==
    Editing /\ Edit(Merged(file), "imported") /\ UNCHANGED bad /\ visible' = FALSE
onReset ==
    Editing /\ dirty /\ ~saving /\ Edit(saved, "none") /\ bad' = FALSE /\ visible' = FALSE
toggleAll == Editing /\ Edit(rows, notice) /\ UNCHANGED bad /\ visible' = ~visible

onSave ==
    /\ shown /\ dirty /\ ~issue /\ ~saving /\ made < MaxCalls
    /\ calls' = calls \cup {[visit |-> visits, env |-> rows]} /\ made' = made + 1
    /\ notice' = "none"
    /\ UNCHANGED <<shell, shown, visits, rows, bad, saved, reservedMap, visible>>

Accepted(c) == DOMAIN c.env \cap Reserved = {}
Here(c) == shown /\ c.visit = visits

\* The Secret is replaced, and the table by what was saved: edits made meanwhile
\* go.  The shell's copy stays.
Saved(c) ==
    /\ Accepted(c) /\ secret' = c.env /\ source' = c.visit /\ calls' = calls \ {c}
    /\ IF Here(c)
       THEN /\ saved' = c.env /\ rows' = c.env
            /\ bad' = FALSE /\ notice' = "saved" /\ visible' = FALSE
       ELSE UNCHANGED <<saved, rows, bad, notice, visible>>
    /\ UNCHANGED <<envVars, wellRead, shown, visits, reservedMap, made>>

\* Refused, or done with its answer lost.
SaveFails(c) ==
    /\ calls' = calls \ {c}
    /\ \/ UNCHANGED <<secret, source>>
       \/ Accepted(c) /\ secret' = c.env /\ source' = Null
    /\ notice' = IF Here(c) THEN "error" ELSE notice
    /\ UNCHANGED <<envVars, wellRead, shown, visits, rows, bad, saved, reservedMap, visible,
                   made>>

Next ==
    \/ EnvRead \/ Open \/ Leave \/ Fill \/ ReservedRead
    \/ \E n \in Names, v \in Values : patch(n, v)
    \/ \E n \in Names : removeRow(n)
    \/ \E n \in Names, v \in Values : onImport([m \in {n} |-> v])
    \/ spoil \/ onReset \/ toggleAll
    \/ onSave
    \/ \E c \in calls : Saved(c) \/ SaveFails(c)

Spec == Init /\ [][Next]_vars

-----------------------------------------------------------------------------
TypeOK ==
    /\ secret \in Env /\ envVars \in Env \cup {Null} /\ rows \in Env \cup {Null}
    /\ Footer \in {"none", "refused", "imported", "saved"}
    /\ reservedCount \in {{}, Reserved}
    /\ visits \in 0 .. MaxVisits /\ made \in 0 .. MaxCalls

\* What the tab compares with to enable its button, and goes back to, is what the
\* app has: "saved" is the environment last saved (AppEnv.jsx:144), on every visit,
\* whatever the user edits, imports, resets or saves and whatever fails, as long as
\* the Secret was last replaced by a save of this visit, or by none and the shell
\* could read it.  After a save of an earlier visit it is not: the shell's copy,
\* which the tab starts from, is the one from before (AppEnv.jsx:152-157), and a
\* save that was out when the tab was left may still land.
SavedIsSecret ==
    saved # Null /\ (source = visits \/ (source = 0 /\ wellRead)) => saved = secret

\* What each step keeps: the tab is filled before it can save, and what was saved
\* before is of an earlier visit.
EnvTyped ==
    /\ secret \in Env /\ envVars \in Env \cup {Null}
    /\ rows \in Env \cup {Null} /\ saved \in Env \cup {Null}
    /\ \A c \in calls : c.env \in Env
    /\ notice \in {"none", "error", "imported", "saved"}
    /\ visits \in 0 .. MaxVisits /\ made \in 0 .. MaxCalls
    /\ source \in (0 .. visits) \cup {Null}
    /\ \A c \in calls : c.visit \in 1 .. visits

Filled ==
    /\ saved = Null <=> rows = Null
    /\ ~shown => saved = Null
    /\ shown => visits # 0
    /\ envVars = Null => saved = Null /\ calls = {} /\ source = 0
    /\ shown /\ saved = Null => source # visits /\ \A c \in calls : c.visit # visits
    /\ source = 0 /\ wellRead /\ envVars # Null => envVars = secret
    /\ SavedIsSecret

EnvInv == EnvTyped /\ Filled

=============================================================================
