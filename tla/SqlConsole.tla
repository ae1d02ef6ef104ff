----------------------------- MODULE SqlConsole -----------------------------
(***************************************************************************)
(* SqlConsole of web/src/components/app/AppWorkspace.jsx with              *)
(* lib/sqlHistory.js: an editor, one query at a time, the pages of its     *)
(* result, the recent runs kept in the browser and the saved queries kept  *)
(* by core.  A scope is a user, an app and its kind of database; the       *)
(* database may change under an open console, when a new build brings      *)
(* another one.                                                            *)
(*                                                                         *)
(* Abstracted: SQL is a model value ("" when empty), a saved query its id   *)
(* and SQL; searching, sorting and colouring of what is listed; the result  *)
(* and the times that an entry of the history shows.  For the properties    *)
(* an entry names the scope its query was run in.  The browser's storage    *)
(* is there and has room.                                                   *)
(***************************************************************************)
EXTENDS Naturals, Sequences, FiniteSets

CONSTANTS
    Texts,          \* SQL texts
    Scopes,         \* (user, app, database): where a history is kept
    HISTORY_LIMIT,
    MaxPage,        \* bound: last page of a result
    MaxCalls,       \* bound: calls sent
    Null

NoText == ""    \* an empty editor

SqlAssumption ==
    /\ NoText \notin Texts /\ Null \notin Texts \cup Scopes
    /\ HISTORY_LIMIT \in Nat \ {0} /\ MaxPage \in Nat /\ MaxCalls \in Nat

VARIABLES
    scope,     \* of the render on screen; Null while one part is missing
    sql, result, executed, error, loading, tab,
    history,   \* the list on screen
    store,     \* localStorage: scope -> list
    saved, savedError, dialog,
    call,      \* the query on its way, with what its closure captured
    saving,    \* the form is being submitted
    listing,   \* the request for the saved queries of this scope
    deleting,  \* ids whose deletion is on its way
    calls,     \* calls sent
    mixed,     \* history: the list on screen got the entry of another scope's query
    crossed    \* history: scopes whose slot was written from such a list, or from that of
               \* another scope

runVars == <<result, executed, error, loading, call>>
keptVars == <<history, store, mixed, crossed>>
savedVars == <<saved, savedError, listing, deleting>>
formVars == <<dialog, saving>>
vars == <<scope, sql, tab, runVars, keptVars, savedVars, formVars, calls>>

\* What the result tab is filled with.
Pane ==
    IF error THEN "error"
    ELSE IF loading /\ result = Null THEN "running"
    ELSE IF result = Null THEN "hint"
    ELSE "rows"

\* The list of recent runs, and why it is empty.
RecentPane ==
    IF history # <<>> THEN "rows"
    ELSE IF scope # Null THEN "none yet"
    ELSE "not kept"

SavedPane ==
    IF saved # {} THEN "rows" ELSE IF scope = Null THEN "no database" ELSE "none yet"

loadHistory(s) == IF s = Null THEN <<>> ELSE store[s]

saveHistory(s, entries) ==
    IF s = Null THEN store ELSE [store EXCEPT ![s] = entries]

pushEntry(entries, entry) ==
    SubSeq(<<entry>> \o entries, 1,
           IF Len(entries) < HISTORY_LIMIT THEN Len(entries) + 1 ELSE HISTORY_LIMIT)

-----------------------------------------------------------------------------
Init ==
    /\ scope \in Scopes /\ sql = NoText /\ tab = "result"
    /\ result = Null /\ executed = NoText /\ error = FALSE /\ loading = FALSE
    /\ call = Null
    /\ history = <<>> /\ store = [s \in Scopes |-> <<>>]
    /\ saved = {} /\ savedError = FALSE /\ listing = TRUE /\ deleting = {}
    /\ dialog = Null /\ saving = FALSE /\ calls = 0
    /\ mixed = FALSE /\ crossed = {}

\* Mutant: the effect of the scope lists the saved queries and reads no recent runs.
SwitchKeepsHistory(s) ==
    /\ s # scope /\ calls < MaxCalls /\ calls' = calls + 1
    /\ scope' = s
    /\ IF s = Null THEN saved' = {} /\ listing' = FALSE
       ELSE listing' = TRUE /\ UNCHANGED saved
    /\ UNCHANGED <<sql, tab, runVars, keptVars, savedError, deleting, formVars>>

\* The two effects that follow a change of scope, at any time of a query.
SwitchScope(s) ==
    /\ s # scope /\ calls < MaxCalls /\ calls' = calls + 1
    /\ scope' = s
    /\ history' = loadHistory(s) /\ mixed' = FALSE
    /\ IF s = Null THEN saved' = {} /\ listing' = FALSE
       ELSE listing' = TRUE /\ UNCHANGED saved
    /\ UNCHANGED <<sql, tab, runVars, store, crossed, savedError, deleting, formVars>>

\* listSavedQueries answers; an answer to an earlier scope is dropped.
SavedListed ==
    /\ listing /\ listing' = FALSE
    /\ \/ /\ \/ saved' = {}
             \/ \E text \in Texts : saved' = {[id |-> 1, sql |-> text]}
          /\ savedError' = FALSE
       \/ savedError' = TRUE /\ UNCHANGED saved
    /\ UNCHANGED <<scope, sql, tab, runVars, keptVars, deleting, formVars, calls>>

Type(text) ==
    /\ dialog = Null
    /\ sql' = text
    /\ UNCHANGED <<scope, tab, runVars, keptVars, savedVars, formVars, calls>>

\* The closure of the render that sent the call keeps that render's scope.
FetchPage(q, page, log) ==
    /\ ~loading /\ calls < MaxCalls
    /\ loading' = TRUE /\ error' = FALSE /\ calls' = calls + 1
    /\ call' = [sql |-> q, page |-> page, log |-> log, scope |-> scope]

Run ==
    /\ dialog = Null /\ sql # NoText
    /\ FetchPage(sql, 0, TRUE)
    /\ result' = Null /\ tab' = "result"
    /\ UNCHANGED <<scope, sql, executed, keptVars, savedVars, formVars>>

TurnPage ==
    /\ dialog = Null /\ tab = "result" /\ result # Null
    /\ \/ result.page > 0 /\ FetchPage(executed, result.page - 1, FALSE)
       \/ result.more /\ FetchPage(executed, result.page + 1, FALSE)
    /\ UNCHANGED <<scope, sql, tab, result, executed, keptVars, savedVars, formVars>>

\* setHistory with the list as it is now, saved under the scope of the closure.  A
\* query of another scope puts its entry on top of the list of this one, and both
\* into its own slot.
Record ==
    LET next == pushEntry(history, [sql |-> call.sql, scope |-> call.scope])
    IN IF call.log
       THEN /\ history' = next /\ store' = saveHistory(call.scope, next)
            /\ mixed' = (call.scope # scope)
            /\ crossed' = IF mixed \/ call.scope # scope
                          THEN (crossed \cup {call.scope}) \ {Null} ELSE crossed
       ELSE UNCHANGED keptVars

QueryDone ==
    /\ call # Null /\ call' = Null /\ loading' = FALSE
    /\ \E more \in {TRUE, FALSE} :
        /\ more => call.page < MaxPage
        /\ result' = [sql |-> call.sql, page |-> call.page, more |-> more]
    /\ executed' = call.sql
    /\ Record
    /\ UNCHANGED <<scope, sql, tab, error, savedVars, formVars, calls>>

\* A 400 says that the SQL failed; without an answer it may have been executed.  It
\* is recorded in either case.
QueryFails ==
    /\ call # Null /\ call' = Null /\ loading' = FALSE
    /\ error' = TRUE /\ result' = Null
    /\ Record
    /\ UNCHANGED <<scope, sql, tab, executed, savedVars, formVars, calls>>

putIntoEditor(text) == sql' = text /\ dialog' = Null

\* Straight into the editor if what is there is empty, the same, or was run.
loadIntoEditor(text) ==
    IF sql \in {NoText, text, executed} THEN putIntoEditor(text)
    ELSE dialog' = [kind |-> "replace", sql |-> text] /\ UNCHANGED sql

\* From a list, or handed over by the browser of tables.
Load(text) ==
    /\ dialog = Null
    /\ \/ tab = "recent" /\ \E i \in DOMAIN history : history[i].sql = text
       \/ tab = "saved" /\ \E row \in saved : row.sql = text
       \/ tab = "result"
    /\ loadIntoEditor(text)
    /\ UNCHANGED <<scope, tab, runVars, keptVars, savedVars, saving, calls>>

Confirm ==
    /\ dialog # Null /\ dialog.kind = "replace"
    /\ putIntoEditor(dialog.sql)
    /\ UNCHANGED <<scope, tab, runVars, keptVars, savedVars, saving, calls>>

Close ==
    /\ dialog # Null /\ ~saving
    /\ dialog' = Null
    /\ UNCHANGED <<scope, sql, tab, runVars, keptVars, savedVars, saving, calls>>

OpenSave ==
    /\ dialog = Null
    /\ \E text \in Texts :
        /\ \/ text = sql
           \/ tab = "recent" /\ \E i \in DOMAIN history : history[i].sql = text
        /\ dialog' = [kind |-> "create", sql |-> text]
    /\ UNCHANGED <<scope, sql, tab, runVars, keptVars, savedVars, saving, calls>>

OpenEdit(row) ==
    /\ dialog = Null /\ tab = "saved"
    /\ dialog' = [kind |-> "edit", id |-> row.id, sql |-> row.sql]
    /\ UNCHANGED <<scope, sql, tab, runVars, keptVars, savedVars, saving, calls>>

Submit ==
    /\ dialog # Null /\ dialog.kind # "replace" /\ ~saving /\ calls < MaxCalls
    /\ saving' = TRUE /\ calls' = calls + 1
    /\ UNCHANGED <<scope, sql, tab, runVars, keptVars, savedVars, dialog>>

\* The new id is the server's: any that is not listed.
Submitted ==
    /\ saving /\ saving' = FALSE /\ dialog' = Null /\ savedError' = FALSE
    /\ IF dialog.kind = "create"
       THEN /\ \E id \in 1 .. MaxCalls + 1 :
                 /\ \A row \in saved : row.id < id
                 /\ saved' = saved \cup {[id |-> id, sql |-> dialog.sql]}
            /\ tab' = "saved"
       ELSE /\ saved' = {IF row.id = dialog.id THEN [row EXCEPT !.sql = dialog.sql] ELSE row :
                            row \in saved}
            /\ UNCHANGED tab
    /\ UNCHANGED <<scope, sql, runVars, keptVars, listing, deleting, calls>>

\* The form stays open and shows the error.
SubmitFails ==
    /\ saving /\ saving' = FALSE
    /\ UNCHANGED <<scope, sql, tab, runVars, keptVars, savedVars, dialog, calls>>

RemoveSaved(row) ==
    /\ dialog = Null /\ tab = "saved" /\ calls < MaxCalls
    /\ deleting' = deleting \cup {row.id} /\ savedError' = FALSE /\ calls' = calls + 1
    /\ UNCHANGED <<scope, sql, tab, runVars, keptVars, saved, listing, formVars>>

Removed(id) ==
    /\ deleting' = deleting \ {id}
    /\ \/ saved' = {row \in saved : row.id # id} /\ UNCHANGED savedError
       \/ savedError' = TRUE /\ UNCHANGED saved
    /\ UNCHANGED <<scope, sql, tab, runVars, keptVars, listing, formVars, calls>>

OpenTab(t) ==
    /\ dialog = Null /\ tab' = t
    /\ UNCHANGED <<scope, sql, runVars, keptVars, savedVars, formVars, calls>>

Next ==
    \/ \E s \in Scopes \cup {Null} : SwitchScope(s)
    \/ SavedListed
    \/ \E text \in Texts \cup {NoText} : Type(text)
    \/ Run \/ TurnPage \/ QueryDone \/ QueryFails
    \/ \E text \in Texts : Load(text)
    \/ Confirm \/ Close \/ OpenSave
    \/ \E row \in saved : OpenEdit(row) \/ RemoveSaved(row)
    \/ Submit \/ Submitted \/ SubmitFails
    \/ \E id \in deleting : Removed(id)
    \/ \E t \in {"result", "recent", "saved"} : OpenTab(t)

Spec == Init /\ [][Next]_vars

-----------------------------------------------------------------------------
TypeOK ==
    /\ scope \in Scopes \cup {Null} /\ sql \in Texts \cup {NoText}
    /\ executed \in Texts \cup {NoText} /\ tab \in {"result", "recent", "saved"}
    /\ loading \in BOOLEAN /\ error \in BOOLEAN /\ savedError \in BOOLEAN
    /\ saving \in BOOLEAN /\ listing \in BOOLEAN
    /\ \A s \in Scopes : Len(store[s]) <= HISTORY_LIMIT
    /\ Len(history) <= HISTORY_LIMIT /\ calls \in 0 .. MaxCalls

\* The recent runs on screen are those the browser keeps for this user, app and
\* database, so what is shown is what is still there after a reload.  The one case
\* in which they are not: a query of another scope was answered after the change,
\* and nothing was recorded or read here since (mixed).
HistoryIsKept == scope # Null /\ ~mixed => history = store[scope]

\* Nobody else's runs are kept for a user, an app and a database: "after changing the
\* account or the database, the history of others is not shown" (AppWorkspace.jsx:
\* 1588-1589, sqlHistory.js:11-12).  This stops where a list was saved that holds an
\* entry of another scope's query, or that was another scope's (crossed): record
\* saves what is on screen under the scope that the query was sent from, against
\* its comment (AppWorkspace.jsx:1618-1620).  No other order of queries, changes
\* and answers mixes two lists.
HistoryIsOwn ==
    \A s \in Scopes \ crossed : \A i \in DOMAIN store[s] : store[s][i].scope = s

\* The rows are pages of the query that was executed, however the text in the
\* editor has changed since, and no rows are on screen while a new run waits.
RowsOfExecuted ==
    /\ result # Null => result.sql = executed
    /\ Pane = "rows" /\ loading => call.sql = executed /\ ~call.log

\* What each step keeps: of the query and its rows, of the recent runs, of the forms.
Rows == [sql : Texts \cup {NoText}, page : Nat, more : BOOLEAN]
Query == [sql : Texts \cup {NoText}, page : Nat, log : BOOLEAN, scope : Scopes \cup {Null}]
AskInv ==
    /\ result \in Rows \cup {Null} /\ call \in Query \cup {Null}
    /\ executed \in Texts \cup {NoText} /\ loading \in BOOLEAN /\ error \in BOOLEAN
    /\ call # Null => loading
    /\ result # Null => result.sql = executed
    /\ result # Null /\ loading => call.sql = executed /\ ~call.log

EntryOf(scopes) == [sql : Texts \cup {NoText}, scope : scopes]
ListsOf(scopes) == {list \in Seq(EntryOf(scopes)) : Len(list) <= HISTORY_LIMIT}
Lists == ListsOf(Scopes \cup {Null})
KeptInv ==
    /\ scope \in Scopes \cup {Null} /\ history \in Lists /\ store \in [Scopes -> Lists]
    /\ mixed \in BOOLEAN /\ crossed \subseteq Scopes
    /\ HistoryIsKept
    /\ \A s \in Scopes \ crossed : store[s] \in ListsOf({s})

SavedQuery == [id : Nat, sql : Texts]
Dialog == [kind : {"replace", "create"}, sql : Texts] \cup [kind : {"edit"}, id : Nat, sql : Texts]
FormInv ==
    /\ sql \in Texts \cup {NoText} /\ tab \in {"result", "recent", "saved"}
    /\ savedError \in BOOLEAN /\ saving \in BOOLEAN /\ listing \in BOOLEAN
    /\ dialog \in Dialog \cup {Null} /\ saved \in SUBSET SavedQuery
    /\ saving => dialog # Null /\ dialog.kind # "replace"
    /\ calls \in 0 .. MaxCalls

SqlInv == AskInv /\ KeptInv /\ FormInv

=============================================================================
