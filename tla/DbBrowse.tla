------------------------------ MODULE DbBrowse ------------------------------
(***************************************************************************)
(* DbBrowser of web/src/components/app/AppWorkspace.jsx: rows of a table   *)
(* chosen by columns, conditions, sort and page.  Every change of the      *)
(* query sends a new request and answers come in any order: `seq` lets     *)
(* only the last one in.  The list of tables has no such number.           *)
(*                                                                         *)
(* Abstracted: rows are named by the query they answer; a condition's      *)
(* operator and value are one of "" (not filled in), "ok" and "bad" (no    *)
(* number in a number column); offsets count pages; a new condition takes  *)
(* a free id in place of the next number.                                  *)
(***************************************************************************)
EXTENDS Naturals, Sequences, FiniteSets

CONSTANTS
    Lists,       \* what the server may answer as the list of tables
    Columns,     \* Columns[t]: the column names of table t
    MaxFilters,  \* conditions on screen (10 in the code)
    MaxPage,     \* bound: last page of any table
    MaxSeq,      \* bound: queries sent
    MaxLists,    \* bound: requests for the list on their way
    Null

Tables == DOMAIN Columns
AllColumns == UNION {Columns[t] : t \in Tables}

NotFilled == ""
Values == {NotFilled, "ok", "bad"}

\* The requests for rows.
Queries ==
    [table : Tables, columns : SUBSET AllColumns,
     filters : SUBSET [column : AllColumns, value : Values],
     sort : {Null} \cup [key : AllColumns, dir : {"asc", "desc"}], offset : Nat]

BrowseAssumption ==
    /\ Lists \subseteq Seq(Tables)
    /\ \A t \in Tables : Columns[t] # {} /\ IsFiniteSet(Columns[t])
    /\ MaxFilters \in Nat \ {0} /\ MaxPage \in Nat /\ MaxSeq \in Nat
    /\ MaxLists \in Nat \ {0}
    /\ Null \notin Tables \cup Queries

VARIABLES
    tables,       \* Null before the first answer
    tablesError,
    listing,      \* requests for the list that are on their way
    selectedKey, hidden, filters, applied, sort, offset,
    result,       \* Null, or the query whose rows are on screen and whether more follow
    error, loading,
    seq,          \* number of the last query sent
    pending       \* queries on their way

listVars == <<tables, tablesError, listing>>
controls == <<selectedKey, hidden, filters, applied, sort, offset>>
answerVars == <<result, error, loading, seq, pending>>
vars == <<listVars, controls, answerVars>>

\* The chosen table, or the first one.
table ==
    IF tables \in {Null, <<>>} THEN Null
    ELSE IF \E i \in DOMAIN tables : tables[i] = selectedKey THEN selectedKey
    ELSE tables[1]

columns == IF table = Null THEN {} ELSE Columns[table]

shown == columns \ hidden

\* The request that the controls stand for.
spec ==
    IF table = Null THEN Null
    ELSE [table |-> table, columns |-> shown,
          filters |-> {[column |-> f.column, value |-> f.value] : f \in applied},
          sort |-> sort, offset |-> offset]

problems == {f \in filters : f.value = "bad"}
ready == {f \in filters : f.value = "ok"}
dirty == ready # applied

Screen ==
    IF tables = Null THEN "loading"
    ELSE IF tablesError THEN "error"
    ELSE IF tables = <<>> THEN "empty"
    ELSE "table"

\* What fills the space under the toolbar.
Pane ==
    IF error THEN "error"
    ELSE IF result = Null THEN "waiting"
    ELSE "rows"

\* The number on the button of the column picker.
PickerCount == Cardinality(columns) - Cardinality(hidden)

-----------------------------------------------------------------------------
Init ==
    /\ tables = Null /\ tablesError = FALSE /\ listing = 1
    /\ selectedKey = Null /\ hidden = {} /\ filters = {} /\ applied = {}
    /\ sort = Null /\ offset = 0
    /\ result = Null /\ error = FALSE /\ loading = FALSE
    /\ seq = 0 /\ pending = {}

\* The effect that follows every render: a changed query, or a reload, is sent.
Fetch(reload) ==
    IF spec' # Null /\ (reload \/ spec' # spec)
    THEN /\ seq < MaxSeq
         /\ seq' = seq + 1 /\ loading' = TRUE /\ error' = FALSE
         /\ pending' = pending \cup {[n |-> seq', spec |-> spec']}
    ELSE UNCHANGED <<seq, loading, error, pending>>

TablesListed ==
    /\ listing > 0 /\ listing' = listing - 1
    /\ \E list \in Lists : tables' = list
    /\ UNCHANGED <<tablesError, controls, result>>
    /\ Fetch(FALSE)

TablesFail ==
    /\ listing > 0 /\ listing' = listing - 1
    /\ tables' = <<>> /\ tablesError' = TRUE
    /\ UNCHANGED <<controls, result>>
    /\ Fetch(FALSE)

\* Mutant: every answer is taken, not only that of the last query.
AnswerAny(p) ==
    /\ pending' = pending \ {p}
    /\ loading' = FALSE
    /\ \/ /\ \E more \in {TRUE, FALSE} :
                /\ more => p.spec.offset < MaxPage
                /\ result' = [spec |-> p.spec, more |-> more]
          /\ UNCHANGED error
       \/ result' = Null /\ error' = TRUE
    /\ UNCHANGED <<listVars, controls, seq>>

\* then, catch and finally of the effect: only for the last query.
Answer(p) ==
    /\ pending' = pending \ {p}
    /\ IF p.n # seq THEN UNCHANGED <<result, error, loading>>
       ELSE /\ loading' = FALSE
            /\ \/ /\ \E more \in {TRUE, FALSE} :
                        /\ more => p.spec.offset < MaxPage
                        /\ result' = [spec |-> p.spec, more |-> more]
                  /\ UNCHANGED error
               \/ result' = Null /\ error' = TRUE
    /\ UNCHANGED <<listVars, controls, seq>>

Pick(key) ==
    /\ Screen = "table"
    /\ key \in {tables[i] : i \in DOMAIN tables} \ {table}
    /\ selectedKey' = key
    /\ hidden' = {} /\ filters' = {} /\ applied' = {} /\ sort' = Null /\ offset' = 0
    /\ result' = Null
    /\ UNCHANGED listVars
    /\ Fetch(FALSE)

AddFilter ==
    /\ Screen = "table" /\ Cardinality(filters) < MaxFilters
    /\ \E id \in 1 .. MaxFilters, c \in columns :
        /\ \A f \in filters : f.id # id
        /\ filters' = filters \cup {[id |-> id, column |-> c, value |-> NotFilled]}
    /\ UNCHANGED <<listVars, answerVars, selectedKey, hidden, applied, sort, offset>>

PatchFilter(f) ==
    /\ Screen = "table"
    /\ \E c \in columns, v \in Values :
        filters' = (filters \ {f}) \cup {[f EXCEPT !.column = c, !.value = v]}
    /\ UNCHANGED <<listVars, answerVars, selectedKey, hidden, applied, sort, offset>>

Apply ==
    /\ Screen = "table" /\ filters # {} /\ problems = {}
    /\ applied' = ready /\ offset' = 0
    /\ UNCHANGED <<listVars, selectedKey, hidden, filters, sort, result>>
    /\ Fetch(FALSE)

\* Taken out at once, without another press of the button.
RemoveFilter(f) ==
    /\ Screen = "table"
    /\ filters' = filters \ {f}
    /\ applied' = {g \in applied : g.id # f.id}
    /\ offset' = IF applied' # applied THEN 0 ELSE offset
    /\ UNCHANGED <<listVars, selectedKey, hidden, sort, result>>
    /\ Fetch(FALSE)

\* The last column is not hidden: there is no SELECT without columns.
Toggled(name) ==
    IF name \in hidden THEN hidden \ {name}
    ELSE IF PickerCount > 1 THEN hidden \cup {name}
    ELSE hidden

ToggleColumn(name) ==
    /\ Screen = "table"
    /\ hidden' = Toggled(name)
    /\ UNCHANGED <<listVars, selectedKey, filters, applied, sort, offset, result>>
    /\ Fetch(FALSE)

ShowAll ==
    /\ Screen = "table" /\ hidden # {}
    /\ hidden' = {}
    /\ UNCHANGED <<listVars, selectedKey, filters, applied, sort, offset, result>>
    /\ Fetch(FALSE)

\* A header of the rows on screen; up, down, off.
SortBy(c) ==
    /\ Screen = "table" /\ Pane = "rows" /\ c \in result.spec.columns
    /\ sort' = IF sort = Null \/ sort.key # c THEN [key |-> c, dir |-> "asc"]
               ELSE IF sort.dir = "asc" THEN [key |-> c, dir |-> "desc"]
               ELSE Null
    /\ offset' = 0
    /\ UNCHANGED <<listVars, selectedKey, hidden, filters, applied, result>>
    /\ Fetch(FALSE)

\* The arrows under the rows, counted from the page on screen.
TurnPage ==
    /\ Screen = "table" /\ Pane = "rows" /\ ~loading
    /\ \/ result.spec.offset > 0 /\ offset' = result.spec.offset - 1
       \/ result.more /\ offset' = result.spec.offset + 1
    /\ UNCHANGED <<listVars, selectedKey, hidden, filters, applied, sort, result>>
    /\ Fetch(FALSE)

Refresh ==
    /\ Screen = "table" /\ listing < MaxLists
    /\ listing' = listing + 1 /\ tablesError' = FALSE
    /\ UNCHANGED <<tables, controls, result>>
    /\ Fetch(TRUE)

Next ==
    \/ TablesListed \/ TablesFail
    \/ \E p \in pending : Answer(p)
    \/ \E t \in Tables : Pick(t)
    \/ AddFilter
    \/ \E f \in filters : PatchFilter(f) \/ RemoveFilter(f)
    \/ Apply
    \/ \E c \in columns : ToggleColumn(c)
    \/ ShowAll
    \/ \E c \in AllColumns : SortBy(c)
    \/ TurnPage
    \/ Refresh

Spec == Init /\ [][Next]_vars

-----------------------------------------------------------------------------
TypeOK ==
    /\ tables \in Lists \cup {Null, <<>>} /\ tablesError \in BOOLEAN
    /\ listing \in 0 .. MaxLists
    /\ selectedKey \in Tables \cup {Null}
    /\ Cardinality(filters) <= MaxFilters
    /\ error \in BOOLEAN /\ loading \in BOOLEAN
    /\ seq \in 0 .. MaxSeq /\ \A p \in pending : p.n \in 1 .. seq

\* Whenever nothing is loading, the rows under the controls are the rows these
\* controls ask for, whatever order the answers came in; and what is loading has
\* an answer due that will end it.
RowsMatchControls ==
    /\ Screen = "table" /\ ~loading /\ Pane = "rows" => result.spec = spec
    /\ loading <=> \E p \in pending : p.n = seq

\* What each step keeps: a query that was sent last is that of the controls, while
\* there is a table, and so are the rows when it has been answered.
Condition == [id : 1 .. MaxFilters, column : AllColumns, value : Values]
ControlsInv ==
    /\ tables \in Lists \cup {Null, <<>>}
    /\ filters \subseteq Condition /\ applied \subseteq Condition
    /\ sort \in {Null} \cup [key : AllColumns, dir : {"asc", "desc"}] /\ offset \in Nat
RowsInv ==
    /\ seq \in Nat /\ pending \subseteq [n : 1 .. seq, spec : Queries]
    /\ result # Null => result.spec \in Queries
    /\ \A p, q \in pending : p.n = q.n => p = q
    /\ loading <=> \E p \in pending : p.n = seq
    /\ table # Null => \A p \in pending : p.n = seq => p.spec = spec
    /\ table # Null /\ ~loading /\ ~error /\ result # Null => result.spec = spec
BrowseInv == ControlsInv /\ RowsInv

\* The inductive invariant behind the types.
TypeInv == TypeOK /\ BrowseInv /\ IsFiniteSet(filters)

=============================================================================
