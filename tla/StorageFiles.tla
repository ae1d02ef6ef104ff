---------------------------- MODULE StorageFiles ----------------------------
(***************************************************************************)
(* StorageView, StoragePreview and TextPreview of                          *)
(* web/src/components/app/AppWorkspace.jsx: the files of an app's bucket,  *)
(* listed page by page, with a preview that can delete the file it shows.  *)
(* A deletion and a listing may be on their way together.                  *)
(*                                                                         *)
(* Abstracted: a file is its key, keys are numbers and the bucket lists    *)
(* them in order; sorting is the one order or its reverse; list and grid   *)
(* show the same rows.                                                     *)
(***************************************************************************)
EXTENDS Naturals, Sequences, FiniteSets, SequencesExt

CONSTANTS
    Keys,      \* a set of numbers
    Readable,  \* the keys whose preview is read as text
    PageSize,  \* of the bucket's listing
    MaxCalls,  \* bound: calls sent
    Null

\* What a listing answers, and a listing on its way.
Answers == [objects : Seq(Keys), next : Keys \cup {Null}]
Listings == [token : Keys \cup {Null}, answer : Answers \cup {Null}]

StorageAssumption ==
    /\ Keys \subseteq Nat /\ IsFiniteSet(Keys) /\ Readable \subseteq Keys
    /\ PageSize \in Nat \ {0} /\ MaxCalls \in Nat \ {0}
    /\ Null \notin Keys /\ Null \notin Listings

VARIABLES
    bucket,      \* the files that exist
    objects,     \* the files listed, in order
    next,        \* where the next page starts, Null after the last one
    loading, loaded, error,
    selectedKey, reversed, previewOpen,
    call,        \* the listing on its way: page and, once made, the answer
    preview,     \* state of the mounted preview, Null without one
    deletions,   \* on their way: file and the selection of the closure
    calls,       \* calls sent
    wanted       \* history: files whose menu was opened

listVars == <<objects, next, loading, loaded, error, call>>
choice == <<selectedKey, reversed, previewOpen>>
vars == <<bucket, listVars, choice, preview, deletions, calls, wanted>>

rows == IF reversed THEN Reverse(objects) ELSE objects

\* A closed preview selects nothing; else the picked file, or the first one.
selected ==
    IF ~previewOpen \/ objects = <<>> THEN Null
    ELSE IF selectedKey \in Range(objects) THEN selectedKey
    ELSE rows[1]

Pane ==
    IF error THEN "error"
    ELSE IF ~loaded /\ loading THEN "loading"
    ELSE IF objects = <<>> THEN "empty"
    ELSE "files"

\* The ways to list a set of numbers in order (one, if it is finite).
InOrder(S) == {s \in [1 .. Cardinality(S) -> S] : \A i, j \in DOMAIN s : i < j => s[i] < s[j]}

\* The files after `token`.
Rest(token) == {k \in bucket : token = Null \/ k > token}

\* The bucket's answer when `all` are the files that are left to list.
Page(all) ==
    IF Len(all) <= PageSize THEN [objects |-> all, next |-> Null]
    ELSE [objects |-> SubSeq(all, 1, PageSize), next |-> all[PageSize]]

\* StoragePreview and TextPreview as they mount: a text is asked for at once.
Mounted(key) ==
    [key |-> key, menu |-> FALSE, deleting |-> FALSE,
     text |-> IF key \in Readable THEN "loading" ELSE "none"]

\* key={selected.key}: another file is another component.
Remounted(key) ==
    IF key = Null THEN Null
    ELSE IF preview # Null /\ preview.key = key THEN preview
    ELSE Mounted(key)

-----------------------------------------------------------------------------
Init ==
    /\ bucket \in SUBSET Keys
    /\ objects = <<>> /\ next = Null
    /\ loading = TRUE /\ loaded = FALSE /\ error = FALSE
    /\ call = [token |-> Null, answer |-> Null]
    /\ selectedKey = Null /\ reversed = FALSE /\ previewOpen = TRUE
    /\ preview = Null /\ deletions = {} /\ calls = 1 /\ wanted = {}

Load ==
    /\ ~loading /\ calls < MaxCalls
    /\ loading' = TRUE /\ error' = FALSE /\ calls' = calls + 1
    /\ call' = [token |-> Null, answer |-> Null]
    /\ UNCHANGED <<bucket, objects, next, loaded, choice, preview, deletions, wanted>>

LoadMore ==
    /\ Pane = "files" /\ next # Null /\ ~loading /\ calls < MaxCalls
    /\ loading' = TRUE /\ calls' = calls + 1
    /\ call' = [token |-> next, answer |-> Null]
    /\ UNCHANGED <<bucket, objects, next, loaded, error, choice, preview, deletions, wanted>>

BucketLists ==
    /\ call # Null /\ call.answer = Null
    /\ \E all \in InOrder(Rest(call.token)) : call' = [call EXCEPT !.answer = Page(all)]
    /\ UNCHANGED <<bucket, objects, next, loading, loaded, error, choice, preview,
                   deletions, calls, wanted>>

\* Mutant: a first page is added to what is listed, as a later one is.
ListedAppends ==
    /\ call # Null /\ call.answer # Null
    /\ objects' = objects \o call.answer.objects
    /\ next' = call.answer.next
    /\ call' = Null /\ loading' = FALSE /\ loaded' = TRUE
    /\ UNCHANGED <<bucket, error, choice, deletions, calls, wanted>>
    /\ preview' = Remounted(selected')

Listed ==
    /\ call # Null /\ call.answer # Null
    /\ objects' = (IF call.token = Null THEN <<>> ELSE objects) \o call.answer.objects
    /\ next' = call.answer.next
    /\ call' = Null /\ loading' = FALSE /\ loaded' = TRUE
    /\ UNCHANGED <<bucket, error, choice, deletions, calls, wanted>>
    /\ preview' = Remounted(selected')

\* Mutant: a list that failed is loading for ever.
ListFailsLoading ==
    /\ call # Null
    /\ error' = TRUE /\ call' = Null /\ UNCHANGED loading
    /\ IF call.token = Null THEN objects' = <<>> /\ next' = Null /\ loaded' = TRUE
       ELSE UNCHANGED <<objects, next, loaded>>
    /\ UNCHANGED <<bucket, choice, deletions, calls, wanted>>
    /\ preview' = Remounted(selected')

\* A first page that fails empties the list, a later one leaves it.
ListFails ==
    /\ call # Null
    /\ error' = TRUE /\ call' = Null /\ loading' = FALSE
    /\ IF call.token = Null THEN objects' = <<>> /\ next' = Null /\ loaded' = TRUE
       ELSE UNCHANGED <<objects, next, loaded>>
    /\ UNCHANGED <<bucket, choice, deletions, calls, wanted>>
    /\ preview' = Remounted(selected')

Pick(k) ==
    /\ Pane = "files" /\ k \in Range(objects)
    /\ selectedKey' = k /\ previewOpen' = TRUE
    /\ UNCHANGED <<bucket, listVars, reversed, deletions, calls, wanted>>
    /\ preview' = Remounted(selected')

SortRows ==
    /\ reversed' = ~reversed
    /\ UNCHANGED <<bucket, listVars, selectedKey, previewOpen, deletions, calls, wanted>>
    /\ preview' = Remounted(selected')

ClosePreview ==
    /\ preview # Null
    /\ previewOpen' = FALSE /\ preview' = Null
    /\ UNCHANGED <<bucket, listVars, selectedKey, reversed, deletions, calls, wanted>>

ToggleMenu ==
    /\ preview # Null
    /\ preview' = [preview EXCEPT !.menu = ~@]
    /\ wanted' = wanted \cup {preview.key}
    /\ UNCHANGED <<bucket, listVars, choice, deletions, calls>>

Delete ==
    /\ preview # Null /\ preview.menu /\ ~preview.deleting /\ calls < MaxCalls
    /\ preview' = [preview EXCEPT !.deleting = TRUE]
    /\ deletions' = deletions \cup {[key |-> preview.key, selectedKey |-> selectedKey]}
    /\ calls' = calls + 1
    /\ UNCHANGED <<bucket, listVars, choice, wanted>>

BucketDeletes(d) ==
    /\ d.key \in bucket
    /\ bucket' = bucket \ {d.key}
    /\ UNCHANGED <<listVars, choice, preview, deletions, calls, wanted>>

\* onDeleted compares with the selection of the render in which del was called.
\* finally: the menu of that preview closes, if it is still the one mounted.
Deleted(d) ==
    /\ d.key \notin bucket
    /\ deletions' = deletions \ {d}
    /\ \E left \in InOrder({i \in DOMAIN objects : objects[i] # d.key}) :
           objects' = [i \in DOMAIN left |-> objects[left[i]]]
    /\ selectedKey' = IF d.selectedKey = d.key THEN Null ELSE selectedKey
    /\ UNCHANGED <<bucket, next, loading, loaded, error, call, reversed, previewOpen, calls, wanted>>
    /\ preview' = Remounted(selected')

DeleteFails(d) ==
    /\ deletions' = deletions \ {d}
    /\ preview' = IF preview # Null /\ preview.key = d.key
                  THEN [preview EXCEPT !.deleting = FALSE, !.menu = FALSE] ELSE preview
    /\ UNCHANGED <<bucket, listVars, choice, calls, wanted>>

\* readStorageObject answers; the answer to an unmounted preview is dropped.
TextRead ==
    /\ preview # Null /\ preview.text = "loading"
    /\ \E t \in {"text", "truncated", "error"} : preview' = [preview EXCEPT !.text = t]
    /\ UNCHANGED <<bucket, listVars, choice, deletions, calls, wanted>>

Upload(k) ==
    /\ bucket' = bucket \cup {k} /\ bucket' # bucket /\ calls < MaxCalls
    /\ calls' = calls + 1
    /\ UNCHANGED <<listVars, choice, preview, deletions, wanted>>

Next ==
    \/ Load \/ LoadMore \/ BucketLists \/ Listed \/ ListFails
    \/ \E k \in Keys : Pick(k) \/ Upload(k)
    \/ SortRows \/ ClosePreview \/ ToggleMenu \/ Delete \/ TextRead
    \/ \E d \in deletions : BucketDeletes(d) \/ Deleted(d) \/ DeleteFails(d)

Spec == Init /\ [][Next]_vars

-----------------------------------------------------------------------------
TypeOK ==
    /\ bucket \subseteq Keys /\ Range(objects) \subseteq Keys
    /\ next \in Keys \cup {Null} /\ selectedKey \in Keys \cup {Null}
    /\ loading \in BOOLEAN /\ loaded \in BOOLEAN /\ error \in BOOLEAN
    /\ loading <=> call # Null
    /\ calls \in 0 .. MaxCalls

\* What an answer holds: files in order, all before the place where the next page
\* starts, and after the one where this page did.
AnswerFits(answer, token) ==
    /\ \A i, j \in DOMAIN answer.objects : i < j => answer.objects[i] < answer.objects[j]
    /\ answer.next # Null => \A i \in DOMAIN answer.objects : answer.objects[i] <= answer.next
    /\ token # Null => \A i \in DOMAIN answer.objects : token < answer.objects[i]
    /\ token # Null /\ answer.next # Null => token <= answer.next

\* All that is listed comes before the page that is asked for, and before the next one.
UpTo(token) == token # Null => \A i \in DOMAIN objects : objects[i] <= token

\* The inductive invariant behind EachFileOnce.
ListInv ==
    /\ bucket \subseteq Keys
    /\ objects \in Seq(Keys) /\ IsInjective(objects)
    /\ next \in Keys \cup {Null} /\ UpTo(next)
    /\ call # Null =>
           /\ call \in Listings
           /\ UpTo(call.token)
           /\ call.answer # Null => AnswerFits(call.answer, call.token)

\* However pages, deletions and uploads cross, no file is listed twice: each
\* row is one React key.
EachFileOnce == IsInjective(objects)

\* A deletion is only ever sent for a file whose own menu was opened, also when
\* the preview turns to another file by itself (a new first row, a new order).
OnlyAskedIsDeleted ==
    /\ \A d \in deletions : d.key \in wanted
    /\ preview # Null => preview.key = selected /\ (preview.menu => preview.key \in wanted)

\* What each step keeps besides: the preview is that of the file that is selected.
Preview ==
    [key : Keys, menu : BOOLEAN, deleting : BOOLEAN,
     text : {"none", "loading", "text", "truncated", "error"}]
PreviewInv ==
    /\ TypeOK /\ OnlyAskedIsDeleted
    /\ preview # Null => preview \in Preview
    /\ deletions \subseteq [key : Keys, selectedKey : Keys \cup {Null}]

=============================================================================
