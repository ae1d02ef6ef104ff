------------------------------ MODULE Feedback ------------------------------
(***************************************************************************)
(* The feedback page, web/src/components/Community.jsx: the list of the     *)
(* posts, the post beside it with its comments, and the form for a new one. *)
(* Requests are not numbered and none is given up: every answer is taken,   *)
(* in whatever order, whatever the page shows by then.                      *)
(*                                                                         *)
(* Abstracted: of a text the model keeps the post beside which it was       *)
(* written, and whether it is marked secret.  The user is signed in; the    *)
(* comments on the page are those the server has; what is read is read when *)
(* the answer comes.                                                        *)
(***************************************************************************)
EXTENDS Naturals, FiniteSets

CONSTANTS
    Posts,      \* the ids, which grow
    First,      \* the posts there are at the start
    Mine,       \* those the user may delete
    MaxCalls,   \* bound: requests that are out at a time
    Null

FeedbackAssumption ==
    /\ Posts \subseteq Nat /\ Mine \subseteq Posts /\ First \subseteq Posts
    /\ MaxCalls \in Nat \ {0} /\ Null \notin Posts

VARIABLES
    server,     \* the posts the server has
    said,       \* the comments of the user: [on, at, secret], made on and typed at a post
    posts, detail, composing,   \* of Community
    text,       \* of PostDetailPane: Null, or the post beside which it was typed
    secret, busy,
    content, sending,           \* of ComposeForm
    calls       \* requests that are out; live: the pane or form that made it is there

serverVars == <<server, said>>
pageVars == <<posts, detail, composing>>
paneVars == <<text, secret, busy>>
composeVars == <<content, sending>>
vars == <<serverVars, pageVars, paneVars, composeVars, calls>>

\* The pane is beside the list, unless the form is.
Beside == detail # Null /\ ~composing

\* What the list and the place beside it show.
Screen ==
    [list   |-> IF posts = Null THEN "loading" ELSE IF posts = {} THEN "none" ELSE "cards",
     beside |-> IF composing THEN "form" ELSE IF Beside THEN "pane" ELSE "hint"]

Card(p) == [selected |-> detail = p]

canDelete == Beside /\ detail \in Mine
canSubmit == Beside /\ text # Null /\ ~busy
canPost == composing /\ content /\ ~sending

-----------------------------------------------------------------------------
\* then: which post the caller of fetchPosts goes on to open, one of "first",
\* "remaining", "none" and, with its id, "new".
List(then) == [kind |-> "list", then |-> then]
ListFor(p) == [kind |-> "list", then |-> "new", id |-> p]
Get(p) == [kind |-> "get", id |-> p]
Comment == [kind |-> "comment", comment |-> [on |-> detail, at |-> text, secret |-> secret], live |-> TRUE]
Uncomment(c) == [kind |-> "uncomment", comment |-> c]
Delete(p) == [kind |-> "delete", id |-> p]
Create == [kind |-> "create", live |-> TRUE]

PaneStays == Beside /\ detail' # Null /\ ~composing'
FormStays == composing /\ composing'

\* Mutant: the effect of the pane does not depend on the post.
EffectsOnce ==
    /\ IF PaneStays THEN UNCHANGED <<text, secret>> ELSE text' = Null /\ secret' = FALSE
    /\ busy' = (PaneStays /\ busy)
    /\ content' = (FormStays /\ content) /\ sending' = (FormStays /\ sending)

\* What was typed does not follow to another post; a pane or a form that is taken
\* away loses its state, and the answers it waits for find nothing to set.
Effects ==
    /\ IF PaneStays /\ detail' = detail THEN UNCHANGED <<text, secret>>
       ELSE text' = Null /\ secret' = FALSE
    /\ busy' = (PaneStays /\ busy)
    /\ content' = (FormStays /\ content) /\ sending' = (FormStays /\ sending)

Detached(c) ==
    IF \/ c.kind = "comment" /\ ~PaneStays
       \/ c.kind = "create" /\ ~FormStays
    THEN [c EXCEPT !.live = FALSE] ELSE c

\* The requests old are answered, and those of new go out.
Requests(old, new) == calls' = {Detached(c) : c \in calls \ old} \cup new

Send(new) == Cardinality(calls \cup new) <= MaxCalls /\ Requests({}, new)

-----------------------------------------------------------------------------
Init ==
    /\ server = First /\ said = {}
    /\ posts = Null /\ detail = Null /\ composing = FALSE
    /\ text = Null /\ secret = FALSE /\ busy = FALSE
    /\ content = FALSE /\ sending = FALSE
    /\ calls = {List("first")}

\* openPost, when a card is pressed.
Select(p) ==
    /\ posts # Null /\ p \in posts
    /\ composing' = FALSE /\ UNCHANGED <<detail, posts, serverVars>>
    /\ Send({Get(p)}) /\ Effects

startCompose ==
    /\ detail' = Null /\ composing' = TRUE /\ UNCHANGED <<posts, serverVars>>
    /\ Requests({}, {}) /\ Effects

cancelCompose ==
    /\ composing /\ composing' = FALSE /\ UNCHANGED <<detail, posts, serverVars>>
    /\ Requests({}, {}) /\ Effects

TypePost ==
    /\ composing /\ content' = TRUE
    /\ UNCHANGED <<serverVars, pageVars, paneVars, sending, calls>>

submitPost ==
    /\ canPost /\ sending' = TRUE /\ UNCHANGED <<serverVars, pageVars, paneVars, content>>
    /\ Send({Create})

TypeComment ==
    /\ Beside /\ text' = detail
    /\ UNCHANGED <<serverVars, pageVars, secret, busy, composeVars, calls>>

SecretToggle ==
    /\ Beside /\ secret' = ~secret
    /\ UNCHANGED <<serverVars, pageVars, text, busy, composeVars, calls>>

submit ==
    /\ canSubmit /\ busy' = TRUE /\ UNCHANGED <<serverVars, pageVars, text, secret, composeVars>>
    /\ Send({Comment})

removeComment(c) ==
    /\ Beside /\ c.on = detail
    /\ UNCHANGED <<serverVars, pageVars, paneVars, composeVars>>
    /\ Send({Uncomment(c)})

handleDeletePost ==
    /\ canDelete
    /\ UNCHANGED <<serverVars, pageVars, paneVars, composeVars>>
    /\ Send({Delete(detail)})

-----------------------------------------------------------------------------
\* The end of fetchPosts, and what its caller does next: after a deletion the first
\* post of the list is opened, at the start too, after a creation the new one.
Listed(c) ==
    /\ c.kind = "list"
    /\ posts' \in {server, {}}
    /\ LET next == CASE c.then = "new"  -> {c.id}
                      [] c.then = "none" -> {}
                      [] OTHER           -> {p \in posts' : \A q \in posts' : q <= p}
       IN /\ composing' = (composing /\ next = {})
          /\ detail' = IF c.then = "remaining" /\ next = {} THEN Null ELSE detail
          /\ Requests({c}, {Get(p) : p \in next})
    /\ Effects /\ UNCHANGED serverVars

\* The end of openPost.
Got(c) ==
    /\ c.kind = "get"
    /\ detail' \in {c.id, Null} /\ (detail' = c.id => c.id \in server)
    /\ UNCHANGED <<serverVars, posts, composing>>
    /\ Requests({c}, {}) /\ Effects

\* onChanged and onCountChanged: the post the comment is of is opened again.
Reopen(c) ==
    /\ composing' = FALSE /\ UNCHANGED <<posts, detail>>
    /\ Requests({c}, {Get(c.comment.on), List("none")})

\* The answer wipes what was typed since, at another post too.
Commented(c) ==
    /\ c.kind = "comment" /\ c.comment.on \in server
    /\ said' = said \cup {c.comment} /\ UNCHANGED server
    /\ Reopen(c)
    /\ IF c.live THEN text' = Null /\ secret' = FALSE /\ busy' = FALSE /\ UNCHANGED composeVars
       ELSE Effects

CommentFails(c) ==
    /\ c.kind = "comment"
    /\ busy' = (busy /\ ~c.live)
    /\ UNCHANGED <<serverVars, pageVars, text, secret, composeVars>>
    /\ Requests({c}, {})

Uncommented(c) ==
    /\ c.kind = "uncomment"
    /\ said' = said \ {c.comment} /\ UNCHANGED server
    /\ Reopen(c) /\ Effects

Deleted(c) ==
    /\ c.kind = "delete"
    /\ server' = server \ {c.id} /\ UNCHANGED said
    /\ UNCHANGED <<pageVars, paneVars, composeVars>>
    /\ Requests({c}, {List("remaining")})

\* handleCreated, called though the form may be gone, or be another.
Created(c) ==
    /\ c.kind = "create"
    /\ composing' = FALSE /\ UNCHANGED <<said, posts, detail>>
    /\ \E p \in Posts : /\ \A q \in server \cup First : q < p
                        /\ server' = server \cup {p}
                        /\ Requests({c}, {ListFor(p)})
    /\ Effects

CreateFails(c) ==
    /\ c.kind = "create"
    /\ sending' = (sending /\ ~c.live)
    /\ UNCHANGED <<serverVars, pageVars, paneVars, content>>
    /\ Requests({c}, {})

\* A comment or a post stays when its deletion fails, and nothing is said.
DeletionFails(c) ==
    /\ c.kind \in {"delete", "uncomment"}
    /\ UNCHANGED <<serverVars, pageVars, paneVars, composeVars>>
    /\ Requests({c}, {})

Answer(c) ==
    \/ Listed(c) \/ Got(c) \/ Commented(c) \/ CommentFails(c) \/ Uncommented(c)
    \/ Deleted(c) \/ Created(c) \/ CreateFails(c) \/ DeletionFails(c)

Next ==
    \/ \E p \in Posts : Select(p)
    \/ startCompose \/ cancelCompose \/ TypePost \/ submitPost
    \/ TypeComment \/ SecretToggle \/ submit \/ handleDeletePost
    \/ \E c \in said : removeComment(c)
    \/ \E c \in calls : Answer(c)

Spec == Init /\ [][Next]_vars

-----------------------------------------------------------------------------
TypeOK ==
    /\ server \subseteq Posts /\ said \subseteq [on : Posts, at : Posts, secret : BOOLEAN]
    /\ posts \in {Null} \cup SUBSET Posts /\ detail \in Posts \cup {Null}
    /\ composing \in BOOLEAN /\ content \in BOOLEAN /\ sending \in BOOLEAN
    /\ text \in Posts \cup {Null} /\ secret \in BOOLEAN /\ busy \in BOOLEAN
    /\ Screen.beside = "pane" => \E p \in Posts : Card(p).selected

\* Comments are made on the post they were typed beside, though late answers put
\* another post on the page while the user types and while a comment is on its way.
CommentsWhereTyped == \A c \in said : c.on = c.at

\* What each step keeps: what is typed is typed beside the post that is open.
Said == [on : Posts, at : Posts, secret : BOOLEAN]
Request ==
    [kind : {"list"}, then : {"first", "remaining", "none"}]
        \cup [kind : {"list"}, then : {"new"}, id : Posts]
        \cup [kind : {"get", "delete"}, id : Posts]
        \cup [kind : {"comment"}, comment : Said, live : BOOLEAN]
        \cup [kind : {"uncomment"}, comment : Said]
        \cup [kind : {"create"}, live : BOOLEAN]
CommentsInv ==
    /\ TypeOK /\ calls \subseteq Request
    /\ text # Null => Beside /\ text = detail
    /\ \A c \in calls : c.kind = "comment" => c.comment.on = c.comment.at
    /\ CommentsWhereTyped

=============================================================================
