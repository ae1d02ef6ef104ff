---------------------------- MODULE FrontendForm ----------------------------
(***************************************************************************)
(* The form a frontend is deployed with (web/src/components/deploy/         *)
(* FrontendDeploy.jsx).  POST /deploy declares both slots of an app, so the *)
(* form sends back the server's declaration it read from the list of the    *)
(* builds; without one it declares an app with no server.                   *)
(*                                                                         *)
(* Abstracted: a declaration is a model value; of the fields, the           *)
(* repository and the variables of the build, the two that decide what a    *)
(* press does.                                                              *)
(***************************************************************************)
EXTENDS Naturals, Sequences

CONSTANTS
    Decls,      \* declarations of the server
    MaxOthers,  \* bound: changes made by others
    Null

FrontendAssumption == Null \notin Decls /\ MaxOthers \in Nat

VARIABLES
    rows,       \* of the server, the newest first: slot and declaration
    slot,       \* the server that is deployed, or Null
    app, role,  \* whether the form is one of an app, and the user's role
    get,        \* the request of the list: "sent", "back" (with got), "no"
    got,
    loaded, serverBuild, status,
    repo, env,  \* who filled the field: "" nobody, "site", "api", "typed"
    submitting, error,
    declared,   \* the server as the last press declared it
    page,       \* "form", or where the user is after it
    stale,      \* history: what the form holds is not the server deployed
    others

formVars == <<get, got, loaded, serverBuild, status, repo, env, submitting, error, declared,
              page>>
vars == <<rows, slot, app, role, formVars, stale, others>>

Slots == {"server", "site", "env_change"}
Row == [slot : Slots, decl : Decls \cup {Null}]
ServerRow(d) == [slot |-> "server", decl |-> d]
SiteRow == [slot |-> "site", decl |-> Null]
EnvRow == [slot |-> "env_change", decl |-> Null]

repoLocked == app /\ role = "editor"
repoRequired == serverBuild = Null
disabled == submitting \/ (repoRequired /\ repo = "")

\* The declaration of the first row, the newest, of one of these slots.
find(s, slots) ==
    LET at == {i \in DOMAIN s : s[i].slot \in slots}
    IN IF at = {} THEN Null ELSE s[CHOOSE i \in at : \A j \in at : i <= j].decl

\* The newest build of the server, whatever came of it.
real == Slots \ {"env_change"}
newestServer(s) == find(s, real \ {"site"})
hasSite(s) == \E i \in DOMAIN s : s[i].slot = "site"

\* The rail: the app the frontend is for.
Rail == IF app THEN IF status = Null THEN "name" ELSE "name and status"
        ELSE IF loaded THEN "no app" ELSE "loading"

Button == IF submitting THEN "submitting" ELSE IF disabled THEN "off" ELSE "on"

-----------------------------------------------------------------------------
Histories ==
    {<<>>} \cup {<<ServerRow(d)>> : d \in Decls} \cup {<<EnvRow, SiteRow, ServerRow(d)>> : d \in Decls}
        \cup {<<SiteRow>>}

Init ==
    /\ rows \in Histories
    /\ slot = newestServer(rows)
    /\ app = (rows # <<>>) /\ role \in IF app THEN {"owner", "editor"} ELSE {"owner"}
    /\ get = (IF app THEN "sent" ELSE "no") /\ got = <<>>
    /\ loaded = ~app /\ serverBuild = Null /\ status = Null
    /\ repo = "" /\ env = "" /\ submitting = FALSE /\ error = FALSE /\ declared = Null
    /\ page = "form" /\ stale = FALSE /\ others = 0

\* Another deployment of the server, which may fail and leave the old one running;
\* the server taken away by a deployment of the frontend alone.
OthersDeploy(d) ==
    /\ app /\ others < MaxOthers /\ others' = others + 1
    /\ rows' = <<ServerRow(d)>> \o rows /\ slot' \in {slot, d}
    /\ stale' = (stale \/ get # "sent" \/ slot' # d)
    /\ UNCHANGED <<app, role, formVars>>

OthersRemove ==
    /\ app /\ others < MaxOthers /\ others' = others + 1
    /\ rows' = <<SiteRow>> \o rows /\ slot' = Null
    /\ stale' = TRUE
    /\ UNCHANGED <<app, role, formVars>>

-----------------------------------------------------------------------------
formRest == <<rows, slot, app, role, others>>

ListRead ==
    /\ get = "sent" /\ get' = "back" /\ got' = rows
    /\ UNCHANGED <<formRest, loaded, serverBuild, status, repo, env, submitting, error, declared,
                   page, stale>>

\* Mutant: the newest build of any slot is declared again.
ListAnsweredAny ==
    /\ get = "back" /\ page = "form" /\ get' = "no" /\ loaded' = TRUE
    /\ serverBuild' = find(got, real)
    /\ status' \in {Null, "status"}
    /\ repo' = IF hasSite(got) /\ newestServer(got) = Null THEN "site" ELSE repo
    /\ env' = IF hasSite(got) THEN "site" ELSE IF newestServer(got) # Null THEN "api" ELSE env
    /\ UNCHANGED <<formRest, got, submitting, error, declared,
                   page, stale>>

\* The form is filled with the last frontend's values, or with the address the
\* server will have; over what the user has typed so far.
ListAnswered ==
    /\ get = "back" /\ page = "form" /\ get' = "no" /\ loaded' = TRUE
    /\ serverBuild' = newestServer(got) /\ status' \in {Null, "status"}
    /\ repo' = IF hasSite(got) /\ newestServer(got) = Null THEN "site" ELSE repo
    /\ env' = IF hasSite(got) THEN "site" ELSE IF newestServer(got) # Null THEN "api" ELSE env
    /\ UNCHANGED <<formRest, got, submitting, error, declared,
                   page, stale>>

\* Nobody is told.
ListFails ==
    /\ get \in {"sent", "back"} /\ page = "form" /\ get' = "no" /\ loaded' = TRUE
    /\ stale' = TRUE
    /\ UNCHANGED <<formRest, got, serverBuild, status, repo, env, submitting, error, declared,
                   page>>

TypeRepo(v) ==
    /\ page = "form" /\ ~repoLocked /\ ~submitting /\ repo' = v
    /\ UNCHANGED <<formRest, get, got, loaded, serverBuild, status, env, submitting, error, declared,
                   page, stale>>

\* patchRow, removeRow, and a row more: a name in a form of its own may be wrong.
EditEnv(v) ==
    /\ page = "form" /\ ~submitting /\ env' = v
    /\ UNCHANGED <<formRest, get, got, loaded, serverBuild, status, repo, submitting, error, declared,
                   page, stale>>

handleSubmit ==
    /\ page = "form" /\ ~disabled
    /\ IF env = "wrong" THEN error' = TRUE /\ UNCHANGED submitting
       ELSE error' = FALSE /\ submitting' = TRUE
    /\ declared' = IF submitting' THEN serverBuild ELSE declared
    /\ stale' = IF submitting' /\ get # "no" THEN TRUE ELSE stale
    /\ UNCHANGED <<formRest, get, got, loaded, serverBuild, status, repo, env, page>>

Accepted ==
    /\ submitting /\ page' = (IF app THEN "progress" ELSE "progress of the new app")
    /\ slot' = declared
    /\ rows' = <<SiteRow>> \o (IF declared = Null THEN rows ELSE <<ServerRow(declared)>> \o rows)
    /\ UNCHANGED <<app, role, others, get, got, loaded, serverBuild, status, repo, env, error,
                   declared, stale>>
    /\ submitting' = FALSE

\* Refused, or there is no session any more.
Refused ==
    /\ submitting /\ submitting' = FALSE /\ error' \in BOOLEAN
    /\ UNCHANGED <<formRest, get, got, loaded, serverBuild, status, repo, env, declared, page, stale>>

Cancel ==
    /\ page = "form" /\ ~submitting /\ page' = "back"
    /\ UNCHANGED <<formRest, get, got, loaded, serverBuild, status, repo, env, submitting, error,
                   declared, stale>>

Next ==
    \/ \E d \in Decls : OthersDeploy(d)
    \/ OthersRemove
    \/ ListRead \/ ListAnswered \/ ListFails
    \/ \E v \in {"", "typed"} : TypeRepo(v)
    \/ \E v \in {"typed", "wrong"} : EditEnv(v)
    \/ handleSubmit \/ Accepted \/ Refused \/ Cancel

Spec == Init /\ [][Next]_vars

-----------------------------------------------------------------------------
TypeOK ==
    /\ rows \in Seq(Row) /\ slot \in Decls \cup {Null} /\ serverBuild \in Decls \cup {Null}
    /\ get \in {"no", "sent", "back"} /\ repo \in {"", "site", "typed"}
    /\ env \in {"", "site", "api", "typed", "wrong"} /\ others \in 0 .. MaxOthers
    /\ Rail \in {"name", "name and status", "no app", "loading"}
    /\ Button \in {"on", "off", "submitting"}

\* The inductive invariant behind ServerKept: unless it is known to be stale, what
\* is read, then filled in, then declared is the server that is deployed.
FormInv ==
    /\ page = "form" => rows \in Seq(Row) /\ get \in {"no", "sent", "back"}
    /\ page = "form" /\ ~stale =>
           /\ get = "sent" => slot = newestServer(rows)
           /\ get = "back" => slot = newestServer(got)
           /\ get = "no" => slot = serverBuild
           /\ submitting => get = "no" /\ slot = declared

\* The inductive invariant behind the types.
TypeInv == TypeOK /\ got \in Seq(Row) /\ declared \in Decls \cup {Null}

\* Deploying a frontend leaves the server of the app as it is, if the list was read
\* before the press, and the newest build of a server in it was the one deployed and
\* still is.
ServerKept == page = "form" /\ page' # "form" /\ ~stale => slot' = slot

\* The values of the newest server build are sent back "as they are" and so keep the
\* server (FrontendDeploy.jsx:8): with nobody else at work, an app whose frontend was
\* deployed has the server it had.
ServerPreserved ==
    page \in {"progress", "progress of the new app"} /\ others = 0 => slot = newestServer(rows)

=============================================================================
