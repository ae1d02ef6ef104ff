----------------------------- MODULE AdminUsers -----------------------------
(***************************************************************************)
(* The users' tab of the page of the administrators (UserRow, RoleCell,     *)
(* TierCell and UserApps of web/src/components/Admin.jsx) and the dialog    *)
(* that ends an account (admin/DeleteUserModal.jsx).                        *)
(*                                                                         *)
(* Abstracted: lists are read when their answers come; the name of an       *)
(* account stands for its id and its login; what an error says, and how     *)
(* many users a tier has.  The dialog keeps no keyboard from the rows below *)
(* it, so their buttons may be pressed while it is open.                    *)
(***************************************************************************)
EXTENDS FiniteSets, Naturals

CONSTANTS
    Users, Me, MyRoles,
    Tiers, FirstTier,
    MaxCalls,   \* bound: changes of rows that are out at a time
    Null

UsersAssumption ==
    /\ Me \in Users /\ MyRoles \subseteq {"root", "admin"} /\ Null \notin Users
    /\ FirstTier \in Tiers /\ MaxCalls \in Nat \ {0}

VARIABLES
    accounts,   \* of each account its [role, tier], as core has them
    users,      \* the same as they were listed
    expanded,
    deleting, typed, submitting,    \* of the dialog
    calls       \* requests that are out

rowVars == <<accounts, users, expanded>>
dialogVars == <<deleting, typed, submitting>>
vars == <<rowVars, dialogVars, calls>>

\* The role of the user, whom no row changes.
me == accounts[Me].role

\* Who may be given another role or tier, and whose account may be ended.
RoleLocked(u) == me # "root" \/ users[u].role = "root" \/ u = Me
TierLocked(u) == me # "root"
canEnd(u) == me = "root" /\ users[u].role # "root" /\ u # Me

\* A row that is open has the apps of its user and the way to end the account.
UserRow(u) ==
    [apps |-> expanded = u, end |-> expanded = u /\ canEnd(u),
     role |-> ~RoleLocked(u), tier |-> ~TierLocked(u)]

canDelete == deleting # Null /\ typed = deleting /\ ~submitting

-----------------------------------------------------------------------------
All == [kind |-> "all"]
Change(f, u, v) == [kind |-> f, id |-> u, to |-> v]
End == [kind |-> "delete", id |-> deleting, typed |-> typed]

Send(c) ==
    /\ Cardinality({d \in calls \cup {c} : d.kind \in {"role", "tier"}}) <= MaxCalls
    /\ calls' = calls \cup {c}

Init ==
    /\ \E r \in MyRoles :
           accounts = [u \in Users |-> [role |-> IF u = Me THEN r ELSE "user", tier |-> FirstTier]]
    /\ users = [u \in {} |-> Null] /\ expanded = Null
    /\ deleting = Null /\ typed = Null /\ submitting = FALSE
    /\ calls = {All}

onToggle(u) ==
    /\ u \in DOMAIN users /\ expanded' = IF expanded = u THEN Null ELSE u
    /\ UNCHANGED <<accounts, users, dialogVars, calls>>

\* handleRoleChange and handleTierChange.
onRoleChange(u, r) ==
    /\ u \in DOMAIN users /\ UserRow(u).role /\ r # users[u].role
    /\ Send(Change("role", u, r)) /\ UNCHANGED <<rowVars, dialogVars>>

onTierChange(u, t) ==
    /\ u \in DOMAIN users /\ UserRow(u).tier /\ t # users[u].tier
    /\ Send(Change("tier", u, t)) /\ UNCHANGED <<rowVars, dialogVars>>

\* The dialog is for one user, and may be turned to another with what was typed.
onDelete(u) ==
    /\ u \in DOMAIN users /\ UserRow(u).end /\ deleting' = u
    /\ UNCHANGED <<rowVars, typed, submitting, calls>>

Type(u) ==
    /\ deleting # Null /\ ~submitting /\ typed' = u
    /\ UNCHANGED <<rowVars, deleting, submitting, calls>>

onClose ==
    /\ deleting # Null /\ ~submitting /\ deleting' = Null /\ typed' = Null
    /\ UNCHANGED <<rowVars, submitting, calls>>

handleDelete ==
    /\ canDelete /\ submitting' = TRUE /\ Send(End)
    /\ UNCHANGED <<rowVars, deleting, typed>>

-----------------------------------------------------------------------------
AllListed(c) ==
    /\ c.kind = "all" /\ users' = accounts /\ calls' = calls \ {c}
    /\ UNCHANGED <<accounts, expanded, dialogVars>>

\* The row comes to have what was asked for.
Changed(c) ==
    /\ c.kind \in {"role", "tier"} /\ c.id \in DOMAIN accounts
    /\ accounts' = [accounts EXCEPT ![c.id][c.kind] = c.to]
    /\ users' = [u \in DOMAIN users |->
                    IF u = c.id THEN [users[u] EXCEPT ![c.kind] = c.to] ELSE users[u]]
    /\ calls' = calls \ {c}
    /\ UNCHANGED <<expanded, dialogVars>>

\* onDone: whichever user the dialog is for by now, it closes; the lists are read.
Deleted(c) ==
    /\ c.kind = "delete" /\ c.id \in DOMAIN accounts
    /\ accounts' = [u \in DOMAIN accounts \ {c.id} |-> accounts[u]]
    /\ deleting' = Null /\ typed' = Null /\ submitting' = FALSE /\ expanded' = Null
    /\ calls' = (calls \ {c}) \cup {All}
    /\ UNCHANGED users

Fails(c) ==
    /\ calls' = calls \ {c}
    /\ submitting' = (submitting /\ c.kind # "delete")
    /\ UNCHANGED <<rowVars, deleting, typed>>

Next ==
    \/ \E u \in Users : onToggle(u) \/ onDelete(u) \/ Type(u)
    \/ \E u \in Users, r \in {"user", "admin"} : onRoleChange(u, r)
    \/ \E u \in Users, t \in Tiers : onTierChange(u, t)
    \/ onClose \/ handleDelete
    \/ \E c \in calls : AllListed(c) \/ Changed(c) \/ Deleted(c) \/ Fails(c)

Spec == Init /\ [][Next]_vars

-----------------------------------------------------------------------------
TypeOK ==
    /\ DOMAIN accounts \subseteq Users /\ DOMAIN users \subseteq Users
    /\ \A u \in DOMAIN users : users[u] \in [role : {"user"} \cup MyRoles \cup {"admin"}, tier : Tiers]
    /\ expanded \in Users \cup {Null} /\ deleting \in Users \cup {Null}
    /\ typed \in Users \cup {Null} /\ submitting \in BOOLEAN

\* What cannot be taken back: the account that is ended is one whose name was typed,
\* though the dialog may be turned to another user before and after, and it is
\* never the administrator's own; an administrator who is not root ends none.
EndedIsTyped ==
    \A c \in calls : c.kind = "delete" => c.typed = c.id /\ c.id # Me /\ me = "root"

\* What each step keeps: the dialog is only open for root, and for another account.
Account == [role : {"user", "admin"} \cup MyRoles, tier : Tiers]
Request ==
    {All} \cup [kind : {"role"}, id : Users \ {Me}, to : {"user", "admin"}]
        \cup [kind : {"tier"}, id : Users, to : Tiers]
        \cup [kind : {"delete"}, id : Users, typed : Users]
EndInv ==
    /\ TypeOK /\ calls \subseteq Request
    /\ Me \in DOMAIN accounts /\ \A u \in DOMAIN accounts : accounts[u] \in Account
    /\ deleting # Null => deleting # Me /\ me = "root"
    /\ EndedIsTyped

=============================================================================
