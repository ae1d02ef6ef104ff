----------------------------- MODULE ValuesMerge -----------------------------
(***************************************************************************)
(* The values file of one app (apps/<namespace>/values.yaml) and what a    *)
(* request makes of it: gitops.Merge.                                      *)
(*                                                                         *)
(* A field of CoreFields belongs to core; the fields "server" (image,      *)
(* runtime and port, which always change together) and "static" (the       *)
(* site's image) belong to the requests of that slot.                      *)
(***************************************************************************)
CONSTANTS
    CoreFields,  \* fields that core sends: name, db, hostnames, ...
    Value,       \* what a field may hold
    Empty,       \* gitops.Empty: the chart's defaults
    NoFile       \* there is no file

Slots == {"server", "static"}
Fields == CoreFields \cup Slots
Values == [Fields -> Value]

Kinds == {"build", "set-image", "config", "remove", "delete"}

\* contract.DeployRequest: the values core sends, any part of its fields, and
\* the image of a build or a set-image.
Change == [kind : Kinds, slot : Slots,
           values : UNION {[sent -> Value] : sent \in SUBSET CoreFields},
           image : Value]

ASSUME ValuesAssumption ==
    /\ Empty \in Values /\ NoFile \notin Values
    /\ CoreFields \cap Slots = {}

\* Mutant: core's fields that a request does not carry get their defaults.
MergeDefaults(cur, c) ==
    LET old == IF cur = NoFile THEN Empty ELSE cur
    IN  [f \in Fields |->
            CASE f \in CoreFields -> IF f \in DOMAIN c.values THEN c.values[f] ELSE Empty[f]
              [] c.kind \in {"build", "set-image"} /\ f = c.slot -> c.image
              [] c.kind = "remove" /\ f = "server" -> Empty["server"]
              [] OTHER -> old[f]]

\* Every field has one owner, and what its owner does not send stays.
Merge(cur, c) ==
    LET old == IF cur = NoFile THEN Empty ELSE cur
    IN  [f \in Fields |->
            CASE f \in DOMAIN c.values -> c.values[f]
              [] c.kind \in {"build", "set-image"} /\ f = c.slot -> c.image
              [] c.kind = "remove" /\ f = "server" -> Empty["server"]
              [] OTHER -> old[f]]

\* ErrNoValuesFile.
Applicable(cur, c) == cur = NoFile => c.kind \notin {"config", "remove"}

After(cur, c) == IF c.kind = "delete" THEN NoFile ELSE Merge(cur, c)
=============================================================================
