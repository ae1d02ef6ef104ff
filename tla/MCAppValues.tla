----------------------------- MODULE MCAppValues -----------------------------
(***************************************************************************)
(* AppValues for TLC: images are the numbers of the requests that built    *)
(* them, 0 that of an earlier deployment.                                  *)
(***************************************************************************)
EXTENDS AppValues

MCCoreFields == {"enabled", "split", "domain"}
MCValue == 0 .. Cardinality(Requests) + 1
MCEmpty == [f \in {"server", "static"} \cup MCCoreFields |->
               IF f \in {"server", "static"} THEN Cardinality(Requests) + 1 ELSE 0]
===============================================================================
