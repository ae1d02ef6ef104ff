----------------------------- MODULE BuildReport -----------------------------
(***************************************************************************)
(* What the builder promises to report about one build, whatever happens   *)
(* inside it (docs/builder-e2e.md, section 4 items 16 and 17): a build is  *)
(* committed and then deployed, finished follows deployed only, failed and *)
(* cancelled end the report, and a builder that resumes the build after a  *)
(* restart reports again what is already true.                             *)
(*                                                                         *)
(* BuildRun implements this specification.                                 *)
(***************************************************************************)
EXTENDS Naturals, Sequences

VARIABLES
    life,      \* how often the builder was restarted
    report     \* types of the events emitted in this life

Undecided == { << >>, <<"committed">> }
Deployed == <<"committed", "deployed">>

Init == life = 0 /\ report = << >>

Commit == report = << >> /\ report' = <<"committed">> /\ UNCHANGED life

Deploy == report = <<"committed">> /\ report' = Deployed /\ UNCHANGED life

Finish == /\ report = Deployed
          /\ report' = Append(report, "finished")
          /\ UNCHANGED life

GiveUp == /\ report \in Undecided
          /\ \E end \in {"failed", "cancelled"} : report' = Append(report, end)
          /\ UNCHANGED life

Restart == life' = life + 1 /\ report' \in Undecided \cup {Deployed}

Next == Commit \/ Deploy \/ Finish \/ GiveUp \/ Restart

Spec == Init /\ [][Next]_<<life, report>>
=============================================================================
