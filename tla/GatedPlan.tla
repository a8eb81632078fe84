----------------------------- MODULE GatedPlan -----------------------------
(***************************************************************************)
(* What a gated workflow promises its operator, with nothing said of how   *)
(* it is executed: a step is recorded done only after every step it needs, *)
(* a gate only once it was approved for what the run produced (unless it   *)
(* had nothing to ask), and neither a decision nor a completed step is     *)
(* ever taken back.                                                        *)
(***************************************************************************)
CONSTANTS Steps, Needs, Gates, Waived
VARIABLES done, decision

TypeOK ==
  /\ done \in SUBSET Steps
  /\ decision \in [Gates -> {"NONE", "APPROVED", "MISMATCHED", "REJECTED"}]

Init ==
  /\ done = {}
  /\ decision = [g \in Gates |-> "NONE"]

Complete(s) ==
  /\ Needs[s] \subseteq done
  /\ s \in Gates \ Waived => decision[s] = "APPROVED"
  /\ done' = done \cup {s}
  /\ UNCHANGED decision

Decide(g) ==
  /\ decision[g] = "NONE"
  /\ \E verdict \in {"APPROVED", "MISMATCHED", "REJECTED"} :
       decision' = [decision EXCEPT ![g] = verdict]
  /\ UNCHANGED done

Next ==
  \/ \E s \in Steps : Complete(s)
  \/ \E g \in Gates : Decide(g)

Spec == Init /\ [][Next]_<<done, decision>>
=============================================================================
