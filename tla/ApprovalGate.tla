---------------------------- MODULE ApprovalGate ----------------------------
(***************************************************************************)
(* What a gate promises the operator who decides at it, with nothing said  *)
(* of pages, rows, seals and executions: it is decided once, on what there *)
(* is to decide on at that moment; and what the run acts on, once, is what *)
(* was approved and is still so, or what was proposed, where there was     *)
(* nothing to ask.                                                         *)
(***************************************************************************)
CONSTANTS Contents, Proposed, Required
VARIABLES content, approved, decided, used

Init ==
  /\ content = Proposed
  /\ approved = {}
  /\ decided = FALSE
  /\ used = {}

Change ==
  /\ content' \in Contents
  /\ UNCHANGED <<approved, decided, used>>

(* An approval is of what there is; anything else approves nothing.        *)
Decide ==
  /\ ~decided
  /\ decided' = TRUE
  /\ approved' \in {{content}, {}}
  /\ UNCHANGED <<content, used>>

Act ==
  /\ used = {}
  /\ approved = {content} \/ (~Required /\ content = Proposed)
  /\ used' = {content}
  /\ UNCHANGED <<content, approved, decided>>

Next == Change \/ Decide \/ Act

Spec == Init /\ [][Next]_<<content, approved, decided, used>>
=============================================================================
