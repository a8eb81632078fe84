----------------------------- MODULE WorkOrder -----------------------------
(***************************************************************************)
(* What a research request promises the person who wrote it, with nothing  *)
(* said of pages, job statuses and the newest run.  Its terms change only  *)
(* while nothing was gathered or reported under them; one run works on it  *)
(* at a time, and under the terms it shows; it makes one report, and after *)
(* that only the run that made it is taken up again; and it is removed     *)
(* under nobody.                                                           *)
(***************************************************************************)
EXTENDS Naturals

CONSTANT Runs
VARIABLES terms, working, evidence, reports, present

Init ==
  /\ terms = 0
  /\ working = {}
  /\ evidence = {}
  /\ reports = {}
  /\ present = TRUE

Edit ==
  /\ working = {}
  /\ evidence = {}
  /\ reports = {}
  /\ terms' = terms + 1
  /\ UNCHANGED <<working, evidence, reports, present>>

Start(j) ==
  /\ working = {}
  /\ \A r \in reports : r.job = j
  /\ working' = {j}
  /\ UNCHANGED <<terms, evidence, reports, present>>

Gather ==
  /\ working # {}
  /\ evidence' = {terms}
  /\ UNCHANGED <<terms, working, reports, present>>

Report(j) ==
  /\ working = {j}
  /\ reports = {}
  /\ reports' = {[job |-> j, terms |-> terms]}
  /\ UNCHANGED <<terms, working, evidence, present>>

End ==
  /\ working' = {}
  /\ UNCHANGED <<terms, evidence, reports, present>>

Remove ==
  /\ working = {}
  /\ present' = FALSE
  /\ UNCHANGED <<terms, working, evidence, reports>>

Next ==
  \/ Edit \/ Gather \/ End \/ Remove
  \/ \E j \in Runs : Start(j) \/ Report(j)

Spec == Init /\ [][present /\ Next]_<<terms, working, evidence, reports, present>>
=============================================================================
