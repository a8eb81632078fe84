------------------------------- MODULE MCFair -------------------------------
(***************************************************************************)
(* FinalGate, LiveGate and Fetching, with their fairness, and Book for     *)
(* TLC, side by side.  They share no state in the models, so a behaviour   *)
(* picks one of them at its start and the others stand still: one run      *)
(* explores each of them.  An action is fair while its part is the one     *)
(* picked.                                                                 *)
(***************************************************************************)
EXTENDS FinalGate, LiveGate, Fetching, Book, OnePart

CONSTANTS f1, f2, f3

fairVars == <<part, finalVars, vars, fetchVars, bookVars>>

(* A slate that only grows, by themes or peers, from the one proposed.      *)
Slates    == SUBSET {f1, f2, f3}
OneTheme  == {f1}
Additions == [s \in Slates |-> {t \in Slates : s \subseteq t /\ s # t}]

OneClock == [f \in Fetchers |-> 0]

FairInit ==
  /\ part \in Parts
  /\ FinalInit
  /\ Init
  /\ FetchInit
  /\ BookInit

FairNext ==
  /\ UNCHANGED part
  /\ \/ part = "final" /\ FinalNext /\ UNCHANGED <<vars, fetchVars, bookVars>>
     \/ part = "gate" /\ Next /\ UNCHANGED <<finalVars, fetchVars, bookVars>>
     \/ part = "fetch" /\ FetchNext /\ UNCHANGED <<finalVars, vars, bookVars>>
     \/ part = "book" /\ BookNext /\ UNCHANGED <<finalVars, vars, fetchVars>>

OfFinal(step) == part = "final" /\ step /\ UNCHANGED <<part, vars, fetchVars, bookVars>>
OfGate(step)  == part = "gate" /\ step /\ UNCHANGED <<part, finalVars, fetchVars, bookVars>>
OfFetch(step) == part = "fetch" /\ step /\ UNCHANGED <<part, finalVars, vars, bookVars>>

FairPartsSpec ==
  /\ FairInit /\ [][FairNext]_fairVars
  /\ WF_fairVars(OfFinal(FinalWorker)) /\ WF_fairVars(OfFinal(ResumeRun))
  /\ \A h \in Handlers :
       /\ WF_fairVars(OfFinal(RecordDecision(h)))
       /\ WF_fairVars(OfFinal(FinishSealing(h)))
       /\ SF_fairVars(OfFinal(StartReseal(h)))
  /\ WF_fairVars(OfGate(Worker)) /\ WF_fairVars(OfGate(Resume))
  /\ WF_fairVars(OfFetch(Tick))
  /\ \A f \in Fetchers : WF_fairVars(OfFetch(FetchStep(f)))

(* Whatever the part that moves does, every variable of it keeps its type. *)
FairTypesOK ==
  /\ FinalTypeOK
  /\ TypeOK
  /\ FetchTypeOK
  /\ BookTypeOK
=============================================================================
