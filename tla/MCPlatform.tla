----------------------------- MODULE MCPlatform -----------------------------
(***************************************************************************)
(* Spend, StandingBudget, Requests, AuditTrail, ArtefactStore, Drafting,   *)
(* FinalGate, Ladder and ThesisWatch for TLC, side by side.  They share no *)
(* state in the models, so a behaviour picks one of them at its start and  *)
(* the others stand still: one run explores each of them.                  *)
(***************************************************************************)
EXTENDS Spend, StandingBudget, Requests, AuditTrail, ArtefactStore, Drafting, FinalGate,
        Ladder, ThesisWatch, OnePart

CONSTANTS steady, broad, only, left, right

platformVars ==
  <<part, spendVars, standingVars, requestVars, auditVars, storeVars, draftVars, finalVars,
    ladderVars, watchVars>>

(* one run whose steps go one at a time, one with a wave of two *)
TwoJobs    == {steady, broad}
ThreeSteps == {only, left, right}
StepsJob   == [s \in ThreeSteps |-> IF s = only THEN steady ELSE broad]
StepsOrder == [s \in ThreeSteps |-> IF s = right THEN 1 ELSE 0]
Estimated  == [s \in ThreeSteps |-> IF s = right THEN 2 ELSE 1]
TwoWaves   == {{only}, {left, right}}

(* 2000 and 2001 agree, 2000 and 20040 are a power of ten apart, the others *)
(* differ; one source that is not credible, and one figure in another unit. *)
SomeFigures ==
  [value : {2000, 2001, 2060, 2300, 20040}, unit : {"usd"}, tier : {1, 2},
   filed : {1, 2}, basis : {"as_reported", "restated"}]
  \cup [value : {2000, 2300, 20040}, unit : {"usd"}, tier : {5}, filed : {1}, basis : {"as_reported"}]
  \cup [value : {2000}, unit : {"gbp"}, tier : {2}, filed : {1}, basis : {"as_reported"}]

PlatformInit ==
  /\ part \in Parts
  /\ SpendInit
  /\ StandingInit
  /\ RequestsInit
  /\ AuditInit
  /\ StoreInit
  /\ DraftingInit
  /\ FinalInit
  /\ LadderInit
  /\ WatchInit

PlatformNext ==
  /\ UNCHANGED part
  /\ \/ part = "spend" /\ SpendNext
        /\ UNCHANGED <<standingVars, requestVars, auditVars, storeVars, draftVars, finalVars,
                      ladderVars, watchVars>>
     \/ part = "standing" /\ StandingNext
        /\ UNCHANGED <<spendVars, requestVars, auditVars, storeVars, draftVars, finalVars,
                      ladderVars, watchVars>>
     \/ part = "requests" /\ RequestsNext
        /\ UNCHANGED <<spendVars, standingVars, auditVars, storeVars, draftVars, finalVars,
                      ladderVars, watchVars>>
     \/ part = "audit" /\ AuditNext
        /\ UNCHANGED <<spendVars, standingVars, requestVars, storeVars, draftVars, finalVars,
                      ladderVars, watchVars>>
     \/ part = "store" /\ StoreNext
        /\ UNCHANGED <<spendVars, standingVars, requestVars, auditVars, draftVars, finalVars,
                      ladderVars, watchVars>>
     \/ part = "drafting" /\ DraftingNext
        /\ UNCHANGED <<spendVars, standingVars, requestVars, auditVars, storeVars, finalVars,
                      ladderVars, watchVars>>
     \/ part = "final" /\ FinalNext
        /\ UNCHANGED <<spendVars, standingVars, requestVars, auditVars, storeVars, draftVars,
                      ladderVars, watchVars>>
     \/ part = "ladder" /\ LadderNext
        /\ UNCHANGED <<spendVars, standingVars, requestVars, auditVars, storeVars, draftVars,
                      finalVars, watchVars>>
     \/ part = "watch" /\ WatchNext
        /\ UNCHANGED <<spendVars, standingVars, requestVars, auditVars, storeVars, draftVars,
                      finalVars, ladderVars>>

PlatformSpec == PlatformInit /\ [][PlatformNext]_platformVars

(* Whatever the part that moves does, every variable of it keeps its type. *)
TypesOK ==
  /\ SpendTypeOK
  /\ StandingTypeOK
  /\ RequestsTypeOK
  /\ AuditTypeOK
  /\ StoreTypeOK
  /\ DraftingTypeOK
  /\ FinalTypeOK
  /\ WatchTypeOK
=============================================================================
