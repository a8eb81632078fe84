--------------------------- MODULE PlatformProofs ---------------------------
(***************************************************************************)
(* What the theorems about each module say of the modules side by side:    *)
(* a behaviour of MCPlatform or of MCFair is one of every module in it, so *)
(* each theorem about a module is one about the instance that TLC checks.  *)
(***************************************************************************)
EXTENDS MCPlatform, MCFair, SpendProofs, EvidenceProofs, DraftingProofs, FinalGateProofs,
        OperatorProofs

-----------------------------------------------------------------------------
(* A step of one part is a stuttering step of every other.                 *)
LEMMA PlatformSteps ==
  [PlatformNext]_platformVars =>
    /\ [SpendNext]_spendVars
    /\ [StandingNext]_standingVars
    /\ [RequestsNext]_requestVars
    /\ [AuditNext]_auditVars
    /\ [StoreNext]_storeVars
    /\ [DraftingNext]_draftVars
    /\ [FinalNext]_finalVars
    /\ [LadderNext]_ladderVars
    /\ [WatchNext]_watchVars
BY DEF PlatformNext, platformVars

(* Money, the queue, requests, the log, the archive, the drafts, the final *)
(* gate, the ladder and the monitor go on side by side without disturbing  *)
(* each other: whatever part a behaviour of the instance is about, it is a *)
(* behaviour of every one of the modules.                                  *)
THEOREM PlatformIsItsParts ==
  PlatformSpec =>
    /\ SpendSpec /\ StandingSpec /\ RequestsSpec /\ AuditSpec
    /\ StoreSpec /\ DraftingSpec /\ FinalSpec /\ LadderSpec /\ WatchSpec
<1>1. PlatformInit => /\ SpendInit /\ StandingInit /\ RequestsInit /\ AuditInit
                      /\ StoreInit /\ DraftingInit /\ FinalInit /\ LadderInit
                      /\ WatchInit
  BY DEF PlatformInit
<1> QED
  BY <1>1, PlatformSteps, PTL
     DEF PlatformSpec, SpendSpec, StandingSpec, RequestsSpec, AuditSpec, StoreSpec,
         DraftingSpec, FinalSpec, LadderSpec, WatchSpec

(* Every variable of every part keeps its type, whatever part moves.       *)
THEOREM PlatformTypesCorrect == PlatformSpec => []TypesOK
BY PlatformIsItsParts, SpendTypeCorrect, StandingTypeCorrect, RequestsTypeCorrect,
   AuditTypeCorrect, StoreTypeCorrect, DraftingTypeCorrect, GateTypeCorrect,
   WatchTypeCorrect, PTL
   DEF TypesOK

-----------------------------------------------------------------------------
(* The same of the instance whose parts are fair.                          *)
LEMMA FairSteps ==
  [FairNext]_fairVars =>
    [FinalNext]_finalVars /\ [Next]_vars /\ [FetchNext]_fetchVars /\ [BookNext]_bookVars
BY DEF FairNext, fairVars

(* The final gate, the gates over live rows, what fetches share and the    *)
(* book go on side by side, each as its module says.                       *)
THEOREM FairPartsAreTheirParts ==
  FairPartsSpec => FinalSpec /\ Spec /\ FetchSpec /\ BookSpec
<1>1. FairInit => FinalInit /\ Init /\ FetchInit /\ BookInit
  BY DEF FairInit
<1> QED
  BY <1>1, FairSteps, PTL DEF FairPartsSpec, FinalSpec, Spec, FetchSpec, BookSpec

(* Every variable of every part keeps its type, whatever part moves.       *)
THEOREM FairTypesCorrect == FairPartsSpec => []FairTypesOK
BY FairPartsAreTheirParts, GateTypeCorrect, TypeCorrect, FetchTypeCorrect, BookTypeCorrect, PTL
   DEF FairTypesOK
=============================================================================
