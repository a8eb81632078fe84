-------------------------- MODULE FinalGateProofs --------------------------
(***************************************************************************)
(* Theorems about FinalGate.  For any number of requests at once: the      *)
(* gate passes only on an approval of a sealed draft.  For one request at  *)
(* a time: the record past the gate is the one approved, the seal follows  *)
(* the record, and the gate is decided once.                               *)
(***************************************************************************)
EXTENDS FinalGate, TLAPS

LEMMA FinalTypeInit == FinalInit => FinalTypeOK
BY FinalGateAssumption
   DEF FinalInit, FinalTypeOK, Seals, Unsealed, Request, NoRequest, Decisions, JobStatus

LEMMA FinalTypeStep == FinalTypeOK /\ [FinalNext]_finalVars => FinalTypeOK'
<1> SUFFICES ASSUME FinalTypeOK, [FinalNext]_finalVars PROVE FinalTypeOK'
  OBVIOUS
<1> USE DEF FinalTypeOK, Seals, Unsealed, JobStatus
<1>1. CASE UNCHANGED finalVars
  BY <1>1 DEF finalVars
<1>2. CASE ClaimRun
  BY <1>2 DEF ClaimRun
<1>3. CASE ReviseAndSeal
  BY <1>3 DEF ReviseAndSeal, Sealed
<1>4. CASE ReadDecision
  BY <1>4 DEF ReadDecision
<1>5. CASE PassFinalGate
  BY <1>5 DEF PassFinalGate
<1>6. CASE WaitForDecision
  BY <1>6 DEF WaitForDecision
<1>7. CASE Render
  BY <1>7 DEF Render
<1>8. CASE BreakOff
  BY <1>8 DEF BreakOff
<1>9. CASE ResumeRun
  BY <1>9 DEF ResumeRun
<1>10. ASSUME NEW h \in Handlers, Handles(h) PROVE FinalTypeOK'
  <2>1. CASE OpenReview(h)
    <3>1. Payload \in Seals
      BY DEF Payload, Sealed
    <3>2. [NoRequest EXCEPT !.at = "page", !.hash = Payload] \in Request
      BY <3>1 DEF Request, NoRequest, Decisions
    <3>3. request' \in [Handlers -> Request]
      BY <2>1, <3>2 DEF OpenReview
    <3> QED
      BY <2>1, <3>3 DEF OpenReview, execution
  <2>2. ASSUME NEW d \in Decisions, StartDecision(h, d) PROVE FinalTypeOK'
    <3>1. [request[h] EXCEPT !.at = "deciding", !.decision = d] \in Request
      <4>1. request[h] \in Request
        OBVIOUS
      <4> QED
        BY <4>1 DEF Request
    <3>2. request' \in [Handlers -> Request]
      BY <2>2, <3>1 DEF StartDecision
    <3> QED
      BY <2>2, <3>2 DEF StartDecision, execution
  <2>3. CASE RecordDecision(h)
    BY <2>3 DEF RecordDecision, execution, Request, NoRequest, Approval, Decisions
  <2>4. ASSUME NEW settled \in SUBSET Conflicts, StartSealing(h, settled) PROVE FinalTypeOK'
    BY <2>4 DEF StartSealing, Sealing, execution, Request, NoRequest, Decisions
  <2>5. CASE FinishSealing(h)
    BY <2>5 DEF FinishSealing, execution, Request, NoRequest, Decisions
  <2>6. CASE StartSettling(h)
    BY <2>4, <2>6 DEF StartSettling
  <2>7. CASE StartReseal(h)
    BY <2>4, <2>7 DEF StartReseal
  <2> QED
    BY <1>10, <2>1, <2>2, <2>3, <2>5, <2>6, <2>7 DEF Handles
<1> QED
  BY <1>1, <1>2, <1>3, <1>4, <1>5, <1>6, <1>7, <1>8, <1>9, <1>10 DEF FinalNext, FinalWorker

(* The final gate's state is well typed, however many requests there are.  *)
THEOREM GateTypeCorrect == FinalSpec => []FinalTypeOK
BY FinalTypeInit, FinalTypeStep, PTL DEF FinalSpec

-----------------------------------------------------------------------------
(* Any number of requests at once.                                         *)

(* A recorded approval of a sealed draft is never lost.                    *)
LEMMA BackedStays == ASSUME [FinalNext]_finalVars, Backed PROVE Backed'
<1>1. approvals \subseteq approvals'
  BY DEF FinalNext, FinalWorker, Handles, finalVars, execution, ClaimRun, ReviseAndSeal,
         ReadDecision, PassFinalGate,
         WaitForDecision, Render, BreakOff, ResumeRun, OpenReview, StartDecision,
         RecordDecision, StartSettling, StartReseal, StartSealing, FinishSealing
<1> QED
  BY <1>1 DEF Backed

LEMMA PassInvStep == ASSUME FinalTypeOK, PassInv, [FinalNext]_finalVars PROVE PassInv'
<1>0. PassedMeansApproved <=> (finalRow = "passed" => Backed)
  BY DEF PassedMeansApproved, Backed
<1>00. PassedMeansApproved' <=> (finalRow' = "passed" => Backed')
  BY DEF PassedMeansApproved, Backed
<1>a. Backed => Backed'
  BY BackedStays
<1> SUFFICES /\ worker' \in {"gate", "passing", "shutting"} => heldSeal'.drafted
             /\ worker' = "passing" => Backed'
             /\ worker' = "render" => finalRow' = "passed"
             /\ finalRow' = "passed" => Backed'
  BY <1>00 DEF PassInv
<1> USE <1>0, <1>a DEF PassInv
<1>1. CASE UNCHANGED <<finalRow, worker, heldSeal>>
  BY <1>1
<1>2. CASE ClaimRun
  BY <1>2 DEF ClaimRun
<1>3. CASE ReviseAndSeal
  BY <1>3 DEF ReviseAndSeal, Sealed
<1>4. CASE ReadDecision
  BY <1>4 DEF ReadDecision, Releases, Backed
<1>5. CASE PassFinalGate
  BY <1>5 DEF PassFinalGate
<1>6. CASE WaitForDecision
  BY <1>6 DEF WaitForDecision
<1>7. CASE Render
  BY <1>7 DEF Render
<1>8. CASE BreakOff
  BY <1>8 DEF BreakOff
<1>9. CASE ResumeRun
  BY <1>9, <1>1 DEF ResumeRun
<1>10. CASE \E h \in Handlers : Handles(h)
  BY <1>1, <1>10 DEF Handles, execution, OpenReview, StartDecision, RecordDecision,
                     StartSettling, StartReseal, StartSealing, FinishSealing
<1>11. CASE UNCHANGED finalVars
  BY <1>1, <1>11 DEF finalVars
<1> QED
  BY <1>2, <1>3, <1>4, <1>5, <1>6, <1>7, <1>8, <1>9, <1>10, <1>11 DEF FinalNext, FinalWorker

(* Whatever requests overlap, the worker's place and the gate's row are    *)
(* backed by a recorded approval of a sealed draft.                        *)
THEOREM AnyTabsInvariant == FinalSpec => []AnyTabsInv
<1>1. FinalInit => AnyTabsInv
  BY FinalTypeInit DEF AnyTabsInv, PassInv, PassedMeansApproved, FinalInit
<1>2. AnyTabsInv /\ [FinalNext]_finalVars => AnyTabsInv'
  BY FinalTypeStep, PassInvStep DEF AnyTabsInv
<1> QED
  BY <1>1, <1>2, PTL DEF FinalSpec

(* The gate never passes without an approval, nor on one taken before the  *)
(* draft was sealed: what _require_approval guarantees under every race of *)
(* decisions, settlements, reseals and executions that stop.               *)
THEOREM NoPassWithoutApproval == FinalSpec => []PassedMeansApproved
<1>1. AnyTabsInv => PassedMeansApproved
  BY DEF AnyTabsInv, PassInv
<1> QED
  BY <1>1, AnyTabsInvariant, PTL

-----------------------------------------------------------------------------
(* One request at a time.                                                  *)

OneTab == \A g, h \in Handlers : g = h

AgreementInv == SealingInv /\ AgreedInv /\ OneDecision

LEMMA AgreementInit == FinalInit => AgreementInv
BY DEF FinalInit, AgreementInv, SealingInv, AgreedInv, OneDecision, NoRequest, Sealed, Unsealed

(* What the worker does to the record: nothing, or it seals the draft.     *)
LEMMA RecordUnderRun ==
  ASSUME FinalTypeOK, AgreementInv, UNCHANGED <<open, approvals, request>>,
         seal' = IF Sealed THEN seal ELSE [drafted |-> TRUE, open |-> open]
  PROVE  AgreementInv'
<1> USE DEF FinalTypeOK, Seals, Sealed, Payload
<1>1. SealingInv'
  BY DEF AgreementInv, SealingInv
<1>2. CASE Sealed
  BY <1>1, <1>2 DEF AgreementInv, AgreedInv, OneDecision
<1>3. CASE ~Sealed
  <2>1. \A h \in Handlers : request[h].at = "deciding" => ~request[h].hash.drafted
    BY <1>3 DEF AgreementInv, AgreedInv
  <2>2. \A a \in approvals : ~a.hash.drafted
    BY <1>3 DEF AgreementInv, AgreedInv
  <2>3. seal' = Payload'
    BY <1>3
  <2>4. \A h \in Handlers : request[h].at = "deciding" => approvals = {}
    BY DEF AgreementInv, AgreedInv
  <2> QED
    BY <1>1, <2>1, <2>2, <2>3, <2>4 DEF AgreementInv, AgreedInv, OneDecision
<1> QED
  BY <1>2, <1>3

LEMMA RecordUnchanged ==
  ASSUME AgreementInv, UNCHANGED <<open, seal, approvals, request>>
  PROVE  AgreementInv'
BY DEF AgreementInv, SealingInv, AgreedInv, OneDecision, Sealed, Payload

(* A request begins: it saw the record as it is.                           *)
LEMMA RecordAtStart ==
  ASSUME OneTab, FinalTypeOK, AgreementInv, UNCHANGED <<open, seal, approvals>>,
         NEW h \in Handlers, Free(h), NEW r \in Request,
         request' = [request EXCEPT ![h] = r],
         \/ r.at = "page"
         \/ r.at = "deciding" /\ r.hash = Payload /\ approvals = {}
         \/ /\ r.at = "sealing" /\ Sealed
            /\ r.hash = [drafted |-> TRUE, open |-> open \ r.settles]
            /\ r.moves \/ seal = r.hash
            /\ r.settles = {} \/ approvals = {}
  PROVE  AgreementInv'
<1>1. \A g \in Handlers : request'[g] = r
  BY DEF OneTab, FinalTypeOK
<1>2. \A g \in Handlers : request[g].at # "sealing"
  BY DEF OneTab, Free
<1>3. SealingInv'
  BY <1>1 DEF SealingInv, Sealed
<1>4. Payload' = Payload /\ Sealed' = Sealed
  BY DEF Payload, Sealed
<1>5. AgreedInv'
  BY <1>1, <1>2, <1>4 DEF AgreementInv, AgreedInv
<1> QED
  BY <1>3, <1>5 DEF AgreementInv, OneDecision

(* A request commits: nobody moved the record since it began.              *)
LEMMA RecordAtDecision ==
  ASSUME OneTab, FinalTypeOK, AgreementInv, NEW h \in Handlers, RecordDecision(h)
  PROVE  AgreementInv'
<1> DEFINE a == [by |-> h, decision |-> request[h].decision, hash |-> request[h].hash]
<1>1. approvals' = {a} /\ (a.hash.drafted => a.hash = Payload)
  BY DEF AgreementInv, AgreedInv, RecordDecision
<1>2. \A g \in Handlers : request'[g].at = "idle" /\ request[g].at # "sealing"
  BY DEF OneTab, FinalTypeOK, RecordDecision, NoRequest
<1>3. Payload' = Payload /\ Sealed' = Sealed /\ seal' = seal
  BY DEF RecordDecision, Payload, Sealed
<1> QED
  BY <1>1, <1>2, <1>3 DEF AgreementInv, SealingInv, AgreedInv, OneDecision

LEMMA RecordAtSealing ==
  ASSUME OneTab, FinalTypeOK, AgreementInv, NEW h \in Handlers, FinishSealing(h)
  PROVE  AgreementInv'
<1>1. \A g \in Handlers : request'[g].at = "idle"
  BY DEF OneTab, FinalTypeOK, FinishSealing, NoRequest
<1>2. seal' = Payload' /\ Sealed'
  <2>1. request[h].hash = [drafted |-> TRUE, open |-> open \ request[h].settles]
    BY DEF AgreementInv, SealingInv, FinishSealing
  <2>2. seal' = [drafted |-> TRUE, open |-> open']
    BY <2>1 DEF AgreementInv, SealingInv, FinishSealing
  <2> QED
    BY <2>2 DEF Payload, Sealed
<1>3. ASSUME NEW a \in approvals, a.hash.drafted PROVE a.hash = Payload'
  <2>1. request[h].settles = {} /\ open' = open /\ Sealed
    BY <1>3 DEF FinalTypeOK, AgreementInv, SealingInv, FinishSealing
  <2>2. Payload' = Payload
    BY <1>2, <2>1 DEF Payload
  <2> QED
    BY <1>3, <2>2 DEF AgreementInv, AgreedInv
<1>4. approvals' = approvals
  BY DEF FinishSealing, execution
<1> QED
  BY <1>1, <1>2, <1>3, <1>4 DEF AgreementInv, SealingInv, AgreedInv, OneDecision

LEMMA AgreementStep ==
  ASSUME OneTab, FinalTypeOK, AgreementInv, [FinalNext]_finalVars
  PROVE  AgreementInv'
<1>1. CASE UNCHANGED finalVars
  BY <1>1, RecordUnchanged DEF finalVars
<1>2. CASE \/ ClaimRun \/ ReadDecision \/ PassFinalGate \/ WaitForDecision \/ Render
           \/ BreakOff \/ ResumeRun
  BY <1>2, RecordUnchanged
  DEF ClaimRun, ReadDecision, PassFinalGate, WaitForDecision, Render, BreakOff, ResumeRun
<1>3. CASE ReviseAndSeal
  BY <1>3, RecordUnderRun DEF ReviseAndSeal
<1>4. ASSUME NEW h \in Handlers, Handles(h) PROVE AgreementInv'
  <2>1. CASE OpenReview(h)
    <3>1. [NoRequest EXCEPT !.at = "page", !.hash = Payload] \in Request
      BY DEF FinalTypeOK, Request, NoRequest, Payload, Sealed, Seals, Decisions
    <3>2. [NoRequest EXCEPT !.at = "page", !.hash = Payload].at = "page"
      BY DEF NoRequest
    <3> QED
      BY <2>1, <3>1, <3>2, RecordAtStart DEF OpenReview
  <2>2. ASSUME NEW d \in Decisions, StartDecision(h, d) PROVE AgreementInv'
    <3> DEFINE r == [request[h] EXCEPT !.at = "deciding", !.decision = d]
    <3>1. r \in Request /\ r.at = "deciding" /\ r.hash = request[h].hash
      BY DEF FinalTypeOK, Request
    <3>2. request' = [request EXCEPT ![h] = r]
      BY <2>2 DEF StartDecision
    <3>3. Free(h) /\ request[h].hash = Payload /\ approvals = {}
      BY <2>2 DEF StartDecision, MayBeDecided, Free
    <3> QED
      BY <2>2, <3>1, <3>2, <3>3, RecordAtStart DEF StartDecision
  <2>3. ASSUME NEW settled \in SUBSET Conflicts, StartSealing(h, settled),
               settled = {} \/ approvals = {}
        PROVE  AgreementInv'
    <3> DEFINE r == Sealing(settled)
    <3>1. r \in Request
      BY DEF FinalTypeOK, Request, Sealing, Seals, Decisions
    <3>2. /\ r.at = "sealing" /\ r.settles = settled
          /\ r.hash = [drafted |-> TRUE, open |-> open \ settled]
          /\ r.moves \/ seal = r.hash
      BY DEF Sealing
    <3>3. request' = [request EXCEPT ![h] = r] /\ Free(h) /\ Sealed
      BY <2>3 DEF StartSealing, MayReseal
    <3> HIDE DEF r
    <3> QED
      BY <2>3, <3>1, <3>2, <3>3, RecordAtStart DEF StartSealing
  <2>4. CASE StartSettling(h)
    BY <2>3, <2>4 DEF StartSettling, FinalTypeOK
  <2>5. CASE StartReseal(h)
    BY <2>3, <2>5 DEF StartReseal
  <2>6. CASE RecordDecision(h)
    BY <2>6, RecordAtDecision
  <2>7. CASE FinishSealing(h)
    BY <2>7, RecordAtSealing
  <2> QED
    BY <1>4, <2>1, <2>2, <2>4, <2>5, <2>6, <2>7 DEF Handles
<1> QED
  BY <1>1, <1>2, <1>3, <1>4 DEF FinalNext, FinalWorker

(* With one request at a time, the record cannot move between a request's  *)
(* checks and its commit, whatever the run does meanwhile.                 *)
THEOREM OneTabInvariant == ASSUME OneTab PROVE FinalSpec => []OneTabInv
<1>1. FinalInit => AgreementInv
  BY AgreementInit
<1>2. AnyTabsInv /\ AgreementInv /\ [FinalNext]_finalVars => AgreementInv'
  BY AgreementStep DEF AnyTabsInv
<1>3. AnyTabsInv /\ AgreementInv => OneTabInv
  BY DEF OneTabInv, AgreementInv
<1> QED
  BY <1>1, <1>2, <1>3, AnyTabsInvariant, PTL DEF FinalSpec

(* Then no conflict is settled under the decision: past the gate, the      *)
(* record is the one that was approved.                                    *)
THEOREM ApprovedRecordStands == ASSUME OneTab PROVE FinalSpec => []TheRecordIsWhatWasApproved
<1>1. OneTabInv => TheRecordIsWhatWasApproved
  BY DEF OneTabInv, AnyTabsInv, PassInv, PassedMeansApproved, AgreedInv,
         TheRecordIsWhatWasApproved
<1> QED
  BY <1>1, OneTabInvariant, PTL

(* Then a settlement and its seal never come apart.                        *)
THEOREM SealFollowsThePayload == ASSUME OneTab PROVE FinalSpec => []SealIsThePayload
<1>1. OneTabInv => SealIsThePayload
  BY DEF OneTabInv, AgreedInv, SealIsThePayload, NoneUnderWay, Free
<1> QED
  BY <1>1, OneTabInvariant, PTL

(* And then the gate is decided once.                                      *)
THEOREM DecidedOnce == ASSUME OneTab PROVE FinalSpec => []OneDecision
<1>1. OneTabInv => OneDecision
  BY DEF OneTabInv
<1> QED
  BY <1>1, OneTabInvariant, PTL

-----------------------------------------------------------------------------
(* The abstract gate.                                                      *)

LEMMA PassedStep == ASSUME PassedInv, [FinalNext]_finalVars PROVE PassedInv'
<1> USE DEF PassedInv
<1>1. CASE FinalWorker \/ BreakOff \/ ResumeRun
  BY <1>1 DEF FinalWorker, ClaimRun, ReviseAndSeal, ReadDecision, PassFinalGate,
              WaitForDecision, Render, BreakOff, ResumeRun
<1>2. CASE \E h \in Handlers : Handles(h)
  BY <1>2 DEF Handles, execution, OpenReview, StartDecision, RecordDecision, StartSettling,
              StartReseal, StartSealing, FinishSealing
<1>3. CASE UNCHANGED finalVars
  BY <1>3 DEF finalVars
<1> QED
  BY <1>1, <1>2, <1>3 DEF FinalNext, FinalWorker

Acted == IF finalRow = "passed" THEN {Payload} ELSE {}
isDecided == approvals # {}
finalPromised == <<Payload, Agreements, isDecided, Acted>>

(* Once decided for good the record does not move, and what was agreed is  *)
(* the record as it stands.                                                *)
LEMMA AgreementIs ==
  ASSUME OneTabInv, Backed
  PROVE  Agreements = {Payload} /\ Sealed
<1>1. PICK a \in approvals : a.decision = "APPROVED" /\ a.hash.drafted
  BY DEF Backed
<1>2. a.hash = Payload /\ \A b \in approvals : b = a
  BY <1>1 DEF OneTabInv, AgreedInv, OneDecision
<1>3. Sealed
  BY <1>1, <1>2 DEF Payload, Sealed
<1> QED
  BY <1>1, <1>2, <1>3 DEF Agreements

LEMMA GateMoves ==
  ASSUME OneTab, OneTabInv, PassedInv, [FinalNext]_finalVars
  PROVE  Promise!Next \/ UNCHANGED finalPromised
<1> USE DEF finalPromised, isDecided
<1>0. /\ FinalTypeOK /\ AgreementInv
      /\ finalRow = "passed" => Backed
      /\ worker = "passing" => Backed
  BY DEF OneTabInv, AnyTabsInv, PassInv, PassedMeansApproved, Backed, AgreementInv
<1>still. ASSUME UNCHANGED <<open, seal, finalRow, approvals>> PROVE UNCHANGED finalPromised
  BY <1>still DEF Payload, Sealed, Agreements, Acted
<1>change. ASSUME Payload' \in Seals, UNCHANGED <<finalRow, approvals>>, finalRow # "passed"
           PROVE  Promise!Next
  <2>1. UNCHANGED <<Agreements, approvals # {}, Acted>>
    BY <1>change DEF Agreements, Acted
  <2>2. Promise!Change
    BY <1>change, <2>1 DEF Promise!Change, Acted
  <2> QED
    BY <2>2 DEF Promise!Next
<1>1. CASE ClaimRun \/ ReadDecision \/ Render \/ BreakOff \/ ResumeRun
  BY <1>1, <1>still DEF ClaimRun, ReadDecision, Render, BreakOff, ResumeRun
<1>2. CASE ReviseAndSeal
  <2>1. /\ UNCHANGED <<open, finalRow, approvals>>
        /\ seal' = IF Sealed THEN seal ELSE [drafted |-> TRUE, open |-> open]
    BY <1>2 DEF ReviseAndSeal
  <2>2. CASE Sealed
    BY <2>1, <2>2, <1>still
  <2>3. CASE ~Sealed
    <3>1. finalRow # "passed"
      BY <1>0, <2>3, AgreementIs
    <3>2. Payload' \in Seals
      BY <1>0, <2>1, <2>3 DEF Payload, Sealed, Seals, FinalTypeOK
    <3> QED
      BY <1>change, <2>1, <3>1, <3>2
  <2> QED
    BY <2>2, <2>3
<1>3. CASE PassFinalGate
  <2>1. /\ finalRow # "passed" /\ finalRow' = "passed"
        /\ UNCHANGED <<open, seal, approvals>>
    BY <1>3 DEF PassFinalGate, PassedInv
  <2>2. Agreements = {Payload}
    BY <1>0, <1>3, AgreementIs DEF PassFinalGate
  <2>3. Acted = {} /\ Acted' = {Payload} /\ UNCHANGED <<Payload, Agreements, approvals # {}>>
    BY <2>1 DEF Acted, Payload, Sealed, Agreements
  <2>4. Promise!Act
    BY <2>2, <2>3 DEF Promise!Act, Acted
  <2> QED
    BY <2>4 DEF Promise!Next
<1>4. CASE WaitForDecision
  <2>1. UNCHANGED <<Payload, Agreements, approvals # {}, Acted>>
    BY <1>4 DEF WaitForDecision, PassedInv, Payload, Sealed, Agreements, Acted
  <2> QED
    BY <2>1
<1>5. ASSUME NEW h \in Handlers, Handles(h) PROVE Promise!Next \/ UNCHANGED finalPromised
  <2>1. CASE UNCHANGED <<open, seal, approvals>>
    BY <1>5, <2>1, <1>still
       DEF Handles, execution, OpenReview, StartDecision, RecordDecision, StartSettling,
           StartReseal, StartSealing, FinishSealing
  <2>2. CASE RecordDecision(h)
    <3> DEFINE a == [by |-> h, decision |-> request[h].decision, hash |-> request[h].hash]
    <3>1. /\ approvals = {} /\ approvals' = {a}
          /\ a.hash.drafted => a.hash = Payload
          /\ UNCHANGED <<open, seal, finalRow>>
      BY <1>0, <2>2 DEF AgreementInv, AgreedInv, RecordDecision, execution
    <3>2. Agreements' = {} \/ Agreements' = {Payload}
      <4>1. Agreements' = {b.hash : b \in {c \in {a} : c.decision = "APPROVED" /\ c.hash.drafted}}
        BY <3>1 DEF Agreements
      <4>2. CASE a.decision = "APPROVED" /\ a.hash.drafted
        <5> HIDE DEF a
        <5> QED
          BY <3>1, <4>1, <4>2
      <4>3. CASE ~(a.decision = "APPROVED" /\ a.hash.drafted)
        <5> HIDE DEF a
        <5> QED
          BY <3>1, <4>1, <4>3
      <4> QED
        BY <4>2, <4>3
    <3>3. finalRow # "passed"
      BY <1>0, <3>1 DEF Backed
    <3>4. /\ ~(approvals # {}) /\ approvals' # {}
          /\ UNCHANGED <<Payload, Acted>>
      BY <3>1 DEF Payload, Sealed, Acted
    <3>5. Promise!Decide
      BY <3>2, <3>4 DEF Promise!Decide, Acted
    <3> QED
      BY <3>5 DEF Promise!Next
  <2>3. CASE FinishSealing(h)
    <3>1. UNCHANGED <<finalRow, approvals>> /\ open' = open \ request[h].settles
      BY <2>3 DEF FinishSealing, execution
    <3>2. /\ Sealed /\ Sealed'
          /\ request[h].settles = {} \/ approvals = {}
      <4>1. /\ Sealed /\ (request[h].settles = {} \/ approvals = {})
            /\ request[h].hash = [drafted |-> TRUE, open |-> open \ request[h].settles]
        BY <1>0, <2>3 DEF AgreementInv, SealingInv, FinishSealing
      <4>2. seal' = request[h].hash \/ seal' = seal
        BY <2>3 DEF FinishSealing
      <4> QED
        BY <4>1, <4>2 DEF Sealed
    <3>3. CASE request[h].settles = {}
      <4>1. UNCHANGED <<Payload, Agreements, approvals # {}, Acted>>
        BY <3>1, <3>2, <3>3 DEF Payload, Agreements, Acted
      <4> QED
        BY <4>1
    <3>4. CASE approvals = {}
      <4>1. finalRow # "passed"
        BY <1>0, <3>4 DEF Backed
      <4>2. Payload' \in Seals
        BY <1>0, <3>1, <3>2 DEF Payload, Seals, FinalTypeOK
      <4> QED
        BY <1>change, <3>1, <4>1, <4>2
    <3> QED
      BY <3>2, <3>3, <3>4
  <2> QED
    BY <1>5, <2>1, <2>2, <2>3 DEF Handles, execution, OpenReview, StartDecision, StartSettling,
              StartReseal, StartSealing
<1>6. CASE UNCHANGED finalVars
  BY <1>6, <1>still DEF finalVars
<1> QED
  BY <1>1, <1>2, <1>3, <1>4, <1>5, <1>6 DEF FinalNext, FinalWorker

(* With one request at a time, the final gate is the gate of ApprovalGate, *)
(* however the run stops and is resumed and its seal is moved: one         *)
(* decision, on the record as it stands, and once past the gate that       *)
(* record is not touched again.                                            *)
THEOREM FinalGateKeepsThePromise == ASSUME OneTab PROVE FinalSpec => FinalGateIsAGate
<1>1. FinalInit => Promise!Init /\ PassedInv
  BY DEF FinalInit, Promise!Init, PassedInv, Payload, Sealed, Unsealed, Agreements
<1>2. OneTabInv /\ PassedInv /\ [FinalNext]_finalVars => [Promise!Next]_finalPromised
  BY GateMoves
<1>3. PassedInv /\ [FinalNext]_finalVars => PassedInv'
  BY PassedStep
<1> QED
  BY <1>1, <1>2, <1>3, OneTabInvariant, PTL
  DEF FinalSpec, FinalGateIsAGate, Promise!Spec, finalPromised, isDecided, Acted
=============================================================================
