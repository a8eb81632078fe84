----------------------------- MODULE FinalGate -----------------------------
(***************************************************************************)
(* The final gate of one run: what it seals, what the review page shows,   *)
(* what a decision was taken on, and what the gate step compares.          *)
(*                                                                         *)
(* The `revise` step seals the gate by storing the hash of its payload.    *)
(* The payload's only movable part after that is the set of conflicts      *)
(* still open: the operator may settle one on the review page, which       *)
(* re-seals, until a decision is recorded.  The gate step compares the     *)
(* decision's hash with the seal its execution holds.                      *)
(*                                                                         *)
(* Every web handler and the `aer reseal` command runs in a transaction of *)
(* its own: what it checked may no longer be so when it commits.  Nothing  *)
(* in the schema makes a gate's decision unique.                           *)
(***************************************************************************)
EXTENDS Naturals

CONSTANTS
  Conflicts,       \* the escalated disagreements of the run
  Handlers,        \* web requests and commands that may be under way at once
  EvidenceMayFail, \* may the evidence check shut the gate?
  MaxBreaks        \* bound: executions that pause, fail or die on the way

ASSUME FinalGateAssumption ==
  EvidenceMayFail \in BOOLEAN /\ MaxBreaks \in Nat

VARIABLES
  open,      \* disagreements with resolution ESCALATED
  seal,      \* the payload hash in the revise step's output_ref
  finalRow,  \* the final gate's row: "none", "waiting", "passed"
  status,    \* jobs.status
  entry,     \* an entry naming the run is in the queue
  worker,    \* where the worker is
  heldSeal,  \* the seal among the outputs the worker holds
  approvals, \* the approvals rows of this gate
  request,   \* request[h]: the handler h, between its checks and its commit
  breaks     \* executions that stopped short (bounded)

execution == <<finalRow, status, worker, heldSeal, breaks>>
finalVars ==
  <<open, seal, finalRow, status, entry, worker, heldSeal, approvals, request, breaks>>

(* A hash stands for the payload it digests: before the draft is sealed    *)
(* there are other sections in it.                                         *)
Seals    == [drafted : BOOLEAN, open : SUBSET Conflicts]
Unsealed == [drafted |-> FALSE, open |-> {}]
Sealed   == seal.drafted
Payload  == [drafted |-> Sealed, open |-> open]

Decisions == {"APPROVED", "REJECTED"}
Approval  == [by : Handlers, decision : Decisions, hash : Seals]
JobStatus == {"QUEUED", "RUNNING", "AWAITING_APPROVAL", "PAUSED", "FAILED", "SUCCEEDED"}
Request   == [at : {"idle", "page", "deciding", "sealing"}, hash : Seals,
              decision : Decisions, settles : SUBSET Conflicts, moves : BOOLEAN]
NoRequest == [at |-> "idle", hash |-> Unsealed, decision |-> "REJECTED",
              settles |-> {}, moves |-> FALSE]

FinalTypeOK ==
  /\ open \in SUBSET Conflicts
  /\ seal \in Seals
  /\ finalRow \in {"none", "waiting", "passed"}
  /\ status \in JobStatus
  /\ entry \in BOOLEAN
  /\ worker \in {"idle", "revise", "gate", "passing", "shutting", "render"}
  /\ heldSeal \in Seals
  /\ approvals \in SUBSET Approval
  /\ request \in [Handlers -> Request]
  /\ breaks \in Nat

(* The plan gate is approved, the sections are drafted and challenged, and *)
(* the run is queued to go on to its revise step.                          *)
FinalInit ==
  /\ open = Conflicts
  /\ seal = Unsealed
  /\ finalRow = "none"
  /\ status = "QUEUED"
  /\ entry = TRUE
  /\ worker = "idle"
  /\ heldSeal = Unsealed
  /\ approvals = {}
  /\ request = [h \in Handlers |-> NoRequest]
  /\ breaks = 0

-----------------------------------------------------------------------------
(* The run.                                                                *)

(* A run that reads RUNNING is taken for one in progress, and left alone.  *)
ClaimRun ==
  /\ entry
  /\ worker = "idle"
  /\ status # "SUCCEEDED"
  /\ entry' = FALSE
  /\ status' = "RUNNING"
  /\ worker' = IF status = "RUNNING" THEN "idle" ELSE "revise"
  /\ UNCHANGED <<open, seal, finalRow, heldSeal, approvals, request, breaks>>

(* The revise step seals the payload as it stands; on a later execution    *)
(* its stored output is taken, and the gate's too once it has passed.      *)
ReviseAndSeal ==
  /\ worker = "revise"
  /\ seal' = IF Sealed THEN seal ELSE [drafted |-> TRUE, open |-> open]
  /\ heldSeal' = seal'
  /\ worker' = IF finalRow = "passed" THEN "render" ELSE "gate"
  /\ UNCHANGED <<open, finalRow, status, entry, approvals, request, breaks>>

(* Mutant: the hash of the approval is not compared. *)
ReleasesUncompared(a) == a.decision = "APPROVED"

(* _require_approval reads one row, whichever the database returns.        *)
Releases(a) == a.decision = "APPROVED" /\ a.hash = heldSeal

ReadDecision ==
  /\ worker = "gate"
  /\ \/ (\E a \in approvals : Releases(a)) /\ worker' = "passing"
     \/ /\ EvidenceMayFail \/ approvals = {} \/ \E a \in approvals : ~Releases(a)
        /\ worker' = "shutting"
  /\ UNCHANGED <<open, seal, finalRow, status, entry, heldSeal, approvals, request, breaks>>

PassFinalGate ==
  /\ worker = "passing"
  /\ finalRow' = "passed"
  /\ worker' = "render"
  /\ UNCHANGED <<open, seal, status, entry, heldSeal, approvals, request, breaks>>

WaitForDecision ==
  /\ worker = "shutting"
  /\ finalRow' = "waiting"
  /\ status' = "AWAITING_APPROVAL"
  /\ worker' = "idle"
  /\ heldSeal' = Unsealed
  /\ UNCHANGED <<open, seal, entry, approvals, request, breaks>>

Render ==
  /\ worker = "render"
  /\ status' = "SUCCEEDED"
  /\ worker' = "idle"
  /\ heldSeal' = Unsealed
  /\ UNCHANGED <<open, seal, finalRow, entry, approvals, request, breaks>>

(* Step mode, a cap or a failed step stops the execution between two       *)
(* steps; a lost worker leaves RUNNING behind it.                          *)
BreakOff ==
  /\ worker # "idle"
  /\ breaks < MaxBreaks
  /\ breaks' = breaks + 1
  /\ status' \in {"PAUSED", "FAILED", "RUNNING"}
  /\ worker' = "idle"
  /\ heldSeal' = Unsealed
  /\ UNCHANGED <<open, seal, finalRow, entry, approvals, request>>

(* The operator resumes a run that nothing is executing.                   *)
ResumeRun ==
  /\ worker = "idle"
  /\ ~entry
  /\ status # "SUCCEEDED"
  /\ status' = "QUEUED"
  /\ entry' = TRUE
  /\ UNCHANGED <<open, seal, finalRow, worker, heldSeal, approvals, request, breaks>>

-----------------------------------------------------------------------------
(* The handlers.                                                           *)

Free(h) == request[h].at \in {"idle", "page"}

(* The review page: the payload of this moment, hashed into its form.      *)
OpenReview(h) ==
  /\ Free(h)
  /\ request' = [request EXCEPT ![h] = [NoRequest EXCEPT !.at = "page", !.hash = Payload]]
  /\ UNCHANGED <<open, seal, execution, entry, approvals>>

(* A page that has moved is refused, and so is a second decision.  The     *)
(* gate need not have been reached.                                        *)
MayBeDecided(h) == request[h].hash = Payload /\ approvals = {}

StartDecision(h, decision) ==
  /\ request[h].at = "page"
  /\ MayBeDecided(h)
  /\ request' = [request EXCEPT ![h] =
       [@ EXCEPT !.at = "deciding", !.decision = decision]]
  /\ UNCHANGED <<open, seal, execution, entry, approvals>>

RecordDecision(h) ==
  /\ request[h].at = "deciding"
  /\ approvals' = approvals \cup
       {[by |-> h, decision |-> request[h].decision, hash |-> request[h].hash]}
  /\ entry' = (entry \/ request[h].decision = "APPROVED")
  /\ request' = [request EXCEPT ![h] = NoRequest]
  /\ UNCHANGED <<open, seal, execution>>

(* Mutant: a decided gate is not resealed. *)
MayResealUndecided ==
  Sealed /\ status \notin {"RUNNING", "SUCCEEDED", "FAILED"} /\ approvals = {}

(* reseal_final_gate: not while the run executes or once it has finished,  *)
(* and only a seal that exists moves.                                      *)
MayReseal == Sealed /\ status \notin {"RUNNING", "SUCCEEDED", "FAILED"}

(* A seal that already is what the record would hash to is not written.    *)
Sealing(settled) ==
  LET hash == [drafted |-> TRUE, open |-> open \ settled] IN
  [at |-> "sealing", hash |-> hash, decision |-> "REJECTED",
   settles |-> settled, moves |-> seal # hash]

StartSealing(h, settled) ==
  /\ Free(h)
  /\ MayReseal
  /\ request' = [request EXCEPT ![h] = Sealing(settled)]
  /\ UNCHANGED <<open, seal, execution, entry, approvals>>

(* Mutant: a conflict may be settled under a decision. *)
StartSettlingAnyway(h) == \E c \in open : StartSealing(h, {c})

(* Settling one open conflict, before the gate is decided; in the same     *)
(* transaction the gate is re-sealed over what is then left.               *)
StartSettling(h) == approvals = {} /\ \E c \in open : StartSealing(h, {c})

(* `aer reseal`: the seal moves to the record as it stands.                *)
StartReseal(h) == seal # Payload /\ StartSealing(h, {})

(* Mutant: the settlement leaves the seal where it was. *)
FinishSealingUnsealed(h) ==
  /\ request[h].at = "sealing"
  /\ open' = open \ request[h].settles
  /\ request' = [request EXCEPT ![h] = NoRequest]
  /\ UNCHANGED <<seal, execution, entry, approvals>>

FinishSealing(h) ==
  /\ request[h].at = "sealing"
  /\ open' = open \ request[h].settles
  /\ seal' = IF request[h].moves THEN request[h].hash ELSE seal
  /\ request' = [request EXCEPT ![h] = NoRequest]
  /\ UNCHANGED <<execution, entry, approvals>>

-----------------------------------------------------------------------------
FinalWorker ==
  ClaimRun \/ ReviseAndSeal \/ ReadDecision \/ PassFinalGate \/ WaitForDecision \/ Render

Handles(h) ==
  \/ OpenReview(h)
  \/ \E decision \in Decisions : StartDecision(h, decision)
  \/ RecordDecision(h)
  \/ StartSettling(h) \/ StartReseal(h) \/ FinishSealing(h)

FinalNext == FinalWorker \/ BreakOff \/ ResumeRun \/ \E h \in Handlers : Handles(h)

FinalSpec == FinalInit /\ [][FinalNext]_finalVars

(* The worker works and begun requests finish.  The operator is taken to   *)
(* do what the run's messages ask of them: resume a run that stopped and   *)
(* reseal one whose seal has drifted, as often as that is possible.        *)
Fairness ==
  /\ WF_finalVars(FinalWorker)
  /\ WF_finalVars(ResumeRun)
  /\ \A h \in Handlers :
       /\ WF_finalVars(RecordDecision(h))
       /\ WF_finalVars(FinishSealing(h))
       /\ SF_finalVars(StartReseal(h))

(* And to open the page again and approve what it shows, if that is taken. *)
Persistence ==
  \A h \in Handlers : SF_finalVars(OpenReview(h)) /\ SF_finalVars(StartDecision(h, "APPROVED"))

FinalFairSpec  == FinalSpec /\ Fairness
PersistentSpec == FinalFairSpec /\ Persistence

-----------------------------------------------------------------------------
NoneUnderWay == \A h \in Handlers : Free(h)

(* The gate has passed only on a recorded approval of a draft that had     *)
(* been sealed, however many requests were under way at once.              *)
PassedMeansApproved ==
  finalRow = "passed" => \E a \in approvals : a.decision = "APPROVED" /\ a.hash.drafted

(* Past the gate, the record is the one that was approved: no conflict is  *)
(* settled under the decision ("Settling after the gate is decided is      *)
(* refused").                                                              *)
TheRecordIsWhatWasApproved ==
  finalRow = "passed" => \E a \in approvals : a.decision = "APPROVED" /\ a.hash = Payload

(* Between requests the seal is the hash of what the review page shows     *)
(* ("The step's recorded hash moves to the payload as it now stands").     *)
SealIsThePayload == Sealed /\ NoneUnderWay => seal = Payload

(* "Approving twice is refused."                                           *)
OneDecision == \A a, b \in approvals : a = b

(* A run stopped at a gate whose one decision approves what the page shows *)
(* goes on, after a reseal if the seal had drifted: neither the seal nor   *)
(* the decision can be moved under it any more.                            *)
Agreed ==
  /\ Sealed
  /\ NoneUnderWay
  /\ \E a \in approvals : approvals = {a} /\ a.decision = "APPROVED" /\ a.hash = Payload
AgreedRunsGoOn == Agreed ~> finalRow = "passed"

(* A run whose approval was of something else can be approved again: "Open *)
(* the review page again and decide on what it shows now."                 *)
Stale == finalRow = "waiting" /\ approvals # {} /\ \A a \in approvals : a.hash # Payload
StaleApprovalsAreRetaken == Stale ~> finalRow = "passed"

-----------------------------------------------------------------------------
(* The inductive invariant for any number of requests at once, behind      *)
(* PassedMeansApproved.                                                    *)
Backed == \E a \in approvals : a.decision = "APPROVED" /\ a.hash.drafted

PassInv ==
  /\ worker \in {"gate", "passing", "shutting"} => heldSeal.drafted
  /\ worker = "passing" => Backed
  /\ worker = "render" => finalRow = "passed"
  /\ PassedMeansApproved

AnyTabsInv == FinalTypeOK /\ PassInv

(* And what one request at a time adds: nobody moves the record between a  *)
(* request's checks and its commit.                                        *)
SealingInv ==
  \A h \in Handlers : request[h].at = "sealing" =>
    /\ Sealed
    /\ request[h].hash = [drafted |-> TRUE, open |-> open \ request[h].settles]
    /\ request[h].moves \/ seal = request[h].hash
    /\ request[h].settles = {} \/ approvals = {}

AgreedInv ==
  /\ Sealed /\ (\A h \in Handlers : request[h].at # "sealing") => seal = Payload
  /\ \A h \in Handlers : request[h].at = "deciding" =>
       /\ approvals = {}
       /\ request[h].hash.drafted => request[h].hash = Payload
  /\ \A a \in approvals : a.hash.drafted => a.hash = Payload

OneTabInv == AnyTabsInv /\ SealingInv /\ AgreedInv /\ OneDecision

-----------------------------------------------------------------------------
(* With one request at a time, the final gate is the gate the operator     *)
(* takes it for: decided once, on the record as it stands, and the run     *)
(* goes on with that record.  An approval of a draft that was not sealed   *)
(* yet approves nothing.                                                   *)
Agreements == {a.hash : a \in {b \in approvals : b.decision = "APPROVED" /\ b.hash.drafted}}

Promise == INSTANCE ApprovalGate
  WITH Contents <- Seals, Proposed <- [drafted |-> FALSE, open |-> Conflicts],
       Required <- TRUE, content <- Payload, approved <- Agreements,
       decided <- (approvals # {}), used <- (IF finalRow = "passed" THEN {Payload} ELSE {})
FinalGateIsAGate == Promise!Spec

(* A gate that has passed is not gone back to.                             *)
PassedInv == worker \in {"gate", "passing", "shutting"} => finalRow # "passed"
=============================================================================
