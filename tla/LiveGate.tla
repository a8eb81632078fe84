------------------------------ MODULE LiveGate ------------------------------
(***************************************************************************)
(* A gate over rows the operator may still change: the assumptions, the    *)
(* peer set and the themes of a run.  The gate page hashes the rows as     *)
(* they are, the gate step compares the decision with the rows as they are *)
(* then, and a later step uses them as they are by that time.  The steps   *)
(* that use peers and themes compare once more (`confirmed_peer_set`,      *)
(* `confirmed_theme_set`); the valuation does not.                         *)
(***************************************************************************)
EXTENDS Naturals

CONSTANTS
  Contents,   \* what the rows may say
  Proposed,   \* what the proposing step writes
  Becomes,    \* Becomes[c]: what the operator may turn c into
  Required,   \* is there anything to ask? (a slate proposed empty is not)
  Rechecks,   \* does the using step compare the rows with the decision?
  MaxHalts    \* bound: executions that stop between two steps

ASSUME LiveGateAssumption ==
  /\ Proposed \in Contents
  /\ Becomes \in [Contents -> SUBSET Contents]
  /\ Required \in BOOLEAN
  /\ Rechecks \in BOOLEAN
  /\ MaxHalts \in Nat

VARIABLES
  content,   \* what the rows say
  gateRow,   \* the gate's row
  job,       \* jobs.status
  queued,    \* an entry naming the run is in the queue
  pc,        \* where the worker is
  page,      \* the content of the gate page the operator has open
  approved,  \* the content an APPROVED decision was taken on, if any
  decided,   \* the gate has a decision
  used,      \* what the using step worked with, if it has run
  halts      \* executions that stopped short (bounded)

vars == <<content, gateRow, job, queued, pc, page, approved, decided, used, halts>>

Nothing == {}
Just(c) == {c}
Maybe   == {Nothing} \cup {Just(c) : c \in Contents}

TypeOK ==
  /\ content \in Contents
  /\ gateRow \in {"none", "waiting", "passed"}
  /\ job \in {"QUEUED", "RUNNING", "AWAITING_APPROVAL", "PAUSED", "FAILED", "SUCCEEDED"}
  /\ queued \in BOOLEAN
  /\ pc \in {"idle", "gate", "passing", "shutting", "use"}
  /\ page \in Maybe
  /\ approved \in Maybe
  /\ decided \in BOOLEAN
  /\ used \in Maybe
  /\ halts \in Nat

(* The rows have just been proposed and the worker is about to go on.      *)
Init ==
  /\ content = Proposed
  /\ gateRow = "none"
  /\ job = "QUEUED"
  /\ queued = TRUE
  /\ pc = "idle"
  /\ page = Nothing
  /\ approved = Nothing
  /\ decided = FALSE
  /\ used = Nothing
  /\ halts = 0

-----------------------------------------------------------------------------
operator == <<content, page, approved, decided>>

(* The worker takes the run up where its rows say it is; one that reads    *)
(* RUNNING is taken for one in progress, and left alone.                   *)
Claim ==
  /\ queued
  /\ pc = "idle"
  /\ job # "SUCCEEDED"
  /\ queued' = FALSE
  /\ job' = "RUNNING"
  /\ pc' = CASE job = "RUNNING" -> "idle"
             [] job # "RUNNING" /\ gateRow = "passed" -> "use"
             [] OTHER -> "gate"
  /\ UNCHANGED <<operator, gateRow, used, halts>>

(* Mutant: the decision is compared with the rows as they were proposed. *)
MatchesProposed == approved = Just(Proposed)

(* The rows are the ones approved.                                         *)
Matches == approved = Just(content)

(* A gate with nothing to ask is passed without a decision.                *)
ReadApproval ==
  /\ pc = "gate"
  /\ pc' = IF Required => Matches THEN "passing" ELSE "shutting"
  /\ UNCHANGED <<operator, gateRow, job, queued, used, halts>>

PassGate ==
  /\ pc = "passing"
  /\ gateRow' = "passed"
  /\ pc' = "use"
  /\ UNCHANGED <<operator, job, queued, used, halts>>

(* Mutant: the job's status is written into the gate's row. *)
WaitAtGateMistaken ==
  /\ pc = "shutting"
  /\ job' = "AWAITING_APPROVAL"
  /\ gateRow' = job'
  /\ pc' = "idle"
  /\ UNCHANGED <<operator, queued, used, halts>>

WaitAtGate ==
  /\ pc = "shutting"
  /\ gateRow' = "waiting"
  /\ job' = "AWAITING_APPROVAL"
  /\ pc' = "idle"
  /\ UNCHANGED <<operator, queued, used, halts>>

(* Mutant: a step that finds other rows than were approved uses them. *)
UseWhatIsThere ==
  /\ pc = "use"
  /\ used' = Just(content)
  /\ job' = "SUCCEEDED"
  /\ pc' = "idle"
  /\ UNCHANGED <<operator, gateRow, queued, halts>>

(* The using step.  One that compares again finds nothing to compare in a  *)
(* slate that is still empty, and fails on rows nobody approved.           *)
Admissible == Matches \/ (~Required /\ content = Proposed)

Use ==
  /\ pc = "use"
  /\ \/ /\ Rechecks => Admissible
        /\ used' = Just(content)
        /\ job' = "SUCCEEDED"
     \/ /\ Rechecks /\ ~Admissible
        /\ job' = "FAILED"
        /\ UNCHANGED used
  /\ pc' = "idle"
  /\ UNCHANGED <<operator, gateRow, queued, halts>>

(* Step mode or a cap stops the execution between steps; a lost worker     *)
(* leaves RUNNING behind it.                                               *)
StopShort ==
  /\ pc # "idle"
  /\ halts < MaxHalts
  /\ halts' = halts + 1
  /\ job' \in {"PAUSED", "RUNNING"}
  /\ pc' = "idle"
  /\ UNCHANGED <<operator, gateRow, queued, used>>

-----------------------------------------------------------------------------
(* The operator, whose pages ask neither where the run is nor, for a       *)
(* change of the rows, whether the gate is decided.                        *)
engine == <<gateRow, pc, used, halts>>

Resume ==
  /\ pc = "idle" /\ ~queued /\ job # "SUCCEEDED"
  /\ job' = "QUEUED"
  /\ queued' = TRUE
  /\ UNCHANGED <<operator, engine>>

Amend ==
  /\ content' \in Becomes[content]
  /\ UNCHANGED <<page, approved, decided, job, queued, engine>>

OpenPage ==
  /\ page' = Just(content)
  /\ UNCHANGED <<content, approved, decided, job, queued, engine>>

(* A page that has moved is refused, and so is a second decision.          *)
Decide ==
  /\ page = Just(content) /\ ~decided
  /\ decided' = TRUE
  /\ approved' \in {page, Nothing}
  /\ queued' = (queued \/ approved' # Nothing)
  /\ page' = Nothing
  /\ UNCHANGED <<content, job, engine>>

Worker == Claim \/ ReadApproval \/ PassGate \/ WaitAtGate \/ Use
Next == Worker \/ StopShort \/ Resume \/ Amend \/ OpenPage \/ Decide
Spec == Init /\ [][Next]_vars

(* The worker works, and the operator resumes a run that stopped.          *)
FairSpec == Spec /\ WF_vars(Worker) /\ WF_vars(Resume)

-----------------------------------------------------------------------------
(* "What is shown, what is approved and what the valuation reads are one   *)
(* thing": whatever is changed and whenever, no step works with rows       *)
(* nobody approved.                                                        *)
OnlyApprovedIsUsed ==
  used # Nothing => approved = used \/ (~Required /\ used = Just(Proposed))

(* While the rows keep saying what was approved, a run that has not used   *)
(* them yet gets to.                                                       *)
Standing == approved # Nothing /\ used = Nothing /\ [](approved = Just(content))
ApprovedIsUsed == Standing ~> used = approved

-----------------------------------------------------------------------------
(* A gate whose using step compares again is the gate the operator takes   *)
(* it for, however the rows are amended around the decision.               *)
Gate == INSTANCE ApprovalGate
KeepsThePromise == Gate!Spec
=============================================================================
